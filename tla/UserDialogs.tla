---------------------------- MODULE UserDialogs ----------------------------
(***************************************************************************)
(* The two ways in which a run asks its user: for leave to run a tool      *)
(* (Approvals, with the store of permission/src/saved.ts) and what a tool  *)
(* wants to know (UserPrompts, with the three stores of tools/src).  What  *)
(* they have in common is the signal of a run, which either may see        *)
(* aborted at any of its steps; the stores are their own.  A behaviour is  *)
(* of the one or of the other.                                             *)
(***************************************************************************)
EXTENDS Approvals

CONSTANTS Asks,       \* of UserPrompts, by their request ids
          RunOfAsk,   \* the run of an ask
          Timed,      \* those with a timeout
          Faults      \* those whose events the session store may reject

ASSUME AsksOfRuns == RunOfAsk \in [Asks -> Runs] /\ Timed \cup Faults \subseteq Asks

VARIABLES
  asking,    \* for "approval" or for an "answer"
  awaits, shown, blocked, answered, requests, waits, heard, told, stopped   \* of UserPrompts

prompts == <<awaits, shown, blocked, answered, requests, waits, heard, told, stopped>>

Prompts == INSTANCE UserPrompts
             WITH RunOf <- RunOfAsk, pc <- awaits, cleared <- answered, pending <- waits,
                  reply <- heard, said <- told, aborted <- stopped

AskInit == asking \in {"approval", "answer"} /\ Init /\ Prompts!Init

ForApproval == asking = "approval" /\ UNCHANGED <<asking, prompts>>
ForAnswer   == asking = "answer" /\ UNCHANGED <<asking, vars>>

AskNext == \/ ForApproval /\ Next
           \/ ForAnswer /\ Prompts!Next

askVars == <<asking, vars, prompts>>

AskSpec == AskInit /\ [][AskNext]_askVars

(* The fairness of the two.                                                 *)
AskFairness ==
  /\ \A c \in Calls : WF_askVars(ForApproval /\ Asking(c))
  /\ \A a \in Asks : /\ WF_askVars(ForAnswer /\ Prompts!Continues(a))
                     /\ WF_askVars(ForAnswer /\ Prompts!TimesOut(a))

AskFairSpec == AskSpec /\ AskFairness

(* Of UserPrompts: each wait for the user is settled once, by what was      *)
(* meant for it, and what is shown to the user is cleared in the end.       *)
RepliesAreOwn   == Prompts!RepliesAreOwn
CardsAreCleared == Prompts!CardsAreCleared
=============================================================================
