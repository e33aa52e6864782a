---------------------------- MODULE UserPrompts ----------------------------
(***************************************************************************)
(* What a tool asks the user: askQuestion, askElicitation and askPlan of   *)
(* the tool context (step-executor/tool-context-builder.ts), which are one *)
(* function three times, over their stores (tools/question-store.ts,       *)
(* elicitation-store.ts, plan-store.ts), which are one store three times.  *)
(***************************************************************************)
CONSTANTS Asks,    \* calls of the three, by their request ids
          Runs,
          RunOf,   \* the run of an ask
          Timed,   \* those with a timeout
          Faults   \* those whose events the session store may reject

VARIABLES
  pc,        \* per ask: the await it is at
  shown,     \* those whose request the user can see
  blocked,   \* those for which blocked_on_user was emitted
  cleared,   \* those whose reply was emitted
  requests,  \* of the store
  pending,   \* of the store: those with a resolver
  reply,     \* per ask: what the tool is told
  said,      \* per ask: what the user said
  aborted    \* runs

vars == <<pc, shown, blocked, cleared, requests, pending, reply, said, aborted>>

Answer == {"accept", "decline"}

Init == /\ pc = [a \in Asks |-> "idle"]
        /\ shown = {} /\ blocked = {} /\ cleared = {} /\ requests = {} /\ pending = {}
        /\ reply = [a \in Asks |-> "none"] /\ said = [a \in Asks |-> "none"]
        /\ aborted = {}

Goto(a, s) == pc' = [pc EXCEPT ![a] = s]

(* The tool asks: the event with the request is being appended.            *)
Ask(a) ==
  /\ pc[a] = "idle" /\ Goto(a, "requesting")
  /\ UNCHANGED <<shown, blocked, cleared, requests, pending, reply, said, aborted>>

(* It is published, and the one that says that the run is blocked follows. *)
Requested(a) ==
  /\ pc[a] = "requesting" /\ Goto(a, "blocking") /\ shown' = shown \cup {a}
  /\ UNCHANGED <<blocked, cleared, requests, pending, reply, said, aborted>>

Blocked(a) ==
  /\ pc[a] = "blocking" /\ Goto(a, "blocked") /\ blocked' = blocked \cup {a}
  /\ UNCHANGED <<shown, cleared, requests, pending, reply, said, aborted>>

(* Mutant: a signal that is aborted already is not looked at.              *)
AwaitReplyDeaf(a) ==
  /\ pc[a] = "blocked" /\ requests' = requests \cup {a}
  /\ Goto(a, "awaiting") /\ pending' = pending \cup {a} /\ reply' = reply
  /\ UNCHANGED <<shown, blocked, cleared, said, aborted>>

AwaitReply(a) ==
  /\ pc[a] = "blocked" /\ requests' = requests \cup {a}
  /\ \/ /\ RunOf[a] \in aborted
        /\ Goto(a, "replying") /\ reply' = [reply EXCEPT ![a] = "cancel"] /\ pending' = pending
     \/ /\ RunOf[a] \notin aborted
        /\ Goto(a, "awaiting") /\ pending' = pending \cup {a} /\ reply' = reply
  /\ UNCHANGED <<shown, blocked, cleared, said, aborted>>

(* Mutant: an answer settles whatever the run has asked.                   *)
SettleRun(as, v) ==
  LET run == {b \in pending : \E a \in as : RunOf[b] = RunOf[a]} IN
  /\ pending' = pending \ run
  /\ pc'    = [a \in Asks |-> IF a \in run THEN "replying" ELSE pc[a]]
  /\ reply' = [a \in Asks |-> IF a \in run THEN v ELSE reply[a]]

(* Whoever of them has a resolver continues with v: one answer is taken,   *)
(* and what comes later finds no resolver.                                 *)
Settle(as, v) ==
  /\ pending' = pending \ as
  /\ pc'    = [a \in Asks |-> IF a \in as \cap pending THEN "replying" ELSE pc[a]]
  /\ reply' = [a \in Asks |-> IF a \in as \cap pending THEN v ELSE reply[a]]

(* resolveRequest.  The user answers a request that is shown, once.        *)
UserReplies(a) ==
  /\ a \in shown \ cleared /\ said[a] = "none"
  /\ \E v \in Answer : Settle({a}, v) /\ said' = [said EXCEPT ![a] = v]
  /\ UNCHANGED <<shown, blocked, cleared, requests, aborted>>

(* cancelRequest, of the host.                                             *)
HostCancels(a) ==
  /\ a \in pending /\ Settle({a}, "cancel")
  /\ UNCHANGED <<shown, blocked, cleared, requests, said, aborted>>

TimesOut(a) ==
  /\ a \in Timed \cap pending /\ Settle({a}, "cancel")
  /\ UNCHANGED <<shown, blocked, cleared, requests, said, aborted>>

(* Every wait of the run listens to its signal.                            *)
AbortRun(r) ==
  /\ r \notin aborted /\ aborted' = aborted \cup {r}
  /\ Settle({a \in Asks : RunOf[a] = r}, "cancel")
  /\ UNCHANGED <<shown, blocked, cleared, requests, said>>

(* The event with the reply is out, and the tool is told.                  *)
Replied(a) ==
  /\ pc[a] = "replying" /\ Goto(a, "done") /\ cleared' = cleared \cup {a}
  /\ UNCHANGED <<shown, blocked, requests, pending, reply, said, aborted>>

(* An event is not stored: the ask throws.                                 *)
EventFails(a) ==
  /\ a \in Faults /\ pc[a] \in {"requesting", "blocking", "replying"} /\ Goto(a, "threw")
  /\ UNCHANGED <<shown, blocked, cleared, requests, pending, reply, said, aborted>>

Continues(a) == Requested(a) \/ Blocked(a) \/ AwaitReply(a) \/ Replied(a) \/ EventFails(a)

Next == \/ \E a \in Asks : Ask(a) \/ Continues(a) \/ UserReplies(a) \/ HostCancels(a) \/ TimesOut(a)
        \/ \E r \in Runs : AbortRun(r)

Spec == Init /\ [][Next]_vars

(* The store of the session settles and timers fire; the user need not     *)
(* answer.                                                                 *)
FairSpec == Spec /\ \A a \in Asks : WF_vars(Continues(a)) /\ WF_vars(TimesOut(a))

----------------------------------------------------------------------------
(* A resolver exists exactly while its ask waits: whatever settles it      *)
(* takes the resolver away, and a late answer, timer or abort finds none.  *)
TypeOK ==
  /\ pc \in [Asks -> {"idle", "requesting", "blocking", "blocked", "awaiting", "replying", "done", "threw"}]
  /\ cleared \cup blocked \subseteq shown /\ shown \subseteq Asks /\ aborted \subseteq Runs
  /\ reply \in [Asks -> Answer \cup {"none", "cancel"}] /\ said \in [Asks -> Answer \cup {"none"}]
  /\ pending = {a \in Asks : pc[a] = "awaiting"} /\ pending \subseteq requests

(* A tool that is told accept or decline was asked about by itself: what   *)
(* is said to another ask, of the same run or not, is not taken for it.    *)
ToldWhatWasSaid == \A a \in Asks : reply[a] \in Answer => said[a] = reply[a]

(* Nobody waits for the user on behalf of a run that was aborted, also one *)
(* that began to wait only afterwards.                                     *)
NoWaitAfterAbort == \A a \in pending : RunOf[a] \notin aborted

(* Each wait is settled once, by what was meant for it.                    *)
RepliesAreOwn == TypeOK /\ ToldWhatWasSaid /\ NoWaitAfterAbort

(* The user's card is cleared in the end, by a timeout or an abort too,    *)
(* unless a store that rejects ends the ask.  (The asks are few, so "in    *)
(* the end all" says as much as "each in the end".)                        *)
CardsAreCleared ==
  <>[](\A a \in shown : a \in Timed \/ RunOf[a] \in aborted
                            => a \in cleared \/ pc[a] = "threw")

----------------------------------------------------------------------------
(* What comments say of the stores and the code does not do.               *)

(* "emit question.requested, await the store": no ask goes on waiting for  *)
(* what the user has said since its request was emitted.                   *)
AnswersAreHeard == \A a \in pending : said[a] = "none"

(* "A pending question batch the agent is awaiting an answer for":         *)
(* pendingRequests lists those that are still awaited.                     *)
ListedIsAwaited == requests \subseteq pending
=============================================================================
