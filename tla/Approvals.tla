------------------------------ MODULE Approvals ------------------------------
(***************************************************************************)
(* Who may run a tool: the permission gate (step-executor/src/             *)
(* permission-gate.ts), its callers in the tool executor, in a tool's own  *)
(* ctx.ask and in the self-correction, and the store of approvals          *)
(* (permission/src/saved.ts) the runs of a kernel share.                   *)
(*                                                                         *)
(* One tool and one agent.  A call is asked about at most once by a guard, *)
(* once by the gate and once by the tool itself; every await between the   *)
(* first check and the answer is a state of its own.                       *)
(***************************************************************************)
EXTENDS Naturals, FiniteSets

CONSTANTS Calls, Runs, Scopes,
          Whole,             \* the scope of a call without a path or a command
          RunOf, ScopeOf,    \* the run and the scope of a call
          Corrections,       \* calls made by the self-correction
          Escalated,         \* calls a guard escalates
          Cautious,          \* calls whose tool asks for itself while it runs
          SelfApproving,     \* those of them the gate leaves it to
          MaxAsks,           \* maxApprovalAsksPerRun
          Policies, Modes    \* what the host may configure

ASSUME CallsAssumption == /\ RunOf \in [Calls -> Runs] /\ ScopeOf \in [Calls -> Scopes]
                          /\ Whole \in Scopes /\ IsFiniteSet(Calls)
                          /\ SelfApproving \subseteq Cautious /\ Cautious \subseteq Calls
                          /\ Corrections \cap (Escalated \cup Cautious) = {}
ASSUME AsksAssumption  == MaxAsks \in Nat
ASSUME ConfigAssumption == /\ Policies \subseteq {"allow", "ask", "risk", "deny"}
                           /\ Modes \subseteq {"ask", "auto", "approve"}

VARIABLES
  call,        \* where each call is, the dialog it is at and the reply to it
  approvals,   \* savedApprovals and
  rejections,  \* savedRejections, as scopes
  rules,       \* the scopes of the dynamic allow rules
  asks,        \* approvalAskCounts
  pending,     \* the calls with a resolver in the store
  aborted,     \* the runs whose signal is aborted
  policy,      \* what the configured rules say of the tool: "risk" asks by its risk alone
  mode,        \* "ask", "auto" (a classifier first), "approve" (autoApproval)
  opened,      \* the dialogs of which permission.requested is written
  cleared,     \* and those of which permission.replied is
  said         \* what a user, a hook or a host replied at which dialog (history)

config == <<policy, mode>>
saved  == <<approvals, rejections, rules>>
events == <<opened, cleared>>
vars   == <<call, saved, asks, pending, aborted, config, events, said>>

(* judging: before the check;  context: the hook of buildToolContext;       *)
(* requesting, blocking, replying: the events of a dialog;  hooking: the    *)
(* onPermissionAsk hook;  waiting: the store                                *)
Pc     == {"idle", "judging", "context", "classifying", "requesting", "hooking", "blocking",
           "waiting", "replying", "running", "done", "refused", "failed"}
Open   == {"requesting", "hooking", "blocking", "waiting"}
Stage  == {"guard", "gate", "tool"}
Reply  == {"once", "always", "reject"}
By     == {"host", "timeout", "abort"}   \* host: the user, a hook or cancelRequest

(* verdict is kept over the await in context, reply and by over replying.   *)
At(pc, stage) == [pc |-> pc, stage |-> stage, verdict |-> "ask", reply |-> "reject", by |-> "host"]

Init == /\ call = [c \in Calls |-> At("idle", "guard")]
        /\ approvals = {} /\ rejections = {} /\ rules = {}
        /\ asks = [r \in Runs |-> 0]
        /\ pending = {} /\ aborted = {}
        /\ policy \in Policies /\ mode \in Modes
        /\ opened = {} /\ cleared = {} /\ said = {}

----------------------------------------------------------------------------
Covers(scopes, c) == ScopeOf[c] \in scopes \/ Whole \in scopes

(* checkTool: a dynamic rule comes before the risk of the tool and after    *)
(* everything else.                                                         *)
CheckTool(c) ==
  CASE policy \in {"allow", "deny"}             -> policy
    [] policy = "risk" /\ Covers(rules, c)      -> "allow"
    [] OTHER                                    -> "ask"

(* Mutant: a rejection of the whole tool covers no call with a scope.       *)
RejectedExactly(c) == ScopeOf[c] \in rejections

HasSavedRejection(c)  == Covers(rejections, c)
CheckSavedApproval(c) == ~ HasSavedRejection(c) /\ Covers(approvals, c)

Goes(c, pc, stage) == call' = [call EXCEPT ![c] = At(pc, stage)]

(* The reply to an ask is in, and its caller goes on: handleApproval saves  *)
(* it, askForTool adds a rule for the patterns a tool names, the            *)
(* self-correction and a guard keep nothing.                                *)
Saves(c, stage) == stage = "gate" /\ c \notin Corrections

(* Where a call goes with leave.                                            *)
After(stage) == CASE stage = "guard" -> "judging" [] stage = "gate" -> "running" [] OTHER -> "done"

Concludes(c, stage, reply) ==
  /\ approvals'  = approvals \cup {s \in {ScopeOf[c]} : Saves(c, stage) /\ reply = "always"}
  /\ rejections' = rejections \cup {s \in {ScopeOf[c]} : Saves(c, stage) /\ reply = "reject"}
  /\ rules' = rules \cup {s \in {ScopeOf[c]} \ {Whole} :
                           stage = "tool" /\ reply = "always"}
  /\ Goes(c, IF reply = "reject" THEN "refused" ELSE After(stage), stage)

(* Mutant: an ask that opens a dialog is not counted.                       *)
OpensUncounted(c, stage) ==
  \/ /\ asks[RunOf[c]] < MaxAsks
     /\ Goes(c, "requesting", stage)
     /\ UNCHANGED <<asks, saved>>
  \/ /\ asks[RunOf[c]] >= MaxAsks
     /\ Concludes(c, stage, "reject")
     /\ UNCHANGED asks

(* An ask is counted, and opens a dialog unless the run had its share.      *)
Opens(c, stage) ==
  LET r == RunOf[c] IN
  \/ /\ asks[r] < MaxAsks
     /\ asks' = [asks EXCEPT ![r] = @ + 1]
     /\ Goes(c, "requesting", stage)
     /\ UNCHANGED saved
  \/ /\ asks[r] >= MaxAsks
     /\ Concludes(c, stage, "reject")
     /\ UNCHANGED asks

(* askForTool up to its first await.  A guard forces the ask.               *)
AskForTool(c, stage) ==
  \/ /\ stage # "guard" /\ mode = "approve"
     /\ Concludes(c, stage, "once")
     /\ UNCHANGED asks
  \/ /\ stage # "guard" /\ mode = "auto" /\ policy = "risk"
     /\ Goes(c, "classifying", stage)
     /\ UNCHANGED <<asks, saved>>
  \/ /\ stage = "guard" \/ mode = "ask" \/ (mode = "auto" /\ policy # "risk")
     /\ Opens(c, stage)

(* The ask of a tool context: the rules and what is saved come first.       *)
CtxAsk(c, stage) ==
  LET verdict == CheckTool(c) IN
  \/ /\ verdict = "allow" \/ (verdict = "ask" /\ CheckSavedApproval(c))
     /\ Concludes(c, stage, "once")
     /\ UNCHANGED asks
  \/ /\ verdict = "deny" \/ (verdict = "ask" /\ HasSavedRejection(c))
     /\ Concludes(c, stage, "reject")
     /\ UNCHANGED asks
  \/ /\ verdict = "ask" /\ ~ CheckSavedApproval(c) /\ ~ HasSavedRejection(c)
     /\ AskForTool(c, stage)

----------------------------------------------------------------------------
(* A call comes to the executor, or to the self-correction.                 *)
Escalates(c) ==
  /\ call[c].pc = "idle" /\ c \in Escalated
  /\ AskForTool(c, "guard")
  /\ UNCHANGED <<pending, aborted, config, events, said>>

Judges(c) ==
  /\ c \notin Corrections
  /\ call[c].pc = "judging" \/ (call[c].pc = "idle" /\ c \notin Escalated)
  /\ IF CheckTool(c) = "deny"
     THEN Goes(c, "refused", "gate")
     ELSE call' = [call EXCEPT ![c] = [At("context", "gate") EXCEPT !.verdict = CheckTool(c)]]
  /\ UNCHANGED <<saved, asks, pending, aborted, config, events, said>>

(* handleApproval, with the verdict of before the hook.                     *)
Handles(c) ==
  /\ call[c].pc = "context"
  /\ \/ /\ call[c].verdict = "allow" \/ c \in SelfApproving \/ CheckSavedApproval(c)
        /\ Goes(c, "running", "gate")
        /\ UNCHANGED <<saved, asks>>
     \/ /\ call[c].verdict = "ask" /\ c \notin SelfApproving /\ HasSavedRejection(c)
        /\ Goes(c, "refused", "gate")
        /\ UNCHANGED <<saved, asks>>
     \/ /\ call[c].verdict = "ask" /\ c \notin SelfApproving
        /\ ~ CheckSavedApproval(c) /\ ~ HasSavedRejection(c)
        /\ CtxAsk(c, "gate")
  /\ UNCHANGED <<pending, aborted, config, events, said>>

(* The same in the self-correction, without an await in between.            *)
Corrects(c) ==
  LET verdict == CheckTool(c) IN
  /\ c \in Corrections /\ call[c].pc = "idle" /\ RunOf[c] \notin aborted
  /\ \/ /\ verdict = "allow" \/ (verdict = "ask" /\ CheckSavedApproval(c))
        /\ Goes(c, "running", "gate")
        /\ UNCHANGED <<saved, asks>>
     \/ /\ verdict = "deny" \/ (verdict = "ask" /\ HasSavedRejection(c))
        /\ Goes(c, "refused", "gate")
        /\ UNCHANGED <<saved, asks>>
     \/ /\ verdict = "ask" /\ ~ CheckSavedApproval(c) /\ ~ HasSavedRejection(c)
        /\ AskForTool(c, "gate")
  /\ UNCHANGED <<pending, aborted, config, events, said>>

(* The tool runs, and asks for itself if it does so.                        *)
ToolAsks(c) ==
  /\ call[c].pc = "running" /\ c \in Cautious
  /\ CtxAsk(c, "tool")
  /\ UNCHANGED <<pending, aborted, config, events, said>>

ToolActs(c) ==
  /\ call[c].pc = "running" /\ c \notin Cautious
  /\ Goes(c, "done", call[c].stage)
  /\ UNCHANGED <<saved, asks, pending, aborted, config, events, said>>

----------------------------------------------------------------------------
(* A dialog.                                                               *)
Dialog(c) == <<c, call[c].stage>>

Classified(c) ==
  /\ call[c].pc = "classifying"
  /\ \/ Concludes(c, call[c].stage, "once") /\ UNCHANGED asks
     \/ Opens(c, call[c].stage)
  /\ UNCHANGED <<pending, aborted, config, events, said>>

Requested(c) ==
  /\ call[c].pc = "requesting"
  /\ opened' = opened \cup {Dialog(c)}
  /\ Goes(c, "hooking", call[c].stage)
  /\ UNCHANGED <<saved, asks, pending, aborted, config, cleared, said>>

HookPasses(c) ==
  /\ call[c].pc = "hooking"
  /\ Goes(c, "blocking", call[c].stage)
  /\ UNCHANGED <<saved, asks, pending, aborted, config, events, said>>

Settled(cs, by, reply) ==
  call' = [c \in Calls |-> IF c \in cs
                           THEN [call[c] EXCEPT !.pc = "replying", !.by = by, !.reply = reply]
                           ELSE call[c]]

Says(c, reply) == said' = said \cup {[call |-> c, stage |-> call[c].stage, reply |-> reply]}

HookReplies(c, reply) ==
  /\ call[c].pc = "hooking"
  /\ Settled({c}, "host", reply) /\ Says(c, reply)
  /\ UNCHANGED <<saved, asks, pending, aborted, config, events>>

(* blocked_on_user is written and awaitReply entered.                       *)
Awaits(c) ==
  /\ call[c].pc = "blocking"
  /\ \/ /\ RunOf[c] \in aborted
        /\ Settled({c}, "abort", "reject") /\ pending' = pending
     \/ /\ RunOf[c] \notin aborted
        /\ Goes(c, "waiting", call[c].stage) /\ pending' = pending \cup {c}
  /\ UNCHANGED <<saved, asks, aborted, config, events, said>>

(* resolveRequest and cancelRequest find a resolver, or do nothing.         *)
UserReplies(c, reply) ==
  /\ c \in pending
  /\ Settled({c}, "host", reply) /\ Says(c, reply) /\ pending' = pending \ {c}
  /\ UNCHANGED <<saved, asks, aborted, config, events>>

HostCancels(c) ==
  /\ c \in pending
  /\ Settled({c}, "host", "reject") /\ Says(c, "reject") /\ pending' = pending \ {c}
  /\ UNCHANGED <<saved, asks, aborted, config, events>>

(* Mutant: a signal takes the place of the timeout.                         *)
TimesOutUnlessSignalled(c) ==
  /\ call[c].pc = "waiting" /\ RunOf[c] \in aborted
  /\ Settled({c}, "timeout", "reject") /\ pending' = pending \ {c}
  /\ UNCHANGED <<saved, asks, aborted, config, events, said>>

(* Mutant: a reply leaves the timer running.                                *)
TimesOutStill(c) ==
  /\ call[c].pc \in {"waiting", "replying"}
  /\ Settled({c}, "timeout", "reject") /\ pending' = pending \ {c}
  /\ UNCHANGED <<saved, asks, aborted, config, events, said>>

TimesOut(c) ==
  /\ call[c].pc = "waiting"
  /\ Settled({c}, "timeout", "reject") /\ pending' = pending \ {c}
  /\ UNCHANGED <<saved, asks, aborted, config, events, said>>

(* The signal of a run settles the dialogs it waits at.                     *)
AbortRun(r) ==
  LET waiting == {c \in Calls : RunOf[c] = r /\ call[c].pc = "waiting"} IN
  /\ r \notin aborted
  /\ aborted' = aborted \cup {r}
  /\ Settled(waiting, "abort", "reject") /\ pending' = pending \ waiting
  /\ UNCHANGED <<saved, asks, config, events, said>>

(* permission.replied is written and the ask returns.                       *)
Replied(c) ==
  /\ call[c].pc = "replying"
  /\ cleared' = cleared \cup {Dialog(c)}
  /\ Concludes(c, call[c].stage, call[c].reply)
  /\ UNCHANGED <<asks, pending, aborted, config, opened, said>>

(* The store rejects an event: the ask throws and the call fails.           *)
StoreFails(c) ==
  /\ call[c].pc \in {"requesting", "blocking", "replying"}
  /\ Goes(c, "failed", call[c].stage)
  /\ UNCHANGED <<saved, asks, pending, aborted, config, events, said>>

(* setPermissionMode, setAutoApprovalEnabled and the setters of the rules.  *)
Configures ==
  /\ policy' \in Policies /\ mode' \in Modes
  /\ UNCHANGED <<call, saved, asks, pending, aborted, events, said>>

Calling(c) == \/ Escalates(c) \/ Judges(c) \/ Handles(c) \/ Corrects(c)
              \/ ToolAsks(c) \/ ToolActs(c)

Asking(c)  == \/ Classified(c) \/ Requested(c) \/ HookPasses(c)
              \/ \E reply \in Reply : HookReplies(c, reply)
              \/ Awaits(c) \/ TimesOut(c) \/ Replied(c) \/ StoreFails(c)

Next == \/ \E c \in Calls : Calling(c)
        \/ \E c \in Calls : Asking(c)
        \/ \E c \in Calls, reply \in Reply : UserReplies(c, reply)
        \/ \E c \in Calls : HostCancels(c)
        \/ \E r \in Runs : AbortRun(r)
        \/ Configures

Spec == Init /\ [][Next]_vars

(* Classifiers, hooks and stores settle and timers fire; nobody replies,    *)
(* cancels or aborts for certain.                                           *)
Fairness == \A c \in Calls : WF_vars(Asking(c))

FairSpec == Spec /\ Fairness

----------------------------------------------------------------------------
(* Properties.                                                             *)

(* Types; a resolver is in the store exactly while its call waits, so that  *)
(* a late reply finds none.                                                 *)
TypeOK ==
  /\ call \in [Calls -> [pc : Pc, stage : Stage, reply : Reply, by : By,
                         verdict : {"allow", "ask"}]]
  /\ approvals \subseteq Scopes /\ rejections \subseteq Scopes /\ rules \subseteq Scopes
  /\ asks \in [Runs -> 0 .. MaxAsks]
  /\ pending = {c \in Calls : call[c].pc = "waiting"}
  /\ aborted \subseteq Runs
  /\ policy \in Policies /\ mode \in Modes
  /\ opened \subseteq Calls \X Stage /\ cleared \subseteq opened
  /\ said \subseteq [call : Calls, stage : Stage, reply : Reply]

(* What a user, a hook or a host replied at a dialog decides over its call, *)
(* and nothing that comes later does: no second reply, timeout or abort     *)
(* takes its place while it is written down, leave is not turned into a     *)
(* refusal, and after a no at any of its three asks a call goes no further  *)
(* (permission-gate.ts:501-545, saved.ts:121-178).                          *)
AnswersDecide ==
  \A x \in said :
    LET at == call[x.call] IN
    /\ \A y \in said : y.call = x.call /\ y.stage = x.stage => y = x
    /\ at.stage = x.stage =>
         /\ at.pc \notin Open
         /\ at.pc = "replying" => at.reply = x.reply
         /\ at.pc = "refused" => x.reply = "reject"
    /\ x.reply = "reject" => at.stage = x.stage /\ at.pc \in {"replying", "refused", "failed"}

Asked(c, stage, reply) == [call |-> c, stage |-> stage, reply |-> reply] \in said

(* What is saved for later calls was said about one of that scope: an       *)
(* approval by an "always" at the gate, a rule by one at the tool.  A saved *)
(* rejection is of a call the gate refused, and nobody had given it leave;  *)
(* it may come from a timeout, an abort or the valve (RejectionsAreTheUsers).*)
SavedIsSaid ==
  /\ \A s \in approvals : \E c \in Calls \ Corrections :
       ScopeOf[c] = s /\ Asked(c, "gate", "always")
  /\ \A s \in rules : \E c \in Cautious : ScopeOf[c] = s /\ Asked(c, "tool", "always")
  /\ \A s \in rejections : \E c \in Calls \ Corrections :
       /\ ScopeOf[c] = s /\ call[c].pc = "refused" /\ call[c].stage = "gate"
       /\ ~ Asked(c, "gate", "once") /\ ~ Asked(c, "gate", "always")

(* What is said at a dialog decides over the call it was about, and over    *)
(* later calls only as far as it was said.                                  *)
RepliesAreSound == AnswersDecide /\ SavedIsSaid

(* The gate opened a dialog for the call, and it ended with a no.           *)
SaidNo(c) ==
  call[c].pc = "refused" /\ call[c].stage = "gate" /\ <<c, "gate">> \in opened

InAsk == Open \cup {"classifying", "replying"}

(* "Rejections are terminal - never re-prompt": once a dialog of the gate   *)
(* has ended with a no, from the user or by a timeout, neither the          *)
(* classifier nor a user is asked about another call that it covers, by the *)
(* executor, the self-correction or a tool that asks for itself, whichever  *)
(* run the no was given in.  The ask a guard forces looks at no rejection.  *)
(* An ask that was under way goes on: a dialog that was open stays open,    *)
(* and one the classifier had been asked about still opens                  *)
(* (NoDialogAfterRejection).  The self-correction saves no rejection.       *)
NeverAskedAgain ==
  [][\A c \in Calls :
       /\ call[c].pc \notin InAsk /\ call'[c].pc \in InAsk /\ call'[c].stage # "guard"
       => \A d \in Calls \ Corrections :
            SaidNo(d) => ScopeOf[d] \notin {ScopeOf[c], Whole}]_vars

(* A run opens at most MaxAsks dialogs, asked by guards, the gate and tools *)
(* of calls that run side by side.                                          *)
AsksAreBounded ==
  \A r \in Runs : Cardinality({d \in opened : RunOf[d[1]] = r}) <= MaxAsks

Uncleared(c) == {s \in Stage : <<c, s>> \in opened \ cleared}

(* Every dialog is cleared in the end, whether or not anybody answers it,   *)
(* unless the store fails (permission-gate.ts:484-491).  (The dialogs of a  *)
(* call are few, so "in the end all" says as much as "each in the end".)    *)
DialogsAreCleared ==
  <>[](\A c \in Calls : Uncleared(c) = {} \/ call[c].pc = "failed")

----------------------------------------------------------------------------
(* What comments say and the code does not do.                             *)

(* "A rejection is terminal for the matching args - callers must fail the   *)
(* tool instead of re-prompting" (permission-gate.ts:567): no dialog opens  *)
(* for a call once a no covers it.  It does when the no comes while the     *)
(* classifier is asked (permission-gate.ts:369-382).                        *)
NoDialogAfterRejection ==
  [][\A c \in Calls :
       /\ call[c].pc # "requesting" /\ call'[c].pc = "requesting" /\ call'[c].stage = "gate"
       => \A d \in Calls \ Corrections :
            SaidNo(d) => ScopeOf[d] \notin {ScopeOf[c], Whole}]_vars

(* "a saved rejection (explicit reject OR approval timeout)"                *)
(* (permission-gate.ts:566): nothing else is saved as one.                  *)
RejectionsAreTheUsers ==
  [][rejections' # rejections =>
       \E c \in Calls : /\ call[c].pc = "replying" /\ call'[c].pc = "refused"
                       /\ call[c].by \in {"host", "timeout"}]_vars
=============================================================================
