-------------------------- MODULE Approvals_proofs --------------------------
(***************************************************************************)
(* The gate and its store, for any calls, runs, scopes, rules and modes,   *)
(* and the questions of tools, for any asks, timeouts and faults.          *)
(***************************************************************************)
EXTENDS UserDialogs, FiniteSetTheorems, TLAPS

CallType == [pc : Pc, stage : Stage, reply : Reply, by : By, verdict : {"allow", "ask"}]
SaidType == [call : Calls, stage : Stage, reply : Reply]

Types ==
  /\ call \in [Calls -> CallType]
  /\ approvals \subseteq Scopes /\ rejections \subseteq Scopes /\ rules \subseteq Scopes
  /\ asks \in [Runs -> 0 .. MaxAsks] /\ aborted \subseteq Runs
  /\ policy \in Policies /\ mode \in Modes
  /\ opened \subseteq Calls \X Stage /\ cleared \subseteq opened
  /\ said \subseteq SaidType

Registered == pending = {c \in Calls : call[c].pc = "waiting"}

(* The stages a call has come to when it is at one.                         *)
Upto(stage) == CASE stage = "guard" -> {"guard"} [] stage = "gate" -> {"guard", "gate"} [] OTHER -> Stage

(* The asks of a call come one after the other, and a dialog is written     *)
(* down once, on the way through it.                                        *)
InOrder ==
  \A c \in Calls :
    /\ \A s \in Stage : <<c, s>> \in opened => s \in Upto(call[c].stage)
    /\ call[c].pc \in {"idle", "context", "classifying", "requesting"}
         => <<c, call[c].stage>> \notin opened
    /\ call[c].pc \in {"hooking", "blocking", "waiting", "replying"}
         => <<c, call[c].stage>> \in opened
    /\ call[c].pc \in {"idle", "judging"} => call[c].stage = "guard"
    /\ call[c].pc \in {"context", "running"} => call[c].stage = "gate"
    /\ call[c].stage = "tool" => c \in Cautious

(* A reply is given at a dialog, and leave is a reply.                      *)
Heard ==
  /\ \A x \in said : <<x.call, x.stage>> \in opened
  /\ \A c \in Calls : call[c].pc = "replying" /\ call[c].reply # "reject"
                        => Asked(c, call[c].stage, call[c].reply)

(* Every no of a dialog of the gate is in the store.                        *)
RefusalIsSaved == \A d \in Calls \ Corrections : SaidNo(d) => ScopeOf[d] \in rejections

(* The dialogs a run has opened or is about to.                             *)
IsStarted(d, r) == /\ RunOf[d[1]] = r
                   /\ d \in opened \/ (call[d[1]].pc = "requesting" /\ call[d[1]].stage = d[2])
Started(r) == {d \in Calls \X Stage : IsStarted(d, r)}
Counted == \A r \in Runs : Cardinality(Started(r)) <= asks[r]

Sound == InOrder /\ Heard /\ RefusalIsSaved /\ AnswersDecide /\ SavedIsSaid
IInv  == Types /\ Registered /\ Counted /\ Sound

LEMMA StartedFinite == ASSUME NEW r PROVE IsFiniteSet(Started(r)) /\ Cardinality(Started(r)) \in Nat
<1>1. IsFiniteSet(Stage)
  <2>1. IsFiniteSet({"guard"}) /\ IsFiniteSet({"gate"}) /\ IsFiniteSet({"tool"})
    BY FS_Singleton
  <2>2. Stage = ({"guard"} \cup {"gate"}) \cup {"tool"}
    BY DEF Stage
  <2> QED BY <2>1, <2>2, FS_Union
<1>2. IsFiniteSet(Calls \X Stage)
  BY <1>1, FS_Product, CallsAssumption
<1> QED BY <1>2, FS_Subset, FS_CardinalityType DEF Started

(* One call moves, the others stay where they are.                          *)
Moved(c, pc, stage) ==
  /\ call' \in [Calls -> CallType]
  /\ call'[c].pc = pc /\ call'[c].stage = stage
  /\ \A d \in Calls : d # c => call'[d] = call[d]

LEMMA GoesMoves ==
  ASSUME Types, NEW c \in Calls, NEW pc \in Pc, NEW stage \in Stage, Goes(c, pc, stage)
  PROVE  Moved(c, pc, stage)
<1>1. At(pc, stage) \in CallType /\ At(pc, stage).pc = pc /\ At(pc, stage).stage = stage
  BY DEF At, CallType, Reply, By
<1> QED BY <1>1 DEF Goes, Types, Moved

(* What an ask comes to before its next await: an answer, a dialog, or the  *)
(* classifier.                                                              *)
Outcome(c, stage) ==
  \/ \E reply \in {"once", "reject"} : Concludes(c, stage, reply) /\ UNCHANGED asks
  \/ /\ asks[RunOf[c]] < MaxAsks
     /\ asks' = [asks EXCEPT ![RunOf[c]] = @ + 1]
     /\ Goes(c, "requesting", stage)
     /\ UNCHANGED saved
  \/ Goes(c, "classifying", stage) /\ UNCHANGED <<asks, saved>>

LEMMA OpensOutcome == ASSUME NEW c, NEW stage, Opens(c, stage) PROVE Outcome(c, stage)
  BY DEF Opens, Outcome

LEMMA AskOutcome == ASSUME NEW c, NEW stage, AskForTool(c, stage) PROVE Outcome(c, stage)
  BY OpensOutcome DEF AskForTool, Outcome

LEMMA CtxOutcome == ASSUME NEW c, NEW stage, CtxAsk(c, stage) PROVE Outcome(c, stage)
  BY AskOutcome DEF CtxAsk, Outcome

(* A move that opens no dialog counts none.                                 *)
LEMMA CountKept ==
  ASSUME Types, Counted, NEW c \in Calls, NEW pc, NEW stage, Moved(c, pc, stage),
         pc # "requesting", UNCHANGED <<asks, opened>>
  PROVE  Counted'
<1>1. \A r \in Runs : Started(r)' \subseteq Started(r)
  <2> SUFFICES ASSUME NEW r \in Runs, NEW d \in Started(r)' PROVE d \in Started(r)
    OBVIOUS
  <2>1. /\ d \in Calls \X Stage /\ d[1] \in Calls /\ RunOf[d[1]] = r /\ opened' = opened
        /\ d \in opened' \/ (call'[d[1]].pc = "requesting" /\ call'[d[1]].stage = d[2])
    BY DEF Started, IsStarted
  <2>2. call'[d[1]].pc = "requesting" => call'[d[1]] = call[d[1]]
    BY <2>1 DEF Moved
  <2>3. d \in opened \/ (call[d[1]].pc = "requesting" /\ call[d[1]].stage = d[2])
    BY <2>1, <2>2
  <2>4. IsStarted(d, r)
    BY <2>1, <2>3 DEF IsStarted
  <2> QED BY <2>1, <2>4 DEF Started
<1>2. \A r \in Runs : /\ Cardinality(Started(r)') <= Cardinality(Started(r))
                     /\ Cardinality(Started(r)') \in Nat
  BY <1>1, StartedFinite, FS_Subset, FS_CardinalityType
<1>3. \A r \in Runs : asks[r] \in Nat /\ Cardinality(Started(r)) \in Nat
  BY StartedFinite, AsksAssumption DEF Types
<1> QED BY <1>2, <1>3 DEF Counted

----------------------------------------------------------------------------
(* What is said and what is saved, move by move.                           *)

(* A call comes to a stage at which no dialog of it was opened, or fails    *)
(* where it is; nothing is said or saved.                                   *)
ComesTo(c, pc, stage) ==
  /\ Upto(call[c].stage) \subseteq Upto(stage)
  /\ pc \in {"context", "running"} => stage = "gate"
  /\ pc \in {"context", "classifying", "requesting", "refused"} => <<c, stage>> \notin opened
  /\ stage = "tool" => c \in Cautious
  /\ call[c].pc = "replying" => pc = "failed" /\ stage = call[c].stage

(* What is saved stays said while refused calls stay refused.               *)
LEMMA SavedKept ==
  ASSUME SavedIsSaid, UNCHANGED saved,
         \A d \in Calls : call[d].pc = "refused" => call'[d] = call[d],
         \A d \in Calls, s \in Stage, q \in Reply : Asked(d, s, q) => Asked(d, s, q)',
         \A d \in Calls, s \in Stage, q \in Reply :
           call[d].pc = "refused" /\ Asked(d, s, q)' => Asked(d, s, q)
  PROVE  SavedIsSaid'
<1>1. /\ approvals' = approvals /\ rejections' = rejections /\ rules' = rules
      /\ Cautious \subseteq Calls /\ {"gate", "tool"} \subseteq Stage /\ {"once", "always"} \subseteq Reply
  BY CallsAssumption DEF saved, Stage, Reply
<1>2. \A s \in approvals : \E c \in Calls \ Corrections :
        ScopeOf[c] = s /\ Asked(c, "gate", "always")'
  BY <1>1 DEF SavedIsSaid
<1>3. \A s \in rules : \E c \in Cautious : ScopeOf[c] = s /\ Asked(c, "tool", "always")'
  BY <1>1 DEF SavedIsSaid
<1>4. \A s \in rejections : \E c \in Calls \ Corrections :
        /\ ScopeOf[c] = s /\ call'[c].pc = "refused" /\ call'[c].stage = "gate"
        /\ ~ Asked(c, "gate", "once")' /\ ~ Asked(c, "gate", "always")'
  BY <1>1 DEF SavedIsSaid
<1> QED BY <1>1, <1>2, <1>3, <1>4 DEF SavedIsSaid

LEMMA PlainSound ==
  ASSUME IInv, NEW c \in Calls, NEW stage \in Stage,
         NEW pc \in {"context", "running", "done", "refused", "failed", "classifying", "requesting"},
         ComesTo(c, pc, stage),
         Moved(c, pc, stage), call[c].pc \notin {"refused", "failed"},
         UNCHANGED <<saved, opened, said>>
  PROVE  Sound'
<1> USE DEF IInv, Sound, Moved
<1>0. \A x \in said : x.call \in Calls /\ x.stage \in Stage
  BY DEF Types, SaidType
<1>1. InOrder'
  BY DEF InOrder, ComesTo
<1>2. Heard'
  BY DEF Heard, Asked
<1>3. RefusalIsSaved'
  BY DEF RefusalIsSaved, SaidNo, saved, ComesTo
<1>4. AnswersDecide'
  <2> SUFFICES ASSUME NEW x \in said PROVE
        /\ call'[x.call].stage = x.stage =>
             /\ call'[x.call].pc \notin Open
             /\ call'[x.call].pc = "replying" => call'[x.call].reply = x.reply
             /\ call'[x.call].pc = "refused" => x.reply = "reject"
        /\ x.reply = "reject" =>
             call'[x.call].stage = x.stage /\ call'[x.call].pc \in {"replying", "refused", "failed"}
    BY DEF AnswersDecide
  <2>1. CASE x.call # c
    BY <1>0, <2>1 DEF AnswersDecide
  <2>2. CASE x.call = c
    <3>1. <<c, x.stage>> \in opened
      BY <2>2 DEF Heard
    <3>2. stage = x.stage => pc \notin {"context", "classifying", "requesting", "refused"}
      BY <3>1 DEF ComesTo
    <3>3. x.reply = "reject" => pc = "failed" /\ stage = x.stage
      BY <2>2 DEF AnswersDecide, ComesTo
    <3> QED BY <2>2, <3>2, <3>3 DEF Open
  <2> QED BY <2>1, <2>2
<1>5. SavedIsSaid'
  BY SavedKept DEF Asked
<1> QED BY <1>1, <1>2, <1>3, <1>4, <1>5

(* The dialog is written down.                                              *)
LEMMA RequestSound ==
  ASSUME IInv, NEW c \in Calls, call[c].pc = "requesting", Moved(c, "hooking", call[c].stage),
         opened' = opened \cup {<<c, call[c].stage>>}, UNCHANGED <<saved, said>>
  PROVE  Sound'
<1> USE DEF IInv, Sound, Moved
<1>0. /\ \A x \in said : x.call \in Calls /\ x.stage \in Stage
      /\ call[c].stage \in Stage /\ call[c].stage \in Upto(call[c].stage)
  BY DEF Types, SaidType, CallType, Upto, Stage
<1>1. InOrder'
  <2> SUFFICES ASSUME NEW d \in Calls PROVE
        /\ \A s \in Stage : <<d, s>> \in opened' => s \in Upto(call'[d].stage)
        /\ call'[d].pc \in {"idle", "context", "classifying", "requesting"}
             => <<d, call'[d].stage>> \notin opened'
        /\ call'[d].pc \in {"hooking", "blocking", "waiting", "replying"}
             => <<d, call'[d].stage>> \in opened'
        /\ call'[d].pc \in {"idle", "judging"} => call'[d].stage = "guard"
        /\ call'[d].pc \in {"context", "running"} => call'[d].stage = "gate"
        /\ call'[d].stage = "tool" => d \in Cautious
    BY DEF InOrder
  <2>1. CASE d = c
    BY <1>0, <2>1 DEF InOrder
  <2>2. CASE d # c
    <3>1. \A s : <<d, s>> \in opened' <=> <<d, s>> \in opened
      BY <2>2
    <3> QED BY <2>2, <3>1 DEF InOrder
  <2> QED BY <2>1, <2>2
<1>2. Heard'
  BY DEF Heard, Asked
<1>3. RefusalIsSaved'
  <2> SUFFICES ASSUME NEW d \in Calls \ Corrections, SaidNo(d)' PROVE ScopeOf[d] \in rejections
    BY DEF RefusalIsSaved, saved
  <2>1. d # c
    BY DEF SaidNo
  <2>2. SaidNo(d)
    BY <2>1 DEF SaidNo
  <2> QED BY <2>2 DEF RefusalIsSaved
<1>4. AnswersDecide'
  <2>1. \A x \in said : x.call = c => x.stage # call[c].stage /\ x.reply # "reject"
    BY DEF AnswersDecide, Open
  <2> QED BY <1>0, <2>1 DEF AnswersDecide
<1>5. SavedIsSaid'
  BY SavedKept DEF Asked
<1> QED BY <1>1, <1>2, <1>3, <1>4, <1>5

(* A dialog goes on in silence: towards its wait, or to the no of a timeout *)
(* or an abort.  cs are the calls that move.                                *)
LEMMA SilenceSound ==
  ASSUME IInv, NEW cs \in SUBSET Calls, call' \in [Calls -> CallType],
         \A c \in cs : /\ call[c].pc \in {"hooking", "blocking", "waiting"}
                       /\ call'[c].pc \in {"blocking", "waiting", "replying"}
                       /\ call'[c].stage = call[c].stage
                       /\ call'[c].pc = "replying" => call'[c].reply = "reject",
         \A d \in Calls \ cs : call'[d] = call[d],
         UNCHANGED <<saved, opened, said>>
  PROVE  Sound'
<1> USE DEF IInv, Sound
<1>0. \A x \in said : x.call \in Calls /\ x.stage \in Stage
  BY DEF Types, SaidType
<1>1. InOrder'
  BY DEF InOrder
<1>2. Heard'
  BY DEF Heard, Asked
<1>3. RefusalIsSaved'
  <2>1. \A d \in Calls : SaidNo(d)' => SaidNo(d)
    BY DEF SaidNo
  <2> QED BY <2>1 DEF RefusalIsSaved, saved
<1>4. AnswersDecide'
  <2>1. \A x \in said : x.call \in cs => x.stage # call[x.call].stage /\ x.reply # "reject"
    BY DEF AnswersDecide, Open
  <2> QED BY <1>0, <2>1 DEF AnswersDecide
<1>5. SavedIsSaid'
  <2>1. \A c \in Calls : call[c].pc = "refused" => call'[c] = call[c]
    OBVIOUS
  <2> QED BY <2>1, SavedKept DEF Asked
<1> QED BY <1>1, <1>2, <1>3, <1>4, <1>5

(* A user, a hook or a host replies.                                        *)
LEMMA ReplySound ==
  ASSUME IInv, NEW c \in Calls, NEW reply \in Reply, call[c].pc \in {"hooking", "waiting"},
         Moved(c, "replying", call[c].stage), call'[c].reply = reply, Says(c, reply),
         UNCHANGED <<saved, opened>>
  PROVE  Sound'
<1> USE DEF IInv, Sound, Moved
<1> DEFINE x == [call |-> c, stage |-> call[c].stage, reply |-> reply]
<1>0. /\ \A y \in said : y.call \in Calls /\ y.stage \in Stage
      /\ said' = said \cup {x} /\ x.call = c /\ x.stage = call[c].stage /\ x.reply = reply
  BY DEF Types, SaidType, Says
<1> HIDE DEF x
<1>1. InOrder'
  BY DEF InOrder
<1>2. Heard'
  <2>1. \A y \in said' : <<y.call, y.stage>> \in opened'
    BY <1>0 DEF Heard, InOrder
  <2>2. Asked(c, call[c].stage, call[c].reply)'
    BY <1>0 DEF Asked, x
  <2>3. \A d \in Calls : d # c /\ call'[d].pc = "replying" /\ call'[d].reply # "reject"
                           => Asked(d, call[d].stage, call[d].reply)'
    BY <1>0 DEF Heard, Asked
  <2> QED BY <2>1, <2>2, <2>3 DEF Heard
<1>3. RefusalIsSaved'
  <2>1. \A d \in Calls : SaidNo(d)' => SaidNo(d)
    BY DEF SaidNo
  <2> QED BY <2>1 DEF RefusalIsSaved, saved
<1>4. AnswersDecide'
  <2>1. \A y \in said : y.call = c => y.stage # call[c].stage /\ y.reply # "reject"
    BY DEF AnswersDecide, Open
  <2> QED BY <1>0, <2>1 DEF AnswersDecide, Open
<1>5. SavedIsSaid'
  <2>1. \A d \in Calls, s \in Stage, q \in Reply : Asked(d, s, q) => Asked(d, s, q)'
    BY <1>0 DEF Asked
  <2>2. \A d \in Calls : call[d].pc = "refused" => call'[d] = call[d] /\ d # c
    OBVIOUS
  <2>3. \A d \in Calls, s \in Stage, q \in Reply :
          call[d].pc = "refused" /\ Asked(d, s, q)' => Asked(d, s, q)
    BY <1>0, <2>2 DEF Asked, x
  <2> QED BY <2>1, <2>2, <2>3, SavedKept
<1> QED BY <1>1, <1>2, <1>3, <1>4, <1>5

(* Where an ask may be concluded: behind a dialog, with what was replied,   *)
(* or at a stage at which no dialog of the call was opened.                 *)
Ready(c, stage) ==
  /\ call[c].pc \in {"idle", "context", "running", "classifying"}
  /\ <<c, stage>> \notin opened
  /\ Upto(call[c].stage) \subseteq Upto(stage)
  /\ stage = "tool" => c \in Cautious

LEMMA ConcludesSound ==
  ASSUME IInv, NEW c \in Calls, NEW stage \in Stage, NEW reply \in Reply,
         \/ Ready(c, stage) /\ reply # "always"
         \/ call[c].pc = "replying" /\ stage = call[c].stage /\ reply = call[c].reply,
         Concludes(c, stage, reply), UNCHANGED <<opened, said>>
  PROVE  Sound'
<1> USE DEF IInv, Sound
<1> DEFINE pc == IF reply = "reject" THEN "refused" ELSE After(stage)
<1>1. /\ pc \in {"refused", "judging", "running", "done"} /\ (reply = "reject" <=> pc = "refused")
      /\ pc = "judging" => stage = "guard"
      /\ pc = "running" => stage = "gate"
  BY DEF After, Stage
<1>2. Moved(c, pc, stage)
  <2>1. Types /\ pc \in Pc /\ Goes(c, pc, stage)
    BY <1>1 DEF Pc, Concludes
  <2> QED BY <2>1, GoesMoves
<1> HIDE DEF pc
<1> USE DEF Moved
<1>3. /\ rejections \subseteq rejections'
      /\ \A s \in approvals' \ approvals :
           s = ScopeOf[c] /\ c \notin Corrections /\ stage = "gate" /\ reply = "always"
      /\ \A s \in rejections' \ rejections :
           s = ScopeOf[c] /\ c \notin Corrections /\ stage = "gate" /\ reply = "reject"
      /\ \A s \in rules' \ rules : s = ScopeOf[c] /\ stage = "tool" /\ reply = "always"
      /\ stage = "gate" /\ c \notin Corrections /\ reply = "reject" => ScopeOf[c] \in rejections'
  BY DEF Concludes, Saves
<1>4. /\ \A x \in said : x.call \in Calls /\ x.stage \in Stage
      /\ \A x \in said : x.call = c /\ x.stage = stage => x.reply = reply
      /\ \A x \in said : x.call = c /\ x.reply = "reject" => x.stage = stage
      /\ reply = "always" => Asked(c, stage, "always")
      /\ Upto(call[c].stage) \subseteq Upto(stage) /\ (stage = "tool" => c \in Cautious)
  <2>1. \A x \in said : x.call \in Calls /\ x.stage \in Stage
    BY DEF Types, SaidType
  <2>2. CASE Ready(c, stage) /\ reply # "always"
    <3>1. \A x \in said : x.call = c => x.stage # stage
      BY <2>2 DEF Ready, Heard
    <3>2. \A x \in said : x.call = c => x.reply # "reject"
      BY <2>2 DEF Ready, AnswersDecide
    <3> QED BY <2>1, <2>2, <3>1, <3>2 DEF Ready
  <2>3. CASE call[c].pc = "replying" /\ stage = call[c].stage /\ reply = call[c].reply
    <3>1. \A x \in said : x.call = c /\ x.stage = stage => x.reply = reply
      BY <2>3 DEF AnswersDecide
    <3>2. \A x \in said : x.call = c /\ x.reply = "reject" => x.stage = stage
      BY <2>3 DEF AnswersDecide
    <3>3. reply = "always" => Asked(c, stage, "always")
      BY <2>3 DEF Heard
    <3>4. stage = "tool" => c \in Cautious
      BY <2>3 DEF InOrder
    <3> QED BY <2>1, <2>3, <3>1, <3>2, <3>3, <3>4
  <2> QED BY <2>1, <2>2, <2>3
<1>5. call[c].pc \notin {"refused", "failed"}
  BY DEF Ready
<1>6. InOrder'
  BY <1>1, <1>2, <1>4 DEF InOrder
<1>7. Heard'
  BY <1>1, <1>2 DEF Heard, Asked
<1>8. RefusalIsSaved'
  <2> SUFFICES ASSUME NEW d \in Calls \ Corrections, SaidNo(d)' PROVE ScopeOf[d] \in rejections'
    BY DEF RefusalIsSaved
  <2>1. CASE d = c
    BY <1>1, <1>2, <1>3, <2>1 DEF SaidNo
  <2>2. CASE d # c
    BY <1>2, <1>3, <2>2 DEF SaidNo, RefusalIsSaved
  <2> QED BY <2>1, <2>2
<1>9. AnswersDecide'
  <2> SUFFICES ASSUME NEW x \in said PROVE
        /\ call'[x.call].stage = x.stage =>
             /\ call'[x.call].pc \notin Open
             /\ call'[x.call].pc = "replying" => call'[x.call].reply = x.reply
             /\ call'[x.call].pc = "refused" => x.reply = "reject"
        /\ x.reply = "reject" =>
             call'[x.call].stage = x.stage /\ call'[x.call].pc \in {"replying", "refused", "failed"}
    BY DEF AnswersDecide
  <2>1. CASE x.call # c
    BY <1>2, <1>4, <2>1 DEF AnswersDecide
  <2>2. CASE x.call = c
    BY <1>1, <1>2, <1>4, <2>2 DEF Open
  <2> QED BY <2>1, <2>2
<1>10. SavedIsSaid'
  <2>1. \A d \in Calls, s \in Stage, q \in Reply : Asked(d, s, q)' <=> Asked(d, s, q)
    BY DEF Asked
  <2>2. \A d \in Calls : call[d].pc = "refused" => call'[d] = call[d]
    BY <1>2, <1>5
  <2>3. \A s \in approvals' : \E d \in Calls \ Corrections :
          ScopeOf[d] = s /\ Asked(d, "gate", "always")
    BY <1>3, <1>4 DEF SavedIsSaid
  <2>4. \A s \in rules' : \E d \in Cautious : ScopeOf[d] = s /\ Asked(d, "tool", "always")
    BY <1>3, <1>4 DEF SavedIsSaid
  <2>5. \A s \in rejections' : \E d \in Calls \ Corrections :
          /\ ScopeOf[d] = s /\ call'[d].pc = "refused" /\ call'[d].stage = "gate"
          /\ ~ Asked(d, "gate", "once") /\ ~ Asked(d, "gate", "always")
    <3> SUFFICES ASSUME NEW s \in rejections' PROVE
          \E d \in Calls \ Corrections :
            /\ ScopeOf[d] = s /\ call'[d].pc = "refused" /\ call'[d].stage = "gate"
            /\ ~ Asked(d, "gate", "once") /\ ~ Asked(d, "gate", "always")
      OBVIOUS
    <3>1. CASE s \in rejections
      BY <2>2, <3>1 DEF SavedIsSaid
    <3>2. CASE s \notin rejections
      <4>1. s = ScopeOf[c] /\ c \in Calls \ Corrections /\ stage = "gate" /\ reply = "reject"
        BY <1>3, <3>2
      <4>2. call'[c].pc = "refused" /\ call'[c].stage = "gate"
        BY <1>1, <1>2, <4>1
      <4>3. ~ Asked(c, "gate", "once") /\ ~ Asked(c, "gate", "always")
        BY <1>4, <4>1 DEF Asked
      <4> QED BY <4>1, <4>2, <4>3
    <3> QED BY <3>1, <3>2
  <2>6. Cautious \subseteq Calls
    BY CallsAssumption
  <2>7. {"gate", "tool"} \subseteq Stage /\ {"once", "always"} \subseteq Reply
    BY DEF Stage, Reply
  <2> QED BY <2>1, <2>3, <2>4, <2>5, <2>6, <2>7 DEF SavedIsSaid
<1> QED BY <1>6, <1>7, <1>8, <1>9, <1>10

----------------------------------------------------------------------------
(* The invariant, move by move.                                            *)
LEMMA MovePlain ==
  ASSUME IInv, NEW c \in Calls, NEW stage \in Stage,
         NEW pc \in {"context", "running", "done", "refused", "failed", "classifying"},
         ComesTo(c, pc, stage),
         Moved(c, pc, stage), call[c].pc \notin {"refused", "failed", "waiting"},
         UNCHANGED <<saved, asks, pending, aborted, config, events, said>>
  PROVE  IInv'
<1>1. Types'
  BY DEF IInv, Types, Moved, saved, events, config
<1>2. Registered'
  BY DEF IInv, Registered, Moved
<1>3. Sound'
  BY PlainSound DEF events
<1>4. Counted'
  BY CountKept DEF IInv, events
<1> QED BY <1>1, <1>2, <1>3, <1>4 DEF IInv

(* An ask is answered, whatever else is written of its dialog.              *)
LEMMA ConcludesKeeps ==
  ASSUME IInv, NEW c \in Calls, NEW stage \in Stage, NEW reply \in Reply,
         \/ Ready(c, stage) /\ reply # "always"
         \/ call[c].pc = "replying" /\ stage = call[c].stage /\ reply = call[c].reply,
         Concludes(c, stage, reply), cleared' \subseteq opened,
         UNCHANGED <<asks, pending, aborted, config, opened, said>>
  PROVE  IInv' /\ call'[c].pc \notin InAsk /\ (\A d \in Calls : d # c => call'[d] = call[d])
<1> DEFINE pc == IF reply = "reject" THEN "refused" ELSE After(stage)
<1>1. pc \in {"refused", "judging", "running", "done"} /\ call[c].pc # "waiting"
  BY DEF After, Stage, Ready
<1>2. Moved(c, pc, stage)
  <2>1. Types /\ pc \in Pc /\ Goes(c, pc, stage)
    BY <1>1 DEF IInv, Pc, Concludes
  <2> QED BY <2>1, GoesMoves
<1> HIDE DEF pc
<1>3. /\ approvals' \subseteq approvals \cup {ScopeOf[c]}
      /\ rejections' \subseteq rejections \cup {ScopeOf[c]}
      /\ rules' \subseteq rules \cup {ScopeOf[c]} /\ ScopeOf[c] \in Scopes
  BY CallsAssumption DEF Concludes
<1>4. Types'
  BY <1>2, <1>3 DEF IInv, Types, Moved, config
<1>5. Registered'
  BY <1>1, <1>2 DEF IInv, Registered, Moved
<1>6. Sound'
  BY ConcludesSound
<1>7. Counted'
  BY <1>1, <1>2, CountKept DEF IInv
<1>8. call'[c].pc \notin InAsk /\ (\A d \in Calls : d # c => call'[d] = call[d])
  BY <1>1, <1>2 DEF InAsk, Open, Moved
<1> QED BY <1>4, <1>5, <1>6, <1>7, <1>8 DEF IInv

(* A dialog is counted before it is requested.                              *)
LEMMA OpeningKeeps ==
  ASSUME IInv, NEW c \in Calls, NEW stage \in Stage, Moved(c, "requesting", stage),
         Ready(c, stage), asks[RunOf[c]] < MaxAsks,
         asks' = [asks EXCEPT ![RunOf[c]] = @ + 1],
         UNCHANGED <<saved, said, pending, aborted, config, events>>
  PROVE  IInv'
<1> DEFINE r == RunOf[c]
<1>0. r \in Runs
  BY CallsAssumption
<1>1. Types'
  <2>1. asks' \in [Runs -> 0 .. MaxAsks]
    <3>1. asks[r] \in 0 .. MaxAsks /\ asks[r] < MaxAsks
      BY <1>0 DEF IInv, Types
    <3>2. asks[r] + 1 \in 0 .. MaxAsks
      BY <3>1, AsksAssumption
    <3> QED BY <3>2 DEF IInv, Types
  <2> QED BY <2>1 DEF IInv, Types, Moved, saved, events, config
<1>2. Registered'
  BY DEF IInv, Registered, Moved, Ready
<1>3. Sound'
  BY PlainSound DEF Ready, ComesTo, events
<1>4. Counted'
  <2> SUFFICES ASSUME NEW q \in Runs PROVE Cardinality(Started(q)') <= asks'[q]
    BY DEF Counted
  <2>1. ASSUME NEW d \in Started(q)' PROVE d \in Started(q) \/ (q = r /\ d = <<c, stage>>)
    <3>1. d \in Calls \X Stage /\ d[1] \in Calls /\ IsStarted(d, q)'
      BY <2>1 DEF Started
    <3>2. CASE d[1] = c
      <4>1. CASE d \in opened
        BY <3>1, <4>1 DEF Started, IsStarted
      <4>2. CASE d \notin opened
        <5>1. call'[c].stage = d[2] /\ RunOf[c] = q
          BY <3>1, <3>2, <4>2 DEF IsStarted, events
        <5>2. d[2] = stage /\ q = r
          BY <5>1 DEF Moved
        <5> QED BY <3>1, <3>2, <5>2
      <4> QED BY <4>1, <4>2
    <3>3. CASE d[1] # c
      <4>1. call'[d[1]] = call[d[1]] /\ opened' = opened
        BY <3>1, <3>3 DEF Moved, events
      <4>2. IsStarted(d, q)
        BY <3>1, <4>1 DEF IsStarted
      <4> QED BY <3>1, <4>2 DEF Started
    <3> QED BY <3>2, <3>3
  <2>2. /\ IsFiniteSet(Started(q)) /\ Cardinality(Started(q)) \in Nat
        /\ Cardinality(Started(q)) <= asks[q] /\ asks[q] \in Nat
    BY StartedFinite, AsksAssumption DEF IInv, Counted, Types
  <2>3. CASE q = r
    <3>1. Started(q)' \subseteq Started(q) \cup {<<c, stage>>}
      BY <2>1
    <3>2. /\ IsFiniteSet(Started(q) \cup {<<c, stage>>})
          /\ Cardinality(Started(q) \cup {<<c, stage>>}) <= Cardinality(Started(q)) + 1
          /\ Cardinality(Started(q) \cup {<<c, stage>>}) \in Nat
      <4>1. /\ IsFiniteSet(Started(q) \cup {<<c, stage>>})
            /\ Cardinality(Started(q) \cup {<<c, stage>>}) \in
                 {Cardinality(Started(q)), Cardinality(Started(q)) + 1}
        BY <2>2, FS_AddElement
      <4> QED BY <2>2, <4>1
    <3>3. /\ Cardinality(Started(q)') <= Cardinality(Started(q) \cup {<<c, stage>>})
          /\ Cardinality(Started(q)') \in Nat
      BY <3>1, <3>2, FS_Subset, FS_CardinalityType
    <3>4. asks'[q] = asks[q] + 1
      BY <2>3 DEF IInv, Types
    <3> QED BY <2>2, <3>2, <3>3, <3>4
  <2>4. CASE q # r
    <3>1. Started(q)' \subseteq Started(q)
      BY <2>1, <2>4
    <3>2. Cardinality(Started(q)') <= Cardinality(Started(q))
      BY <2>2, <3>1, FS_Subset
    <3>3. Cardinality(Started(q)') \in Nat
      BY <2>2, <3>1, FS_Subset, FS_CardinalityType
    <3>4. asks'[q] = asks[q]
      BY <2>4 DEF IInv, Types
    <3> QED BY <2>2, <3>2, <3>3, <3>4
  <2> QED BY <2>3, <2>4
<1> QED BY <1>1, <1>2, <1>3, <1>4 DEF IInv

LEMMA OutcomeMoves ==
  ASSUME Types, NEW c \in Calls, NEW stage \in Stage, Outcome(c, stage)
  PROVE  \E pc \in Pc : Moved(c, pc, stage)
<1>1. \A pc \in Pc : Goes(c, pc, stage) => Moved(c, pc, stage)
  BY GoesMoves
<1>2. {"requesting", "classifying", "refused"} \subseteq Pc /\ After(stage) \in Pc
  BY DEF Pc, After, Stage
<1>3. ASSUME NEW reply \in Reply, Concludes(c, stage, reply) PROVE \E pc \in Pc : Goes(c, pc, stage)
  BY <1>2, <1>3 DEF Concludes
<1> QED BY <1>1, <1>2, <1>3 DEF Outcome, Reply

LEMMA OutcomeKeeps ==
  ASSUME IInv, NEW c \in Calls, NEW stage \in Stage, Outcome(c, stage), Ready(c, stage),
         UNCHANGED <<pending, aborted, config, events, said>>
  PROVE  IInv'
<1>1. ASSUME NEW reply \in {"once", "reject"}, Concludes(c, stage, reply), UNCHANGED asks PROVE IInv'
  <2>1. cleared' \subseteq opened /\ opened' = opened
    BY DEF IInv, Types, events
  <2> QED BY <1>1, <2>1, ConcludesKeeps DEF Reply
<1>2. CASE /\ asks[RunOf[c]] < MaxAsks /\ asks' = [asks EXCEPT ![RunOf[c]] = @ + 1]
           /\ Goes(c, "requesting", stage) /\ UNCHANGED saved
  <2>1. Moved(c, "requesting", stage)
    BY <1>2, GoesMoves DEF IInv, Pc
  <2> QED BY <1>2, <2>1, OpeningKeeps
<1>3. CASE Goes(c, "classifying", stage) /\ UNCHANGED <<asks, saved>>
  <2>1. Moved(c, "classifying", stage)
    BY <1>3, GoesMoves DEF IInv, Pc
  <2>2. ComesTo(c, "classifying", stage) /\ call[c].pc \notin {"refused", "failed", "waiting"}
    BY DEF Ready, ComesTo
  <2> QED BY <1>3, <2>1, <2>2, MovePlain
<1> QED BY <1>1, <1>2, <1>3 DEF Outcome

(* A dialog goes on.                                                        *)
LEMMA DialogKeeps ==
  ASSUME IInv, NEW c \in Calls, NEW pc \in {"blocking", "waiting", "replying"},
         Moved(c, pc, call[c].stage), call[c].pc \in {"hooking", "blocking", "waiting"},
         pending' = IF pc = "waiting" THEN pending \cup {c} ELSE pending \ {c},
         \/ said' = said /\ (pc = "replying" => call'[c].reply = "reject")
         \/ \E reply \in Reply : /\ call[c].pc # "blocking" /\ pc = "replying"
                                /\ call'[c].reply = reply /\ Says(c, reply),
         UNCHANGED <<saved, asks, aborted, config, events>>
  PROVE  IInv'
<1>1. Types'
  <2>1. said' \subseteq SaidType
    BY DEF IInv, Types, Says, SaidType, CallType
  <2> QED BY <2>1 DEF IInv, Types, Moved, saved, events, config
<1>2. Registered'
  BY DEF IInv, Registered, Moved
<1>3. Sound'
  <2>1. CASE said' = said /\ (pc = "replying" => call'[c].reply = "reject")
    <3>1. \A d \in Calls \ {c} : call'[d] = call[d]
      BY DEF Moved
    <3>2. /\ call' \in [Calls -> CallType] /\ {c} \in SUBSET Calls
          /\ call'[c].pc = pc /\ call'[c].stage = call[c].stage /\ UNCHANGED <<saved, opened, said>>
      BY <2>1 DEF Moved, events
    <3> QED BY <2>1, <3>1, <3>2, SilenceSound
  <2>2. ASSUME NEW reply \in Reply, call[c].pc # "blocking", pc = "replying",
               call'[c].reply = reply, Says(c, reply)
        PROVE  Sound'
    <3>1. UNCHANGED <<saved, opened>>
      BY DEF events
    <3> QED BY <2>2, <3>1, ReplySound
  <2> QED BY <2>1, <2>2
<1>4. Counted'
  BY CountKept DEF IInv, events
<1> QED BY <1>1, <1>2, <1>3, <1>4 DEF IInv

LEMMA SettledMoves ==
  ASSUME Types, NEW c \in Calls, NEW by \in By, NEW reply \in Reply, Settled({c}, by, reply)
  PROVE  /\ Moved(c, "replying", call[c].stage)
         /\ call'[c].reply = reply
<1>1. [call[c] EXCEPT !.pc = "replying", !.by = by, !.reply = reply] \in CallType
  BY DEF Types, CallType, Pc
<1>2. call' = [call EXCEPT ![c] = [call[c] EXCEPT !.pc = "replying", !.by = by, !.reply = reply]]
  BY DEF Settled, Types
<1>3. /\ [call[c] EXCEPT !.pc = "replying", !.by = by, !.reply = reply].pc = "replying"
      /\ [call[c] EXCEPT !.pc = "replying", !.by = by, !.reply = reply].stage = call[c].stage
      /\ [call[c] EXCEPT !.pc = "replying", !.by = by, !.reply = reply].reply = reply
  BY DEF Types, CallType
<1> QED BY <1>1, <1>2, <1>3 DEF Types, Moved

(* Only the call that moves can come to an ask.                             *)
Fresh == \A c \in Calls :
           /\ call[c].pc \notin InAsk /\ call'[c].pc \in InAsk /\ call'[c].stage # "guard"
           => ~ HasSavedRejection(c)

LEMMA FreshMove ==
  ASSUME NEW c \in Calls, NEW pc, NEW stage, Moved(c, pc, stage),
         \/ pc \notin InAsk \/ call[c].pc \in InAsk
         \/ stage = "guard" \/ ~ HasSavedRejection(c)
  PROVE  Fresh
  BY DEF Fresh, Moved

LEMMA AskKeeps ==
  ASSUME IInv, NEW c \in Calls, NEW stage \in Stage, Outcome(c, stage), Ready(c, stage),
         call[c].pc \in InAsk \/ stage = "guard" \/ ~ HasSavedRejection(c),
         UNCHANGED <<pending, aborted, config, events, said>>
  PROVE  IInv' /\ Fresh
<1>1. PICK pc \in Pc : Moved(c, pc, stage)
  BY OutcomeMoves DEF IInv
<1> QED BY <1>1, FreshMove, OutcomeKeeps

LEMMA PlainKeeps ==
  ASSUME IInv, NEW c \in Calls, NEW stage \in Stage,
         NEW pc \in {"context", "running", "done", "refused", "failed"},
         ComesTo(c, pc, stage), Goes(c, pc, stage),
         call[c].pc \notin {"refused", "failed", "waiting"},
         UNCHANGED <<saved, asks, pending, aborted, config, events, said>>
  PROVE  IInv' /\ Fresh
<1>1. pc \in Pc /\ pc \notin InAsk
  BY DEF Pc, InAsk, Open
<1>2. Moved(c, pc, stage)
  BY <1>1, GoesMoves DEF IInv
<1> QED BY <1>1, <1>2, MovePlain, FreshMove

(* A call before its gate may come to it, or run.                           *)
LEMMA ToTheGate ==
  ASSUME IInv, NEW c \in Calls, call[c].pc \in {"idle", "judging", "context"}
  PROVE  /\ <<c, "gate">> \notin opened /\ Upto(call[c].stage) \subseteq Upto("gate")
         /\ call[c].pc = "idle" => <<c, "guard">> \notin opened /\ call[c].stage = "guard"
         /\ \A pc \in {"context", "running", "refused"} : ComesTo(c, pc, "gate")
<1>1. \/ call[c].stage = "guard" /\ call[c].pc # "context"
      \/ call[c].stage = "gate" /\ call[c].pc = "context"
  BY DEF IInv, Sound, InOrder
<1>2. <<c, "gate">> \notin opened
  BY <1>1 DEF IInv, Sound, InOrder, Upto, Stage
<1> QED BY <1>1, <1>2 DEF IInv, Sound, InOrder, ComesTo, Upto

LEMMA CallingKeeps ==
  ASSUME IInv, NEW c \in Calls, Calling(c) PROVE IInv' /\ Fresh
<1>0. call[c].stage \in Stage /\ {"guard", "gate", "tool"} \subseteq Stage
  BY DEF IInv, Types, CallType, Stage
<1>1. CASE Escalates(c)
  <2>1. Ready(c, "guard")
    BY <1>1, ToTheGate DEF Escalates, Ready
  <2> QED BY <1>0, <1>1, <2>1, AskOutcome, AskKeeps DEF Escalates
<1>2. CASE Judges(c)
  <2>1. call[c].pc \in {"idle", "judging"}
    BY <1>2 DEF Judges
  <2>2. CASE Goes(c, "refused", "gate")
    BY <1>0, <1>2, <2>1, <2>2, ToTheGate, PlainKeeps DEF Judges
  <2>3. CASE /\ CheckTool(c) # "deny"
             /\ call' = [call EXCEPT ![c] = [At("context", "gate") EXCEPT !.verdict = CheckTool(c)]]
    <3>1. CheckTool(c) \in {"allow", "ask"}
      BY <2>3 DEF CheckTool
    <3>2. /\ [At("context", "gate") EXCEPT !.verdict = CheckTool(c)] \in CallType
          /\ [At("context", "gate") EXCEPT !.verdict = CheckTool(c)].pc = "context"
          /\ [At("context", "gate") EXCEPT !.verdict = CheckTool(c)].stage = "gate"
      BY <3>1 DEF At, CallType, Pc, Stage, Reply, By
    <3>3. Moved(c, "context", "gate")
      BY <2>3, <3>2 DEF Moved, IInv, Types
    <3>4. "context" \notin InAsk
      BY DEF InAsk, Open
    <3>5. IInv'
      BY <1>0, <1>2, <2>1, <3>3, ToTheGate, MovePlain DEF Judges
    <3> QED BY <3>3, <3>4, <3>5, FreshMove
  <2> QED BY <1>2, <2>2, <2>3 DEF Judges
<1>3. CASE Handles(c)
  <2>0. call[c].pc = "context"
    BY <1>3 DEF Handles
  <2>1. CASE Goes(c, "running", "gate") /\ UNCHANGED <<saved, asks>>
    BY <1>0, <1>3, <2>0, <2>1, ToTheGate, PlainKeeps DEF Handles
  <2>2. CASE Goes(c, "refused", "gate") /\ UNCHANGED <<saved, asks>>
    BY <1>0, <1>3, <2>0, <2>2, ToTheGate, PlainKeeps DEF Handles
  <2>3. CASE ~ HasSavedRejection(c) /\ CtxAsk(c, "gate")
    <3>1. Ready(c, "gate")
      BY <2>0, ToTheGate DEF Ready
    <3> QED BY <1>0, <1>3, <2>3, <3>1, CtxOutcome, AskKeeps DEF Handles
  <2> QED BY <1>3, <2>1, <2>2, <2>3 DEF Handles
<1>4. CASE Corrects(c)
  <2>0. call[c].pc = "idle"
    BY <1>4 DEF Corrects
  <2>1. CASE Goes(c, "running", "gate") /\ UNCHANGED <<saved, asks>>
    BY <1>0, <1>4, <2>0, <2>1, ToTheGate, PlainKeeps DEF Corrects
  <2>2. CASE Goes(c, "refused", "gate") /\ UNCHANGED <<saved, asks>>
    BY <1>0, <1>4, <2>0, <2>2, ToTheGate, PlainKeeps DEF Corrects
  <2>3. CASE ~ HasSavedRejection(c) /\ AskForTool(c, "gate")
    <3>1. Ready(c, "gate")
      BY <2>0, ToTheGate DEF Ready
    <3> QED BY <1>0, <1>4, <2>3, <3>1, AskOutcome, AskKeeps DEF Corrects
  <2> QED BY <1>4, <2>1, <2>2, <2>3 DEF Corrects
<1>5. CASE ToolAsks(c)
  <2>1. Ready(c, "tool")
    <3>1. call[c].pc = "running" /\ call[c].stage = "gate" /\ c \in Cautious
      BY <1>5 DEF ToolAsks, IInv, Sound, InOrder
    <3>2. <<c, "tool">> \notin opened
      BY <3>1 DEF IInv, Sound, InOrder, Upto, Stage
    <3> QED BY <3>1, <3>2 DEF Ready, Upto, Stage
  <2>2. CASE ~ HasSavedRejection(c)
    BY <1>0, <1>5, <2>1, <2>2, CtxOutcome, AskKeeps DEF ToolAsks
  <2>3. CASE \E reply \in {"once", "reject"} : Concludes(c, "tool", reply)
    <3>1. IInv'
      BY <1>0, <1>5, <2>1, CtxOutcome, OutcomeKeeps DEF ToolAsks
    <3>2. PICK pc \in {"refused", "done"} : Goes(c, pc, "tool")
      BY <2>3 DEF Concludes, After
    <3>3. pc \in Pc /\ pc \notin InAsk
      BY DEF Pc, InAsk, Open
    <3>4. Moved(c, pc, "tool")
      BY <1>0, <3>2, <3>3, GoesMoves DEF IInv
    <3> QED BY <3>1, <3>3, <3>4, FreshMove
  <2> QED BY <1>5, <2>2, <2>3 DEF ToolAsks, CtxAsk
<1>6. CASE ToolActs(c)
  <2>1. call[c].pc = "running" /\ ComesTo(c, "done", call[c].stage)
    BY <1>6 DEF ToolActs, IInv, Sound, InOrder, ComesTo
  <2> QED BY <1>0, <1>6, <2>1, PlainKeeps DEF ToolActs
<1> QED BY <1>1, <1>2, <1>3, <1>4, <1>5, <1>6 DEF Calling

LEMMA AskingKeeps ==
  ASSUME IInv, NEW c \in Calls, Asking(c) PROVE IInv' /\ Fresh
<1>0. /\ call[c].stage \in Stage /\ call[c].reply \in Reply /\ call \in [Calls -> CallType]
      /\ {"hooking", "blocking", "waiting", "replying"} \subseteq Pc
  BY DEF IInv, Types, CallType, Pc
<1>1. CASE Classified(c)
  <2>1. Outcome(c, call[c].stage)
    BY <1>1, OpensOutcome DEF Classified, Outcome, Reply
  <2>2. call[c].pc \in InAsk /\ Ready(c, call[c].stage)
    BY <1>1 DEF Classified, InAsk, Ready, IInv, Sound, InOrder
  <2> QED BY <1>0, <1>1, <2>1, <2>2, AskKeeps DEF Classified
<1>2. CASE Requested(c)
  <2>1. Moved(c, "hooking", call[c].stage) /\ call[c].pc = "requesting"
    BY <1>0, <1>2, GoesMoves DEF IInv, Requested
  <2>2. Types'
    BY <1>0, <1>2, <2>1 DEF IInv, Types, Requested, Moved, Dialog, saved, config
  <2>3. Registered'
    BY <1>2, <2>1 DEF IInv, Registered, Moved, Requested
  <2>4. Sound'
    BY <1>2, <2>1, RequestSound DEF Requested, Dialog
  <2>5. Counted'
    <3>1. ASSUME NEW r \in Runs, NEW d \in Started(r)' PROVE d \in Started(r)
      <4>1. d \in Calls \X Stage /\ d[1] \in Calls /\ IsStarted(d, r)'
        BY <3>1 DEF Started
      <4>2. CASE d = <<c, call[c].stage>>
        <5>1. d[1] = c /\ d[2] = call[c].stage /\ RunOf[d[1]] = r
          BY <4>1, <4>2 DEF IsStarted
        <5>2. IsStarted(d, r)
          BY <2>1, <5>1 DEF IsStarted
        <5> QED BY <4>1, <5>2 DEF Started
      <4>3. CASE d # <<c, call[c].stage>>
        <5>1. /\ d \in opened' => d \in opened
              /\ call'[d[1]].pc = "requesting" => call'[d[1]] = call[d[1]]
          BY <1>2, <2>1, <4>1, <4>3 DEF Requested, Dialog, Moved
        <5>2. IsStarted(d, r)
          BY <4>1, <5>1 DEF IsStarted
        <5> QED BY <4>1, <5>2 DEF Started
      <4> QED BY <4>2, <4>3
    <3>2. \A r \in Runs : /\ Cardinality(Started(r)') <= Cardinality(Started(r))
                         /\ Cardinality(Started(r)') \in Nat
      BY <3>1, StartedFinite, FS_Subset, FS_CardinalityType
    <3>3. \A r \in Runs : asks[r] \in Nat /\ Cardinality(Started(r)) \in Nat
      BY StartedFinite, AsksAssumption DEF IInv, Types
    <3>4. asks' = asks
      BY <1>2 DEF Requested
    <3> QED BY <3>2, <3>3, <3>4 DEF IInv, Counted
  <2>6. Fresh
    BY <2>1, FreshMove DEF InAsk, Open
  <2> QED BY <2>2, <2>3, <2>4, <2>5, <2>6 DEF IInv
<1>3. CASE HookPasses(c)
  <2>1. Moved(c, "blocking", call[c].stage) /\ call[c].pc = "hooking"
    BY <1>0, <1>3, GoesMoves DEF IInv, HookPasses
  <2>2. pending' = pending \ {c}
    BY <1>3, <2>1 DEF IInv, Registered, HookPasses
  <2>3. Fresh
    BY <2>1, FreshMove DEF InAsk, Open
  <2>4. IInv'
    BY <1>3, <2>1, <2>2, DialogKeeps DEF HookPasses
  <2> QED BY <2>3, <2>4
<1>4. ASSUME NEW reply \in Reply, HookReplies(c, reply) PROVE IInv' /\ Fresh
  <2>1. Moved(c, "replying", call[c].stage) /\ call[c].pc = "hooking" /\ call'[c].reply = reply
    BY <1>0, <1>4, SettledMoves DEF IInv, HookReplies, By
  <2>2. pending' = pending \ {c}
    BY <1>4, <2>1 DEF IInv, Registered, HookReplies
  <2>3. Fresh
    BY <2>1, FreshMove DEF InAsk, Open
  <2>4. IInv'
    BY <1>4, <2>1, <2>2, DialogKeeps DEF HookReplies
  <2> QED BY <2>3, <2>4
<1>5. CASE Awaits(c)
  <2>1. CASE Settled({c}, "abort", "reject") /\ pending' = pending
    <3>1. Moved(c, "replying", call[c].stage) /\ call[c].pc = "blocking" /\ call'[c].reply = "reject"
      BY <1>0, <1>5, <2>1, SettledMoves DEF IInv, Awaits, By, Reply
    <3>2. pending' = pending \ {c}
      BY <2>1, <3>1 DEF IInv, Registered
    <3>3. Fresh
      BY <3>1, FreshMove DEF InAsk, Open
    <3>4. IInv'
      BY <1>5, <3>1, <3>2, DialogKeeps DEF Awaits
    <3> QED BY <3>3, <3>4
  <2>2. CASE Goes(c, "waiting", call[c].stage) /\ pending' = pending \cup {c}
    <3>1. Moved(c, "waiting", call[c].stage) /\ call[c].pc = "blocking"
      BY <1>0, <1>5, <2>2, GoesMoves DEF IInv, Awaits
    <3>2. Fresh
      BY <3>1, FreshMove DEF InAsk, Open
    <3>3. IInv'
      BY <1>5, <2>2, <3>1, DialogKeeps DEF Awaits
    <3> QED BY <3>2, <3>3
  <2> QED BY <1>5, <2>1, <2>2 DEF Awaits
<1>6. CASE TimesOut(c)
  <2>1. Moved(c, "replying", call[c].stage) /\ call[c].pc = "waiting" /\ call'[c].reply = "reject"
    BY <1>0, <1>6, SettledMoves DEF IInv, TimesOut, By, Reply
  <2>2. Fresh
    BY <2>1, FreshMove DEF InAsk, Open
  <2>3. IInv'
    BY <1>6, <2>1, DialogKeeps DEF TimesOut
  <2> QED BY <2>2, <2>3
<1>7. CASE Replied(c)
  <2>1. cleared' \subseteq opened
    BY <1>7 DEF IInv, Types, Sound, InOrder, Replied, Dialog
  <2>2. IInv' /\ call'[c].pc \notin InAsk /\ (\A d \in Calls : d # c => call'[d] = call[d])
    BY <1>0, <1>7, <2>1, ConcludesKeeps DEF Replied
  <2> QED BY <2>2 DEF Fresh
<1>8. CASE StoreFails(c)
  <2>1. ComesTo(c, "failed", call[c].stage)
    BY <1>8 DEF StoreFails, ComesTo, IInv, Sound, InOrder
  <2>2. call[c].pc \notin {"refused", "failed", "waiting"}
    BY <1>8 DEF StoreFails
  <2> QED BY <1>0, <1>8, <2>1, <2>2, PlainKeeps DEF StoreFails
<1> QED BY <1>1, <1>2, <1>3, <1>4, <1>5, <1>6, <1>7, <1>8 DEF Asking

(* The store is answered from outside, or by the signal of a run.           *)
LEMMA AnswersKeep ==
  ASSUME IInv, NEW c \in Calls, NEW reply \in Reply, c \in pending, Settled({c}, "host", reply),
         Says(c, reply), pending' = pending \ {c}, UNCHANGED <<saved, asks, aborted, config, events>>
  PROVE  IInv' /\ Fresh
<1>1. call[c].pc = "waiting" /\ Moved(c, "replying", call[c].stage) /\ call'[c].reply = reply
  BY SettledMoves DEF IInv, Registered, By
<1>2. Fresh
  BY <1>1, FreshMove DEF InAsk, Open
<1>3. IInv'
  BY <1>1, DialogKeeps
<1> QED BY <1>2, <1>3

LEMMA AbortKeeps ==
  ASSUME IInv, NEW r \in Runs, AbortRun(r) PROVE IInv' /\ Fresh
<1> DEFINE waiting == {c \in Calls : RunOf[c] = r /\ call[c].pc = "waiting"}
<1>1. ASSUME NEW c \in Calls
      PROVE  /\ call'[c] \in CallType /\ call'[c].stage = call[c].stage
             /\ c \in waiting => call[c].pc = "waiting" /\ call'[c].pc = "replying" /\ call'[c].reply = "reject"
             /\ c \notin waiting => call'[c] = call[c]
  <2>1. CASE c \in waiting
    <3>1. call'[c] = [call[c] EXCEPT !.pc = "replying", !.by = "abort", !.reply = "reject"]
      BY <2>1 DEF AbortRun, Settled
    <3> QED BY <2>1, <3>1 DEF IInv, Types, CallType, Pc, By, Reply
  <2>2. CASE c \notin waiting
    BY <2>2 DEF AbortRun, Settled, IInv, Types
  <2> QED BY <2>1, <2>2
<1>2. /\ pending' = pending \ waiting /\ aborted' = aborted \cup {r}
      /\ UNCHANGED <<saved, asks, config, events, said>>
      /\ call' \in [Calls -> CallType]
  <2>1. pending' = pending \ waiting /\ aborted' = aborted \cup {r} /\ UNCHANGED <<saved, asks, config, events, said>>
    BY DEF AbortRun
  <2>2. DOMAIN call' = Calls /\ call' = [c \in Calls |-> call'[c]]
    BY DEF AbortRun, Settled
  <2> QED BY <2>1, <2>2, <1>1
<1>0. waiting \in SUBSET Calls
  OBVIOUS
<1> HIDE DEF waiting
<1>3. Types'
  BY <1>2 DEF IInv, Types, saved, events, config
<1>4. Registered'
  BY <1>1, <1>2 DEF IInv, Registered
<1>5. Sound'
  <2>1. /\ waiting \in SUBSET Calls /\ UNCHANGED <<saved, opened, said>>
        /\ \A c \in waiting : /\ call[c].pc \in {"hooking", "blocking", "waiting"}
                              /\ call'[c].pc \in {"blocking", "waiting", "replying"}
                              /\ call'[c].stage = call[c].stage
                              /\ call'[c].pc = "replying" => call'[c].reply = "reject"
        /\ \A c \in Calls \ waiting : call'[c] = call[c]
    BY <1>0, <1>1, <1>2 DEF events
  <2> QED BY <1>2, <2>1, SilenceSound
<1>6. Counted'
  <2>1. ASSUME NEW q \in Runs, NEW d \in Started(q)' PROVE d \in Started(q)
    <3>1. d \in Calls \X Stage /\ d[1] \in Calls /\ IsStarted(d, q)'
      BY <2>1 DEF Started
    <3>2. call'[d[1]].pc = "requesting" => call'[d[1]] = call[d[1]]
      BY <1>1, <3>1
    <3>3. IsStarted(d, q)
      BY <1>2, <3>1, <3>2 DEF IsStarted, events
    <3> QED BY <3>1, <3>3 DEF Started
  <2>2. \A q \in Runs : /\ Cardinality(Started(q)') <= Cardinality(Started(q))
                       /\ Cardinality(Started(q)') \in Nat
    BY <2>1, StartedFinite, FS_Subset, FS_CardinalityType
  <2>3. \A q \in Runs : asks[q] \in Nat /\ Cardinality(Started(q)) \in Nat
    BY StartedFinite, AsksAssumption DEF IInv, Types
  <2> QED BY <1>2, <2>2, <2>3 DEF IInv, Counted
<1>7. Fresh
  BY <1>1 DEF Fresh, InAsk, Open
<1> QED BY <1>3, <1>4, <1>5, <1>6, <1>7 DEF IInv

----------------------------------------------------------------------------
LEMMA InitHolds == Init => IInv
<1> SUFFICES ASSUME Init PROVE IInv
  OBVIOUS
<1>1. At("idle", "guard") \in CallType /\ At("idle", "guard").pc = "idle"
  BY DEF At, CallType, Pc, Stage, Reply, By
<1>2. Types
  BY <1>1, AsksAssumption DEF Init, Types
<1>3. Registered /\ Sound
  <2>1. Registered
    BY <1>1 DEF Init, Registered
  <2>2. /\ opened = {} /\ said = {} /\ approvals = {} /\ rejections = {} /\ rules = {}
        /\ \A c \in Calls : call[c].pc = "idle" /\ call[c].stage = "guard"
    BY <1>1 DEF Init, At
  <2> QED BY <2>1, <2>2 DEF Sound, InOrder, Heard, RefusalIsSaved, SaidNo, AnswersDecide, SavedIsSaid
<1>4. Counted
  <2>1. ASSUME NEW r \in Runs PROVE Started(r) = {}
    <3>1. ASSUME NEW d \in Calls \X Stage PROVE ~ IsStarted(d, r)
      BY <1>1, <3>1 DEF Init, IsStarted
    <3> QED BY <3>1 DEF Started
  <2>2. Cardinality({}) = 0 /\ \A r \in Runs : asks[r] = 0
    BY FS_EmptySet DEF Init
  <2> QED BY <2>1, <2>2 DEF Counted
<1> QED BY <1>2, <1>3, <1>4 DEF IInv

LEMMA StepKeeps == IInv /\ [Next]_vars => IInv' /\ Fresh
<1> SUFFICES ASSUME IInv, [Next]_vars PROVE IInv' /\ Fresh
  OBVIOUS
<1>1. CASE \E c \in Calls : Calling(c)
  BY <1>1, CallingKeeps
<1>2. CASE \E c \in Calls : Asking(c)
  BY <1>2, AskingKeeps
<1>3. CASE \E c \in Calls, reply \in Reply : UserReplies(c, reply)
  BY <1>3, AnswersKeep DEF UserReplies
<1>4. CASE \E c \in Calls : HostCancels(c)
  BY <1>4, AnswersKeep DEF HostCancels, Reply
<1>5. CASE \E r \in Runs : AbortRun(r)
  BY <1>5, AbortKeeps
<1>6. ASSUME UNCHANGED <<call, saved, asks, pending, aborted, events, said>>,
             policy' \in Policies, mode' \in Modes
      PROVE  IInv' /\ Fresh
  <2>1. Types' /\ Registered'
    BY <1>6 DEF IInv, Types, Registered, saved, events
  <2>2. Sound'
    BY <1>6 DEF IInv, Sound, InOrder, Heard, RefusalIsSaved, SaidNo, AnswersDecide, SavedIsSaid, Asked,
                saved, events
  <2>3. Counted'
    <3>1. \A r \in Runs : Started(r)' = Started(r)
      BY <1>6 DEF Started, IsStarted, events
    <3> QED BY <1>6, <3>1 DEF IInv, Counted
  <2>4. Fresh
    BY <1>6 DEF Fresh
  <2> QED BY <2>1, <2>2, <2>3, <2>4 DEF IInv
<1>7. CASE Configures
  BY <1>6, <1>7 DEF Configures
<1>8. CASE UNCHANGED vars
  BY <1>6, <1>8 DEF vars, config, IInv, Types
<1> QED BY <1>1, <1>2, <1>3, <1>4, <1>5, <1>7, <1>8 DEF Next

(* The inductive invariant.                                                 *)
THEOREM InvariantHolds == Spec => []IInv
<1>1. IInv /\ [Next]_vars => IInv'
  BY StepKeeps
<1> QED BY <1>1, InitHolds, PTL DEF Spec

(* Types; a resolver is in the store exactly while its call waits           *)
(* (saved.ts:63-114).                                                       *)
THEOREM TypesHold == Spec => []TypeOK
<1>1. IInv => TypeOK
  BY DEF IInv, Types, Registered, TypeOK, CallType, SaidType
<1> QED BY <1>1, InvariantHolds, PTL

(* What was replied at a dialog decides over its call, whatever comes after  *)
(* (permission-gate.ts:501-545, saved.ts:121-178).                          *)
THEOREM AnswersHold == Spec => []AnswersDecide
<1>1. IInv => AnswersDecide
  BY DEF IInv, Sound
<1> QED BY <1>1, InvariantHolds, PTL

(* An approval and a rule that are saved were replied at a dialog about the *)
(* same scope; a rejection that is saved is of a call the gate refused, and *)
(* which nobody had given leave (permission-gate.ts:595-619).               *)
THEOREM StoreIsSound == Spec => []SavedIsSaid
<1>1. IInv => SavedIsSaid
  BY DEF IInv, Sound
<1> QED BY <1>1, InvariantHolds, PTL

(* A run opens no more dialogs than the valve lets it, however its calls    *)
(* interleave (permission-gate.ts:384-390).                                 *)
THEOREM ValveHolds == Spec => []AsksAreBounded
<1>1. IInv => AsksAreBounded
  <2> SUFFICES ASSUME IInv, NEW r \in Runs
               PROVE  Cardinality({d \in opened : RunOf[d[1]] = r}) <= MaxAsks
    BY DEF AsksAreBounded
  <2>1. {d \in opened : RunOf[d[1]] = r} \subseteq Started(r)
    BY DEF IInv, Types, Started, IsStarted
  <2>2. /\ Cardinality({d \in opened : RunOf[d[1]] = r}) <= Cardinality(Started(r))
        /\ Cardinality({d \in opened : RunOf[d[1]] = r}) \in Nat
    BY <2>1, StartedFinite, FS_Subset, FS_CardinalityType
  <2>3. Cardinality(Started(r)) <= asks[r] /\ asks[r] \in 0 .. MaxAsks
    BY DEF IInv, Counted, Types
  <2> QED BY <2>2, <2>3, StartedFinite, AsksAssumption
<1> QED BY <1>1, InvariantHolds, PTL

(* Once a dialog of the gate has ended with a no, no ask about a call it    *)
(* covers begins, at the gate or by its tool, in any run; an ask whose      *)
(* classifier had been called by then still opens its dialog                *)
(* (permission-gate.ts:565-582, approval-handler.ts:52).                    *)
THEOREM RejectionIsTerminal == Spec => NeverAskedAgain
<1>1. ASSUME IInv, [Next]_vars, NEW c \in Calls,
             call[c].pc \notin InAsk, call'[c].pc \in InAsk, call'[c].stage # "guard",
             NEW d \in Calls \ Corrections, SaidNo(d)
      PROVE  ScopeOf[d] \notin {ScopeOf[c], Whole}
  <2>1. ~ HasSavedRejection(c)
    BY <1>1, StepKeeps DEF Fresh
  <2>2. ScopeOf[d] \in rejections
    BY <1>1 DEF IInv, Sound, RefusalIsSaved
  <2> QED BY <2>1, <2>2 DEF HasSavedRejection, Covers
<1>2. IInv /\ [Next]_vars =>
        [\A c \in Calls :
           /\ call[c].pc \notin InAsk /\ call'[c].pc \in InAsk /\ call'[c].stage # "guard"
           => \A d \in Calls \ Corrections :
                SaidNo(d) => ScopeOf[d] \notin {ScopeOf[c], Whole}]_vars
  BY <1>1
<1> QED BY <1>2, InvariantHolds, PTL DEF Spec, NeverAskedAgain

(* A reply decides over its own call, and over later ones as it was said.   *)
THEOREM RepliesHold == Spec => []RepliesAreSound
BY AnswersHold, StoreIsSound, PTL DEF RepliesAreSound

----------------------------------------------------------------------------
(* The questions of tools.                                                 *)

(* Whoever is past the event with its request is shown.  (UserPrompts      *)
(* clears a card without looking whether it is there.)                     *)
AskedAreShown ==
  \A a \in Asks : awaits[a] \in {"blocking", "blocked", "awaiting", "replying", "done"} => a \in shown

PromptInv == RepliesAreOwn /\ AskedAreShown

LEMMA PromptsInit == Prompts!Init => PromptInv
  BY DEF Prompts!Init, PromptInv, AskedAreShown, RepliesAreOwn, Prompts!RepliesAreOwn,
         Prompts!TypeOK, Prompts!ToldWhatWasSaid, Prompts!NoWaitAfterAbort, Prompts!Answer

(* Settling takes the resolvers away with the waits, and an answer reaches *)
(* those who wait alone.                                                   *)
LEMMA SettleKeeps ==
  ASSUME PromptInv, NEW as \in SUBSET Asks, NEW v \in Prompts!Answer \cup {"cancel"},
         Prompts!Settle(as, v), UNCHANGED <<shown, blocked, answered, requests>>,
         stopped' \subseteq Runs,
         told' \in [Asks -> Prompts!Answer \cup {"none"}],
         \A a \in Asks : told[a] # "none" => told'[a] = told[a],
         v \in Prompts!Answer => \A a \in as \cap waits : told'[a] = v,
         \A a \in waits \ as : RunOfAsk[a] \notin stopped'
  PROVE  PromptInv'
<1> USE DEF PromptInv, RepliesAreOwn, Prompts!RepliesAreOwn
<1>1. /\ waits' = waits \ as
      /\ awaits' = [a \in Asks |-> IF a \in as \cap waits THEN "replying" ELSE awaits[a]]
      /\ heard' = [a \in Asks |-> IF a \in as \cap waits THEN v ELSE heard[a]]
  BY DEF Prompts!Settle
<1>2. Prompts!TypeOK'
  <2>1. waits' = {a \in Asks : awaits'[a] = "awaiting"} /\ waits' \subseteq requests'
    BY <1>1 DEF Prompts!TypeOK
  <2> QED BY <1>1, <2>1 DEF Prompts!TypeOK
<1>3. Prompts!ToldWhatWasSaid'
  <2> SUFFICES ASSUME NEW a \in Asks, heard'[a] \in Prompts!Answer
               PROVE  told'[a] = heard'[a]
    BY DEF Prompts!ToldWhatWasSaid, Prompts!Answer
  <2>1. CASE a \in as \cap waits
    BY <1>1, <2>1
  <2>2. CASE a \notin as \cap waits
    BY <1>1, <2>2 DEF Prompts!ToldWhatWasSaid, Prompts!Answer
  <2> QED BY <2>1, <2>2
<1>4. Prompts!NoWaitAfterAbort'
  BY <1>1 DEF Prompts!NoWaitAfterAbort
<1>5. AskedAreShown'
  BY <1>1 DEF AskedAreShown, Prompts!TypeOK
<1> QED BY <1>2, <1>3, <1>4, <1>5

LEMMA PromptsStep == ASSUME PromptInv, Prompts!Next PROVE PromptInv'
<1> USE DEF PromptInv, RepliesAreOwn, Prompts!RepliesAreOwn
<1>1. ASSUME NEW a \in Asks, Prompts!Ask(a) \/ Prompts!Continues(a)
      PROVE  PromptInv'
  <2> USE DEF Prompts!Goto, Prompts!TypeOK, Prompts!ToldWhatWasSaid, Prompts!NoWaitAfterAbort,
              Prompts!Answer, AskedAreShown
  <2>1. CASE Prompts!Ask(a)
    BY <2>1 DEF Prompts!Ask
  <2>2. CASE Prompts!Requested(a)
    BY <2>2 DEF Prompts!Requested
  <2>3. CASE Prompts!Blocked(a)
    BY <2>3 DEF Prompts!Blocked
  <2>4. CASE Prompts!AwaitReply(a)
    BY <2>4 DEF Prompts!AwaitReply
  <2>5. CASE Prompts!Replied(a)
    BY <2>5 DEF Prompts!Replied
  <2>6. CASE Prompts!EventFails(a)
    BY <2>6 DEF Prompts!EventFails
  <2> QED BY <1>1, <2>1, <2>2, <2>3, <2>4, <2>5, <2>6 DEF Prompts!Continues
<1>2. ASSUME NEW a \in Asks, Prompts!UserReplies(a)
      PROVE  PromptInv'
  <2>1. PICK v \in Prompts!Answer : Prompts!Settle({a}, v) /\ told' = [told EXCEPT ![a] = v]
    BY <1>2 DEF Prompts!UserReplies
  <2>2. /\ told[a] = "none" /\ UNCHANGED <<shown, blocked, answered, requests, stopped>>
        /\ told' \in [Asks -> Prompts!Answer \cup {"none"}] /\ told'[a] = v
        /\ \A b \in Asks : told[b] # "none" => told'[b] = told[b]
    BY <1>2, <2>1 DEF Prompts!UserReplies, Prompts!TypeOK
  <2> QED BY <2>1, <2>2, SettleKeeps DEF Prompts!TypeOK, Prompts!NoWaitAfterAbort
<1>3. ASSUME NEW a \in Asks, Prompts!HostCancels(a) \/ Prompts!TimesOut(a)
      PROVE  PromptInv'
  <2>1. Prompts!Settle({a}, "cancel") /\ UNCHANGED <<shown, blocked, answered, requests, told, stopped>>
    BY <1>3 DEF Prompts!HostCancels, Prompts!TimesOut
  <2> QED BY <2>1, SettleKeeps DEF Prompts!TypeOK, Prompts!NoWaitAfterAbort, Prompts!Answer
<1>4. ASSUME NEW r \in Runs, Prompts!AbortRun(r)
      PROVE  PromptInv'
  <2>1. /\ stopped' = stopped \cup {r} /\ UNCHANGED <<shown, blocked, answered, requests, told>>
        /\ Prompts!Settle({a \in Asks : RunOfAsk[a] = r}, "cancel")
    BY <1>4 DEF Prompts!AbortRun
  <2> DEFINE as == {a \in Asks : RunOfAsk[a] = r}
  <2>2. \A a \in waits \ as : RunOfAsk[a] \notin stopped'
    BY <2>1 DEF Prompts!TypeOK, Prompts!NoWaitAfterAbort
  <2>3. as \in SUBSET Asks
    OBVIOUS
  <2> HIDE DEF as
  <2> QED BY <2>1, <2>2, <2>3, SettleKeeps DEF as, Prompts!TypeOK, Prompts!Answer
<1> QED BY <1>1, <1>2, <1>3, <1>4 DEF Prompts!Next

(* Each wait for the user is settled once, and by what was meant for it:   *)
(* by an answer, a cancellation, its timeout or the abort of its run       *)
(* (question-store.ts:53-108 and the two other stores).                    *)
THEOREM RepliesAreOwnHolds == AskSpec => []RepliesAreOwn
<1>1. AskInit => PromptInv
  BY PromptsInit DEF AskInit
<1>2. PromptInv /\ [AskNext]_askVars => PromptInv'
  <2> SUFFICES ASSUME PromptInv, [AskNext]_askVars PROVE PromptInv'
    OBVIOUS
  <2>1. CASE Prompts!Next
    BY <2>1, PromptsStep
  <2>2. CASE UNCHANGED prompts
    BY <2>2 DEF prompts, PromptInv, AskedAreShown, RepliesAreOwn, Prompts!RepliesAreOwn,
                Prompts!TypeOK, Prompts!ToldWhatWasSaid, Prompts!NoWaitAfterAbort
  <2> QED BY <2>1, <2>2 DEF AskNext, ForApproval, ForAnswer, askVars
<1>3. PromptInv => RepliesAreOwn
  BY DEF PromptInv
<1> QED BY <1>1, <1>2, <1>3, PTL DEF AskSpec

(* What is proved of the gate holds of the two together.                   *)
LEMMA ApprovalsWithin == AskSpec => Spec
<1>1. AskInit => Init
  BY DEF AskInit
<1>2. [AskNext]_askVars => [Next]_vars
  BY DEF AskNext, ForApproval, ForAnswer, askVars
<1> QED BY <1>1, <1>2, PTL DEF AskSpec, Spec

=============================================================================
