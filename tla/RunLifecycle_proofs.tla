------------------------ MODULE RunLifecycle_proofs ------------------------
(***************************************************************************)
(* What RunLifecycle guarantees for any number of runs, sessions, steps,   *)
(* handoffs and crashes.                                                   *)
(***************************************************************************)
EXTENDS RunLifecycle, SequenceTheorems, FiniteSetTheorems, TLAPS

----------------------------------------------------------------------------
(* The registry keeps its type under each of its methods.                  *)

WithState(g, r, v) == [g EXCEPT !.states[r] = v]

LEMMA WithStateType ==
  ASSUME NEW g \in Registry, NEW r, NEW v \in RunState \cup {"absent"}
  PROVE  /\ WithState(g, r, v) \in Registry
         /\ WithState(g, r, v).busy = g.busy
         /\ WithState(g, r, v).aborts = g.aborts
BY DEF WithState, Registry

LEMMA SetStateType ==
  ASSUME NEW g \in Registry, NEW r, NEW state \in RunState
  PROVE  /\ SetState(g, r, state) \in Registry
         /\ SetState(g, r, state).busy = g.busy
<1>1. SetState(g, r, state) = WithState(g, r, state)
  BY DEF SetState, WithState
<1> QED BY <1>1, WithStateType

LEMMA UnretireType ==
  ASSUME NEW g \in Registry, NEW r
  PROVE  /\ Unretire(g, r) \in Registry
         /\ Unretire(g, r).busy = g.busy
         /\ Unretire(g, r).aborts = g.aborts
         /\ Unretire(g, r).states = g.states
<1>1. CASE ~ Retired(g, r)
  BY <1>1 DEF Unretire
<1>2. CASE Retired(g, r)
  <2> DEFINE i == CHOOSE i \in DOMAIN g.retired : g.retired[i] = r
             s == SubSeq(g.retired, 1, i - 1)
             t == SubSeq(g.retired, i + 1, Len(g.retired))
  <2>1. g.retired \in Seq(Runs) /\ i \in 1 .. Len(g.retired)
    BY <1>2 DEF Retired, Registry
  <2>2. s \in Seq(Runs)
    <3>1. \A j \in 1 .. i - 1 : g.retired[j] \in Runs
      BY <2>1
    <3> HIDE DEF i
    <3> QED BY <2>1, <3>1, SubSeqProperties
  <2>3. t \in Seq(Runs)
    <3>1. \A j \in i + 1 .. Len(g.retired) : g.retired[j] \in Runs
      BY <2>1
    <3> HIDE DEF i
    <3> QED BY <2>1, <3>1, SubSeqProperties
  <2>4. s \o t \in Seq(Runs)
    BY <2>2, <2>3, ConcatProperties
  <2>5. Unretire(g, r) = [g EXCEPT !.retired = s \o t]
    BY <1>2 DEF Unretire
  <2> HIDE DEF s, t
  <2> QED BY <2>4, <2>5 DEF Registry
<1> QED BY <1>1, <1>2

LEMMA RetireType ==
  ASSUME NEW g \in Registry, NEW r \in Runs
  PROVE  /\ Retire(g, r) \in Registry
         /\ Retire(g, r).busy = g.busy
         /\ Retire(g, r).aborts = g.aborts
<1> DEFINE queue == IF Retired(g, r) THEN g.retired ELSE Append(g.retired, r)
           oldest == Head(queue)
<1>1. queue \in Seq(Runs)
  BY DEF Registry
<1>2. CASE Len(queue) <= Retained
  <2>1. Retire(g, r) = [g EXCEPT !.retired = queue]
    BY <1>2 DEF Retire
  <2> HIDE DEF queue
  <2> QED BY <1>1, <2>1 DEF Registry
<1>3. CASE ~ (Len(queue) <= Retained)
  <2>1. queue # << >>
    <3> HIDE DEF queue
    <3> QED BY <1>1, <1>3, RetainedAssumption, EmptySeq
  <2>2. Retire(g, r) = [g EXCEPT !.retired = Tail(queue),
                                 !.states[oldest] = IF IsActiveRun(g, oldest)
                                                    THEN @ ELSE "absent"]
    BY <1>3 DEF Retire
  <2> HIDE DEF queue
  <2>3. Tail(queue) \in Seq(Runs) /\ oldest \in Runs
    BY <1>1, <2>1, HeadTailProperties
  <2> DEFINE kept == IF IsActiveRun(g, oldest) THEN g.states[oldest] ELSE "absent"
  <2>4. kept \in RunState \cup {"absent"}
    BY <2>3 DEF Registry
  <2> DEFINE h == [g EXCEPT !.retired = Tail(queue)]
  <2>5. Retire(g, r) = WithState(h, oldest, kept)
    BY <2>2 DEF Registry, WithState
  <2> HIDE DEF kept, oldest
  <2>6. h \in Registry /\ h.busy = g.busy /\ h.aborts = g.aborts
    BY <2>3 DEF Registry
  <2> HIDE DEF h
  <2> QED BY <2>4, <2>5, <2>6, WithStateType
<1> QED BY <1>2, <1>3

(* Releasing a run frees its session and nothing else.                      *)
LEMMA CleanupType ==
  ASSUME NEW g \in Registry, NEW r \in Runs, NEW s
  PROVE  /\ CleanupRun(g, r, s) \in Registry
         /\ CleanupRun(g, r, s).busy = g.busy \ {s}
<1> DEFINE h == [g EXCEPT !.aborts[r] = None, !.busy = @ \ {s}]
<1>1. h \in Registry /\ h.busy = g.busy \ {s}
  BY DEF Registry
<1>2. CleanupRun(g, r, s) = Retire(h, r)
  BY DEF CleanupRun
<1> HIDE DEF h
<1> QED BY <1>1, <1>2, RetireType

LEMMA ClaimType ==
  ASSUME NEW g \in Registry, NEW r, NEW a \in Runs
  PROVE  /\ Claim(g, r, a) \in Registry
         /\ Claim(g, r, a).busy = g.busy
<1> DEFINE u == Unretire(g, r)
           h == [u EXCEPT !.aborts[r] = a]
<1>1. u \in Registry /\ u.busy = g.busy
  BY UnretireType
<1>2. h \in Registry /\ h.busy = g.busy
  <2> HIDE DEF u
  <2> QED BY <1>1 DEF Registry
<1>3. Claim(g, r, a) = WithState(h, r, "pending")
  BY DEF Claim, SetState, WithState
<1> HIDE DEF h
<1> QED BY <1>2, <1>3, WithStateType DEF RunState

(* createRun adds the session of an admitted run without a live parent to   *)
(* the busy ones, and changes the busy ones in no other case.               *)
LEMMA CreateType ==
  ASSUME NEW g \in Registry, NEW r \in Runs, NEW a \in Runs,
         NEW s \in Sessions, NEW p
  PROVE  /\ CreateRun(g, r, a, s, p) \in Registry
         /\ BypassesBusyCheck(Claim(g, r, a), p) \/ s \in g.busy =>
              CreateRun(g, r, a, s, p).busy = g.busy
         /\ ~ BypassesBusyCheck(Claim(g, r, a), p) /\ s \notin g.busy =>
              CreateRun(g, r, a, s, p).busy = g.busy \cup {s}
<1> DEFINE c == Claim(g, r, a)
           b == BypassesBusyCheck(c, p)
           refused == [c EXCEPT !.aborts[r] = None]
<1>1. c \in Registry /\ c.busy = g.busy
  BY ClaimType
<1>2. /\ b => CreateRun(g, r, a, s, p) = c
      /\ ~ b /\ s \in g.busy => CreateRun(g, r, a, s, p) = Retire(refused, r)
      /\ ~ b /\ s \notin g.busy =>
           CreateRun(g, r, a, s, p) = [c EXCEPT !.busy = @ \cup {s}]
  BY DEF CreateRun
<1>3. refused \in Registry /\ refused.busy = g.busy
  <2> HIDE DEF c
  <2> QED BY <1>1 DEF Registry
<1>4. Retire(refused, r) \in Registry /\ Retire(refused, r).busy = g.busy
  <2> HIDE DEF refused
  <2> QED BY <1>3, RetireType
<1>5. /\ [c EXCEPT !.busy = @ \cup {s}] \in Registry
      /\ [c EXCEPT !.busy = @ \cup {s}].busy = g.busy \cup {s}
  <2> HIDE DEF c
  <2> QED BY <1>1 DEF Registry
<1> HIDE DEF c, b, refused
<1> QED BY <1>1, <1>2, <1>4, <1>5 DEF c, b

----------------------------------------------------------------------------
(* Type correctness.                                                       *)

TypeInv == TypeOK /\ Identified /\ Fresh /\ OutcomeFollowsPhase

(* What a way out of the loop may change, and how.                          *)
ExitTyped(a) ==
  /\ phase'   \in [Runs -> Phase]
  /\ outcome' \in [Runs -> Outcome]
  /\ saga'    \in [Runs -> SUBSET Call]
  /\ effects' \in [Runs -> SUBSET Call]
  /\ reg'     \in Registry
  /\ \A b \in Runs \ {a} :
       phase'[b] = phase[b] /\ outcome'[b] = outcome[b] /\ effects'[b] = effects[b]
  /\ phase'[a] \notin {"idle", "resolving", "restoring"}
  /\ OutcomeFits(a)'

LEMMA ReleasedType ==
  ASSUME TypeInv, NEW g \in Registry, NEW a \in Runs, phase[a] \in Suspended
  PROVE  /\ Released(g, a) \in Registry
         /\ Released(g, a).busy = g.busy \ {session[a]}
BY CleanupType DEF TypeInv, Identified, Released

LEMMA BeginCancelType ==
  ASSUME TypeInv, NEW a \in Runs, phase[a] \in Suspended, BeginCancel(a)
  PROVE  ExitTyped(a)
<1>1. reg' \in Registry
  BY ReleasedType DEF BeginCancel, TypeInv, TypeOK
<1> QED BY <1>1 DEF BeginCancel, Exit, Goto, Forget, ExitTyped, OutcomeFits, TypeInv, TypeOK,
                    Phase, Suspended, Outcome

LEMMA CatchType ==
  ASSUME TypeInv, NEW a \in Runs, phase[a] \in Suspended, Catch(a)
  PROVE  ExitTyped(a)
<1>1. CASE BeginCancel(a)
  BY <1>1, BeginCancelType
<1>2. CASE Exit(a, "rollback", "error") /\ UNCHANGED <<saga, effects, reg>>
  BY <1>2 DEF Exit, Goto, ExitTyped, OutcomeFits, TypeInv, TypeOK, Phase, Suspended, Outcome
<1> QED BY <1>1, <1>2 DEF Catch

LEMMA CheckedExitType ==
  ASSUME TypeInv, NEW a \in Runs, phase[a] \in Suspended,
         NEW p, NEW o \in Outcome, CheckedExit(a, p, o),
         \/ p = "emit" /\ o # "none"
         \/ p = "exhausted" /\ o = "none"
  PROVE  ExitTyped(a)
<1>1. CASE BeginCancel(a)
  BY <1>1, BeginCancelType
<1>2. CASE Exit(a, p, o) /\ UNCHANGED <<saga, effects, reg>>
  BY <1>2 DEF Exit, Goto, ExitTyped, OutcomeFits, TypeInv, TypeOK, Phase, Suspended
<1> QED BY <1>1, <1>2 DEF CheckedExit

LEMMA LoopHeadType ==
  ASSUME TypeInv, NEW a \in Runs, phase[a] \in Suspended, NEW n, LoopHead(a, n),
         outcome[a] = "none"
  PROVE  ExitTyped(a)
<1>1. CASE Goto(a, "turn") /\ UNCHANGED <<outcome, saga, effects, reg>>
  BY <1>1 DEF Goto, ExitTyped, OutcomeFits, TypeInv, TypeOK, Phase, Suspended
<1>2. CASE CheckedExit(a, "exhausted", outcome[a])
  <2>1. outcome[a] \in Outcome
    BY DEF TypeInv, TypeOK
  <2> QED BY <1>2, <2>1, CheckedExitType
<1> QED BY <1>1, <1>2 DEF LoopHead

LEMMA TypeInit == Init => TypeInv
<1> SUFFICES ASSUME Init PROVE TypeInv
  OBVIOUS
<1>1. EmptyRegistry \in Registry
  BY NoneAssumption DEF EmptyRegistry, Registry
<1> QED BY <1>1, NoneAssumption, SMTT(30)
     DEF Init, TypeInv, TypeOK, Identified, Fresh, OutcomeFollowsPhase, OutcomeFits,
         Phase, Suspended, Outcome, NoSnapshot, Snapshot

(* A snapshot that is saved, or not, keeps its type.                        *)
LEMMA SaveSnapshotType ==
  ASSUME TypeOK, NEW a \in Runs, NEW n \in Nat,
         NEW status \in {"none", "running", "succeeded", "cancelled"},
         SaveSnapshot(a, n, status)
  PROVE  snapshot' \in [Runs -> Snapshot]
<1> DEFINE new == [step |-> n, status |-> status]
<1>1. new \in Snapshot
  BY DEF Snapshot
<1>2. snapshot' = [snapshot EXCEPT ![runOf[a]] = new] \/ snapshot' = snapshot
  BY DEF SaveSnapshot
<1> HIDE DEF new
<1> QED BY <1>1, <1>2 DEF TypeOK

LEMMA PersistType ==
  ASSUME TypeOK, NEW a \in Runs, NEW event \in Event, runOf[a] \in Runs, Persist(a, event)
  PROVE  log' \in [Runs -> Seq(Entry)]
<1> DEFINE entry == [event |-> event, by |-> a]
<1>1. entry \in Entry
  BY DEF Entry
<1>2. log' = [log EXCEPT ![runOf[a]] = Append(@, entry)]
  BY DEF Persist
<1> HIDE DEF entry
<1> QED BY <1>1, <1>2 DEF TypeOK

LEMMA FirstStepsType ==
  ASSUME TypeOK, NEW a \in Runs
  PROVE  FirstSteps(a) \subseteq Nat
BY MaxStepsAssumption DEF FirstSteps, TypeOK

(* A step that leaves the loop through one of the exits above.              *)
LEMMA ExitStep ==
  ASSUME TypeInv, NEW a \in Runs, phase[a] \in Suspended, ExitTyped(a),
         UNCHANGED <<identity, aborted, crashes>>,
         resumed' \in [Runs -> BOOLEAN],
         step' \in [Runs -> Nat],
         handoffs' \in [Runs -> Nat],
         log' \in [Runs -> Seq(Entry)],
         snapshot' \in [Runs -> Snapshot]
  PROVE  TypeInv'
BY DEF ExitTyped, OutcomeFits, TypeInv, TypeOK, Identified, Fresh, OutcomeFollowsPhase, OutcomeFits, identity

LEMMA TypeStep == TypeInv /\ [Next]_vars => TypeInv'
<1> SUFFICES ASSUME TypeInv, [Next]_vars PROVE TypeInv'
  OBVIOUS
<1> USE DEF TypeInv, OutcomeFollowsPhase
<1>0. /\ log \in [Runs -> Seq(Entry)] /\ snapshot \in [Runs -> Snapshot]
      /\ step \in [Runs -> Nat] /\ handoffs \in [Runs -> Nat]
      /\ resumed \in [Runs -> BOOLEAN]
      /\ reg \in Registry
  BY DEF TypeOK
<1> USE <1>0
<1>1. ASSUME NEW a \in Runs, EvaluatorReady(a) PROVE TypeInv'
  <2>1. reg' \in Registry
    BY <1>1, SetStateType DEF EvaluatorReady, RunState
  <2>2. ExitTyped(a) /\ phase[a] \in Suspended
    BY <1>1, <2>1 DEF EvaluatorReady, Goto, ExitTyped, OutcomeFits, TypeOK, Phase, Suspended
  <2> QED BY <1>1, <2>2, ExitStep DEF EvaluatorReady, durable
<1>2. ASSUME NEW a \in Runs, EvaluatorFails(a) \/ HandoffThrows(a) PROVE TypeInv'
  <2>1. ExitTyped(a) /\ phase[a] \in Suspended
    BY <1>2 DEF EvaluatorFails, HandoffThrows, Goto, ExitTyped, OutcomeFits, TypeOK, Phase, Suspended
  <2> QED BY <1>2, <2>1, ExitStep DEF EvaluatorFails, HandoffThrows, durable
<1>3. ASSUME NEW a \in Runs, Started(a) PROVE TypeInv'
  <2>1. phase[a] \in Suspended
    BY <1>3 DEF Started, Suspended
  <2>2. log' \in [Runs -> Seq(Entry)]
    BY <1>3, <2>1, PersistType DEF Started, Identified, Event
  <2>3. ExitTyped(a)
    BY <1>3, <2>1, LoopHeadType DEF Started, OutcomeFits
  <2>4. step' \in [Runs -> Nat]
    BY <1>3, FirstStepsType DEF Started
  <2> QED BY <1>3, <2>1, <2>2, <2>3, <2>4, ExitStep DEF Started
<1>4. ASSUME NEW a \in Runs, TurnStarted(a) PROVE TypeInv'
  <2>1. phase[a] \in Suspended
    BY <1>4 DEF TurnStarted, Suspended
  <2>2. ExitTyped(a)
    <3>1. CASE BeginCancel(a)
      BY <2>1, <3>1, BeginCancelType
    <3>2. CASE Goto(a, "step") /\ UNCHANGED <<outcome, saga, effects, reg>>
      BY <1>4, <3>2 DEF TurnStarted, Goto, ExitTyped, OutcomeFits, TypeOK, Phase, Suspended
    <3> QED BY <1>4, <3>1, <3>2 DEF TurnStarted
  <2> QED BY <1>4, <2>1, <2>2, ExitStep DEF TurnStarted, durable
<1>5. ASSUME NEW a \in Runs, ToolSucceeds(a) PROVE TypeInv'
  <2>0. CallOf(a) \in Call
    BY DEF CallOf, Call
  <2>1. ExitTyped(a) /\ phase[a] \in Suspended
    BY <1>5, <2>0 DEF ToolSucceeds, ExitTyped, OutcomeFits, TypeOK, Phase, Suspended
  <2> QED BY <1>5, <2>1, ExitStep DEF ToolSucceeds, durable
<1>6. ASSUME NEW a \in Runs, StepEnds(a) PROVE TypeInv'
  <2>1. phase[a] \in Suspended /\ step[a] + 1 \in Nat
    BY <1>6 DEF StepEnds, Suspended
  <2>2. snapshot' \in [Runs -> Snapshot]
    BY <1>6, <2>1, SaveSnapshotType DEF StepEnds
  <2>3. ExitTyped(a)
    BY <1>6, <2>1, LoopHeadType DEF StepEnds, OutcomeFits
  <2>4. step' \in [Runs -> Nat]
    BY <1>6 DEF StepEnds
  <2> QED BY <1>6, <2>1, <2>2, <2>3, <2>4, ExitStep DEF StepEnds, AfterStep
<1>7. ASSUME NEW a \in Runs, PolicyStops(a) PROVE TypeInv'
  <2>1. phase[a] \in Suspended /\ step[a] + 1 \in Nat /\ "emit" \in Suspended
    BY <1>7 DEF PolicyStops, Suspended
  <2>2. snapshot' \in [Runs -> Snapshot]
    BY <1>7, <2>1, SaveSnapshotType DEF PolicyStops
  <2>3. ExitTyped(a)
    BY <1>7, <2>1, CheckedExitType DEF PolicyStops, Outcome
  <2> QED BY <1>7, <2>1, <2>2, <2>3, ExitStep DEF PolicyStops, AfterStep
<1>8. ASSUME NEW a \in Runs, FinalAnswer(a) PROVE TypeInv'
  <2>1. phase[a] \in Suspended /\ "emit" \in Suspended /\ "succeeded" \in Outcome
    BY <1>8 DEF FinalAnswer, Suspended, Outcome
  <2>2. ExitTyped(a)
    BY <1>8, <2>1, CheckedExitType, LoopHeadType DEF FinalAnswer, OutcomeFits
  <2>3. step' = step \/ step' = [step EXCEPT ![a] = step[a] + 1]
    BY <1>8 DEF FinalAnswer
  <2>4. step' \in [Runs -> Nat]
    <3>1. step[a] + 1 \in Nat
      OBVIOUS
    <3> QED BY <2>3, <3>1
  <2> QED BY <1>8, <2>1, <2>2, <2>4, ExitStep DEF FinalAnswer, AfterStep
<1>9. ASSUME NEW a \in Runs, StepThrows(a) \/ EmissionFails(a) PROVE TypeInv'
  <2>1. phase[a] \in Suspended
    BY <1>9 DEF StepThrows, EmissionFails, Suspended
  <2>2. ExitTyped(a)
    BY <1>9, <2>1, CatchType DEF StepThrows, EmissionFails
  <2>3. log' \in [Runs -> Seq(Entry)]
    <3>1. log' = log \/ Persist(a, "started")
      BY <1>9 DEF StepThrows, EmissionFails, AfterStep
    <3> QED BY <2>1, <3>1, PersistType DEF Identified, Event
  <2> QED BY <1>9, <2>1, <2>2, <2>3, ExitStep DEF StepThrows, EmissionFails, AfterStep
<1>10. ASSUME NEW a \in Runs, Exhausted(a) PROVE TypeInv'
  <2>1. phase[a] \in Suspended /\ "emit" \in Suspended /\ "exceeded" \in Outcome
    BY <1>10 DEF Exhausted, Suspended, Outcome
  <2>2. ExitTyped(a)
    <3>1. CASE Exit(a, "emit", "succeeded") /\ UNCHANGED <<saga, effects, reg>>
      BY <3>1 DEF Exit, Goto, ExitTyped, OutcomeFits, TypeOK, Phase, Suspended, Outcome
    <3>2. CASE CheckedExit(a, "emit", "exceeded")
      BY <2>1, <3>2, CheckedExitType
    <3> QED BY <1>10, <3>1, <3>2 DEF Exhausted
  <2> QED BY <1>10, <2>1, <2>2, ExitStep DEF Exhausted, durable
<1>11. ASSUME NEW a \in Runs, RolledBack(a) \/ HandoffRejected(a) PROVE TypeInv'
  <2>1. phase[a] \in Suspended /\ ExitTyped(a)
    <3>1. CASE RolledBack(a)
      BY <3>1 DEF RolledBack, Goto, Undo, ExitTyped, OutcomeFits, TypeOK, Phase, Suspended
    <3>2. CASE HandoffRejected(a)
      BY <3>2 DEF HandoffRejected, Exit, Goto, Undo, ExitTyped, OutcomeFits, TypeOK, Phase,
                  Suspended, Outcome
    <3> QED BY <1>11, <3>1, <3>2
  <2> QED BY <1>11, <2>1, ExitStep DEF RolledBack, HandoffRejected, durable
<1>12. ASSUME NEW a \in Runs, StepHandsOff(a) PROVE TypeInv'
  <2>1. phase[a] \in Suspended /\ step[a] + 1 \in Nat
    BY <1>12 DEF StepHandsOff, Suspended
  <2>2. snapshot' \in [Runs -> Snapshot]
    BY <1>12, <2>1, SaveSnapshotType DEF StepHandsOff
  <2>3. ExitTyped(a)
    BY <1>12 DEF StepHandsOff, Goto, ExitTyped, OutcomeFits, TypeOK, Phase, Suspended
  <2>4. step' \in [Runs -> Nat]
    BY <1>12 DEF StepHandsOff
  <2> QED BY <1>12, <2>1, <2>2, <2>3, <2>4, ExitStep DEF StepHandsOff, AfterStep
<1>13. ASSUME NEW a \in Runs, HandoffAccepted(a) PROVE TypeInv'
  <2>1. ExitTyped(a) /\ phase[a] \in Suspended
    BY <1>13 DEF HandoffAccepted, Goto, ExitTyped, OutcomeFits, TypeOK, Phase, Suspended
  <2>2. handoffs' \in [Runs -> Nat]
    BY <1>13 DEF HandoffAccepted
  <2> QED BY <1>13, <2>1, <2>2, ExitStep DEF HandoffAccepted, durable
<1>14. ASSUME NEW a \in Runs, HandoffAnnounced(a) PROVE TypeInv'
  <2>1. ExitTyped(a) /\ phase[a] \in Suspended
    BY <1>14 DEF HandoffAnnounced, Goto, ExitTyped, OutcomeFits, TypeOK, Phase, Suspended
  <2>2. resumed' \in [Runs -> BOOLEAN]
    BY <1>14 DEF HandoffAnnounced
  <2> QED BY <1>14, <2>1, <2>2, ExitStep DEF HandoffAnnounced, durable
<1>15. ASSUME NEW a \in Runs, TerminalEmitted(a) PROVE TypeInv'
  <2>1. ExitTyped(a) /\ phase[a] \in Suspended
    BY <1>15 DEF TerminalEmitted, Goto, ExitTyped, OutcomeFits, TypeOK, Phase, Suspended
  <2>2. Verdict(outcome[a]) \in Event
    BY DEF Verdict, Event, Terminal
  <2>3. log' \in [Runs -> Seq(Entry)]
    BY <1>15, <2>1, <2>2, PersistType DEF TerminalEmitted, Identified
  <2> QED BY <1>15, <2>1, <2>3, ExitStep DEF TerminalEmitted
<1>16. ASSUME NEW a \in Runs, TerminalFails(a) PROVE TypeInv'
  <2>1. phase[a] \in Suspended
    BY <1>16 DEF TerminalFails, Suspended
  <2>2. ExitTyped(a)
    <3>1. CASE Catch(a)
      BY <2>1, <3>1, CatchType
    <3>2. CASE Goto(a, "threw") /\ Forget(a) /\ reg' = Released(reg, a) /\ UNCHANGED outcome
      <4>1. reg' \in Registry
        BY <2>1, <3>2, ReleasedType
      <4> QED BY <3>2, <4>1 DEF Goto, Forget, ExitTyped, OutcomeFits, TypeOK, Phase
    <3>3. CASE Goto(a, "threw") /\ UNCHANGED <<outcome, saga, effects, reg>>
      BY <3>3 DEF Goto, ExitTyped, OutcomeFits, TypeOK, Phase
    <3> QED BY <1>16, <3>1, <3>2, <3>3 DEF TerminalFails
  <2>3. log' \in [Runs -> Seq(Entry)]
    <3>1. Verdict(outcome[a]) \in Event
      BY DEF Verdict, Event, Terminal
    <3>2. log' = log \/ Persist(a, Verdict(outcome[a]))
      BY <1>16 DEF TerminalFails
    <3> QED BY <2>1, <3>1, <3>2, PersistType DEF Identified
  <2> QED BY <1>16, <2>1, <2>2, <2>3, ExitStep DEF TerminalFails
<1>17. ASSUME NEW a \in Runs, SucceededHooks(a) \/ CancelledHooks(a) PROVE TypeInv'
  <2>1. reg' \in Registry
    BY <1>17, SetStateType DEF SucceededHooks, CancelledHooks, RunState
  <2>2. phase[a] \in Suspended /\ ExitTyped(a)
    <3>1. CASE SucceededHooks(a)
      BY <2>1, <3>1 DEF SucceededHooks, Goto, ExitTyped, OutcomeFits, TypeOK, Phase, Suspended
    <3>2. CASE CancelledHooks(a)
      BY <2>1, <3>2 DEF CancelledHooks, Goto, Undo, ExitTyped, OutcomeFits, TypeOK, Phase,
                        Suspended
    <3> QED BY <1>17, <3>1, <3>2
  <2> QED BY <1>17, <2>2, ExitStep DEF SucceededHooks, CancelledHooks, durable
<1>18. ASSUME NEW a \in Runs, FailedHooks(a) PROVE TypeInv'
  <2>1. phase[a] \in Suspended
    BY <1>18 DEF FailedHooks, Suspended
  <2>2. reg' \in Registry
    BY <1>18, <2>1, SetStateType, ReleasedType DEF FailedHooks, RunState
  <2>3. ExitTyped(a)
    BY <1>18, <2>2 DEF FailedHooks, Goto, Undo, ExitTyped, OutcomeFits, TypeOK, Phase
  <2> QED BY <1>18, <2>1, <2>3, ExitStep DEF FailedHooks, durable
<1>19. ASSUME NEW a \in Runs, FinalSnapshot(a) PROVE TypeInv'
  <2>1. phase[a] \in Suspended /\ step[a] + 1 \in Nat
    BY <1>19 DEF FinalSnapshot, Suspended
  <2>2. reg' \in Registry
    BY <1>19, <2>1, ReleasedType DEF FinalSnapshot
  <2>3. ExitTyped(a)
    BY <1>19, <2>2 DEF FinalSnapshot, Goto, Forget, ExitTyped, OutcomeFits, TypeOK, Phase
  <2>4. outcome[a] \in {"none", "running", "succeeded", "cancelled"}
    BY <1>19 DEF FinalSnapshot, OutcomeFits
  <2>5. snapshot' \in [Runs -> Snapshot]
    BY <1>19, <2>1, <2>4, SaveSnapshotType DEF FinalSnapshot
  <2> QED BY <1>19, <2>1, <2>3, <2>5, ExitStep DEF FinalSnapshot
<1>20. ASSUME NEW a \in Runs, NEW s \in Sessions, Start(a, s) PROVE TypeInv'
  <2>1. reg' \in Registry
    BY <1>20, CreateType DEF Start, Begin
  <2> QED BY <1>20, <2>1 DEF Start, Begin, Goto, TypeOK, Identified, Fresh, OutcomeFits,
                             Phase, Suspended, durable
<1>21. ASSUME NEW a \in Runs, NEW b \in Runs, Restore(a, b) PROVE TypeInv'
  <2>1. runOf[b] \in Runs /\ session[b] \in Sessions
    BY <1>21 DEF Restore, TypeOK, Identified
  <2>2. snapshot[runOf[b]].step \in Nat
    BY <2>1 DEF Snapshot
  <2> QED BY <1>21, <2>1, <2>2 DEF Restore, Goto, TypeOK, Identified, Fresh,
                             OutcomeFits, Phase, Suspended, durable
<1>30. ASSUME NEW a \in Runs, Resume(a) PROVE TypeInv'
  <2>1. runOf[a] \in Runs /\ session[a] \in Sessions
    BY <1>30 DEF Resume, Identified
  <2>2. reg' \in Registry
    BY <1>30, <2>1, CreateType DEF Resume, Begin
  <2> QED BY <1>30, <2>1, <2>2 DEF Resume, Begin, Goto, TypeOK, Identified, Fresh,
                             OutcomeFits, Phase, Suspended, identity, durable
<1>22. ASSUME NEW p \in Runs, NEW c \in Runs, Delegate(p, c) PROVE TypeInv'
  <2>1. session[p] \in Sessions
    BY <1>22 DEF Delegate, Identified, Suspended
  <2> QED BY <1>22, <2>1 DEF Delegate, Goto, TypeOK, Identified, Fresh, OutcomeFits,
                             Phase, Suspended, durable
<1>23. ASSUME NEW c \in Runs, StartChild(c) PROVE TypeInv'
  <2>1. session[c] \in Sessions
    BY <1>23 DEF StartChild, Identified
  <2>2. reg' \in Registry
    BY <1>23, <2>1, CreateType DEF StartChild, Begin
  <2> QED BY <1>23, <2>1, <2>2 DEF StartChild, Begin, Goto, TypeOK, Identified, Fresh,
                             OutcomeFits, Phase, Suspended, durable
<1>24. ASSUME NEW S \in SUBSET Runs, Abort(S) PROVE TypeInv'
  <2>1. aborted' \subseteq Runs
    BY <1>24 DEF Abort, AbortsWith, Children, TypeOK
  <2> QED BY <1>24, <2>1 DEF Abort, TypeOK, Identified, Fresh, OutcomeFits, identity, durable
<1>25. ASSUME NEW a \in Runs, HandleAbort(a) PROVE TypeInv'
  BY <1>24, <1>25 DEF HandleAbort
<1>26. CASE CancelAll
  <2>1. CancelAllTargets(reg) \in SUBSET Runs
    BY DEF CancelAllTargets, Registry
  <2> QED BY <1>24, <1>26, <2>1 DEF CancelAll
<1>27. ASSUME NEW c \in Runs, ToolTimeout(c) PROVE TypeInv'
  BY <1>27 DEF ToolTimeout, TypeOK, Identified, Fresh, OutcomeFits, identity, durable
<1>28. CASE Crash
  <2>1. EmptyRegistry \in Registry
    BY NoneAssumption DEF EmptyRegistry, Registry
  <2> QED BY <1>28, <2>1 DEF Crash, TypeOK, Identified, Fresh, OutcomeFits, Phase,
                             Suspended, identity, durable
<1>29. CASE UNCHANGED vars
  BY <1>29 DEF vars, TypeOK, Identified, Fresh, OutcomeFits, identity, durable
<1> QED
  BY <1>1, <1>2, <1>3, <1>4, <1>5, <1>6, <1>7, <1>8, <1>9, <1>10, <1>11, <1>12, <1>13,
     <1>14, <1>15, <1>16, <1>17, <1>18, <1>19, <1>20, <1>21, <1>22, <1>23, <1>25, <1>26,
     <1>27, <1>28, <1>29, <1>30
  DEF Next, LoopStep, Host

(* Every variable keeps its type, and an activation suspended in the loop   *)
(* knows its run and its session and has not chosen an outcome yet.         *)
THEOREM TypeCorrect == Spec => []TypeOK
<1>1. Spec => []TypeInv
  BY TypeInit, TypeStep, PTL DEF Spec
<1>2. TypeInv => TypeOK
  BY DEF TypeInv
<1> QED BY <1>1, <1>2, PTL

----------------------------------------------------------------------------
(* Sessions.                                                               *)

(* What a step of the loop does to the session of its run: a run that goes  *)
(* on keeps it, one that leaves releases it or throws, and a cancelled one  *)
(* that is still finishing no longer touches it.                            *)
BusyStep(a) ==
  /\ phase[a] \in Suspended /\ phase'[a] \notin {"idle", "resolving", "restoring"}
  /\ \A b \in Runs \ {a} : phase'[b] = phase[b] /\ outcome'[b] = outcome[b]
  /\ Holding(a)' => Holding(a) /\ reg'.busy = reg.busy
  /\ Holding(a) /\ ~ Holding(a)' =>
       \/ reg'.busy = reg.busy \ {session[a]}
       \/ phase'[a] = "threw" /\ reg'.busy = reg.busy
  /\ ~ Holding(a) => reg'.busy = reg.busy

LEMMA BeginCancelBusy ==
  ASSUME TypeInv, NEW a \in Runs, Holding(a), BeginCancel(a)
  PROVE  BusyStep(a)
<1>1. reg'.busy = reg.busy \ {session[a]}
  BY ReleasedType DEF BeginCancel, Holding, TypeInv, TypeOK
<1> QED BY <1>1 DEF BeginCancel, Exit, Goto, BusyStep, Holding, Suspended, TypeInv, TypeOK

LEMMA CatchBusy ==
  ASSUME TypeInv, NEW a \in Runs, Holding(a), Catch(a)
  PROVE  BusyStep(a)
<1>1. CASE BeginCancel(a)
  BY <1>1, BeginCancelBusy
<1>2. CASE Exit(a, "rollback", "error") /\ UNCHANGED <<saga, effects, reg>>
  BY <1>2 DEF Exit, Goto, BusyStep, Holding, Suspended, TypeInv, TypeOK
<1> QED BY <1>1, <1>2 DEF Catch

LEMMA CheckedExitBusy ==
  ASSUME TypeInv, NEW a \in Runs, Holding(a), NEW p \in Suspended, NEW o,
         o # "cancelled", CheckedExit(a, p, o)
  PROVE  BusyStep(a)
<1>1. CASE BeginCancel(a)
  BY <1>1, BeginCancelBusy
<1>2. CASE Exit(a, p, o) /\ UNCHANGED <<saga, effects, reg>>
  BY <1>2 DEF Exit, Goto, BusyStep, Holding, Suspended, TypeInv, TypeOK
<1> QED BY <1>1, <1>2 DEF CheckedExit

LEMMA LoopHeadBusy ==
  ASSUME TypeInv, NEW a \in Runs, Holding(a), NEW n, LoopHead(a, n)
  PROVE  BusyStep(a)
<1>1. CASE Goto(a, "turn") /\ UNCHANGED <<outcome, saga, effects, reg>>
  BY <1>1 DEF Goto, BusyStep, Holding, Suspended, TypeInv, TypeOK
<1>2. CASE CheckedExit(a, "exhausted", outcome[a])
  BY <1>2, CheckedExitBusy DEF Holding, Suspended
<1> QED BY <1>1, <1>2 DEF LoopHead

(* Every step of the loop but the start of a delegated run.                 *)
LEMMA LoopBusy ==
  ASSUME TypeInv, NEW a \in Runs, LoopStep(a), ~ StartChild(a)
  PROVE  BusyStep(a)
<1> USE DEF TypeInv, OutcomeFollowsPhase
<1>0. /\ phase[a] \in {"evaluator", "starting", "turn", "step", "exhausted", "handoff",
                       "announce", "rollback"} => Holding(a)
      /\ phase[a] \in Suspended /\ outcome[a] # "cancelled" => Holding(a)
      /\ reg \in Registry
  BY DEF OutcomeFits, Holding, Suspended, TypeOK
<1>1. CASE EvaluatorReady(a)
  <2>1. reg'.busy = reg.busy
    BY <1>0, <1>1, SetStateType DEF EvaluatorReady, RunState
  <2> QED BY <1>0, <1>1, <2>1 DEF EvaluatorReady, Goto, BusyStep, Holding, Suspended, TypeOK
<1>2. CASE EvaluatorFails(a) \/ HandoffThrows(a)
  BY <1>0, <1>2 DEF EvaluatorFails, HandoffThrows, Goto, BusyStep, Holding, Suspended, TypeOK
<1>3. CASE Started(a)
  BY <1>0, <1>3, LoopHeadBusy DEF Started
<1>4. CASE TurnStarted(a)
  <2>1. CASE BeginCancel(a)
    BY <1>0, <1>4, <2>1, BeginCancelBusy DEF TurnStarted
  <2>2. CASE Goto(a, "step") /\ UNCHANGED <<outcome, saga, effects, reg>>
    BY <1>0, <1>4, <2>2 DEF TurnStarted, Goto, BusyStep, Holding, Suspended, TypeOK
  <2> QED BY <1>4, <2>1, <2>2 DEF TurnStarted
<1>5. CASE ToolSucceeds(a)
  BY <1>0, <1>5 DEF ToolSucceeds, BusyStep, Holding, Suspended
<1>6. CASE StepEnds(a)
  BY <1>0, <1>6, LoopHeadBusy DEF StepEnds
<1>7. CASE PolicyStops(a)
  <2>1. "emit" \in Suspended
    BY DEF Suspended
  <2> QED BY <1>0, <1>7, <2>1, CheckedExitBusy DEF PolicyStops
<1>8. CASE FinalAnswer(a)
  <2>1. "emit" \in Suspended
    BY DEF Suspended
  <2> QED BY <1>0, <1>8, <2>1, CheckedExitBusy, LoopHeadBusy DEF FinalAnswer
<1>9. CASE StepThrows(a) \/ EmissionFails(a)
  BY <1>0, <1>9, CatchBusy DEF StepThrows, EmissionFails
<1>10. CASE Exhausted(a)
  <2>1. CASE Exit(a, "emit", "succeeded") /\ UNCHANGED <<saga, effects, reg>>
    BY <1>0, <1>10, <2>1 DEF Exhausted, Exit, Goto, BusyStep, Holding, Suspended, TypeOK
  <2>2. CASE CheckedExit(a, "emit", "exceeded")
    <3>1. "emit" \in Suspended
      BY DEF Suspended
    <3> QED BY <1>0, <1>10, <2>2, <3>1, CheckedExitBusy DEF Exhausted
  <2> QED BY <1>10, <2>1, <2>2 DEF Exhausted
<1>11. CASE RolledBack(a)
  BY <1>0, <1>11 DEF RolledBack, Goto, BusyStep, Holding, Suspended, TypeOK
<1>12. CASE HandoffRejected(a)
  BY <1>0, <1>12 DEF HandoffRejected, Exit, Goto, BusyStep, Holding, Suspended, TypeOK
<1>13. CASE StepHandsOff(a) \/ HandoffAccepted(a) \/ HandoffAnnounced(a)
  BY <1>0, <1>13 DEF StepHandsOff, HandoffAccepted, HandoffAnnounced, Goto, BusyStep,
                     Holding, Suspended, TypeOK
<1>14. CASE TerminalEmitted(a)
  BY <1>14 DEF TerminalEmitted, Goto, BusyStep, Holding, Suspended, TypeOK
<1>15. CASE TerminalFails(a)
  <2>1. CASE outcome[a] \in {"succeeded", "exceeded"}
    BY <1>0, <1>15, <2>1, CatchBusy DEF TerminalFails, Suspended
  <2>2. CASE outcome[a] = "error"
    <3>1. reg'.busy = reg.busy \ {session[a]}
      BY <1>0, <1>15, <2>2, ReleasedType DEF TerminalFails, Suspended
    <3> QED BY <1>15, <2>2, <3>1 DEF TerminalFails, Goto, BusyStep, Holding, Suspended, TypeOK
  <2>3. CASE outcome[a] \notin {"succeeded", "exceeded", "error"}
    BY <1>15, <2>3 DEF TerminalFails, Goto, BusyStep, Holding, Suspended, TypeOK
  <2> QED BY <2>1, <2>2, <2>3
<1>16. CASE SucceededHooks(a) \/ CancelledHooks(a)
  <2>1. reg'.busy = reg.busy
    BY <1>0, <1>16, SetStateType DEF SucceededHooks, CancelledHooks, RunState
  <2> QED BY <1>0, <1>16, <2>1 DEF SucceededHooks, CancelledHooks, Goto, BusyStep, Holding,
                                   Suspended, TypeOK
<1>17. CASE FailedHooks(a)
  <2>1. reg'.busy = reg.busy \ {session[a]}
    BY <1>0, <1>17, SetStateType, ReleasedType DEF FailedHooks, RunState, Suspended
  <2> QED BY <1>0, <1>17, <2>1 DEF FailedHooks, Goto, BusyStep, Holding, Suspended, TypeOK
<1>18. CASE FinalSnapshot(a)
  <2>1. CASE outcome[a] = "succeeded"
    <3>1. reg'.busy = reg.busy \ {session[a]}
      BY <1>0, <1>18, <2>1, ReleasedType DEF FinalSnapshot, Suspended
    <3> QED BY <1>18, <2>1, <3>1 DEF FinalSnapshot, Goto, BusyStep, Holding, Suspended, TypeOK
  <2>2. CASE outcome[a] # "succeeded"
    <3>1. outcome[a] = "cancelled"
      BY <1>18, <2>2 DEF FinalSnapshot, OutcomeFits
    <3> QED BY <1>18, <2>2, <3>1 DEF FinalSnapshot, Goto, BusyStep, Holding, Suspended, TypeOK
  <2> QED BY <2>1, <2>2
<1> QED
  BY <1>1, <1>2, <1>3, <1>4, <1>5, <1>6, <1>7, <1>8, <1>9, <1>10, <1>11, <1>12, <1>13,
     <1>14, <1>15, <1>16, <1>17, <1>18
  DEF LoopStep

LEMMA LoopKeepsSession ==
  ASSUME NEW a \in Runs, LoopStep(a)
  PROVE  UNCHANGED <<session, parent>>
BY DEF LoopStep, EvaluatorReady, EvaluatorFails, Started, TurnStarted, ToolSucceeds,
       StepEnds, PolicyStops, FinalAnswer, StepThrows, EmissionFails, Exhausted,
       RolledBack, StepHandsOff, HandoffRejected, HandoffAccepted, HandoffAnnounced,
       HandoffThrows, TerminalEmitted, TerminalFails, SucceededHooks, FailedHooks,
       CancelledHooks, FinalSnapshot, StartChild, AfterStep, identity

(* Admission occupies the session only of a run that then holds it.         *)
LEMMA BeginBusy ==
  ASSUME TypeInv, NEW a \in Runs, NEW r \in Runs, NEW s \in Sessions, NEW p,
         phase[a] \in {"idle", "resolving", "restoring"}, Begin(a, r, s, p), outcome' = outcome
  PROVE  /\ \A b \in Runs \ {a} : phase'[b] = phase[b]
         /\ ~ Holding(a)
         /\ \/ reg'.busy = reg.busy
            \/ reg'.busy = reg.busy \cup {s} /\ Holding(a)'
         /\ p = None /\ Holding(a)' => s \notin reg.busy /\ reg'.busy = reg.busy \cup {s}
<1>1. /\ BypassesBusyCheck(Claim(reg, r, a), p) \/ s \in reg.busy => reg'.busy = reg.busy
      /\ ~ BypassesBusyCheck(Claim(reg, r, a), p) /\ s \notin reg.busy =>
           reg'.busy = reg.busy \cup {s}
  <2>1. reg \in Registry /\ reg' = CreateRun(reg, r, a, s, p)
    BY DEF Begin, TypeInv, TypeOK
  <2> HIDE DEF TypeInv
  <2> QED BY <2>1, CreateType
<1>2. p = None => ~ BypassesBusyCheck(Claim(reg, r, a), p)
  BY DEF BypassesBusyCheck
<1>3. /\ phase' = [phase EXCEPT ![a] = IF Admits(reg, r, a, s, p) THEN "evaluator" ELSE "refused"]
      /\ phase \in [Runs -> Phase]
      /\ outcome[a] = "none"
  BY DEF Begin, Goto, TypeInv, TypeOK, OutcomeFollowsPhase, OutcomeFits
<1>4. Admits(reg, r, a, s, p) <=> BypassesBusyCheck(Claim(reg, r, a), p) \/ s \notin reg.busy
  BY DEF Admits
<1>5. Holding(a)' <=> Admits(reg, r, a, s, p)
  BY <1>3 DEF Holding, Suspended
<1> QED BY <1>1, <1>2, <1>3, <1>4, <1>5 DEF Holding, Suspended

LEMMA BusyInit == Init => BusyIsAccountedFor
BY DEF Init, EmptyRegistry, BusyIsAccountedFor

Owed(s) == \E a \in Runs : session[a] = s /\ (Holding(a) \/ phase[a] = "threw")

LEMMA BusyStepKeeps == TypeInv /\ BusyIsAccountedFor /\ [Next]_vars => BusyIsAccountedFor'
<1> SUFFICES ASSUME TypeInv, BusyIsAccountedFor, [Next]_vars,
                    NEW s \in reg'.busy
             PROVE  Owed(s)'
  BY DEF BusyIsAccountedFor, Owed
<1>1. ASSUME NEW a \in Runs, LoopStep(a), ~ StartChild(a)
      PROVE  Owed(s)'
  <2>1. BusyStep(a) /\ session' = session
    BY <1>1, LoopBusy, LoopKeepsSession
  <2>2. s \in reg.busy
    BY <2>1 DEF BusyStep
  <2>3. PICK b \in Runs : session[b] = s /\ (Holding(b) \/ phase[b] = "threw")
    BY <2>2 DEF BusyIsAccountedFor
  <2>4. CASE b # a
    BY <2>1, <2>3, <2>4 DEF BusyStep, Holding, Owed
  <2>5. CASE b = a
    <3>1. Holding(a)
      BY <2>1, <2>3, <2>5 DEF BusyStep, Suspended
    <3> QED BY <2>1, <2>3, <2>5, <3>1 DEF BusyStep, Owed
  <2> QED BY <2>4, <2>5
<1>2. ASSUME NEW a \in Runs, NEW r \in Runs, NEW t \in Sessions, NEW p,
             phase[a] \in {"idle", "resolving", "restoring"}, Begin(a, r, t, p), outcome' = outcome,
             \A b \in Runs \ {a} : session'[b] = session[b],
             session'[a] = t
      PROVE  Owed(s)'
  <2>1. CASE s \in reg.busy
    <3>1. PICK b \in Runs : session[b] = s /\ (Holding(b) \/ phase[b] = "threw")
      BY <2>1 DEF BusyIsAccountedFor
    <3>2. b # a
      BY <1>2, <3>1 DEF Holding, Suspended
    <3> QED BY <1>2, <3>1, <3>2, BeginBusy DEF Holding, Owed
  <2>2. CASE s \notin reg.busy
    <3>1. Holding(a)' /\ s = t
      BY <1>2, <2>2, BeginBusy
    <3> QED BY <1>2, <3>1 DEF Owed
  <2> QED BY <2>1, <2>2
<1>3. ASSUME NEW c \in Runs, StartChild(c)
      PROVE  Owed(s)'
  <2>1. session[c] \in Sessions
    BY <1>3 DEF StartChild, TypeInv, Identified
  <2> QED BY <1>2, <1>3, <2>1 DEF StartChild
<1>4. ASSUME NEW a \in Runs, NEW t \in Sessions, Start(a, t)
      PROVE  Owed(s)'
  <2>1. session'[a] = t /\ \A b \in Runs \ {a} : session'[b] = session[b]
    BY <1>4 DEF Start, TypeInv, TypeOK
  <2>2. phase[a] \in {"idle", "resolving", "restoring"} /\ Begin(a, a, t, None) /\ outcome' = outcome
    BY <1>4 DEF Start
  <2> QED BY <1>2, <2>1, <2>2
<1>5. ASSUME NEW a \in Runs, Resume(a)
      PROVE  Owed(s)'
  <2>1. runOf[a] \in Runs /\ session[a] \in Sessions
    BY <1>5 DEF Resume, TypeInv, Identified
  <2> QED BY <1>2, <1>5, <2>1 DEF Resume, identity
<1>11. ASSUME NEW a \in Runs, NEW e \in Runs, Restore(a, e)
      PROVE  Owed(s)'
  <2>1. PICK b \in Runs : session[b] = s /\ (Holding(b) \/ phase[b] = "threw")
    BY <1>11 DEF Restore, BusyIsAccountedFor
  <2>2. b # a
    BY <1>11, <2>1 DEF Restore, Holding, Suspended
  <2> QED BY <1>11, <2>1, <2>2 DEF Restore, Goto, Holding, Owed, TypeInv, TypeOK
<1>6. ASSUME NEW p \in Runs, NEW c \in Runs, Delegate(p, c)
      PROVE  Owed(s)'
  <2>1. s \in reg.busy
    BY <1>6 DEF Delegate
  <2>2. PICK b \in Runs : session[b] = s /\ (Holding(b) \/ phase[b] = "threw")
    BY <2>1 DEF BusyIsAccountedFor
  <2>3. b # c
    BY <1>6, <2>2 DEF Delegate, Holding, Suspended
  <2> QED BY <1>6, <2>2, <2>3 DEF Delegate, Goto, Holding, Owed, TypeInv, TypeOK
<1>7. ASSUME reg' = reg, session' = session, phase' = phase, outcome' = outcome
      PROVE  Owed(s)'
  BY <1>7 DEF BusyIsAccountedFor, Holding, Owed
<1>8. CASE \E a \in Runs : HandleAbort(a) \/ ToolTimeout(a)
  BY <1>7, <1>8 DEF HandleAbort, Abort, ToolTimeout, identity
<1>9. CASE CancelAll \/ UNCHANGED vars
  BY <1>7, <1>9 DEF CancelAll, Abort, identity, vars
<1>10. CASE Crash
  BY <1>10 DEF Crash, EmptyRegistry
<1> QED
  BY <1>1, <1>3, <1>4, <1>5, <1>6, <1>8, <1>9, <1>10, <1>11 DEF Next, Host

(* A session that is busy belongs to a run that is under way, or to one     *)
(* that threw past every cleanup.                                           *)
THEOREM BusyAccounted == Spec => []BusyIsAccountedFor
<1>1. Init => TypeInv /\ BusyIsAccountedFor
  BY TypeInit, BusyInit
<1>2. TypeInv /\ BusyIsAccountedFor /\ [Next]_vars => (TypeInv /\ BusyIsAccountedFor)'
  BY TypeStep, BusyStepKeeps
<1> QED BY <1>1, <1>2, PTL DEF Spec

(* Without delegation a session has one holder.                             *)
SessionInv ==
  /\ \A a \in Runs : parent[a] = None /\ phase[a] # "resolving"
  /\ \A a \in Runs : Holding(a) => session[a] \in reg.busy
  /\ \A a, b \in Runs : Holding(a) /\ Holding(b) /\ session[a] = session[b] => a = b

LEMMA SessionInit == Init => SessionInv
BY DEF Init, SessionInv, Holding, Suspended

LEMMA SessionStep ==
  ASSUME "delegate" \notin Features
  PROVE  TypeInv /\ SessionInv /\ [Next]_vars => SessionInv'
<1> SUFFICES ASSUME TypeInv, SessionInv, [Next]_vars PROVE SessionInv'
  OBVIOUS
<1>1. ASSUME NEW a \in Runs, LoopStep(a) PROVE SessionInv'
  <2>1. ~ StartChild(a)
    BY DEF StartChild, SessionInv
  <2>2. BusyStep(a) /\ UNCHANGED <<session, parent>>
    BY <1>1, <2>1, LoopBusy, LoopKeepsSession
  <2>3. \A b \in Runs : Holding(b)' => Holding(b)
    BY <2>2 DEF BusyStep, Holding
  <2>4. \A b \in Runs : Holding(b)' => session[b] \in reg'.busy
    BY <2>2, <2>3 DEF BusyStep, SessionInv, Holding
  <2>5. phase'[a] # "resolving"
    BY <2>2 DEF BusyStep
  <2> QED BY <2>2, <2>3, <2>4, <2>5 DEF SessionInv, BusyStep
<1>2. ASSUME NEW a \in Runs, NEW r \in Runs, NEW s \in Sessions,
             phase[a] \in {"idle", "restoring"}, Begin(a, r, s, None), UNCHANGED <<outcome, parent>>,
             session' = [session EXCEPT ![a] = s]
      PROVE  SessionInv'
  <2>1. /\ \A b \in Runs \ {a} : phase'[b] = phase[b] /\ session'[b] = session[b]
        /\ session'[a] = s
    BY <1>2, BeginBusy, SMTT(30) DEF TypeInv, TypeOK
  <2>2. \A b \in Runs \ {a} : Holding(b)' <=> Holding(b)
    BY <1>2, <2>1 DEF Holding
  <2>3. /\ reg'.busy = reg.busy \/ reg'.busy = reg.busy \cup {s}
        /\ Holding(a)' => s \notin reg.busy /\ reg'.busy = reg.busy \cup {s}
    BY <1>2, BeginBusy
  <2>4. phase'[a] # "resolving"
    BY <1>2 DEF Begin, Goto, TypeInv, TypeOK
  <2> QED BY <1>2, <2>1, <2>2, <2>3, <2>4 DEF SessionInv
<1>3. ASSUME NEW a \in Runs, NEW s \in Sessions, Start(a, s) PROVE SessionInv'
  BY <1>2, <1>3 DEF Start
<1>4. ASSUME NEW a \in Runs, Resume(a) PROVE SessionInv'
  <2>1. runOf[a] \in Runs /\ session[a] \in Sessions
    BY <1>4 DEF Resume, TypeInv, Identified
  <2>2. session' = [session EXCEPT ![a] = session[a]]
    BY <1>4 DEF Resume, identity, TypeInv, TypeOK
  <2> QED BY <1>2, <1>4, <2>1, <2>2 DEF Resume, identity
<1>10. ASSUME NEW a \in Runs, NEW e \in Runs, Restore(a, e) PROVE SessionInv'
  <2>1. \A b \in Runs : Holding(b)' <=> Holding(b)
    BY <1>10 DEF Restore, Goto, Holding, Suspended, TypeInv, TypeOK
  <2>2. ~ Holding(a) /\ \A b \in Runs \ {a} : session'[b] = session[b]
    BY <1>10 DEF Restore, Holding, Suspended, TypeInv, TypeOK
  <2>3. parent' = parent /\ reg' = reg /\ \A b \in Runs : phase'[b] # "resolving"
    BY <1>10 DEF Restore, Goto, SessionInv, TypeInv, TypeOK
  <2> QED BY <2>1, <2>2, <2>3 DEF SessionInv
<1>5. ASSUME NEW p \in Runs, NEW c \in Runs, Delegate(p, c) PROVE SessionInv'
  BY <1>5 DEF Delegate
<1>6. ASSUME reg' = reg, UNCHANGED <<session, parent, phase, outcome>> PROVE SessionInv'
  BY <1>6 DEF SessionInv, Holding
<1>7. CASE \E a \in Runs : HandleAbort(a) \/ ToolTimeout(a)
  BY <1>6, <1>7 DEF HandleAbort, Abort, ToolTimeout, identity
<1>8. CASE CancelAll \/ UNCHANGED vars
  BY <1>6, <1>8 DEF CancelAll, Abort, identity, vars
<1>9. CASE Crash
  BY <1>9 DEF Crash, SessionInv, Holding, Suspended, identity
<1> QED BY <1>1, <1>3, <1>4, <1>5, <1>7, <1>8, <1>9, <1>10 DEF Next, Host

(* The busy check of createRun keeps a session to one run at a time, for    *)
(* any number of runs, resumes, handoffs and crashes, as long as no run     *)
(* delegates to another.                                                    *)
THEOREM OneRunPerSession ==
  ASSUME "delegate" \notin Features
  PROVE  Spec => []ExclusiveSession
<1>1. Init => TypeInv /\ SessionInv
  BY TypeInit, SessionInit
<1>2. TypeInv /\ SessionInv /\ [Next]_vars => (TypeInv /\ SessionInv)'
  BY TypeStep, SessionStep
<1>3. SessionInv => ExclusiveSession
  BY DEF SessionInv, ExclusiveSession
<1> QED BY <1>1, <1>2, <1>3, PTL DEF Spec

----------------------------------------------------------------------------
(* Compensation.                                                           *)

Covered(a) == Holding(a) => effects[a] \subseteq saga[a]

Undone(a) == phase[a] = "settled" /\ outcome[a] \in {"exceeded", "error", "rejected"}
               => effects[a] = {}

(* A step of a keeps both for a, and does not touch the other activations.  *)
UndoStep(a) ==
  /\ \A b \in Runs \ {a} : /\ phase'[b] = phase[b] /\ outcome'[b] = outcome[b]
                           /\ effects'[b] = effects[b] /\ saga'[b] = saga[b]
  /\ Covered(a)' /\ Undone(a)'

LEMMA BeginCancelUndo ==
  ASSUME TypeInv, NEW a \in Runs, BeginCancel(a)
  PROVE  UndoStep(a)
BY DEF BeginCancel, Exit, Goto, Forget, UndoStep, Covered, Undone, Holding, TypeInv, TypeOK

LEMMA CatchUndo ==
  ASSUME TypeInv, NEW a \in Runs, Holding(a), Covered(a), Catch(a)
  PROVE  UndoStep(a)
<1>1. CASE BeginCancel(a)
  BY <1>1, BeginCancelUndo
<1>2. CASE Exit(a, "rollback", "error") /\ UNCHANGED <<saga, effects, reg>>
  BY <1>2 DEF Exit, Goto, UndoStep, Covered, Undone, Holding, TypeInv, TypeOK
<1> QED BY <1>1, <1>2 DEF Catch

LEMMA CheckedExitUndo ==
  ASSUME TypeInv, NEW a \in Runs, Holding(a), Covered(a), NEW p \in Suspended, NEW o,
         CheckedExit(a, p, o)
  PROVE  UndoStep(a)
<1>1. CASE BeginCancel(a)
  BY <1>1, BeginCancelUndo
<1>2. CASE Exit(a, p, o) /\ UNCHANGED <<saga, effects, reg>>
  BY <1>2 DEF Exit, Goto, UndoStep, Covered, Undone, Holding, Suspended, TypeInv, TypeOK
<1> QED BY <1>1, <1>2 DEF CheckedExit

LEMMA LoopHeadUndo ==
  ASSUME TypeInv, NEW a \in Runs, Holding(a), Covered(a), NEW n, LoopHead(a, n)
  PROVE  UndoStep(a)
<1>1. CASE Goto(a, "turn") /\ UNCHANGED <<outcome, saga, effects, reg>>
  BY <1>1 DEF Goto, UndoStep, Covered, Undone, Holding, TypeInv, TypeOK
<1>2. CASE CheckedExit(a, "exhausted", outcome[a])
  BY <1>2, CheckedExitUndo DEF Suspended
<1> QED BY <1>1, <1>2 DEF LoopHead

LEMMA LoopUndo ==
  ASSUME TypeInv, NEW a \in Runs, Covered(a), LoopStep(a), ~ StartChild(a)
  PROVE  UndoStep(a)
<1> USE DEF TypeInv, OutcomeFollowsPhase
<1>0. /\ phase[a] \in {"evaluator", "starting", "turn", "step", "exhausted", "handoff",
                       "announce", "rollback"} => Holding(a)
      /\ phase[a] \in Suspended /\ outcome[a] # "cancelled" => Holding(a)
      /\ "emit" \in Suspended
  BY DEF OutcomeFits, Holding, Suspended, TypeOK
<1>1. CASE EvaluatorReady(a) \/ EvaluatorFails(a) \/ HandoffThrows(a)
  BY <1>0, <1>1 DEF EvaluatorReady, EvaluatorFails, HandoffThrows, Goto, UndoStep, Covered,
                    Undone, Holding, Suspended, TypeOK
<1>2. CASE Started(a) \/ StepEnds(a)
  BY <1>0, <1>2, LoopHeadUndo DEF Started, StepEnds
<1>3. CASE TurnStarted(a)
  <2>1. CASE BeginCancel(a)
    BY <2>1, BeginCancelUndo
  <2>2. CASE Goto(a, "step") /\ UNCHANGED <<outcome, saga, effects, reg>>
    BY <1>0, <1>3, <2>2 DEF TurnStarted, Goto, UndoStep, Covered, Undone, Holding, TypeOK
  <2> QED BY <1>3, <2>1, <2>2 DEF TurnStarted
<1>4. CASE ToolSucceeds(a)
  BY <1>0, <1>4 DEF ToolSucceeds, UndoStep, Covered, Undone, Holding, Suspended, TypeOK
<1>5. CASE PolicyStops(a)
  BY <1>0, <1>5, CheckedExitUndo DEF PolicyStops
<1>6. CASE FinalAnswer(a)
  BY <1>0, <1>6, CheckedExitUndo, LoopHeadUndo DEF FinalAnswer
<1>7. CASE StepThrows(a) \/ EmissionFails(a)
  BY <1>0, <1>7, CatchUndo DEF StepThrows, EmissionFails
<1>8. CASE Exhausted(a)
  <2>1. CASE Exit(a, "emit", "succeeded") /\ UNCHANGED <<saga, effects, reg>>
    BY <1>0, <1>8, <2>1 DEF Exhausted, Exit, Goto, UndoStep, Covered, Undone, Holding, TypeOK
  <2>2. CASE CheckedExit(a, "emit", "exceeded")
    BY <1>0, <1>8, <2>2, CheckedExitUndo DEF Exhausted
  <2> QED BY <1>8, <2>1, <2>2 DEF Exhausted
<1>9. CASE RolledBack(a)
  BY <1>0, <1>9 DEF RolledBack, Goto, Undo, UndoStep, Covered, Undone, TypeOK
<1>10. CASE HandoffRejected(a)
  BY <1>0, <1>10 DEF HandoffRejected, Exit, Goto, Undo, UndoStep, Covered, Undone, TypeOK
<1>11. CASE StepHandsOff(a) \/ HandoffAccepted(a) \/ HandoffAnnounced(a)
  BY <1>0, <1>11 DEF StepHandsOff, HandoffAccepted, HandoffAnnounced, Goto, UndoStep,
                     Covered, Undone, Holding, TypeOK
<1>12. CASE TerminalEmitted(a) \/ SucceededHooks(a)
  BY <1>12 DEF TerminalEmitted, SucceededHooks, Goto, UndoStep, Covered, Undone, Holding,
               Suspended, TypeOK
<1>13. CASE TerminalFails(a)
  <2>1. CASE outcome[a] \in {"succeeded", "exceeded"}
    BY <1>0, <1>13, <2>1, CatchUndo DEF TerminalFails, Suspended
  <2>2. CASE outcome[a] = "error"
    BY <1>13, <2>2 DEF TerminalFails, Goto, Forget, UndoStep, Covered, Undone, Holding,
                       Suspended, TypeOK
  <2>3. CASE outcome[a] \notin {"succeeded", "exceeded", "error"}
    BY <1>13, <2>3 DEF TerminalFails, Goto, UndoStep, Covered, Undone, Holding, Suspended,
                       TypeOK
  <2> QED BY <2>1, <2>2, <2>3
<1>14. CASE CancelledHooks(a)
  BY <1>14 DEF CancelledHooks, Goto, Undo, UndoStep, Covered, Undone, Holding, TypeOK
<1>15. CASE FailedHooks(a)
  <2>1. effects[a] \subseteq saga[a]
    BY <1>0, <1>15 DEF FailedHooks, Covered, Suspended
  <2> QED BY <1>15, <2>1 DEF FailedHooks, Goto, Undo, UndoStep, Covered, Undone, Holding,
                             Suspended, TypeOK
<1>16. CASE FinalSnapshot(a)
  <2>1. outcome[a] \in {"succeeded", "cancelled"}
    BY <1>16 DEF FinalSnapshot, OutcomeFits
  <2> QED BY <1>16, <2>1 DEF FinalSnapshot, Goto, Forget, UndoStep, Covered, Undone, Holding,
                             Suspended, TypeOK
<1> QED
  BY <1>1, <1>2, <1>3, <1>4, <1>5, <1>6, <1>7, <1>8, <1>9, <1>10, <1>11, <1>12, <1>13,
     <1>14, <1>15, <1>16
  DEF LoopStep

UndoInv == \A a \in Runs : Covered(a) /\ Undone(a)

LEMMA UndoInit == Init => UndoInv
BY DEF Init, UndoInv, Covered, Undone, Holding, Suspended

LEMMA UndoStepKeeps == TypeInv /\ UndoInv /\ [Next]_vars => UndoInv'
<1> SUFFICES ASSUME TypeInv, UndoInv, [Next]_vars PROVE UndoInv'
  OBVIOUS
<1>1. ASSUME NEW a \in Runs, LoopStep(a), ~ StartChild(a) PROVE UndoInv'
  <2>1. UndoStep(a)
    BY <1>1, LoopUndo DEF UndoInv
  <2> QED BY <2>1 DEF UndoStep, UndoInv, Covered, Undone, Holding
<1>2. ASSUME NEW a \in Runs, phase[a] \in {"idle", "resolving", "restoring"},
             \A b \in Runs \ {a} : phase'[b] = phase[b],
             phase'[a] # "settled",
             UNCHANGED <<outcome, saga, effects>>
      PROVE  UndoInv'
  <2>1. effects[a] = {}
    BY <1>2 DEF TypeInv, Fresh
  <2> QED BY <1>2, <2>1 DEF UndoInv, Covered, Undone, Holding
<1>3. CASE \E a \in Runs : StartChild(a) \/ \E s \in Sessions : Start(a, s)
  BY <1>2, <1>3 DEF StartChild, Start, Begin, Goto, TypeInv, TypeOK
<1>4. CASE \/ \E a \in Runs : Resume(a)
           \/ \E a, b \in Runs : Restore(a, b) \/ Delegate(a, b)
  <2>0. phase \in [Runs -> Phase]
    BY DEF TypeInv, TypeOK
  <2>1. ASSUME NEW a \in Runs, Resume(a) PROVE UndoInv'
    <3>1. /\ phase[a] = "restoring" /\ phase'[a] # "settled"
          /\ \A b \in Runs \ {a} : phase'[b] = phase[b]
          /\ UNCHANGED <<outcome, saga, effects>>
      BY <2>0, <2>1 DEF Resume, Begin, Goto
    <3> QED BY <1>2, <3>1
  <2>2. ASSUME NEW a \in Runs, NEW b \in Runs, Restore(a, b) PROVE UndoInv'
    <3>1. /\ phase[a] = "idle" /\ phase'[a] # "settled"
          /\ \A c \in Runs \ {a} : phase'[c] = phase[c]
          /\ UNCHANGED <<outcome, saga, effects>>
      BY <2>0, <2>2 DEF Restore, Goto
    <3> QED BY <1>2, <3>1
  <2>3. ASSUME NEW a \in Runs, NEW b \in Runs, Delegate(a, b) PROVE UndoInv'
    <3>1. /\ phase[b] = "idle" /\ phase'[b] # "settled"
          /\ \A c \in Runs \ {b} : phase'[c] = phase[c]
          /\ UNCHANGED <<outcome, saga, effects>>
      BY <2>0, <2>3 DEF Delegate, Goto
    <3> QED BY <1>2, <3>1
  <2> QED BY <1>4, <2>1, <2>2, <2>3
<1>5. ASSUME UNCHANGED <<phase, outcome, saga, effects>> PROVE UndoInv'
  BY <1>5 DEF UndoInv, Covered, Undone, Holding
<1>6. CASE \E a \in Runs : HandleAbort(a) \/ ToolTimeout(a)
  BY <1>5, <1>6 DEF HandleAbort, Abort, ToolTimeout
<1>7. CASE CancelAll \/ UNCHANGED vars
  BY <1>5, <1>7 DEF CancelAll, Abort, vars
<1>8. CASE Crash
  BY <1>8 DEF Crash, UndoInv, Covered, Undone, Holding, Suspended
<1> QED BY <1>1, <1>3, <1>4, <1>6, <1>7, <1>8 DEF Next, Host

(* A run that ends as failed has undone what its tools did, by whichever    *)
(* exit it failed and whatever the store did in between.                    *)
THEOREM FailureUndone == Spec => []FailureIsUndone
<1>1. Init => TypeInv /\ UndoInv
  BY TypeInit, UndoInit
<1>2. TypeInv /\ UndoInv /\ [Next]_vars => (TypeInv /\ UndoInv)'
  BY TypeStep, UndoStepKeeps
<1>3. UndoInv => FailureIsUndone
  BY DEF UndoInv, Undone, FailureIsUndone
<1> QED BY <1>1, <1>2, <1>3, PTL DEF Spec

----------------------------------------------------------------------------
(* Aborts.                                                                 *)

LEMMA CancelledExit ==
  ASSUME TypeInv, NEW a \in Runs, a \in aborted, NEW p, NEW o,
         BeginCancel(a) \/ Catch(a) \/ CheckedExit(a, p, o)
  PROVE  outcome'[a] = "cancelled"
BY DEF BeginCancel, Catch, CheckedExit, Exit, TypeInv, TypeOK

LEMMA CancelledHead ==
  ASSUME TypeInv, NEW a \in Runs, a \in aborted, NEW n, LoopHead(a, n)
  PROVE  outcome'[a] = "cancelled" \/ phase'[a] = "turn"
<1>1. CASE CheckedExit(a, "exhausted", outcome[a])
  BY <1>1, CancelledExit
<1>2. CASE Goto(a, "turn")
  BY <1>2 DEF Goto, TypeInv, TypeOK
<1> QED BY <1>1, <1>2 DEF LoopHead

(* A run that was told to stop while its loop runs leaves it as cancelled.  *)
LEMMA LoopCancels ==
  ASSUME TypeInv, NEW a \in Runs, LoopStep(a), a \in aborted,
         phase[a] \in {"starting", "turn", "step"},
         phase'[a] \in Suspended \ {"starting", "turn", "step"}
  PROVE  outcome'[a] = "cancelled" \/ phase'[a] = "handoff"
<1>1. CASE Started(a) \/ StepEnds(a)
  BY <1>1, CancelledHead DEF Started, StepEnds
<1>2. CASE TurnStarted(a)
  BY <1>2, CancelledExit DEF TurnStarted, Goto, TypeInv, TypeOK
<1>3. CASE PolicyStops(a)
  BY <1>3, CancelledExit DEF PolicyStops
<1>4. CASE FinalAnswer(a)
  BY <1>4, CancelledExit, CancelledHead DEF FinalAnswer
<1>5. CASE StepThrows(a) \/ EmissionFails(a)
  BY <1>5, CancelledExit DEF StepThrows, EmissionFails
<1>6. ~ ToolSucceeds(a)
  BY DEF ToolSucceeds
<1>7. CASE StepHandsOff(a)
  BY <1>7 DEF StepHandsOff, Goto, TypeInv, TypeOK
<1> QED
  BY <1>1, <1>2, <1>3, <1>4, <1>5, <1>6, <1>7
  DEF LoopStep, EvaluatorReady, EvaluatorFails, Exhausted, RolledBack, HandoffRejected,
      HandoffAccepted, HandoffAnnounced, HandoffThrows, TerminalEmitted, TerminalFails,
      SucceededHooks, FailedHooks, CancelledHooks, FinalSnapshot, StartChild

(* An abort that lands while the loop runs is found by whichever exit the   *)
(* loop takes, after any number of steps, handoffs and resumes.             *)
THEOREM AbortIsSeen == Spec => AbortCancels
<1> DEFINE Seen == \A a \in Runs :
              /\ a \in aborted
              /\ phase[a] \in {"starting", "turn", "step"}
              /\ phase'[a] \in Suspended \ {"starting", "turn", "step"}
              => outcome'[a] = "cancelled" \/ phase'[a] = "handoff"
<1>1. TypeInv /\ [Next]_vars => [Seen]_vars
  <2> SUFFICES ASSUME TypeInv, Next, NEW a \in Runs,
                      a \in aborted, phase[a] \in {"starting", "turn", "step"},
                      phase'[a] \in Suspended \ {"starting", "turn", "step"}
               PROVE  outcome'[a] = "cancelled" \/ phase'[a] = "handoff"
    OBVIOUS
  <2>1. ASSUME NEW b \in Runs, LoopStep(b), ~ StartChild(b)
        PROVE  outcome'[a] = "cancelled" \/ phase'[a] = "handoff"
    <3>1. b = a
      BY <2>1, LoopBusy DEF BusyStep
    <3> QED BY <2>1, <3>1, LoopCancels
  <2>2. ASSUME NEW b \in Runs, phase[b] \in {"idle", "resolving", "restoring"}, NEW p,
               phase' = [phase EXCEPT ![b] = p]
        PROVE  FALSE
    BY <2>2 DEF TypeInv, TypeOK
  <2>3. ~ \E b \in Runs : StartChild(b) \/ Resume(b) \/ \E s \in Sessions : Start(b, s)
    BY <2>2 DEF StartChild, Resume, Start, Begin, Goto
  <2>4. ~ \E b, c \in Runs : Restore(b, c) \/ Delegate(b, c)
    BY <2>2 DEF Restore, Delegate, Goto
  <2>5. phase'[a] # phase[a] /\ ~ Crash
    BY DEF Crash, TypeInv, TypeOK, Suspended
  <2>6. ~ CancelAll /\ ~ \E b \in Runs : HandleAbort(b) \/ ToolTimeout(b)
    BY <2>5 DEF CancelAll, HandleAbort, Abort, ToolTimeout
  <2> QED BY <2>1, <2>3, <2>4, <2>5, <2>6 DEF Next, Host
<1>2. AbortCancels <=> [][Seen]_vars
  BY DEF AbortCancels
<1> QED BY <1>1, <1>2, TypeInit, TypeStep, PTL DEF Spec

----------------------------------------------------------------------------
(* Delegation.                                                             *)

Stopped(c) ==
  /\ phase[c] \in Suspended \cup {"resolving"} /\ parent[c] # None
  /\ phase[parent[c]] # "step" \/ parent[c] \in aborted
  => c \in aborted

DelegateInv ==
  /\ \A c \in Runs : parent[c] # None => /\ parent[parent[c]] = None
                                         /\ phase[parent[c]] # "idle"
  /\ \A c \in Runs : phase[c] = "restoring" => parent[c] = None
  /\ \A c \in Runs : Stopped(c)

LEMMA DelegateInit == Init => DelegateInv
BY DEF Init, DelegateInv, Stopped

(* The step of a run ends when its delegations have, or are told to stop.   *)
LEMMA LoopWaits ==
  ASSUME NEW a \in Runs, LoopStep(a), phase[a] = "step", phase'[a] # "step"
  PROVE  ToolsDone(a)
BY DEF LoopStep, EvaluatorReady, EvaluatorFails, Started, TurnStarted, ToolSucceeds,
       StepEnds, PolicyStops, FinalAnswer, StepThrows, EmissionFails, Exhausted,
       RolledBack, StepHandsOff, HandoffRejected, HandoffAccepted, HandoffAnnounced,
       HandoffThrows, TerminalEmitted, TerminalFails, SucceededHooks, FailedHooks,
       CancelledHooks, FinalSnapshot, StartChild

LEMMA LoopKeepsAborts ==
  ASSUME NEW a \in Runs, LoopStep(a)
  PROVE  aborted' = aborted
BY DEF LoopStep, EvaluatorReady, EvaluatorFails, Started, TurnStarted, ToolSucceeds,
       StepEnds, PolicyStops, FinalAnswer, StepThrows, EmissionFails, Exhausted,
       RolledBack, StepHandsOff, HandoffRejected, HandoffAccepted, HandoffAnnounced,
       HandoffThrows, TerminalEmitted, TerminalFails, SucceededHooks, FailedHooks,
       CancelledHooks, FinalSnapshot, StartChild, AfterStep

(* An abort reaches the delegations of every run it reaches.                *)
LEMMA AbortStops ==
  ASSUME TypeInv, DelegateInv, NEW S \in SUBSET Runs, Abort(S)
  PROVE  DelegateInv'
<1> SUFFICES ASSUME NEW c \in Runs,
                    phase[c] \in Suspended \cup {"resolving"}, parent[c] # None,
                    phase[parent[c]] # "step" \/ parent[c] \in aborted'
             PROVE  c \in aborted'
  BY DEF DelegateInv, Stopped, Abort, identity
<1>1. aborted' = aborted \cup S \cup UNION {Children(a) : a \in {b \in S : phase[b] = "step"}}
  BY DEF Abort, AbortsWith
<1>2. CASE phase[parent[c]] # "step" \/ parent[c] \in aborted
  BY <1>1, <1>2 DEF DelegateInv, Stopped
<1>3. CASE phase[parent[c]] = "step" /\ parent[c] \notin aborted
  <2>1. parent[c] \in S
    <3>1. ASSUME NEW b \in S, parent[c] \in Children(b) PROVE FALSE
      BY <3>1, NoneAssumption DEF DelegateInv, Children
    <3> QED BY <1>1, <1>3, <3>1
  <2>2. c \in Children(parent[c])
    BY DEF Children
  <2> QED BY <1>1, <1>3, <2>1, <2>2
<1> QED BY <1>2, <1>3

LEMMA DelegateStep == TypeInv /\ DelegateInv /\ [Next]_vars => DelegateInv'
<1> SUFFICES ASSUME TypeInv, DelegateInv, [Next]_vars PROVE DelegateInv'
  OBVIOUS
<1>0. /\ phase \in [Runs -> Phase] /\ parent \in [Runs -> Runs \cup {None}]
      /\ aborted \subseteq Runs
  BY DEF TypeInv, TypeOK
<1>1. ASSUME NEW a \in Runs, LoopStep(a), ~ StartChild(a) PROVE DelegateInv'
  <2>1. /\ BusyStep(a)
        /\ parent' = parent /\ aborted' = aborted
        /\ phase[a] = "step" /\ phase'[a] # "step" => ToolsDone(a)
    BY <1>1, LoopBusy, LoopKeepsSession, LoopKeepsAborts, LoopWaits
  <2> QED BY <1>0, <2>1 DEF DelegateInv, Stopped, BusyStep, ToolsDone, Children
<1>2. ASSUME NEW a \in Runs, phase[a] \in {"idle", "resolving", "restoring"},
             NEW p \in Phase \ {"idle", "step", "restoring"},
             phase' = [phase EXCEPT ![a] = p], UNCHANGED <<parent, aborted>>,
             phase[a] = "resolving" \/ parent[a] = None
      PROVE  DelegateInv'
  <2>1. \A b \in Runs : phase'[b] = IF b = a THEN p ELSE phase[b]
    BY <1>0, <1>2
  <2>2. ASSUME NEW c \in Runs PROVE Stopped(c)'
    BY <1>0, <1>2, <2>1 DEF DelegateInv, Stopped, Suspended
  <2> QED BY <1>0, <1>2, <2>1, <2>2 DEF DelegateInv
<1>3. ASSUME NEW a \in Runs, StartChild(a) \/ \E s \in Sessions : Start(a, s) PROVE DelegateInv'
  BY <1>2, <1>3 DEF StartChild, Start, Begin, Goto, TypeInv, Fresh, Phase, Suspended
<1>4. ASSUME NEW a \in Runs, Resume(a) PROVE DelegateInv'
  <2>1. /\ phase[a] = "restoring" /\ parent[a] = None
        /\ \E p \in {"evaluator", "refused"} : phase' = [phase EXCEPT ![a] = p]
        /\ UNCHANGED <<parent, aborted>>
    BY <1>4 DEF Resume, identity, Begin, Goto, DelegateInv
  <2>2. {"evaluator", "refused"} \subseteq Phase \ {"idle", "step", "restoring"}
    BY DEF Phase, Suspended
  <2> QED BY <1>2, <2>1, <2>2
<1>5. ASSUME NEW a \in Runs, NEW b \in Runs, Restore(a, b) PROVE DelegateInv'
  BY <1>0, <1>5 DEF Restore, Goto, DelegateInv, Stopped, TypeInv, Fresh, Suspended
<1>6. ASSUME NEW p \in Runs, NEW c \in Runs, Delegate(p, c) PROVE DelegateInv'
  <2>1. /\ phase' = [phase EXCEPT ![c] = "resolving"] /\ phase[c] = "idle" /\ phase[p] = "step"
        /\ parent' = [parent EXCEPT ![c] = p] /\ parent[p] = None
        /\ aborted' = IF p \in aborted THEN aborted \cup {c} ELSE aborted
    BY <1>6 DEF Delegate, Goto
  <2>2. \A d \in Runs : parent[d] # c
    BY <2>1, NoneAssumption DEF DelegateInv
  <2> QED BY <1>0, <2>1, <2>2 DEF DelegateInv, Stopped
<1>7. CASE CancelAll \/ \E a \in Runs : HandleAbort(a)
  <2>1. CancelAllTargets(reg) \in SUBSET Runs
    BY DEF CancelAllTargets, TypeInv, TypeOK, Registry
  <2> QED BY <1>7, <2>1, AbortStops DEF CancelAll, HandleAbort
<1>8. ASSUME NEW c \in Runs, ToolTimeout(c) PROVE DelegateInv'
  <2>1. /\ parent[c] # None /\ aborted' = aborted \cup {c}
        /\ phase' = phase /\ parent' = parent
    BY <1>8 DEF ToolTimeout, identity
  <2>2. \A d \in Runs : parent[d] # c
    BY <2>1, NoneAssumption DEF DelegateInv
  <2> QED BY <2>1, <2>2 DEF DelegateInv, Stopped
<1>9. CASE Crash
  BY <1>0, <1>9 DEF Crash, identity, DelegateInv, Stopped, Suspended
<1>10. CASE UNCHANGED vars
  BY <1>10 DEF vars, identity, DelegateInv, Stopped
<1> QED
  BY <1>1, <1>3, <1>4, <1>5, <1>6, <1>7, <1>8, <1>9, <1>10 DEF Next, Host

(* A delegated run that nobody waits for, or whose parent was told to stop, *)
(* has been told to stop: by the handle, cancelAll, a timeout or the start. *)
THEOREM SubAgentsStop == Spec => []SubAgentsAreStopped
<1>1. Init => TypeInv /\ DelegateInv
  BY TypeInit, DelegateInit
<1>2. TypeInv /\ DelegateInv /\ [Next]_vars => (TypeInv /\ DelegateInv)'
  BY TypeStep, DelegateStep
<1>3. DelegateInv => SubAgentsAreStopped
  BY DEF DelegateInv, Stopped, SubAgentsAreStopped
<1> QED BY <1>1, <1>2, <1>3, PTL DEF Spec

----------------------------------------------------------------------------
(* What is persisted of the end of a run.                                  *)

(* The activation reports no end in this step.                              *)
Silent(a) ==
  /\ log' = log \/ Persist(a, "started")
  /\ outcome'[a] = "none" => outcome[a] = "none"
  /\ phase'[a] = "emit" /\ outcome'[a] \notin {"error", "cancelled"} => outcome[a] = "none"
  /\ phase'[a] \in {"rollback", "emit"} =>
       phase[a] \in {"rollback", "emit"} \/ outcome[a] = "none"
  /\ phase'[a] \in {"hooks", "final", "settled"} =>
       phase[a] \in {"hooks", "final"} /\ outcome'[a] = outcome[a]

(* The event is in the log, and the activation could not publish it.        *)
Unheard(a) == TerminalFails(a) /\ Persist(a, Verdict(outcome[a]))

Saved(a) ==
  \/ snapshot' = snapshot
  \/ \E n \in Nat, v \in {"none", "running"} :
       snapshot' = [snapshot EXCEPT ![runOf[a]] = [step |-> n, status |-> v]]
  \/ /\ phase[a] = "final"
     /\ \E n \in Nat :
          snapshot' = [snapshot EXCEPT ![runOf[a]] = [step |-> n, status |-> outcome[a]]]

LEMMA ExitSilent ==
  ASSUME TypeInv, NEW a \in Runs, phase[a] = "emit" \/ outcome[a] = "none",
         log' = log \/ Persist(a, "started"),
         \/ BeginCancel(a) \/ Catch(a)
         \/ /\ outcome[a] = "none"
            /\ \/ \E p \in {"emit", "exhausted"}, o \in Outcome : CheckedExit(a, p, o)
               \/ \E n \in Nat : LoopHead(a, n)
  PROVE  Silent(a)
BY DEF BeginCancel, Catch, CheckedExit, LoopHead, Exit, Goto, Silent, TypeInv, TypeOK

LEMMA LoopSaves ==
  ASSUME TypeInv, NEW a \in Runs, LoopStep(a)
  PROVE  Saved(a)
<1>1. step[a] + 1 \in Nat
  BY DEF TypeInv, TypeOK
<1>2. CASE StepEnds(a) \/ PolicyStops(a) \/ StepHandsOff(a)
  BY <1>1, <1>2 DEF StepEnds, PolicyStops, StepHandsOff, SaveSnapshot, Saved
<1>3. CASE FinalSnapshot(a)
  BY <1>1, <1>3 DEF FinalSnapshot, SaveSnapshot, Saved
<1>4. CASE snapshot' = snapshot
  BY <1>4 DEF Saved
<1> QED
  BY <1>2, <1>3, <1>4
  DEF LoopStep, EvaluatorReady, EvaluatorFails, Started, TurnStarted, ToolSucceeds,
      FinalAnswer, StepThrows, EmissionFails, Exhausted, RolledBack, HandoffRejected,
      HandoffAccepted, HandoffAnnounced, HandoffThrows, TerminalEmitted, TerminalFails,
      SucceededHooks, FailedHooks, CancelledHooks, StartChild, durable

LEMMA LoopReports ==
  ASSUME TypeInv, NEW a \in Runs, LoopStep(a), ~ StartChild(a)
  PROVE  /\ runOf' = runOf
         /\ Silent(a) \/ TerminalEmitted(a) \/ Unheard(a)
<1>1. runOf' = runOf
  BY DEF LoopStep, EvaluatorReady, EvaluatorFails, Started, TurnStarted, ToolSucceeds,
       StepEnds, PolicyStops, FinalAnswer, StepThrows, EmissionFails, Exhausted,
       RolledBack, StepHandsOff, HandoffRejected, HandoffAccepted, HandoffAnnounced,
       HandoffThrows, TerminalEmitted, TerminalFails, SucceededHooks, FailedHooks,
       CancelledHooks, FinalSnapshot, AfterStep, identity
<1> SUFFICES Silent(a) \/ TerminalEmitted(a) \/ Unheard(a)
  BY <1>1
<1> USE DEF TypeInv, OutcomeFollowsPhase
<1>0. /\ phase[a] \in {"evaluator", "starting", "turn", "step", "exhausted", "handoff",
                       "announce"} => outcome[a] = "none"
      /\ phase[a] = "rollback" => outcome[a] = "error"
      /\ phase \in [Runs -> Phase] /\ outcome \in [Runs -> Outcome]
      /\ step[a] \in Nat /\ step[a] + 1 \in Nat
      /\ {"succeeded", "exceeded", "error", "rejected", "none"} \subseteq Outcome
      /\ FirstSteps(a) \subseteq Nat
  BY FirstStepsType DEF OutcomeFits, TypeOK, Outcome
<1> HIDE DEF OutcomeFollowsPhase
<1>2. CASE EvaluatorReady(a) \/ EvaluatorFails(a) \/ HandoffThrows(a)
  BY <1>0, <1>2 DEF EvaluatorReady, EvaluatorFails, HandoffThrows, Goto, Silent, durable
<1>3. CASE Started(a)
  <2>1. log' = log \/ Persist(a, "started")
    BY <1>3 DEF Started
  <2>2. \E n \in Nat : LoopHead(a, n)
    BY <1>0, <1>3 DEF Started
  <2> QED BY <1>0, <1>3, <2>1, <2>2, ExitSilent DEF Started
<1>4. CASE TurnStarted(a) \/ StepThrows(a) \/ EmissionFails(a)
  <2>1. (log' = log \/ Persist(a, "started")) /\ outcome[a] = "none"
    BY <1>0, <1>4 DEF TurnStarted, StepThrows, EmissionFails, AfterStep, durable
  <2>2. CASE BeginCancel(a) \/ Catch(a)
    BY <2>1, <2>2, ExitSilent
  <2>3. CASE Goto(a, "step")
    BY <1>0, <2>1, <2>3 DEF Goto, Silent
  <2> QED BY <1>4, <2>2, <2>3 DEF TurnStarted, StepThrows, EmissionFails
<1>5. CASE StepEnds(a) \/ PolicyStops(a) \/ FinalAnswer(a)
  <2>1. log' = log /\ outcome[a] = "none"
    BY <1>0, <1>5 DEF StepEnds, PolicyStops, FinalAnswer, AfterStep
  <2>2. \/ \E p \in {"emit", "exhausted"}, o \in Outcome : CheckedExit(a, p, o)
        \/ \E n \in Nat : LoopHead(a, n)
    BY <1>0, <1>5 DEF StepEnds, PolicyStops, FinalAnswer
  <2> QED BY <2>1, <2>2, ExitSilent
<1>6. CASE Exhausted(a)
  <2>1. log' = log /\ outcome[a] = "none"
    BY <1>0, <1>6 DEF Exhausted, durable
  <2>2. CASE Exit(a, "emit", "succeeded")
    BY <1>0, <2>1, <2>2 DEF Exit, Goto, Silent
  <2> QED BY <1>0, <1>6, <2>1, <2>2, ExitSilent DEF Exhausted
<1>7. CASE ToolSucceeds(a) \/ RolledBack(a) \/ HandoffRejected(a)
  BY <1>0, <1>7 DEF ToolSucceeds, RolledBack, HandoffRejected, Exit, Goto, Silent, durable
<1>8. CASE StepHandsOff(a) \/ HandoffAccepted(a) \/ HandoffAnnounced(a)
  BY <1>0, <1>8 DEF StepHandsOff, HandoffAccepted, HandoffAnnounced, AfterStep, Goto, Silent,
                    durable
<1>9. CASE TerminalFails(a) /\ log' = log
  <2>1. phase[a] = "emit"
    BY <1>9 DEF TerminalFails
  <2>2. CASE Catch(a)
    BY <1>9, <2>1, <2>2, ExitSilent
  <2>3. CASE Goto(a, "threw") /\ UNCHANGED outcome
    BY <1>0, <1>9, <2>3 DEF Goto, Silent
  <2> QED BY <1>9, <2>2, <2>3 DEF TerminalFails
<1>10. CASE TerminalFails(a) /\ log' # log
  BY <1>10 DEF TerminalFails, Unheard
<1>11. CASE SucceededHooks(a) \/ FailedHooks(a) \/ CancelledHooks(a) \/ FinalSnapshot(a)
  BY <1>0, <1>11 DEF SucceededHooks, FailedHooks, CancelledHooks, FinalSnapshot, Goto, Silent,
                     durable
<1> QED
  BY <1>2, <1>3, <1>4, <1>5, <1>6, <1>7, <1>8, <1>9, <1>10, <1>11 DEF LoopStep

(* An activation that has chosen no outcome has reported no end; one that   *)
(* reports again does so from the catch block, and does not go on after it  *)
(* as anything else than what it said last.                                 *)
EndsFit(a) ==
  /\ outcome[a] = "none" => Ends(a) = {}
  /\ phase[a] = "emit" /\ outcome[a] \notin {"error", "cancelled"} => Ends(a) = {}
  /\ phase[a] \in {"rollback", "emit"} => \A i, j \in Ends(a) : i = j /\ "bus" \in Faults
  /\ phase[a] \in {"hooks", "final", "settled"} =>
       \E i \in Ends(a) : EventOf(a, i) = Verdict(outcome[a]) /\ \A j \in Ends(a) : j <= i
  /\ \A i, j \in Ends(a) : i < j =>
       "bus" \in Faults /\ Ends(a) = {i, j} /\ EventOf(a, j) # "succeeded"

(* Entries are in the log of the run of the activation they are by.         *)
EndInv ==
  /\ \A a \in Runs : phase[a] \in {"idle", "resolving"} => runOf[a] = None
  /\ \A r \in Runs : \A i \in DOMAIN log[r] : runOf[log[r][i].by] = r
  /\ \A a \in Runs : EndsFit(a)

LEMMA EndInit == Init => EndInv
BY DEF Init, EndInv, EndsFit, Ends

(* An entry goes to the end of the log of its run, and is an end of the     *)
(* activation that wrote it, or of none.                                    *)
LEMMA PersistEnds ==
  ASSUME TypeInv, EndInv, NEW a \in Runs, runOf[a] \in Runs, runOf' = runOf,
         NEW e \in Event, Persist(a, e)
  PROVE  /\ \A b \in Runs \ {a} : Ends(b)' = Ends(b)
         /\ e \notin Terminal => Ends(a)' = Ends(a)
         /\ e \in Terminal => \E n \in Nat : /\ Ends(a)' = Ends(a) \cup {n}
                                             /\ EventOf(a, n)' = e
                                             /\ \A i \in Ends(a) : i < n
         /\ \A b \in Runs : \A i \in Ends(b) : EventOf(b, i)' = EventOf(b, i)
         /\ \A r \in Runs : \A i \in DOMAIN log'[r] : runOf[log'[r][i].by] = r
         /\ \A r \in Runs : \A i \in DOMAIN log[r] :
              i \in DOMAIN log'[r] /\ log'[r][i] = log[r][i]
<1> DEFINE q == log[runOf[a]]
           x == [event |-> e, by |-> a]
<1>1. log \in [Runs -> Seq(Entry)] /\ q \in Seq(Entry)
  BY DEF TypeInv, TypeOK
<1>2. x \in Entry
  BY DEF Entry
<1>3. log'[runOf[a]] = Append(q, x) /\ \A r \in Runs \ {runOf[a]} : log'[r] = log[r]
  BY <1>1 DEF Persist
<1> HIDE DEF x
<1>4. /\ DOMAIN Append(q, x) = 1 .. Len(q) + 1 /\ DOMAIN q = 1 .. Len(q) /\ Len(q) \in Nat
      /\ Append(q, x)[Len(q) + 1] = x
      /\ \A i \in 1 .. Len(q) : Append(q, x)[i] = q[i]
  BY <1>1, <1>2
<1>5. x.event = e /\ x.by = a
  BY DEF x
<1> HIDE DEF q
<1>6. /\ DOMAIN log[runOf[a]] = 1 .. Len(q)
      /\ DOMAIN log'[runOf[a]] = 1 .. Len(q) + 1
      /\ log'[runOf[a]][Len(q) + 1] = x
      /\ \A i \in 1 .. Len(q) : log'[runOf[a]][i] = log[runOf[a]][i]
  BY <1>3, <1>4 DEF q
<1>7. \A r \in Runs : \A i \in DOMAIN log[r] : i \in DOMAIN log'[r] /\ log'[r][i] = log[r][i]
  BY <1>3, <1>4, <1>6
<1>8. \A r \in Runs : \A i \in DOMAIN log'[r] : runOf[log'[r][i].by] = r
  <2> SUFFICES ASSUME NEW r \in Runs, NEW i \in DOMAIN log'[r] PROVE runOf[log'[r][i].by] = r
    OBVIOUS
  <2>1. CASE i \in DOMAIN log[r]
    BY <1>7, <2>1 DEF EndInv
  <2>2. CASE i \notin DOMAIN log[r]
    BY <1>3, <1>4, <1>5, <1>6, <2>2
  <2> QED BY <2>1, <2>2
<1>9. ASSUME NEW b \in Runs, NEW i \in Ends(b)
      PROVE  EventOf(b, i)' = EventOf(b, i)
  <2>1. runOf[b] \in Runs /\ i \in DOMAIN log[runOf[b]]
    BY <1>9 DEF Ends, TypeInv, TypeOK
  <2> QED BY <1>7, <2>1 DEF EventOf
<1>10. ASSUME NEW b \in Runs, NEW i, i # Len(q) + 1 \/ b # a \/ e \notin Terminal
       PROVE  i \in Ends(b)' <=> i \in Ends(b)
  <2>1. CASE runOf[b] = None
    BY <2>1 DEF Ends
  <2>2. CASE runOf[b] # runOf[a] /\ runOf[b] # None
    <3>1. runOf[b] \in Runs
      BY <2>2 DEF TypeInv, TypeOK
    <3> QED BY <1>3, <2>2, <3>1 DEF Ends
  <2>3. CASE runOf[b] = runOf[a]
    <3>1. runOf[a] # None
      BY NoneAssumption
    <3>2. /\ i \in Ends(b)' <=> /\ i \in 1 .. Len(q) + 1
                                /\ log'[runOf[a]][i].by = b
                                /\ log'[runOf[a]][i].event \in Terminal
          /\ i \in Ends(b) <=> /\ i \in 1 .. Len(q)
                               /\ log[runOf[a]][i].by = b
                               /\ log[runOf[a]][i].event \in Terminal
      BY <1>6, <2>3, <3>1 DEF Ends
    <3>3. CASE i = Len(q) + 1
      BY <1>4, <1>5, <1>6, <1>10, <3>2, <3>3
    <3>4. CASE i # Len(q) + 1
      BY <1>4, <1>6, <3>2, <3>4
    <3> QED BY <3>3, <3>4
  <2> QED BY <2>1, <2>2, <2>3
<1>11. \A b \in Runs \ {a} : Ends(b)' = Ends(b)
  BY <1>10
<1>12. e \notin Terminal => Ends(a)' = Ends(a)
  BY <1>10
<1>13. ASSUME e \in Terminal
       PROVE  \E n \in Nat : /\ Ends(a)' = Ends(a) \cup {n}
                             /\ EventOf(a, n)' = e
                             /\ \A i \in Ends(a) : i < n
  <2>0. PICK n \in Nat : n = Len(q) + 1
    BY <1>4
  <2>1. runOf[a] # None
    BY NoneAssumption
  <2>2. n \in Ends(a)'
    BY <1>4, <1>5, <1>6, <1>13, <2>0, <2>1 DEF Ends
  <2>3. Ends(a)' = Ends(a) \cup {n}
    BY <1>10, <2>0, <2>2
  <2>4. EventOf(a, n)' = e
    BY <1>5, <1>6, <2>0 DEF EventOf
  <2>5. \A i \in Ends(a) : i < n
    BY <1>4, <1>6, <2>0, <2>1 DEF Ends
  <2> QED BY <2>3, <2>4, <2>5
<1> QED BY <1>7, <1>8, <1>9, <1>11, <1>12, <1>13

(* Nothing changes for an activation that neither moves nor writes.         *)
LEMMA EndsFitKept ==
  ASSUME NEW a \in Runs, EndsFit(a), Ends(a)' = Ends(a),
         \A i \in Ends(a) : EventOf(a, i)' = EventOf(a, i),
         outcome'[a] = outcome[a],
         phase'[a] = phase[a] \/ phase'[a] \notin {"rollback", "emit", "hooks", "final", "settled"}
  PROVE  EndsFit(a)'
<1> DEFINE V  == Verdict(outcome[a])
           V2 == Verdict(outcome[a])'
<1>1. V2 = V
  BY DEF Verdict
<1> HIDE DEF V, V2
<1> QED BY <1>1 DEF EndsFit, V, V2

LEMMA SilentFits ==
  ASSUME NEW a \in Runs, EndsFit(a), Silent(a), Ends(a)' = Ends(a),
         \A i \in Ends(a) : EventOf(a, i)' = EventOf(a, i)
  PROVE  EndsFit(a)'
<1>1. phase'[a] \in {"hooks", "final", "settled"} => Verdict(outcome[a])' = Verdict(outcome[a])
  BY DEF Silent, Verdict
<1> QED BY <1>1 DEF EndsFit, Silent

(* A report that cannot be published: the catch block reports once more, or *)
(* the activation throws.                                                   *)
LEMMA EmitFailsTo ==
  ASSUME TypeInv, NEW a \in Runs, Unheard(a), ~ Silent(a)
  PROVE  /\ "bus" \in Faults
         /\ phase'[a] \in {"rollback", "emit", "threw"}
         /\ outcome'[a] \in {outcome[a], "error", "cancelled"}
         /\ phase'[a] = "threw" \/ outcome[a] \in {"succeeded", "exceeded"}
         /\ phase'[a] # "threw" => outcome'[a] \in {"error", "cancelled"}
<1>1. phase \in [Runs -> Phase] /\ outcome \in [Runs -> Outcome] /\ phase[a] = "emit"
  BY DEF TypeInv, TypeOK, Unheard, TerminalFails
<1>2. CASE outcome[a] \in {"succeeded", "exceeded"}
  <2>1. Catch(a)
    BY <1>2 DEF Unheard, TerminalFails
  <2>2. /\ phase'[a] \in {"rollback", "emit"} /\ outcome'[a] \in {"error", "cancelled"}
    BY <1>1, <2>1 DEF Catch, BeginCancel, Exit, Goto
  <2>3. "bus" \in Faults
    BY <1>1, <2>1, ExitSilent DEF Unheard, TerminalFails
  <2> QED BY <1>2, <2>2, <2>3
<1>3. CASE outcome[a] \notin {"succeeded", "exceeded"}
  <2>1. Goto(a, "threw") /\ outcome' = outcome
    BY <1>3 DEF Unheard, TerminalFails
  <2>2. phase'[a] = "threw"
    BY <1>1, <2>1 DEF Goto
  <2>3. log' # log
    BY <2>1, <2>2 DEF Silent
  <2>4. "bus" \in Faults
    BY <2>3 DEF Unheard, TerminalFails
  <2> QED BY <2>1, <2>2, <2>4
<1> QED BY <1>2, <1>3

LEMMA EndStep == TypeInv /\ EndInv /\ [Next]_vars => EndInv'
<1> SUFFICES ASSUME TypeInv, EndInv, [Next]_vars PROVE EndInv'
  OBVIOUS
<1>0. /\ phase \in [Runs -> Phase] /\ outcome \in [Runs -> Outcome]
      /\ runOf \in [Runs -> Runs \cup {None}]
      /\ "started" \in Event \ Terminal
      /\ \A a \in Runs : Verdict(outcome[a]) \in Terminal /\ Verdict(outcome[a]) \in Event
      /\ \A a \in Runs : phase[a] \in {"idle", "resolving", "restoring"} => outcome[a] = "none"
  BY DEF TypeInv, TypeOK, Event, Terminal, OutcomeFollowsPhase, OutcomeFits, Verdict
<1>1. ASSUME NEW a \in Runs, LoopStep(a), ~ StartChild(a) PROVE EndInv'
  <2>1. /\ BusyStep(a) /\ runOf' = runOf
        /\ Silent(a) \/ TerminalEmitted(a) \/ Unheard(a)
    BY <1>1, LoopBusy, LoopReports
  <2>2. runOf[a] \in Runs
    BY <2>1 DEF BusyStep, TypeInv, Identified
  <2>3. /\ \A b \in Runs \ {a} : Ends(b)' = Ends(b)
        /\ \A b \in Runs : \A i \in Ends(b) : EventOf(b, i)' = EventOf(b, i)
        /\ \A r \in Runs : \A i \in DOMAIN log'[r] : runOf[log'[r][i].by] = r
        /\ Silent(a) => Ends(a)' = Ends(a)
    <3>1. CASE log' = log
      BY <2>1, <3>1 DEF Ends, EventOf, EndInv
    <3>2. CASE Persist(a, "started")
      BY <1>0, <2>1, <2>2, <3>2, PersistEnds
    <3>3. CASE Persist(a, Verdict(outcome[a])) /\ ~ Silent(a)
      BY <1>0, <2>1, <2>2, <3>3, PersistEnds
    <3> QED BY <2>1, <3>1, <3>2, <3>3 DEF Silent, TerminalEmitted, Unheard
  <2>4. ASSUME NEW b \in Runs \ {a} PROVE EndsFit(b)'
    BY <2>1, <2>3, EndsFitKept DEF BusyStep, EndInv
  <2>5. EndsFit(a)'
    <3>1. CASE Silent(a)
      BY <2>3, <3>1, SilentFits DEF EndInv
    <3>2. CASE (TerminalEmitted(a) \/ Unheard(a)) /\ ~ Silent(a)
      <4>1. /\ phase[a] = "emit" /\ Persist(a, Verdict(outcome[a]))
            /\ \/ phase'[a] = "hooks" /\ outcome'[a] = outcome[a]
               \/ /\ "bus" \in Faults
                  /\ phase'[a] \in {"rollback", "emit", "threw"}
                  /\ outcome'[a] \in {outcome[a], "error", "cancelled"}
                  /\ phase'[a] = "threw" \/ outcome[a] \in {"succeeded", "exceeded"}
                  /\ phase'[a] # "threw" => outcome'[a] \in {"error", "cancelled"}
        <5>1. phase[a] = "emit" /\ Persist(a, Verdict(outcome[a]))
          BY <3>2 DEF TerminalEmitted, Unheard, TerminalFails
        <5>2. CASE TerminalEmitted(a)
          BY <1>0, <5>1, <5>2 DEF TerminalEmitted, Goto
        <5>3. CASE Unheard(a)
          BY <3>2, <5>1, <5>3, EmitFailsTo
        <5> QED BY <3>2, <5>1, <5>2, <5>3
      <4>2. PICK n \in Nat : /\ Ends(a)' = Ends(a) \cup {n}
                             /\ EventOf(a, n)' = Verdict(outcome[a])
                             /\ \A i \in Ends(a) : i < n
        BY <1>0, <2>1, <2>2, <4>1, PersistEnds
      <4>3. /\ outcome[a] # "none"
            /\ outcome[a] \notin {"error", "cancelled"} => Ends(a) = {}
            /\ \A i, j \in Ends(a) : i = j /\ "bus" \in Faults
        <5>1. outcome[a] # "none"
          BY <4>1 DEF TypeInv, OutcomeFollowsPhase, OutcomeFits
        <5>2. EndsFit(a)
          BY DEF EndInv
        <5> QED BY <4>1, <5>1, <5>2 DEF EndsFit
      <4>4. Verdict(outcome[a]) = "succeeded" => Ends(a) = {}
        BY <4>3 DEF Verdict
      <4>5. phase'[a] = "hooks" => Verdict(outcome[a])' = Verdict(outcome[a])
        BY <4>1 DEF Verdict
      <4>6. Ends(a) \subseteq Nat
        BY <2>2, NoneAssumption DEF Ends, TypeInv, TypeOK
      <4>7. \A i, j \in Ends(a)' : i < j =>
              "bus" \in Faults /\ Ends(a)' = {i, j} /\ EventOf(a, j)' # "succeeded"
        <5> SUFFICES ASSUME NEW i \in Ends(a)', NEW j \in Ends(a)', i < j
                     PROVE  "bus" \in Faults /\ Ends(a)' = {i, j} /\ EventOf(a, j)' # "succeeded"
          OBVIOUS
        <5>1. i \in Ends(a) /\ j = n
          BY <4>2, <4>3, <4>6
        <5> QED BY <4>2, <4>3, <4>4, <5>1
      <4>8. /\ outcome'[a] # "none"
            /\ phase'[a] = "emit" => outcome'[a] \in {"error", "cancelled"}
        BY <4>1, <4>3
      <4>9. phase'[a] \in {"rollback", "emit"} => \A i, j \in Ends(a)' : i = j /\ "bus" \in Faults
        BY <4>1, <4>2, <4>3
      <4>10. phase'[a] \in {"hooks", "final", "settled"} =>
               \E i \in Ends(a)' : /\ EventOf(a, i)' = Verdict(outcome[a])'
                                   /\ \A j \in Ends(a)' : j <= i
        BY <4>1, <4>2, <4>5, <4>6
      <4> QED BY <4>7, <4>8, <4>9, <4>10 DEF EndsFit
    <3> QED BY <2>1, <3>1, <3>2
  <2>6. \A b \in Runs : phase'[b] \in {"idle", "resolving"} => runOf'[b] = None
    BY <2>1 DEF BusyStep, EndInv
  <2> QED BY <2>1, <2>3, <2>4, <2>5, <2>6 DEF EndInv
<1>2. ASSUME NEW a \in Runs, log' = log, outcome' = outcome,
             phase[a] \in {"idle", "resolving", "restoring"},
             phase'[a] \in {"evaluator", "refused", "resolving", "restoring"},
             phase[a] = "restoring" \/ phase'[a] = "resolving" => runOf'[a] = runOf[a],
             phase[a] = "restoring" => phase'[a] # "resolving",
             \A b \in Runs \ {a} : runOf'[b] = runOf[b] /\ phase'[b] = phase[b]
      PROVE  EndInv'
  <2>1. outcome[a] = "none" /\ Ends(a) = {}
    BY <1>0, <1>2 DEF EndInv, EndsFit
  <2>2. phase[a] # "restoring" =>
          \A r \in Runs : \A i \in DOMAIN log[r] : log[r][i].by # a
    BY <1>2, NoneAssumption DEF EndInv
  <2>3. Ends(a)' = {}
    <3>1. CASE phase[a] = "restoring"
      BY <1>2, <2>1, <3>1 DEF Ends
    <3>2. CASE phase[a] # "restoring" /\ runOf'[a] \in Runs
      BY <1>2, <2>2, <3>2 DEF Ends
    <3>3. CASE phase[a] # "restoring" /\ runOf'[a] = None
      BY <3>3 DEF Ends
    <3> QED BY <3>1, <3>2, <3>3, TypeStep DEF TypeInv, TypeOK
  <2>4. EndsFit(a)'
    BY <1>2, <2>1, <2>3 DEF EndsFit
  <2>5. ASSUME NEW b \in Runs \ {a} PROVE EndsFit(b)'
    <3>1. Ends(b)' = Ends(b) /\ \A i \in Ends(b) : EventOf(b, i)' = EventOf(b, i)
      BY <1>2 DEF Ends, EventOf
    <3> QED BY <1>2, <3>1, EndsFitKept DEF EndInv
  <2>6. \A r \in Runs : \A i \in DOMAIN log'[r] : runOf'[log'[r][i].by] = r
    <3> SUFFICES ASSUME NEW r \in Runs, NEW i \in DOMAIN log[r] PROVE runOf'[log[r][i].by] = r
      BY <1>2
    <3>1. log[r] \in Seq(Entry)
      BY DEF TypeInv, TypeOK
    <3>2. log[r][i] \in Entry
      BY <3>1
    <3>3. log[r][i].by \in Runs
      BY <3>2 DEF Entry
    <3>4. runOf[log[r][i].by] = r
      BY DEF EndInv
    <3>5. log[r][i].by = a => phase[a] = "restoring"
      BY <2>2
    <3> QED BY <1>2, <3>3, <3>4, <3>5
  <2>7. \A b \in Runs : phase'[b] \in {"idle", "resolving"} => runOf'[b] = None
    BY <1>2 DEF EndInv
  <2> QED BY <2>4, <2>5, <2>6, <2>7 DEF EndInv
<1>3. CASE \E a \in Runs : StartChild(a) \/ Resume(a) \/ \E s \in Sessions : Start(a, s)
  BY <1>0, <1>2, <1>3 DEF StartChild, Resume, Start, Begin, Goto, durable, identity
<1>4. CASE \E a, b \in Runs : Restore(a, b) \/ Delegate(a, b)
  BY <1>0, <1>2, <1>4 DEF Restore, Delegate, Goto, durable
<1>5. ASSUME UNCHANGED <<log, runOf, outcome>>,
             \A a \in Runs : phase'[a] = phase[a] \/ phase'[a] = "dead"
      PROVE  EndInv'
  <2>1. ASSUME NEW a \in Runs PROVE EndsFit(a)'
    <3>1. Ends(a)' = Ends(a) /\ \A i \in Ends(a) : EventOf(a, i)' = EventOf(a, i)
      BY <1>5 DEF Ends, EventOf
    <3> QED BY <1>5, <3>1, EndsFitKept DEF EndInv
  <2> QED BY <1>5, <2>1 DEF EndInv
<1>6. CASE CancelAll \/ \E a \in Runs : HandleAbort(a) \/ ToolTimeout(a)
  BY <1>5, <1>6 DEF CancelAll, HandleAbort, Abort, ToolTimeout, identity, durable
<1>7. CASE Crash
  BY <1>0, <1>5, <1>7 DEF Crash, identity, durable
<1>8. CASE UNCHANGED vars
  BY <1>5, <1>8 DEF vars, identity, durable
<1> QED BY <1>1, <1>3, <1>4, <1>6, <1>7, <1>8 DEF Next, Host

(* An activation that goes on after its end goes on as what it said last.   *)
THEOREM LastWordHolds == Spec => []LastWord
<1>1. Init => TypeInv /\ EndInv
  BY TypeInit, EndInit
<1>2. TypeInv /\ EndInv /\ [Next]_vars => (TypeInv /\ EndInv)'
  BY TypeStep, EndStep
<1>3. EndInv => LastWord
  BY DEF EndInv, EndsFit, LastWord
<1> QED BY <1>1, <1>2, <1>3, PTL DEF Spec

(* Only a subscriber that throws makes an activation report twice; it never *)
(* reports three times, and never a success after another end.              *)
THEOREM SecondThoughtsHold == Spec => []SecondThoughts
<1>1. Init => TypeInv /\ EndInv
  BY TypeInit, EndInit
<1>2. TypeInv /\ EndInv /\ [Next]_vars => (TypeInv /\ EndInv)'
  BY TypeStep, EndStep
<1>3. EndInv => SecondThoughts
  BY DEF EndInv, EndsFit, SecondThoughts
<1> QED BY <1>1, <1>2, <1>3, PTL DEF Spec

(* Where no subscriber throws, each activation persists run.completed once  *)
(* at most, however often its run is resumed and whatever else fails.       *)
THEOREM OneTerminalEvent ==
  ASSUME "bus" \notin Faults
  PROVE  Spec => []TerminalOnce
<1>1. TypeOK /\ SecondThoughts => TerminalOnce
  <2> SUFFICES ASSUME TypeOK, SecondThoughts, NEW a \in Runs, NEW i \in Ends(a), NEW j \in Ends(a)
               PROVE  i = j
    BY DEF TerminalOnce
  <2>1. Ends(a) \subseteq Nat
    BY DEF Ends, TypeOK
  <2> QED BY <2>1 DEF SecondThoughts
<1> QED BY <1>1, TypeCorrect, SecondThoughtsHold, PTL

(* A snapshot that says how a run ended comes after the event that does.    *)
Said(events, e) == \E i \in DOMAIN events : events[i].event = e

SaidInv == \A r \in Runs : snapshot[r].status \in Terminal => Said(log[r], snapshot[r].status)

LEMMA SaidInit == Init => SaidInv
BY DEF Init, SaidInv, NoSnapshot, Terminal

LEMMA SaidStep == TypeInv /\ EndInv /\ SaidInv /\ [Next]_vars => SaidInv'
<1> SUFFICES ASSUME TypeInv, EndInv, SaidInv, [Next]_vars PROVE SaidInv'
  OBVIOUS
<1>0. /\ outcome \in [Runs -> Outcome] /\ snapshot \in [Runs -> Snapshot]
      /\ runOf \in [Runs -> Runs \cup {None}]
      /\ \A a \in Runs : Verdict(outcome[a]) \in Event
      /\ "started" \in Event
  BY DEF TypeInv, TypeOK, Verdict, Event, Terminal
<1>1. ASSUME NEW a \in Runs, LoopStep(a), ~ StartChild(a) PROVE SaidInv'
  <2>1. /\ BusyStep(a) /\ Saved(a) /\ runOf' = runOf
        /\ Silent(a) \/ TerminalEmitted(a) \/ Unheard(a)
    BY <1>1, LoopBusy, LoopSaves, LoopReports
  <2>2. runOf[a] \in Runs
    BY <2>1 DEF BusyStep, TypeInv, Identified
  <2>3. \A r \in Runs : \A i \in DOMAIN log[r] : i \in DOMAIN log'[r] /\ log'[r][i] = log[r][i]
    <3>1. CASE log' = log
      BY <3>1
    <3>2. ASSUME NEW e \in Event, Persist(a, e)
          PROVE  \A r \in Runs : \A i \in DOMAIN log[r] :
                   i \in DOMAIN log'[r] /\ log'[r][i] = log[r][i]
      BY <2>1, <2>2, <3>2, PersistEnds
    <3> QED BY <1>0, <2>1, <3>1, <3>2 DEF Silent, TerminalEmitted, Unheard
  <2>4. \A r \in Runs : \A e : Said(log[r], e) => Said(log'[r], e)
    BY <2>3 DEF Said
  <2> SUFFICES ASSUME NEW r \in Runs, snapshot'[r].status \in Terminal
               PROVE  Said(log'[r], snapshot'[r].status)
    BY DEF SaidInv
  <2>5. CASE snapshot'[r] = snapshot[r]
    BY <2>4, <2>5 DEF SaidInv
  <2>6. CASE snapshot'[r] # snapshot[r]
    <3>1. /\ phase[a] = "final" /\ r = runOf[a]
          /\ snapshot'[r].status = outcome[a]
      BY <1>0, <2>1, <2>2, <2>6 DEF Saved, Terminal
    <3>2. Verdict(outcome[a]) = outcome[a]
      BY <3>1 DEF TypeInv, OutcomeFollowsPhase, OutcomeFits, Verdict
    <3>3. PICK i \in Ends(a) : EventOf(a, i) = outcome[a]
      BY <3>1, <3>2 DEF EndInv, EndsFit
    <3>4. Said(log[r], outcome[a])
      BY <3>1, <3>3 DEF Said, Ends, EventOf
    <3> QED BY <2>4, <3>1, <3>4
  <2> QED BY <2>5, <2>6
<1>2. ASSUME UNCHANGED <<log, snapshot>> PROVE SaidInv'
  BY <1>2 DEF SaidInv, Said
<1>3. CASE \E a \in Runs : StartChild(a) \/ Resume(a) \/ \E s \in Sessions : Start(a, s)
  BY <1>2, <1>3 DEF StartChild, Resume, Start, durable
<1>4. CASE \E a, b \in Runs : Restore(a, b) \/ Delegate(a, b)
  BY <1>2, <1>4 DEF Restore, Delegate, durable
<1>5. CASE CancelAll \/ \E a \in Runs : HandleAbort(a) \/ ToolTimeout(a)
  BY <1>2, <1>5 DEF CancelAll, HandleAbort, Abort, ToolTimeout, durable
<1>6. CASE Crash
  BY <1>2, <1>6 DEF Crash, durable
<1>7. CASE UNCHANGED vars
  BY <1>2, <1>7 DEF vars, durable
<1> QED BY <1>1, <1>3, <1>4, <1>5, <1>6, <1>7 DEF Next, Host

(* Whenever a snapshot reports the end of a run, its events report the same *)
(* end, however often the run was resumed and wherever a crash fell.        *)
THEOREM EventComesFirst == Spec => []SnapshotFollowsEvent
<1>1. Init => TypeInv /\ EndInv /\ SaidInv
  BY TypeInit, EndInit, SaidInit
<1>2. TypeInv /\ EndInv /\ SaidInv /\ [Next]_vars => (TypeInv /\ EndInv /\ SaidInv)'
  BY TypeStep, EndStep, SaidStep
<1>3. SaidInv => SnapshotFollowsEvent
  BY DEF SaidInv, Said, SnapshotFollowsEvent
<1> QED BY <1>1, <1>2, <1>3, PTL DEF Spec

----------------------------------------------------------------------------
(* The contract.                                                           *)


(* How a step of a moves it through the contract.                           *)
Told(a)   == /\ StatusOf(a) = "open" /\ StatusOf(a)' = "reported"
             /\ VerdictOf(a)' \in Contract!Report
Closed(a) == /\ StatusOf(a) = "reported" /\ StatusOf(a)' = "closed"
             /\ VerdictOf(a)' = VerdictOf(a)
Lost(a)   == /\ StatusOf(a) \in {"new", "open", "reported"} /\ StatusOf(a)' = "lost"
             /\ VerdictOf(a)' = "none"
Answered(a) == /\ StatusOf(a) = "new" /\ StatusOf(a)' \in {"refused", "open"}
               /\ VerdictOf(a)' = VerdictOf(a)
Same(a)   == StatusOf(a)' = StatusOf(a) /\ VerdictOf(a)' = VerdictOf(a)

StatusStep(a) ==
  /\ \A b \in Runs \ {a} : Same(b)
  /\ Told(a) \/ Closed(a) \/ Lost(a) \/ Answered(a) \/ Same(a)

LEMMA StatusStepRefines ==
  ASSUME NEW a \in Runs, StatusStep(a)
  PROVE  [Contract!Next]_(Contract!vars)
<1> DEFINE st == [b \in Runs |-> StatusOf(b)]
           vd == [b \in Runs |-> VerdictOf(b)]
<1>1. CASE Same(a)
  <2>1. \A b \in Runs : Same(b)
    BY <1>1 DEF StatusStep
  <2> QED BY <2>1 DEF Same, Contract!vars
<1>2. CASE Told(a)
  <2>1. Contract!Tell(a)
    BY <1>2 DEF StatusStep, Same, Told, Contract!Tell, Contract!Move
  <2> QED BY <2>1 DEF Contract!Next
<1>3. CASE Closed(a)
  <2>1. Contract!Close(a)
    BY <1>3 DEF StatusStep, Same, Closed, Contract!Close, Contract!Move
  <2> QED BY <2>1 DEF Contract!Next
<1>4. CASE Lost(a)
  <2>1. Contract!Lose({a})
    BY <1>4 DEF StatusStep, Same, Lost, Contract!Lose
  <2> QED BY <2>1 DEF Contract!Next
<1>5. CASE Answered(a)
  <2>1. Contract!Refuse(a) \/ Contract!Admit(a)
    BY <1>5 DEF StatusStep, Same, Answered, Contract!Refuse, Contract!Admit, Contract!Move
  <2> QED BY <2>1 DEF Contract!Next
<1> QED BY <1>1, <1>2, <1>3, <1>4, <1>5 DEF StatusStep

LEMMA OpenStays ==
  ASSUME TypeInv, NEW a \in Runs, StatusOf(a) = "open", StatusOf(a)' = "open",
         \A b \in Runs \ {a} : phase'[b] = phase[b] /\ outcome'[b] = outcome[b]
  PROVE  StatusStep(a)
BY DEF StatusStep, Same, StatusOf, VerdictOf

Open == {"evaluator", "starting", "turn", "step", "exhausted", "rollback", "emit",
         "handoff", "announce"}

(* The exits of the loop leave the verdict open.                            *)
LEMMA ExitsStayOpen ==
  ASSUME TypeInv, NEW a \in Runs, phase[a] \in Open, NEW n, NEW o,
         NEW p \in {"emit", "exhausted"},
         BeginCancel(a) \/ Catch(a) \/ CheckedExit(a, p, o) \/ LoopHead(a, n)
  PROVE  StatusStep(a)
<1>1. \/ phase' = [phase EXCEPT ![a] = "emit"]
      \/ phase' = [phase EXCEPT ![a] = "rollback"]
      \/ phase' = [phase EXCEPT ![a] = "exhausted"]
      \/ phase' = [phase EXCEPT ![a] = "turn"]
  BY DEF BeginCancel, Catch, CheckedExit, LoopHead, Exit, Goto
<1>2. \A b \in Runs \ {a} : outcome'[b] = outcome[b]
  BY DEF BeginCancel, Catch, CheckedExit, LoopHead, Exit, Goto, TypeInv, TypeOK
<1>3. StatusOf(a) = "open" /\ StatusOf(a)' = "open"
  BY <1>1 DEF StatusOf, Open, TypeInv, TypeOK
<1> QED BY <1>1, <1>2, <1>3, OpenStays DEF TypeInv, TypeOK

LEMMA LoopRefines ==
  ASSUME TypeInv, NEW a \in Runs, LoopStep(a), ~ StartChild(a)
  PROVE  StatusStep(a)
<1> USE DEF TypeInv
<1>1. CASE EvaluatorReady(a) \/ EvaluatorFails(a) \/ HandoffThrows(a)
  BY <1>1 DEF EvaluatorReady, EvaluatorFails, HandoffThrows, Goto, StatusStep, Same, Lost,
              StatusOf, VerdictOf, TypeOK
<1>2. CASE Started(a)
  BY <1>2, ExitsStayOpen DEF Started, Open
<1>3. CASE TurnStarted(a)
  <2>1. CASE BeginCancel(a)
    BY <1>3, <2>1, ExitsStayOpen DEF TurnStarted, Open
  <2>2. CASE Goto(a, "step") /\ UNCHANGED outcome
    BY <1>3, <2>2 DEF TurnStarted, Goto, StatusStep, Same, StatusOf, VerdictOf, TypeOK
  <2> QED BY <1>3, <2>1, <2>2 DEF TurnStarted
<1>4. CASE ToolSucceeds(a)
  BY <1>4 DEF ToolSucceeds, StatusStep, Same, StatusOf, VerdictOf
<1>5. CASE StepEnds(a)
  BY <1>5, ExitsStayOpen DEF StepEnds, Open
<1>6. CASE PolicyStops(a)
  BY <1>6, ExitsStayOpen DEF PolicyStops, Open
<1>7. CASE FinalAnswer(a)
  BY <1>7, ExitsStayOpen DEF FinalAnswer, Open
<1>8. CASE StepThrows(a) \/ EmissionFails(a)
  BY <1>8, ExitsStayOpen DEF StepThrows, EmissionFails, Open
<1>9. CASE Exhausted(a)
  <2>1. CASE Exit(a, "emit", "succeeded")
    BY <1>9, <2>1 DEF Exhausted, Exit, Goto, StatusStep, Same, StatusOf, VerdictOf, TypeOK
  <2>2. CASE CheckedExit(a, "emit", "exceeded")
    BY <1>9, <2>2, ExitsStayOpen DEF Exhausted, Open
  <2> QED BY <1>9, <2>1, <2>2 DEF Exhausted
<1>10. CASE RolledBack(a) \/ HandoffRejected(a)
  BY <1>10 DEF RolledBack, HandoffRejected, Exit, Goto, StatusStep, Same, StatusOf,
               VerdictOf, TypeOK
<1>11. CASE StepHandsOff(a) \/ HandoffAccepted(a) \/ HandoffAnnounced(a)
  BY <1>11 DEF StepHandsOff, HandoffAccepted, HandoffAnnounced, Goto, StatusStep, Same,
               StatusOf, VerdictOf, TypeOK
<1>12. CASE TerminalEmitted(a)
  BY <1>12 DEF TerminalEmitted, Goto, StatusStep, Same, Told, StatusOf, VerdictOf, Verdict,
               Contract!Report, TypeOK
<1>13. CASE TerminalFails(a)
  <2>1. CASE Catch(a)
    BY <1>13, <2>1, ExitsStayOpen DEF TerminalFails, Open
  <2>2. CASE Goto(a, "threw") /\ UNCHANGED outcome
    BY <1>13, <2>2 DEF TerminalFails, Goto, StatusStep, Same, Lost, StatusOf, VerdictOf, TypeOK
  <2> QED BY <1>13, <2>1, <2>2 DEF TerminalFails
<1>14. CASE SucceededHooks(a) \/ CancelledHooks(a)
  BY <1>14 DEF SucceededHooks, CancelledHooks, Goto, StatusStep, Same, StatusOf, VerdictOf,
               TypeOK
<1>15. CASE FailedHooks(a) \/ FinalSnapshot(a)
  BY <1>15 DEF FailedHooks, FinalSnapshot, Goto, StatusStep, Same, Closed, StatusOf,
               VerdictOf, TypeOK
<1> QED
  BY <1>1, <1>2, <1>3, <1>4, <1>5, <1>6, <1>7, <1>8, <1>9, <1>10, <1>11, <1>12, <1>13,
     <1>14, <1>15
  DEF LoopStep

LEMMA BeginRefines ==
  ASSUME TypeInv, NEW a \in Runs, NEW r, NEW s, NEW p,
         phase[a] \in {"idle", "resolving", "restoring"}, Begin(a, r, s, p), outcome' = outcome
  PROVE  StatusStep(a)
<1>1. \/ phase' = [phase EXCEPT ![a] = "evaluator"]
      \/ phase' = [phase EXCEPT ![a] = "refused"]
  BY DEF Begin, Goto
<1> QED BY <1>1 DEF StatusStep, Same, Answered, StatusOf, VerdictOf, TypeInv, TypeOK

LEMMA InitRefines == Init => Contract!Init
BY DEF Init, Contract!Init, StatusOf, VerdictOf

LEMMA StepRefines == TypeInv /\ [Next]_vars => [Contract!Next]_(Contract!vars)
<1> SUFFICES ASSUME TypeInv, [Next]_vars PROVE [Contract!Next]_(Contract!vars)
  OBVIOUS
<1>1. ASSUME NEW a \in Runs, LoopStep(a), ~ StartChild(a) PROVE [Contract!Next]_(Contract!vars)
  BY <1>1, LoopRefines, StatusStepRefines
<1>2. ASSUME NEW a \in Runs, StartChild(a) PROVE [Contract!Next]_(Contract!vars)
  BY <1>2, BeginRefines, StatusStepRefines DEF StartChild
<1>3. ASSUME NEW a \in Runs, NEW s \in Sessions, Start(a, s) PROVE [Contract!Next]_(Contract!vars)
  BY <1>3, BeginRefines, StatusStepRefines DEF Start
<1>4. ASSUME NEW a \in Runs, Resume(a) PROVE [Contract!Next]_(Contract!vars)
  BY <1>4, BeginRefines, StatusStepRefines DEF Resume
<1>5. ASSUME NEW p \in Runs, NEW c \in Runs, Delegate(p, c) PROVE [Contract!Next]_(Contract!vars)
  <2>1. StatusStep(c)
    BY <1>5 DEF Delegate, Goto, StatusStep, Same, StatusOf, VerdictOf, TypeInv, TypeOK
  <2> QED BY <2>1, StatusStepRefines
<1>10. ASSUME NEW a \in Runs, NEW b \in Runs, Restore(a, b) PROVE [Contract!Next]_(Contract!vars)
  <2>1. StatusStep(a)
    BY <1>10 DEF Restore, Goto, StatusStep, Same, StatusOf, VerdictOf, TypeInv, TypeOK
  <2> QED BY <2>1, StatusStepRefines
<1>6. ASSUME UNCHANGED <<phase, outcome>> PROVE [Contract!Next]_(Contract!vars)
  BY <1>6 DEF Contract!vars, StatusOf, VerdictOf
<1>7. CASE \E a \in Runs : HandleAbort(a) \/ ToolTimeout(a)
  BY <1>6, <1>7 DEF HandleAbort, Abort, ToolTimeout
<1>8. CASE CancelAll \/ UNCHANGED vars
  BY <1>6, <1>8 DEF CancelAll, Abort, vars
<1>9. CASE Crash
  <2> DEFINE S == {a \in Runs : phase[a] \in Suspended \cup {"resolving", "restoring"}}
  <2>1. /\ S # {} /\ S \in SUBSET Runs
        /\ outcome' = outcome
        /\ \A a \in Runs : phase'[a] = IF a \in S THEN "dead" ELSE phase[a]
    BY <1>9 DEF Crash
  <2>2. \A a \in S : StatusOf(a) \in {"new", "open", "reported"}
    BY DEF StatusOf, Suspended
  <2>3. \A a \in S : StatusOf(a)' = "lost" /\ VerdictOf(a)' = "none"
    BY <2>1 DEF StatusOf, VerdictOf
  <2>4. \A a \in Runs \ S : StatusOf(a)' = StatusOf(a) /\ VerdictOf(a)' = VerdictOf(a)
    BY <2>1 DEF StatusOf, VerdictOf
  <2> HIDE DEF S
  <2>5. Contract!Lose(S)
    BY <2>1, <2>2, <2>3, <2>4 DEF Contract!Lose
  <2> QED BY <2>1, <2>5 DEF Contract!Next
<1> QED BY <1>1, <1>2, <1>3, <1>4, <1>5, <1>7, <1>8, <1>9, <1>10 DEF Next, Host

(* Each call of run() or resumeRun() is refused, or reports one verdict and *)
(* then closes, or is lost; it never reports twice, changes its verdict or  *)
(* reports after it closed.                                                 *)
THEOREM LifecycleImplementsContract == Spec => ImplementsContract
<1>1. Init => TypeInv /\ Contract!Init
  BY TypeInit, InitRefines
<1>2. TypeInv /\ [Next]_vars => TypeInv' /\ [Contract!Next]_(Contract!vars)
  BY TypeStep, StepRefines
<1> QED BY <1>1, <1>2, PTL DEF Spec, ImplementsContract, Contract!Spec

(* Events and snapshots of the store tell the end of a run as it was.       *)
THEOREM EndIsTold == Spec => []StoreTellsTheEnd
BY LastWordHolds, SecondThoughtsHold, EventComesFirst, PTL DEF StoreTellsTheEnd

============================================================================
