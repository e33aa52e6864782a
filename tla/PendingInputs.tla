--------------------------- MODULE PendingInputs ---------------------------
(***************************************************************************)
(* The inputs a user sends to a run under way, and what becomes of them:   *)
(* AgentKernel.sendInput, persistPendingInput, hydratePendingInputs and    *)
(* markInputsPromoted (core/src/kernel/kernel.ts), the queue of the run    *)
(* registry (step-executor/src/run-state.ts) and where the run loop        *)
(* empties it (core/src/kernel/run-loop.ts).                               *)
(*                                                                         *)
(* One session with a store, and the runs it sees one after the other.  An *)
(* input is admitted to the queue of the run and, behind the earlier ones, *)
(* written to the store; a row is promoted once its input is in the        *)
(* transcript, and what is not promoted the next run queues again.  Inputs *)
(* are numbered in the order in which they are admitted.  No run is given  *)
(* a session state of its own, and no other session uses that of the       *)
(* kernel.                                                                 *)
(***************************************************************************)
EXTENDS Naturals, SequencesExt

CONSTANTS MaxInputs,    \* bound: inputs the user sends
          MaxSteps,     \* maxSteps of a run
          MaxHandoffs,  \* bound: handoffs of a run
          MaxFaults     \* bound: failures of the store, a run or the process

ASSUME InputsAssumption == MaxInputs \in Nat
ASSUME StepsAssumption == MaxSteps \in Nat \ {0}
ASSUME HandoffsAssumption == MaxHandoffs \in Nat
ASSUME FaultsAssumption == MaxFaults \in Nat

VARIABLES
  phase,      \* where the run of the session is; "free": there is none
  aborted,    \* its AbortSignal
  step,       \* its step counter
  handoffs,   \* how often it was handed off
  keeps,      \* the kernel has a sessionState, which its runs share
  kept,       \* the step in it
  queue,      \* pendingInputs of the registry
  entries,    \* runPendingEntries of the kernel
  taken,      \* the entries markInputsPromoted still has before it
  seen,       \* what listMessages gave hydratePendingInputs
  writes,     \* inputWriteChains: inputs still to be written
  alloc,      \* the seq of the write under way; 0: none
  nextSeq,    \* nextAdmittedSeq; 0: unknown
  rowSeq,     \* input -> admittedSeq of its row in the store; 0: no row
  promoted,   \* inputs whose row is promoted
  sent,       \* how many inputs have been admitted
  delivered,  \* the inputs in the transcripts, in order (history)
  lost,       \* inputs whose write failed or died (history)
  disturbed,  \* inputs that met a hydration or a fault (history)
  faults      \* how many faults there have been

mem == <<queue, entries, taken, seen>>
disk == <<rowSeq, promoted>>
writing == <<writes, alloc, nextSeq>>
state == <<keeps, kept>>
run == <<phase, aborted, step, handoffs, state>>
hist == <<delivered, lost, disturbed, faults>>
vars == <<run, mem, writing, disk, sent, hist>>

Inputs == 1 .. MaxInputs
Phase == {"free", "entering", "hydrating", "head", "promoting", "stepping", "ending"}

NothingSeen == [pending |-> {}, max |-> 0]

Init == /\ phase = "free" /\ aborted = FALSE /\ step = 0 /\ handoffs = 0
        /\ keeps \in BOOLEAN /\ kept = 0
        /\ queue = << >> /\ entries = << >> /\ taken = << >> /\ seen = NothingSeen
        /\ writes = << >> /\ alloc = 0 /\ nextSeq = 0
        /\ rowSeq = [i \in Inputs |-> 0] /\ promoted = {}
        /\ sent = 0
        /\ delivered = << >> /\ lost = {} /\ disturbed = {} /\ faults = 0

Fault == faults < MaxFaults /\ faults' = faults + 1

----------------------------------------------------------------------------
(* Admission.                                                              *)

(* sendInput returns false to a run that is not live or was aborted.        *)
SendInput ==
  /\ phase # "free" /\ ~ aborted /\ sent < MaxInputs
  /\ sent' = sent + 1
  /\ queue' = Append(queue, sent')
  /\ entries' = Append(entries, sent')
  /\ writes' = Append(writes, sent')
  /\ UNCHANGED <<run, taken, seen, alloc, nextSeq, disk, hist>>

MaxSeq == Max({0} \cup {rowSeq[i] : i \in Inputs})

(* The first write of the chain gets its seq ...                            *)
Allocate ==
  /\ writes # << >> /\ alloc = 0
  /\ alloc' = IF nextSeq = 0 THEN MaxSeq + 1 ELSE nextSeq
  /\ nextSeq' = alloc' + 1
  /\ UNCHANGED <<run, mem, writes, disk, sent, hist>>

(* ... and its row.                                                         *)
AddMessage ==
  /\ alloc # 0
  /\ rowSeq' = [rowSeq EXCEPT ![Head(writes)] = alloc]
  /\ writes' = Tail(writes)
  /\ alloc' = 0
  /\ UNCHANGED <<run, mem, nextSeq, promoted, sent, hist>>

AddMessageFails ==
  /\ alloc # 0 /\ Fault
  /\ lost' = lost \cup {Head(writes)}
  /\ writes' = Tail(writes)
  /\ alloc' = 0
  /\ UNCHANGED <<run, mem, nextSeq, disk, sent, delivered, disturbed>>

----------------------------------------------------------------------------
(* Hydration, in beforeRun of a run or of the continuation of a handoff.   *)

(* A run with an evaluator agent awaits its lookup before it reads the      *)
(* store; so inputs may be sent, and written, in between.  The loop goes on *)
(* from the step of the session state, if there is one.                     *)
Start ==
  /\ phase = "free"
  /\ phase' = "entering"
  /\ step' = IF keeps THEN kept ELSE 0
  /\ UNCHANGED <<aborted, handoffs, state, mem, writing, disk, sent, hist>>

(* The step is put into the session state.                                  *)
Keep(n) == kept' = (IF keeps THEN n ELSE 0) /\ UNCHANGED keeps

ListMessages ==
  /\ phase = "entering"
  /\ phase' = "hydrating"
  /\ seen' = [pending |-> {i \in Inputs : rowSeq[i] # 0} \ promoted, max |-> MaxSeq]
  /\ disturbed' = disturbed \cup ToSet(writes)
  /\ UNCHANGED <<aborted, step, handoffs, state, queue, entries, taken, writing, disk,
                 sent, delivered, lost, faults>>

(* The rows of S, in the order of their seqs.                               *)
BySeq(S) == CHOOSE s \in [1 .. Cardinality(S) -> S] :
              /\ ToSet(s) = S
              /\ \A k, l \in DOMAIN s : k < l => rowSeq[s[k]] < rowSeq[s[l]]

Raise(n) == IF n > nextSeq THEN n ELSE nextSeq

Hydrated ==
  /\ phase = "hydrating"
  /\ phase' = "head"
  /\ seen' = NothingSeen
  /\ disturbed' = disturbed \cup ToSet(queue)
  /\ UNCHANGED <<aborted, step, handoffs, state, taken, writes, alloc, rowSeq, sent,
                 delivered, lost, faults>>

(* Mutant: a row is promoted when it is queued.                             *)
HydratePromoting ==
  /\ Hydrated
  /\ queue' = queue \o BySeq(seen.pending)
  /\ entries' = entries \o BySeq(seen.pending)
  /\ nextSeq' = Raise(seen.max + 1)
  /\ promoted' = promoted \cup seen.pending

(* Mutant: the kernel's entries do not follow the queue.                    *)
HydrateUnmirrored ==
  /\ Hydrated
  /\ queue' = queue \o BySeq(seen.pending)
  /\ nextSeq' = Raise(seen.max + 1)
  /\ UNCHANGED <<entries, promoted>>

(* Mutant: rows the allocator already knows are taken for delivered.        *)
HydrateUnknownRows ==
  /\ Hydrated
  /\ LET pending == {i \in seen.pending : rowSeq[i] >= nextSeq}
     IN  /\ queue' = queue \o BySeq(pending)
         /\ entries' = entries \o BySeq(pending)
  /\ nextSeq' = Raise(seen.max + 1)
  /\ UNCHANGED promoted

(* The rows go behind what has been sent to the run meanwhile.              *)
Hydrate ==
  /\ Hydrated
  /\ queue' = queue \o BySeq(seen.pending)
  /\ entries' = entries \o BySeq(seen.pending)
  /\ nextSeq' = Raise(seen.max + 1)
  /\ UNCHANGED promoted

----------------------------------------------------------------------------
(* The run loop.                                                           *)

Leave == phase' = "ending" /\ UNCHANGED <<aborted, step, handoffs, state, mem, delivered>>

(* How many entries splice(0, n) removes.                                   *)
Spliced(n) == IF n < Len(entries) THEN n ELSE Len(entries)

(* drainInputs, and the splice at the head of markInputsPromoted.           *)
Drain ==
  /\ delivered' = delivered \o queue
  /\ queue' = << >>
  /\ taken' = SubSeq(entries, 1, Spliced(Len(queue)))
  /\ entries' = SubSeq(entries, Spliced(Len(queue)) + 1, Len(entries))
  /\ phase' = IF queue = << >> THEN "stepping" ELSE "promoting"
  /\ UNCHANGED <<aborted, step, handoffs, state, seen>>

Turn ==
  /\ phase = "head"
  /\ IF step = MaxSteps \/ aborted THEN Leave ELSE Drain
  /\ UNCHANGED <<writing, disk, sent, lost, disturbed, faults>>

Written(i) == rowSeq[i] # 0 \/ i \in lost

(* One entry of markInputsPromoted: its write is awaited, its row updated.  *)
Promote ==
  /\ phase = "promoting" /\ taken # << >> /\ Written(Head(taken))
  /\ promoted' = IF rowSeq[Head(taken)] # 0 THEN promoted \cup {Head(taken)} ELSE promoted
  /\ taken' = Tail(taken)
  /\ UNCHANGED <<run, queue, entries, seen, writing, rowSeq, sent, hist>>

PromoteFails ==
  /\ phase = "promoting" /\ taken # << >> /\ Written(Head(taken)) /\ Fault
  /\ disturbed' = disturbed \cup {Head(taken)}
  /\ taken' = Tail(taken)
  /\ UNCHANGED <<run, queue, entries, seen, writing, disk, sent, delivered, lost>>

AllPromoted ==
  /\ phase = "promoting" /\ taken = << >>
  /\ phase' = "stepping"
  /\ UNCHANGED <<aborted, step, handoffs, state, mem, writing, disk, sent, hist>>

ToolsDone ==
  /\ phase = "stepping"
  /\ phase' = "head" /\ step' = step + 1
  /\ Keep(step + 1)
  /\ UNCHANGED <<aborted, handoffs, mem, writing, disk, sent, hist>>

(* A stop condition ends the run, whatever is in its queue.                 *)
PolicyStops ==
  /\ phase = "stepping"
  /\ phase' = "ending"
  /\ Keep(step + 1)
  /\ UNCHANGED <<aborted, step, handoffs, mem, writing, disk, sent, hist>>

(* The step completes the run, unless there is something left to answer.    *)
Completed ==
  /\ phase = "stepping"
  /\ IF queue # << >> /\ step + 1 < MaxSteps
     THEN phase' = "head" /\ step' = step + 1 /\ UNCHANGED state
     ELSE phase' = "ending" /\ UNCHANGED step /\ Keep(step + 1)
  /\ UNCHANGED <<aborted, handoffs, mem, writing, disk, sent, hist>>

(* The continuation runs beforeRun again, under the same runId; without a   *)
(* session state it counts its steps anew.                                  *)
Handoff ==
  /\ phase = "stepping" /\ handoffs < MaxHandoffs
  /\ phase' = "entering" /\ handoffs' = handoffs + 1
  /\ step' = IF keeps THEN step + 1 ELSE 0
  /\ Keep(step + 1)
  /\ UNCHANGED <<aborted, mem, writing, disk, sent, hist>>

Throws ==
  /\ phase \in {"entering", "hydrating", "head", "stepping"}
  /\ Fault
  /\ phase' = "ending"
  /\ UNCHANGED <<aborted, step, handoffs, state, mem, writing, disk, sent, delivered,
                 lost, disturbed>>

Abort ==
  /\ phase # "free" /\ ~ aborted /\ Fault
  /\ aborted' = TRUE
  /\ UNCHANGED <<phase, step, handoffs, state, mem, writing, disk, sent, delivered,
                 lost, disturbed>>

StepAborted ==
  /\ phase = "stepping" /\ aborted
  /\ Leave
  /\ UNCHANGED <<writing, disk, sent, lost, disturbed, faults>>

(* cleanupRun, and the finally block of the kernel.                         *)
Close ==
  /\ phase = "ending"
  /\ phase' = "free" /\ aborted' = FALSE /\ step' = 0 /\ handoffs' = 0
  /\ queue' = << >> /\ entries' = << >> /\ seen' = NothingSeen
  /\ UNCHANGED <<state, taken, writing, disk, sent, hist>>

(* A write under way dies; what was delivered but not yet promoted stays so.*)
Crash ==
  /\ Fault
  /\ phase' = "free" /\ aborted' = FALSE /\ step' = 0 /\ handoffs' = 0
  /\ kept' = 0
  /\ queue' = << >> /\ entries' = << >> /\ taken' = << >> /\ seen' = NothingSeen
  /\ writes' = << >> /\ alloc' = 0 /\ nextSeq' = 0
  /\ lost' = lost \cup ToSet(writes)
  /\ disturbed' = disturbed \cup ToSet(taken)
  /\ UNCHANGED <<keeps, disk, sent, delivered>>

----------------------------------------------------------------------------
WriteStep == Allocate \/ AddMessage

RunStep == \/ Start \/ ListMessages \/ Hydrate \/ Turn \/ Promote \/ AllPromoted
           \/ ToolsDone \/ PolicyStops \/ Completed \/ Handoff \/ StepAborted \/ Close

Next == \/ SendInput \/ WriteStep \/ RunStep
        \/ AddMessageFails \/ PromoteFails \/ Throws \/ Abort \/ Crash

Spec == Init /\ [][Next]_vars

(* Awaits settle, and the session is used again.                            *)
FairSpec == Spec /\ WF_vars(WriteStep) /\ WF_vars(RunStep)

----------------------------------------------------------------------------
(* Type invariant.                                                         *)
TypeOK ==
  /\ phase \in Phase /\ aborted \in BOOLEAN
  /\ step \in 0 .. MaxSteps /\ handoffs \in 0 .. MaxHandoffs
  /\ keeps \in BOOLEAN /\ kept \in 0 .. MaxSteps
  /\ queue \in Seq(Inputs) /\ entries \in Seq(Inputs) /\ taken \in Seq(Inputs)
  /\ seen.pending \subseteq Inputs /\ seen.max \in Nat
  /\ writes \in Seq(Inputs) /\ alloc \in Nat /\ nextSeq \in Nat
  /\ rowSeq \in [Inputs -> Nat] /\ promoted \subseteq Inputs
  /\ sent \in 0 .. MaxInputs /\ delivered \in Seq(Inputs)
  /\ lost \subseteq Inputs /\ disturbed \subseteq Inputs
  /\ faults \in 0 .. MaxFaults

(* An input sendInput has accepted is not lost: it is in a transcript, or   *)
(* the next run will find it, unless its write failed.                      *)
NothingIsLost ==
  \A i \in 1 .. sent :
    \/ i \in ToSet(delivered) \cup ToSet(writes) \cup lost
    \/ rowSeq[i] # 0 /\ i \notin promoted

(* The rows of the store have distinct seqs in the order of admission, in   *)
(* one process or several.                                                  *)
SeqsFollowAdmission ==
  \A i, j \in Inputs : i < j /\ rowSeq[i] # 0 /\ rowSeq[j] # 0 => rowSeq[i] < rowSeq[j]

Above(n) == \A i \in Inputs : rowSeq[i] < n

(* Why: what is still to be written follows what has been, in order, ...    *)
WritesInv ==
  /\ \A k \in DOMAIN writes : writes[k] <= sent
  /\ \A k, l \in DOMAIN writes : k < l => writes[k] < writes[l]
  /\ \A i \in Inputs : rowSeq[i] # 0 =>
       i <= sent /\ \A k \in DOMAIN writes : i < writes[k]

(* ... and the allocator is above the rows, when it is known and before.    *)
AllocInv ==
  /\ alloc # 0 => writes # << >> /\ alloc < nextSeq /\ Above(alloc)
  /\ nextSeq # 0 => Above(nextSeq)
  /\ phase = "hydrating" /\ nextSeq = 0 => Above(seen.max + 1)

(* Inputs reach the transcripts in the order of admission and once, but for *)
(* those that a hydration found queued or unwritten, and those whose        *)
(* promotion failed or died.                                                *)
InOrderOnce ==
  \A p, q \in DOMAIN delivered :
    p < q /\ {delivered[p], delivered[q]} \cap disturbed = {}
      => delivered[p] < delivered[q]

(* The order in which sendInput admits is the order of the store and of    *)
(* the transcripts.                                                        *)
OrderIsKept == SeqsFollowAdmission /\ InOrderOnce

(* The runs of the kernel begin where none of them takes a step.            *)
Spent == keeps /\ kept = MaxSteps

(* An input in the store is delivered and promoted in the end, although     *)
(* runs end without having drained their queues: unless the kernel's        *)
(* session state, whose step nothing resets, comes to stay at the limit.    *)
StoredInputsArePromoted ==
  \A i \in Inputs : rowSeq[i] # 0 ~> (i \in promoted \/ []Spent)

----------------------------------------------------------------------------
(* kernel.ts:1430: re-queued "in admission order, exactly once (RV-21)".    *)
AdmissionOrderExactlyOnce ==
  \A p, q \in DOMAIN delivered : p < q => delivered[p] < delivered[q]

(* run-loop.ts:1417-1421: an input is answered "instead of leaking into (or *)
(* being lost before) the next" run.                                        *)
EveryStoredInputIsPromoted == \A i \in Inputs : rowSeq[i] # 0 ~> i \in promoted
=============================================================================
