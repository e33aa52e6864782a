--------------------------- MODULE RunConcurrent ---------------------------
(***************************************************************************)
(* StepExecutor.runConcurrent (step-executor/src/step-executor.ts): how a  *)
(* batch of tool calls is run a few at a time, promise by promise.         *)
(*                                                                         *)
(* next() begins a task and pushes p = exec(i).then(next) on `running`,    *)
(* which never shrinks, so task i is the i-th entry and a race over        *)
(* `running` is a race over the tasks begun so far.  A p is                *)
(*   executing  until its task ends                                        *)
(*   racing     while the next() that followed returned a race             *)
(*   resolved   once that next() found no task left, or its race was won   *)
(***************************************************************************)
EXTENDS Naturals, FiniteSets

CONSTANTS Count,       \* tasks.length
          Limit        \* maxConcurrentToolCalls

ASSUME CountAssumption == Count \in Nat
ASSUME LimitAssumption == Limit \in Nat

VARIABLES idx,      \* how many tasks have begun
          promise,  \* task -> the state of its entry of `running`
          raced,    \* task -> how many entries its race is over
          await,    \* what the call is suspended at
          over      \* how many entries that await is over; 0: none

poolVars == <<idx, promise, raced, await, over>>

Tasks == 1 .. Count

(* Mutant: the length is compared before the push.                          *)
BegunLate(begun) ==
  IF begun >= Count THEN begun
  ELSE IF begun >= Limit THEN begun + 1
  ELSE IF Limit < Count THEN Limit + 1 ELSE Count

(* How many tasks have begun when next() returns: it calls itself until     *)
(* `running` is as long as the concurrency or no task is left.              *)
BegunAfter(begun) ==
  IF begun >= Count THEN begun
  ELSE IF begun + 1 >= Limit THEN begun + 1
  ELSE IF Limit <= Count THEN Limit ELSE Count

(* next() returns a race, unless it ran out of tasks first.                 *)
Races(begun) == begun < Count /\ BegunAfter(begun) >= Limit

Begin(from, to, p) ==
  [i \in Tasks |-> IF from < i /\ i <= to THEN "executing" ELSE p[i]]

PoolInit == /\ idx     = BegunAfter(0)
            /\ promise = Begin(0, BegunAfter(0), [i \in Tasks |-> "none"])
            /\ raced   = [i \in Tasks |-> 0]
            /\ await   = "first"
            /\ over    = IF Races(0) THEN BegunAfter(0) ELSE 0

(* exec(i) never rejects: its outcome goes to results[i].                   *)
TaskEnds(i) ==
  /\ promise[i] = "executing"
  /\ idx' = BegunAfter(idx)
  /\ promise' = [Begin(idx, idx', promise) EXCEPT
                   ![i] = IF Races(idx) THEN "racing" ELSE "resolved"]
  /\ raced' = IF Races(idx) THEN [raced EXCEPT ![i] = idx'] ELSE raced
  /\ UNCHANGED <<await, over>>

SomeResolved(n) == \E j \in Tasks : j <= n /\ promise[j] = "resolved"

(* Mutant: Promise.all in place of Promise.race.                            *)
RaceWonByAll(i) ==
  /\ promise[i] = "racing"
  /\ \A j \in Tasks : j <= raced[i] => promise[j] = "resolved"
  /\ promise' = [promise EXCEPT ![i] = "resolved"]
  /\ UNCHANGED <<idx, raced, await, over>>

RaceWon(i) ==
  /\ promise[i] = "racing" /\ SomeResolved(raced[i])
  /\ promise' = [promise EXCEPT ![i] = "resolved"]
  /\ UNCHANGED <<idx, raced, await, over>>

(* `await next()` is over; allSettled takes the entries there are by then.  *)
FirstSettled ==
  /\ await = "first"
  /\ over = 0 \/ SomeResolved(over)
  /\ await' = "all"
  /\ over' = idx
  /\ UNCHANGED <<idx, promise, raced>>

AllSettled ==
  /\ await = "all"
  /\ \A j \in Tasks : j <= over => promise[j] = "resolved"
  /\ await' = "returned"
  /\ UNCHANGED <<idx, promise, raced, over>>

PoolNext == \/ \E i \in Tasks : TaskEnds(i) \/ RaceWon(i)
            \/ FirstSettled \/ AllSettled

PoolSpec == PoolInit /\ [][PoolNext]_poolVars

(* Tasks end (they race against the abort signal) and promise jobs are run. *)
PoolFairSpec == /\ PoolSpec
                /\ \A i \in Tasks : WF_poolVars(TaskEnds(i)) /\ WF_poolVars(RaceWon(i))
                /\ WF_poolVars(FirstSettled) /\ WF_poolVars(AllSettled)

----------------------------------------------------------------------------
PoolTypes == /\ idx \in 0 .. Count
             /\ promise \in [Tasks -> {"none", "executing", "racing", "resolved"}]
             /\ raced \in [Tasks -> 0 .. Count]
             /\ await \in {"first", "all", "returned"}
             /\ over \in 0 .. Count

Executing == {i \in Tasks : promise[i] = "executing"}

(* Every result is there when the call returns: no task is left running or  *)
(* was never begun, in whatever order the tasks end.                        *)
ReturnsAllResults ==
  await = "returned" => \A i \in Tasks : promise[i] \in {"racing", "resolved"}

(* ... and it returns, although every entry waits for another one.          *)
Terminates == <>(await = "returned")

(* runConcurrent is a pool: it never has more tasks under way than allowed. *)
PoolWidth == IF Limit = 0 THEN 1 ELSE Limit

Pool == INSTANCE TaskPool WITH
          Width    <- PoolWidth,
          begun    <- idx,
          ended    <- {i \in Tasks : promise[i] \in {"racing", "resolved"}},
          returned <- (await = "returned")

ImplementsPool == Pool!Spec

(* Why it works: an entry resolves only after the last task has begun.      *)
IndexInv ==
  /\ \A i \in Tasks : promise[i] = "none" <=> idx < i
  /\ (\E i \in Tasks : promise[i] = "resolved") => idx = Count
  /\ await = "first" /\ over = 0 => idx = Count
  /\ await # "first" => idx = Count /\ over = Count
  /\ await = "returned" => \A i \in Tasks : promise[i] = "resolved"

(* One task begins for each that ends once the pool is full.                *)
WidthInv == /\ idx < Count => idx >= PoolWidth
            /\ Cardinality(Executing) <= PoolWidth
=============================================================================
