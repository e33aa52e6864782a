------------------------- MODULE StepExecutor_proofs -------------------------
(***************************************************************************)
(* The step executor: what the saga of ToolStep undoes, for any number of  *)
(* steps and calls and any limit on the calls under way; and runConcurrent *)
(* for every number of tasks and every limit.                              *)
(***************************************************************************)
EXTENDS ToolStep, RunConcurrent, FiniteSetTheorems, SequenceTheorems, NaturalsInduction, TLAPS

In(q) == {q[i] : i \in DOMAIN q}

----------------------------------------------------------------------------
(* Numbers and lists.                                                      *)

(* A set of numbers up to n has a largest one.                              *)
LEMMA LargestExists ==
  ASSUME NEW n \in Nat, NEW P \in SUBSET (1 .. n), P # {}
  PROVE  \E j \in P : \A k \in P : k <= j
<1> DEFINE D == {n - i : i \in P}
<1>1. D \subseteq Nat /\ D # {}
  <2>1. \A i \in P : n - i \in Nat
    OBVIOUS
  <2>2. PICK i \in P : TRUE
    OBVIOUS
  <2> QED BY <2>1, <2>2
<1>2. PICK m \in D : \A k \in D : ~ (<<k, m>> \in OpToRel(<, Nat))
  <2> HIDE DEF D
  <2> QED BY <1>1, NatLessThanWellFounded, WFMin
<1>3. \A k \in D : m <= k
  <2> SUFFICES ASSUME NEW k \in D PROVE m <= k
    OBVIOUS
  <2>1. m \in Nat /\ k \in Nat
    BY <1>1
  <2> HIDE DEF D
  <2>2. ~ (k < m)
    BY <1>2, <2>1 DEF OpToRel
  <2> QED BY <2>1, <2>2
<1>4. PICK j \in P : m = n - j
  OBVIOUS
<1>5. \A k \in P : n - j <= n - k
  BY <1>3, <1>4
<1> QED BY <1>5

(* Induction up to n, over a set of numbers.                                *)
LEMMA UpTo ==
  ASSUME NEW n \in Nat, NEW G, 0 \in G,
         \A k \in Nat : k < n /\ k \in G => k + 1 \in G
  PROVE  n \in G
<1> DEFINE Bad == {k \in 0 .. n : k \notin G}
<1>1. SUFFICES ASSUME n \notin G PROVE FALSE
  OBVIOUS
<1>2. PICK k \in Bad : \A j \in Bad : ~ (<<j, k>> \in OpToRel(<, Nat))
  <2>1. Bad \subseteq Nat /\ n \in Bad
    BY <1>1
  <2> HIDE DEF Bad
  <2> QED BY <2>1, NatLessThanWellFounded, WFMin
<1>3. k \in Nat /\ k # 0 /\ k <= n /\ k \notin G
  OBVIOUS
<1>4. k - 1 \in Bad /\ <<k - 1, k>> \in OpToRel(<, Nat)
  BY <1>3 DEF OpToRel
<1> QED BY <1>2, <1>4

(* A set of steps can be listed from the last one to the first.             *)
Falls(q, T) == /\ q \in [1 .. Cardinality(T) -> T]
               /\ \A i, j \in 1 .. Cardinality(T) : i < j => q[i] > q[j]

LEMMA FallingExists ==
  ASSUME NEW S \in SUBSET (1 .. Steps)
  PROVE  \E q : Falls(q, S)
<1> DEFINE T(m) == S \cap (1 .. m)
<1>1. S \subseteq Nat /\ Steps \in Nat
  BY StepsAssumption
<1>2. ASSUME NEW m \in Nat PROVE IsFiniteSet(T(m)) /\ Cardinality(T(m)) \in Nat
  <2>1. IsFiniteSet(1 .. m)
    BY FS_Interval
  <2> QED BY <2>1, FS_Subset, FS_CardinalityType
<1>3. \E q : Falls(q, T(0))
  <2>1. T(0) = {} /\ Cardinality(T(0)) = 0
    BY FS_EmptySet
  <2>2. Falls(<< >>, T(0))
    BY <2>1 DEF Falls
  <2> QED BY <2>2
<1>4. ASSUME NEW m \in Nat, NEW q, Falls(q, T(m))
      PROVE  \E r : Falls(r, T(m + 1))
  <2>1. CASE m + 1 \notin S
    <3>1. T(m + 1) = T(m)
      BY <1>1, <2>1
    <3> QED BY <1>4, <3>1
  <2>2. CASE m + 1 \in S
    <3> DEFINE c == Cardinality(T(m))
               r == [k \in 1 .. c + 1 |-> IF k = 1 THEN m + 1 ELSE q[k - 1]]
    <3>1. /\ T(m + 1) = T(m) \cup {m + 1} /\ m + 1 \notin T(m)
          /\ \A i \in T(m) : i \in Nat /\ i < m + 1
      BY <1>1, <2>2
    <3>2. c \in Nat /\ Cardinality(T(m + 1)) = c + 1
      BY <1>2, <3>1, FS_AddElement
    <3> HIDE DEF T, c
    <3>3. q \in [1 .. c -> T(m)] /\ \A i, j \in 1 .. c : i < j => q[i] > q[j]
      BY <1>4 DEF Falls, c
    <3>4. r \in [1 .. c + 1 -> T(m + 1)]
      <4> SUFFICES ASSUME NEW k \in 1 .. c + 1 PROVE r[k] \in T(m + 1)
        OBVIOUS
      <4>1. k # 1 => k - 1 \in 1 .. c
        BY <3>2
      <4> QED BY <3>1, <3>3, <4>1
    <3>5. ASSUME NEW i \in 1 .. c + 1, NEW j \in 1 .. c + 1, i < j PROVE r[i] > r[j]
      <4>1. i \in Nat /\ j \in Nat /\ j # 1 /\ j - 1 \in 1 .. c /\ r[j] = q[j - 1]
        BY <3>2, <3>5
      <4>2. CASE i = 1
        BY <3>1, <3>3, <4>1, <4>2
      <4>3. CASE i # 1
        <5>1. i - 1 \in 1 .. c /\ r[i] = q[i - 1] /\ i - 1 < j - 1
          BY <3>2, <3>5, <4>1, <4>3
        <5> QED BY <3>3, <4>1, <5>1
      <4> QED BY <4>2, <4>3
    <3> HIDE DEF r
    <3>6. Falls(r, T(m + 1))
      BY <3>2, <3>4, <3>5 DEF Falls
    <3> QED BY <3>6
  <2> QED BY <2>1, <2>2
<1>5. \E q : Falls(q, T(Steps))
  <2> DEFINE G == {m \in Nat : \E q : Falls(q, T(m))}
  <2> HIDE DEF T
  <2>1. 0 \in G /\ \A k \in Nat : k < Steps /\ k \in G => k + 1 \in G
    BY <1>3, <1>4
  <2> HIDE DEF G
  <2>2. Steps \in G
    BY <1>1, <2>1, UpTo
  <2> QED BY <2>2 DEF G
<1>6. T(Steps) = S
  BY <1>1
<1> QED BY <1>5, <1>6

(* What rollbackAll goes through: every step with an entry, once.           *)
LEMMA StepsListed ==
  /\ StepsDescending \in Seq(1 .. Steps)
  /\ In(StepsDescending) = {s \in 1 .. Steps : saga.steps[s] # << >>}
<1> DEFINE S == {s \in 1 .. Steps : saga.steps[s] # << >>}
           d == StepsDescending
<1>1. IsFiniteSet(S) /\ Cardinality(S) \in Nat
  <2>1. IsFiniteSet(1 .. Steps)
    BY StepsAssumption, FS_Interval
  <2> QED BY <2>1, FS_Subset, FS_CardinalityType
<1>2. Falls(d, S)
  <2>1. \E q : Falls(q, S)
    BY FallingExists
  <2>2. d = CHOOSE q \in [1 .. Cardinality(S) -> S] :
              \A i, j \in 1 .. Cardinality(S) : i < j => q[i] > q[j]
    BY DEF StepsDescending
  <2> HIDE DEF S, d
  <2> QED BY <2>1, <2>2 DEF Falls
<1>3. S \subseteq Nat /\ S \subseteq 1 .. Steps
  BY StepsAssumption
<1> HIDE DEF S, d
<1>4. d \in [1 .. Cardinality(S) -> S] /\ DOMAIN d = 1 .. Cardinality(S)
  BY <1>2 DEF Falls
<1>5. \A i, j \in 1 .. Cardinality(S) : i # j => d[i] # d[j]
  <2> SUFFICES ASSUME NEW i \in 1 .. Cardinality(S), NEW j \in 1 .. Cardinality(S), i # j
               PROVE  d[i] # d[j]
    OBVIOUS
  <2>1. i < j \/ j < i
    BY <1>1
  <2>2. d[i] \in Nat /\ d[j] \in Nat
    BY <1>3, <1>4
  <2>3. d[i] > d[j] \/ d[j] > d[i]
    BY <1>2, <2>1 DEF Falls
  <2> QED BY <2>2, <2>3
<1>6. d \in Surjection(1 .. Cardinality(S), S)
  <2>1. d \in Injection(1 .. Cardinality(S), S)
    BY <1>4, <1>5 DEF Injection, IsInjective
  <2>2. Cardinality(1 .. Cardinality(S)) = Cardinality(S)
    BY <1>1, FS_Interval
  <2> QED BY <1>1, <2>1, <2>2, FS_Injection
<1>7. In(d) = S
  BY <1>4, <1>6 DEF In, Surjection
<1>8. d \in Seq(1 .. Steps)
  <2>1. d \in [1 .. Cardinality(S) -> 1 .. Steps]
    BY <1>3, <1>4
  <2> DEFINE c == Cardinality(S)
             R == 1 .. Steps
  <2>2. c \in Nat /\ d \in [1 .. c -> R]
    BY <1>1, <2>1
  <2> HIDE DEF c, R
  <2>3. d \in Seq(R)
    BY <2>2
  <2> QED BY <2>3 DEF R
<1> QED BY <1>7, <1>8 DEF S, d

----------------------------------------------------------------------------
(* The shape of the state.                                                 *)

WalkType == [todo : Seq(1 .. Steps), left : Seq(Calls)]
SagaType == [steps : [1 .. Steps -> Seq(Calls)], compensations : SUBSET Calls,
             rolledBack : SUBSET Calls]

(* The types that are no part of a rollback.                                *)
Rest == /\ step \in 1 .. Steps /\ run \in RunState /\ signal \in Signal
        /\ orphans \subseteq Calls /\ effects \subseteq Calls /\ undoable \subseteq Calls
        /\ overlap \subseteq 1 .. Steps

Types == /\ Rest
         /\ call \in [Calls -> CallState] /\ called \in [Calls -> Nat]
         /\ walk \in [Walkers -> WalkType] /\ saga \in SagaType

LEMMA TypesGive == Types => TypeOK
<1>1. walk \in [Walkers -> WalkType] =>
        \A w \in Walkers : walk[w].todo \in Seq(1 .. Steps) /\ walk[w].left \in Seq(Calls)
  BY DEF WalkType
<1>2. saga \in SagaType =>
        /\ saga.steps \in [1 .. Steps -> Seq(Calls)]
        /\ saga.compensations \subseteq Calls /\ saga.rolledBack \subseteq Calls
  BY DEF SagaType
<1> QED BY <1>1, <1>2 DEF Types, TypeOK, Rest

LEMMA CallFacts ==
  /\ \A c \in Calls : StepOf(c) \in 1 .. Steps /\ c \in Walkers /\ c # Run
  /\ Run \in Walkers /\ Run \notin Calls /\ Walkers = Calls \cup {Run}
BY RunAssumption DEF Calls, Walkers, StepOf

(* What the loop over the entries does: it calls the compensation of entry  *)
(* j, or it ends the step.                                                  *)
CallsNext(w, left, rb, j) ==
  /\ j \in 1 .. Len(left)
  /\ left[j] \in saga.compensations \ rb
  /\ \A i \in 1 .. Len(left) : i > j => left[i] \notin saga.compensations \ rb
  /\ walk'[w].todo = walk[w].todo
  /\ Len(walk'[w].left) = j /\ \A i \in 1 .. j : walk'[w].left[i] = left[i]
  /\ called' = [called EXCEPT ![left[j]] = @ + 1]
  /\ saga'.steps = saga.steps
  /\ saga'.rolledBack = rb \cup {left[i] : i \in {k \in 1 .. Len(left) : k > j}}
  /\ call' = call

EndsStep(w, left, rb) ==
  /\ \A i \in 1 .. Len(left) : left[i] \notin saga.compensations \ rb
  /\ walk'[w].todo = Tail(walk[w].todo) /\ walk'[w].left = << >>
  /\ called' = called
  /\ saga'.steps = [saga.steps EXCEPT ![Head(walk[w].todo)] = << >>]
  /\ saga'.rolledBack = rb \cup In(left)
  /\ call' = IF Tail(walk[w].todo) = << >> THEN Moved(w, "failed") ELSE call

LEMMA VisitMoves ==
  ASSUME Types, NEW w \in Walkers, walk[w].todo # << >>, NEW left \in Seq(Calls),
         NEW rb \in SUBSET Calls, Visit(w, left, rb)
  PROVE  /\ \A v \in Walkers \ {w} : walk'[v] = walk[v]
         /\ saga'.compensations = saga.compensations
         /\ walk' \in [Walkers -> WalkType] /\ saga' \in SagaType
         /\ called' \in [Calls -> Nat]
         /\ (\E j : CallsNext(w, left, rb, j)) \/ EndsStep(w, left, rb)
<1> DEFINE todo    == walk[w].todo
           pending == {i \in DOMAIN left : left[i] \in saga.compensations \ rb}
           j       == CHOOSE i \in pending : \A k \in pending : k <= i
           passed  == {left[i] : i \in {k \in DOMAIN left : \A p \in pending : k > p}}
<1>0. /\ walk \in [Walkers -> WalkType] /\ saga \in SagaType /\ called \in [Calls -> Nat]
      /\ todo \in Seq(1 .. Steps) /\ Tail(todo) \in Seq(1 .. Steps) /\ Head(todo) \in 1 .. Steps
      /\ saga.compensations \subseteq Calls
      /\ Len(left) \in Nat /\ DOMAIN left = 1 .. Len(left)
  <2>1. /\ walk \in [Walkers -> WalkType] /\ saga \in SagaType /\ called \in [Calls -> Nat]
    BY TypesGive DEF Types, TypeOK
  <2>2. todo \in Seq(1 .. Steps) /\ todo # << >>
    BY <2>1 DEF WalkType
  <2> HIDE DEF todo
  <2>3. Tail(todo) \in Seq(1 .. Steps) /\ Head(todo) \in 1 .. Steps
    BY <2>2, HeadTailProperties
  <2> QED BY <2>1, <2>2, <2>3 DEF SagaType
<1>1. CASE pending # {}
  <2>1. /\ walk'   = [walk EXCEPT ![w] = [todo |-> todo, left |-> SubSeq(left, 1, j)]]
        /\ called' = [called EXCEPT ![left[j]] = @ + 1]
        /\ saga'   = [saga EXCEPT !.rolledBack = rb \cup passed]
        /\ call' = call
    BY <1>1 DEF Visit
  <2>2. pending \subseteq 1 .. Len(left)
    BY <1>0
  <2>3. j \in pending /\ \A k \in pending : k <= j
    <3> HIDE DEF pending
    <3>1. \E i \in pending : \A k \in pending : k <= i
      BY <1>0, <1>1, <2>2, LargestExists
    <3> QED BY <3>1
  <2>4. passed = {left[i] : i \in {k \in 1 .. Len(left) : k > j}} /\ passed \subseteq Calls
    <3> DEFINE A == {k \in DOMAIN left : \A p \in pending : k > p}
               B == {k \in 1 .. Len(left) : k > j}
    <3>1. A = B
      <4>1. \A k \in 1 .. Len(left) : (\A p \in pending : k > p) <=> k > j
        <5> HIDE DEF pending, j
        <5> QED BY <1>0, <2>2, <2>3
      <4> QED BY <1>0, <4>1
    <3>2. passed = {left[i] : i \in A} /\ A \subseteq 1 .. Len(left)
      BY <1>0
    <3> HIDE DEF passed, A, B
    <3> QED BY <1>0, <3>1, <3>2 DEF B
  <2>5. \A i \in 1 .. Len(left) : i > j => left[i] \notin saga.compensations \ rb
    <3>1. \A i \in 1 .. Len(left) : i > j => i \notin pending
      <4> HIDE DEF pending, j
      <4> QED BY <1>0, <2>2, <2>3
    <3> QED BY <1>0, <3>1
  <2>6. j \in 1 .. Len(left) /\ left[j] \in saga.compensations \ rb /\ left[j] \in Calls
    BY <1>0, <2>3
  <2> HIDE DEF pending, j, passed, todo
  <2>7. /\ SubSeq(left, 1, j) \in Seq(Calls) /\ Len(SubSeq(left, 1, j)) = j
        /\ \A i \in 1 .. j : SubSeq(left, 1, j)[i] = left[i]
    <3>1. \A i \in 1 .. j : left[i] \in Calls
      BY <1>0, <2>6
    <3> QED BY <1>0, <2>6, <3>1, SubSeqProperties
  <2>8. CallsNext(w, left, rb, j)
    BY <1>0, <2>1, <2>4, <2>5, <2>6, <2>7 DEF CallsNext, todo, SagaType
  <2>9. saga' \in SagaType /\ saga'.compensations = saga.compensations
    BY <1>0, <2>1, <2>4 DEF SagaType
  <2>10. walk' \in [Walkers -> WalkType] /\ called' \in [Calls -> Nat]
    <3>1. [todo |-> todo, left |-> SubSeq(left, 1, j)] \in WalkType
      BY <1>0, <2>7 DEF WalkType
    <3>2. called[left[j]] + 1 \in Nat
      BY <1>0, <2>6
    <3> QED BY <1>0, <2>1, <2>6, <3>1, <3>2
  <2>11. \A v \in Walkers \ {w} : walk'[v] = walk[v]
    BY <1>0, <2>1
  <2> QED BY <2>8, <2>9, <2>10, <2>11
<1>2. CASE pending = {}
  <2>1. /\ walk'   = [walk EXCEPT ![w] = [todo |-> Tail(todo), left |-> << >>]]
        /\ saga'   = [saga EXCEPT !.rolledBack = rb \cup passed, !.steps[Head(todo)] = << >>]
        /\ call'   = IF Tail(todo) = << >> THEN Moved(w, "failed") ELSE call
        /\ called' = called
    BY <1>2 DEF Visit
  <2>2. passed = In(left) /\ passed \subseteq Calls
    BY <1>0, <1>2 DEF In
  <2>3. \A i \in 1 .. Len(left) : left[i] \notin saga.compensations \ rb
    BY <1>0, <1>2
  <2> HIDE DEF pending, j, passed, todo
  <2>4. << >> \in Seq(Calls)
    BY EmptySeq
  <2>5. saga' \in SagaType /\ saga'.compensations = saga.compensations
    BY <1>0, <2>1, <2>2, <2>4 DEF SagaType
  <2>6. walk' \in [Walkers -> WalkType] /\ called' \in [Calls -> Nat]
    BY <1>0, <2>1, <2>4 DEF WalkType
  <2>7. EndsStep(w, left, rb)
    BY <1>0, <2>1, <2>2, <2>3 DEF EndsStep, todo, SagaType
  <2>8. \A v \in Walkers \ {w} : walk'[v] = walk[v]
    BY <1>0, <2>1
  <2> QED BY <2>5, <2>6, <2>7, <2>8
<1> QED BY <1>1, <1>2

LEMMA TypesInit == Init => Types
<1> SUFFICES ASSUME Init PROVE Types
  OBVIOUS
<1>1. << >> \in Seq(Calls) /\ << >> \in Seq(1 .. Steps)
  BY EmptySeq
<1>2. Idle \in WalkType /\ EmptySaga \in SagaType
  BY <1>1 DEF Idle, EmptySaga, WalkType, SagaType
<1>3. walk \in [Walkers -> WalkType] /\ saga \in SagaType
  BY <1>2 DEF Init
<1>4. 1 \in 1 .. Steps
  BY StepsAssumption
<1> QED BY <1>3, <1>4 DEF Init, Types, Rest, RunState, Signal, CallState

(* A rollback of its own keeps the types.                                   *)
LEMMA RollBackOwnType ==
  ASSUME Types, NEW c \in Calls, RollBackOwn(c)
  PROVE  /\ call' \in [Calls -> CallState] /\ walk' \in [Walkers -> WalkType]
         /\ \A d \in Calls \ {c} : call'[d] = call[d]
         /\ call'[c] = "rolling"
         /\ \A w \in Walkers \ {c} : walk'[w] = walk[w]
         /\ walk'[c].left = walk[c].left /\ walk'[c].todo = <<StepOf(c)>>
<1>1. c \in Walkers /\ <<StepOf(c)>> \in Seq(1 .. Steps)
  BY CallFacts
<1>2. call \in [Calls -> CallState] /\ walk \in [Walkers -> WalkType]
  BY TypesGive DEF Types, TypeOK
<1> QED BY <1>1, <1>2 DEF RollBackOwn, WalkType, CallState

LEMMA VisitTypes ==
  ASSUME Types, NEW w \in Walkers, walk[w].todo # << >>, NEW left \in Seq(Calls),
         NEW rb \in SUBSET Calls, Visit(w, left, rb)
  PROVE  call' \in [Calls -> CallState]
<1>1. Moved(w, "failed") \in [Calls -> CallState] /\ call \in [Calls -> CallState]
  BY CallFacts DEF Moved, Types, CallState, Settled
<1> QED BY <1>1, VisitMoves DEF CallsNext, EndsStep

(* What a rollback is about to look at.                                     *)
LEMMA EnterTypes ==
  ASSUME Types, NEW w \in Walkers, walk[w].todo # << >>
  PROVE  /\ Head(walk[w].todo) \in 1 .. Steps /\ Tail(walk[w].todo) \in Seq(1 .. Steps)
         /\ saga.steps[Head(walk[w].todo)] \in Seq(Calls)
         /\ saga.rolledBack \in SUBSET Calls
<1> DEFINE todo == walk[w].todo
<1>1. todo \in Seq(1 .. Steps) /\ todo # << >>
  BY TypesGive DEF Types, TypeOK
<1> HIDE DEF todo
<1>2. Head(todo) \in 1 .. Steps /\ Tail(todo) \in Seq(1 .. Steps)
  BY <1>1, HeadTailProperties
<1> QED BY <1>2, TypesGive DEF todo, TypeOK

LEMMA EndedTypes ==
  ASSUME Types, NEW w \in Walkers, walk[w].left # << >>
  PROVE  LET left == walk[w].left
             last == Len(left)
         IN  /\ last \in Nat /\ last > 0 /\ left \in Seq(Calls) /\ DOMAIN left = 1 .. last
             /\ SubSeq(left, 1, last - 1) \in Seq(Calls)
             /\ Len(SubSeq(left, 1, last - 1)) = last - 1
             /\ \A i \in 1 .. last - 1 : SubSeq(left, 1, last - 1)[i] = left[i]
             /\ saga.rolledBack \cup {left[last]} \in SUBSET Calls
<1> DEFINE left == walk[w].left
           last == Len(left)
<1>1. left \in Seq(Calls) /\ left # << >> /\ saga.rolledBack \in SUBSET Calls
  BY TypesGive DEF Types, TypeOK
<1> HIDE DEF left
<1>2. last \in Nat /\ last > 0 /\ DOMAIN left = 1 .. last /\ left[last] \in Calls
  BY <1>1, EmptySeq
<1>3. \A i \in 1 .. last - 1 : left[i] \in Calls
  BY <1>1, <1>2
<1>4. /\ SubSeq(left, 1, last - 1) \in Seq(Calls)
      /\ Len(SubSeq(left, 1, last - 1)) = last - 1
      /\ \A i \in 1 .. last - 1 : SubSeq(left, 1, last - 1)[i] = left[i]
  BY <1>1, <1>2, <1>3, SubSeqProperties
<1> QED BY <1>1, <1>2, <1>4 DEF left

(* What is left of a step is left of the first one to do.                   *)
Led == \A w \in Walkers : walk[w].left # << >> => walk[w].todo # << >>

LEMMA TypesStep == Types /\ Led /\ [Next]_vars => Types'
<1> SUFFICES ASSUME Types, Led, [Next]_vars PROVE Types'
  OBVIOUS
<1> USE DEF Types
<1>1. ASSUME NEW c \in Calls, BeginCall(c) \/ Refuse(c) PROVE Types'
  BY <1>1 DEF BeginCall, Refuse, Rest, Unmoved, CallState, Settled
<1>2. ASSUME NEW c \in Calls, Execute(c) \/ Abandon(c) \/ ErrorHandled(c) PROVE Types'
  <2>1. /\ Rest' /\ called' \in [Calls -> Nat] /\ saga' \in SagaType
    BY <1>2 DEF Execute, Abandon, ErrorHandled, Rest, Unmoved
  <2>2. CASE RollBackOwn(c)
    BY <2>1, <2>2, RollBackOwnType
  <2>3. CASE walk' = walk /\ \E x \in CallState : call' = [call EXCEPT ![c] = x]
    BY <2>1, <2>3
  <2> QED BY <1>2, <2>2, <2>3 DEF Execute, Abandon, ErrorHandled, CallState, Settled
<1>3. ASSUME NEW c \in Calls, ToolReturns(c) \/ ToolFails(c) \/ OrphanEnds(c) PROVE Types'
  BY <1>3 DEF ToolReturns, ToolFails, OrphanEnds, Rest, Unmoved, CallState
<1>4. ASSUME NEW c \in Calls, Record(c) PROVE Types'
  <2>1. StepOf(c) \in 1 .. Steps
    BY CallFacts
  <2>2. Append(saga.steps[StepOf(c)], c) \in Seq(Calls)
    <3>1. saga.steps[StepOf(c)] \in Seq(Calls)
      BY <2>1 DEF SagaType
    <3> QED BY <3>1, AppendProperties
  <2>3. saga' \in SagaType
    BY <1>4, <2>1, <2>2 DEF Record, SagaType
  <2> QED BY <1>4, <2>1, <2>3 DEF Record, Rest, Unmoved, CallState, Settled
<1>5. ASSUME NEW w \in Walkers, EnterStep(w) PROVE Types'
  <2> DEFINE s == Head(walk[w].todo)
  <2>1. /\ walk[w].todo # << >> /\ s \in 1 .. Steps /\ Tail(walk[w].todo) \in Seq(1 .. Steps)
        /\ saga.steps[s] \in Seq(Calls) /\ saga.rolledBack \in SUBSET Calls
    BY <1>5, EnterTypes DEF EnterStep
  <2>2. Rest /\ UNCHANGED <<step, run, signal, orphans, effects, undoable>>
    BY <1>5 DEF EnterStep
  <2>3. CASE saga.steps[s] = << >>
    <3>1. /\ walk' = [walk EXCEPT ![w].todo = Tail(@)]
          /\ call' = IF Tail(walk[w].todo) = << >> THEN Moved(w, "failed") ELSE call
          /\ UNCHANGED <<saga, called, overlap>>
      BY <1>5, <2>3 DEF EnterStep
    <3>2. Moved(w, "failed") \in [Calls -> CallState]
      BY CallFacts DEF Moved, CallState, Settled
    <3>3. walk' \in [Walkers -> WalkType]
      BY <2>1, <3>1 DEF WalkType
    <3> QED BY <2>2, <3>1, <3>2, <3>3 DEF Rest
  <2>4. CASE saga.steps[s] # << >>
    <3>1. /\ Visit(w, saga.steps[s], saga.rolledBack)
          /\ overlap' = IF Walking(s) = {} THEN overlap ELSE overlap \cup {s}
      BY <1>5, <2>4 DEF EnterStep
    <3>2. Rest'
      BY <2>1, <2>2, <3>1 DEF Rest
    <3> HIDE DEF Types, s
    <3> QED BY <2>1, <3>1, <3>2, VisitMoves, VisitTypes DEF Types
  <2> QED BY <2>3, <2>4
<1>6. ASSUME NEW w \in Walkers, CompensationEnds(w) PROVE Types'
  <2>1. Rest'
    BY <1>6 DEF CompensationEnds, Rest
  <2> DEFINE left == walk[w].left
             last == Len(left)
  <2>2. /\ left # << >> /\ walk[w].todo # << >>
        /\ Visit(w, SubSeq(left, 1, last - 1), saga.rolledBack \cup {left[last]})
    BY <1>6 DEF CompensationEnds, Led
  <2>3. /\ SubSeq(left, 1, last - 1) \in Seq(Calls)
        /\ saga.rolledBack \cup {left[last]} \in SUBSET Calls
    BY <2>2, EndedTypes
  <2> HIDE DEF Types, left, last
  <2> QED BY <1>6, <2>1, <2>2, <2>3, VisitMoves, VisitTypes DEF Types
<1>7. CASE StepTimeout \/ Abort
  BY <1>7 DEF StepTimeout, Abort, Fire, Rest, Signal
<1>8. CASE NextStep
  BY <1>8, StepsAssumption DEF NextStep, Rest, Signal
<1>9. CASE Succeed \/ Cancel \/ Failed
  <2>1. EmptySaga \in SagaType
    BY EmptySeq DEF EmptySaga, SagaType
  <2> QED BY <1>9, <2>1 DEF Succeed, Cancel, Failed, Leave, Rest, RunState
<1>10. CASE Fail
  <2>1. StepsDescending \in Seq(1 .. Steps)
    BY StepsListed
  <2>2. walk' \in [Walkers -> WalkType]
    BY <1>10, <2>1, CallFacts DEF Fail, WalkType
  <2> QED BY <1>10, <2>2 DEF Fail, Rest, RunState
<1>11. CASE UNCHANGED vars
  BY <1>11 DEF vars, Rest
<1> QED
  BY <1>1, <1>2, <1>3, <1>4, <1>5, <1>6, <1>7, <1>8, <1>9, <1>10, <1>11
  DEF Next, Progress, Rollback, Advance

----------------------------------------------------------------------------
(* Who is under way, and what is in the books.                             *)

UnderWay(c) == call[c] \notin {"waiting"} \cup Settled

Flow == \A c \in Calls : UnderWay(c) => StepOf(c) = step /\ run = "stepping"

(* A call rolls its own step back, the run all of them once it failed.      *)
Control ==
  /\ Led
  /\ \A c \in Calls : walk[c].todo = IF call[c] = "rolling" THEN <<StepOf(c)>> ELSE << >>
  /\ walk[Run].todo # << >> => run = "rolling"

Kept(c, s) == StepOf(c) = s /\ call[c] = "succeeded"

Book ==
  /\ \A s \in 1 .. Steps : \A i \in DOMAIN saga.steps[s] : Kept(saga.steps[s][i], s)
  /\ \A s \in 1 .. Steps : \A i, j \in DOMAIN saga.steps[s] :
       saga.steps[s][i] = saga.steps[s][j] => i = j
  /\ \A w \in Walkers : \A i \in DOMAIN walk[w].left :
       Kept(walk[w].left[i], Head(walk[w].todo))
  /\ \A c \in undoable : call[c] \in {"hooked", "succeeded"}
  /\ \A c \in saga.rolledBack : call[c] = "succeeded"
  /\ IF run \in {"stepping", "rolling"}
     THEN saga.compensations = Registered
     ELSE saga = EmptySaga

Shape == Types /\ Flow /\ Control /\ Book

LEMMA ShapeInit == Init => Shape
<1> SUFFICES ASSUME Init PROVE Shape
  OBVIOUS
<1>1. /\ \A c \in Calls : call[c] = "waiting"
      /\ \A w \in Walkers : walk[w].todo = << >> /\ walk[w].left = << >>
      /\ undoable = {} /\ saga = EmptySaga /\ run = "stepping"
  BY DEF Init, Idle
<1>2. /\ saga.rolledBack = {} /\ saga.compensations = {}
      /\ \A s \in 1 .. Steps : saga.steps[s] = << >>
  BY <1>1 DEF EmptySaga
<1>3. Flow /\ Control /\ Book
  BY <1>1, <1>2, CallFacts DEF Flow, UnderWay, Control, Led, Book, Registered
<1> QED BY <1>3, TypesInit DEF Shape

(* What is on a list is a call.                                             *)
LEMMA OnLists ==
  ASSUME Types
  PROVE  /\ \A s \in 1 .. Steps : /\ saga.steps[s] \in Seq(Calls)
                                   /\ DOMAIN saga.steps[s] = 1 .. Len(saga.steps[s])
                                   /\ Len(saga.steps[s]) \in Nat
         /\ \A w \in Walkers : /\ walk[w].left \in Seq(Calls)
                                /\ DOMAIN walk[w].left = 1 .. Len(walk[w].left)
                                /\ Len(walk[w].left) \in Nat
         /\ \A s \in 1 .. Steps : \A i \in DOMAIN saga.steps[s] : saga.steps[s][i] \in Calls
         /\ \A w \in Walkers : \A i \in DOMAIN walk[w].left : walk[w].left[i] \in Calls
         /\ saga.rolledBack \subseteq Calls /\ undoable \subseteq Calls
         /\ saga.compensations \subseteq Calls
<1>1. /\ \A s \in 1 .. Steps : saga.steps[s] \in Seq(Calls)
      /\ \A w \in Walkers : walk[w].left \in Seq(Calls)
      /\ saga.rolledBack \subseteq Calls /\ undoable \subseteq Calls
      /\ saga.compensations \subseteq Calls
  BY DEF Types, WalkType, SagaType, Rest
<1> QED BY <1>1, ElementOfSeq, LenProperties

(* A call moves on, while the rollbacks and the saga stay.                  *)
LEMMA MovesOn ==
  ASSUME Shape, Types', NEW c \in Calls, NEW x \in CallState \ {"succeeded", "rolling"},
         UnderWay(c) \/ (StepOf(c) = step /\ run = "stepping"),
         call[c] \notin {"succeeded", "rolling"},
         call' = [call EXCEPT ![c] = x], UNCHANGED <<walk, saga, run, step>>,
         undoable' = undoable \/ (undoable' = undoable \cup {c} /\ x = "hooked"),
         c \notin undoable
  PROVE  (Flow /\ Control /\ Book)' /\ Registered' = Registered
<1> USE DEF Shape
<1>1. /\ \A d \in Calls \ {c} : call'[d] = call[d]
      /\ call'[c] = x
  BY DEF Types
<1>2. Flow'
  BY <1>1 DEF Flow, UnderWay
<1>3. Control'
  BY <1>1 DEF Control, Led
<1>4. Registered' = Registered
  BY <1>1 DEF Registered
<1>5. \A d \in Calls : call[d] = "succeeded" => call'[d] = "succeeded"
  BY <1>1
<1>7. Book'
  BY <1>1, <1>4, <1>5, OnLists DEF Book, Kept
<1> QED BY <1>2, <1>3, <1>4, <1>7

(* A call begins to roll its step back.                                     *)
LEMMA RollsOwn ==
  ASSUME Shape, Types', NEW c \in Calls, call[c] \in {"gated", "executing", "failing"},
         RollBackOwn(c), UNCHANGED <<saga, run, step, undoable>>
  PROVE  /\ (Flow /\ Control /\ Book)' /\ Registered' = Registered
         /\ \A w \in Walkers : walk[w].left # << >> \/ walk'[w].left # << >> => walk'[w] = walk[w]
<1> USE DEF Shape
<1>1. /\ \A d \in Calls \ {c} : call'[d] = call[d]
      /\ call'[c] = "rolling"
      /\ \A w \in Walkers \ {c} : walk'[w] = walk[w]
      /\ walk'[c].left = walk[c].left /\ walk'[c].todo = <<StepOf(c)>>
  BY RollBackOwnType
<1>2. walk[c].todo = << >> /\ walk[c].left = << >>
  BY CallFacts DEF Control, Led
<1>3. Flow'
  BY <1>1 DEF Flow, UnderWay, Settled
<1>4. Control'
  BY <1>1, <1>2, CallFacts DEF Control, Led
<1>5. Registered' = Registered
  <2>1. \A d \in Calls : call'[d] = "succeeded" <=> call[d] = "succeeded"
    BY <1>1
  <2> QED BY <2>1, OnLists DEF Registered
<1>6. \A d \in Calls : call[d] = "succeeded" => call'[d] = "succeeded"
  BY <1>1
<1>7. \A w \in Walkers : walk[w].left # << >> \/ walk'[w].left # << >> => walk'[w] = walk[w]
  BY <1>1, <1>2
<1>8. Book'
  <2>1. ASSUME NEW w \in Walkers, NEW i \in DOMAIN walk'[w].left
        PROVE  /\ StepOf(walk'[w].left[i]) = Head(walk'[w].todo)
               /\ call'[walk'[w].left[i]] = "succeeded"
    <3>1. walk'[w].left # << >>
      BY <2>1
    <3>2. walk'[w] = walk[w]
      BY <1>7, <3>1
    <3>3. Kept(walk[w].left[i], Head(walk[w].todo)) /\ walk[w].left[i] \in Calls
      BY <2>1, <3>2, OnLists DEF Book
    <3> QED BY <1>6, <3>2, <3>3 DEF Kept
  <2>2. \A d \in undoable : call'[d] \in {"hooked", "succeeded"}
    BY <1>1, OnLists DEF Book
  <2>3. \A t \in 1 .. Steps : \A i \in DOMAIN saga.steps[t] :
          StepOf(saga.steps[t][i]) = t /\ call'[saga.steps[t][i]] = "succeeded"
    BY <1>6, OnLists DEF Book, Kept
  <2>4. \A d \in saga.rolledBack : call'[d] = "succeeded"
    BY <1>6, OnLists DEF Book
  <2>5. /\ saga' = saga /\ run' = run /\ undoable' = undoable
        /\ \A t \in 1 .. Steps : \A i, j \in DOMAIN saga.steps[t] :
             saga.steps[t][i] = saga.steps[t][j] => i = j
        /\ IF run \in {"stepping", "rolling"}
           THEN saga.compensations = Registered ELSE saga = EmptySaga
    BY DEF Book
  <2>6. EmptySaga' = EmptySaga
    BY DEF EmptySaga
  <2> QED BY <1>5, <2>1, <2>2, <2>3, <2>4, <2>5, <2>6 DEF Book, Kept
<1> QED BY <1>3, <1>4, <1>5, <1>7, <1>8

(* A rollback calls a compensation or ends a step, and leaves the others be. *)
RollsOn(w, left, rb) ==
  /\ \A v \in Walkers \ {w} : walk'[v] = walk[v]
  /\ saga'.compensations = saga.compensations
  /\ (\E j : CallsNext(w, left, rb, j)) \/ EndsStep(w, left, rb)

Enters(w, left, rb) ==
  LET s == Head(walk[w].todo)
  IN  /\ walk[w].left = << >> /\ left = saga.steps[s] /\ rb = saga.rolledBack
      /\ overlap' = IF left = << >> \/ Walking(s) = {} THEN overlap ELSE overlap \cup {s}

Resumes(w, left, rb) ==
  LET last == Len(walk[w].left)
  IN  /\ walk[w].left # << >> /\ overlap' = overlap
      /\ left = SubSeq(walk[w].left, 1, last - 1)
      /\ rb = saga.rolledBack \cup {walk[w].left[last]}

LEMMA RollbackMoves ==
  ASSUME Types, Led, NEW w \in Walkers, Rollback(w)
  PROVE  /\ walk[w].todo # << >> /\ UNCHANGED <<step, run, signal, orphans, effects, undoable>>
         /\ \E left \in Seq(Calls), rb \in SUBSET Calls :
              RollsOn(w, left, rb) /\ (Enters(w, left, rb) \/ Resumes(w, left, rb))
<1>0. walk[w].todo # << >> /\ UNCHANGED <<step, run, signal, orphans, effects, undoable>>
  BY DEF Rollback, EnterStep, CompensationEnds, Led
<1>1. CASE EnterStep(w)
  <2> DEFINE s == Head(walk[w].todo)
             left == saga.steps[s]
             rb == saga.rolledBack
  <2>1. /\ walk[w].left = << >> /\ s \in 1 .. Steps
        /\ left \in Seq(Calls) /\ rb \in SUBSET Calls
    BY <1>1, EnterTypes DEF EnterStep
  <2>2. CASE left = << >>
    <3>1. /\ walk' = [walk EXCEPT ![w].todo = Tail(@)]
          /\ call' = IF Tail(walk[w].todo) = << >> THEN Moved(w, "failed") ELSE call
          /\ UNCHANGED <<saga, called, overlap>>
      BY <1>1, <2>2 DEF EnterStep
    <3>2. /\ \A v \in Walkers \ {w} : walk'[v] = walk[v]
          /\ walk'[w].todo = Tail(walk[w].todo) /\ walk'[w].left = << >>
      BY <2>1, <3>1 DEF Types, WalkType
    <3>3. /\ [saga.steps EXCEPT ![s] = << >>] = saga.steps
          /\ DOMAIN left = {} /\ In(left) = {}
      BY <2>1, <2>2 DEF Types, SagaType, In
    <3>4. EndsStep(w, left, rb)
      BY <2>2, <3>1, <3>2, <3>3 DEF EndsStep
    <3>5. RollsOn(w, left, rb) /\ Enters(w, left, rb)
      BY <2>1, <2>2, <3>1, <3>2, <3>4 DEF RollsOn, Enters
    <3> QED BY <1>0, <2>1, <3>5
  <2>3. CASE left # << >>
    <3>1. /\ Visit(w, left, rb)
          /\ overlap' = IF Walking(s) = {} THEN overlap ELSE overlap \cup {s}
      BY <1>1, <2>3 DEF EnterStep
    <3>2. Enters(w, left, rb)
      BY <2>1, <2>3, <3>1 DEF Enters
    <3> HIDE DEF left, rb, s
    <3>3. RollsOn(w, left, rb)
      BY <1>0, <2>1, <3>1, VisitMoves DEF RollsOn
    <3> QED BY <1>0, <2>1, <3>2, <3>3
  <2> QED BY <2>2, <2>3
<1>2. CASE CompensationEnds(w)
  <2> DEFINE last == Len(walk[w].left)
             left == SubSeq(walk[w].left, 1, last - 1)
             rb == saga.rolledBack \cup {walk[w].left[last]}
  <2>1. walk[w].left # << >> /\ overlap' = overlap /\ Visit(w, left, rb)
    BY <1>2 DEF CompensationEnds
  <2>2. left \in Seq(Calls) /\ rb \in SUBSET Calls
    BY <2>1, EndedTypes
  <2>3. Resumes(w, left, rb)
    BY <2>1 DEF Resumes
  <2> HIDE DEF left, rb
  <2>4. RollsOn(w, left, rb)
    BY <1>0, <2>1, <2>2, VisitMoves DEF RollsOn
  <2> QED BY <1>0, <2>2, <2>3, <2>4
<1> QED BY <1>0, <1>1, <1>2 DEF Rollback

LEMMA RollsShape ==
  ASSUME Shape, Types', NEW w \in Walkers, walk[w].todo # << >>, NEW left \in Seq(Calls),
         NEW rb \in SUBSET Calls, RollsOn(w, left, rb),
         \A i \in 1 .. Len(left) : Kept(left[i], Head(walk[w].todo)),
         \A c \in rb : call[c] = "succeeded",
         UNCHANGED <<run, step, undoable>>
  PROVE  /\ (Flow /\ Control /\ Book)' /\ Registered' = Registered
         /\ run \in {"stepping", "rolling"}
         /\ \A c \in Calls : call'[c] = "succeeded" <=> call[c] = "succeeded"
         /\ \A c \in Calls : call[c] \in {"rolling", "failed"} => call'[c] \in {"rolling", "failed"}
         /\ w # Run => call[w] = "rolling" /\ StepOf(w) = Head(walk[w].todo) /\ w \in Calls
         /\ w = Run => run = "rolling"
<1> USE DEF Shape
<1> DEFINE s == Head(walk[w].todo)
<1>0. /\ \A v \in Walkers \ {w} : walk'[v] = walk[v]
      /\ saga'.compensations = saga.compensations
      /\ (\E j : CallsNext(w, left, rb, j)) \/ EndsStep(w, left, rb)
  BY DEF RollsOn
<1>1. /\ w # Run => w \in Calls /\ call[w] = "rolling" /\ walk[w].todo = <<s>> /\ s = StepOf(w)
      /\ w = Run => run = "rolling"
  <2>1. CASE w = Run
    BY <2>1 DEF Control
  <2>2. CASE w # Run
    <3>1. w \in Calls
      BY <2>2, CallFacts
    <3>2. call[w] = "rolling" /\ walk[w].todo = <<StepOf(w)>>
      BY <3>1 DEF Control
    <3>3. Head(<<StepOf(w)>>) = StepOf(w)
      OBVIOUS
    <3> QED BY <2>2, <3>1, <3>2, <3>3
  <2> QED BY <2>1, <2>2
<1>2. run \in {"stepping", "rolling"}
  BY <1>1 DEF Flow, UnderWay, Settled
<1>3. s \in 1 .. Steps /\ Len(left) \in Nat /\ DOMAIN left = 1 .. Len(left)
      /\ \A i \in 1 .. Len(left) : left[i] \in Calls
  BY EnterTypes, LenProperties, ElementOfSeq
<1>4. CASE \E j : CallsNext(w, left, rb, j)
  <2>1. PICK j : CallsNext(w, left, rb, j)
    BY <1>4
  <2>2. /\ call' = call /\ saga'.steps = saga.steps
        /\ walk'[w].todo = walk[w].todo /\ walk'[w].left \in Seq(Calls)
        /\ Len(walk'[w].left) = j /\ j \in 1 .. Len(left)
        /\ \A i \in 1 .. j : walk'[w].left[i] = left[i]
        /\ saga'.rolledBack = rb \cup {left[i] : i \in {k \in 1 .. Len(left) : k > j}}
    BY <2>1 DEF CallsNext, Types, WalkType
  <2>3. Flow' /\ Control' /\ Registered' = Registered
    <3>1. Flow' /\ Registered' = Registered
      BY <2>2 DEF Flow, UnderWay, Registered
    <3>2. \A v \in Walkers : walk'[v].todo = walk[v].todo
      BY <1>0, <2>2
    <3>3. \A v \in Walkers : walk'[v].left # << >> => walk[v].todo # << >>
      BY <1>0 DEF Control, Led
    <3>4. Control'
      BY <2>2, <3>2, <3>3, CallFacts DEF Control, Led
    <3> QED BY <3>1, <3>4
  <2>4. \A v \in Walkers : \A i \in DOMAIN walk'[v].left :
          Kept(walk'[v].left[i], Head(walk'[v].todo))
    <3>1. DOMAIN walk'[w].left = 1 .. j
      BY <2>2
    <3>2. \A i \in 1 .. j : Kept(walk'[w].left[i], Head(walk'[w].todo))
      <4>1. \A i \in 1 .. j : i \in 1 .. Len(left)
        BY <1>3, <2>2
      <4> QED BY <2>2, <4>1
    <3>3. \A v \in Walkers \ {w} : \A i \in DOMAIN walk'[v].left :
            Kept(walk'[v].left[i], Head(walk'[v].todo))
      BY <1>0 DEF Book
    <3> QED BY <3>1, <3>2, <3>3
  <2>5. \A c \in saga'.rolledBack : call[c] = "succeeded"
    BY <2>2 DEF Kept
  <2>6. Book'
    <3>1. /\ \A t \in 1 .. Steps : \A i \in DOMAIN saga.steps[t] : Kept(saga.steps[t][i], t)
          /\ \A t \in 1 .. Steps : \A i, k \in DOMAIN saga.steps[t] :
               saga.steps[t][i] = saga.steps[t][k] => i = k
          /\ \A c \in undoable : call[c] \in {"hooked", "succeeded"}
          /\ saga.compensations = Registered
      BY <1>2 DEF Book
    <3> QED BY <1>0, <1>2, <2>2, <2>3, <2>4, <2>5, <3>1 DEF Book, Kept
  <2> QED BY <1>1, <1>2, <2>2, <2>3, <2>6
<1>5. CASE EndsStep(w, left, rb)
  <2>1. /\ walk'[w].todo = Tail(walk[w].todo) /\ walk'[w].left = << >>
        /\ saga'.steps = [saga.steps EXCEPT ![s] = << >>]
        /\ saga'.rolledBack = rb \cup In(left)
        /\ call' = IF Tail(walk[w].todo) = << >> THEN Moved(w, "failed") ELSE call
    BY <1>5 DEF EndsStep
  <2>2. w # Run => /\ Tail(walk[w].todo) = << >> /\ w \in Calls
                   /\ call' = [call EXCEPT ![w] = "failed"]
    <3>1. ASSUME NEW x PROVE Tail(<<x>>) = << >>
      OBVIOUS
    <3> QED BY <1>1, <2>1, <3>1 DEF Moved
  <2>3. w = Run => call' = call
    BY <2>1 DEF Moved
  <2>4. /\ \A c \in Calls \ {w} : call'[c] = call[c]
        /\ w # Run => call'[w] = "failed"
    BY <2>2, <2>3, CallFacts DEF Types
  <2>5. /\ \A c \in Calls : call'[c] = "succeeded" <=> call[c] = "succeeded"
        /\ Registered' = Registered
    <3>1. \A c \in Calls : call'[c] = "succeeded" <=> call[c] = "succeeded"
      BY <1>1, <2>4, CallFacts
    <3> QED BY <3>1, OnLists DEF Registered
  <2>6. Flow'
    BY <1>1, <2>4, CallFacts DEF Flow, UnderWay, Settled
  <2>7. Control'
    <3>1. ASSUME NEW c \in Calls
          PROVE  walk'[c].todo = IF call'[c] = "rolling" THEN <<StepOf(c)>> ELSE << >>
      <4>1. CASE c = w
        <5>1. w # Run
          BY <4>1, CallFacts
        <5> QED BY <2>1, <2>2, <2>4, <4>1, <5>1
      <4>2. CASE c # w
        BY <1>0, <2>4, <4>2, CallFacts DEF Control
      <4> QED BY <4>1, <4>2
    <3>2. walk'[Run].todo # << >> => run = "rolling"
      BY <1>0, <1>1, CallFacts DEF Control
    <3>3. \A v \in Walkers : walk'[v].left # << >> => walk'[v].todo # << >>
      BY <1>0, <2>1 DEF Control, Led
    <3> QED BY <3>1, <3>2, <3>3 DEF Control, Led
  <2>8. /\ \A t \in 1 .. Steps : saga'.steps[t] = IF t = s THEN << >> ELSE saga.steps[t]
    BY <2>1 DEF Types, SagaType
  <2>9. Book'
    <3>1. \A v \in Walkers : \A i \in DOMAIN walk'[v].left :
            v # w /\ walk'[v] = walk[v]
      BY <1>0, <2>1
    <3>2. \A c \in undoable : call'[c] \in {"hooked", "succeeded"}
      BY <1>1, <2>4, CallFacts, OnLists DEF Book
    <3>3. \A c \in saga'.rolledBack : call'[c] = "succeeded"
      BY <1>3, <2>1, <2>5 DEF In, Kept
    <3>4. \A v \in Walkers : \A i \in DOMAIN walk'[v].left :
            /\ StepOf(walk'[v].left[i]) = Head(walk'[v].todo)
            /\ call'[walk'[v].left[i]] = "succeeded"
      BY <2>5, <3>1, OnLists DEF Book, Kept
    <3>6. saga.compensations = Registered
      BY <1>2 DEF Book
    <3>7. \A t \in 1 .. Steps : \A i \in DOMAIN saga.steps[t] :
            /\ StepOf(saga.steps[t][i]) = t /\ call'[saga.steps[t][i]] = "succeeded"
            /\ \A k \in DOMAIN saga.steps[t] : saga.steps[t][i] = saga.steps[t][k] => i = k
      BY <2>5, OnLists DEF Book, Kept
    <3>5. \A t \in 1 .. Steps : \A i \in DOMAIN saga'.steps[t] :
            t # s /\ saga'.steps[t] = saga.steps[t]
      BY <2>8
    <3> QED BY <1>0, <1>2, <2>5, <3>2, <3>3, <3>4, <3>5, <3>6, <3>7 DEF Book, Kept
  <2>10. \A c \in Calls : call[c] \in {"rolling", "failed"} => call'[c] \in {"rolling", "failed"}
    BY <1>1, <2>4, CallFacts
  <2> QED BY <1>1, <1>2, <2>5, <2>6, <2>7, <2>9, <2>10
<1> QED BY <1>0, <1>4, <1>5

(* The entries a rollback is about to go through are entries of its step.   *)
LEMMA RollsKept ==
  ASSUME Shape, NEW w \in Walkers, walk[w].todo # << >>, NEW left, NEW rb,
         Enters(w, left, rb) \/ Resumes(w, left, rb)
  PROVE  /\ \A i \in 1 .. Len(left) : Kept(left[i], Head(walk[w].todo))
         /\ \A c \in rb : call[c] = "succeeded"
<1> USE DEF Shape
<1>1. CASE Enters(w, left, rb)
  <2>1. Head(walk[w].todo) \in 1 .. Steps
    BY EnterTypes
  <2> QED BY <1>1, <2>1, OnLists DEF Enters, Book
<1>2. CASE Resumes(w, left, rb)
  <2> DEFINE last == Len(walk[w].left)
  <2>1. /\ last \in Nat /\ last > 0 /\ DOMAIN walk[w].left = 1 .. last
        /\ Len(left) = last - 1 /\ \A i \in 1 .. last - 1 : left[i] = walk[w].left[i]
    BY <1>2, EndedTypes DEF Resumes
  <2>2. \A i \in 1 .. last : Kept(walk[w].left[i], Head(walk[w].todo))
    BY <2>1 DEF Book
  <2>3. last \in 1 .. last /\ \A i \in 1 .. last - 1 : i \in 1 .. last
    BY <2>1
  <2>4. rb = saga.rolledBack \cup {walk[w].left[last]}
    BY <1>2 DEF Resumes
  <2> QED BY <2>1, <2>2, <2>3, <2>4 DEF Book, Kept
<1> QED BY <1>1, <1>2

LEMMA RollbackShape ==
  ASSUME Shape, Types', NEW w \in Walkers, Rollback(w)
  PROVE  /\ (Flow /\ Control /\ Book)' /\ Registered' = Registered
         /\ run \in {"stepping", "rolling"}
         /\ \A c \in Calls : call'[c] = "succeeded" <=> call[c] = "succeeded"
         /\ \A c \in Calls : call[c] \in {"rolling", "failed"} => call'[c] \in {"rolling", "failed"}
         /\ w # Run => call[w] = "rolling" /\ StepOf(w) = Head(walk[w].todo) /\ w \in Calls
         /\ w = Run => run = "rolling"
<1>1. /\ walk[w].todo # << >> /\ UNCHANGED <<step, run, signal, orphans, effects, undoable>>
      /\ \E left \in Seq(Calls), rb \in SUBSET Calls :
            RollsOn(w, left, rb) /\ (Enters(w, left, rb) \/ Resumes(w, left, rb))
  BY RollbackMoves DEF Shape, Control
<1>2. PICK left \in Seq(Calls), rb \in SUBSET Calls :
        RollsOn(w, left, rb) /\ (Enters(w, left, rb) \/ Resumes(w, left, rb))
  BY <1>1
<1>3. /\ \A i \in 1 .. Len(left) : Kept(left[i], Head(walk[w].todo))
      /\ \A c \in rb : call[c] = "succeeded"
  BY <1>1, <1>2, RollsKept
<1> QED BY <1>1, <1>2, <1>3, RollsShape


(* While a step is over no call is under way.                               *)
LEMMA NobodyUnderWay ==
  ASSUME Flow, StepOver \/ run # "stepping"
  PROVE  \A c \in Calls : ~UnderWay(c)
BY DEF Flow, StepOver, UnderWay

LEMMA NobodyRolls ==
  ASSUME Shape, \A c \in Calls : ~UnderWay(c), walk[Run].todo = << >>
  PROVE  \A w \in Walkers : walk[w].todo = << >> /\ walk[w].left = << >>
<1>1. \A c \in Calls : call[c] # "rolling"
  BY DEF UnderWay, Settled
<1> QED BY <1>1, CallFacts DEF Shape, Control, Led

(* What the action leaves alone keeps its shape.                            *)
LEMMA ShapeStays ==
  ASSUME Shape, UNCHANGED <<call, walk, saga, run, undoable>>,
         step' = step \/ \A c \in Calls : ~UnderWay(c)
  PROVE  (Flow /\ Control /\ Book)' /\ Registered' = Registered
<1>1. Flow'
  BY DEF Shape, Flow, UnderWay
<1>2. Control' /\ Registered' = Registered
  BY DEF Shape, Control, Led, Registered
<1>3. Book'
  BY <1>2 DEF Shape, Book, Kept, EmptySaga
<1> QED BY <1>1, <1>2, <1>3

(* The run leaves its loop: the saga is cleared.                            *)
LEMMA LeaveShape ==
  ASSUME Shape, NEW how \in {"succeeded", "failed", "cancelled"}, Leave(how),
         \A c \in Calls : ~UnderWay(c), walk[Run].todo = << >>
  PROVE  (Flow /\ Control /\ Book)'
<1>1. /\ run' = how /\ saga' = EmptySaga /\ EmptySaga' = EmptySaga
      /\ UNCHANGED <<step, call, undoable, walk>>
  BY DEF Leave, EmptySaga
<1>2. /\ \A s \in 1 .. Steps : saga'.steps[s] = << >>
      /\ saga'.rolledBack = {}
  BY <1>1 DEF EmptySaga
<1>3. \A w \in Walkers : walk'[w].todo = << >> /\ walk'[w].left = << >>
  BY <1>1, NobodyRolls
<1>4. Flow' /\ Control'
  BY <1>1, <1>3, CallFacts DEF Shape, Flow, UnderWay, Control, Led
<1>5. Book'
  BY <1>1, <1>2, <1>3 DEF Shape, Book
<1> QED BY <1>4, <1>5

LEMMA RecordShape ==
  ASSUME Shape, Types', NEW c \in Calls, Record(c)
  PROVE  (Flow /\ Control /\ Book)'
<1> USE DEF Shape
<1> DEFINE s == StepOf(c)
           n == Len(saga.steps[s])
<1>1. /\ call[c] = "hooked" /\ s \in 1 .. Steps /\ run = "stepping"
      /\ \A d \in Calls \ {c} : call'[d] = call[d]
      /\ call'[c] = "succeeded"
      /\ UNCHANGED <<walk, step, run, undoable>>
  BY CallFacts DEF Record, Unmoved, Types, Flow, UnderWay, Settled
<1>2. /\ \A t \in 1 .. Steps : saga'.steps[t] = IF t = s THEN Append(saga.steps[s], c)
                                                        ELSE saga.steps[t]
      /\ saga'.rolledBack = saga.rolledBack
      /\ saga'.compensations = IF c \in undoable THEN saga.compensations \cup {c}
                                                 ELSE saga.compensations
  BY <1>1 DEF Record, Types, SagaType
<1>3. /\ n \in Nat /\ DOMAIN saga.steps[s] = 1 .. n
      /\ DOMAIN Append(saga.steps[s], c) = 1 .. n + 1
      /\ Append(saga.steps[s], c)[n + 1] = c
      /\ \A i \in 1 .. n : Append(saga.steps[s], c)[i] = saga.steps[s][i]
  BY <1>1, OnLists, AppendProperties
<1>4. \A d \in Calls : call[d] = "succeeded" => call'[d] = "succeeded"
  BY <1>1
<1>5. Flow'
  BY <1>1 DEF Flow, UnderWay, Settled
<1>6. Control'
  BY <1>1 DEF Control, Led
<1>7. saga'.compensations = Registered'
  <2>1. \A d \in Calls : call'[d] = "succeeded" <=> call[d] = "succeeded" \/ d = c
    BY <1>1
  <2> QED BY <1>1, <1>2, <2>1, OnLists DEF Book, Registered
<1>8. Book'
  <2>1. ASSUME NEW t \in 1 .. Steps, NEW i \in DOMAIN saga'.steps[t]
        PROVE  /\ StepOf(saga'.steps[t][i]) = t /\ call'[saga'.steps[t][i]] = "succeeded"
               /\ \A j \in DOMAIN saga'.steps[t] :
                    saga'.steps[t][i] = saga'.steps[t][j] => i = j
    <3>1. CASE t # s
      BY <1>2, <1>4, <2>1, <3>1, OnLists DEF Book, Kept
    <3>2. CASE t = s
      <4>1. \A k \in 1 .. n : /\ saga.steps[s][k] \in Calls /\ saga.steps[s][k] # c
                               /\ StepOf(saga.steps[s][k]) = s
                               /\ call'[saga.steps[s][k]] = "succeeded"
        BY <1>1, <1>3, <1>4, OnLists DEF Book, Kept
      <4>2. \A k, m \in 1 .. n : saga.steps[s][k] = saga.steps[s][m] => k = m
        BY <1>1, <1>3 DEF Book
      <4>3. \A k \in 1 .. n + 1 : k \in 1 .. n \/ k = n + 1
        BY <1>3
      <4> DEFINE q == saga'.steps[t]
      <4>4. /\ DOMAIN q = 1 .. n + 1 /\ q[n + 1] = c
            /\ \A k \in 1 .. n : q[k] = saga.steps[s][k]
        BY <1>2, <1>3, <3>2
      <4>5. \A k \in 1 .. n + 1 : q[k] = c => k = n + 1
        BY <4>1, <4>3, <4>4
      <4> HIDE DEF q
      <4>6. \A k, m \in 1 .. n + 1 : q[k] = q[m] => k = m
        BY <4>2, <4>3, <4>4, <4>5
      <4>7. i \in 1 .. n + 1 /\ StepOf(q[i]) = t /\ call'[q[i]] = "succeeded"
        BY <1>1, <2>1, <3>2, <4>1, <4>3, <4>4 DEF q
      <4> QED BY <4>4, <4>6, <4>7 DEF q
    <3> QED BY <3>1, <3>2
  <2>2. \A w \in Walkers : \A i \in DOMAIN walk[w].left :
          StepOf(walk[w].left[i]) = Head(walk[w].todo) /\ call'[walk[w].left[i]] = "succeeded"
    BY <1>4, OnLists DEF Book, Kept
  <2>3. /\ \A d \in undoable : call'[d] \in {"hooked", "succeeded"}
        /\ \A d \in saga.rolledBack : call'[d] = "succeeded"
    BY <1>1, OnLists DEF Book
  <2> QED BY <1>1, <1>2, <1>7, <2>1, <2>2, <2>3 DEF Book, Kept
<1> QED BY <1>5, <1>6, <1>8

(* A step of a call other than Record.                                      *)
CallStep(c) ==
  \/ BeginCall(c) \/ Refuse(c) \/ Execute(c) \/ Abandon(c) \/ ErrorHandled(c)
  \/ ToolReturns(c) \/ ToolFails(c) \/ OrphanEnds(c)

LEMMA CallStepShape ==
  ASSUME Shape, Types', NEW c \in Calls, CallStep(c)
  PROVE  /\ (Flow /\ Control /\ Book)' /\ Registered' = Registered
         /\ UNCHANGED <<run, saga, called, overlap>>
         /\ \A w \in Walkers : walk[w].left # << >> \/ walk'[w].left # << >> => walk'[w] = walk[w]
         /\ \A d \in Calls : call'[d] = "succeeded" <=> call[d] = "succeeded"
         /\ \A d \in Calls : call[d] \in {"rolling", "failed"} => call'[d] = call[d]
         /\ walk'[Run] = walk[Run]
<1> USE DEF Shape
<1>0. UNCHANGED <<step, run, saga, called, overlap>>
  BY DEF CallStep, BeginCall, Refuse, Execute, Abandon, ErrorHandled, ToolReturns, ToolFails,
         OrphanEnds, Unmoved
<1>1. CASE OrphanEnds(c)
  BY <1>0, <1>1, ShapeStays DEF OrphanEnds
<1>2. CASE /\ RollBackOwn(c) /\ call[c] \in {"gated", "executing", "failing"}
           /\ undoable' = undoable
  BY <1>0, <1>2, RollsOwn, RollBackOwnType, CallFacts
<1>3. CASE /\ \E x \in CallState \ {"succeeded", "rolling"} :
                /\ call' = [call EXCEPT ![c] = x]
                /\ undoable' = undoable \/ (undoable' = undoable \cup {c} /\ x = "hooked")
           /\ call[c] \in {"waiting", "gated", "executing", "failing"}
           /\ call[c] = "waiting" => StepOf(c) = step /\ run = "stepping"
           /\ walk' = walk
  <2>1. PICK x \in CallState \ {"succeeded", "rolling"} :
          /\ call' = [call EXCEPT ![c] = x]
          /\ undoable' = undoable \/ (undoable' = undoable \cup {c} /\ x = "hooked")
    BY <1>3
  <2>2. c \notin undoable /\ call[c] \notin {"succeeded", "rolling", "failed"}
    BY <1>3 DEF Book
  <2>3. UnderWay(c) \/ (StepOf(c) = step /\ run = "stepping")
    BY <1>3 DEF UnderWay, Settled
  <2>4. (Flow /\ Control /\ Book)' /\ Registered' = Registered
    BY <1>0, <1>3, <2>1, <2>2, <2>3, MovesOn
  <2>5. /\ \A d \in Calls \ {c} : call'[d] = call[d]
        /\ call'[c] = x
    BY <2>1 DEF Types
  <2> QED BY <1>0, <1>3, <2>2, <2>4, <2>5
<1> QED
  BY <1>1, <1>2, <1>3
  DEF CallStep, BeginCall, Refuse, Execute, Abandon, ErrorHandled, ToolReturns, ToolFails,
      CallState, Settled, Unmoved

LEMMA ShapeStep == Shape /\ [Next]_vars => Shape'
<1> SUFFICES ASSUME Shape, [Next]_vars PROVE Shape'
  OBVIOUS
<1>0. Types'
  BY TypesStep DEF Shape, Control
<1>1. ASSUME NEW c \in Calls, CallStep(c) PROVE Shape'
  BY <1>0, <1>1, CallStepShape DEF Shape
<1>2. ASSUME NEW c \in Calls, Record(c) PROVE Shape'
  BY <1>0, <1>2, RecordShape DEF Shape
<1>3. ASSUME NEW w \in Walkers, Rollback(w) PROVE Shape'
  BY <1>0, <1>3, RollbackShape DEF Shape
<1>4. CASE StepTimeout \/ Abort \/ UNCHANGED vars
  <2>1. UNCHANGED <<step, call, walk, saga, run, undoable>>
    BY <1>4 DEF StepTimeout, Abort, Fire, vars
  <2> QED BY <1>0, <2>1, ShapeStays DEF Shape
<1>5. CASE NextStep
  <2>1. UNCHANGED <<call, walk, saga, run, undoable>> /\ StepOver
    BY <1>5 DEF NextStep
  <2>2. \A c \in Calls : ~UnderWay(c)
    BY <2>1, NobodyUnderWay DEF Shape
  <2> QED BY <1>0, <2>1, <2>2, ShapeStays DEF Shape
<1>6. CASE Succeed \/ Cancel
  <2>1. /\ StepOver /\ run = "stepping"
        /\ \E how \in {"succeeded", "failed", "cancelled"} : Leave(how)
    BY <1>6 DEF Succeed, Cancel
  <2>2. (\A c \in Calls : ~UnderWay(c)) /\ walk[Run].todo = << >>
    BY <2>1, NobodyUnderWay DEF Shape, Control
  <2> QED BY <1>0, <2>1, <2>2, LeaveShape DEF Shape
<1>7. CASE Failed
  <2>1. run = "rolling" /\ walk[Run].todo = << >> /\ Leave("failed")
    BY <1>7 DEF Failed, Idle
  <2>2. \A c \in Calls : ~UnderWay(c)
    BY <2>1, NobodyUnderWay DEF Shape
  <2> QED BY <1>0, <2>1, <2>2, LeaveShape DEF Shape
<1>8. CASE Fail
  <2>1. /\ StepOver /\ run = "stepping" /\ run' = "rolling"
        /\ walk' = [walk EXCEPT ![Run].todo = StepsDescending]
        /\ UNCHANGED <<step, call, saga, undoable>>
    BY <1>8 DEF Fail
  <2>2. (\A c \in Calls : ~UnderWay(c)) /\ walk[Run].todo = << >>
    BY <2>1, NobodyUnderWay DEF Shape, Control
  <2>3. \A w \in Walkers : walk[w].todo = << >> /\ walk[w].left = << >>
    BY <2>2, NobodyRolls
  <2>4. /\ \A w \in Walkers : walk'[w].left = << >>
        /\ \A w \in Calls : walk'[w] = walk[w]
    BY <2>1, <2>3, CallFacts DEF Shape, Types, WalkType
  <2>5. Flow' /\ Control'
    BY <2>1, <2>2, <2>4 DEF Shape, Flow, UnderWay, Control, Led
  <2>6. Registered' = Registered
    BY <2>1 DEF Registered
  <2>7. Book'
    BY <2>1, <2>4, <2>6 DEF Shape, Book, Kept
  <2> QED BY <1>0, <2>5, <2>7 DEF Shape
<1> QED
  BY <1>1, <1>2, <1>3, <1>4, <1>5, <1>6, <1>7, <1>8
  DEF Next, Progress, CallStep, Advance


----------------------------------------------------------------------------
(* How far a step has been undone.                                         *)

Untouched(c) == called[c] = 0 /\ c \notin saga.rolledBack

(* What a rollback has left of its step is a beginning of the entries: the  *)
(* last of it is being undone, what follows has been, what precedes has not. *)
Frontier(left, s) ==
  LET n == Len(left)
      entries == saga.steps[s]
  IN  /\ n <= Len(entries)
      /\ \A i \in 1 .. n : left[i] = entries[i]
      /\ called[left[n]] = 1 /\ left[n] \notin saga.rolledBack
      /\ \A i \in 1 .. n : i < n => Untouched(entries[i])
      /\ \A i \in 1 .. Len(entries) :
           i > n /\ entries[i] \in saga.compensations => called[entries[i]] = 1

Countdown(s) ==
  \A c \in Calls : StepOf(c) = s =>
    /\ called[c] <= 1
    /\ call[c] # "succeeded" => called[c] = 0
    /\ run \in {"stepping", "rolling", "failed"} /\ c \in Registered /\ c \notin In(saga.steps[s])
         => called[c] = 1

Undone(s) ==
  /\ \A v, w \in Walking(s) : v = w
  /\ \A w \in Walking(s) : Frontier(walk[w].left, s)
  /\ Walking(s) = {} => \A i \in 1 .. Len(saga.steps[s]) : Untouched(saga.steps[s][i])
  /\ Countdown(s)

(* What the run has still to roll back.                                     *)
ToUndo == run = "rolling" =>
  \A s \in 1 .. Steps : saga.steps[s] # << >> => s \in In(walk[Run].todo)

UndoInv == Shape /\ ToUndo /\ \A s \in (1 .. Steps) \ overlap : Undone(s)

(* What a rollback of the step s goes on from.                              *)
Ready(w, left, rb, s) ==
  /\ s = Head(walk[w].todo) /\ s \in 1 .. Steps
  /\ \A v \in Walkers \ {w} : v \notin Walking(s)
  /\ Len(left) <= Len(saga.steps[s])
  /\ \A i \in 1 .. Len(left) : /\ left[i] = saga.steps[s][i]
                                 /\ called[left[i]] = 0 /\ left[i] \notin rb
  /\ \A i \in 1 .. Len(saga.steps[s]) :
       i > Len(left) /\ saga.steps[s][i] \in saga.compensations => called[saga.steps[s][i]] = 1

LEMMA BeginsReady ==
  ASSUME UndoInv, NEW w \in Walkers, walk[w].todo # << >>, NEW left, NEW rb,
         Enters(w, left, rb) \/ Resumes(w, left, rb), NEW s, s = Head(walk[w].todo),
         s \notin overlap'
  PROVE  Ready(w, left, rb, s) /\ Undone(s)
<1>0. Types /\ Book /\ \A t \in (1 .. Steps) \ overlap : Undone(t)
  BY DEF UndoInv, Shape
<1>1. s \in 1 .. Steps
  BY <1>0, EnterTypes
<1>2. CASE Enters(w, left, rb)
  <2>1. s \notin overlap /\ walk[w].left = << >> /\ left = saga.steps[s] /\ rb = saga.rolledBack
    BY <1>2 DEF Enters
  <2>2. Undone(s)
    BY <1>0, <1>1, <2>1
  <2>3. Walking(s) = {}
    <3>1. CASE left = << >>
      <4>1. ASSUME NEW v \in Walking(s) PROVE FALSE
        <5>1. walk[v].left # << >> /\ v \in Walkers
          BY <4>1 DEF Walking
        <5>2. Len(walk[v].left) <= 0
          BY <2>1, <2>2, <3>1, <4>1 DEF Undone, Frontier
        <5> QED BY <1>0, <5>1, <5>2, OnLists, EmptySeq
      <4> QED BY <4>1
    <3>2. CASE left # << >>
      BY <1>2, <3>2 DEF Enters
    <3> QED BY <3>1, <3>2
  <2>4. \A i \in 1 .. Len(left) : Untouched(left[i])
    BY <2>1, <2>2, <2>3 DEF Undone
  <2>5. Len(left) \in Nat
    BY <1>0, <1>1, <2>1, OnLists
  <2>6. \A i \in 1 .. Len(left) : called[left[i]] = 0 /\ left[i] \notin rb
    BY <2>1, <2>4 DEF Untouched
  <2>7. \A i \in 1 .. Len(left) : ~(i > Len(left))
    BY <2>5
  <2>8. Len(left) <= Len(saga.steps[s]) /\ \A v \in Walkers \ {w} : v \notin Walking(s)
    BY <2>1, <2>3, <2>5
  <2>9. \A i \in 1 .. Len(left) : /\ left[i] = saga.steps[s][i]
                                   /\ called[left[i]] = 0 /\ left[i] \notin rb
    BY <2>1, <2>6
  <2>10. \A i \in 1 .. Len(saga.steps[s]) :
           i > Len(left) /\ saga.steps[s][i] \in saga.compensations => called[saga.steps[s][i]] = 1
    BY <2>1, <2>7
  <2> QED BY <1>1, <2>2, <2>8, <2>9, <2>10 DEF Ready
<1>3. CASE Resumes(w, left, rb)
  <2> DEFINE last == Len(walk[w].left)
  <2>1. /\ walk[w].left # << >> /\ s \notin overlap
        /\ left = SubSeq(walk[w].left, 1, last - 1)
        /\ rb = saga.rolledBack \cup {walk[w].left[last]}
    BY <1>3 DEF Resumes
  <2>2. /\ last \in Nat /\ last > 0 /\ DOMAIN walk[w].left = 1 .. last
        /\ Len(left) = last - 1 /\ \A i \in 1 .. last - 1 : left[i] = walk[w].left[i]
    BY <1>0, <2>1, EndedTypes
  <2>3. w \in Walking(s) /\ Undone(s)
    BY <1>0, <1>1, <2>1 DEF Walking
  <2>4. Frontier(walk[w].left, s) /\ \A v \in Walkers \ {w} : v \notin Walking(s)
    BY <2>3 DEF Undone
  <2>5. /\ Len(saga.steps[s]) \in Nat /\ DOMAIN saga.steps[s] = 1 .. Len(saga.steps[s])
        /\ last <= Len(saga.steps[s])
        /\ \A i \in 1 .. last : walk[w].left[i] = saga.steps[s][i]
        /\ called[walk[w].left[last]] = 1
        /\ \A i \in 1 .. last : i < last => Untouched(saga.steps[s][i])
        /\ \A i \in 1 .. Len(saga.steps[s]) :
             i > last /\ saga.steps[s][i] \in saga.compensations => called[saga.steps[s][i]] = 1
    <3>1. Len(saga.steps[s]) \in Nat /\ DOMAIN saga.steps[s] = 1 .. Len(saga.steps[s])
      BY <1>0, <1>1, OnLists
    <3> QED BY <2>4, <3>1 DEF Frontier
  <2>6. \A i \in 1 .. last - 1 : i \in 1 .. last /\ i < last /\ last \in 1 .. last
    BY <2>2
  <2>7. \A i \in 1 .. last - 1 : saga.steps[s][i] # saga.steps[s][last]
    <3>1. \A i, k \in DOMAIN saga.steps[s] : saga.steps[s][i] = saga.steps[s][k] => i = k
      BY <1>0, <1>1 DEF Book
    <3>2. \A i \in 1 .. last : i \in DOMAIN saga.steps[s]
      <4>1. /\ Len(saga.steps[s]) \in Nat /\ DOMAIN saga.steps[s] = 1 .. Len(saga.steps[s])
            /\ last <= Len(saga.steps[s])
        BY <2>5
      <4> HIDE DEF last
      <4> QED BY <2>2, <4>1
    <3>3. \A i \in 1 .. last - 1 : i # last
      BY <2>2
    <3> QED BY <2>6, <3>1, <3>2, <3>3
  <2>8. \A i \in 1 .. Len(left) : /\ left[i] = saga.steps[s][i]
                                   /\ called[left[i]] = 0 /\ left[i] \notin rb
    <3>1. \A i \in 1 .. last - 1 : Untouched(saga.steps[s][i])
      BY <2>5, <2>6
    <3>2. rb = saga.rolledBack \cup {saga.steps[s][last]}
      <4>1. last \in 1 .. last
        BY <2>2
      <4> QED BY <2>1, <2>5, <4>1
    <3>3. \A i \in 1 .. last - 1 : left[i] = saga.steps[s][i]
      BY <2>2, <2>5, <2>6
    <3> QED BY <2>2, <2>7, <3>1, <3>2, <3>3 DEF Untouched
  <2>9. \A i \in 1 .. Len(saga.steps[s]) :
          i > Len(left) /\ saga.steps[s][i] \in saga.compensations => called[saga.steps[s][i]] = 1
    <3>1. \A i \in 1 .. Len(saga.steps[s]) : i > Len(left) => i = last \/ i > last
      BY <2>2
    <3>2. last \in 1 .. last
      BY <2>2
    <3>3. called[saga.steps[s][last]] = 1
      BY <2>5, <3>2
    <3>4. \A i \in 1 .. Len(saga.steps[s]) :
            i > last /\ saga.steps[s][i] \in saga.compensations => called[saga.steps[s][i]] = 1
      BY <2>5
    <3> HIDE DEF last
    <3> QED BY <3>1, <3>3, <3>4
  <2>10. Len(left) <= Len(saga.steps[s])
    <3>1. last <= Len(saga.steps[s]) /\ Len(saga.steps[s]) \in Nat
      BY <2>5
    <3> HIDE DEF last
    <3> QED BY <2>2, <3>1
  <2> QED BY <1>1, <2>3, <2>4, <2>8, <2>9, <2>10 DEF Ready
<1> QED BY <1>2, <1>3


(* The rollback of a step goes on.                                          *)
LEMMA RollsUndone ==
  ASSUME UndoInv, Types', NEW w \in Walkers, walk[w].todo # << >>, NEW left \in Seq(Calls),
         NEW rb \in SUBSET Calls, NEW s, RollsOn(w, left, rb), Ready(w, left, rb, s), Undone(s),
         \A i \in 1 .. Len(left) : Kept(left[i], s),
         Registered' = Registered, run \in {"stepping", "rolling"}, run' = run,
         \A c \in Calls : call'[c] = "succeeded" <=> call[c] = "succeeded"
  PROVE  Undone(s)'
<1> DEFINE E == saga.steps[s]
<1>a. Types /\ Book
  BY DEF UndoInv, Shape
<1>0. /\ s = Head(walk[w].todo) /\ s \in 1 .. Steps
      /\ \A v \in Walkers \ {w} : walk'[v] = walk[v]
      /\ \A v \in Walkers \ {w} : v \notin Walking(s)
      /\ saga'.compensations = saga.compensations
      /\ saga.compensations = Registered
  BY <1>a DEF Ready, RollsOn, Book
<1>1. /\ E \in Seq(Calls) /\ Len(E) \in Nat /\ DOMAIN E = 1 .. Len(E)
      /\ Len(left) \in Nat /\ Len(left) <= Len(E)
      /\ \A i \in 1 .. Len(left) : i \in 1 .. Len(E) /\ left[i] \in Calls /\ left[i] = E[i]
      /\ \A i \in 1 .. Len(E) : E[i] \in Calls /\ StepOf(E[i]) = s /\ call[E[i]] = "succeeded"
      /\ \A i, k \in 1 .. Len(E) : E[i] = E[k] => i = k
  <2>1. /\ E \in Seq(Calls) /\ Len(E) \in Nat /\ DOMAIN E = 1 .. Len(E)
        /\ \A i \in 1 .. Len(E) : E[i] \in Calls
        /\ \A i \in 1 .. Len(E) : StepOf(E[i]) = s /\ call[E[i]] = "succeeded"
        /\ \A i, k \in 1 .. Len(E) : E[i] = E[k] => i = k
    <3>1. /\ E \in Seq(Calls) /\ Len(E) \in Nat /\ DOMAIN E = 1 .. Len(E)
          /\ \A i \in DOMAIN E : E[i] \in Calls
      BY <1>a, <1>0, OnLists
    <3>2. /\ \A i \in DOMAIN E : Kept(E[i], s)
          /\ \A i, k \in DOMAIN E : E[i] = E[k] => i = k
      BY <1>a, <1>0 DEF Book
    <3> HIDE DEF E
    <3> QED BY <3>1, <3>2 DEF Kept
  <2>2. /\ Len(left) \in Nat /\ DOMAIN left = 1 .. Len(left)
        /\ \A i \in 1 .. Len(left) : left[i] \in Calls
    BY LenProperties, ElementOfSeq
  <2>3. Len(left) <= Len(E) /\ \A i \in 1 .. Len(left) : left[i] = E[i]
    BY DEF Ready
  <2>4. \A i \in 1 .. Len(left) : i \in 1 .. Len(E)
    BY <2>1, <2>2, <2>3
  <2> QED BY <2>1, <2>2, <2>3, <2>4
<1>2. /\ \A i \in 1 .. Len(left) : called[E[i]] = 0 /\ E[i] \notin rb
      /\ \A i \in 1 .. Len(E) : i > Len(left) /\ E[i] \in saga.compensations => called[E[i]] = 1
  <2>1. /\ \A i \in 1 .. Len(left) : called[left[i]] = 0 /\ left[i] \notin rb
        /\ \A i \in 1 .. Len(E) : i > Len(left) /\ E[i] \in saga.compensations => called[E[i]] = 1
    BY DEF Ready
  <2>2. \A i \in 1 .. Len(left) : left[i] = E[i]
    BY <1>1
  <2> HIDE DEF E
  <2> QED BY <2>1, <2>2
<1>3. \A v \in Walkers \ {w} : v \notin Walking(s)'
  BY <1>0 DEF Walking
<1>4. CASE \E j : CallsNext(w, left, rb, j)
  <2>1. PICK j : CallsNext(w, left, rb, j)
    BY <1>4
  <2>2. /\ call' = call /\ saga'.steps = saga.steps
        /\ walk'[w].todo = walk[w].todo /\ walk'[w].left \in Seq(Calls)
        /\ Len(walk'[w].left) = j /\ j \in 1 .. Len(left)
        /\ \A i \in 1 .. j : walk'[w].left[i] = left[i]
        /\ saga'.rolledBack = rb \cup {left[i] : i \in {k \in 1 .. Len(left) : k > j}}
        /\ left[j] \in saga.compensations \ rb
        /\ \A i \in 1 .. Len(left) : i > j => left[i] \notin saga.compensations \ rb
        /\ called' = [called EXCEPT ![left[j]] = @ + 1]
    BY <1>a, <2>1 DEF CallsNext, Types, WalkType
  <2>3. w \in Walking(s)'
    BY <1>0, <2>2 DEF Walking
  <2>4. /\ called'[E[j]] = 1 /\ E[j] \in Calls /\ StepOf(E[j]) = s
        /\ \A c \in Calls : c # E[j] => called'[c] = called[c]
    <3>1. j \in 1 .. Len(E) /\ left[j] = E[j] /\ called[E[j]] = 0
      BY <1>1, <1>2, <2>2
    <3>2. E[j] \in Calls /\ StepOf(E[j]) = s
      BY <1>1, <3>1
    <3>3. called \in [Calls -> Nat] /\ called' = [called EXCEPT ![E[j]] = @ + 1]
      BY <1>a, <2>2, <3>1 DEF Types
    <3> HIDE DEF E
    <3> QED BY <3>1, <3>2, <3>3
  <2>5. \A i \in 1 .. Len(E) : i # j => called'[E[i]] = called[E[i]]
    BY <1>1, <2>2, <2>4
  <2>6. \A i \in 1 .. Len(left) : i <= j => E[i] \notin saga'.rolledBack
    BY <1>1, <1>2, <2>2
  <2>7. Frontier(walk[w].left, s)'
    <3>1. \A i \in 1 .. j : i \in 1 .. Len(left) /\ i <= j
      BY <1>1, <2>2
    <3>2. /\ j <= Len(E) /\ j \in 1 .. j
          /\ \A i \in 1 .. j : walk'[w].left[i] = E[i]
      BY <1>1, <2>2, <3>1
    <3>3. \A i \in 1 .. j : i < j => called'[E[i]] = 0 /\ E[i] \notin saga'.rolledBack
      BY <1>1, <1>2, <2>5, <2>6, <3>1
    <3>4. \A i \in 1 .. Len(E) : i > j /\ E[i] \in saga.compensations => called'[E[i]] = 1
      <4> SUFFICES ASSUME NEW i \in 1 .. Len(E), i > j, E[i] \in saga.compensations
                   PROVE  called'[E[i]] = 1
        OBVIOUS
      <4>1. called'[E[i]] = called[E[i]]
        <5>1. i # j
          BY <1>1, <2>2
        <5> QED BY <2>5, <5>1
      <4>2. CASE i \in 1 .. Len(left)
        <5>1. left[i] = E[i] /\ E[i] \notin rb
          BY <1>1, <1>2, <4>2
        <5> QED BY <2>2, <4>2, <5>1
      <4>3. i > Len(left) \/ i \in 1 .. Len(left)
        BY <1>1
      <4> HIDE DEF E
      <4> QED BY <1>2, <4>1, <4>2, <4>3
    <3>5. walk'[w].left[j] \notin saga'.rolledBack /\ called'[walk'[w].left[j]] = 1
      BY <2>2, <2>4, <2>6, <3>1, <3>2
    <3> HIDE DEF E
    <3>6. saga'.steps[s] = E
      BY <2>2 DEF E
    <3> QED BY <1>0, <2>2, <3>2, <3>3, <3>4, <3>5, <3>6 DEF Frontier, Untouched
  <2>8. Countdown(s)'
    <3>1. In(saga'.steps[s]) = In(E)
      BY <2>2
    <3>2. E[j] \in In(E) /\ j \in 1 .. Len(E) /\ call[E[j]] = "succeeded"
      BY <1>1, <2>2 DEF In
    <3>3. Countdown(s) /\ call' = call /\ run' = run
      BY <2>2 DEF Undone
    <3> HIDE DEF E
    <3>4. ASSUME NEW c \in Calls, StepOf(c) = s
          PROVE  /\ called'[c] <= 1
                 /\ call'[c] # "succeeded" => called'[c] = 0
                 /\ run' \in {"stepping", "rolling", "failed"} /\ c \in Registered'
                    /\ c \notin In(saga'.steps[s]) => called'[c] = 1
      <4>1. CASE c = E[j]
        BY <2>4, <3>1, <3>2, <3>3, <4>1
      <4>2. CASE c # E[j]
        BY <2>4, <3>1, <3>3, <3>4, <4>2 DEF Countdown, E
      <4> QED BY <4>1, <4>2
    <3> QED BY <3>4 DEF Countdown
  <2>9. \A v, u \in Walking(s)' : v = u /\ v = w
    BY <1>3 DEF Walking
  <2> QED BY <2>3, <2>7, <2>8, <2>9 DEF Undone
<1>5. CASE EndsStep(w, left, rb)
  <2>1. /\ walk'[w].left = << >> /\ called' = called
        /\ saga'.steps = [saga.steps EXCEPT ![s] = << >>]
        /\ \A i \in 1 .. Len(left) : left[i] \notin saga.compensations \ rb
    BY <1>0, <1>5 DEF EndsStep
  <2>2. Walking(s)' = {}
    BY <1>3, <2>1 DEF Walking
  <2>3. saga'.steps[s] = << >> /\ In(saga'.steps[s]) = {}
    <3>1. saga'.steps[s] = << >>
      BY <1>a, <1>0, <2>1 DEF Types, SagaType
    <3> QED BY <3>1 DEF In
  <2>4. \A i \in 1 .. Len(E) : E[i] \in Registered => called[E[i]] = 1
    <3> SUFFICES ASSUME NEW i \in 1 .. Len(E), E[i] \in saga.compensations
                 PROVE  called[E[i]] = 1
      BY <1>0
    <3>1. i > Len(left) \/ i \in 1 .. Len(left)
      BY <1>1
    <3>2. CASE i \in 1 .. Len(left)
      <4>1. left[i] = E[i] /\ E[i] \notin rb
        BY <1>1, <1>2, <3>2
      <4> QED BY <2>1, <3>2, <4>1
    <3> HIDE DEF E
    <3> QED BY <1>2, <3>1, <3>2
  <2>5. Countdown(s)'
    <3>1. \A c \in Calls : c \in In(E) => \E i \in 1 .. Len(E) : c = E[i]
      BY <1>1 DEF In
    <3>2. ASSUME NEW c \in Calls, StepOf(c) = s
          PROVE  /\ called[c] <= 1
                 /\ call[c] # "succeeded" => called[c] = 0
                 /\ run \in {"stepping", "rolling", "failed"} /\ c \in Registered
                    => called[c] = 1
      BY <2>4, <3>1, <3>2 DEF Undone, Countdown
    <3> QED BY <2>1, <3>2 DEF Countdown
  <2> QED BY <2>2, <2>3, <2>5 DEF Undone
<1> QED BY <1>4, <1>5 DEF RollsOn

(* The other steps do not notice.                                           *)
LEMMA OthersUndone ==
  ASSUME UndoInv, Types', NEW w \in Walkers, walk[w].todo # << >>, NEW left \in Seq(Calls),
         NEW rb \in SUBSET Calls, NEW s \in 1 .. Steps, NEW t \in 1 .. Steps, t # s,
         s = Head(walk[w].todo), RollsOn(w, left, rb), Undone(t),
         \A i \in 1 .. Len(left) : Kept(left[i], s),
         \A c \in Calls : StepOf(c) = t => (c \in rb <=> c \in saga.rolledBack),
         Registered' = Registered, run' = run,
         \A c \in Calls : call'[c] = "succeeded" <=> call[c] = "succeeded"
  PROVE  Undone(t)'
<1> USE DEF UndoInv, Shape
<1> DEFINE E == saga.steps[t]
<1>0. /\ \A v \in Walkers \ {w} : walk'[v] = walk[v]
      /\ saga'.compensations = saga.compensations
      /\ DOMAIN left = 1 .. Len(left)
      /\ \A i \in 1 .. Len(left) : left[i] \in Calls /\ StepOf(left[i]) = s
  BY LenProperties DEF RollsOn, Kept
<1>1. saga'.steps[t] = saga.steps[t]
  BY DEF RollsOn, CallsNext, EndsStep, Types, SagaType
<1>2. \A c \in Calls : StepOf(c) = t =>
        called'[c] = called[c] /\ (c \in saga'.rolledBack <=> c \in saga.rolledBack)
  <2>1. CASE \E j : CallsNext(w, left, rb, j)
    BY <1>0, <2>1 DEF CallsNext, Types
  <2>2. CASE EndsStep(w, left, rb)
    BY <1>0, <2>2 DEF EndsStep, In
  <2> QED BY <2>1, <2>2 DEF RollsOn
<1>3. /\ w \notin Walking(t) /\ w \notin Walking(t)'
      /\ \A v \in Walkers : v \in Walking(t) <=> v \in Walking(t)'
  <2>1. w \notin Walking(t)
    BY DEF Walking
  <2>2. w \notin Walking(t)'
    BY DEF Walking, RollsOn, CallsNext, EndsStep
  <2> QED BY <1>0, <2>1, <2>2 DEF Walking
<1>4. Walking(t)' = Walking(t) /\ \A v \in Walking(t) : walk'[v] = walk[v]
  BY <1>0, <1>3 DEF Walking
<1>5. /\ E \in Seq(Calls) /\ Len(E) \in Nat /\ DOMAIN E = 1 .. Len(E)
      /\ \A i \in 1 .. Len(E) : E[i] \in Calls /\ StepOf(E[i]) = t
  BY OnLists DEF Book, Kept
<1>6. \A i \in 1 .. Len(E) : Untouched(E[i]) => Untouched(E[i])'
  BY <1>1, <1>2, <1>5 DEF Untouched
<1>7. \A v \in Walking(t) : Frontier(walk[v].left, t)'
  <2> SUFFICES ASSUME NEW v \in Walking(t) PROVE Frontier(walk[v].left, t)'
    OBVIOUS
  <2> DEFINE l == walk[v].left
             n == Len(l)
  <2>1. /\ v \in Walkers /\ l # << >> /\ walk'[v] = walk[v] /\ Frontier(l, t)
        /\ Head(walk[v].todo) = t
    BY <1>4 DEF Walking, Undone
  <2>2. /\ l \in Seq(Calls) /\ n \in Nat /\ DOMAIN l = 1 .. n /\ n > 0
    BY <2>1, OnLists, EmptySeq
  <2>3. l[n] \in Calls /\ StepOf(l[n]) = t
    BY <2>1, <2>2, OnLists DEF Book, Kept
  <2>4. /\ n <= Len(E)
        /\ \A i \in 1 .. n : l[i] = E[i] /\ i \in 1 .. Len(E)
        /\ called'[l[n]] = 1 /\ l[n] \notin saga'.rolledBack
        /\ \A i \in 1 .. n : i < n => Untouched(E[i])
    BY <1>2, <1>5, <2>1, <2>2, <2>3 DEF Frontier
  <2>5. \A i \in 1 .. n : i < n => called'[E[i]] = 0 /\ E[i] \notin saga'.rolledBack
    BY <1>2, <1>5, <2>4 DEF Untouched
  <2>6. \A i \in 1 .. Len(E) : i > n /\ E[i] \in saga.compensations => called'[E[i]] = 1
    BY <1>2, <1>5, <2>1 DEF Frontier
  <2> HIDE DEF E
  <2>7. saga'.steps[t] = E
    BY <1>1 DEF E
  <2> QED BY <1>0, <2>1, <2>4, <2>5, <2>6, <2>7 DEF Frontier, Untouched
<1>8. Countdown(t)'
  BY <1>1, <1>2 DEF Undone, Countdown
<1>9. Walking(t)' = {} => \A i \in 1 .. Len(saga'.steps[t]) : Untouched(saga.steps[t][i])'
  BY <1>1, <1>4, <1>6 DEF Undone
<1>10. \A v, u \in Walking(t)' : v = u
  BY <1>4 DEF Undone
<1> QED BY <1>4, <1>7, <1>8, <1>9, <1>10 DEF Undone


(* What is not about the saga leaves a step as far undone as it is.         *)
LEMMA UndoneStays ==
  ASSUME NEW s, Undone(s), UNCHANGED <<saga, called>>, Registered' = Registered,
         \A w \in Walkers : walk[w].left # << >> \/ walk'[w].left # << >> => walk'[w] = walk[w],
         \A c \in Calls : call'[c] = "succeeded" <=> call[c] = "succeeded",
         run' = run \/ run \in {"stepping", "rolling", "failed"}
  PROVE  Undone(s)'
<1>1. Walking(s)' = Walking(s) /\ \A w \in Walking(s) : walk'[w] = walk[w]
  BY DEF Walking
<1>2. \A w \in Walking(s) : Frontier(walk[w].left, s)'
  <2> SUFFICES ASSUME NEW w \in Walking(s) PROVE Frontier(walk[w].left, s)'
    OBVIOUS
  <2>1. walk'[w] = walk[w] /\ Frontier(walk[w].left, s)
    BY <1>1 DEF Undone
  <2> QED BY <2>1 DEF Frontier, Untouched
<1>3. Countdown(s)'
  BY DEF Undone, Countdown
<1>4. Walking(s) = {} => \A i \in 1 .. Len(saga'.steps[s]) : Untouched(saga.steps[s][i])'
  BY DEF Undone, Untouched
<1> QED BY <1>1, <1>2, <1>3, <1>4 DEF Undone

LEMMA LeaveUndone ==
  ASSUME UndoInv, NEW how \in {"succeeded", "failed", "cancelled"}, Leave(how),
         \A c \in Calls : ~UnderWay(c), walk[Run].todo = << >>,
         how = "failed" => run = "rolling", NEW s \in 1 .. Steps, Undone(s)
  PROVE  Undone(s)'
<1> USE DEF UndoInv
<1>1. /\ run' = how /\ saga' = EmptySaga /\ UNCHANGED <<call, undoable, walk, called>>
  BY DEF Leave
<1>2. saga'.steps[s] = << >>
  BY <1>1 DEF EmptySaga
<1>3. \A w \in Walkers : walk'[w].left = << >>
  BY <1>1, NobodyRolls
<1>4. Walking(s)' = {}
  BY <1>3 DEF Walking
<1>5. how = "failed" => saga.steps[s] = << >> /\ In(saga.steps[s]) = {}
  <2>1. run = "rolling" => saga.steps[s] = << >>
    BY DEF ToUndo, In
  <2> QED BY <2>1 DEF In
<1>6. Countdown(s)'
  BY <1>1, <1>5 DEF Undone, Countdown, Registered
<1> QED BY <1>2, <1>4, <1>6 DEF Undone

LEMMA RecordUndone ==
  ASSUME UndoInv, Types', NEW c \in Calls, Record(c), NEW s \in 1 .. Steps,
         s \notin overlap', Undone(s)
  PROVE  Undone(s)'
<1> USE DEF UndoInv, Shape
<1> DEFINE E == saga.steps[s]
<1>1. /\ call[c] = "hooked" /\ StepOf(c) \in 1 .. Steps /\ run = "stepping"
      /\ \A d \in Calls \ {c} : call'[d] = call[d]
      /\ call'[c] = "succeeded"
      /\ UNCHANGED <<walk, run, undoable, called>>
      /\ StepOf(c) = s => Walking(s) = {}
  BY CallFacts DEF Record, Unmoved, Types, Flow, UnderWay, Settled
<1>2. /\ saga'.steps[s] = IF s = StepOf(c) THEN Append(E, c) ELSE E
      /\ saga'.rolledBack = saga.rolledBack
      /\ saga'.compensations = saga.compensations
         \/ saga'.compensations = saga.compensations \cup {c}
  BY <1>1 DEF Record, Types, SagaType
<1>3. /\ Walking(s)' = Walking(s)
      /\ \A d \in Calls : Untouched(d) => Untouched(d)'
      /\ called[c] = 0 \/ StepOf(c) # s
      /\ c \notin saga.rolledBack
  BY <1>1, <1>2 DEF Walking, Untouched, Undone, Countdown, Book
<1>4. /\ E \in Seq(Calls) /\ Len(E) \in Nat /\ DOMAIN E = 1 .. Len(E)
      /\ \A i \in 1 .. Len(E) : E[i] \in Calls /\ StepOf(E[i]) = s
  BY OnLists DEF Book, Kept
<1>5. \A d \in Calls : d # c => (d \in Registered' <=> d \in Registered)
  BY <1>1 DEF Registered
<1>6. CASE StepOf(c) # s
  <2>1. saga'.steps[s] = E
    BY <1>2, <1>6
  <2>2. \A w \in Walking(s) : Frontier(walk[w].left, s)'
    <3> SUFFICES ASSUME NEW w \in Walking(s) PROVE Frontier(walk[w].left, s)'
      OBVIOUS
    <3>1. walk'[w] = walk[w] /\ Frontier(walk[w].left, s)
      BY <1>1 DEF Undone
    <3>2. \A i \in 1 .. Len(E) :
            E[i] \in saga'.compensations => E[i] \in saga.compensations
      BY <1>2, <1>4, <1>6
    <3> QED BY <1>1, <1>2, <2>1, <3>1, <3>2 DEF Frontier, Untouched
  <2>3. Countdown(s)'
    BY <1>1, <1>5, <1>6, <2>1 DEF Undone, Countdown
  <2> QED BY <1>3, <1>4, <2>1, <2>2, <2>3 DEF Undone
<1>7. CASE StepOf(c) = s
  <2>1. /\ saga'.steps[s] = Append(E, c) /\ Walking(s)' = {} /\ Walking(s) = {}
    BY <1>1, <1>2, <1>3, <1>7
  <2>2. /\ Len(Append(E, c)) = Len(E) + 1 /\ DOMAIN Append(E, c) = 1 .. Len(E) + 1
        /\ Append(E, c)[Len(E) + 1] = c
        /\ \A i \in 1 .. Len(E) : Append(E, c)[i] = E[i]
    BY <1>4, AppendProperties
  <2> DEFINE q == Append(E, c)
  <2>3. \A i \in 1 .. Len(q) : (i \in 1 .. Len(E) /\ q[i] = E[i]) \/ q[i] = c
    BY <1>4, <2>2
  <2>4. \A i \in 1 .. Len(q) : q[i] \in Calls /\ Untouched(q[i])
    <3>1. \A i \in 1 .. Len(E) : Untouched(E[i])
      BY <2>1 DEF Undone
    <3>2. Untouched(c)
      BY <1>3, <1>7 DEF Untouched
    <3> QED BY <1>4, <2>3, <3>1, <3>2
  <2>5. In(E) \subseteq In(q) /\ c \in In(q)
    <3>1. Len(E) + 1 \in DOMAIN q
      BY <1>4, <2>2
    <3>2. \A i \in 1 .. Len(E) : i \in DOMAIN q
      BY <1>4, <2>2
    <3> HIDE DEF q
    <3> QED BY <1>4, <2>2, <3>1, <3>2 DEF In, q
  <2>6. Countdown(s)'
    <3>1. \A d \in Calls : StepOf(d) = s => called'[d] <= 1
      BY <1>1 DEF Undone, Countdown
    <3>2. \A d \in Calls : StepOf(d) = s /\ call'[d] # "succeeded" => called'[d] = 0
      BY <1>1 DEF Undone, Countdown
    <3>3. \A d \in Calls : /\ StepOf(d) = s /\ run' \in {"stepping", "rolling", "failed"}
                           /\ d \in Registered' /\ d \notin In(saga'.steps[s])
                           => called'[d] = 1
      BY <1>1, <1>5, <2>1, <2>5 DEF Undone, Countdown
    <3> QED BY <3>1, <3>2, <3>3 DEF Countdown
  <2>7. \A i \in 1 .. Len(saga'.steps[s]) : Untouched(saga.steps[s][i])'
    <3> HIDE DEF q
    <3>1. \A i \in 1 .. Len(q) : called'[q[i]] = 0 /\ q[i] \notin saga'.rolledBack
      BY <1>1, <1>2, <2>4 DEF Untouched
    <3>2. saga'.steps[s] = q
      BY <2>1 DEF q
    <3> QED BY <3>1, <3>2 DEF Untouched
  <2> QED BY <2>1, <2>6, <2>7 DEF Undone
<1> QED BY <1>6, <1>7

LEMMA HeadOrTail ==
  ASSUME NEW S, NEW q \in Seq(S), q # << >>, NEW x \in In(q), x # Head(q)
  PROVE  x \in In(Tail(q))
<1>1. PICK i \in 1 .. Len(q) : q[i] = x
  BY LenProperties DEF In
<1>2. /\ Len(q) \in Nat /\ Len(Tail(q)) = Len(q) - 1 /\ DOMAIN Tail(q) = 1 .. Len(q) - 1
      /\ \A k \in 1 .. Len(Tail(q)) : Tail(q)[k] = q[k + 1]
      /\ Head(q) = q[1]
  BY LenProperties, HeadTailProperties
<1>3. i # 1 /\ i - 1 \in 1 .. Len(q) - 1 /\ Tail(q)[i - 1] = x
  BY <1>1, <1>2
<1> QED BY <1>2, <1>3 DEF In

(* A run that rolls back crosses a step off when it is undone.              *)
LEMMA RollsToUndo ==
  ASSUME Types, ToUndo, run' = run, NEW w \in Walkers, walk[w].todo # << >>, NEW left, NEW rb,
         RollsOn(w, left, rb), run = "rolling" => w = Run
  PROVE  ToUndo'
<1> SUFFICES ASSUME run = "rolling", NEW s \in 1 .. Steps, saga'.steps[s] # << >>
             PROVE  s \in In(walk'[Run].todo)
  BY DEF ToUndo
<1>1. w = Run /\ walk[Run].todo \in Seq(1 .. Steps) /\ saga.steps \in [1 .. Steps -> Seq(Calls)]
  BY DEF Types, WalkType, SagaType
<1>2. CASE \E j : CallsNext(w, left, rb, j)
  BY <1>1, <1>2 DEF CallsNext, ToUndo
<1>3. CASE EndsStep(w, left, rb)
  <2>1. /\ walk'[Run].todo = Tail(walk[Run].todo)
        /\ saga'.steps = [saga.steps EXCEPT ![Head(walk[Run].todo)] = << >>]
    BY <1>1, <1>3 DEF EndsStep
  <2>2. s # Head(walk[Run].todo) /\ saga.steps[s] # << >>
    BY <1>1, <2>1
  <2>3. s \in In(walk[Run].todo)
    BY <2>2 DEF ToUndo
  <2> QED BY <1>1, <2>1, <2>2, <2>3, HeadOrTail
<1> QED BY <1>2, <1>3 DEF RollsOn


LEMMA RollbackUndone ==
  ASSUME UndoInv, Types', NEW w \in Walkers, Rollback(w)
  PROVE  ToUndo' /\ \A t \in (1 .. Steps) \ overlap' : Undone(t)'
<1> USE DEF UndoInv
<1>1. /\ walk[w].todo # << >> /\ UNCHANGED <<step, run, signal, orphans, effects, undoable>>
      /\ \E left \in Seq(Calls), rb \in SUBSET Calls :
            RollsOn(w, left, rb) /\ (Enters(w, left, rb) \/ Resumes(w, left, rb))
  BY RollbackMoves DEF Shape, Control
<1>2. PICK left \in Seq(Calls), rb \in SUBSET Calls :
        RollsOn(w, left, rb) /\ (Enters(w, left, rb) \/ Resumes(w, left, rb))
  BY <1>1
<1> DEFINE s == Head(walk[w].todo)
<1>3. /\ \A i \in 1 .. Len(left) : Kept(left[i], s)
      /\ \A c \in rb : call[c] = "succeeded"
  BY <1>1, <1>2, RollsKept
<1>4. /\ Registered' = Registered /\ run \in {"stepping", "rolling"}
      /\ \A c \in Calls : call'[c] = "succeeded" <=> call[c] = "succeeded"
      /\ w # Run => call[w] = "rolling" /\ w \in Calls
  BY <1>1, <1>2, <1>3, RollsShape
<1>5. s \in 1 .. Steps
  BY <1>1, EnterTypes DEF Shape
<1>6. \A c \in Calls : StepOf(c) # s => (c \in rb <=> c \in saga.rolledBack)
  <2>1. CASE Enters(w, left, rb)
    BY <2>1 DEF Enters
  <2>2. CASE Resumes(w, left, rb)
    <3> DEFINE last == Len(walk[w].left)
    <3>1. last \in DOMAIN walk[w].left
      BY <2>2, EndedTypes DEF Resumes, Shape
    <3>2. StepOf(walk[w].left[last]) = s
      BY <3>1 DEF Shape, Book, Kept
    <3> QED BY <2>2, <3>2 DEF Resumes
  <2> QED BY <1>2, <2>1, <2>2
<1>7. overlap \subseteq overlap'
  BY <1>2 DEF Enters, Resumes
<1>8. ASSUME NEW t \in (1 .. Steps) \ overlap' PROVE Undone(t)'
  <2>1. CASE t = s
    <3> HIDE DEF s, UndoInv
    <3>1. Ready(w, left, rb, s) /\ Undone(s)
      BY <1>1, <1>2, <1>8, <2>1, BeginsReady DEF s
    <3> QED BY <1>1, <1>2, <1>3, <1>4, <2>1, <3>1, RollsUndone
  <2>2. CASE t # s
    <3>1. Undone(t)
      BY <1>7
    <3>2. \A c \in Calls : StepOf(c) = t => (c \in rb <=> c \in saga.rolledBack)
      BY <1>6, <2>2
    <3>3. t \in 1 .. Steps
      OBVIOUS
    <3> HIDE DEF UndoInv
    <3> QED BY <1>1, <1>2, <1>3, <1>4, <1>5, <2>2, <3>1, <3>2, <3>3, OthersUndone
  <2> QED BY <2>1, <2>2
<1>9. ToUndo'
  <2>1. run = "rolling" => w = Run
    BY <1>4 DEF Shape, Flow, UnderWay, Settled
  <2> QED BY <1>1, <1>2, <2>1, RollsToUndo DEF Shape
<1> QED BY <1>8, <1>9

LEMMA UndoInit == Init => UndoInv
<1> SUFFICES ASSUME Init PROVE UndoInv
  OBVIOUS
<1>1. Shape
  BY ShapeInit
<1>2. \A s \in 1 .. Steps : saga.steps[s] = << >>
  BY DEF Init, EmptySaga
<1>3. \A s : Walking(s) = {}
  BY DEF Init, Idle, Walking
<1>4. \A s \in 1 .. Steps : Countdown(s)
  BY DEF Init, Countdown, Registered
<1> QED BY <1>1, <1>2, <1>3, <1>4 DEF UndoInv, ToUndo, Undone, Init

LEMMA UndoStep == UndoInv /\ [Next]_vars => UndoInv'
<1> SUFFICES ASSUME UndoInv, [Next]_vars
             PROVE  ToUndo' /\ \A s \in (1 .. Steps) \ overlap' : Undone(s)'
  BY ShapeStep DEF UndoInv
<1>0. Types' /\ Shape
  BY ShapeStep DEF UndoInv, Shape
<1> USE DEF UndoInv
<1>1. ASSUME NEW c \in Calls, CallStep(c)
      PROVE  ToUndo' /\ \A s \in (1 .. Steps) \ overlap' : Undone(s)'
  <2>1. /\ Registered' = Registered /\ UNCHANGED <<run, saga, called, overlap>>
        /\ \A w \in Walkers : walk[w].left # << >> \/ walk'[w].left # << >> => walk'[w] = walk[w]
        /\ \A d \in Calls : call'[d] = "succeeded" <=> call[d] = "succeeded"
        /\ walk'[Run] = walk[Run]
    BY <1>0, <1>1, CallStepShape
  <2>2. ASSUME NEW s \in (1 .. Steps) \ overlap' PROVE Undone(s)'
    BY <2>1, UndoneStays
  <2>3. ToUndo'
    BY <2>1 DEF ToUndo
  <2> QED BY <2>2, <2>3
<1>2. ASSUME NEW c \in Calls, Record(c)
      PROVE  ToUndo' /\ \A s \in (1 .. Steps) \ overlap' : Undone(s)'
  <2>1. overlap \subseteq overlap' /\ call[c] = "hooked" /\ run' = run
    BY <1>2 DEF Record, Unmoved
  <2>2. run = "stepping"
    BY <1>0, <2>1 DEF Shape, Flow, UnderWay, Settled
  <2>3. ASSUME NEW s \in (1 .. Steps) \ overlap' PROVE Undone(s)'
    BY <1>0, <1>2, <2>1, RecordUndone
  <2> QED BY <2>1, <2>2, <2>3 DEF ToUndo
<1>3. ASSUME NEW w \in Walkers, Rollback(w)
      PROVE  ToUndo' /\ \A s \in (1 .. Steps) \ overlap' : Undone(s)'
  BY <1>0, <1>3, RollbackUndone
<1>4. CASE StepTimeout \/ Abort \/ NextStep \/ UNCHANGED vars
  <2>1. UNCHANGED <<call, walk, saga, run, undoable, called, overlap>>
    BY <1>4 DEF StepTimeout, Abort, Fire, NextStep, vars
  <2>2. Registered' = Registered
    BY <2>1 DEF Registered
  <2>3. ASSUME NEW s \in (1 .. Steps) \ overlap' PROVE Undone(s)'
    BY <2>1, <2>2, UndoneStays
  <2> QED BY <2>1, <2>3 DEF ToUndo
<1>5. ASSUME NEW how \in {"succeeded", "failed", "cancelled"}, Leave(how),
             StepOver \/ run # "stepping", walk[Run].todo = << >>,
             how = "failed" => run = "rolling"
      PROVE  ToUndo' /\ \A s \in (1 .. Steps) \ overlap' : Undone(s)'
  <2>1. \A c \in Calls : ~UnderWay(c)
    BY <1>0, <1>5, NobodyUnderWay DEF Shape
  <2>2. overlap' = overlap /\ run' = how
    BY <1>5 DEF Leave
  <2>3. ASSUME NEW s \in (1 .. Steps) \ overlap' PROVE Undone(s)'
    BY <1>5, <2>1, <2>2, LeaveUndone
  <2> QED BY <2>2, <2>3 DEF ToUndo
<1>6. CASE Succeed \/ Cancel
  <2>1. run = "stepping" /\ StepOver /\ (Leave("succeeded") \/ Leave("cancelled"))
    BY <1>6 DEF Succeed, Cancel
  <2>2. walk[Run].todo = << >>
    BY <1>0, <2>1 DEF Shape, Control
  <2> QED BY <1>5, <2>1, <2>2
<1>7. CASE Failed
  BY <1>5, <1>7 DEF Failed, Idle
<1>8. CASE Fail
  <2>1. /\ StepOver /\ run = "stepping" /\ run' = "rolling"
        /\ walk' = [walk EXCEPT ![Run].todo = StepsDescending]
        /\ UNCHANGED <<call, saga, undoable, called, overlap>>
    BY <1>8 DEF Fail
  <2>2. (\A c \in Calls : ~UnderWay(c)) /\ walk[Run].todo = << >>
    BY <1>0, <2>1, NobodyUnderWay DEF Shape, Control
  <2>3. \A w \in Walkers : walk[w].left = << >>
    BY <1>0, <2>2, NobodyRolls
  <2>4. /\ \A w \in Walkers : walk'[w].left = << >>
        /\ walk'[Run].todo = StepsDescending
    BY <1>0, <2>1, <2>3, CallFacts DEF Shape, Types, WalkType
  <2>5. ToUndo'
    BY <2>1, <2>4, StepsListed DEF ToUndo
  <2>6. Registered' = Registered
    BY <2>1 DEF Registered
  <2>7. ASSUME NEW s \in (1 .. Steps) \ overlap' PROVE Undone(s)'
    BY <2>1, <2>3, <2>4, <2>6, UndoneStays
  <2> QED BY <2>5, <2>7
<1> QED
  BY <1>1, <1>2, <1>3, <1>4, <1>6, <1>7, <1>8
  DEF Next, Progress, CallStep, Advance

----------------------------------------------------------------------------
(* What the saga promises.                                                 *)

LEMMA Undoes == Spec => []UndoInv
<1>1. Init => UndoInv
  BY UndoInit
<1>2. UndoInv /\ [Next]_vars => UndoInv'
  BY UndoStep
<1> QED BY <1>1, <1>2, PTL DEF Spec

(* Types, for any number of steps and calls and any limit on them.          *)
THEOREM TypesHold == Spec => []TypeOK
<1>1. UndoInv => TypeOK
  BY TypesGive DEF UndoInv, Shape
<1> QED BY <1>1, Undoes, PTL

(* In a step that one process at a time has rolled back no compensation is  *)
(* called twice, and a failed run has called each one (saga.ts:51-78).      *)
THEOREM OnceEach == Spec => []UndoneExactlyOnce
<1>1. UndoInv => UndoneExactlyOnce
  <2> SUFFICES ASSUME UndoInv PROVE UndoneExactlyOnce
    OBVIOUS
  <2>1. \A c \in Calls : StepOf(c) \notin overlap => Countdown(StepOf(c))
    BY CallFacts DEF UndoInv, Undone
  <2>2. run = "failed" => \A s \in 1 .. Steps : In(saga.steps[s]) = {}
    <3>1. run = "failed" => saga = EmptySaga
      BY DEF UndoInv, Shape, Book
    <3>2. saga = EmptySaga => \A s \in 1 .. Steps : saga.steps[s] = << >>
      <4> SUFFICES ASSUME saga = EmptySaga, NEW s \in 1 .. Steps PROVE saga.steps[s] = << >>
        OBVIOUS
      <4> QED BY DEF EmptySaga
    <3>3. In(<< >>) = {}
      BY DEF In
    <3> QED BY <3>1, <3>2, <3>3
  <2>3. Registered \subseteq Calls
    BY DEF UndoInv, Shape, Types, Rest, Registered
  <2> QED BY <2>1, <2>2, <2>3, CallFacts DEF UndoneExactlyOnce, Countdown
<1> QED BY <1>1, Undoes, PTL


(* What a rollback calls: the last entry of its step that was still to be   *)
(* undone.                                                                  *)
LEMMA WhatIsCalled ==
  ASSUME UndoInv, NEW w \in Walkers, Rollback(w), NEW c \in Calls, called'[c] > called[c]
  PROVE  /\ w # Run => call[w] = "rolling" /\ StepOf(w) = StepOf(c) /\ w \in Calls
         /\ w = Run => run = "rolling"
         /\ StepOf(c) \notin overlap' =>
              \A i, j \in DOMAIN saga.steps[StepOf(c)] :
                /\ saga.steps[StepOf(c)][i] = c /\ i < j
                /\ saga.steps[StepOf(c)][j] \in saga.compensations
                => called[saga.steps[StepOf(c)][j]] > 0
<1> USE DEF UndoInv
<1>0. Types'
  BY TypesStep DEF Shape, Control, Next
<1>1. /\ walk[w].todo # << >> /\ UNCHANGED <<step, run, signal, orphans, effects, undoable>>
      /\ \E left \in Seq(Calls), rb \in SUBSET Calls :
            RollsOn(w, left, rb) /\ (Enters(w, left, rb) \/ Resumes(w, left, rb))
  BY RollbackMoves DEF Shape, Control
<1>2. PICK left \in Seq(Calls), rb \in SUBSET Calls :
        RollsOn(w, left, rb) /\ (Enters(w, left, rb) \/ Resumes(w, left, rb))
  BY <1>1
<1> DEFINE s == Head(walk[w].todo)
           E == saga.steps[s]
<1>3. /\ \A i \in 1 .. Len(left) : Kept(left[i], s)
      /\ \A d \in rb : call[d] = "succeeded"
  BY <1>1, <1>2, RollsKept
<1>4. /\ w # Run => call[w] = "rolling" /\ StepOf(w) = s /\ w \in Calls
      /\ w = Run => run = "rolling"
  BY <1>0, <1>1, <1>2, <1>3, RollsShape
<1>5. called \in [Calls -> Nat]
  BY DEF Shape, Types
<1>6. ~EndsStep(w, left, rb)
  BY <1>5 DEF EndsStep
<1>7. PICK k : CallsNext(w, left, rb, k)
  BY <1>2, <1>6 DEF RollsOn
<1>8. /\ k \in 1 .. Len(left) /\ c = left[k]
      /\ \A i \in 1 .. Len(left) : i > k => left[i] \notin saga.compensations \ rb
  BY <1>5, <1>7 DEF CallsNext
<1>9. StepOf(c) = s /\ s \in 1 .. Steps
  BY <1>1, <1>3, <1>8, EnterTypes DEF Kept, Shape
<1>10. ASSUME s \notin overlap', NEW i \in DOMAIN E, NEW j \in DOMAIN E,
              E[i] = c, i < j, E[j] \in saga.compensations
       PROVE  called[E[j]] > 0
  <2>1. Ready(w, left, rb, s)
    <3> HIDE DEF s, UndoInv
    <3> QED BY <1>1, <1>2, <1>10, BeginsReady DEF s
  <2>2. /\ Len(left) \in Nat /\ Len(E) \in Nat /\ DOMAIN E = 1 .. Len(E)
        /\ \A m, n \in DOMAIN E : E[m] = E[n] => m = n
    BY <1>9, OnLists, LenProperties DEF Shape, Book
  <2>3. /\ Len(left) <= Len(E)
        /\ \A m \in 1 .. Len(left) : left[m] = E[m] /\ left[m] \notin rb
        /\ \A m \in 1 .. Len(E) : m > Len(left) /\ E[m] \in saga.compensations => called[E[m]] = 1
    BY <2>1 DEF Ready
  <2> HIDE DEF E
  <2>4. i = k
    BY <1>8, <1>10, <2>2, <2>3
  <2>5. CASE j \in 1 .. Len(left)
    BY <1>8, <1>10, <2>2, <2>3, <2>4, <2>5
  <2>6. CASE j > Len(left)
    <3>1. called[E[j]] = 1
      BY <1>10, <2>2, <2>3, <2>6
    <3> QED BY <3>1
  <2>7. j \in 1 .. Len(left) \/ j > Len(left)
    BY <1>10, <2>2
  <2> QED BY <2>5, <2>6, <2>7
<1> QED BY <1>4, <1>9, <1>10

(* Nothing but a rollback calls a compensation.                             *)
LEMMA OnlyRollbackCalls ==
  ASSUME [Next]_vars, ~(\E w \in Walkers : Rollback(w))
  PROVE  called' = called
BY DEF Next, Progress, BeginCall, Refuse, Execute, Abandon, Record, ErrorHandled, ToolReturns,
       ToolFails, OrphanEnds, Advance, NextStep, Succeed, Cancel, Fail, Failed, Leave,
       StepTimeout, Abort, Fire, vars

(* The entries of a step that no two rollbacks walk at a time are undone    *)
(* from the last one to the first (saga.ts:54-69).                          *)
THEOREM InReverse == Spec => UndoneInReverse
<1>1. UndoInv /\ [Next]_vars =>
        [\A w \in Walkers, c \in Calls :
           /\ called'[c] > called[c]
           /\ StepOf(c) \notin overlap'
           => LET entries == saga.steps[StepOf(c)]
              IN  \A i, j \in DOMAIN entries :
                    entries[i] = c /\ i < j /\ entries[j] \in saga.compensations
                      => called[entries[j]] > 0]_vars
  <2> SUFFICES ASSUME UndoInv, [Next]_vars, NEW c \in Calls, called'[c] > called[c],
                      StepOf(c) \notin overlap'
               PROVE  \A i, j \in DOMAIN saga.steps[StepOf(c)] :
                        /\ saga.steps[StepOf(c)][i] = c /\ i < j
                        /\ saga.steps[StepOf(c)][j] \in saga.compensations
                        => called[saga.steps[StepOf(c)][j]] > 0
    OBVIOUS
  <2>1. called[c] \in Nat
    BY DEF UndoInv, Shape, Types
  <2>2. PICK w \in Walkers : Rollback(w)
    BY <2>1, OnlyRollbackCalls
  <2> QED BY <2>2, WhatIsCalled
<1> QED BY <1>1, Undoes, PTL DEF Spec, UndoneInReverse

(* A compensation is called for a failed call of its own step, or because   *)
(* the run failed (step-executor.ts:566, run-loop.ts:1628).                 *)
THEOREM ForAReason == Spec => []UndoneForAReason
<1>1. Init => UndoneForAReason
  BY DEF Init, UndoneForAReason
<1>2. UndoInv /\ UndoneForAReason /\ [Next]_vars => UndoneForAReason'
  <2> SUFFICES ASSUME UndoInv, UndoneForAReason, [Next]_vars, NEW c \in Calls, called'[c] > 0
               PROVE  \/ run' \in {"rolling", "failed"}
                      \/ \E d \in Calls : /\ StepOf(d) = StepOf(c)
                                           /\ call'[d] \in {"rolling", "failed"}
    BY DEF UndoneForAReason
  <2>1. Shape /\ Types' /\ called[c] \in Nat
    BY ShapeStep DEF UndoInv, Shape, Types
  <2>2. ASSUME NEW w \in Walkers, Rollback(w)
        PROVE  /\ \A d \in Calls : call[d] \in {"rolling", "failed"} =>
                                   call'[d] \in {"rolling", "failed"}
               /\ run' = run
    <3>1. /\ walk[w].todo # << >> /\ UNCHANGED <<step, run, signal, orphans, effects, undoable>>
          /\ \E left \in Seq(Calls), rb \in SUBSET Calls :
                RollsOn(w, left, rb) /\ (Enters(w, left, rb) \/ Resumes(w, left, rb))
      BY <2>1, <2>2, RollbackMoves DEF Shape, Control
    <3>2. PICK left \in Seq(Calls), rb \in SUBSET Calls :
            RollsOn(w, left, rb) /\ (Enters(w, left, rb) \/ Resumes(w, left, rb))
      BY <3>1
    <3>3. /\ \A i \in 1 .. Len(left) : Kept(left[i], Head(walk[w].todo))
          /\ \A d \in rb : call[d] = "succeeded"
      BY <2>1, <3>1, <3>2, RollsKept
    <3> QED BY <2>1, <3>1, <3>2, <3>3, RollsShape
  <2> DEFINE
        Stays == /\ \A d \in Calls : call[d] \in {"rolling", "failed"} =>
                                        call'[d] \in {"rolling", "failed"}
                 /\ run \in {"rolling", "failed"} => run' \in {"rolling", "failed"}
  <2>3. Stays
    <3>1. ASSUME NEW d \in Calls, CallStep(d) PROVE Stays
      <4>1. /\ run' = run
            /\ \A x \in Calls : call[x] \in {"rolling", "failed"} => call'[x] = call[x]
        BY <2>1, <3>1, CallStepShape
      <4> QED BY <4>1
    <3>2. ASSUME NEW d \in Calls, Record(d) PROVE Stays
      BY <2>1, <3>2 DEF Record, Unmoved, Shape, Types
    <3>3. CASE Advance \/ StepTimeout \/ Abort \/ UNCHANGED vars
      BY <3>3 DEF Advance, NextStep, Succeed, Cancel, Fail, Failed, Leave, StepTimeout, Abort,
                  Fire, vars
    <3> QED BY <2>2, <3>1, <3>2, <3>3 DEF Next, Progress, CallStep
  <2>4. CASE called[c] > 0
    BY <2>3, <2>4 DEF UndoneForAReason
  <2>5. CASE called'[c] > called[c]
    <3>1. PICK w \in Walkers : Rollback(w)
      BY <2>1, <2>5, OnlyRollbackCalls
    <3>2. /\ w # Run => call[w] = "rolling" /\ StepOf(w) = StepOf(c) /\ w \in Calls
          /\ w = Run => run = "rolling"
      BY <2>5, <3>1, WhatIsCalled
    <3> QED BY <2>3, <3>2
  <2> QED BY <2>1, <2>4, <2>5
<1> QED BY <1>1, <1>2, Undoes, PTL DEF Spec

(* Every compensation that is owed is called once and no other is.          *)
THEOREM AsOwed == Spec => []UndoneAsOwed
BY OnceEach, ForAReason, PTL DEF UndoneAsOwed

----------------------------------------------------------------------------
(* runConcurrent.                                                          *)

(* How far next() gets: at least one task further, and never past the end.  *)
LEMMA BegunFacts ==
  ASSUME NEW b \in 0 .. Count
  PROVE  /\ BegunAfter(b) \in b .. Count
         /\ b < Count => BegunAfter(b) > b
         /\ ~ Races(b) => BegunAfter(b) = Count
         /\ b >= Limit /\ b < Count => BegunAfter(b) = b + 1
         /\ b = 0 => BegunAfter(b) <= PoolWidth
         /\ Races(b) => BegunAfter(b) >= PoolWidth
BY CountAssumption, LimitAssumption DEF BegunAfter, Races, PoolWidth

PoolInv == PoolTypes /\ IndexInv

LEMMA PoolInitInv == PoolInit => PoolInv
<1> SUFFICES ASSUME PoolInit PROVE PoolInv
    OBVIOUS
<1> 0 \in 0 .. Count /\ idx \in 0 .. Count /\ (~ Races(0) => idx = Count)
    BY CountAssumption, BegunFacts DEF PoolInit
<1>1. \A i \in Tasks : promise[i] = IF i <= idx THEN "executing" ELSE "none"
    BY DEF PoolInit, Begin, Tasks
<1>2. promise \in [Tasks -> {"none", "executing"}]
    BY DEF PoolInit, Begin
<1>3. PoolTypes
    BY <1>2, CountAssumption DEF PoolInit, PoolTypes
<1>4. IndexInv
  <2>1. \A i \in Tasks : promise[i] = "none" <=> idx < i
      BY <1>1, CountAssumption DEF Tasks
  <2>2. Races(0) => idx > 0
      BY BegunFacts, CountAssumption DEF PoolInit, Races
  <2>3. \A i \in Tasks : promise[i] # "resolved"
      BY <1>1
  <2>4. over = 0 => idx = Count
      BY <2>2 DEF PoolInit
  <2>5. await = "first"
      BY DEF PoolInit
  <2> QED
      BY <2>1, <2>3, <2>4, <2>5 DEF IndexInv
<1> QED
    BY <1>3, <1>4 DEF PoolInv

LEMMA TaskEndsInv ==
  ASSUME PoolInv, NEW i \in Tasks, TaskEnds(i)
  PROVE  PoolInv'
<1> idx \in 0 .. Count /\ idx' \in idx .. Count /\ i <= idx
    BY BegunFacts, CountAssumption DEF PoolInv, PoolTypes, IndexInv, TaskEnds, Tasks
<1>1. /\ ~ Races(idx) => idx' = Count
      /\ idx = Count => ~ Races(idx) /\ idx' = Count
    BY BegunFacts, CountAssumption DEF TaskEnds, Races, BegunAfter
<1>2. \A j \in Tasks : promise'[j] = IF j = i THEN (IF Races(idx) THEN "racing" ELSE "resolved")
                                     ELSE IF idx < j /\ j <= idx' THEN "executing"
                                     ELSE promise[j]
    BY DEF TaskEnds, Begin, PoolInv, PoolTypes
<1>3. PoolTypes'
  <2>1. promise' \in [Tasks -> {"none", "executing", "racing", "resolved"}]
      BY DEF TaskEnds, Begin, PoolInv, PoolTypes
  <2>2. raced' \in [Tasks -> 0 .. Count]
      BY CountAssumption DEF TaskEnds, PoolInv, PoolTypes
  <2> QED
      BY <2>1, <2>2, CountAssumption DEF TaskEnds, PoolInv, PoolTypes
<1>4. IndexInv'
  <2>1. \A j \in Tasks : promise'[j] = "none" <=> idx' < j
      BY <1>2, CountAssumption DEF PoolInv, IndexInv, Tasks
  <2>2. (\E j \in Tasks : promise'[j] = "resolved") => idx' = Count
      BY <1>1, <1>2 DEF PoolInv, IndexInv
  <2>3. await' # "returned"
      BY DEF TaskEnds, PoolInv, IndexInv
  <2> QED
      BY <1>1, <2>1, <2>2, <2>3 DEF TaskEnds, PoolInv, IndexInv
<1> QED
    BY <1>3, <1>4 DEF PoolInv

LEMMA RaceWonInv ==
  ASSUME PoolInv, NEW i \in Tasks, RaceWon(i)
  PROVE  PoolInv'
<1>1. idx = Count
    BY DEF RaceWon, SomeResolved, PoolInv, IndexInv
<1>2. PoolTypes'
    BY DEF RaceWon, PoolInv, PoolTypes
<1>3. IndexInv'
    BY <1>1 DEF RaceWon, PoolInv, PoolTypes, IndexInv
<1> QED
    BY <1>2, <1>3 DEF PoolInv

LEMMA PoolNextInv == PoolInv /\ [PoolNext]_poolVars => PoolInv'
<1> SUFFICES ASSUME PoolInv, [PoolNext]_poolVars PROVE PoolInv'
    OBVIOUS
<1>1. ASSUME NEW i \in Tasks, TaskEnds(i) PROVE PoolInv'
    BY <1>1, TaskEndsInv
<1>2. ASSUME NEW i \in Tasks, RaceWon(i) PROVE PoolInv'
    BY <1>2, RaceWonInv
<1>3. ASSUME FirstSettled PROVE PoolInv'
  <2>1. idx = Count
      BY <1>3 DEF FirstSettled, SomeResolved, PoolInv, IndexInv
  <2> QED
      BY <1>3, <2>1 DEF FirstSettled, PoolInv, PoolTypes, IndexInv
<1>4. ASSUME AllSettled PROVE PoolInv'
  <2>1. \A j \in Tasks : promise[j] = "resolved"
      BY <1>4, CountAssumption DEF AllSettled, PoolInv, IndexInv, Tasks
  <2> QED
      BY <1>4, <2>1 DEF AllSettled, PoolInv, PoolTypes, IndexInv
<1>5. ASSUME UNCHANGED poolVars PROVE PoolInv'
    BY <1>5 DEF poolVars, PoolInv, PoolTypes, IndexInv
<1> QED
    BY <1>1, <1>2, <1>3, <1>4, <1>5 DEF PoolNext

(* runConcurrent keeps its types, whatever the batch.                       *)
THEOREM PoolTypesHold == PoolSpec => []PoolTypes
<1>1. PoolInv => PoolTypes
    BY DEF PoolInv
<1> QED
    BY <1>1, PoolInitInv, PoolNextInv, PTL DEF PoolSpec

LEMMA PoolInvariant == PoolSpec => []PoolInv
BY PoolInitInv, PoolNextInv, PTL DEF PoolSpec

(* No result is missing when runConcurrent returns.                         *)
THEOREM AllResults == PoolSpec => []ReturnsAllResults
<1>1. PoolInv => ReturnsAllResults
    BY DEF PoolInv, IndexInv, ReturnsAllResults
<1> QED
    BY <1>1, PoolInvariant, PTL
----------------------------------------------------------------------------
LEMMA FiniteTasks ==
  /\ IsFiniteSet(Tasks)
  /\ \A S \in SUBSET Tasks : IsFiniteSet(S) /\ Cardinality(S) \in Nat
<1>1. IsFiniteSet(Tasks)
    BY FS_Interval, CountAssumption DEF Tasks
<1> QED
    BY <1>1, FS_Subset, FS_CardinalityType

LEMMA InitWidth == PoolInit => WidthInv
<1> SUFFICES ASSUME PoolInit PROVE WidthInv
    OBVIOUS
<1>1. idx \in 0 .. Count /\ idx <= PoolWidth /\ (idx < Count => idx >= PoolWidth)
    BY BegunFacts, CountAssumption DEF PoolInit, Races
<1>2. Executing = 1 .. idx
    BY <1>1, CountAssumption DEF PoolInit, Begin, Executing, Tasks
<1>3. Cardinality(1 .. idx) = idx
    BY <1>1, FS_Interval, CountAssumption
<1> QED
    BY <1>1, <1>2, <1>3 DEF WidthInv

LEMMA TaskEndsWidth ==
  ASSUME PoolInv, WidthInv, NEW i \in Tasks, TaskEnds(i)
  PROVE  WidthInv'
<1> idx \in 0 .. Count /\ PoolWidth \in Nat /\ Limit <= PoolWidth /\ Executing \subseteq Tasks
    BY LimitAssumption DEF PoolInv, PoolTypes, PoolWidth, Executing
<1>1. i \in Executing /\ i <= idx
    BY CountAssumption DEF TaskEnds, Executing, PoolInv, PoolTypes, IndexInv, Tasks
<1>2. /\ IsFiniteSet(Executing \ {i})
      /\ Cardinality(Executing \ {i}) \in Nat
      /\ Cardinality(Executing \ {i}) <= PoolWidth - 1
    BY <1>1, FiniteTasks, FS_RemoveElement DEF WidthInv
<1>3. CASE idx = Count
  <2>1. idx' = Count
      BY <1>3 DEF TaskEnds, BegunAfter
  <2>2. Executing' = Executing \ {i}
      BY <1>1, <1>3, <2>1, CountAssumption DEF TaskEnds, Begin, Executing, PoolInv, PoolTypes, Tasks
  <2> QED
      BY <1>2, <2>1, <2>2, CountAssumption DEF WidthInv
<1>4. CASE idx < Count
  <2>1. idx' = idx + 1 /\ idx' \in Tasks
      BY <1>4, BegunFacts, CountAssumption, LimitAssumption DEF TaskEnds, WidthInv, Tasks
  <2>2. Executing' = (Executing \ {i}) \cup {idx + 1}
    <3>1. \A j \in Tasks : promise'[j] = IF j = i
                                          THEN (IF Races(idx) THEN "racing" ELSE "resolved")
                                          ELSE IF j = idx + 1 THEN "executing" ELSE promise[j]
        BY <2>1, CountAssumption DEF TaskEnds, Begin, PoolInv, PoolTypes, Tasks
    <3>2. i # idx + 1
        BY <1>1, CountAssumption DEF Tasks
    <3>3. \A j \in Tasks : promise'[j] = "executing" <=> j = idx + 1 \/ (j # i /\ promise[j] = "executing")
        BY <3>1, <3>2
    <3> QED
        BY <2>1, <3>3 DEF Executing
  <2>3. Cardinality(Executing') <= PoolWidth
    <3> DEFINE S == Executing \ {i}
               n == Cardinality(S)
    <3>1. IsFiniteSet(S) /\ n \in Nat /\ n <= PoolWidth - 1
        BY <1>2
    <3>2. Executing' = S \cup {idx + 1}
        BY <2>2
    <3> HIDE DEF S
    <3>3. Cardinality(S \cup {idx + 1}) \in {n, n + 1}
        BY <3>1, FS_AddElement
    <3> HIDE DEF n
    <3> QED
        BY <3>1, <3>2, <3>3
  <2> QED
      BY <1>4, <2>1, <2>3, CountAssumption DEF WidthInv
<1> QED
    BY <1>3, <1>4, CountAssumption

LEMMA FewerExecuting ==
  ASSUME PoolInv, WidthInv, Executing' \subseteq Executing, idx' = idx
  PROVE  WidthInv'
<1>1. /\ IsFiniteSet(Executing)
      /\ Cardinality(Executing) \in Nat
      /\ PoolWidth \in Nat
    BY FiniteTasks, LimitAssumption DEF Executing, PoolWidth
<1>2. Cardinality(Executing') <= Cardinality(Executing) /\ Cardinality(Executing') \in Nat
    BY <1>1, FS_Subset, FS_CardinalityType
<1> QED
    BY <1>1, <1>2 DEF WidthInv, PoolWidth

LEMMA NextWidth == PoolInv /\ WidthInv /\ [PoolNext]_poolVars => WidthInv'
<1> SUFFICES ASSUME PoolInv, WidthInv, [PoolNext]_poolVars PROVE WidthInv'
    OBVIOUS
<1>1. ASSUME NEW i \in Tasks, TaskEnds(i) PROVE WidthInv'
    BY <1>1, TaskEndsWidth
<1>2. ASSUME NEW i \in Tasks, RaceWon(i) PROVE WidthInv'
    BY <1>2, FewerExecuting DEF RaceWon, Executing, PoolInv, PoolTypes
<1>3. ASSUME FirstSettled \/ AllSettled \/ UNCHANGED poolVars PROVE WidthInv'
    BY <1>3, FewerExecuting DEF FirstSettled, AllSettled, poolVars, Executing
<1> QED
    BY <1>1, <1>2, <1>3 DEF PoolNext

----------------------------------------------------------------------------
(* The refinement of TaskPool.                                             *)
Ended == {i \in Tasks : promise[i] \in {"racing", "resolved"}}

LEMMA TasksUnderWay == PoolInv => (1 .. idx) \ Ended = Executing
BY CountAssumption DEF PoolInv, PoolTypes, IndexInv, Ended, Executing, Tasks

LEMMA InitPool == PoolInit => Pool!Init
<1> SUFFICES ASSUME PoolInit PROVE Pool!Init
    OBVIOUS
<1>1. idx \in 0 .. Count /\ Ended = {}
    BY PoolInitInv DEF PoolInv, PoolTypes, PoolInit, Begin, Ended
<1>2. Cardinality((1 .. idx) \ {}) <= PoolWidth
    BY <1>1, PoolInitInv, InitWidth, TasksUnderWay DEF WidthInv
<1>3. (await = "returned") = FALSE
    BY DEF PoolInit
<1>4. Pool!Within(idx, {})
    BY <1>2 DEF Pool!Within, Cardinality, Pool!Cardinality
<1> QED
    BY <1>1, <1>3, <1>4, Zenon DEF Pool!Init, Ended

LEMMA TaskEndsPool ==
  ASSUME PoolInv, WidthInv, NEW i \in Tasks, TaskEnds(i)
  PROVE  Pool!End(i)
<1>1. i \in (1 .. idx) \ Ended
    BY TasksUnderWay DEF TaskEnds, Executing
<1>2. idx' \in idx .. Count
    BY BegunFacts DEF TaskEnds, PoolInv, PoolTypes
<1>3. Ended' = Ended \cup {i}
    BY <1>1, <1>2, CountAssumption DEF TaskEnds, Begin, Ended, PoolInv, PoolTypes, IndexInv, Tasks
<1>4. Cardinality((1 .. idx') \ Ended') <= PoolWidth
  <2>1. PoolInv' /\ WidthInv'
      BY TaskEndsInv, TaskEndsWidth
  <2>2. (1 .. idx') \ Ended' = Executing'
      BY <2>1, CountAssumption, SMTT(30) DEF PoolInv, PoolTypes, IndexInv, Ended, Executing, Tasks
  <2> QED
      BY <2>1, <2>2 DEF WidthInv, PoolWidth
<1>5. (await = "returned")' = (await = "returned")
    BY DEF TaskEnds
<1>6. Pool!Within(idx', Ended')
    BY <1>4 DEF Pool!Within, PoolWidth, Cardinality, Pool!Cardinality
<1> QED
    BY <1>1, <1>2, <1>3, <1>5, <1>6, Zenon DEF Pool!End, Ended

LEMMA NextPool == PoolInv /\ WidthInv /\ [PoolNext]_poolVars => [Pool!Next]_(Pool!vars)
<1> SUFFICES ASSUME PoolInv, WidthInv, [PoolNext]_poolVars PROVE [Pool!Next]_(Pool!vars)
    OBVIOUS
<1>1. ASSUME NEW i \in Tasks, TaskEnds(i) PROVE Pool!Next
    BY <1>1, TaskEndsPool DEF Pool!Next, Tasks
<1>2. ASSUME NEW i \in Tasks, RaceWon(i) PROVE UNCHANGED Pool!vars
    BY <1>2 DEF RaceWon, Pool!vars, PoolInv, PoolTypes
<1>3. ASSUME FirstSettled PROVE UNCHANGED Pool!vars
    BY <1>3 DEF FirstSettled, Pool!vars
<1>4. ASSUME AllSettled PROVE Pool!Next
  <2>1. Ended = 1 .. Count
      BY <1>4, CountAssumption DEF AllSettled, PoolInv, IndexInv, Ended, Tasks
  <2> QED
      BY <1>4, <2>1 DEF AllSettled, Pool!Next, Pool!Return, Ended
<1>5. ASSUME UNCHANGED poolVars PROVE UNCHANGED Pool!vars
    BY <1>5 DEF poolVars, Pool!vars
<1> QED
    BY <1>1, <1>2, <1>3, <1>4, <1>5 DEF PoolNext

(* runConcurrent is a pool of the configured width.                         *)
THEOREM RunConcurrentIsAPool == PoolSpec => ImplementsPool
<1>1. PoolInit /\ [][PoolNext]_poolVars => [](PoolInv /\ WidthInv)
    BY PoolInitInv, InitWidth, PoolNextInv, NextWidth, PTL
<1> QED
    BY <1>1, InitPool, NextPool, PTL DEF PoolSpec, ImplementsPool, Pool!Spec
=============================================================================
