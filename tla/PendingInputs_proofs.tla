------------------------ MODULE PendingInputs_proofs ------------------------
(***************************************************************************)
(* The order of the rows, what becomes of an accepted input, and the order *)
(* of the transcripts, for any number of inputs, steps, handoffs and       *)
(* faults.                                                                 *)
(***************************************************************************)
EXTENDS PendingInputs, FiniteSetTheorems, WellFoundedInduction, TLAPS

(* What the argument needs to know of the types.                            *)
SeqTypes ==
  /\ writes \in Seq(Inputs) /\ sent \in 0 .. MaxInputs
  /\ alloc \in Nat /\ nextSeq \in Nat /\ seen.max \in Nat
  /\ rowSeq \in [Inputs -> Nat]

SeqInv == SeqTypes /\ WritesInv /\ AllocInv /\ SeqsFollowAdmission

----------------------------------------------------------------------------
(* Induction up to n, over a set of numbers.                                *)
LEMMA UpTo ==
  ASSUME NEW n \in Nat, NEW G,
         0 \in G, \A k \in Nat : k < n /\ k \in G => k + 1 \in G
  PROVE  n \in G
<1> DEFINE Bad == {k \in 0 .. n : k \notin G}
<1>1. SUFFICES ASSUME n \notin G PROVE FALSE
  OBVIOUS
<1>2. PICK k \in Bad : \A j \in Bad : ~ (<<j, k>> \in OpToRel(<, Nat))
  <2>1. Bad \subseteq Nat /\ n \in Bad
    BY <1>1
  <2> HIDE DEF Bad
  <2> QED BY <2>1, NatLessThanWellFounded, WFMin
<1>3. k \in Nat /\ k # 0 /\ k <= n /\ k \notin G
  OBVIOUS
<1>4. k - 1 \in 0 .. n /\ k - 1 < n /\ (k - 1) + 1 = k
  BY <1>3
<1>5. k - 1 \in Bad
  BY <1>3, <1>4
<1>6. <<k - 1, k>> \in OpToRel(<, Nat)
  BY <1>3, <1>4 DEF OpToRel
<1> QED BY <1>2, <1>5, <1>6

(* Among finitely many numbers one is the largest.                          *)
LEMMA LargestExists ==
  ASSUME NEW n \in Nat, NEW f \in [1 .. n -> Nat]
  PROVE  \E x \in {0} \cup {f[i] : i \in 1 .. n} :
           \A y \in {0} \cup {f[i] : i \in 1 .. n} : x >= y
<1> DEFINE First(k) == {0} \cup {f[i] : i \in 1 .. k}
           Has(k) == \E x \in First(k) : \A y \in First(k) : x >= y
<1>1. Has(0)
  OBVIOUS
<1>2. ASSUME NEW k \in Nat, k < n, Has(k)
      PROVE  Has(k + 1)
  <2>1. PICK x \in First(k) : \A y \in First(k) : x >= y
    BY <1>2
  <2>2. First(k + 1) = First(k) \cup {f[k + 1]}
    BY <1>2
  <2>3. x \in Nat /\ f[k + 1] \in Nat /\ First(k) \subseteq Nat
    BY <1>2
  <2>4. CASE f[k + 1] <= x
    BY <2>1, <2>2, <2>3, <2>4
  <2>5. CASE ~ (f[k + 1] <= x)
    <3>1. \A y \in First(k + 1) : f[k + 1] >= y
      BY <2>1, <2>2, <2>3, <2>5
    <3> QED BY <3>1, <2>2
  <2> QED BY <2>4, <2>5
<1>3. Has(n)
  <2> HIDE DEF Has
  <2> DEFINE G == {k \in Nat : Has(k)}
  <2>1. 0 \in G /\ \A k \in Nat : k < n /\ k \in G => k + 1 \in G
    BY <1>1, <1>2
  <2> HIDE DEF G
  <2>2. n \in G
    BY <2>1, UpTo
  <2> QED BY <2>2 DEF G
<1> QED BY <1>3

LEMMA MaxSeqIsAbove ==
  ASSUME rowSeq \in [Inputs -> Nat]
  PROVE  MaxSeq \in Nat /\ Above(MaxSeq + 1)
<1> DEFINE S == {0} \cup {rowSeq[i] : i \in Inputs}
<1>1. \E x \in S : \A y \in S : x >= y
  BY LargestExists, InputsAssumption DEF Inputs
<1>2. MaxSeq \in S /\ \A y \in S : MaxSeq >= y
  <2> HIDE DEF S
  <2>1. MaxSeq = CHOOSE x \in S : \A y \in S : x >= y
    BY DEF MaxSeq, Max, S
  <2> QED BY <1>1, <2>1
<1>3. S \subseteq Nat /\ \A i \in Inputs : rowSeq[i] \in S
  OBVIOUS
<1> QED BY <1>2, <1>3 DEF Above

----------------------------------------------------------------------------
(* A set of inputs can be listed in order: one input after the other, the   *)
(* largest so far comes last.                                               *)
Lists(s, T) == /\ s \in [1 .. Cardinality(T) -> T] /\ ToSet(s) = T
               /\ \A k, l \in DOMAIN s : k < l => s[k] < s[l]

LEMMA ListExists ==
  ASSUME NEW S \in SUBSET Inputs
  PROVE  \E s : Lists(s, S)
<1> DEFINE T(m) == S \cap 1 .. m
           Has(m) == \E s : Lists(s, T(m))
<1>1. S \subseteq Nat /\ S \subseteq 1 .. MaxInputs /\ MaxInputs \in Nat
  BY InputsAssumption DEF Inputs
<1>2. ASSUME NEW m \in Nat PROVE IsFiniteSet(T(m)) /\ Cardinality(T(m)) \in Nat
  <2>1. IsFiniteSet(1 .. m)
    BY FS_Interval
  <2>2. IsFiniteSet(T(m))
    BY <2>1, FS_Subset
  <2> QED BY <2>2, FS_CardinalityType
<1>3. Has(0)
  <2>1. T(0) = {}
    OBVIOUS
  <2>2. Cardinality(T(0)) = 0
    BY <2>1, FS_EmptySet
  <2>3. Lists(<< >>, T(0))
    BY <2>1, <2>2 DEF Lists, ToSet
  <2> QED BY <2>3
<1>4. ASSUME NEW m \in Nat, m < MaxInputs, Has(m)
      PROVE  Has(m + 1)
  <2>1. PICK s : Lists(s, T(m))
    BY <1>4
  <2>2. CASE m + 1 \notin S
    <3>1. T(m + 1) = T(m)
      BY <1>1, <2>2
    <3> QED BY <2>1, <3>1
  <2>3. CASE m + 1 \in S
    <3> DEFINE c == Cardinality(T(m))
               t == [k \in 1 .. c + 1 |-> IF k = c + 1 THEN m + 1 ELSE s[k]]
    <3>1. T(m + 1) = T(m) \cup {m + 1} /\ m + 1 \notin T(m) /\ \A i \in T(m) : i < m + 1
      BY <1>1, <2>3
    <3>2. c \in Nat /\ Cardinality(T(m + 1)) = c + 1
      BY <1>2, <3>1, FS_AddElement
    <3> HIDE DEF T, c
    <3>3. /\ s \in [1 .. c -> T(m)] /\ DOMAIN s = 1 .. c /\ ToSet(s) = T(m)
          /\ \A k, l \in 1 .. c : k < l => s[k] < s[l]
      BY <2>1 DEF Lists, c
    <3>4. t \in [1 .. c + 1 -> T(m + 1)] /\ DOMAIN t = 1 .. c + 1
      BY <3>1, <3>2, <3>3
    <3>5. ToSet(t) = T(m + 1)
      <4>1. \A i \in T(m) : \E k \in 1 .. c : s[k] = i
        BY <3>3 DEF ToSet
      <4>2. \A i \in T(m) : \E k \in DOMAIN t : t[k] = i
        BY <4>1, <3>2, <3>4
      <4>3. c + 1 \in DOMAIN t /\ t[c + 1] = m + 1
        BY <3>2, <3>4
      <4>4. \A k \in DOMAIN t : t[k] \in T(m + 1)
        BY <3>4
      <4> HIDE DEF t
      <4> QED BY <3>1, <4>2, <4>3, <4>4 DEF ToSet
    <3>6. \A k, l \in DOMAIN t : k < l => t[k] < t[l]
      <4>1. SUFFICES ASSUME NEW k \in 1 .. c + 1, NEW l \in 1 .. c + 1, k < l
                     PROVE  t[k] < t[l]
        BY <3>4
      <4>2. k \in 1 .. c /\ t[k] = s[k] /\ s[k] \in T(m)
        BY <3>2, <3>3, <4>1
      <4>3. CASE l = c + 1
        BY <3>1, <4>2, <4>3
      <4>4. CASE l # c + 1
        <5>1. l \in 1 .. c /\ t[l] = s[l]
          BY <3>2, <4>1, <4>4
        <5> QED BY <3>3, <4>1, <4>2, <5>1
      <4> QED BY <4>3, <4>4
    <3> HIDE DEF t
    <3>7. Lists(t, T(m + 1))
      BY <3>2, <3>4, <3>5, <3>6 DEF Lists
    <3> QED BY <3>7
  <2> QED BY <2>2, <2>3
<1>5. Has(MaxInputs)
  <2> HIDE DEF Has
  <2> DEFINE G == {m \in Nat : Has(m)}
  <2>1. 0 \in G /\ \A m \in Nat : m < MaxInputs /\ m \in G => m + 1 \in G
    BY <1>3, <1>4
  <2> HIDE DEF G
  <2>2. MaxInputs \in G
    BY <1>1, <2>1, UpTo
  <2> QED BY <2>2 DEF G
<1>6. T(MaxInputs) = S
  BY <1>1
<1> QED BY <1>5, <1>6

(* What a hydration queues: each row once, in the order of admission.       *)
LEMMA BySeqLists ==
  ASSUME rowSeq \in [Inputs -> Nat], SeqsFollowAdmission,
         NEW S \in SUBSET Inputs, \A i \in S : rowSeq[i] # 0
  PROVE  /\ BySeq(S) \in Seq(Inputs) /\ ToSet(BySeq(S)) = S
         /\ \A k, l \in DOMAIN BySeq(S) : k < l => BySeq(S)[k] < BySeq(S)[l]
<1> DEFINE Sorts(s) == /\ ToSet(s) = S
                       /\ \A k, l \in DOMAIN s : k < l => rowSeq[s[k]] < rowSeq[s[l]]
<1>0. \A i, j \in S : rowSeq[i] < rowSeq[j] => i < j
  <2>1. SUFFICES ASSUME NEW i \in S, NEW j \in S, rowSeq[i] < rowSeq[j]
                 PROVE  i < j
    OBVIOUS
  <2>2. i \in Nat /\ j \in Nat /\ rowSeq[i] \in Nat /\ rowSeq[j] \in Nat
    BY DEF Inputs
  <2> QED BY <2>1, <2>2 DEF SeqsFollowAdmission
<1>1. PICK s : Lists(s, S)
  BY ListExists
<1>2. s \in [1 .. Cardinality(S) -> S] /\ Sorts(s)
  BY <1>1 DEF Lists, SeqsFollowAdmission
<1>3. BySeq(S) = CHOOSE r \in [1 .. Cardinality(S) -> S] : Sorts(r)
  BY DEF BySeq
<1> DEFINE b == BySeq(S)
<1> HIDE DEF Sorts
<1>4. b \in [1 .. Cardinality(S) -> S] /\ Sorts(b)
  BY <1>2, <1>3
<1>5. Cardinality(S) \in Nat
  <2>1. IsFiniteSet(Inputs)
    BY InputsAssumption, FS_Interval DEF Inputs
  <2> QED BY <2>1, FS_Subset, FS_CardinalityType
<1> HIDE DEF b
<1>6. b \in Seq(Inputs) /\ ToSet(b) = S /\ DOMAIN b = 1 .. Cardinality(S)
  BY <1>4, <1>5 DEF Sorts
<1>7. ASSUME NEW k \in DOMAIN b, NEW l \in DOMAIN b, k < l
      PROVE  b[k] < b[l]
  <2>1. rowSeq[b[k]] < rowSeq[b[l]]
    BY <1>4, <1>7 DEF Sorts
  <2>2. b[k] \in S /\ b[l] \in S
    BY <1>4, <1>6, <1>7
  <2> QED BY <2>1, <2>2, <1>0
<1> QED BY <1>6, <1>7 DEF b

----------------------------------------------------------------------------
LEMMA SeqInvInit == Init => SeqInv
  BY InputsAssumption
     DEF Init, SeqInv, SeqTypes, WritesInv, AllocInv, SeqsFollowAdmission, Above,
         Inputs, NothingSeen

(* What most actions leave alone.                                           *)
LEMMA SeqInvUnchanged ==
  ASSUME SeqInv,
         UNCHANGED <<writes, alloc, nextSeq, rowSeq, sent, seen>>,
         phase' = "hydrating" => phase = "hydrating"
  PROVE  SeqInv'
BY DEF SeqInv, SeqTypes, WritesInv, AllocInv, SeqsFollowAdmission, Above, Inputs

LEMMA SeqInvAdmission ==
  ASSUME SeqInv, SendInput
  PROVE  SeqInv'
<1>1. /\ writes \in Seq(Inputs) /\ sent \in 0 .. MaxInputs /\ sent < MaxInputs
      /\ sent' = sent + 1 /\ writes' = Append(writes, sent + 1)
      /\ UNCHANGED <<alloc, nextSeq, rowSeq, seen, phase>>
  BY DEF SendInput, SeqInv, SeqTypes, run, disk
<1>2. sent' \in 0 .. MaxInputs /\ sent' \in Inputs
  BY <1>1, InputsAssumption DEF Inputs
<1>3. /\ writes' \in Seq(Inputs)
      /\ DOMAIN writes' = 1 .. Len(writes) + 1
      /\ DOMAIN writes = 1 .. Len(writes)
      /\ writes'[Len(writes) + 1] = sent + 1
      /\ \A k \in DOMAIN writes : writes'[k] = writes[k] /\ writes[k] \in Inputs
      /\ writes' # << >>
  BY <1>1, <1>2
<1>4. SeqTypes'
  BY <1>1, <1>2, <1>3 DEF SeqInv, SeqTypes
<1>5. WritesInv'
  BY <1>1, <1>3 DEF SeqInv, WritesInv, Inputs
<1>6. AllocInv' /\ SeqsFollowAdmission'
  BY <1>1, <1>3 DEF SeqInv, AllocInv, SeqsFollowAdmission, Above
<1> QED BY <1>4, <1>5, <1>6 DEF SeqInv

LEMMA SeqInvAllocate ==
  ASSUME SeqInv, Allocate
  PROVE  SeqInv'
<1>1. /\ SeqTypes /\ WritesInv /\ AllocInv /\ SeqsFollowAdmission
      /\ writes # << >>
      /\ alloc' = IF nextSeq = 0 THEN MaxSeq + 1 ELSE nextSeq
      /\ nextSeq' = alloc' + 1
      /\ UNCHANGED <<writes, rowSeq, sent, seen, phase>>
  BY DEF Allocate, SeqInv, run, mem, disk
<1>2. MaxSeq \in Nat /\ Above(MaxSeq + 1)
  BY <1>1, MaxSeqIsAbove DEF SeqTypes
<1>3. alloc' \in Nat /\ nextSeq' \in Nat /\ Above(alloc')
  BY <1>1, <1>2 DEF SeqTypes, AllocInv
<1>4. AllocInv'
  BY <1>1, <1>3 DEF AllocInv, Above, SeqTypes, Inputs
<1> QED BY <1>1, <1>3, <1>4 DEF SeqInv, SeqTypes, WritesInv, SeqsFollowAdmission

(* The head of the chain leaves it, with or without a row.                  *)
LEMMA SeqInvTail ==
  ASSUME SeqTypes, WritesInv, writes # << >>
  PROVE  /\ Head(writes) \in Inputs /\ Tail(writes) \in Seq(Inputs)
         /\ Head(writes) <= sent
         /\ \A k \in DOMAIN Tail(writes) :
              Tail(writes)[k] <= sent /\ Head(writes) < Tail(writes)[k]
         /\ \A k, l \in DOMAIN Tail(writes) :
              k < l => Tail(writes)[k] < Tail(writes)[l]
         /\ \A i \in Inputs : rowSeq[i] # 0 =>
              i < Head(writes) /\ \A k \in DOMAIN Tail(writes) : i < Tail(writes)[k]
<1>1. /\ writes \in Seq(Inputs)
      /\ DOMAIN writes = 1 .. Len(writes) /\ Len(writes) \in Nat \ {0}
      /\ Head(writes) = writes[1] /\ 1 \in DOMAIN writes
      /\ Tail(writes) \in Seq(Inputs)
      /\ DOMAIN Tail(writes) = 1 .. Len(writes) - 1
      /\ \A k \in 1 .. Len(writes) - 1 : Tail(writes)[k] = writes[k + 1]
  BY DEF SeqTypes
<1>2. \A k \in DOMAIN Tail(writes) : k + 1 \in DOMAIN writes /\ 1 < k + 1
  BY <1>1
<1>3. \A k, l \in DOMAIN Tail(writes) : k < l => k + 1 < l + 1
  BY <1>1
<1> QED BY <1>1, <1>2, <1>3 DEF WritesInv

LEMMA SeqInvAdd ==
  ASSUME SeqInv, AddMessage
  PROVE  SeqInv'
<1>1. /\ SeqTypes /\ WritesInv /\ AllocInv /\ SeqsFollowAdmission
      /\ alloc # 0 /\ writes # << >> /\ alloc < nextSeq /\ Above(alloc)
      /\ rowSeq' = [rowSeq EXCEPT ![Head(writes)] = alloc]
      /\ writes' = Tail(writes) /\ alloc' = 0
      /\ UNCHANGED <<nextSeq, sent, seen, phase>>
  BY DEF AddMessage, SeqInv, AllocInv, run, mem
<1> DEFINE h == Head(writes)
<1>2. /\ h \in Inputs /\ writes' \in Seq(Inputs) /\ h <= sent
      /\ \A k \in DOMAIN writes' : writes'[k] <= sent /\ h < writes'[k]
      /\ \A k, l \in DOMAIN writes' : k < l => writes'[k] < writes'[l]
      /\ \A i \in Inputs : rowSeq[i] # 0 =>
           i < h /\ \A k \in DOMAIN writes' : i < writes'[k]
  BY <1>1, SeqInvTail
<1> HIDE DEF h
<1>3. /\ rowSeq' \in [Inputs -> Nat]
      /\ \A i \in Inputs : rowSeq'[i] = IF i = h THEN alloc ELSE rowSeq[i]
  BY <1>1, <1>2 DEF SeqTypes, h
<1>4. SeqTypes'
  BY <1>1, <1>2, <1>3 DEF SeqTypes
<1>5. WritesInv'
  BY <1>1, <1>2, <1>3 DEF WritesInv, SeqTypes
<1>6. AllocInv'
  BY <1>1, <1>2, <1>3 DEF AllocInv, Above, SeqTypes
<1>7. SeqsFollowAdmission'
  <2>1. SUFFICES ASSUME NEW i \in Inputs, NEW j \in Inputs,
                        i < j, rowSeq'[i] # 0, rowSeq'[j] # 0
                 PROVE  rowSeq'[i] < rowSeq'[j]
    BY DEF SeqsFollowAdmission
  <2>2. CASE i = h
    BY <1>2, <1>3, <2>1, <2>2 DEF Inputs
  <2>3. CASE j = h
    BY <1>1, <1>3, <2>1, <2>3 DEF Above, Inputs
  <2>4. CASE i # h /\ j # h
    BY <1>1, <1>3, <2>1, <2>4 DEF SeqsFollowAdmission
  <2> QED BY <2>2, <2>3, <2>4
<1> QED BY <1>4, <1>5, <1>6, <1>7 DEF SeqInv

LEMMA SeqInvAddFails ==
  ASSUME SeqInv, AddMessageFails
  PROVE  SeqInv'
<1>1. /\ SeqTypes /\ WritesInv /\ AllocInv /\ SeqsFollowAdmission
      /\ writes # << >>
      /\ writes' = Tail(writes) /\ alloc' = 0
      /\ UNCHANGED <<nextSeq, rowSeq, sent, seen, phase>>
  BY DEF AddMessageFails, SeqInv, AllocInv, run, mem, disk
<1>2. SeqTypes' /\ WritesInv'
  BY <1>1, SeqInvTail DEF SeqTypes, WritesInv
<1>3. AllocInv' /\ SeqsFollowAdmission'
  BY <1>1 DEF AllocInv, SeqsFollowAdmission, Above
<1> QED BY <1>2, <1>3 DEF SeqInv

LEMMA SeqInvHydration ==
  ASSUME SeqInv, ListMessages \/ Hydrate
  PROVE  SeqInv'
<1>1. /\ SeqTypes /\ WritesInv /\ AllocInv /\ SeqsFollowAdmission
      /\ UNCHANGED <<writes, alloc, rowSeq, sent>>
  BY DEF SeqInv, ListMessages, Hydrate, Hydrated, writing, disk
<1>2. CASE ListMessages
  <2>1. seen'.max = MaxSeq /\ UNCHANGED nextSeq
    BY <1>2 DEF ListMessages, writing
  <2>2. MaxSeq \in Nat /\ Above(MaxSeq + 1)
    BY <1>1, MaxSeqIsAbove DEF SeqTypes
  <2> QED BY <1>1, <2>1, <2>2
          DEF SeqInv, SeqTypes, WritesInv, AllocInv, Above, SeqsFollowAdmission
<1>3. CASE Hydrate
  <2>1. /\ phase = "hydrating" /\ phase' = "head" /\ seen'.max = 0
        /\ nextSeq' = IF seen.max + 1 > nextSeq THEN seen.max + 1 ELSE nextSeq
    BY <1>3 DEF Hydrate, Hydrated, NothingSeen, Raise
  <2>2. nextSeq' \in Nat /\ nextSeq' >= nextSeq /\ nextSeq' # 0 /\ Above(nextSeq')
    BY <1>1, <2>1 DEF SeqTypes, AllocInv, Above, Inputs
  <2>3. AllocInv'
    BY <1>1, <2>1, <2>2 DEF AllocInv, Above, SeqTypes
  <2> QED BY <1>1, <2>1, <2>2, <2>3
          DEF SeqInv, SeqTypes, WritesInv, SeqsFollowAdmission
<1> QED BY <1>2, <1>3

LEMMA SeqInvCrash ==
  ASSUME SeqInv, Crash
  PROVE  SeqInv'
BY DEF Crash, SeqInv, SeqTypes, WritesInv, AllocInv, SeqsFollowAdmission, Above,
       NothingSeen, disk, Inputs

LEMMA SeqInvClose ==
  ASSUME SeqInv, Close
  PROVE  SeqInv'
BY DEF Close, SeqInv, SeqTypes, WritesInv, AllocInv, SeqsFollowAdmission, Above,
       NothingSeen, writing, disk, Inputs

LEMMA SeqInvNext ==
  ASSUME SeqInv, [Next]_vars
  PROVE  SeqInv'
<1>1. CASE UNCHANGED vars
  BY <1>1, SeqInvUnchanged DEF vars, run, mem, writing, disk
<1>2. CASE Start \/ AllPromoted \/ ToolsDone \/ PolicyStops \/ Completed \/ Handoff \/ StepAborted
  BY <1>2, SeqInvUnchanged
     DEF Start, AllPromoted, ToolsDone, PolicyStops, Completed, Handoff, StepAborted, Leave,
         run, mem, writing, disk
<1>3. CASE Turn \/ Promote \/ PromoteFails \/ Throws \/ Abort
  <2>1. UNCHANGED <<writes, alloc, nextSeq, rowSeq, sent, seen>>
    BY <1>3 DEF Turn, Leave, Drain, Promote, PromoteFails, Throws, Abort,
                run, mem, writing, disk
  <2>2. phase' = "hydrating" => phase = "hydrating"
    BY <1>3 DEF Turn, Leave, Drain, Promote, PromoteFails, Throws, Abort, run
  <2> QED BY <2>1, <2>2, SeqInvUnchanged
<1>4. CASE SendInput \/ Allocate \/ AddMessage \/ AddMessageFails
  BY <1>4, SeqInvAdmission, SeqInvAllocate, SeqInvAdd, SeqInvAddFails
<1>5. CASE ListMessages \/ Hydrate \/ Close \/ Crash
  BY <1>5, SeqInvHydration, SeqInvClose, SeqInvCrash
<1> QED BY <1>1, <1>2, <1>3, <1>4, <1>5 DEF Next, RunStep, WriteStep

(* The seqs of the rows are distinct and in the order in which sendInput    *)
(* admitted the inputs, whatever is written, hydrated, failed or restarted. *)
THEOREM SeqsInOrder == Spec => []SeqsFollowAdmission
<1>1. SeqInv => SeqsFollowAdmission
  BY DEF SeqInv
<1>2. SeqInv /\ [Next]_vars => SeqInv'
  BY SeqInvNext
<1> QED BY SeqInvInit, <1>1, <1>2, PTL DEF Spec
----------------------------------------------------------------------------
(* Sequences of inputs and what is in them.                                 *)
LEMMA InSeq ==
  ASSUME NEW s \in Seq(Inputs)
  PROVE  /\ ToSet(s) \subseteq Inputs /\ (ToSet(s) = {} <=> s = << >>)
         /\ \A p \in DOMAIN s : s[p] \in ToSet(s)
<1>1. DOMAIN s = 1 .. Len(s) /\ Len(s) \in Nat /\ \A p \in 1 .. Len(s) : s[p] \in Inputs
  OBVIOUS
<1>2. ToSet(s) = {} => s = << >>
  <2>1. SUFFICES ASSUME s # << >> PROVE ToSet(s) # {}
    OBVIOUS
  <2>2. 1 \in DOMAIN s
    BY <2>1
  <2> QED BY <2>2 DEF ToSet
<1>3. s = << >> => ToSet(s) = {}
  BY DEF ToSet
<1>4. ToSet(s) \subseteq Inputs /\ \A p \in DOMAIN s : s[p] \in ToSet(s)
  BY <1>1 DEF ToSet
<1> QED BY <1>2, <1>3, <1>4

LEMMA InConcat ==
  ASSUME NEW s \in Seq(Inputs), NEW t \in Seq(Inputs)
  PROVE  s \o t \in Seq(Inputs) /\ ToSet(s \o t) = ToSet(s) \cup ToSet(t)
<1>1. /\ DOMAIN s = 1 .. Len(s) /\ DOMAIN t = 1 .. Len(t) /\ Len(s) \in Nat /\ Len(t) \in Nat
      /\ DOMAIN (s \o t) = 1 .. Len(s) + Len(t)
      /\ \A p \in 1 .. Len(s) : (s \o t)[p] = s[p]
      /\ \A p \in 1 .. Len(t) : (s \o t)[Len(s) + p] = t[p]
  OBVIOUS
<1>2. ASSUME NEW x \in ToSet(s \o t) PROVE x \in ToSet(s) \cup ToSet(t)
  <2>1. PICK p \in DOMAIN (s \o t) : x = (s \o t)[p]
    BY DEF ToSet
  <2>2. CASE p <= Len(s)
    <3>1. p \in DOMAIN s /\ x = s[p]
      BY <1>1, <2>1, <2>2
    <3> QED BY <3>1 DEF ToSet
  <2>3. CASE ~ (p <= Len(s))
    <3>1. p - Len(s) \in DOMAIN t /\ Len(s) + (p - Len(s)) = p
      BY <1>1, <2>1, <2>3
    <3>2. x = t[p - Len(s)]
      BY <1>1, <2>1, <3>1
    <3> QED BY <3>1, <3>2 DEF ToSet
  <2> QED BY <2>2, <2>3
<1>3. ASSUME NEW x \in ToSet(s) PROVE x \in ToSet(s \o t)
  <2>1. PICK p \in DOMAIN s : x = s[p]
    BY DEF ToSet
  <2>2. p \in DOMAIN (s \o t) /\ (s \o t)[p] = x
    BY <1>1, <2>1
  <2> QED BY <2>2 DEF ToSet
<1>4. ASSUME NEW x \in ToSet(t) PROVE x \in ToSet(s \o t)
  <2>1. PICK p \in DOMAIN t : x = t[p]
    BY DEF ToSet
  <2>2. Len(s) + p \in DOMAIN (s \o t) /\ (s \o t)[Len(s) + p] = x
    BY <1>1, <2>1
  <2> QED BY <2>2 DEF ToSet
<1> QED BY <1>2, <1>3, <1>4

LEMMA InAppend ==
  ASSUME NEW s \in Seq(Inputs), NEW x \in Inputs
  PROVE  Append(s, x) \in Seq(Inputs) /\ ToSet(Append(s, x)) = ToSet(s) \cup {x}
<1>1. Append(s, x) = s \o <<x>> /\ <<x>> \in Seq(Inputs)
  OBVIOUS
<1>2. ToSet(<<x>>) = {x}
  BY DEF ToSet
<1> QED BY <1>1, <1>2, InConcat

LEMMA InTail ==
  ASSUME NEW s \in Seq(Inputs), s # << >>
  PROVE  /\ Head(s) \in Inputs /\ Tail(s) \in Seq(Inputs)
         /\ ToSet(s) = ToSet(Tail(s)) \cup {Head(s)}
<1>1. /\ Head(s) \in Inputs /\ Tail(s) \in Seq(Inputs) /\ <<Head(s)>> \in Seq(Inputs)
      /\ s = <<Head(s)>> \o Tail(s)
  OBVIOUS
<1>2. ToSet(<<Head(s)>>) = {Head(s)}
  BY DEF ToSet
<1>3. ToSet(<<Head(s)>> \o Tail(s)) = ToSet(<<Head(s)>>) \cup ToSet(Tail(s))
  BY <1>1, InConcat
<1> QED BY <1>1, <1>2, <1>3

LEMMA InEmpty == << >> \in Seq(Inputs) /\ ToSet(<< >>) = {}
  BY DEF ToSet

----------------------------------------------------------------------------
(* The types, with what they rest on: the kernel's entries follow the queue *)
(* of the run, a step has steps left, and entries are promoted in one phase.*)
FormInv ==
  /\ SeqInv /\ TypeOK
  /\ entries = queue
  /\ phase \in {"promoting", "stepping"} => step < MaxSteps
  /\ phase # "promoting" => taken = << >>
  /\ \A i \in seen.pending : rowSeq[i] # 0

LEMMA DrainFacts ==
  ASSUME FormInv, Turn, ~ (step = MaxSteps \/ aborted)
  PROVE  /\ phase = "head" /\ step < MaxSteps /\ taken = << >>
         /\ delivered' = delivered \o queue /\ taken' = queue
         /\ queue' = << >> /\ entries' = << >>
         /\ phase' = IF queue = << >> THEN "stepping" ELSE "promoting"
         /\ UNCHANGED <<aborted, step, handoffs, state, seen, writing, disk, sent, lost,
                        disturbed, faults>>
<1>1. /\ queue \in Seq(Inputs) /\ entries = queue /\ step \in 0 .. MaxSteps
      /\ MaxSteps \in Nat
  BY StepsAssumption DEF FormInv, TypeOK
<1>2. Len(queue) \in Nat /\ Spliced(Len(queue)) = Len(queue)
  BY <1>1 DEF Spliced
<1>3. SubSeq(queue, 1, Len(queue)) = queue /\ SubSeq(queue, Len(queue) + 1, Len(queue)) = << >>
  BY <1>1
<1>4. Drain /\ phase = "head" /\ UNCHANGED <<writing, disk, sent, lost, disturbed, faults>>
  BY DEF Turn
<1>5. /\ taken' = queue /\ entries' = << >> /\ delivered' = delivered \o queue
      /\ queue' = << >> /\ UNCHANGED <<aborted, step, handoffs, state, seen>>
      /\ phase' = IF queue = << >> THEN "stepping" ELSE "promoting"
  BY <1>1, <1>2, <1>3, <1>4 DEF Drain
<1>6. step < MaxSteps /\ taken = << >>
  BY <1>1, <1>4 DEF FormInv
<1> QED BY <1>4, <1>5, <1>6

LEMMA HydrateFacts ==
  ASSUME FormInv
  PROVE  /\ BySeq(seen.pending) \in Seq(Inputs)
         /\ ToSet(BySeq(seen.pending)) = seen.pending
         /\ \A k, l \in DOMAIN BySeq(seen.pending) :
              k < l => BySeq(seen.pending)[k] < BySeq(seen.pending)[l]
<1>1. /\ seen.pending \in SUBSET Inputs /\ rowSeq \in [Inputs -> Nat] /\ SeqsFollowAdmission
      /\ \A i \in seen.pending : rowSeq[i] # 0
  BY DEF FormInv, TypeOK, SeqInv
<1> QED BY <1>1, BySeqLists

LEMMA FormInit == Init => FormInv
<1>1. SUFFICES ASSUME Init PROVE FormInv
  OBVIOUS
<1>2. /\ 0 \in 0 .. MaxInputs /\ 0 \in 0 .. MaxSteps /\ 0 \in 0 .. MaxHandoffs
      /\ 0 \in 0 .. MaxFaults
  BY InputsAssumption, StepsAssumption, HandoffsAssumption, FaultsAssumption
<1>3. /\ phase = "free" /\ aborted = FALSE /\ step = 0 /\ handoffs = 0
      /\ keeps \in BOOLEAN /\ kept = 0
      /\ queue = << >> /\ entries = << >> /\ taken = << >>
      /\ seen.pending = {} /\ seen.max = 0 /\ writes = << >> /\ alloc = 0 /\ nextSeq = 0
  BY <1>1 DEF Init, NothingSeen
<1>4. /\ rowSeq \in [Inputs -> Nat] /\ promoted = {} /\ sent = 0 /\ delivered = << >>
      /\ lost = {} /\ disturbed = {} /\ faults = 0
  BY <1>1 DEF Init
<1>5. TypeOK
  <2>1. phase \in Phase /\ aborted \in BOOLEAN
    BY <1>3 DEF Phase
  <2>2. /\ queue \in Seq(Inputs) /\ entries \in Seq(Inputs) /\ taken \in Seq(Inputs)
        /\ writes \in Seq(Inputs) /\ delivered \in Seq(Inputs)
    BY <1>3, <1>4, InEmpty
  <2> QED BY <1>2, <1>3, <1>4, <2>1, <2>2 DEF TypeOK
<1> QED BY <1>1, <1>3, <1>5, SeqInvInit DEF FormInv

(* A fault is counted up to its bound.                                      *)
LEMMA FaultType == ASSUME faults \in 0 .. MaxFaults, Fault PROVE faults' \in 0 .. MaxFaults
  BY FaultsAssumption DEF Fault

LEMMA FormNext ==
  ASSUME FormInv, [Next]_vars
  PROVE  FormInv'
<1>1. SeqInv /\ TypeOK /\ SeqInv'
  BY SeqInvNext DEF FormInv
<1>2. /\ MaxInputs \in Nat /\ MaxSteps \in Nat \ {0} /\ MaxHandoffs \in Nat /\ MaxFaults \in Nat
  BY InputsAssumption, StepsAssumption, HandoffsAssumption, FaultsAssumption
<1>3. CASE UNCHANGED vars
  BY <1>1, <1>3 DEF FormInv, TypeOK, vars, run, state, mem, writing, disk, hist
<1>4. CASE SendInput
  <2>1. sent + 1 \in Inputs /\ sent + 1 \in 0 .. MaxInputs
    BY <1>1, <1>2, <1>4 DEF SendInput, TypeOK, Inputs
  <2>2. /\ Append(queue, sent + 1) \in Seq(Inputs) /\ Append(writes, sent + 1) \in Seq(Inputs)
    BY <1>1, <2>1, InAppend DEF TypeOK
  <2> QED BY <1>1, <1>4, <2>1, <2>2 DEF SendInput, FormInv, TypeOK, run, state, mem, disk, hist
<1>5. CASE Allocate
  BY <1>1, <1>5 DEF Allocate, FormInv, SeqInv, SeqTypes, TypeOK, run, state, mem, disk, hist
<1>6. CASE AddMessage
  <2>1. /\ Head(writes) \in Inputs /\ Tail(writes) \in Seq(Inputs) /\ alloc \in Nat \ {0}
    BY <1>1, <1>6, InTail DEF AddMessage, TypeOK, SeqInv, AllocInv
  <2>2. rowSeq' \in [Inputs -> Nat] /\ \A i \in Inputs : rowSeq[i] # 0 => rowSeq'[i] # 0
    BY <1>1, <1>6, <2>1 DEF AddMessage, TypeOK
  <2> QED BY <1>1, <1>6, <2>1, <2>2 DEF AddMessage, FormInv, TypeOK, run, state, mem, hist
<1>7. CASE AddMessageFails
  <2>1. /\ Head(writes) \in Inputs /\ Tail(writes) \in Seq(Inputs)
    BY <1>1, <1>7, InTail DEF AddMessageFails, TypeOK, SeqInv, AllocInv
  <2> QED BY <1>1, <1>7, <2>1, FaultType DEF AddMessageFails, FormInv, TypeOK, run, state, mem, disk
<1>8. CASE Start \/ AllPromoted \/ ToolsDone \/ PolicyStops \/ Completed \/ Handoff
  <2>1. /\ phase' \in Phase /\ step' \in 0 .. MaxSteps /\ handoffs' \in 0 .. MaxHandoffs
        /\ keeps' \in BOOLEAN /\ kept' \in 0 .. MaxSteps
        /\ phase' \in {"promoting", "stepping"} => step' < MaxSteps
        /\ phase' # "promoting" => taken = << >>
    <3>1. /\ phase \in Phase /\ step \in 0 .. MaxSteps /\ handoffs \in 0 .. MaxHandoffs
          /\ keeps \in BOOLEAN /\ kept \in 0 .. MaxSteps
          /\ phase \in {"promoting", "stepping"} => step < MaxSteps
          /\ phase # "promoting" => taken = << >>
      BY DEF FormInv, TypeOK
    <3>2. CASE Start
      BY <1>2, <3>1, <3>2 DEF Start, Phase, state
    <3>3. CASE AllPromoted
      BY <1>2, <3>1, <3>3 DEF AllPromoted, Phase, state
    <3>4. CASE ToolsDone \/ PolicyStops \/ Completed
      BY <1>2, <3>1, <3>4 DEF ToolsDone, PolicyStops, Completed, Keep, Phase, state
    <3>5. CASE Handoff
      BY <1>2, <3>1, <3>5 DEF Handoff, Keep, Phase
    <3> QED BY <1>8, <3>2, <3>3, <3>4, <3>5
  <2>2. UNCHANGED <<aborted, mem, writing, disk, sent, hist>>
    BY <1>8 DEF Start, AllPromoted, ToolsDone, PolicyStops, Completed, Handoff
  <2> QED BY <1>1, <2>1, <2>2 DEF FormInv, TypeOK, mem, writing, disk, hist
<1>9. CASE StepAborted
  BY <1>1, <1>9 DEF StepAborted, Leave, FormInv, TypeOK, Phase, state, mem, writing, disk
<1>10. CASE ListMessages
  <2>1. MaxSeq \in Nat
    BY <1>1, MaxSeqIsAbove DEF TypeOK
  <2>2. ToSet(writes) \subseteq Inputs
    BY <1>1, InSeq DEF TypeOK
  <2> QED BY <1>1, <1>10, <2>1, <2>2 DEF ListMessages, FormInv, TypeOK, Phase, state, writing, disk
<1>11. CASE Hydrate
  <2>1. /\ queue \o BySeq(seen.pending) \in Seq(Inputs) /\ ToSet(queue) \subseteq Inputs
    BY <1>1, HydrateFacts, InConcat, InSeq DEF TypeOK
  <2>2. nextSeq' \in Nat
    BY <1>1 DEF SeqInv, SeqTypes
  <2> QED BY <1>1, <1>11, <2>1, <2>2
          DEF Hydrate, Hydrated, NothingSeen, FormInv, TypeOK, Phase, state
<1>12. CASE Turn
  <2>1. CASE step = MaxSteps \/ aborted
    BY <1>1, <1>12, <2>1 DEF Turn, Leave, FormInv, TypeOK, Phase, state, mem, writing, disk
  <2>2. CASE ~ (step = MaxSteps \/ aborted)
    <3>1. delivered \o queue \in Seq(Inputs) /\ << >> \in Seq(Inputs)
      BY <1>1, InConcat DEF TypeOK
    <3>2. TypeOK'
      BY <1>1, <1>12, <2>2, <3>1, DrainFacts DEF TypeOK, Phase, state, writing, disk
    <3> QED BY <1>1, <1>12, <2>2, <3>2, DrainFacts DEF FormInv, disk
  <2> QED BY <2>1, <2>2
<1>13. CASE Promote \/ PromoteFails
  <2>1. Head(taken) \in Inputs /\ Tail(taken) \in Seq(Inputs)
    BY <1>1, <1>13, InTail DEF Promote, PromoteFails, TypeOK
  <2>2. faults' \in 0 .. MaxFaults
    BY <1>1, <1>13, FaultType DEF Promote, PromoteFails, TypeOK, hist
  <2> QED BY <1>1, <1>13, <2>1, <2>2
          DEF Promote, PromoteFails, FormInv, TypeOK, run, state, writing, disk, hist
<1>14. CASE Throws \/ Abort
  <2>1. faults' \in 0 .. MaxFaults
    BY <1>1, <1>14, FaultType DEF Throws, Abort, TypeOK
  <2> QED BY <1>1, <1>14, <2>1 DEF Throws, Abort, FormInv, TypeOK, Phase, state, mem, writing, disk
<1>15. CASE Close
  <2>1. 0 \in 0 .. MaxSteps /\ 0 \in 0 .. MaxHandoffs
    BY <1>2
  <2>2. /\ phase' = "free" /\ aborted' = FALSE /\ step' = 0 /\ handoffs' = 0
        /\ queue' = << >> /\ entries' = << >> /\ seen'.pending = {} /\ seen'.max = 0
        /\ taken' = << >>
        /\ UNCHANGED <<keeps, kept, writing, disk, sent, hist>>
    BY <1>15 DEF Close, NothingSeen, state, FormInv
  <2>3. /\ phase' \in Phase /\ aborted' \in BOOLEAN
        /\ queue' \in Seq(Inputs) /\ entries' \in Seq(Inputs) /\ taken' \in Seq(Inputs)
    BY <2>2, InEmpty DEF Phase
  <2>4. /\ UNCHANGED <<keeps, kept, writes, alloc, nextSeq, rowSeq, promoted, sent,
                       delivered, lost, disturbed, faults>>
        /\ seen'.pending \subseteq Inputs /\ seen'.max \in Nat
        /\ step' \in 0 .. MaxSteps /\ handoffs' \in 0 .. MaxHandoffs
    BY <2>1, <2>2 DEF writing, disk, hist
  <2>5. TypeOK'
    BY <1>1, <2>3, <2>4 DEF TypeOK
  <2> QED BY <1>1, <2>2, <2>5 DEF FormInv
<1>16. CASE Crash
  <2>1. /\ faults' \in 0 .. MaxFaults /\ ToSet(writes) \subseteq Inputs
        /\ ToSet(taken) \subseteq Inputs
    BY <1>1, <1>16, FaultType, InSeq DEF Crash, TypeOK
  <2>2. /\ phase' = "free" /\ aborted' = FALSE /\ step' = 0 /\ handoffs' = 0
        /\ kept' = 0 /\ keeps' = keeps
        /\ queue' = << >> /\ entries' = << >> /\ taken' = << >>
        /\ seen'.pending = {} /\ seen'.max = 0
    BY <1>16 DEF Crash, NothingSeen
  <2>3. /\ writes' = << >> /\ alloc' = 0 /\ nextSeq' = 0
        /\ lost' = lost \cup ToSet(writes) /\ disturbed' = disturbed \cup ToSet(taken)
        /\ UNCHANGED <<rowSeq, promoted, sent, delivered>>
    BY <1>16 DEF Crash, disk
  <2>4. TypeOK'
    <3>1. phase' \in Phase /\ aborted' \in BOOLEAN
      BY <2>2 DEF Phase
    <3>2. /\ queue' \in Seq(Inputs) /\ entries' \in Seq(Inputs) /\ taken' \in Seq(Inputs)
          /\ writes' \in Seq(Inputs)
      BY <2>2, <2>3, InEmpty
    <3> QED BY <1>1, <1>2, <2>1, <2>2, <2>3, <3>1, <3>2 DEF TypeOK
  <2> QED BY <1>1, <2>2, <2>4 DEF FormInv
<1> QED BY <1>3, <1>4, <1>5, <1>6, <1>7, <1>8, <1>9, <1>10, <1>11, <1>12, <1>13, <1>14,
           <1>15, <1>16 DEF Next, WriteStep, RunStep

LEMMA FormHolds == Spec => []FormInv
  BY FormInit, FormNext, PTL DEF Spec

----------------------------------------------------------------------------
(* Where an input can be, as sets, and how the actions move it.             *)
Delivered == ToSet(delivered)
Queued    == ToSet(queue)
Taken     == ToSet(taken)
Unwritten == ToSet(writes)
places    == <<Delivered, Queued, Taken, Unwritten>>

LEMMA PlaceTypes ==
  ASSUME FormInv
  PROVE  /\ Delivered \subseteq Inputs /\ Queued \subseteq Inputs /\ Taken \subseteq Inputs
         /\ Unwritten \subseteq Inputs /\ (Taken = {} <=> taken = << >>)
         /\ \A i \in Unwritten : i <= sent /\ rowSeq[i] = 0
         /\ \A i \in Inputs : rowSeq[i] # 0 => i <= sent
         /\ sent \in 0 .. MaxInputs /\ rowSeq \in [Inputs -> Nat] /\ Inputs \subseteq Nat
         /\ seen.pending \subseteq Inputs /\ lost \subseteq Inputs
         /\ disturbed \subseteq Inputs /\ promoted \subseteq Inputs
<1>1. TypeOK /\ SeqInv
  BY DEF FormInv
<1>2. /\ Delivered \subseteq Inputs /\ Queued \subseteq Inputs /\ Taken \subseteq Inputs
      /\ Unwritten \subseteq Inputs /\ (Taken = {} <=> taken = << >>)
  BY <1>1, InSeq DEF TypeOK, Delivered, Queued, Taken, Unwritten
<1>3. ASSUME NEW i \in Unwritten
      PROVE  i <= sent /\ rowSeq[i] = 0
  <2>1. PICK k \in DOMAIN writes : i = writes[k]
    BY DEF Unwritten, ToSet
  <2>2. i \in Inputs /\ i \in Nat
    BY <1>2 DEF Inputs
  <2> QED BY <1>1, <2>1, <2>2 DEF SeqInv, WritesInv
<1>4. \A i \in Inputs : rowSeq[i] # 0 => i <= sent
  BY <1>1 DEF SeqInv, WritesInv
<1>5. /\ sent \in 0 .. MaxInputs /\ rowSeq \in [Inputs -> Nat]
      /\ seen.pending \subseteq Inputs /\ lost \subseteq Inputs
      /\ disturbed \subseteq Inputs /\ promoted \subseteq Inputs
  BY <1>1 DEF TypeOK
<1>6. Inputs \subseteq Nat
  BY DEF Inputs
<1> QED BY <1>2, <1>3, <1>4, <1>5, <1>6

LEMMA SendMoves ==
  ASSUME FormInv, SendInput
  PROVE  /\ sent' = sent + 1 /\ sent + 1 \in Inputs
         /\ Queued' = Queued \cup {sent + 1} /\ Unwritten' = Unwritten \cup {sent + 1}
         /\ UNCHANGED <<Delivered, Taken, phase, seen, disk, hist>>
<1>1. sent + 1 \in Inputs /\ queue \in Seq(Inputs) /\ writes \in Seq(Inputs)
  BY InputsAssumption DEF SendInput, FormInv, TypeOK, Inputs
<1>2. /\ ToSet(Append(queue, sent + 1)) = ToSet(queue) \cup {sent + 1}
      /\ ToSet(Append(writes, sent + 1)) = ToSet(writes) \cup {sent + 1}
  BY <1>1, InAppend
<1> QED BY <1>1, <1>2 DEF SendInput, Queued, Unwritten, Delivered, Taken, run, hist

LEMMA WriteMoves ==
  ASSUME FormInv, AddMessage \/ AddMessageFails
  PROVE  /\ Unwritten = Unwritten' \cup {Head(writes)} /\ Head(writes) \notin Unwritten'
         /\ UNCHANGED <<Delivered, Queued, Taken, phase, seen, sent, promoted, disturbed>>
         /\ \/ lost' = lost /\ rowSeq' = [rowSeq EXCEPT ![Head(writes)] = alloc]
            \/ lost' = lost \cup {Head(writes)} /\ rowSeq' = rowSeq
         /\ alloc \in Nat \ {0}
<1>1. writes \in Seq(Inputs) /\ writes # << >> /\ alloc \in Nat \ {0} /\ WritesInv /\ SeqTypes
  BY DEF AddMessage, AddMessageFails, FormInv, SeqInv, AllocInv, TypeOK
<1>2. ToSet(writes) = ToSet(Tail(writes)) \cup {Head(writes)}
  BY <1>1, InTail
<1>3. Head(writes) \notin ToSet(Tail(writes))
  <2>1. SUFFICES ASSUME NEW k \in DOMAIN Tail(writes), Head(writes) = Tail(writes)[k]
                 PROVE  FALSE
    BY DEF ToSet
  <2>2. Head(writes) < Tail(writes)[k] /\ Head(writes) \in Nat
    BY <1>1, SeqInvTail DEF Inputs
  <2> QED BY <2>1, <2>2
<1> QED BY <1>1, <1>2, <1>3
        DEF AddMessage, AddMessageFails, Unwritten, Delivered, Queued, Taken, run, mem, disk, hist

LEMMA HydrateMoves ==
  ASSUME FormInv, Hydrate
  PROVE  /\ phase = "hydrating" /\ phase' = "head"
         /\ Queued' = Queued \cup seen.pending /\ disturbed' = disturbed \cup Queued
         /\ UNCHANGED <<Delivered, Taken, Unwritten, rowSeq, promoted, sent, lost>>
<1>1. queue \in Seq(Inputs)
  BY DEF FormInv, TypeOK
<1>2. ToSet(queue \o BySeq(seen.pending)) = ToSet(queue) \cup seen.pending
  BY <1>1, HydrateFacts, InConcat
<1> QED BY <1>2 DEF Hydrate, Hydrated, Queued, Delivered, Taken, Unwritten

LEMMA DrainMoves ==
  ASSUME FormInv, Turn, ~ (step = MaxSteps \/ aborted)
  PROVE  /\ phase = "head" /\ phase' \in {"stepping", "promoting"}
         /\ Delivered' = Delivered \cup Queued /\ Queued' = {}
         /\ Taken = {} /\ Taken' = Queued
         /\ UNCHANGED <<Unwritten, seen, rowSeq, promoted, sent, lost, disturbed>>
<1>1. delivered \in Seq(Inputs) /\ queue \in Seq(Inputs)
  BY DEF FormInv, TypeOK
<1>2. ToSet(delivered \o queue) = ToSet(delivered) \cup ToSet(queue)
  BY <1>1, InConcat
<1> QED BY <1>2, DrainFacts, InEmpty
        DEF Delivered, Queued, Taken, Unwritten, writing, disk

LEMMA PromoteMoves ==
  ASSUME FormInv, Promote \/ PromoteFails
  PROVE  /\ Taken = Taken' \cup {Head(taken)} /\ phase = "promoting"
         /\ rowSeq[Head(taken)] # 0 \/ Head(taken) \in lost
         /\ \/ /\ promoted' = IF rowSeq[Head(taken)] # 0 THEN promoted \cup {Head(taken)}
                                                         ELSE promoted
               /\ UNCHANGED disturbed
            \/ disturbed' = disturbed \cup {Head(taken)} /\ UNCHANGED promoted
         /\ UNCHANGED <<Delivered, Queued, Unwritten, phase, seen, rowSeq, sent, lost>>
<1>1. taken \in Seq(Inputs) /\ taken # << >>
  BY DEF Promote, PromoteFails, FormInv, TypeOK
<1>2. ToSet(taken) = ToSet(Tail(taken)) \cup {Head(taken)}
  BY <1>1, InTail
<1> QED BY <1>2 DEF Promote, PromoteFails, Written, Delivered, Queued, Taken, Unwritten,
                    run, writing, disk, hist

LEMMA CloseMoves ==
  ASSUME FormInv, Close
  PROVE  /\ phase' = "free" /\ Queued' = {} /\ seen' = NothingSeen
         /\ UNCHANGED <<Delivered, Taken, Unwritten, rowSeq, promoted, sent, lost, disturbed>>
BY InEmpty DEF Close, Delivered, Queued, Taken, Unwritten, writing, disk, hist

LEMMA CrashMoves ==
  ASSUME FormInv, Crash
  PROVE  /\ phase' = "free" /\ Queued' = {} /\ Taken' = {} /\ Unwritten' = {}
         /\ seen' = NothingSeen
         /\ lost' = lost \cup Unwritten /\ disturbed' = disturbed \cup Taken
         /\ UNCHANGED <<Delivered, rowSeq, promoted, sent>>
BY InEmpty DEF Crash, Delivered, Queued, Taken, Unwritten, disk

LEMMA ListMoves ==
  ASSUME FormInv, ListMessages
  PROVE  /\ phase = "entering" /\ phase' = "hydrating"
         /\ seen'.pending = {i \in Inputs : rowSeq[i] # 0} \ promoted
         /\ disturbed' = disturbed \cup Unwritten
         /\ UNCHANGED <<places, rowSeq, promoted, sent, lost, queue, delivered>>
BY DEF ListMessages, places, Delivered, Queued, Taken, Unwritten, writing, disk

(* The other actions only move the run.                                     *)
LEMMA QuietMoves ==
  ASSUME FormInv,
         \/ UNCHANGED vars
         \/ Allocate \/ Start \/ AllPromoted \/ ToolsDone \/ PolicyStops \/ Completed \/ Handoff
         \/ StepAborted \/ Throws \/ Abort
         \/ Turn /\ (step = MaxSteps \/ aborted)
  PROVE  /\ UNCHANGED <<places, queue, delivered, seen, rowSeq, promoted, sent, lost, disturbed>>
         /\ \/ phase' = phase
            \/ phase' \in {"free", "entering", "ending"}
            \/ phase' = "head" /\ phase = "stepping"
            \/ phase' = "stepping" /\ phase = "promoting"
<1>1. UNCHANGED <<queue, delivered, taken, writes, seen, rowSeq, promoted, sent, lost, disturbed>>
  BY DEF Allocate, Start, AllPromoted, ToolsDone, PolicyStops, Completed, Handoff, StepAborted, Throws,
         Abort, Turn, Leave, vars, run, mem, writing, disk, hist
<1>2. \/ phase' = phase
      \/ phase' \in {"free", "entering", "ending"}
      \/ phase' = "head" /\ phase = "stepping"
      \/ phase' = "stepping" /\ phase = "promoting"
  BY DEF Allocate, Start, AllPromoted, ToolsDone, PolicyStops, Completed, Handoff, StepAborted, Throws,
         Abort, Turn, Leave, vars, run
<1> QED BY <1>1, <1>2 DEF places, Delivered, Queued, Taken, Unwritten

----------------------------------------------------------------------------
(* Nothing is lost: what leaves the store was delivered, and what leaves    *)
(* the chain has a row or is known as lost.                                 *)
KeptInv ==
  /\ Taken \subseteq Delivered /\ promoted \subseteq Delivered
  /\ \A i \in Queued \cup Delivered \cup lost : i <= sent
  /\ \A i \in lost : rowSeq[i] = 0 /\ i \notin Unwritten
  /\ \A i \in 1 .. sent :
       i \in Delivered \cup Unwritten \cup lost \/ (rowSeq[i] # 0 /\ i \notin promoted)

LEMMA KeptInit == Init => KeptInv
  BY InEmpty DEF Init, KeptInv, Taken, Delivered, Queued, Unwritten

LEMMA KeptNext ==
  ASSUME FormInv, KeptInv, [Next]_vars
  PROVE  KeptInv'
<1>1. CASE \/ UNCHANGED vars
           \/ Allocate \/ Start \/ AllPromoted \/ ToolsDone \/ PolicyStops \/ Completed \/ Handoff
           \/ StepAborted \/ Throws \/ Abort
           \/ Turn /\ (step = MaxSteps \/ aborted)
  BY <1>1, QuietMoves DEF KeptInv, places
<1>2. CASE SendInput
  <2>1. \A i \in 1 .. sent + 1 : i \in 1 .. sent \/ i = sent + 1
    BY PlaceTypes
  <2>2. \A i \in lost : i # sent + 1
    BY PlaceTypes DEF KeptInv
  <2> QED BY <1>2, <2>1, <2>2, SendMoves, PlaceTypes DEF KeptInv, disk, hist
<1>3. CASE AddMessage \/ AddMessageFails
  <2>1. Head(writes) \in Unwritten /\ Head(writes) \in Inputs /\ Head(writes) \notin lost
    BY <1>3, WriteMoves, PlaceTypes DEF KeptInv
  <2>2. \A i \in Inputs : rowSeq'[i] = rowSeq[i] \/ (i = Head(writes) /\ rowSeq'[i] # 0)
    BY <1>3, <2>1, WriteMoves, PlaceTypes
  <2>3. \A i \in 1 .. sent : i \in Inputs
    BY PlaceTypes, InputsAssumption DEF Inputs
  <2> QED BY <1>3, <2>1, <2>2, <2>3, WriteMoves, PlaceTypes DEF KeptInv
<1>4. CASE ListMessages
  BY <1>4, ListMoves DEF KeptInv, places
<1>5. CASE Hydrate
  <2>1. \A i \in seen.pending : i <= sent
    BY PlaceTypes DEF FormInv
  <2> QED BY <1>5, <2>1, HydrateMoves DEF KeptInv
<1>6. CASE Turn /\ ~ (step = MaxSteps \/ aborted)
  BY <1>6, DrainMoves DEF KeptInv
<1>7. CASE Promote \/ PromoteFails
  BY <1>7, PromoteMoves DEF KeptInv
<1>8. CASE Close
  BY <1>8, CloseMoves DEF KeptInv
<1>9. CASE Crash
  BY <1>9, CrashMoves, PlaceTypes DEF KeptInv
<1> QED BY <1>1, <1>2, <1>3, <1>4, <1>5, <1>6, <1>7, <1>8, <1>9 DEF Next, WriteStep, RunStep

LEMMA KeptHolds == Spec => [](FormInv /\ KeptInv)
  BY FormInit, FormNext, KeptInit, KeptNext, PTL DEF Spec

(* The types of the session, its store and its runs.                        *)
THEOREM TypesHold == Spec => []TypeOK
<1>1. FormInv => TypeOK
  BY DEF FormInv
<1> QED BY FormHolds, <1>1, PTL

(* An accepted input is in a transcript, or will be found by the next run,  *)
(* or its write failed or died, for any number of inputs, runs and faults.  *)
THEOREM NothingLost == Spec => []NothingIsLost
<1>1. KeptInv => NothingIsLost
  BY DEF KeptInv, NothingIsLost, Delivered, Unwritten
<1> QED BY KeptHolds, <1>1, PTL

----------------------------------------------------------------------------
(* In order and once: the undisturbed inputs of a transcript or a queue are *)
(* increasing.                                                              *)
Increasing(s, X) ==
  \A p, q \in DOMAIN s : p < q /\ s[p] \notin X /\ s[q] \notin X => s[p] < s[q]

LEMMA IncreasingConcat ==
  ASSUME NEW s \in Seq(Inputs), NEW t \in Seq(Inputs), NEW X,
         Increasing(s, X), Increasing(t, X),
         \A i \in ToSet(s) \ X, j \in ToSet(t) \ X : i < j
  PROVE  Increasing(s \o t, X)
<1>1. /\ DOMAIN s = 1 .. Len(s) /\ DOMAIN t = 1 .. Len(t) /\ Len(s) \in Nat /\ Len(t) \in Nat
      /\ DOMAIN (s \o t) = 1 .. Len(s) + Len(t)
      /\ \A p \in DOMAIN (s \o t) :
           (s \o t)[p] = IF p <= Len(s) THEN s[p] ELSE t[p - Len(s)]
  OBVIOUS
<1>2. SUFFICES ASSUME NEW p \in DOMAIN (s \o t), NEW q \in DOMAIN (s \o t), p < q,
                      (s \o t)[p] \notin X, (s \o t)[q] \notin X
               PROVE  (s \o t)[p] < (s \o t)[q]
  BY DEF Increasing
<1>3. p \in Nat /\ q \in Nat
  BY <1>1
<1>4. CASE q <= Len(s)
  <2>1. /\ p \in DOMAIN s /\ q \in DOMAIN s
        /\ (s \o t)[p] = s[p] /\ (s \o t)[q] = s[q]
    BY <1>1, <1>2, <1>3, <1>4
  <2> QED BY <1>2, <2>1 DEF Increasing
<1>5. CASE p <= Len(s) /\ ~ (q <= Len(s))
  <2>1. /\ p \in DOMAIN s /\ q - Len(s) \in DOMAIN t
        /\ (s \o t)[p] = s[p] /\ (s \o t)[q] = t[q - Len(s)]
    BY <1>1, <1>2, <1>3, <1>5
  <2>2. s[p] \in ToSet(s) /\ t[q - Len(s)] \in ToSet(t)
    BY <2>1, InSeq
  <2> QED BY <1>2, <2>1, <2>2
<1>6. CASE ~ (p <= Len(s))
  <2>1. /\ p - Len(s) \in DOMAIN t /\ q - Len(s) \in DOMAIN t /\ p - Len(s) < q - Len(s)
        /\ (s \o t)[p] = t[p - Len(s)] /\ (s \o t)[q] = t[q - Len(s)]
    BY <1>1, <1>2, <1>3, <1>6
  <2> QED BY <1>2, <2>1 DEF Increasing
<1> QED BY <1>2, <1>3, <1>4, <1>5, <1>6

LEMMA IncreasingMore ==
  ASSUME NEW s, NEW X, NEW Y, X \subseteq Y, Increasing(s, X)
  PROVE  Increasing(s, Y)
BY DEF Increasing

(* Where an admitted input is once the store has been read.                 *)
Known == Delivered \cup lost \cup disturbed \cup Queued

OrderedInv ==
  /\ Increasing(delivered, disturbed) /\ Increasing(queue, disturbed)
  /\ \A j \in Delivered \ disturbed, i \in Queued \ disturbed : j < i
  /\ \A j \in Delivered \ disturbed, i \in Inputs \ disturbed :
       i < j => i \in Delivered \cup lost
  /\ Delivered \ disturbed \subseteq promoted \cup lost \cup Taken
  /\ phase = "hydrating" =>
       /\ seen.pending \cap Delivered \subseteq disturbed
       /\ 1 .. sent \subseteq Known \cup seen.pending
  /\ phase \in {"head", "promoting", "stepping"} => 1 .. sent \subseteq Known

LEMMA OrderedInit == Init => OrderedInv
<1>1. SUFFICES ASSUME Init PROVE OrderedInv
  OBVIOUS
<1>2. /\ delivered = << >> /\ queue = << >> /\ phase = "free"
      /\ Delivered = {} /\ Queued = {}
  BY <1>1, InEmpty DEF Init, Delivered, Queued
<1> QED BY <1>2 DEF OrderedInv, Increasing

(* An action that changes neither the transcripts nor the queue.            *)
LEMMA OrderedSame ==
  ASSUME OrderedInv, UNCHANGED <<delivered, queue, Delivered, Queued>>,
         lost \subseteq lost', disturbed \subseteq disturbed',
         Delivered \ disturbed' \subseteq promoted' \cup lost' \cup Taken',
         phase' = "hydrating" =>
           /\ seen'.pending \cap Delivered \subseteq disturbed'
           /\ 1 .. sent' \subseteq Known' \cup seen'.pending,
         phase' \in {"head", "promoting", "stepping"} => 1 .. sent' \subseteq Known'
  PROVE  OrderedInv'
<1>1. Increasing(delivered, disturbed') /\ Increasing(queue, disturbed')
  BY IncreasingMore DEF OrderedInv
<1>2. Increasing(delivered, disturbed)' /\ Increasing(queue, disturbed)'
  BY <1>1
<1> QED BY <1>2 DEF OrderedInv

LEMMA OrderedSend ==
  ASSUME FormInv, KeptInv, OrderedInv, SendInput
  PROVE  OrderedInv'
<1>1. /\ queue \in Seq(Inputs) /\ sent + 1 \in Inputs /\ sent \in Nat
      /\ queue' = Append(queue, sent + 1)
  BY SendMoves, PlaceTypes, SMTT(30) DEF FormInv, TypeOK, SendInput
<1>2. <<sent + 1>> \in Seq(Inputs) /\ Append(queue, sent + 1) = queue \o <<sent + 1>>
  BY <1>1
<1>3. ToSet(<<sent + 1>>) = {sent + 1} /\ Increasing(<<sent + 1>>, disturbed)
  BY DEF ToSet, Increasing
<1>4. \A i \in ToSet(queue) \cup Delivered : i < sent + 1
  BY <1>1, PlaceTypes DEF KeptInv, Queued
<1>5. Increasing(queue', disturbed')
  BY <1>1, <1>2, <1>3, <1>4, SendMoves, IncreasingConcat DEF OrderedInv, hist
<1>6. Increasing(queue, disturbed)'
  BY <1>5
<1>7. \A i \in 1 .. sent + 1 : i \in 1 .. sent \/ i = sent + 1
  BY <1>1
<1> QED BY <1>4, <1>6, <1>7, SendMoves DEF OrderedInv, Known, disk, hist

(* The rows go behind queued inputs, which count as disturbed; they were    *)
(* not delivered, so that nothing after them was.                           *)
LEMMA OrderedHydrate ==
  ASSUME FormInv, KeptInv, OrderedInv, Hydrate
  PROVE  OrderedInv'
<1> DEFINE b == BySeq(seen.pending)
<1>1. /\ queue \in Seq(Inputs) /\ b \in Seq(Inputs) /\ ToSet(b) = seen.pending
      /\ queue' = queue \o b /\ delivered' = delivered
      /\ \A k, l \in DOMAIN b : k < l => b[k] < b[l]
  BY HydrateFacts DEF Hydrate, Hydrated, FormInv, TypeOK
<1> HIDE DEF b
<1>2. Increasing(b, disturbed')
  BY <1>1 DEF Increasing
<1>3. Increasing(queue, disturbed') /\ ToSet(queue) \ disturbed' = {}
  <2>1. ToSet(queue) \subseteq disturbed'
    BY HydrateMoves DEF Queued
  <2>2. \A p \in DOMAIN queue : queue[p] \in disturbed'
    BY <1>1, <2>1, InSeq
  <2> QED BY <2>1, <2>2 DEF Increasing
<1>4. Increasing(queue, disturbed)'
  <2>1. Increasing(queue \o b, disturbed')
    BY <1>1, <1>2, <1>3, IncreasingConcat
  <2> QED BY <1>1, <2>1
<1>5. Increasing(delivered, disturbed)'
  <2>1. Increasing(delivered, disturbed')
    BY HydrateMoves, IncreasingMore DEF OrderedInv
  <2> QED BY <1>1, <2>1
<1>6. ASSUME NEW j \in Delivered \ disturbed', NEW i \in Queued' \ disturbed'
      PROVE  j < i
  <2>1. /\ i \in seen.pending /\ i \notin disturbed /\ j \notin disturbed /\ j \in Delivered
        /\ i \in Nat /\ j \in Nat /\ i \in Inputs
    BY <1>6, HydrateMoves, PlaceTypes
  <2>2. i \notin Delivered /\ i \notin lost
    BY <2>1, HydrateMoves DEF OrderedInv, FormInv, KeptInv
  <2>3. ~ (i < j)
    BY <2>1, <2>2 DEF OrderedInv
  <2> QED BY <2>1, <2>2, <2>3
<1> QED BY <1>4, <1>5, <1>6, HydrateMoves DEF OrderedInv, Known

(* The queue goes behind the transcripts, with everything admitted before.  *)
LEMMA OrderedDrain ==
  ASSUME FormInv, KeptInv, OrderedInv, Turn, ~ (step = MaxSteps \/ aborted)
  PROVE  OrderedInv'
<1>1. /\ queue \in Seq(Inputs) /\ delivered \in Seq(Inputs)
      /\ queue' = << >> /\ delivered' = delivered \o queue
  BY DrainFacts DEF FormInv, TypeOK
<1>2. Increasing(delivered, disturbed)' /\ Increasing(queue, disturbed)'
  <2>1. Increasing(delivered \o queue, disturbed)
    BY <1>1, IncreasingConcat DEF OrderedInv, Delivered, Queued
  <2>2. Increasing(<< >>, disturbed')
    BY DEF Increasing
  <2> QED BY <1>1, <2>1, <2>2, DrainMoves
<1>3. ASSUME NEW j \in Delivered' \ disturbed, NEW i \in Inputs \ disturbed, i < j
      PROVE  i \in Delivered' \cup lost
  <2>1. CASE j \in Delivered
    BY <1>3, <2>1, DrainMoves DEF OrderedInv
  <2>2. CASE j \in Queued
    <3>1. i \in 1 .. sent
      BY <1>3, <2>2, PlaceTypes, InputsAssumption DEF KeptInv, Inputs
    <3> QED BY <1>3, <3>1, DrainMoves DEF OrderedInv, Known
  <2> QED BY <1>3, <2>1, <2>2, DrainMoves
<1> QED BY <1>2, <1>3, DrainMoves DEF OrderedInv, Known

LEMMA OrderedNext ==
  ASSUME FormInv, KeptInv, OrderedInv, [Next]_vars
  PROVE  OrderedInv'
<1>1. CASE \/ UNCHANGED vars
           \/ Allocate \/ Start \/ AllPromoted \/ ToolsDone \/ PolicyStops \/ Completed \/ Handoff
           \/ StepAborted \/ Throws \/ Abort
           \/ Turn /\ (step = MaxSteps \/ aborted)
  <2>1. /\ UNCHANGED <<places, queue, delivered, seen, promoted, sent, lost, disturbed, Known>>
        /\ \/ phase' = phase
           \/ phase' \in {"free", "entering", "ending"}
           \/ phase' = "head" /\ phase = "stepping"
           \/ phase' = "stepping" /\ phase = "promoting"
    BY <1>1, QuietMoves DEF Known, places
  <2> QED BY <2>1, OrderedSame DEF OrderedInv, places
<1>2. CASE SendInput
  BY <1>2, OrderedSend
<1>3. CASE AddMessage \/ AddMessageFails
  <2>1. UNCHANGED <<delivered, queue>>
    BY <1>3 DEF AddMessage, AddMessageFails, mem, hist
  <2>2. /\ UNCHANGED <<Delivered, Queued, Taken, phase, seen, sent, promoted, disturbed>>
        /\ lost \subseteq lost'
    BY <1>3, WriteMoves
  <2>3. Known \subseteq Known'
    BY <2>2 DEF Known
  <2> QED BY <2>1, <2>2, <2>3, OrderedSame DEF OrderedInv
<1>4. CASE ListMessages
  <2>1. /\ phase' = "hydrating" /\ Taken = {}
        /\ seen'.pending = {i \in Inputs : rowSeq[i] # 0} \ promoted
        /\ disturbed' = disturbed \cup Unwritten
        /\ UNCHANGED <<Delivered, Queued, Taken, rowSeq, promoted, sent, lost, queue, delivered>>
    BY <1>4, ListMoves, PlaceTypes DEF FormInv, places
  <2>2. seen'.pending \cap Delivered \subseteq disturbed'
    BY <2>1 DEF OrderedInv, KeptInv
  <2>3. 1 .. sent' \subseteq Known' \cup seen'.pending
    <3>1. \A i \in 1 .. sent : i \in Inputs
      BY PlaceTypes, InputsAssumption DEF Inputs
    <3> QED BY <2>1, <3>1 DEF KeptInv, Known
  <2> QED BY <2>1, <2>2, <2>3, OrderedSame DEF OrderedInv
<1>5. CASE Hydrate
  BY <1>5, OrderedHydrate
<1>6. CASE Turn /\ ~ (step = MaxSteps \/ aborted)
  BY <1>6, OrderedDrain
<1>7. CASE Promote \/ PromoteFails
  <2>1. UNCHANGED <<delivered, queue>>
    BY <1>7 DEF Promote, PromoteFails, hist
  <2>2. Known \subseteq Known' /\ disturbed \subseteq disturbed'
    BY <1>7, PromoteMoves DEF Known
  <2>3. Delivered \ disturbed' \subseteq promoted' \cup lost' \cup Taken'
    BY <1>7, PromoteMoves DEF OrderedInv
  <2> QED BY <1>7, <2>1, <2>2, <2>3, PromoteMoves, OrderedSame DEF OrderedInv
<1>8. CASE Close
  <2>1. queue' = << >> /\ delivered' = delivered
    BY <1>8 DEF Close, hist
  <2>2. Increasing(queue, disturbed)' /\ Increasing(delivered, disturbed)'
    BY <1>8, <2>1, CloseMoves DEF Increasing, OrderedInv
  <2> QED BY <1>8, <2>2, CloseMoves DEF OrderedInv
<1>9. CASE Crash
  <2>1. queue' = << >> /\ delivered' = delivered
    BY <1>9 DEF Crash
  <2>2. Increasing(queue, disturbed)' /\ Increasing(delivered, disturbed)'
    BY <1>9, <2>1, CrashMoves, IncreasingMore DEF Increasing, OrderedInv
  <2> QED BY <1>9, <2>2, CrashMoves DEF OrderedInv
<1> QED BY <1>1, <1>2, <1>3, <1>4, <1>5, <1>6, <1>7, <1>8, <1>9 DEF Next, WriteStep, RunStep

(* What reaches the transcripts is in the order of admission and comes      *)
(* once, but for inputs that a hydration or a fault has disturbed.          *)
THEOREM DeliveredInOrder == Spec => []InOrderOnce
<1>1. OrderedInv => InOrderOnce
  BY DEF OrderedInv, InOrderOnce, Increasing
<1>2. Init => FormInv /\ KeptInv /\ OrderedInv
  BY FormInit, KeptInit, OrderedInit
<1>3. FormInv /\ KeptInv /\ OrderedInv /\ [Next]_vars => (FormInv /\ KeptInv /\ OrderedInv)'
  BY FormNext, KeptNext, OrderedNext
<1> QED BY <1>1, <1>2, <1>3, PTL DEF Spec

(* The order of admission is kept by the store and the transcripts.         *)
THEOREM KeptInOrder == Spec => []OrderIsKept
BY SeqsInOrder, DeliveredInOrder, PTL DEF OrderIsKept

=============================================================================
