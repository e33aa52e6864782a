------------------------ MODULE GraphExecutor_proofs ------------------------
(***************************************************************************)
(* What a walk keeps, for any graph and any number of nodes scheduled: a   *)
(* node is called once, a completed run is a complete one, and one update  *)
(* at most is ahead of the snapshot.                                       *)
(***************************************************************************)
EXTENDS GraphExecutor, FiniteSetTheorems, TLAPS

Distinct(s) == \A i, j \in DOMAIN s : s[i].id = s[j].id => i = j

(* The scheduled ids are distinct and none of them has been called.         *)
Uncalled(s, b, n) == Distinct(s) /\ \A i \in DOMAIN s : b[s[i].id] = 0 /\ s[i].id <= n

SavedNext == IF saved = None THEN << >> ELSE saved.next

OnceInv ==
  /\ Uncalled(SavedNext, begun, issued)
  /\ call.pc # "idle" => Uncalled(call.next, begun, issued) /\ call.result = "none"
  /\ call.pc = "checkpoint" =>
       begun[call.now] = 0 /\ call.now <= issued /\ call.now \notin IdsOf(call.next)
  /\ call.pc \notin {"idle", "closing"} => ~ call.asking
  /\ call.pc = "loading" => call.kind # "run"
  /\ \A i \in Ids : i > issued => begun[i] = 0

(* What has not returned is in the list, or under way.                      *)
WalkInv ==
  call.kind = "run" =>
    /\ call.pc \in {"checkpoint", "node"} => due \subseteq IdsOf(call.next) \cup {call.now}
    /\ call.pc = "recording" => due \subseteq IdsOf(call.next)
    /\ call.pc = "closing" => call.asking \/ due = {}

(* How far the memory of the call is ahead of the snapshot.                 *)
RiskInv ==
  /\ call.pc = "loading" => call.values = {}
  /\ call.pc = "node" => call.values \subseteq SavedValues
  /\ call.pc = "recording" => call.values \ SavedValues \subseteq {call.now}
  /\ call.pc \in {"checkpoint", "closing"} => \E x : call.values \ SavedValues \subseteq {x}

(* In this code it holds of nodes that interrupted, too.                    *)
CalledOnce == \A i \in Ids : begun[i] <= 1

Inv == TypeOK /\ CalledOnce /\ OnceInv /\ WalkInv /\ RunCompletesTheWalk /\ RiskInv

(* Where the loop goes from a call that is well formed.                     *)
LEMMA LoopHeadType ==
  ASSUME NEW c \in Call
  PROVE  /\ LoopHead(c) \in Call
         /\ LoopHead(c).pc \in {"closing", "checkpoint", "idle"}
         /\ LoopHead(c).values = c.values /\ LoopHead(c).asks = c.asks
         /\ LoopHead(c).kind = c.kind /\ LoopHead(c).completed = c.completed
         /\ LoopHead(c).asking = c.asking
         /\ LoopHead(c).pc = "idle" => LoopHead(c).result = "failed"
         /\ LoopHead(c).pc # "idle" => LoopHead(c).result = c.result
         /\ LoopHead(c).pc = "closing" => LoopHead(c).next = << >> /\ c.next = << >>
         /\ LoopHead(c).pc = "checkpoint" =>
              /\ c.next # << >>
              /\ LoopHead(c).now = Head(c.next).id /\ LoopHead(c).now \in Ids
              /\ LoopHead(c).next = Tail(c.next)
<1>1. c.next # << >> => Head(c.next) \in Job /\ Tail(c.next) \in Seq(Job)
  BY DEF Call
<1>2. c.next # << >> => Head(c.next).id \in Ids
  BY <1>1 DEF Job
<1> QED BY <1>1, <1>2 DEF LoopHead, Call, Pc, Result

(* Taking the head of a list of distinct ids.                               *)
LEMMA HeadOfDistinct ==
  ASSUME NEW s \in Seq(Job), s # << >>, Distinct(s)
  PROVE  /\ Distinct(Tail(s))
         /\ Head(s).id \notin IdsOf(Tail(s))
         /\ IdsOf(s) = IdsOf(Tail(s)) \cup {Head(s).id}
         /\ \A i \in DOMAIN Tail(s) : \E j \in DOMAIN s : Tail(s)[i] = s[j]
<1>1. /\ Head(s) = s[1] /\ 1 \in DOMAIN s
      /\ DOMAIN s = 1 .. Len(s) /\ DOMAIN Tail(s) = 1 .. (Len(s) - 1) /\ Len(s) \in Nat
      /\ \A i \in DOMAIN Tail(s) : Tail(s)[i] = s[i + 1] /\ i + 1 \in DOMAIN s
  OBVIOUS
<1>2. \A j \in DOMAIN s : j = 1 \/ (j - 1 \in DOMAIN Tail(s) /\ Tail(s)[j - 1] = s[j])
  BY <1>1
<1>3. Distinct(Tail(s))
  BY <1>1 DEF Distinct
<1>4. Head(s).id \notin IdsOf(Tail(s))
  BY <1>1 DEF Distinct, IdsOf
<1>5. IdsOf(s) = IdsOf(Tail(s)) \cup {Head(s).id}
  <2>1. ASSUME NEW x \in IdsOf(s)
        PROVE  x \in IdsOf(Tail(s)) \cup {Head(s).id}
    <3>1. PICK j \in DOMAIN s : x = s[j].id
      BY DEF IdsOf
    <3>2. CASE j = 1
      BY <3>1, <3>2, <1>1
    <3>3. CASE j # 1
      <4>1. j - 1 \in DOMAIN Tail(s) /\ Tail(s)[j - 1] = s[j]
        BY <1>2, <3>3
      <4> QED BY <3>1, <4>1 DEF IdsOf
    <3> QED BY <3>2, <3>3
  <2>2. \A x \in IdsOf(Tail(s)) \cup {Head(s).id} : x \in IdsOf(s)
    BY <1>1 DEF IdsOf
  <2> QED BY <2>1, <2>2
<1> QED BY <1>1, <1>3, <1>4, <1>5

(* The loop, entered with a list of uncalled nodes.                         *)
LEMMA LoopHeadKeeps ==
  ASSUME NEW c \in Call, NEW b, NEW n, Uncalled(c.next, b, n), NEW d, d = LoopHead(c)
  PROVE  /\ Uncalled(d.next, b, n)
         /\ d.pc = "checkpoint" =>
              b[d.now] = 0 /\ d.now <= n /\ d.now \notin IdsOf(d.next)
         /\ d.pc = "checkpoint" => IdsOf(c.next) = IdsOf(d.next) \cup {d.now}
<1>1. c.next \in Seq(Job)
  BY DEF Call
<1>2. CASE d.pc = "checkpoint"
  <2>1. c.next # << >> /\ d.next = Tail(c.next) /\ d.now = Head(c.next).id
    BY <1>2, LoopHeadType
  <2>2. Head(c.next) = c.next[1] /\ 1 \in DOMAIN c.next
    BY <1>1, <2>1
  <2> QED BY <1>1, <2>1, <2>2, HeadOfDistinct DEF Uncalled
<1>3. CASE d.pc = "closing"
  BY <1>3, LoopHeadType
<1>4. CASE d.pc = "idle"
  <2>1. d.next = c.next
    BY <1>4 DEF LoopHead, Call
  <2> QED BY <2>1, <1>4
<1> QED BY <1>2, <1>3, <1>4, LoopHeadType

LEMMA EmptyIsUncalled == \A b, n : Uncalled(<< >>, b, n)
  BY DEF Uncalled, Distinct

LEMMA JobsOfList ==
  ASSUME NEW s \in Seq(Job)
  PROVE  \A i \in DOMAIN s : s[i] \in Job /\ s[i].id \in Ids
<1>1. \A i \in DOMAIN s : s[i] \in Job
  OBVIOUS
<1> QED BY <1>1 DEF Job

LEMMA UncalledGrows ==
  ASSUME NEW s \in Seq(Job), NEW b, NEW n \in Nat, NEW k \in Nat, n <= k, Uncalled(s, b, n)
  PROVE  Uncalled(s, b, k)
  BY JobsOfList DEF Uncalled, Ids

LEMMA NoCallType == NoCall \in Call
<1>1. << >> \in Seq(Job)
  OBVIOUS
<1> QED BY <1>1 DEF NoCall, Call, Pc, Kind, Result

LEMMA SavedNextType == TypeOK => SavedNext \in Seq(Job)
<1>1. << >> \in Seq(Job)
  OBVIOUS
<1> QED BY <1>1 DEF TypeOK, SavedNext, Snapshot

(* A step that ends at the head of the loop.                                *)
LEMMA LoopStep ==
  ASSUME NEW c \in Call, call' = LoopHead(c), c.result = "none", ~ c.asking,
         Uncalled(c.next, begun', issued'), Uncalled(SavedNext', begun', issued'),
         \A i \in Ids : i > issued' => begun'[i] = 0,
         c.kind = "run" => due' \subseteq IdsOf(c.next),
         \E x : c.values \ SavedValues' \subseteq {x}
  PROVE  OnceInv' /\ WalkInv' /\ RunCompletesTheWalk' /\ RiskInv'
<1>1. /\ Uncalled(call'.next, begun', issued')
      /\ call'.pc = "checkpoint" =>
           /\ begun'[call'.now] = 0 /\ call'.now <= issued' /\ call'.now \notin IdsOf(call'.next)
           /\ IdsOf(c.next) = IdsOf(call'.next) \cup {call'.now}
  BY LoopHeadKeeps
<1>2. /\ call'.pc \in {"closing", "checkpoint", "idle"}
      /\ call'.values = c.values /\ call'.kind = c.kind /\ ~ call'.asking
      /\ call'.pc = "idle" => call'.result = "failed"
      /\ call'.pc # "idle" => call'.result = "none"
      /\ call'.pc = "closing" => c.next = << >>
  BY LoopHeadType
<1>3. OnceInv'
  BY <1>1, <1>2 DEF OnceInv
<1>4. WalkInv'
  <2>1. c.next = << >> => IdsOf(c.next) = {}
    BY DEF IdsOf
  <2> QED BY <1>1, <1>2, <2>1 DEF WalkInv
<1>5. RunCompletesTheWalk'
  BY <1>2 DEF RunCompletesTheWalk
<1>6. RiskInv'
  BY <1>2 DEF RiskInv
<1> QED BY <1>3, <1>4, <1>5, <1>6

LEMMA InitInv == Init => Inv
<1> SUFFICES ASSUME Init PROVE Inv
  OBVIOUS
<1>1. TypeOK
  BY MaxIssuedAssumption DEF Init, TypeOK, NoCall, Call, Pc, Kind, Result, Ids
<1>2. CalledOnce /\ RunCompletesTheWalk /\ WalkInv /\ RiskInv
  BY DEF Init, NoCall, CalledOnce, RunCompletesTheWalk, WalkInv, RiskInv
<1>3. OnceInv
  BY EmptyIsUncalled DEF Init, NoCall, OnceInv, SavedNext
<1> QED BY <1>1, <1>2, <1>3 DEF Inv

LEMMA ChainType ==
  ASSUME NEW c, NEW d, d = LoopHead(c), c \in Call
  PROVE  d \in Call /\ d.pc = "checkpoint" => d.now \in Ids
  BY LoopHeadType

LEMMA PutType == TypeOK /\ Put => saved' \in Snapshot
  BY DEF TypeOK, Put, Call, Snapshot

(* The same without a call of a node: the whole invariant.                  *)
LEMMA LoopInv ==
  ASSUME Inv, NEW c \in Call, call' = LoopHead(c), c.result = "none", ~ c.asking,
         saved' \in Snapshot \cup {None}, due' \subseteq Ids, begun' = begun, asked' = asked,
         issued' \in 0 .. MaxIssued, issued <= issued',
         Uncalled(c.next, begun, issued'), Uncalled(SavedNext', begun, issued),
         c.kind = "run" => due' \subseteq IdsOf(c.next),
         \E x : c.values \ SavedValues' \subseteq {x}
  PROVE  Inv'
<1>1. issued \in Nat /\ issued' \in Nat
  BY MaxIssuedAssumption DEF Inv, TypeOK
<1>2. SavedNext' \in Seq(Job)
  <2>1. << >> \in Seq(Job)
    OBVIOUS
  <2> QED BY <2>1 DEF SavedNext, Snapshot
<1>3. Uncalled(SavedNext', begun', issued')
  BY <1>1, <1>2, UncalledGrows
<1>4. \A i \in Ids : i > issued' => begun'[i] = 0
  BY <1>1 DEF Inv, OnceInv, Ids
<1>5. OnceInv' /\ WalkInv' /\ RunCompletesTheWalk' /\ RiskInv'
  BY <1>3, <1>4, LoopStep
<1>6. TypeOK' /\ CalledOnce'
  BY LoopHeadType DEF Inv, TypeOK, CalledOnce
<1> QED BY <1>5, <1>6 DEF Inv

LEMMA RunInv ==
  ASSUME Inv, NEW n \in Nodes, Run(n)
  PROVE  Inv'
<1> DEFINE c == [NoCall EXCEPT !.next = <<Entry(issued + 1, n)>>]
<1>1. /\ issued + 1 \in Ids /\ issued \in Nat /\ issued' = issued + 1 /\ begun' = begun
      /\ saved' = saved /\ asked' = asked /\ begun \in [Ids -> Nat] /\ call' = LoopHead(c) /\ due' = {issued + 1}
  BY MaxIssuedAssumption DEF Inv, TypeOK, Run, Ids
<1>2. /\ c.next = <<Entry(issued + 1, n)>> /\ Entry(issued + 1, n) \in Job
      /\ Entry(issued + 1, n).id = issued + 1
      /\ c.result = "none" /\ ~ c.asking /\ c.kind = "run" /\ c.values = {}
  BY <1>1 DEF NoCall, Entry, Job
<1>3. c \in Call
  <2>1. <<Entry(issued + 1, n)>> \in Seq(Job)
    BY <1>2
  <2> QED BY <2>1 DEF NoCall, Call, Pc, Kind, Result
<1>4. DOMAIN c.next = {1} /\ c.next[1].id = issued + 1
  BY <1>2
<1> HIDE DEF c
<1>5. Uncalled(c.next, begun, issued') /\ IdsOf(c.next) = {issued + 1}
  BY <1>1, <1>4 DEF Inv, OnceInv, Uncalled, Distinct, IdsOf
<1>6. Uncalled(SavedNext', begun, issued)
  BY <1>1 DEF Inv, OnceInv, SavedNext
<1>7. saved' \in Snapshot \cup {None} /\ issued' \in 0 .. MaxIssued /\ issued <= issued'
  BY <1>1, MaxIssuedAssumption DEF Inv, TypeOK, Ids
<1> QED BY <1>1, <1>2, <1>3, <1>5, <1>6, <1>7, LoopInv

LEMMA ReloadInv ==
  ASSUME Inv, NEW kind \in {"rerun", "resume"}, Reload(kind)
  PROVE  Inv'
<1>1. /\ call'.pc = "loading" /\ call'.kind = kind /\ call'.result = "none"
      /\ call'.values = {} /\ call'.next = << >> /\ ~ call'.asking
      /\ UNCHANGED <<saved, issued, begun, due, asked>>
  BY DEF Reload, NoCall
<1>2. TypeOK'
  <2>1. call' \in Call
    BY NoCallType DEF Reload, Call, Pc, Kind
  <2> QED BY <1>1, <2>1 DEF Inv, TypeOK
<1>3. OnceInv'
  BY <1>1, EmptyIsUncalled DEF Inv, OnceInv, SavedNext
<1> QED BY <1>1, <1>2, <1>3 DEF Inv, CalledOnce, WalkInv, RunCompletesTheWalk, RiskInv

LEMMA SeedInv ==
  ASSUME Inv, NEW m \in Nodes, NEW n \in Nodes, Seed(m, n)
  PROVE  Inv'
<1> DEFINE s == <<Entry(issued + 1, m), Entry(issued + 2, n)>>
<1>1. /\ issued \in Nat /\ issued + 1 \in Ids /\ issued + 2 \in Ids /\ issued' = issued + 2
      /\ begun' = begun /\ asked' = asked /\ begun \in [Ids -> Nat] /\ call' = NoCall /\ due' = IdsOf(s)
      /\ saved' = [values |-> {}, next |-> s, asks |-> {}]
  BY MaxIssuedAssumption DEF Inv, TypeOK, Seed, Ids
<1>2. /\ s \in Seq(Job) /\ DOMAIN s = {1, 2}
      /\ s[1].id = issued + 1 /\ s[2].id = issued + 2
  BY <1>1 DEF Entry, Job
<1> HIDE DEF s
<1>3. saved' \in Snapshot /\ saved' # None /\ saved'.next = s
  BY <1>1, <1>2, NoneAssumption DEF Snapshot
<1>4. IdsOf(s) \subseteq Ids
  BY <1>1, <1>2 DEF IdsOf
<1>5. Uncalled(s, begun', issued')
  BY <1>1, <1>2 DEF Inv, OnceInv, Uncalled, Distinct
<1>6. TypeOK'
  <2>1. NoCall.pc = "idle"
    BY DEF NoCall
  <2> QED BY <1>1, <1>3, <1>4, <2>1, NoCallType, MaxIssuedAssumption DEF Inv, TypeOK, Ids
<1>7. OnceInv'
  <2>1. SavedNext' = s /\ call'.pc = "idle"
    BY <1>1, <1>3 DEF SavedNext, NoCall
  <2>2. \A i \in Ids : i > issued' => begun'[i] = 0
    BY <1>1 DEF Inv, OnceInv, Ids
  <2> QED BY <1>5, <2>1, <2>2 DEF OnceInv
<1> QED BY <1>1, <1>6, <1>7
        DEF Inv, CalledOnce, WalkInv, RunCompletesTheWalk, RiskInv, NoCall

(* Loading a snapshot, with or without an update of the host.               *)
LEMMA LoadedFacts ==
  ASSUME Inv, saved # None, call.pc = "loading"
  PROVE  /\ Loaded \in Call /\ Loaded.values = saved.values /\ Loaded.next = saved.next
         /\ Loaded.result = "none" /\ ~ Loaded.asking /\ Loaded.kind = call.kind
  BY DEF Inv, TypeOK, OnceInv, Loaded, Call, Snapshot

LEMMA LoadInv ==
  ASSUME Inv, Load
  PROVE  Inv'
<1>1. /\ saved # None /\ call.pc = "loading" /\ call' = LoopHead(Loaded)
      /\ UNCHANGED <<saved, issued, begun, due, asked>>
  BY DEF Load
<1>2. /\ Uncalled(SavedNext, begun, issued) /\ SavedNext = saved.next /\ SavedNext' = SavedNext
      /\ call.kind # "run" /\ SavedValues' = saved.values
  BY <1>1 DEF Inv, OnceInv, SavedNext, SavedValues
<1>3. \E x : Loaded.values \ SavedValues' \subseteq {x}
  BY <1>1, <1>2, LoadedFacts
<1>4. /\ saved' \in Snapshot \cup {None} /\ due' \subseteq Ids
      /\ issued' \in 0 .. MaxIssued /\ issued <= issued'
  BY <1>1, MaxIssuedAssumption DEF Inv, TypeOK
<1> QED BY <1>1, <1>2, <1>3, <1>4, LoadedFacts, LoopInv

LEMMA LoadAndUpdateInv ==
  ASSUME Inv, LoadAndUpdate
  PROVE  Inv'
<1> DEFINE c == [Loaded EXCEPT !.values = @ \cup {issued + 1}]
<1>1. /\ saved # None /\ call.pc = "loading" /\ call' = LoopHead(c) /\ issued' = issued + 1
      /\ issued < MaxIssued /\ UNCHANGED <<saved, begun, due, asked>>
  BY DEF LoadAndUpdate
<1>2. issued \in Nat /\ issued + 1 \in Ids
  BY <1>1, MaxIssuedAssumption DEF Inv, TypeOK, Ids
<1>3. /\ c \in Call /\ c.values = saved.values \cup {issued + 1} /\ c.next = saved.next
      /\ c.result = "none" /\ ~ c.asking /\ c.kind = call.kind
  BY <1>1, <1>2, LoadedFacts DEF Call
<1> HIDE DEF c
<1>4. /\ Uncalled(SavedNext, begun, issued) /\ SavedNext = saved.next /\ SavedNext' = SavedNext
      /\ call.kind # "run" /\ SavedValues' = saved.values
  BY <1>1 DEF Inv, OnceInv, SavedNext, SavedValues
<1>5. Uncalled(c.next, begun, issued')
  BY <1>1, <1>2, <1>3, <1>4, SavedNextType, UncalledGrows DEF Inv
<1>6. c.values \ SavedValues' \subseteq {issued + 1}
  BY <1>3, <1>4
<1>7. /\ saved' \in Snapshot \cup {None} /\ due' \subseteq Ids
      /\ issued' \in 0 .. MaxIssued /\ issued <= issued'
  BY <1>1, <1>2, MaxIssuedAssumption DEF Inv, TypeOK
<1> QED BY <1>1, <1>3, <1>4, <1>5, <1>6, <1>7, LoopInv

LEMMA BeginInv ==
  ASSUME Inv, Begin
  PROVE  Inv'
<1>1. /\ call.pc = "checkpoint" /\ call.now \in Ids /\ call \in Call
      /\ saved' = [values |-> call.values, next |-> call.next, asks |-> call.asks]
      /\ call' = [call EXCEPT !.pc = "node"] /\ begun \in [Ids -> Nat]
      /\ begun' = [begun EXCEPT ![call.now] = @ + 1]
      /\ UNCHANGED <<issued, due, asked>>
  BY DEF Begin, Put, Inv, TypeOK
<1>2. saved' \in Snapshot /\ saved' # None
  BY <1>1, PutType, NoneAssumption DEF Inv, Begin
<1>3. /\ call' \in Call /\ call'.pc = "node" /\ call'.now = call.now /\ call'.next = call.next
      /\ call'.values = call.values /\ call'.result = call.result /\ call'.kind = call.kind
      /\ call'.asking = call.asking
  BY <1>1 DEF Call, Pc
<1>4. begun[call.now] = 0 /\ call.now <= issued /\ call.now \notin IdsOf(call.next)
  BY <1>1 DEF Inv, OnceInv
<1>5. begun' \in [Ids -> Nat] /\ begun'[call.now] = 1 /\
      \A i \in Ids : i # call.now => begun'[i] = begun[i]
  BY <1>1, <1>4
<1>6. Uncalled(call.next, begun', issued')
  <2>1. call.next \in Seq(Job) /\ Uncalled(call.next, begun, issued)
    BY <1>1 DEF Call, Inv, OnceInv
  <2>2. \A i \in DOMAIN call.next : call.next[i].id # call.now
    BY <1>4 DEF IdsOf
  <2> QED BY <1>1, <1>5, <2>1, <2>2, JobsOfList DEF Uncalled
<1>7. SavedNext' = call.next /\ SavedValues' = call.values
  BY <1>1, <1>2 DEF SavedNext, SavedValues
<1>8. \A i \in Ids : i > issued' => begun'[i] = 0
  <2>1. \A i \in Ids : i > issued => i # call.now
    BY <1>1, <1>4, MaxIssuedAssumption DEF Ids, Inv, TypeOK
  <2> QED BY <1>1, <1>5, <2>1 DEF Inv, OnceInv
<1>9. OnceInv'
  BY <1>1, <1>3, <1>6, <1>7, <1>8 DEF Inv, OnceInv
<1>10. TypeOK' /\ CalledOnce'
  BY <1>1, <1>2, <1>3, <1>4, <1>5 DEF Inv, TypeOK, CalledOnce
<1>11. WalkInv' /\ RunCompletesTheWalk' /\ RiskInv'
  BY <1>1, <1>3, <1>7
     DEF Inv, OnceInv, WalkInv, RunCompletesTheWalk, RiskInv
<1> QED BY <1>9, <1>10, <1>11 DEF Inv

(* Merging the update of the node that was called.                          *)
LEMMA MergeFacts ==
  ASSUME Inv, call.pc = "node", NEW u \in BOOLEAN
  PROVE  /\ call \in Call /\ call.now \in Ids /\ call.values \subseteq SavedValues
         /\ Merge(u) \subseteq Ids /\ Merge(u) \ SavedValues \subseteq {call.now}
  BY DEF Inv, TypeOK, RiskInv, Merge, Call

LEMMA ReturnsInv ==
  ASSUME Inv, Returns
  PROVE  Inv'
<1>1. /\ call.pc = "node" /\ due' = due \ {call.now} /\ UNCHANGED <<saved, issued, begun, asked>>
      /\ call' = [call EXCEPT !.pc = "recording", !.values = Merge(TRUE)]
  BY DEF Returns
<1>2. /\ call' \in Call /\ call'.pc = "recording" /\ call'.values = Merge(TRUE)
      /\ call'.next = call.next /\ call'.now = call.now /\ call'.kind = call.kind
      /\ call'.asking = call.asking /\ call'.result = call.result
  BY <1>1, MergeFacts DEF Call, Pc
<1>3. TypeOK' /\ CalledOnce'
  BY <1>1, <1>2 DEF Inv, TypeOK, CalledOnce
<1>4. OnceInv' /\ WalkInv' /\ RunCompletesTheWalk'
  BY <1>1, <1>2 DEF Inv, OnceInv, WalkInv, RunCompletesTheWalk, SavedNext
<1>5. RiskInv'
  BY <1>1, <1>2, MergeFacts DEF RiskInv, SavedValues
<1> QED BY <1>3, <1>4, <1>5 DEF Inv

LEMMA RecordedInv ==
  ASSUME Inv, Recorded
  PROVE  Inv'
<1> DEFINE c == [call EXCEPT !.completed = (call.next = << >>)]
<1>1. /\ call.pc = "recording" /\ call \in Call /\ call' = LoopHead(c)
      /\ saved' = [values |-> call.values, next |-> call.next, asks |-> call.asks]
      /\ UNCHANGED <<issued, begun, due, asked>>
  BY DEF Recorded, Put, Inv, TypeOK
<1>2. saved' \in Snapshot /\ saved' # None
  BY PutType, NoneAssumption DEF Inv, Recorded
<1>3. /\ c \in Call /\ c.values = call.values /\ c.next = call.next /\ c.kind = call.kind
      /\ c.asking = call.asking /\ c.result = call.result
  BY <1>1 DEF Call
<1> HIDE DEF c
<1>4. Uncalled(call.next, begun, issued) /\ call.result = "none" /\ ~ call.asking
  BY <1>1 DEF Inv, OnceInv
<1>5. SavedNext' = call.next /\ SavedValues' = call.values
  BY <1>1, <1>2 DEF SavedNext, SavedValues
<1>6. c.kind = "run" => due' \subseteq IdsOf(c.next)
  BY <1>1, <1>3 DEF Inv, WalkInv
<1>7. c.values \ SavedValues' \subseteq {0}
  BY <1>3, <1>5
<1>8. due' \subseteq Ids /\ issued' \in 0 .. MaxIssued /\ issued <= issued'
  BY <1>1, MaxIssuedAssumption DEF Inv, TypeOK
<1> QED BY <1>1, <1>2, <1>3, <1>4, <1>5, <1>6, <1>7, <1>8, LoopInv

LEMMA CommandsInv ==
  ASSUME Inv, NEW u \in BOOLEAN, NEW r \in BOOLEAN, Commands(u, r)
  PROVE  Inv'
<1> DEFINE c == [call EXCEPT
                   !.values    = Merge(u),
                   !.completed = IF u \/ r THEN call.next = << >> ELSE @]
<1>1. /\ call.pc = "node" /\ call' = LoopHead(c) /\ due' = due \ {call.now}
      /\ UNCHANGED <<saved, issued, begun, asked>>
  BY DEF Commands
<1>2. /\ c \in Call /\ c.values = Merge(u) /\ c.next = call.next /\ c.kind = call.kind
      /\ c.asking = call.asking /\ c.result = call.result
  BY <1>1, MergeFacts DEF Call
<1> HIDE DEF c
<1>3. Uncalled(call.next, begun, issued) /\ call.result = "none" /\ ~ call.asking
  BY <1>1 DEF Inv, OnceInv
<1>4. Uncalled(SavedNext', begun, issued) /\ SavedValues' = SavedValues
  BY <1>1 DEF Inv, OnceInv, SavedNext, SavedValues
<1>5. c.kind = "run" => due' \subseteq IdsOf(c.next)
  BY <1>1, <1>2 DEF Inv, WalkInv
<1>6. c.values \ SavedValues' \subseteq {call.now}
  BY <1>1, <1>2, <1>4, MergeFacts
<1>7. /\ saved' \in Snapshot \cup {None} /\ due' \subseteq Ids
      /\ issued' \in 0 .. MaxIssued /\ issued <= issued'
  BY <1>1, MaxIssuedAssumption DEF Inv, TypeOK
<1> QED BY <1>1, <1>2, <1>3, <1>4, <1>5, <1>6, <1>7, LoopInv

(* A new id in front of a list of uncalled ones.                            *)
LEMMA UncalledInFront ==
  ASSUME NEW s \in Seq(Job), NEW e \in Job, NEW b, NEW n \in Nat,
         Uncalled(s, b, n), e.id = n + 1, b[n + 1] = 0
  PROVE  /\ <<e>> \o s \in Seq(Job)
         /\ Uncalled(<<e>> \o s, b, n + 1)
         /\ IdsOf(<<e>> \o s) = IdsOf(s) \cup {n + 1}
<1> DEFINE t == <<e>> \o s
<1>1. /\ t \in Seq(Job) /\ DOMAIN t = 1 .. (Len(s) + 1) /\ DOMAIN s = 1 .. Len(s)
      /\ Len(s) \in Nat /\ t[1] = e
      /\ \A i \in DOMAIN t : i # 1 => t[i] = s[i - 1] /\ i - 1 \in DOMAIN s
      /\ \A i \in DOMAIN s : t[i + 1] = s[i] /\ i + 1 \in DOMAIN t
  OBVIOUS
<1> HIDE DEF t
<1>2. \A i \in DOMAIN s : s[i].id \in Ids /\ s[i].id <= n /\ b[s[i].id] = 0
  BY JobsOfList DEF Uncalled
<1>3. Distinct(t)
  <2>1. ASSUME NEW i \in DOMAIN t, NEW j \in DOMAIN t, t[i].id = t[j].id
        PROVE  i = j
    <3>1. CASE i = 1
      BY <2>1, <3>1, <1>1, <1>2 DEF Ids
    <3>2. CASE j = 1
      BY <2>1, <3>2, <1>1, <1>2 DEF Ids
    <3>3. CASE i # 1 /\ j # 1
      <4>1. i - 1 = j - 1
        BY <2>1, <3>3, <1>1 DEF Uncalled, Distinct
      <4> QED BY <4>1, <1>1
    <3> QED BY <3>1, <3>2, <3>3
  <2> QED BY <2>1 DEF Distinct
<1>4. \A i \in DOMAIN t : b[t[i].id] = 0 /\ t[i].id <= n + 1
  <2>1. ASSUME NEW i \in DOMAIN t
        PROVE  b[t[i].id] = 0 /\ t[i].id <= n + 1
    <3>1. CASE i = 1
      BY <3>1, <1>1
    <3>2. CASE i # 1
      <4>1. i - 1 \in DOMAIN s /\ t[i] = s[i - 1]
        BY <3>2, <1>1
      <4> QED BY <4>1, <1>2 DEF Ids
    <3> QED BY <3>1, <3>2
  <2> QED BY <2>1
<1>5. IdsOf(t) = IdsOf(s) \cup {n + 1}
  <2>1. ASSUME NEW x \in IdsOf(t) PROVE x \in IdsOf(s) \cup {n + 1}
    <3>1. PICK i \in DOMAIN t : x = t[i].id
      BY DEF IdsOf
    <3>2. CASE i = 1
      BY <3>1, <3>2, <1>1
    <3>3. CASE i # 1
      <4>1. i - 1 \in DOMAIN s /\ x = s[i - 1].id
        BY <3>1, <3>3, <1>1
      <4> QED BY <4>1 DEF IdsOf
    <3> QED BY <3>2, <3>3
  <2>2. ASSUME NEW x \in IdsOf(s) \cup {n + 1} PROVE x \in IdsOf(t)
    <3>1. CASE x = n + 1
      <4>1. 1 \in DOMAIN t /\ t[1].id = x
        BY <3>1, <1>1
      <4> QED BY <4>1 DEF IdsOf
    <3>2. CASE x \in IdsOf(s)
      <4>1. PICK i \in DOMAIN s : x = s[i].id
        BY <3>2 DEF IdsOf
      <4>2. i + 1 \in DOMAIN t /\ t[i + 1].id = x
        BY <4>1, <1>1
      <4> QED BY <4>2 DEF IdsOf
    <3> QED BY <3>1, <3>2
  <2> QED BY <2>1, <2>2
<1> QED BY <1>1, <1>3, <1>4, <1>5 DEF Uncalled, t

LEMMA GoesToInv ==
  ASSUME Inv, NEW n \in Nodes, NEW u \in BOOLEAN, GoesTo(n, u)
  PROVE  Inv'
<1> DEFINE list == <<Entry(issued + 1, n)>> \o call.next
           c == [call EXCEPT !.values = Merge(u), !.next = list, !.completed = FALSE]
<1>1. /\ call.pc = "node" /\ call' = LoopHead(c) /\ due' = (due \ {call.now}) \cup {issued + 1}
      /\ issued < MaxIssued /\ issued' = issued + 1 /\ UNCHANGED <<saved, begun, asked>>
  BY DEF GoesTo
<1>2. issued \in Nat /\ issued + 1 \in Ids /\ issued' \in 0 .. MaxIssued /\ issued <= issued'
  BY <1>1, MaxIssuedAssumption DEF Inv, TypeOK, Ids
<1>3. Uncalled(call.next, begun, issued) /\ call.result = "none" /\ ~ call.asking
  BY <1>1 DEF Inv, OnceInv
<1>4. /\ list \in Seq(Job) /\ Uncalled(list, begun, issued')
      /\ IdsOf(list) = IdsOf(call.next) \cup {issued + 1}
  <2>1. Entry(issued + 1, n) \in Job /\ Entry(issued + 1, n).id = issued + 1
    BY <1>2 DEF Entry, Job
  <2>2. call.next \in Seq(Job) /\ begun[issued + 1] = 0
    BY <1>2 DEF Inv, TypeOK, OnceInv, Call
  <2> QED BY <1>1, <1>2, <1>3, <2>1, <2>2, UncalledInFront
<1> HIDE DEF list
<1>5. /\ c \in Call /\ c.values = Merge(u) /\ c.next = list /\ c.kind = call.kind
      /\ c.asking = call.asking /\ c.result = call.result
  BY <1>1, <1>4, MergeFacts DEF Call
<1> HIDE DEF c
<1>6. Uncalled(SavedNext', begun, issued) /\ SavedValues' = SavedValues
  BY <1>1 DEF Inv, OnceInv, SavedNext, SavedValues
<1>7. c.kind = "run" => due' \subseteq IdsOf(c.next)
  BY <1>1, <1>4, <1>5 DEF Inv, WalkInv
<1>8. c.values \ SavedValues' \subseteq {call.now}
  BY <1>1, <1>5, <1>6, MergeFacts
<1>9. saved' \in Snapshot \cup {None} /\ due' \subseteq Ids
  BY <1>1, <1>2 DEF Inv, TypeOK
<1> QED BY <1>1, <1>2, <1>3, <1>4, <1>5, <1>6, <1>7, <1>8, <1>9, LoopInv

LEMMA InterruptsInv ==
  ASSUME Inv, Interrupts
  PROVE  Inv'
<1>1. /\ call.pc = "node" /\ call \in Call /\ call.now \in Ids
      /\ call' = [call EXCEPT !.pc        = "closing",
                              !.asks      = IF call.kind = "resume" THEN @ ELSE @ \cup {call.now},
                              !.completed = FALSE,
                              !.asking    = TRUE]
      /\ asked' = asked \cup {call.now} /\ UNCHANGED <<saved, issued, begun, due>>
  BY DEF Interrupts, Inv, TypeOK
<1>2. /\ call' \in Call /\ call'.pc = "closing" /\ call'.values = call.values /\ call'.asking
      /\ call'.next = call.next /\ call'.kind = call.kind /\ call'.result = call.result
  BY <1>1 DEF Call, Pc
<1>3. TypeOK' /\ CalledOnce'
  BY <1>1, <1>2 DEF Inv, TypeOK, CalledOnce
<1>4. OnceInv' /\ WalkInv' /\ RunCompletesTheWalk'
  BY <1>1, <1>2 DEF Inv, OnceInv, WalkInv, RunCompletesTheWalk, SavedNext
<1>5. RiskInv'
  BY <1>1, <1>2 DEF Inv, RiskInv, SavedValues
<1> QED BY <1>3, <1>4, <1>5 DEF Inv

LEMMA ClosedInv ==
  ASSUME Inv, Closed
  PROVE  Inv'
<1>1. /\ call.pc = "closing" /\ call \in Call
      /\ saved' = [values |-> call.values, next |-> call.next, asks |-> call.asks]
      /\ call' = [call EXCEPT !.pc = "idle", !.result = Outcome]
      /\ UNCHANGED <<issued, begun, due, asked>>
  BY DEF Closed, Put, Inv, TypeOK
<1>2. saved' \in Snapshot /\ saved' # None
  BY PutType, NoneAssumption DEF Inv, Closed
<1>3. /\ call' \in Call /\ call'.pc = "idle" /\ call'.kind = call.kind
      /\ call'.result = "completed" => ~ call.asking
  BY <1>1 DEF Call, Pc, Result, Outcome
<1>4. SavedNext' = call.next
  BY <1>1, <1>2 DEF SavedNext
<1>5. TypeOK' /\ CalledOnce'
  BY <1>1, <1>2, <1>3 DEF Inv, TypeOK, CalledOnce
<1>6. OnceInv' /\ WalkInv' /\ RunCompletesTheWalk' /\ RiskInv'
  BY <1>1, <1>3, <1>4 DEF Inv, OnceInv, WalkInv, RunCompletesTheWalk, RiskInv
<1> QED BY <1>5, <1>6 DEF Inv

LEMMA DiesInv ==
  ASSUME Inv, Dies
  PROVE  Inv'
<1>1. /\ call' \in Call /\ call'.pc = "idle" /\ call'.result = "failed"
      /\ UNCHANGED <<saved, issued, begun, due, asked>>
  BY DEF Dies, Inv, TypeOK, Call, Pc, Result
<1> QED BY <1>1 DEF Inv, TypeOK, CalledOnce, OnceInv, WalkInv, RunCompletesTheWalk, RiskInv, SavedNext

LEMMA StutterInv ==
  ASSUME Inv, UNCHANGED vars
  PROVE  Inv'
  BY DEF vars, Inv, TypeOK, CalledOnce, OnceInv, WalkInv, RunCompletesTheWalk, RiskInv,
         SavedNext, SavedValues

LEMMA NextInv ==
  ASSUME Inv, [Next]_vars
  PROVE  Inv'
  BY RunInv, ReloadInv, SeedInv, LoadInv, LoadAndUpdateInv, BeginInv, ReturnsInv, RecordedInv,
     CommandsInv, GoesToInv, InterruptsInv, ClosedInv, DiesInv, StutterInv DEF Next

(* The invariant is inductive over every put, return, fault and call.       *)
THEOREM InvariantHolds == Spec => []Inv
<1>1. Inv /\ [Next]_vars => Inv'
  BY NextInv
<1> QED BY InitInv, <1>1, PTL DEF Spec

(* Types, for every graph and every number of scheduled nodes.              *)
THEOREM TypesHold == Spec => []TypeOK
<1>1. Inv => TypeOK
  BY DEF Inv
<1> QED BY InvariantHolds, <1>1, PTL

(* No node that was scheduled once is called twice (executor.ts:101-117).   *)
THEOREM CalledAtMostOnce == Spec => []AtMostOnce
<1>1. Inv => AtMostOnce
  BY DEF Inv, CalledOnce, AtMostOnce
<1> QED BY InvariantHolds, <1>1, PTL

(* A run from its entry node that reports completed called every node.      *)
THEOREM CompletedRunIsComplete == Spec => []RunCompletesTheWalk
<1>1. Inv => RunCompletesTheWalk
  BY DEF Inv
<1> QED BY InvariantHolds, <1>1, PTL

(* A call that dies loses one update at most (executor.ts:112-151).         *)
THEOREM LosesOneUpdate == Spec => []OneUpdateAtRisk
<1>1. Inv => OneUpdateAtRisk
  <2>1. SUFFICES ASSUME Inv, call.pc # "idle"
                 PROVE  Cardinality(call.values \ SavedValues) <= 1
    BY DEF OneUpdateAtRisk
  <2>2. PICK x : call.values \ SavedValues \subseteq {x}
    BY <2>1 DEF Inv, TypeOK, Call, Pc, RiskInv
  <2>3. Cardinality({}) = 0 /\ Cardinality({x}) = 1
    BY FS_EmptySet, FS_Singleton
  <2> QED BY <2>2, <2>3
<1> QED BY InvariantHolds, <1>1, PTL

----------------------------------------------------------------------------
(* What a call from a snapshot has in memory, and how a call closes.        *)
CloseInv ==
  /\ call.kind # "run" /\ call.pc \notin {"idle", "loading"} =>
       saved # None /\ saved.values \subseteq call.values
  /\ call.pc = "closing" /\ ~ call.asking => call.next = << >>
  /\ call.pc = "closing" /\ call.asking /\ call.kind # "resume" => call.now \in call.asks

KeepInv == Inv /\ CloseInv /\ SnapshotIsTheResult

(* A step that ends at the head of the loop.                                *)
LEMMA LoopCloses ==
  ASSUME NEW c \in Call, call' = LoopHead(c), ~ c.asking, c.result = "none",
         c.kind # "run" => saved' # None /\ saved'.values \subseteq c.values
  PROVE  CloseInv' /\ SnapshotIsTheResult'
<1>1. /\ call'.pc \in {"closing", "checkpoint", "idle"}
      /\ call'.values = c.values /\ call'.kind = c.kind /\ ~ call'.asking
      /\ call'.pc = "idle" => call'.result = "failed"
      /\ call'.pc = "closing" => call'.next = << >>
  BY LoopHeadType
<1> QED BY <1>1 DEF CloseInv, SnapshotIsTheResult

LEMMA NextKeeps ==
  ASSUME KeepInv, [Next]_vars
  PROVE  CloseInv' /\ SnapshotIsTheResult'
<1> USE DEF KeepInv
<1>1. ASSUME NEW n \in Nodes, Run(n) PROVE CloseInv' /\ SnapshotIsTheResult'
  <2> DEFINE c == [NoCall EXCEPT !.next = <<Entry(issued + 1, n)>>]
  <2>1. call' = LoopHead(c) /\ issued + 1 \in Ids
    BY <1>1, MaxIssuedAssumption DEF Run, Inv, TypeOK, Ids
  <2>2. c \in Call
    <3>1. <<Entry(issued + 1, n)>> \in Seq(Job)
      BY <2>1 DEF Entry, Job
    <3> QED BY <3>1 DEF NoCall, Call, Pc, Kind, Result
  <2>3. c.kind = "run" /\ ~ c.asking /\ c.result = "none"
    BY DEF NoCall
  <2> QED BY <2>1, <2>2, <2>3, LoopCloses
<1>2. ASSUME NEW kind \in {"rerun", "resume"}, Reload(kind)
      PROVE  CloseInv' /\ SnapshotIsTheResult'
  BY <1>2 DEF Reload, NoCall, CloseInv, SnapshotIsTheResult
<1>3. ASSUME NEW m \in Nodes, NEW n \in Nodes, Seed(m, n)
      PROVE  CloseInv' /\ SnapshotIsTheResult'
  BY <1>3 DEF Seed, NoCall, CloseInv, SnapshotIsTheResult
<1>4. CASE Load
  BY <1>4, LoadedFacts, LoopCloses DEF Load
<1>5. CASE LoadAndUpdate
  <2> DEFINE c == [Loaded EXCEPT !.values = @ \cup {issued + 1}]
  <2>1. /\ saved # None /\ saved' = saved /\ call' = LoopHead(c) /\ issued + 1 \in Ids
        /\ call.pc = "loading"
    BY <1>5, MaxIssuedAssumption DEF LoadAndUpdate, Inv, TypeOK, Ids
  <2>2. /\ c \in Call /\ c.values = saved.values \cup {issued + 1}
        /\ c.result = "none" /\ ~ c.asking
    BY <2>1, LoadedFacts DEF Call
  <2> QED BY <2>1, <2>2, LoopCloses
<1>6. CASE Begin
  <2>1. saved' # None
    BY <1>6, PutType, NoneAssumption DEF Begin, Inv
  <2> QED BY <1>6, <2>1 DEF Begin, Put, Inv, TypeOK, Call, CloseInv, SnapshotIsTheResult
<1>7. CASE Returns
  BY <1>7 DEF Returns, Merge, Inv, TypeOK, Call, CloseInv, SnapshotIsTheResult
<1>8. CASE Recorded
  <2> DEFINE c == [call EXCEPT !.completed = (call.next = << >>)]
  <2>1. saved' # None /\ saved'.values = call.values
    BY <1>8, PutType, NoneAssumption DEF Recorded, Put, Inv
  <2>2. /\ c \in Call /\ c.values = call.values /\ c.asking = call.asking
        /\ c.result = call.result /\ call' = LoopHead(c) /\ ~ call.asking /\ call.result = "none"
    BY <1>8 DEF Recorded, Inv, TypeOK, OnceInv, Call
  <2> QED BY <2>1, <2>2, LoopCloses
<1>9. ASSUME NEW u \in BOOLEAN, NEW r \in BOOLEAN, Commands(u, r)
      PROVE  CloseInv' /\ SnapshotIsTheResult'
  <2> DEFINE c == [call EXCEPT
                     !.values    = Merge(u),
                     !.completed = IF u \/ r THEN call.next = << >> ELSE @]
  <2>1. call.pc = "node" /\ call' = LoopHead(c) /\ saved' = saved
    BY <1>9 DEF Commands
  <2>2. /\ c \in Call /\ c.values = Merge(u) /\ c.asking = call.asking
        /\ c.result = call.result /\ c.kind = call.kind
    BY <2>1, MergeFacts DEF Call
  <2>3. /\ ~ call.asking /\ call.result = "none" /\ call.values \subseteq Merge(u)
        /\ call.kind # "run" => saved # None /\ saved.values \subseteq call.values
    BY <2>1 DEF Inv, OnceInv, CloseInv, Merge
  <2> HIDE DEF c
  <2> QED BY <2>1, <2>2, <2>3, LoopCloses
<1>10. ASSUME NEW n \in Nodes, NEW u \in BOOLEAN, GoesTo(n, u)
       PROVE  CloseInv' /\ SnapshotIsTheResult'
  <2> DEFINE list == <<Entry(issued + 1, n)>> \o call.next
             c == [call EXCEPT !.values = Merge(u), !.next = list, !.completed = FALSE]
  <2>1. call.pc = "node" /\ call' = LoopHead(c) /\ saved' = saved
    BY <1>10 DEF GoesTo
  <2>2. list \in Seq(Job)
    <3>1. issued + 1 \in Ids
      BY <1>10, MaxIssuedAssumption DEF GoesTo, Inv, TypeOK, Ids
    <3>2. Entry(issued + 1, n) \in Job /\ call.next \in Seq(Job)
      BY <3>1 DEF Entry, Job, Inv, TypeOK, Call
    <3> QED BY <3>2
  <2> HIDE DEF list
  <2>3. /\ c \in Call /\ c.values = Merge(u) /\ c.asking = call.asking
        /\ c.result = call.result /\ c.kind = call.kind
    BY <2>1, <2>2, MergeFacts DEF Call
  <2>4. /\ ~ call.asking /\ call.result = "none" /\ call.values \subseteq Merge(u)
        /\ call.kind # "run" => saved # None /\ saved.values \subseteq call.values
    BY <2>1 DEF Inv, OnceInv, CloseInv, Merge
  <2> HIDE DEF c
  <2> QED BY <2>1, <2>3, <2>4, LoopCloses
<1>11. CASE Interrupts
  BY <1>11 DEF Interrupts, Inv, TypeOK, Call, CloseInv, SnapshotIsTheResult
<1>12. CASE Closed
  <2>1. /\ saved' # None /\ saved'.values = call.values /\ saved'.next = call.next
        /\ saved'.asks = call.asks
    BY <1>12, PutType, NoneAssumption DEF Closed, Put, Inv
  <2>2. /\ call \in Call /\ call.pc = "closing"
        /\ call' = [call EXCEPT !.pc = "idle", !.result = Outcome]
    BY <1>12 DEF Closed, Inv, TypeOK
  <2>3. /\ call'.pc = "idle" /\ call'.values = call.values /\ call'.now = call.now
        /\ call'.kind = call.kind /\ call'.result = Outcome
    BY <2>2 DEF Call
  <2>4. Outcome = "interrupted" <=> call.asking
    BY <2>2 DEF Outcome, Call
  <2> QED BY <2>1, <2>2, <2>3, <2>4 DEF CloseInv, SnapshotIsTheResult
<1>13. CASE Dies
  BY <1>13 DEF Dies, Inv, TypeOK, Call, CloseInv, SnapshotIsTheResult
<1>14. CASE UNCHANGED vars
  BY <1>14 DEF vars, CloseInv, SnapshotIsTheResult
<1> QED BY <1>1, <1>2, <1>3, <1>4, <1>5, <1>6, <1>7, <1>8, <1>9, <1>10, <1>11, <1>12, <1>13,
           <1>14 DEF Next

LEMMA KeepInvHolds == Spec => []KeepInv
<1>1. Init => CloseInv /\ SnapshotIsTheResult
  BY DEF Init, NoCall, CloseInv, SnapshotIsTheResult
<1>2. KeepInv /\ [Next]_vars => KeepInv'
  BY NextKeeps, NextInv DEF KeepInv
<1>3. Init => KeepInv
  BY <1>1, InitInv DEF KeepInv
<1> QED BY <1>2, <1>3, PTL DEF Spec

(* What a call returns is what the thread holds (executor.ts:175-181).      *)
THEOREM ResultIsSaved == Spec => []SnapshotIsTheResult
<1>1. KeepInv => SnapshotIsTheResult
  BY DEF KeepInv
<1> QED BY KeepInvHolds, <1>1, PTL

(* No fault, resume or rerun takes a saved update back.                     *)
THEOREM SavedUpdatesStay == Spec => NothingIsTakenBack
<1>1. KeepInv /\ [Next]_vars =>
        [saved # None /\ call.kind # "run" => saved.values \subseteq saved'.values]_vars
  <2>1. SUFFICES ASSUME KeepInv, [Next]_vars, saved # None, call.kind # "run"
                 PROVE  saved.values \subseteq saved'.values
    OBVIOUS
  <2>2. CASE Put /\ call.pc \notin {"idle", "loading"}
    BY <2>1, <2>2 DEF Put, KeepInv, CloseInv
  <2>3. CASE saved' = saved
    BY <2>3
  <2>4. (Put /\ call.pc \notin {"idle", "loading"}) \/ saved' = saved
    BY <2>1 DEF Next, Run, Reload, Seed, Load, LoadAndUpdate, Begin, Returns, Recorded,
                Commands, GoesTo, Interrupts, Closed, Dies, vars
  <2> QED BY <2>2, <2>3, <2>4
<1> QED BY KeepInvHolds, <1>1, PTL DEF Spec, NothingIsTakenBack

(* A call and the snapshot of its thread differ by one update at most, and  *)
(* by none once it has returned.                                            *)
THEOREM KeepsUp == Spec => []SnapshotKeepsUp
BY LosesOneUpdate, ResultIsSaved, PTL DEF SnapshotKeepsUp

=============================================================================
