--------------------------- MODULE Channels_proofs ---------------------------
(***************************************************************************)
(* What comes over the event buses, for any consumers, subscribers and     *)
(* limits: once, in order, and nobody is skipped.  BInv is inductive.      *)
(* And what the MCP transports keep of a request, for any requests.        *)
(***************************************************************************)
EXTENDS EventBus, McpClient, SequenceTheorems, TLAPS

Known   == 0 .. sequence - 1
Objects == Streams \cup Subscribers
FrameType  == [event : Event, at : Nat \ {0}, running : BOOLEAN, copy : Seq(Objects)]
StreamType == [pc : Pc, from : Nat, at : Nat, queue : Seq(Event), done : BOOLEAN, aborted : BOOLEAN]

(* Everything has its type, and what is counted is within its limit.       *)
BusTypes ==
  /\ bus \in Buses /\ sequence \in 0 .. MaxEvents
  /\ durable \in Seq(Event) /\ Len(durable) <= MaxDurable
  /\ listeners \in Seq(Objects)
  /\ frames \in Seq(FrameType)
  /\ stream \in [Streams -> StreamType] /\ got \in [Streams -> Seq(Event)]
  /\ within \in [Event -> SUBSET Event]
  /\ due \in [Streams -> SUBSET Event] /\ dropped \in [Streams -> SUBSET Event]
  /\ thrown \subseteq Event
  /\ \A c \in Streams : Len(stream[c].queue) <= MaxQueue

(* Whatever is kept, dispatched or heard of was published.                 *)
Published ==
  /\ \A i \in 1 .. Len(durable) : durable[i] < sequence
  /\ \A i \in 1 .. Len(frames) : frames[i].event < sequence
  /\ \A c \in Streams : /\ \A i \in 1 .. Len(got[c]) : got[c][i] < sequence
                        /\ \A i \in 1 .. Len(stream[c].queue) : stream[c].queue[i] < sequence

(* A listener is registered once.                                          *)
Once == \A p, q \in 1 .. Len(listeners) : listeners[p] = listeners[q] => p = q

(* Dispatches are nested in the order of their events: what is published   *)
(* while the dispatch of d is under way is within d, and so is everything  *)
(* between d and an event that is.                                         *)
Stacked == \A i, j \in 1 .. Len(frames) : i < j => frames[i].event < frames[j].event
Nested  == /\ \A i \in 1 .. Len(frames), h \in Event :
                frames[i].event < h /\ h < sequence => frames[i].event \in within[h]
           /\ \A d, g, h \in Event :
                h < sequence /\ d < g /\ g < h /\ d \in within[h] => d \in within[g]

(* y may be heard after x: not out of order unless it is nested, and in    *)
(* memory not twice.  y may be kept after x.                               *)
Follows(x, y)  == (y < x => y \in within[x]) /\ (bus = "memory" => x # y)
Precedes(x, y) == (y < x => y \in within[x]) /\ (bus = "memory" => x < y)

KeptInOrder == \A i, j \in 1 .. Len(durable) : i < j => Precedes(durable[i], durable[j])

(* What a replay asks for, and what it has yet to read, comes after what   *)
(* its consumer was given.                                                 *)
ReplaysInOrder(c) ==
  /\ stream[c].pc = "new" => \A i \in 1 .. Len(got[c]) : got[c][i] < stream[c].from
  /\ stream[c].pc = "replaying" =>
       \A k \in 1 .. Len(durable), i \in 1 .. Len(got[c]) :
          stream[c].at < k => Precedes(got[c][i], durable[k])

(* What it was given, and then what waits in its queue.                    *)
HeardInOrder(c) ==
  LET g == got[c]  q == stream[c].queue IN
  /\ \A i, j \in 1 .. Len(g) : i < j => Follows(g[i], g[j])
  /\ \A i, j \in 1 .. Len(q) : i < j => Follows(q[i], q[j])
  /\ \A i \in 1 .. Len(g), j \in 1 .. Len(q) : Follows(g[i], q[j])

Served(c) ==
  /\ c \in ToSet(listeners) <=> Live(c) /\ ~ stream[c].done
  /\ stream[c].pc = "sleeping" => stream[c].queue = <<>> /\ ~ stream[c].done
  /\ ~ Live(c) => stream[c].queue = <<>>
  /\ stream[c].done => Live(c) \/ stream[c].pc = "ended"

(* The copies of the emitter hold no stream that is over: a stream ends     *)
(* between dispatches only.                                                *)
CopiesLive == \A i \in 1 .. Len(frames) : \A k \in 1 .. Len(frames[i].copy) :
                frames[i].copy[k] \in Streams => Live(frames[i].copy[k])

(* In memory a stream that is still to be called, because its turn in the  *)
(* list is not over, has not heard of the event.                           *)
HasHeard(c, e) == e \in ToSet(got[c]) \/ e \in ToSet(stream[c].queue)

StillNew == bus = "memory" =>
  \A i \in 1 .. Len(frames), p \in 1 .. Len(listeners) :
     p >= frames[i].at /\ listeners[p] \in Streams => ~ HasHeard(listeners[p], frames[i].event)

(* The handler that runs is that of a subscriber, not of a stream.         *)
CallsSubscriber == bus = "global" =>
  \A i \in 1 .. Len(frames) : frames[i].running =>
     frames[i].at <= Len(frames[i].copy) /\ frames[i].copy[frames[i].at] \in Subscribers

(* On the global bus, whoever was listening when an event was published and *)
(* has not been called, is in the part of the copy that is still to come.  *)
IsToBeCalled(c, e) == \E i \in 1 .. Len(frames) : frames[i].event = e /\
                        \E k \in frames[i].at .. Len(frames[i].copy) : frames[i].copy[k] = c
Accounted == bus = "global" =>
  \A c \in Streams : c \in ToSet(listeners) =>
    \A e \in due[c] : HasHeard(c, e) \/ e \in dropped[c] \/ e \in thrown \/ IsToBeCalled(c, e)

BInv == /\ BusTypes /\ Published /\ Once /\ Stacked /\ Nested /\ KeptInOrder
        /\ \A c \in Streams : ReplaysInOrder(c) /\ HeardInOrder(c) /\ Served(c)
        /\ CopiesLive /\ StillNew /\ CallsSubscriber /\ Accounted

----------------------------------------------------------------------------
(* Sequences.                                                              *)

LEMMA AppendFacts ==
  ASSUME NEW S, NEW s \in Seq(S), NEW x \in S
  PROVE  /\ Append(s, x) \in Seq(S) /\ Len(Append(s, x)) = Len(s) + 1
         /\ \A i \in 1 .. Len(s) : Append(s, x)[i] = s[i]
         /\ Append(s, x)[Len(s) + 1] = x
         /\ ToSet(Append(s, x)) = ToSet(s) \cup {x}
<1>1. /\ Append(s, x) \in Seq(S) /\ Len(Append(s, x)) = Len(s) + 1
      /\ \A i \in 1 .. Len(s) : Append(s, x)[i] = s[i]
      /\ Append(s, x)[Len(s) + 1] = x
  OBVIOUS
<1>2. DOMAIN s = 1 .. Len(s) /\ DOMAIN Append(s, x) = 1 .. Len(s) + 1 /\ Len(s) \in Nat
  BY <1>1
<1>3. ToSet(Append(s, x)) = ToSet(s) \cup {x}
  <2>1. ASSUME NEW y \in ToSet(Append(s, x))  PROVE y \in ToSet(s) \cup {x}
    <3>1. PICK i \in 1 .. Len(s) + 1 : y = Append(s, x)[i]
      BY <1>2 DEF ToSet
    <3>2. CASE i = Len(s) + 1
      BY <1>1, <3>1, <3>2
    <3>3. CASE i \in 1 .. Len(s)
      BY <1>1, <1>2, <3>1, <3>3 DEF ToSet
    <3> QED BY <1>2, <3>1, <3>2, <3>3
  <2>2. ASSUME NEW y \in ToSet(s) PROVE y \in ToSet(Append(s, x))
    <3>1. PICK i \in 1 .. Len(s) : y = s[i]
      BY <1>2 DEF ToSet
    <3> QED BY <1>1, <1>2, <3>1 DEF ToSet
  <2>3. x \in ToSet(Append(s, x))
    BY <1>1, <1>2 DEF ToSet
  <2> QED BY <2>1, <2>2, <2>3
<1> QED BY <1>1, <1>3

LEMMA TailFacts ==
  ASSUME NEW S, NEW s \in Seq(S), s # <<>>
  PROVE  /\ Head(s) \in S /\ Head(s) = s[1] /\ Tail(s) \in Seq(S)
         /\ Len(s) \in Nat \ {0} /\ Len(Tail(s)) = Len(s) - 1
         /\ \A i \in 1 .. Len(s) - 1 : Tail(s)[i] = s[i + 1]
         /\ ToSet(s) = {Head(s)} \cup ToSet(Tail(s))
<1>1. /\ Head(s) \in S /\ Head(s) = s[1] /\ Tail(s) \in Seq(S)
      /\ Len(s) \in Nat \ {0} /\ Len(Tail(s)) = Len(s) - 1
      /\ \A i \in 1 .. Len(s) - 1 : Tail(s)[i] = s[i + 1]
  OBVIOUS
<1>2. DOMAIN s = 1 .. Len(s) /\ DOMAIN Tail(s) = 1 .. Len(s) - 1
  BY <1>1
<1>3. ASSUME NEW y \in ToSet(s)  PROVE y = Head(s) \/ y \in ToSet(Tail(s))
  <2>1. PICK i \in 1 .. Len(s) : y = s[i]
    BY <1>2 DEF ToSet
  <2>2. CASE i = 1
    BY <1>1, <2>1, <2>2
  <2>3. CASE i # 1
    <3>1. i - 1 \in 1 .. Len(s) - 1 /\ Tail(s)[i - 1] = y
      BY <1>1, <2>1, <2>3
    <3> QED BY <1>2, <3>1 DEF ToSet
  <2> QED BY <2>2, <2>3
<1>4. ASSUME NEW y \in ToSet(Tail(s))  PROVE y \in ToSet(s)
  <2>1. PICK i \in 1 .. Len(s) - 1 : y = Tail(s)[i]
    BY <1>2 DEF ToSet
  <2> QED BY <1>1, <1>2, <2>1 DEF ToSet
<1>5. Head(s) \in ToSet(s)
  BY <1>1, <1>2 DEF ToSet
<1> QED BY <1>1, <1>3, <1>4, <1>5

LEMMA ConcatSet ==
  ASSUME NEW S, NEW s \in Seq(S), NEW t \in Seq(S)
  PROVE  ToSet(s \o t) = ToSet(s) \cup ToSet(t)
<1>1. /\ s \o t \in Seq(S) /\ Len(s \o t) = Len(s) + Len(t) /\ Len(s) \in Nat /\ Len(t) \in Nat
      /\ \A i \in 1 .. Len(s) : (s \o t)[i] = s[i]
      /\ \A i \in 1 .. Len(t) : (s \o t)[Len(s) + i] = t[i]
  OBVIOUS
<1>2. DOMAIN s = 1 .. Len(s) /\ DOMAIN t = 1 .. Len(t) /\ DOMAIN (s \o t) = 1 .. Len(s) + Len(t)
  BY <1>1
<1>3. ASSUME NEW y \in ToSet(s \o t)  PROVE y \in ToSet(s) \cup ToSet(t)
  <2>1. PICK i \in 1 .. Len(s) + Len(t) : y = (s \o t)[i]
    BY <1>2 DEF ToSet
  <2>2. CASE i \in 1 .. Len(s)
    BY <1>1, <1>2, <2>1, <2>2 DEF ToSet
  <2>3. CASE i > Len(s)
    <3>1. i - Len(s) \in 1 .. Len(t) /\ Len(s) + (i - Len(s)) = i
      BY <1>1, <2>3
    <3>2. t[i - Len(s)] = y
      BY <1>1, <2>1, <3>1
    <3> QED BY <1>2, <3>1, <3>2 DEF ToSet
  <2> QED BY <1>1, <2>2, <2>3
<1>4. ASSUME NEW y \in ToSet(s)  PROVE y \in ToSet(s \o t)
  <2>1. PICK i \in 1 .. Len(s) : y = s[i]
    BY <1>2 DEF ToSet
  <2> QED BY <1>1, <1>2, <2>1 DEF ToSet
<1>5. ASSUME NEW y \in ToSet(t)  PROVE y \in ToSet(s \o t)
  <2>1. PICK i \in 1 .. Len(t) : y = t[i]
    BY <1>2 DEF ToSet
  <2>2. Len(s) + i \in 1 .. Len(s) + Len(t) /\ (s \o t)[Len(s) + i] = y
    BY <1>1, <2>1
  <2> QED BY <1>2, <2>2 DEF ToSet
<1> QED BY <1>3, <1>4, <1>5

LEMMA RemoveAtFacts ==
  ASSUME NEW S, NEW s \in Seq(S), NEW i \in 1 .. Len(s)
  PROVE  /\ RemoveAt(s, i) \in Seq(S) /\ Len(RemoveAt(s, i)) = Len(s) - 1
         /\ \A p \in 1 .. Len(s) - 1 :
              RemoveAt(s, i)[p] = IF p < i THEN s[p] ELSE s[p + 1]
<1> DEFINE n == Len(s)
           a == SubSeq(s, 1, i - 1)
           b == SubSeq(s, i + 1, n)
<1>1. n \in Nat /\ i \in Nat /\ 1 <= i /\ i <= n
  OBVIOUS
<1>2. a \in Seq(S) /\ Len(a) = i - 1 /\ \A p \in 1 .. i - 1 : a[p] = s[p]
  BY <1>1
<1>3. b \in Seq(S) /\ Len(b) = n - i
  <2>1. \A p \in i + 1 .. n : s[p] \in S
    OBVIOUS
  <2>2. b \in Seq(S) /\ Len(b) = IF i + 1 <= n THEN n - (i + 1) + 1 ELSE 0
    BY <1>1, <2>1, SubSeqProperties
  <2> QED BY <1>1, <2>2
<1>4. ASSUME NEW p \in 1 .. n - i  PROVE b[p] = s[i + p]
  <2>1. \A q \in i + 1 .. n : s[q] \in S
    OBVIOUS
  <2>2. p \in 1 .. n - (i + 1) + 1
    BY <1>1, <1>4
  <2>3. b[p] = s[(i + 1) + p - 1]
    BY <1>1, <2>1, <2>2, SubSeqProperties
  <2>4. (i + 1) + p - 1 = i + p
    BY <1>1, <1>4
  <2> QED BY <2>3, <2>4
<1> HIDE DEF n, a, b
<1>5. a \o b \in Seq(S) /\ Len(a \o b) = n - 1
  <2>1. a \o b \in Seq(S) /\ Len(a \o b) = Len(a) + Len(b)
    BY <1>2, <1>3, ConcatProperties
  <2> QED BY <1>1, <1>2, <1>3, <2>1
<1>6. ASSUME NEW p \in 1 .. n - 1
      PROVE  (a \o b)[p] = IF p < i THEN s[p] ELSE s[p + 1]
  <2>1. p \in 1 .. Len(a) + Len(b)
    BY <1>1, <1>2, <1>3, <1>6
  <2>2. (a \o b)[p] = IF p <= Len(a) THEN a[p] ELSE b[p - Len(a)]
    BY <1>2, <1>3, <2>1, ConcatProperties
  <2>3. CASE p < i
    BY <1>1, <1>2, <1>6, <2>2, <2>3
  <2>4. CASE p >= i
    <3>1. p - (i - 1) \in 1 .. n - i /\ i + (p - (i - 1)) = p + 1 /\ ~ (p <= i - 1)
      BY <1>1, <1>6, <2>4
    <3>2. (a \o b)[p] = b[p - (i - 1)]
      BY <1>2, <2>2, <3>1
    <3>3. b[p - (i - 1)] = s[i + (p - (i - 1))]
      BY <1>4, <3>1
    <3> QED BY <1>1, <1>6, <2>4, <3>1, <3>2, <3>3
  <2>5. p < i \/ p >= i
    BY <1>1, <1>6
  <2> QED BY <2>3, <2>4, <2>5
<1> QED BY <1>5, <1>6 DEF RemoveAt, n, a, b

(* Taking a listener out moves those behind it one place to the front.     *)
LEMMA WithoutFacts ==
  ASSUME listeners \in Seq(Objects), Once, NEW l
  PROVE  /\ Without(l) \in Seq(Objects)
         /\ \A p, q \in 1 .. Len(Without(l)) : Without(l)[p] = Without(l)[q] => p = q
         /\ ToSet(Without(l)) = ToSet(listeners) \ {l}
         /\ \A p \in 1 .. Len(Without(l)) : \E q \in 1 .. Len(listeners) :
              q >= p /\ Without(l)[p] = listeners[q]
<1>1. DOMAIN listeners = 1 .. Len(listeners) /\ Len(listeners) \in Nat
  OBVIOUS
<1>2. CASE l \notin ToSet(listeners)
  <2>1. Without(l) = listeners
    BY <1>2 DEF Without
  <2> QED BY <1>1, <1>2, <2>1 DEF Once
<1>3. CASE l \in ToSet(listeners)
  <2> DEFINE i == CHOOSE k \in 1 .. Len(listeners) : listeners[k] = l
             w == RemoveAt(listeners, i)
             n == Len(listeners)
  <2>1. i \in 1 .. n /\ listeners[i] = l
    BY <1>1, <1>3 DEF ToSet
  <2>2. Without(l) = w
    BY <1>3 DEF Without
  <2> HIDE DEF i
  <2>3. /\ w \in Seq(Objects) /\ Len(w) = n - 1
        /\ \A p \in 1 .. n - 1 : w[p] = IF p < i THEN listeners[p] ELSE listeners[p + 1]
    BY <1>1, <2>1, RemoveAtFacts
  <2> HIDE DEF w
  <2>4. DOMAIN w = 1 .. n - 1
    BY <2>3
  <2>5. \A p \in 1 .. n - 1 : \E q \in 1 .. n : q >= p /\ q # i /\ w[p] = listeners[q]
    BY <1>1, <2>1, <2>3
  <2>6. \A p, q \in 1 .. n - 1 : w[p] = w[q] => p = q
    BY <1>1, <2>1, <2>3 DEF Once
  <2>7. ToSet(w) = ToSet(listeners) \ {l}
    <3>1. ASSUME NEW y \in ToSet(w)  PROVE y \in ToSet(listeners) \ {l}
      <4>1. PICK p \in 1 .. n - 1 : y = w[p]
        BY <2>4, <3>1 DEF ToSet
      <4>2. PICK q \in 1 .. n : q # i /\ y = listeners[q]
        BY <2>5, <4>1
      <4>3. y # l
        BY <2>1, <4>2 DEF Once
      <4> QED BY <1>1, <4>2, <4>3 DEF ToSet
    <3>2. ASSUME NEW y \in ToSet(listeners) \ {l}  PROVE y \in ToSet(w)
      <4>1. PICK q \in 1 .. n : y = listeners[q]
        BY <1>1 DEF ToSet
      <4>2. CASE q < i
        BY <1>1, <2>1, <2>3, <2>4, <4>1, <4>2 DEF ToSet
      <4>3. CASE q > i
        <5>1. q - 1 \in 1 .. n - 1 /\ w[q - 1] = y
          BY <1>1, <2>1, <2>3, <4>1, <4>3
        <5> QED BY <2>4, <5>1 DEF ToSet
      <4> QED BY <1>1, <2>1, <3>2, <4>1, <4>2, <4>3
    <3> QED BY <3>1, <3>2
  <2> QED BY <2>2, <2>3, <2>5, <2>6, <2>7
<1> QED BY <1>2, <1>3

(* Keeping an event: it is the last of the list, and what is left of the   *)
(* others is where it was or one place further to the front.               *)
IsShifted(new, shift, e) ==
  /\ shift \in {0, 1} /\ new \in Seq(Event) /\ Len(new) \in 1 .. MaxDurable
  /\ Len(new) = Len(durable) + 1 - shift /\ new[Len(new)] = e
  /\ \A k \in 1 .. Len(new) - 1 : k + shift \in 1 .. Len(durable) /\ new[k] = durable[k + shift]

LEMMA KeepFacts ==
  ASSUME durable \in Seq(Event), Len(durable) <= MaxDurable, NEW e \in Event
  PROVE  \E shift \in {0, 1} : IsShifted(Keep(e), shift, e)
<1> DEFINE list == Append(durable, e)
           n == Len(durable)
<1>1. /\ list \in Seq(Event) /\ Len(list) = n + 1 /\ n \in Nat
      /\ \A i \in 1 .. n : list[i] = durable[i]
      /\ list[n + 1] = e
  OBVIOUS
<1>2. MaxDurable \in Nat \ {0}
  BY BusAssumption
<1>3. Keep(e) = SubSeq(list, IF Len(list) > MaxDurable THEN Len(list) - MaxDurable + 1 ELSE 1, Len(list))
  BY DEF Keep
<1> HIDE DEF list
<1>4. CASE n < MaxDurable
  <2>1. Keep(e) = SubSeq(list, 1, n + 1)
    BY <1>1, <1>2, <1>3, <1>4
  <2>2. Keep(e) = list
    BY <1>1, <2>1
  <2> QED BY <1>1, <1>2, <1>4, <2>2 DEF IsShifted
<1>5. CASE n = MaxDurable
  <2>1. Keep(e) = SubSeq(list, 2, n + 1)
    BY <1>1, <1>2, <1>3, <1>5
  <2>2. /\ Keep(e) \in Seq(Event) /\ Len(Keep(e)) = n
        /\ \A k \in 1 .. n : Keep(e)[k] = list[k + 1]
    BY <1>1, <2>1
  <2>3. \A k \in 1 .. n - 1 : k + 1 \in 1 .. n /\ Keep(e)[k] = durable[k + 1]
    BY <1>1, <2>2
  <2>4. Keep(e)[n] = e
    BY <1>1, <1>2, <1>5, <2>2
  <2> QED BY <1>1, <1>2, <1>5, <2>2, <2>3, <2>4 DEF IsShifted
<1> QED BY <1>1, <1>2, <1>4, <1>5

LEMMA FrontFacts ==
  ASSUME NEW S, NEW s \in Seq(S), s # <<>>
  PROVE  /\ Front(s) \in Seq(S) /\ Len(s) \in Nat \ {0} /\ Len(Front(s)) = Len(s) - 1
         /\ \A i \in 1 .. Len(s) - 1 : Front(s)[i] = s[i]
<1>1. Len(s) \in Nat \ {0} /\ \A i \in 1 .. Len(s) - 1 : s[i] \in S
  OBVIOUS
<1>2. /\ SubSeq(s, 1, Len(s) - 1) \in Seq(S)
      /\ Len(SubSeq(s, 1, Len(s) - 1)) = IF 1 <= Len(s) - 1 THEN Len(s) - 1 - 1 + 1 ELSE 0
  BY <1>1, SubSeqProperties
<1>3. ASSUME NEW i \in 1 .. Len(s) - 1  PROVE SubSeq(s, 1, Len(s) - 1)[i] = s[i]
  <2>1. i \in 1 .. (Len(s) - 1) - 1 + 1 /\ 1 + i - 1 = i
    BY <1>1
  <2>2. SubSeq(s, 1, Len(s) - 1)[i] = s[1 + i - 1]
    BY <1>1, <2>1, SubSeqProperties
  <2> QED BY <2>1, <2>2
<1>4. Len(SubSeq(s, 1, Len(s) - 1)) = Len(s) - 1
  <2>1. \A n \in Nat \ {0} : (IF 1 <= n - 1 THEN n - 1 - 1 + 1 ELSE 0) = n - 1
    OBVIOUS
  <2> QED BY <1>1, <1>2, <2>1
<1> QED BY <1>1, <1>2, <1>3, <1>4 DEF Front

LEMMA InSet == ASSUME NEW S, NEW s \in Seq(S), NEW x
               PROVE  x \in ToSet(s) <=> \E i \in 1 .. Len(s) : s[i] = x
  BY DEF ToSet

(* What the top of the stack becomes when its handler is called or returns. *)
LEMMA TopFacts ==
  ASSUME BusTypes, ~ Idle, NEW f \in FrameType, NEW fs, fs = [frames EXCEPT ![Len(frames)] = f]
  PROVE  /\ fs \in Seq(FrameType) /\ Len(fs) = Len(frames) /\ Len(frames) \in Nat \ {0}
         /\ fs[Len(frames)] = f
         /\ \A i \in 1 .. Len(frames) : i # Len(frames) => fs[i] = frames[i]
  BY DEF BusTypes, Idle

LEMMA TopType == ASSUME BusTypes, ~ Idle
                 PROVE  /\ Len(frames) \in Nat \ {0} /\ Top \in FrameType /\ Top = frames[Len(frames)]
                        /\ Top.event \in Event /\ Top.at \in Nat \ {0} /\ Top.running \in BOOLEAN
                        /\ Top.copy \in Seq(Objects)
<1>1. Len(frames) \in Nat \ {0} /\ Top \in FrameType
  BY DEF BusTypes, Idle, Top
<1> QED BY <1>1 DEF FrameType, Top

(* A consumer of events takes a step between the dispatches.               *)
LEMMA IdleStep ==
  ASSUME BInv, Idle, NEW c \in Streams,
         UNCHANGED <<bus, sequence, durable, frames, within, dropped, thrown>>,
         stream' \in [Streams -> StreamType], got' \in [Streams -> Seq(Event)],
         \A d \in Streams : d # c => stream'[d] = stream[d] /\ got'[d] = got[d],
         \A i \in 1 .. Len(got'[c]) : got'[c][i] < sequence,
         \A i \in 1 .. Len(stream'[c].queue) : stream'[c].queue[i] < sequence,
         Len(stream'[c].queue) <= MaxQueue,
         listeners' \in Seq(Objects), Once',
         \A d \in Streams : d # c => (d \in ToSet(listeners') <=> d \in ToSet(listeners)),
         due' \in [Streams -> SUBSET Event], \A d \in Streams : due'[d] \subseteq due[d],
         ReplaysInOrder(c)', HeardInOrder(c)', Served(c)',
         bus = "global" /\ c \in ToSet(listeners') =>
           \A e \in due'[c] : HasHeard(c, e)' \/ e \in dropped[c] \/ e \in thrown
  PROVE  BInv'
<1>1. frames = <<>> /\ Len(frames) = 0
  BY DEF Idle
<1>2. BusTypes' /\ Published'
  BY DEF BInv, BusTypes, Published
<1>3. Stacked' /\ Nested' /\ KeptInOrder'
  BY <1>1 DEF BInv, Stacked, Nested, KeptInOrder, Precedes
<1>4. \A d \in Streams : ReplaysInOrder(d)' /\ HeardInOrder(d)' /\ Served(d)'
  <2> SUFFICES ASSUME NEW d \in Streams, d # c
               PROVE  ReplaysInOrder(d)' /\ HeardInOrder(d)' /\ Served(d)'
    OBVIOUS
  <2>1. ReplaysInOrder(d)'
    <3>1. ReplaysInOrder(d) /\ stream'[d] = stream[d] /\ got'[d] = got[d] /\ durable' = durable
          /\ bus' = bus /\ within' = within
      BY DEF BInv
    <3> QED BY ONLY <3>1 DEF ReplaysInOrder, Precedes
  <2>2. HeardInOrder(d)'
    <3>1. HeardInOrder(d) /\ stream'[d] = stream[d] /\ got'[d] = got[d] /\ bus' = bus /\ within' = within
      BY DEF BInv
    <3> QED BY ONLY <3>1 DEF HeardInOrder, Follows
  <2>3. Served(d)'
    BY DEF BInv, Served, Live
  <2> QED BY <2>1, <2>2, <2>3
<1>5. CopiesLive' /\ StillNew' /\ CallsSubscriber'
  BY <1>1 DEF CopiesLive, StillNew, CallsSubscriber
<1>6. Accounted'
  <2> SUFFICES ASSUME bus = "global", NEW d \in Streams, d \in ToSet(listeners'), NEW e \in due'[d]
               PROVE  HasHeard(d, e)' \/ e \in dropped[d] \/ e \in thrown
    BY DEF Accounted
  <2>1. CASE d = c
    BY <2>1
  <2>2. CASE d # c
    <3>1. HasHeard(d, e) \/ e \in dropped[d] \/ e \in thrown \/ IsToBeCalled(d, e)
      BY <2>2 DEF BInv, Accounted
    <3>2. ~ IsToBeCalled(d, e)
      BY <1>1 DEF IsToBeCalled
    <3> QED BY <2>2, <3>1, <3>2 DEF HasHeard
  <2> QED BY <2>1, <2>2
<1> QED BY <1>2, <1>3, <1>4, <1>5, <1>6 DEF BInv

LEMMA EndTypes == ASSUME BInv, NEW c \in Streams
  PROVE  /\ stream[c] \in StreamType /\ stream[c].pc \in Pc /\ stream[c].queue \in Seq(Event)
         /\ stream[c].at \in Nat /\ stream[c].from \in Nat /\ stream[c].done \in BOOLEAN
         /\ got[c] \in Seq(Event) /\ Len(got[c]) \in Nat /\ Len(stream[c].queue) \in Nat
         /\ durable \in Seq(Event) /\ Len(durable) \in Nat /\ sequence \in Nat
         /\ \A i \in 1 .. Len(durable) : durable[i] \in Event /\ durable[i] \in Nat
         /\ \A i \in 1 .. Len(got[c]) : got[c][i] \in Event /\ got[c][i] \in Nat
         /\ \A i \in 1 .. Len(stream[c].queue) : stream[c].queue[i] \in Event /\ stream[c].queue[i] \in Nat
<1>1. /\ stream[c] \in StreamType /\ got[c] \in Seq(Event) /\ durable \in Seq(Event)
      /\ sequence \in Nat /\ Event \subseteq Nat
  BY DEF BInv, BusTypes, Event
<1>2. /\ stream[c].pc \in Pc /\ stream[c].queue \in Seq(Event)
      /\ stream[c].at \in Nat /\ stream[c].from \in Nat /\ stream[c].done \in BOOLEAN
  BY <1>1 DEF StreamType
<1>3. Len(got[c]) \in Nat /\ Len(stream[c].queue) \in Nat /\ Len(durable) \in Nat
  BY <1>1, <1>2
<1>4. ASSUME NEW s \in Seq(Event), NEW i \in 1 .. Len(s)  PROVE s[i] \in Event /\ s[i] \in Nat
  <2>1. s[i] \in Event
    OBVIOUS
  <2> QED BY <1>1, <2>1
<1>5. /\ \A i \in 1 .. Len(durable) : durable[i] \in Event /\ durable[i] \in Nat
      /\ \A i \in 1 .. Len(got[c]) : got[c][i] \in Event /\ got[c][i] \in Nat
      /\ \A i \in 1 .. Len(stream[c].queue) : stream[c].queue[i] \in Event /\ stream[c].queue[i] \in Nat
  BY <1>1, <1>2, <1>4
<1> QED BY <1>1, <1>2, <1>3, <1>5

(* An event of the durable list goes to a consumer that replays it.        *)
LEMMA ReplayStep ==
  ASSUME BInv, Idle, NEW c \in Streams, stream[c].pc \in {"new", "replaying"},
         UNCHANGED <<bus, sequence, durable, listeners, frames, history>>,
         NEW k \in 1 .. Len(durable),
         got' = [got EXCEPT ![c] = Append(@, durable[k])],
         stream' = [stream EXCEPT ![c].pc = "replaying", ![c].at = k],
         \A i \in 1 .. Len(got[c]) : Precedes(got[c][i], durable[k]),
         \A i \in 1 .. Len(got[c]), j \in 1 .. Len(durable) : k < j => Precedes(got[c][i], durable[j])
  PROVE  BInv'
<1> DEFINE g == got[c]
           s == [stream[c] EXCEPT !.pc = "replaying", !.at = k]
<1>1. /\ s \in StreamType /\ s.pc = "replaying" /\ s.at = k /\ s.queue = stream[c].queue
      /\ s.done = stream[c].done /\ stream'[c] = s
      /\ stream' \in [Streams -> StreamType] /\ \A d \in Streams : d # c => stream'[d] = stream[d]
  <2>1. stream[c] \in StreamType /\ k \in Nat /\ "replaying" \in Pc /\ stream \in [Streams -> StreamType]
    BY EndTypes DEF Pc, BInv, BusTypes
  <2>2. /\ s \in StreamType /\ s.pc = "replaying" /\ s.at = k /\ s.queue = stream[c].queue
        /\ s.done = stream[c].done
    BY <2>1 DEF StreamType
  <2>3. stream' = [stream EXCEPT ![c] = s]
    BY <2>1 DEF StreamType
  <2> HIDE DEF s
  <2> QED BY <2>1, <2>2, <2>3
<1>2. /\ got'[c] = Append(g, durable[k]) /\ got'[c] \in Seq(Event) /\ Len(got'[c]) = Len(g) + 1
      /\ \A i \in 1 .. Len(g) : got'[c][i] = g[i]
      /\ got'[c][Len(g) + 1] = durable[k]
      /\ got' \in [Streams -> Seq(Event)] /\ \A d \in Streams : d # c => got'[d] = got[d]
  BY EndTypes DEF BInv, BusTypes
<1>3. Len(g) \in Nat /\ k \in Nat /\ durable[k] \in Nat
  BY EndTypes
<1>4. ~ Live(c) /\ stream[c].queue = <<>> /\ ~ stream[c].done /\ c \notin ToSet(listeners)
  BY DEF BInv, Served, Live
<1>5. \A i \in 1 .. Len(got'[c]) : got'[c][i] < sequence
  BY <1>2, <1>3 DEF BInv, Published
<1>6. ReplaysInOrder(c)'
  <2> SUFFICES ASSUME NEW j \in 1 .. Len(durable), NEW i \in 1 .. Len(got'[c]), k < j
               PROVE  Precedes(got[c][i], durable[j])'
    BY <1>1 DEF ReplaysInOrder
  <2>1. CASE i \in 1 .. Len(g)
    BY <1>2, <2>1 DEF Precedes, history
  <2>2. CASE i = Len(g) + 1
    BY <1>2, <2>2 DEF BInv, KeptInOrder, Precedes, history
  <2> QED BY <1>2, <1>3, <2>1, <2>2
<1>7. HeardInOrder(c)'
  <2>1. Len(stream'[c].queue) = 0 /\ \A i \in 1 .. 0 : FALSE
    BY <1>1, <1>4
  <2>2. ASSUME NEW i \in 1 .. Len(got'[c]), NEW j \in 1 .. Len(got'[c]), i < j
        PROVE  Follows(got[c][i], got[c][j])'
    <3>1. i \in 1 .. Len(g)
      BY <1>2, <1>3, <2>2
    <3>2. CASE j \in 1 .. Len(g)
      BY <1>2, <2>2, <3>1, <3>2 DEF BInv, HeardInOrder, Follows, history
    <3>3. CASE j = Len(g) + 1
      <4>1. Precedes(g[i], durable[k]) /\ g[i] \in Nat
        BY <3>1, EndTypes
      <4> QED BY <1>2, <1>3, <3>1, <3>3, <4>1 DEF Precedes, Follows, history
    <3> QED BY <1>2, <1>3, <2>2, <3>2, <3>3
  <2> QED BY <2>1, <2>2 DEF HeardInOrder
<1>8. Served(c)'
  BY <1>1, <1>4 DEF Served, Live
<1>9. /\ Len(stream'[c].queue) <= MaxQueue
      /\ \A i \in 1 .. Len(stream'[c].queue) : stream'[c].queue[i] < sequence
  BY <1>1, <1>4, BusAssumption
<1>10. /\ UNCHANGED <<within, due, dropped, thrown>> /\ due' \in [Streams -> SUBSET Event]
       /\ listeners' \in Seq(Objects) /\ Once'
  BY DEF BInv, BusTypes, Once, history
<1> QED BY <1>1, <1>2, <1>4, <1>5, <1>6, <1>7, <1>8, <1>9, <1>10, IdleStep

(* A step that changes fields of one consumer alone.                       *)
LEMMA FieldStep ==
  ASSUME BInv, NEW c \in Streams, NEW pc \in Pc,
         stream' = [stream EXCEPT ![c].pc = pc]
  PROVE  /\ stream' \in [Streams -> StreamType] /\ \A d \in Streams : d # c => stream'[d] = stream[d]
         /\ stream'[c].pc = pc /\ stream'[c].queue = stream[c].queue /\ stream'[c].done = stream[c].done
         /\ stream'[c].from = stream[c].from /\ stream'[c].at = stream[c].at
<1> DEFINE s == [stream[c] EXCEPT !.pc = pc]
<1>1. stream \in [Streams -> StreamType] /\ stream[c] \in StreamType
  BY DEF BInv, BusTypes
<1>2. /\ s \in StreamType /\ s.pc = pc /\ s.queue = stream[c].queue /\ s.done = stream[c].done
      /\ s.from = stream[c].from /\ s.at = stream[c].at
  BY <1>1 DEF StreamType
<1>3. stream' = [stream EXCEPT ![c] = s]
  BY <1>1
<1> HIDE DEF s
<1> QED BY <1>1, <1>2, <1>3

LEMMA EmptyQueue ==
  ASSUME NEW c \in Streams, HeardInOrder(c), stream'[c].queue = <<>>, UNCHANGED <<bus, got, within>>
  PROVE  HeardInOrder(c)'
<1>1. Len(stream'[c].queue) = 0 /\ \A i \in 1 .. 0 : FALSE
  OBVIOUS
<1> QED BY <1>1 DEF HeardInOrder, Follows

LEMMA AppendedOnce ==
  ASSUME BInv, NEW o \in Objects, o \notin ToSet(listeners), listeners' = Append(listeners, o)
  PROVE  listeners' \in Seq(Objects) /\ ToSet(listeners') = ToSet(listeners) \cup {o} /\ Once'
<1>1. listeners \in Seq(Objects) /\ Len(listeners) \in Nat
  BY DEF BInv, BusTypes
<1>2. /\ listeners' \in Seq(Objects) /\ Len(listeners') = Len(listeners) + 1
      /\ \A i \in 1 .. Len(listeners) : listeners'[i] = listeners[i]
      /\ listeners'[Len(listeners) + 1] = o
      /\ ToSet(listeners') = ToSet(listeners) \cup {o}
  BY <1>1, AppendFacts
<1>3. \A i \in 1 .. Len(listeners) : listeners[i] # o
  BY <1>1, InSet
<1> QED BY <1>1, <1>2, <1>3 DEF BInv, Once

(* The replay has come to the end of the list.                             *)
LEMMA BetweenStep ==
  ASSUME BInv, Idle, NEW c \in Streams, stream[c].pc \in {"new", "replaying"},
         UNCHANGED <<bus, sequence, durable, listeners, frames, history>>,
         stream' = [stream EXCEPT ![c].pc = "between"], got' = got
  PROVE  BInv'
<1>1. /\ stream' \in [Streams -> StreamType] /\ \A d \in Streams : d # c => stream'[d] = stream[d]
      /\ stream'[c].pc = "between" /\ stream'[c].queue = stream[c].queue /\ stream'[c].done = stream[c].done
  BY FieldStep DEF Pc
<1>2. stream[c].queue = <<>> /\ ~ stream[c].done /\ c \notin ToSet(listeners)
  BY DEF BInv, Served, Live
<1>3. ReplaysInOrder(c)' /\ Served(c)'
  BY <1>1, <1>2 DEF ReplaysInOrder, Served, Live
<1>4. HeardInOrder(c)'
  BY <1>1, <1>2, EmptyQueue DEF BInv, history
<1>5. /\ \A i \in 1 .. Len(got'[c]) : got'[c][i] < sequence
      /\ \A i \in 1 .. Len(stream'[c].queue) : stream'[c].queue[i] < sequence
      /\ Len(stream'[c].queue) <= MaxQueue
      /\ got' \in [Streams -> Seq(Event)]
  BY <1>1, <1>2, BusAssumption DEF BInv, Published, BusTypes
<1>6. /\ UNCHANGED <<within, due, dropped, thrown>> /\ due' \in [Streams -> SUBSET Event]
      /\ listeners' \in Seq(Objects) /\ Once'
  BY DEF BInv, BusTypes, Once, history
<1> QED BY <1>1, <1>2, <1>3, <1>4, <1>5, <1>6, IdleStep

LEMMA FrameFacts ==
  ASSUME BInv, NEW i \in 1 .. Len(frames)
  PROVE  /\ frames[i] \in FrameType /\ frames[i].event \in Event /\ frames[i].event \in Nat
         /\ frames[i].at \in Nat \ {0} /\ frames[i].running \in BOOLEAN
         /\ frames[i].copy \in Seq(Objects) /\ Len(frames[i].copy) \in Nat
         /\ frames[i].event < sequence
<1>1. frames[i] \in FrameType /\ frames[i].event < sequence
  BY DEF BInv, BusTypes, Published
<1> QED BY <1>1 DEF FrameType, Event

LEMMA BeginStep == ASSUME BInv, NEW c \in Streams, Begin(c) PROVE BInv'
<1>1. /\ Idle /\ c \in Replays /\ stream[c].pc = "new"
      /\ UNCHANGED <<bus, sequence, durable, listeners, frames, history>>
  BY DEF Begin
<1>2. \A i \in 1 .. Len(got[c]) : got[c][i] < stream[c].from
  BY <1>1 DEF BInv, ReplaysInOrder
<1>3. CASE stream' = [stream EXCEPT ![c].pc = "between"] /\ got' = got
  BY <1>1, <1>3, BetweenStep
<1>4. ASSUME NEW first \in 1 .. Len(durable), IsFirstFrom(stream[c].from, first),
             got' = [got EXCEPT ![c] = Append(@, durable[first])],
             stream' = [stream EXCEPT ![c].pc = "replaying", ![c].at = first]
      PROVE  BInv'
  <2>1. stream[c].from \in Nat /\ durable[first] \in Nat /\ durable[first] \in Event
        /\ durable[first] < sequence /\ stream[c].from <= durable[first]
    BY <1>4, EndTypes DEF IsFirstFrom, BInv, Published
  <2>2. \A i \in 1 .. Len(got[c]) : Precedes(got[c][i], durable[first])
    BY <1>2, <2>1, EndTypes DEF Precedes
  <2>3. ASSUME NEW i \in 1 .. Len(got[c]), NEW j \in 1 .. Len(durable), first < j
        PROVE  Precedes(got[c][i], durable[j])
    <3>1. /\ got[c][i] \in Nat /\ got[c][i] \in Event /\ durable[j] \in Nat /\ durable[j] \in Event
          /\ got[c][i] < durable[first]
      BY <1>2, <2>1, <2>3, EndTypes
    <3>2. Precedes(durable[first], durable[j])
      BY <2>3 DEF BInv, KeptInOrder
    <3>3. CASE durable[j] < got[c][i]
      <4>1. durable[j] < durable[first] /\ durable[j] \in within[durable[first]]
        BY <2>1, <3>1, <3>2, <3>3 DEF Precedes
      <4>2. durable[j] \in within[got[c][i]]
        BY <2>1, <3>1, <3>3, <4>1 DEF BInv, Nested
      <4>3. bus # "memory"
        BY <2>1, <3>1, <3>2, <4>1 DEF Precedes
      <4> QED BY <4>2, <4>3 DEF Precedes
    <3>4. CASE got[c][i] <= durable[j]
      <4>1. bus = "memory" => got[c][i] < durable[j]
        BY <2>1, <3>1, <3>2 DEF Precedes
      <4> QED BY <3>1, <3>4, <4>1 DEF Precedes
    <3> QED BY <3>1, <3>3, <3>4
  <2> QED BY <1>1, <1>4, <2>2, <2>3, ReplayStep
<1> QED BY <1>3, <1>4 DEF Begin

LEMMA ReplayKeeps == ASSUME BInv, NEW c \in Streams, Replay(c) PROVE BInv'
<1>1. /\ Idle /\ stream[c].pc = "replaying"
      /\ UNCHANGED <<bus, sequence, durable, listeners, frames, history>>
  BY DEF Replay
<1>2. CASE stream' = [stream EXCEPT ![c].pc = "between"] /\ got' = got
  BY <1>1, <1>2, BetweenStep
<1>3. CASE /\ stream[c].at < Len(durable)
           /\ got' = [got EXCEPT ![c] = Append(@, durable[stream[c].at + 1])]
           /\ stream' = [stream EXCEPT ![c].at = @ + 1]
  <2> DEFINE k == stream[c].at + 1
  <2>1. stream[c].at \in Nat /\ Len(durable) \in Nat /\ k \in 1 .. Len(durable) /\ stream[c].at < k
    BY <1>3, EndTypes
  <2>2. stream' = [stream EXCEPT ![c].pc = "replaying", ![c].at = k]
    <3>1. stream \in [Streams -> StreamType]
      BY DEF BInv, BusTypes
    <3>2. [stream[c] EXCEPT !.at = k] = [stream[c] EXCEPT !.pc = "replaying", !.at = k]
      BY <1>1, <3>1 DEF StreamType
    <3> QED BY <1>3, <3>1, <3>2
  <2>3. got' = [got EXCEPT ![c] = Append(@, durable[k])]
    BY <1>3
  <2> HIDE DEF k
  <2>4. \A i \in 1 .. Len(got[c]), j \in 1 .. Len(durable) : k <= j => Precedes(got[c][i], durable[j])
    BY <1>1, <2>1 DEF BInv, ReplaysInOrder
  <2>5. /\ \A i \in 1 .. Len(got[c]) : Precedes(got[c][i], durable[k])
        /\ \A i \in 1 .. Len(got[c]), j \in 1 .. Len(durable) : k < j => Precedes(got[c][i], durable[j])
    BY <2>1, <2>4
  <2> QED BY <1>1, <2>1, <2>2, <2>3, <2>5, ReplayStep
<1> QED BY <1>2, <1>3 DEF Replay

LEMMA GoLiveStep == ASSUME BInv, NEW c \in Streams, GoLive(c) PROVE BInv'
<1>1. /\ Idle /\ stream[c].pc \in {"new", "between"}
      /\ UNCHANGED <<bus, sequence, durable, frames, got, within, dropped, thrown>>
      /\ listeners' = Append(listeners, c)
      /\ stream' = [stream EXCEPT ![c].pc = "sleeping"]
      /\ due' = [due EXCEPT ![c] = {}]
  BY DEF GoLive
<1>2. stream[c].queue = <<>> /\ ~ stream[c].done /\ c \notin ToSet(listeners)
  BY <1>1 DEF BInv, Served, Live
<1>3. /\ stream' \in [Streams -> StreamType] /\ \A d \in Streams : d # c => stream'[d] = stream[d]
      /\ stream'[c].pc = "sleeping" /\ stream'[c].queue = <<>> /\ ~ stream'[c].done
  BY <1>1, <1>2, FieldStep DEF Pc
<1>4. /\ listeners' \in Seq(Objects) /\ ToSet(listeners') = ToSet(listeners) \cup {c} /\ Once'
  BY <1>1, <1>2, AppendedOnce DEF Objects
<1>5. due' \in [Streams -> SUBSET Event] /\ due'[c] = {} /\ \A d \in Streams : due'[d] \subseteq due[d]
  BY <1>1 DEF BInv, BusTypes
<1>6. ReplaysInOrder(c)' /\ Served(c)'
  BY <1>3, <1>4 DEF ReplaysInOrder, Served, Live
<1>7. HeardInOrder(c)'
  BY <1>1, <1>3, EmptyQueue DEF BInv
<1>8. /\ \A i \in 1 .. Len(got'[c]) : got'[c][i] < sequence
      /\ \A i \in 1 .. Len(stream'[c].queue) : stream'[c].queue[i] < sequence
      /\ Len(stream'[c].queue) <= MaxQueue
      /\ got' \in [Streams -> Seq(Event)]
  BY <1>1, <1>3, BusAssumption DEF BInv, Published, BusTypes
<1> QED BY <1>1, <1>3, <1>4, <1>5, <1>6, <1>7, <1>8, IdleStep

LEMMA WithoutKeeps ==
  ASSUME BInv, NEW l, listeners' = Without(l)
  PROVE  /\ listeners' \in Seq(Objects) /\ ToSet(listeners') = ToSet(listeners) \ {l} /\ Once'
         /\ \A p \in 1 .. Len(listeners') : \E q \in 1 .. Len(listeners) :
              q >= p /\ listeners'[p] = listeners[q]
  BY WithoutFacts DEF BInv, BusTypes, Once

(* The queue of a consumer that ends is empty.                             *)
LEMMA EndsStep ==
  ASSUME BInv, Idle, NEW c \in Streams, NEW s \in StreamType,
         s.pc = "ended", s.queue = <<>>,
         UNCHANGED <<bus, sequence, durable, frames, got, history>>,
         stream' = [stream EXCEPT ![c] = s], listeners' = Without(c)
  PROVE  BInv'
<1>1. /\ stream' \in [Streams -> StreamType] /\ \A d \in Streams : d # c => stream'[d] = stream[d]
      /\ stream'[c] = s
  BY DEF BInv, BusTypes
<1>2. listeners' \in Seq(Objects) /\ ToSet(listeners') = ToSet(listeners) \ {c} /\ Once'
  BY WithoutKeeps
<1>3. ReplaysInOrder(c)' /\ Served(c)'
  BY <1>1, <1>2 DEF ReplaysInOrder, Served, Live
<1>4. HeardInOrder(c)'
  BY <1>1, EmptyQueue DEF BInv, history
<1>5. /\ \A i \in 1 .. Len(got'[c]) : got'[c][i] < sequence
      /\ \A i \in 1 .. Len(stream'[c].queue) : stream'[c].queue[i] < sequence
      /\ Len(stream'[c].queue) <= MaxQueue
      /\ got' \in [Streams -> Seq(Event)]
  <2>1. got' = got /\ stream'[c].queue = <<>> /\ Len(stream'[c].queue) = 0
    BY <1>1
  <2>2. got \in [Streams -> Seq(Event)] /\ \A i \in 1 .. Len(got[c]) : got[c][i] < sequence
    BY DEF BInv, Published, BusTypes
  <2> QED BY <2>1, <2>2, BusAssumption
<1>6. UNCHANGED <<within, due, dropped, thrown>> /\ due' \in [Streams -> SUBSET Event]
  BY DEF BInv, BusTypes, history
<1> QED BY <1>1, <1>2, <1>3, <1>4, <1>5, <1>6, IdleStep

LEMMA LeaveStep == ASSUME BInv, NEW c \in Streams, Leave(c) PROVE BInv'
<1> DEFINE s == [stream[c] EXCEPT !.pc = "ended", !.queue = <<>>]
<1>1. stream \in [Streams -> StreamType] /\ stream[c] \in StreamType
  BY DEF BInv, BusTypes
<1>2. s \in StreamType /\ s.pc = "ended" /\ s.queue = <<>>
  <2>1. "ended" \in Pc /\ <<>> \in Seq(Event)
    BY DEF Pc
  <2> QED BY <1>1, <2>1 DEF StreamType
<1>3. stream' = [stream EXCEPT ![c] = s]
  BY <1>1 DEF Leave, StreamType
<1> HIDE DEF s
<1> QED BY <1>2, <1>3, EndsStep DEF Leave

LEMMA ReturnStep == ASSUME BInv, NEW c \in Streams, Return(c) PROVE BInv'
<1>1. /\ Idle /\ stream[c].pc = "ended"
      /\ UNCHANGED <<bus, sequence, durable, listeners, frames, got, history>>
  BY DEF Return
<1>2. PICK last \in ToSet(got[c]) : /\ \A e \in ToSet(got[c]) : e <= last
                                    /\ stream' = [stream EXCEPT ![c] = Opened(last + 1)]
  BY DEF Return
<1>3. last \in Nat
  BY <1>2, EndTypes, InSet
<1>4. Opened(last + 1) \in StreamType /\ Opened(last + 1).pc = "new" /\ Opened(last + 1).from = last + 1
      /\ Opened(last + 1).queue = <<>> /\ Opened(last + 1).done = FALSE
  BY <1>3 DEF Opened, StreamType, Pc
<1>5. /\ stream' \in [Streams -> StreamType] /\ \A d \in Streams : d # c => stream'[d] = stream[d]
      /\ stream'[c] = Opened(last + 1)
  BY <1>2, <1>4 DEF BInv, BusTypes
<1>6. c \notin ToSet(listeners)
  BY <1>1 DEF BInv, Served, Live
<1>7. ReplaysInOrder(c)'
  <2>1. \A i \in 1 .. Len(got[c]) : got[c][i] <= last /\ got[c][i] \in Nat
    BY <1>2, EndTypes, InSet
  <2>2. \A i \in 1 .. Len(got[c]) : got[c][i] < last + 1
    BY <1>3, <2>1
  <2> QED BY <1>1, <1>4, <1>5, <2>2 DEF ReplaysInOrder
<1>8. Served(c)'
  BY <1>1, <1>4, <1>5, <1>6 DEF Served, Live
<1>9. HeardInOrder(c)'
  BY <1>1, <1>4, <1>5, EmptyQueue DEF BInv, history
<1>10. /\ \A i \in 1 .. Len(got'[c]) : got'[c][i] < sequence
       /\ \A i \in 1 .. Len(stream'[c].queue) : stream'[c].queue[i] < sequence
       /\ Len(stream'[c].queue) <= MaxQueue
       /\ got' \in [Streams -> Seq(Event)]
  BY <1>1, <1>4, <1>5, BusAssumption DEF BInv, Published, BusTypes
<1>11. /\ UNCHANGED <<within, due, dropped, thrown>> /\ due' \in [Streams -> SUBSET Event]
       /\ listeners' \in Seq(Objects) /\ Once'
  BY <1>1 DEF BInv, BusTypes, Once, history
<1> QED BY <1>1, <1>5, <1>6, <1>7, <1>8, <1>9, <1>10, <1>11, IdleStep

(* An event goes from the queue of a consumer to the consumer.             *)
LEMMA TakeStep ==
  ASSUME BInv, Idle, NEW c \in Streams, stream[c].pc \in {"woken", "yielded"}, stream[c].queue # <<>>,
         UNCHANGED <<bus, sequence, durable, listeners, frames, history>>,
         got' = [got EXCEPT ![c] = Append(@, Head(stream[c].queue))],
         stream' = [stream EXCEPT ![c].pc = "yielded", ![c].queue = Tail(stream[c].queue)]
  PROVE  BInv'
<1> DEFINE q == stream[c].queue
           g == got[c]
           s == [stream[c] EXCEPT !.pc = "yielded", !.queue = Tail(q)]
<1>1. /\ q \in Seq(Event) /\ Head(q) \in Event /\ Head(q) = q[1] /\ Tail(q) \in Seq(Event)
      /\ Len(q) \in Nat \ {0} /\ Len(Tail(q)) = Len(q) - 1
      /\ \A i \in 1 .. Len(q) - 1 : Tail(q)[i] = q[i + 1]
      /\ ToSet(q) = {Head(q)} \cup ToSet(Tail(q))
  BY EndTypes, TailFacts
<1>2. /\ stream' \in [Streams -> StreamType] /\ \A d \in Streams : d # c => stream'[d] = stream[d]
      /\ stream'[c].pc = "yielded" /\ stream'[c].queue = Tail(q) /\ stream'[c].done = stream[c].done
  <2>1. stream \in [Streams -> StreamType] /\ stream[c] \in StreamType
    BY DEF BInv, BusTypes
  <2>2. s \in StreamType /\ s.pc = "yielded" /\ s.queue = Tail(q) /\ s.done = stream[c].done
    BY <1>1, <2>1 DEF StreamType, Pc
  <2>3. stream' = [stream EXCEPT ![c] = s]
    BY <2>1 DEF StreamType
  <2> HIDE DEF s
  <2> QED BY <2>1, <2>2, <2>3
<1>3. /\ got'[c] \in Seq(Event) /\ Len(got'[c]) = Len(g) + 1 /\ Len(g) \in Nat
      /\ \A i \in 1 .. Len(g) : got'[c][i] = g[i]
      /\ got'[c][Len(g) + 1] = q[1]
      /\ ToSet(got'[c]) = ToSet(g) \cup {Head(q)}
      /\ got' \in [Streams -> Seq(Event)] /\ \A d \in Streams : d # c => got'[d] = got[d]
  <2>1. got \in [Streams -> Seq(Event)] /\ g \in Seq(Event)
    BY DEF BInv, BusTypes
  <2>2. got'[c] = Append(g, Head(q)) /\ \A d \in Streams : d # c => got'[d] = got[d]
    BY <2>1
  <2>3. /\ Append(g, Head(q)) \in Seq(Event) /\ Len(Append(g, Head(q))) = Len(g) + 1
        /\ \A i \in 1 .. Len(g) : Append(g, Head(q))[i] = g[i]
        /\ Append(g, Head(q))[Len(g) + 1] = Head(q)
        /\ ToSet(Append(g, Head(q))) = ToSet(g) \cup {Head(q)}
    BY <1>1, <2>1, AppendFacts
  <2>4. got' \in [Streams -> Seq(Event)]
    BY <2>1, <2>3
  <2> QED BY <1>1, <2>1, <2>2, <2>3, <2>4
<1>4. HeardInOrder(c)'
  <2>1. \A i, j \in 1 .. Len(g) : i < j => Follows(g[i], g[j])
    BY DEF BInv, HeardInOrder
  <2>2. \A i, j \in 1 .. Len(q) : i < j => Follows(q[i], q[j])
    BY DEF BInv, HeardInOrder
  <2>3. \A i \in 1 .. Len(g), j \in 1 .. Len(q) : Follows(g[i], q[j])
    BY DEF BInv, HeardInOrder
  <2> HIDE DEF q, g
  <2>4. \A i, j \in 1 .. Len(g) + 1 : i < j => Follows(got'[c][i], got'[c][j])
    BY <1>1, <1>3, <2>1, <2>3
  <2>5. \A i, j \in 1 .. Len(q) - 1 : i < j => Follows(Tail(q)[i], Tail(q)[j])
    BY <1>1, <2>2
  <2>6. \A i \in 1 .. Len(g) + 1, j \in 1 .. Len(q) - 1 : Follows(got'[c][i], Tail(q)[j])
    BY <1>1, <1>3, <2>2, <2>3, SMTT(30)
  <2>7. /\ \A i, j \in 1 .. Len(got'[c]) : i < j => Follows(got'[c][i], got'[c][j])
        /\ \A i, j \in 1 .. Len(stream'[c].queue) : i < j => Follows(stream'[c].queue[i], stream'[c].queue[j])
        /\ \A i \in 1 .. Len(got'[c]), j \in 1 .. Len(stream'[c].queue) :
             Follows(got'[c][i], stream'[c].queue[j])
    <3>1. Len(got'[c]) = Len(g) + 1 /\ stream'[c].queue = Tail(q) /\ Len(Tail(q)) = Len(q) - 1
      BY <1>1, <1>2, <1>3
    <3> QED BY <2>4, <2>5, <2>6, <3>1
  <2>8. bus' = bus /\ within' = within
    BY DEF history
  <2> QED BY ONLY <2>7, <2>8 DEF HeardInOrder, Follows
<1>5. ReplaysInOrder(c)' /\ Served(c)'
  BY <1>2 DEF ReplaysInOrder, Served, Live, BInv
<1>6. /\ \A i \in 1 .. Len(got'[c]) : got'[c][i] < sequence
      /\ \A i \in 1 .. Len(stream'[c].queue) : stream'[c].queue[i] < sequence
      /\ Len(stream'[c].queue) <= MaxQueue
  <2>1. /\ \A i \in 1 .. Len(g) : g[i] < sequence
        /\ \A i \in 1 .. Len(q) : q[i] < sequence /\ Len(q) <= MaxQueue
    BY DEF BInv, Published, BusTypes
  <2>2. MaxQueue \in Nat
    BY BusAssumption
  <2>3. 1 \in 1 .. Len(q) /\ \A i \in 1 .. Len(q) - 1 : i + 1 \in 1 .. Len(q)
    BY <1>1
  <2> HIDE DEF q, g
  <2>4. \A i \in 1 .. Len(got'[c]) : got'[c][i] < sequence
    BY <1>3, <2>1, <2>3
  <2>5. \A i \in 1 .. Len(q) - 1 : Tail(q)[i] < sequence
    BY <1>1, <2>1, <2>3
  <2> QED BY <1>1, <1>2, <2>1, <2>2, <2>3, <2>4, <2>5, SMTT(30)
<1>7. ASSUME bus = "global", c \in ToSet(listeners'), NEW e \in due'[c]
      PROVE  HasHeard(c, e)' \/ e \in dropped[c] \/ e \in thrown
  <2>1. HasHeard(c, e) \/ e \in dropped[c] \/ e \in thrown \/ IsToBeCalled(c, e)
    BY <1>7 DEF BInv, Accounted, history
  <2>2. ~ IsToBeCalled(c, e)
    BY DEF IsToBeCalled, Idle
  <2>3. HasHeard(c, e) => e \in ToSet(got'[c]) \/ e \in ToSet(stream'[c].queue)
    BY <1>1, <1>2, <1>3 DEF HasHeard
  <2> QED BY <2>1, <2>2, <2>3 DEF HasHeard
<1>8. /\ UNCHANGED <<within, due, dropped, thrown>> /\ due' \in [Streams -> SUBSET Event]
      /\ listeners' \in Seq(Objects) /\ Once'
  BY DEF BInv, BusTypes, Once, history
<1> QED BY <1>2, <1>3, <1>4, <1>5, <1>6, <1>7, <1>8, IdleStep

LEMMA AdvanceStep == ASSUME BInv, NEW c \in Streams, Advance(c) PROVE BInv'
<1>1. /\ Idle /\ stream[c].pc \in {"woken", "yielded"}
      /\ UNCHANGED <<bus, sequence, durable, frames, history>>
  BY DEF Advance
<1> DEFINE q == stream[c].queue
<1>2. CASE /\ q # <<>>
           /\ got' = [got EXCEPT ![c] = Append(@, Head(q))]
           /\ stream' = [stream EXCEPT ![c].pc = "yielded", ![c].queue = Tail(q)]
           /\ UNCHANGED listeners
  BY <1>1, <1>2, TakeStep
<1>3. CASE /\ q = <<>> /\ stream[c].done
           /\ stream' = [stream EXCEPT ![c].pc = "ended"]
           /\ listeners' = Without(c) /\ UNCHANGED got
  <2> DEFINE s == [stream[c] EXCEPT !.pc = "ended"]
  <2>1. stream \in [Streams -> StreamType] /\ stream[c] \in StreamType
    BY DEF BInv, BusTypes
  <2>2. s \in StreamType /\ s.pc = "ended" /\ s.queue = <<>>
    BY <1>3, <2>1 DEF StreamType, Pc
  <2>3. stream' = [stream EXCEPT ![c] = s]
    BY <1>3, <2>1
  <2> HIDE DEF s
  <2> QED BY <1>1, <1>3, <2>2, <2>3, EndsStep
<1>4. CASE /\ q = <<>> /\ ~ stream[c].done
           /\ stream' = [stream EXCEPT ![c].pc = "sleeping"]
           /\ UNCHANGED <<listeners, got>>
  <2>1. /\ stream' \in [Streams -> StreamType] /\ \A d \in Streams : d # c => stream'[d] = stream[d]
        /\ stream'[c].pc = "sleeping" /\ stream'[c].queue = <<>> /\ ~ stream'[c].done
    BY <1>4, FieldStep DEF Pc
  <2>2. ReplaysInOrder(c)' /\ Served(c)'
    BY <1>1, <1>4, <2>1 DEF ReplaysInOrder, Served, Live, BInv
  <2>3. HeardInOrder(c)'
    BY <1>1, <1>4, <2>1, EmptyQueue DEF BInv, history
  <2>4. /\ \A i \in 1 .. Len(got'[c]) : got'[c][i] < sequence
        /\ \A i \in 1 .. Len(stream'[c].queue) : stream'[c].queue[i] < sequence
        /\ Len(stream'[c].queue) <= MaxQueue
        /\ got' \in [Streams -> Seq(Event)]
    BY <1>4, <2>1, BusAssumption DEF BInv, Published, BusTypes
  <2>5. ASSUME bus = "global", c \in ToSet(listeners'), NEW e \in due'[c]
        PROVE  HasHeard(c, e)' \/ e \in dropped[c] \/ e \in thrown
    <3>1. HasHeard(c, e) \/ e \in dropped[c] \/ e \in thrown \/ IsToBeCalled(c, e)
      BY <1>1, <1>4, <2>5 DEF BInv, Accounted, history
    <3>2. ~ IsToBeCalled(c, e)
      BY <1>1 DEF IsToBeCalled, Idle
    <3> QED BY <1>4, <2>1, <3>1, <3>2 DEF HasHeard
  <2>6. /\ UNCHANGED <<within, due, dropped, thrown>> /\ due' \in [Streams -> SUBSET Event]
        /\ listeners' \in Seq(Objects) /\ Once'
    BY <1>1, <1>4 DEF BInv, BusTypes, Once, history
  <2> QED BY <1>1, <1>4, <2>1, <2>2, <2>3, <2>4, <2>5, <2>6, IdleStep
<1> QED BY <1>2, <1>3, <1>4 DEF Advance

(* A step of host code that changes who listens, in or between dispatches. *)
LEMMA AsideStep ==
  ASSUME BInv, UNCHANGED <<bus, sequence, durable, frames, got, history>>,
         stream' \in [Streams -> StreamType],
         \A d \in Streams : /\ stream'[d].queue = stream[d].queue
                            /\ stream'[d].from = stream[d].from /\ stream'[d].at = stream[d].at
                            /\ stream'[d].pc \in {"new", "replaying"} => stream'[d].pc = stream[d].pc
                            /\ Live(d) => Live(d)'
                            /\ Served(d)',
         listeners' \in Seq(Objects), Once',
         \A p \in 1 .. Len(listeners') : listeners'[p] \in Streams =>
            \E q \in 1 .. Len(listeners) : q >= p /\ listeners'[p] = listeners[q]
  PROVE  BInv'
<1>1. BusTypes' /\ Published'
  BY DEF BInv, BusTypes, Published, history
<1>2. Stacked' /\ Nested' /\ KeptInOrder'
  BY DEF BInv, Stacked, Nested, KeptInOrder, Precedes, history
<1>3. ASSUME NEW d \in Streams  PROVE ReplaysInOrder(d)' /\ HeardInOrder(d)'
  <2>1. ReplaysInOrder(d)'
    BY DEF BInv, ReplaysInOrder, Precedes, history
  <2>2. HeardInOrder(d)'
    <3>1. HeardInOrder(d) /\ stream'[d].queue = stream[d].queue /\ got' = got /\ bus' = bus /\ within' = within
      BY DEF BInv, history
    <3> QED BY ONLY <3>1 DEF HeardInOrder, Follows
  <2> QED BY <2>1, <2>2
<1>4. CopiesLive' /\ CallsSubscriber'
  BY DEF BInv, CopiesLive, CallsSubscriber
<1>5. StillNew'
  <2> SUFFICES ASSUME bus = "memory", NEW i \in 1 .. Len(frames), NEW p \in 1 .. Len(listeners'),
                      p >= frames[i].at, listeners'[p] \in Streams
               PROVE  ~ HasHeard(listeners[p], frames[i].event)'
    BY DEF StillNew
  <2>1. PICK q \in 1 .. Len(listeners) : q >= p /\ listeners'[p] = listeners[q]
    OBVIOUS
  <2>2. frames[i].at \in Nat /\ Len(listeners) \in Nat /\ Len(listeners') \in Nat
    <3>1. Len(listeners) \in Nat /\ Len(listeners') \in Nat
      BY DEF BInv, BusTypes
    <3> QED BY <3>1, FrameFacts
  <2>3. ~ HasHeard(listeners[q], frames[i].event)
    BY <2>1, <2>2 DEF BInv, StillNew
  <2> QED BY <2>1, <2>3 DEF HasHeard
<1>6. Accounted'
  <2> SUFFICES ASSUME bus = "global", NEW d \in Streams, d \in ToSet(listeners'), NEW e \in due[d]
               PROVE  (HasHeard(d, e) \/ e \in dropped[d] \/ e \in thrown \/ IsToBeCalled(d, e))'
    BY DEF Accounted, history
  <2>1. d \in ToSet(listeners)
    <3>1. PICK p \in 1 .. Len(listeners') : listeners'[p] = d
      BY InSet
    <3>2. listeners \in Seq(Objects)
      BY DEF BInv, BusTypes
    <3> QED BY <3>1, <3>2, InSet
  <2>2. HasHeard(d, e) \/ e \in dropped[d] \/ e \in thrown \/ IsToBeCalled(d, e)
    BY <2>1 DEF BInv, Accounted
  <2> QED BY <2>2 DEF HasHeard, IsToBeCalled, history
<1> QED BY <1>1, <1>2, <1>3, <1>4, <1>5, <1>6 DEF BInv

LEMMA SubscribeStep == ASSUME BInv, NEW o \in Subscribers, Subscribe(o) PROVE BInv'
<1>1. /\ o \notin ToSet(listeners) /\ listeners' = Append(listeners, o) /\ o \in Objects /\ o \notin Streams
      /\ UNCHANGED <<bus, sequence, durable, frames, stream, got, history>>
  BY BusAssumption DEF Subscribe, Objects
<1>2. listeners' \in Seq(Objects) /\ ToSet(listeners') = ToSet(listeners) \cup {o} /\ Once'
  BY <1>1, AppendedOnce
<1>3. \A p \in 1 .. Len(listeners') : listeners'[p] \in Streams =>
         \E q \in 1 .. Len(listeners) : q >= p /\ listeners'[p] = listeners[q]
  <2>1. listeners \in Seq(Objects) /\ Len(listeners) \in Nat
    BY DEF BInv, BusTypes
  <2>2. /\ Len(listeners') = Len(listeners) + 1 /\ listeners'[Len(listeners) + 1] = o
        /\ \A i \in 1 .. Len(listeners) : listeners'[i] = listeners[i]
    BY <1>1, <2>1, AppendFacts
  <2> QED BY <1>1, <2>1, <2>2
<1>4. \A d \in Streams : Live(d)' = Live(d) /\ Served(d)'
  BY <1>1, <1>2 DEF BInv, Served, Live
<1>5. stream' \in [Streams -> StreamType] /\ stream' = stream
  BY <1>1 DEF BInv, BusTypes
<1> QED BY <1>1, <1>2, <1>3, <1>4, <1>5, AsideStep

LEMMA UnsubscribeStep == ASSUME BInv, NEW o \in Subscribers, Unsubscribe(o) PROVE BInv'
<1>1. /\ listeners' = Without(o) /\ o \notin Streams
      /\ UNCHANGED <<bus, sequence, durable, frames, stream, got, history>>
  BY BusAssumption DEF Unsubscribe
<1>2. /\ listeners' \in Seq(Objects) /\ ToSet(listeners') = ToSet(listeners) \ {o} /\ Once'
      /\ \A p \in 1 .. Len(listeners') : \E q \in 1 .. Len(listeners) :
           q >= p /\ listeners'[p] = listeners[q]
  BY <1>1, WithoutKeeps
<1>3. \A d \in Streams : Live(d)' = Live(d) /\ Served(d)'
  BY <1>1, <1>2 DEF BInv, Served, Live
<1>4. stream' \in [Streams -> StreamType] /\ stream' = stream
  BY <1>1 DEF BInv, BusTypes
<1> QED BY <1>1, <1>2, <1>3, <1>4, AsideStep

LEMMA AbortStep == ASSUME BInv, NEW c \in Streams, Abort(c) PROVE BInv'
<1> DEFINE pc == IF stream[c].pc = "sleeping" THEN "woken" ELSE stream[c].pc
           s == [stream[c] EXCEPT !.aborted = TRUE, !.done = Live(c), !.pc = pc]
<1>1. /\ stream[c].pc # "ended"
      /\ listeners' = IF Live(c) THEN Without(c) ELSE listeners
      /\ UNCHANGED <<bus, sequence, durable, frames, got, history>>
  BY DEF Abort
<1>2. stream \in [Streams -> StreamType] /\ stream[c] \in StreamType /\ pc \in Pc
  <2>1. stream \in [Streams -> StreamType] /\ stream[c] \in StreamType /\ stream[c].pc \in Pc
    BY EndTypes DEF BInv, BusTypes
  <2> QED BY <2>1 DEF Pc
<1>3. Live(c) \in BOOLEAN
  BY DEF Live
<1>4. /\ s \in StreamType /\ s.pc = pc /\ s.queue = stream[c].queue /\ s.done = Live(c)
      /\ s.from = stream[c].from /\ s.at = stream[c].at
  BY <1>2, <1>3 DEF StreamType
<1>5. stream' = [stream EXCEPT ![c] = s]
  <2>1. stream' = [stream EXCEPT ![c].aborted = TRUE, ![c].done = Live(c),
                                 ![c].pc = IF @ = "sleeping" THEN "woken" ELSE @]
    BY DEF Abort
  <2> QED BY <1>2, <2>1 DEF StreamType
<1> HIDE DEF s
<1>6. /\ stream' \in [Streams -> StreamType] /\ \A d \in Streams : d # c => stream'[d] = stream[d]
      /\ stream'[c] = s
  BY <1>2, <1>4, <1>5
<1>7. /\ listeners' \in Seq(Objects) /\ Once'
      /\ ToSet(listeners') = IF Live(c) THEN ToSet(listeners) \ {c} ELSE ToSet(listeners)
      /\ \A p \in 1 .. Len(listeners') : \E q \in 1 .. Len(listeners) :
           q >= p /\ listeners'[p] = listeners[q]
  <2>1. CASE Live(c)
    BY <1>1, <2>1, WithoutKeeps
  <2>2. CASE ~ Live(c)
    <3>1. listeners' = listeners /\ listeners \in Seq(Objects) /\ Len(listeners) \in Nat
      BY <1>1, <2>2 DEF BInv, BusTypes
    <3> QED BY <2>2, <3>1 DEF BInv, Once
  <2> QED BY <2>1, <2>2
<1>8. ASSUME NEW d \in Streams
      PROVE  /\ stream'[d].queue = stream[d].queue
             /\ stream'[d].from = stream[d].from /\ stream'[d].at = stream[d].at
             /\ stream'[d].pc \in {"new", "replaying"} => stream'[d].pc = stream[d].pc
             /\ Live(d) => Live(d)'
             /\ Served(d)'
  <2>1. CASE d # c
    <3>1. stream'[d] = stream[d] /\ (d \in ToSet(listeners') <=> d \in ToSet(listeners))
      BY <1>6, <1>7, <2>1
    <3> QED BY <3>1 DEF BInv, Served, Live
  <2>2. CASE d = c
    <3>1. Live(c) <=> pc \in {"woken", "yielded"}
      BY DEF Live
    <3>2. Live(c)' <=> pc \in {"woken", "yielded"}
      BY <1>4, <1>6 DEF Live
    <3>3. Served(c)
      BY DEF BInv
    <3>4. Served(c)'
      BY <1>1, <1>4, <1>6, <1>7, <3>1, <3>2, <3>3 DEF Served
    <3> QED BY <1>4, <1>6, <2>2, <3>1, <3>2, <3>4
  <2> QED BY <2>1, <2>2
<1> QED BY <1>1, <1>6, <1>7, <1>8, AsideStep

(* The durable list takes an event that follows whatever came before it.   *)
LEMMA KeepStep ==
  ASSUME BInv, NEW e \in Event, durable' = Keep(e), UNCHANGED <<bus, stream, got>>,
         sequence' \in Nat, sequence <= sequence', e < sequence',
         \A x \in Event : x < sequence => /\ within'[x] = within[x]
                                          /\ e < x => e \in within'[x]
                                          /\ bus = "memory" => x < e
  PROVE  /\ durable' \in Seq(Event) /\ Len(durable') <= MaxDurable
         /\ \A i \in 1 .. Len(durable') : durable'[i] < sequence'
         /\ KeptInOrder' /\ \A c \in Streams : ReplaysInOrder(c)'
<1>1. /\ durable \in Seq(Event) /\ Len(durable) \in Nat /\ Len(durable) <= MaxDurable
      /\ sequence \in Nat /\ e \in Nat /\ MaxDurable \in Nat
      /\ \A i \in 1 .. Len(durable) : durable[i] \in Event /\ durable[i] \in Nat /\ durable[i] < sequence
  <2>1. /\ durable \in Seq(Event) /\ Len(durable) <= MaxDurable
        /\ \A i \in 1 .. Len(durable) : durable[i] < sequence
        /\ sequence \in Nat /\ Event \subseteq Nat /\ MaxDurable \in Nat
    BY BusAssumption, SMTT(30) DEF BInv, BusTypes, Published, Event
  <2>2. Len(durable) \in Nat /\ \A i \in 1 .. Len(durable) : durable[i] \in Event
    BY <2>1
  <2> QED BY <2>1, <2>2
<1>2. PICK shift \in {0, 1} : IsShifted(durable', shift, e)
  BY <1>1, KeepFacts
<1> DEFINE n == Len(durable')
<1>3. /\ durable' \in Seq(Event) /\ n \in Nat /\ n <= MaxDurable /\ durable'[n] = e
      /\ \A k \in 1 .. n - 1 : k + shift \in 1 .. Len(durable) /\ durable'[k] = durable[k + shift]
  BY <1>1, <1>2 DEF IsShifted
<1>4. \A i \in 1 .. n : durable'[i] < sequence'
  <2> SUFFICES ASSUME NEW i \in 1 .. n  PROVE durable'[i] < sequence'
    OBVIOUS
  <2>1. CASE i = n
    BY <1>3, <2>1
  <2>2. CASE i \in 1 .. n - 1
    <3>1. i + shift \in 1 .. Len(durable) /\ durable'[i] = durable[i + shift]
      BY <1>3, <2>2
    <3> QED BY <1>1, <3>1
  <2> QED BY <1>3, <2>1, <2>2
<1>5. KeptInOrder'
  <2> SUFFICES ASSUME NEW i \in 1 .. n, NEW j \in 1 .. n, i < j
               PROVE  /\ durable'[j] < durable'[i] => durable'[j] \in within'[durable'[i]]
                      /\ bus = "memory" => durable'[i] < durable'[j]
    BY DEF KeptInOrder, Precedes
  <2>1. i \in 1 .. n - 1 /\ i + shift \in 1 .. Len(durable) /\ durable'[i] = durable[i + shift]
    BY <1>3
  <2> DEFINE x == durable[i + shift]
  <2>2. x \in Event /\ x < sequence
    BY <1>1, <2>1
  <2> HIDE DEF x
  <2>3. CASE j = n
    BY <1>3, <2>1, <2>2, <2>3 DEF x
  <2>4. CASE j \in 1 .. n - 1
    <3>1. j + shift \in 1 .. Len(durable) /\ durable'[j] = durable[j + shift] /\ i + shift < j + shift
      BY <1>3, <2>4
    <3>2. Precedes(x, durable[j + shift])
      BY <2>1, <3>1 DEF BInv, KeptInOrder, x
    <3> QED BY <2>1, <2>2, <3>1, <3>2 DEF Precedes, x
  <2> QED BY <1>3, <2>3, <2>4
<1>6. ASSUME NEW c \in Streams  PROVE ReplaysInOrder(c)'
  <2>1. stream[c].pc = "new" => \A i \in 1 .. Len(got[c]) : got[c][i] < stream[c].from
    BY DEF BInv, ReplaysInOrder
  <2>2. ASSUME stream[c].pc = "replaying", NEW k \in 1 .. n, NEW i \in 1 .. Len(got[c]), stream[c].at < k
        PROVE  /\ durable'[k] < got[c][i] => durable'[k] \in within'[got[c][i]]
               /\ bus = "memory" => got[c][i] < durable'[k]
    <3>1. got[c][i] \in Event /\ got[c][i] < sequence /\ stream[c].at \in Nat
      BY EndTypes DEF BInv, Published
    <3>2. CASE k = n
      BY <1>3, <3>1, <3>2
    <3>3. CASE k \in 1 .. n - 1
      <4>1. k + shift \in 1 .. Len(durable) /\ durable'[k] = durable[k + shift] /\ stream[c].at < k + shift
        <5>1. k + shift \in 1 .. Len(durable) /\ durable'[k] = durable[k + shift]
          BY <1>3, <3>3
        <5>2. \A a, b \in Nat, d \in {0, 1} : a < b => a < b + d
          OBVIOUS
        <5> QED BY <1>3, <2>2, <3>1, <5>1, <5>2
      <4>2. Precedes(got[c][i], durable[k + shift])
        BY <2>2, <4>1 DEF BInv, ReplaysInOrder
      <4> QED BY <3>1, <4>1, <4>2 DEF Precedes
    <3>4. k = n \/ k \in 1 .. n - 1
      BY <1>3
    <3> QED BY <3>2, <3>3, <3>4
  <2> QED BY <2>1, <2>2 DEF ReplaysInOrder, Precedes
<1> QED BY <1>3, <1>4, <1>5, <1>6

(* What is below the top of the stack stays.                               *)
LEMMA StackStep ==
  ASSUME BInv, frames' \in Seq(FrameType), Len(frames') <= Len(frames),
         UNCHANGED <<bus, sequence, listeners, stream, got, within, due, dropped>>,
         \A i \in 1 .. Len(frames') : /\ frames'[i].event = frames[i].event
                                      /\ frames'[i].copy = frames[i].copy
                                      /\ frames'[i].at >= frames[i].at,
         thrown' \subseteq Event,
         durable' \in Seq(Event), Len(durable') <= MaxDurable,
         \A i \in 1 .. Len(durable') : durable'[i] < sequence,
         KeptInOrder', \A c \in Streams : ReplaysInOrder(c)',
         CallsSubscriber', Accounted'
  PROVE  BInv'
<1>1. Len(frames) \in Nat /\ Len(frames') \in Nat /\ \A i \in 1 .. Len(frames') : i \in 1 .. Len(frames)
  BY DEF BInv, BusTypes
<1>2. BusTypes'
  BY DEF BInv, BusTypes
<1>3. Published' /\ Stacked' /\ Nested' /\ Once'
  BY <1>1 DEF BInv, Published, Stacked, Nested, Once
<1>4. ASSUME NEW c \in Streams  PROVE HeardInOrder(c)' /\ Served(c)'
  <2>1. HeardInOrder(c) /\ Served(c) /\ got' = got /\ stream' = stream /\ bus' = bus /\ within' = within
        /\ listeners' = listeners
    BY DEF BInv
  <2>2. HeardInOrder(c)'
    BY ONLY <2>1 DEF HeardInOrder, Follows
  <2>3. Served(c)'
    BY ONLY <2>1 DEF Served, Live
  <2> QED BY <2>2, <2>3
<1>5. CopiesLive'
  BY <1>1 DEF BInv, CopiesLive, Live
<1>6. StillNew'
  <2> SUFFICES ASSUME bus = "memory", NEW i \in 1 .. Len(frames'), NEW p \in 1 .. Len(listeners),
                      p >= frames'[i].at, listeners[p] \in Streams
               PROVE  ~ HasHeard(listeners[p], frames[i].event)
    BY DEF StillNew, HasHeard
  <2>1. frames[i].at \in Nat /\ frames'[i].at \in Nat /\ i \in 1 .. Len(frames) /\ frames'[i].at >= frames[i].at
    <3>1. frames'[i] \in FrameType
      OBVIOUS
    <3> QED BY <1>1, <3>1, FrameFacts DEF FrameType
  <2>2. p >= frames[i].at
    BY <2>1
  <2> QED BY <2>1, <2>2 DEF BInv, StillNew
<1> QED BY <1>2, <1>3, <1>4, <1>5, <1>6 DEF BInv

(* The handler at the top is called or has returned: nothing is kept.      *)
LEMMA HandlerStep ==
  ASSUME BInv, ~ Idle, NEW f \in FrameType, frames' = [frames EXCEPT ![Len(frames)] = f],
         f.event = Top.event, f.copy = Top.copy, f.at >= Top.at,
         UNCHANGED <<bus, sequence, durable, listeners, stream, got, history>>,
         bus = "global" /\ f.running => f.at <= Len(f.copy) /\ f.copy[f.at] \in Subscribers,
         bus = "global" => \A k \in Top.at .. Len(Top.copy) : Top.copy[k] \in Streams => k >= f.at
  PROVE  BInv'
<1> DEFINE n == Len(frames)
<1>1. /\ frames' \in Seq(FrameType) /\ Len(frames') = n /\ n \in Nat \ {0} /\ frames'[n] = f
      /\ \A i \in 1 .. n : i # n => frames'[i] = frames[i]
      /\ Top = frames[n] /\ Top.at \in Nat
  <2>1. BusTypes
    BY DEF BInv
  <2>2. Top = frames[n] /\ Top.at \in Nat
    BY <2>1, TopType
  <2> HIDE DEF Top
  <2>3. /\ frames' \in Seq(FrameType) /\ Len(frames') = n /\ n \in Nat \ {0} /\ frames'[n] = f
        /\ \A i \in 1 .. n : i # n => frames'[i] = frames[i]
    BY <2>1, TopFacts
  <2> QED BY <2>2, <2>3
<1>2. \A i \in 1 .. n : /\ frames'[i].event = frames[i].event
                        /\ frames'[i].copy = frames[i].copy
                        /\ frames'[i].at >= frames[i].at
  <2> TAKE i \in 1 .. n
  <2>1. frames[i].at \in Nat
    BY FrameFacts
  <2>2. CASE i = n
    BY <1>1, <2>2
  <2>3. CASE i # n
    <3>1. frames'[i] = frames[i]
      BY <1>1, <2>3
    <3>2. \A a \in Nat : a >= a
      OBVIOUS
    <3> QED BY <2>1, <3>1, <3>2
  <2> QED BY <2>2, <2>3
<1>3. CallsSubscriber'
  <2> SUFFICES ASSUME bus = "global", NEW i \in 1 .. n, frames'[i].running
               PROVE  frames'[i].at <= Len(frames'[i].copy) /\ frames'[i].copy[frames'[i].at] \in Subscribers
    BY <1>1 DEF CallsSubscriber
  <2>1. CASE i = n
    BY <1>1, <2>1
  <2>2. CASE i # n
    BY <1>1, <2>2 DEF BInv, CallsSubscriber
  <2> QED BY <2>1, <2>2
<1>4. Accounted'
  <2> SUFFICES ASSUME bus = "global", NEW c \in Streams, c \in ToSet(listeners), NEW e \in due[c],
                      IsToBeCalled(c, e)
               PROVE  IsToBeCalled(c, e)'
    BY DEF BInv, Accounted, HasHeard, history
  <2>1. PICK i \in 1 .. n : /\ frames[i].event = e
                            /\ \E k \in frames[i].at .. Len(frames[i].copy) : frames[i].copy[k] = c
    BY DEF IsToBeCalled
  <2>2. PICK k \in frames[i].at .. Len(frames[i].copy) : frames[i].copy[k] = c
    BY <2>1
  <2>3. frames'[i].event = e /\ frames'[i].copy = frames[i].copy
    BY <1>2, <2>1
  <2>4. k \in frames'[i].at .. Len(frames'[i].copy)
    <3>1. CASE i = n
      <4>1. f.at \in Nat /\ Top.at \in Nat /\ Len(Top.copy) \in Nat
        BY <1>1, <3>1, FrameFacts DEF FrameType
      <4>2. k \in Top.at .. Len(Top.copy) /\ Top.copy[k] \in Streams
        BY <1>1, <2>2, <3>1
      <4>3. k >= f.at
        BY <4>2
      <4>4. frames'[i].at = f.at /\ frames'[i].copy = Top.copy
        BY <1>1, <3>1
      <4> QED BY <4>1, <4>2, <4>3, <4>4
    <3>2. CASE i # n
      BY <1>1, <2>2, <3>2
    <3> QED BY <3>1, <3>2
  <2> QED BY <1>1, <2>2, <2>3, <2>4 DEF IsToBeCalled
<1>5. KeptInOrder' /\ \A c \in Streams : ReplaysInOrder(c)'
  BY DEF BInv, KeptInOrder, ReplaysInOrder, Precedes, history
<1>6. /\ durable' \in Seq(Event) /\ Len(durable') <= MaxDurable /\ thrown' \subseteq Event
      /\ \A i \in 1 .. Len(durable') : durable'[i] < sequence
      /\ UNCHANGED <<within, due, dropped>>
  BY DEF BInv, BusTypes, Published, history
<1>7. Len(frames') <= Len(frames)
      /\ \A i \in 1 .. Len(frames') : /\ frames'[i].event = frames[i].event
                                      /\ frames'[i].copy = frames[i].copy
                                      /\ frames'[i].at >= frames[i].at
  <2>1. \A a \in Nat : a <= a
    OBVIOUS
  <2>2. Len(frames') = Len(frames) /\ Len(frames) \in Nat
    BY <1>1
  <2> QED BY <1>2, <2>1, <2>2
<1>8. UNCHANGED <<bus, sequence, listeners, stream, got>>
  OBVIOUS
<1> HIDE DEF n, Top
<1> QED BY <1>1, <1>3, <1>4, <1>5, <1>6, <1>7, <1>8, StackStep

LEMMA CallSubscriberStep == ASSUME BInv, CallSubscriber PROVE BInv'
<1> DEFINE f == [Top EXCEPT !.running = TRUE]
<1>1. /\ ~ Idle /\ Top.at <= Len(Called(Top)) /\ Called(Top)[Top.at] \in Subscribers
      /\ UNCHANGED <<bus, sequence, durable, listeners, stream, got, history>>
  BY DEF CallSubscriber
<1>2. Top \in FrameType /\ Top.at \in Nat /\ Top = frames[Len(frames)] /\ Len(frames) \in Nat \ {0}
      /\ frames \in Seq(FrameType)
  BY <1>1, TopType DEF BInv, BusTypes
<1>3. f \in FrameType /\ f.event = Top.event /\ f.copy = Top.copy /\ f.at = Top.at /\ f.running = TRUE
  BY <1>2 DEF FrameType
<1>4. frames' = [frames EXCEPT ![Len(frames)] = f]
  BY <1>2 DEF CallSubscriber
<1> HIDE DEF f
<1>5. bus = "global" => f.at <= Len(f.copy) /\ f.copy[f.at] \in Subscribers
  BY <1>1, <1>3 DEF Called
<1>6. f.at >= Top.at /\ \A k \in Top.at .. Len(Top.copy) : k >= f.at
  <2>1. Len(Top.copy) \in Nat
    BY <1>2, FrameFacts
  <2> QED BY <1>2, <1>3, <2>1
<1> QED BY <1>1, <1>3, <1>4, <1>5, <1>6, HandlerStep

LEMMA HandlerReturnsStep == ASSUME BInv, HandlerReturns PROVE BInv'
<1> DEFINE f == [Top EXCEPT !.running = FALSE, !.at = @ + 1]
<1>1. /\ ~ Idle /\ Top.running
      /\ UNCHANGED <<bus, sequence, durable, listeners, stream, got, history>>
  BY DEF HandlerReturns
<1>2. /\ Top \in FrameType /\ Top.at \in Nat \ {0} /\ Top = frames[Len(frames)] /\ Len(frames) \in Nat \ {0}
      /\ frames \in Seq(FrameType) /\ Len(Top.copy) \in Nat
  BY <1>1, TopType, FrameFacts DEF BInv, BusTypes
<1>3. f \in FrameType /\ f.event = Top.event /\ f.copy = Top.copy /\ f.at = Top.at + 1 /\ f.running = FALSE
  <2>1. Top.at + 1 \in Nat \ {0}
    BY <1>2
  <2> QED BY <1>2, <2>1 DEF FrameType
<1>4. frames' = [frames EXCEPT ![Len(frames)] = f]
  BY <1>2 DEF HandlerReturns, FrameType
<1> HIDE DEF f
<1>5. ASSUME bus = "global", NEW k \in Top.at .. Len(Top.copy), Top.copy[k] \in Streams
      PROVE  k >= f.at
  <2>1. Top.copy[Top.at] \in Subscribers
    BY <1>1, <1>2, <1>5 DEF BInv, CallsSubscriber
  <2>2. k # Top.at
    BY <1>5, <2>1, BusAssumption
  <2> QED BY <1>2, <1>3, <2>2
<1>6. f.at >= Top.at
  BY <1>2, <1>3
<1> QED BY <1>1, <1>3, <1>4, <1>5, <1>6, HandlerStep

(* A dispatch is over, or its handler threw.                               *)
LEMMA FrontStep ==
  ASSUME BInv, ~ Idle, frames' = Front(frames),
         UNCHANGED <<bus, sequence, listeners, stream, got, within, due, dropped>>,
         thrown' \subseteq Event, thrown \subseteq thrown',
         durable' \in Seq(Event), Len(durable') <= MaxDurable,
         \A i \in 1 .. Len(durable') : durable'[i] < sequence,
         KeptInOrder', \A c \in Streams : ReplaysInOrder(c)',
         bus = "global" => Top.event \in thrown' \/ Top.at > Len(Top.copy)
  PROVE  BInv'
<1> DEFINE n == Len(frames)
<1>1. /\ frames' \in Seq(FrameType) /\ n \in Nat \ {0} /\ Len(frames') = n - 1
      /\ \A i \in 1 .. n - 1 : frames'[i] = frames[i]
      /\ Top = frames[n]
  BY FrontFacts, TopType DEF BInv, BusTypes, Idle
<1>2. \A i \in 1 .. n - 1 : /\ frames'[i].event = frames[i].event
                            /\ frames'[i].copy = frames[i].copy
                            /\ frames'[i].at >= frames[i].at
  <2> TAKE i \in 1 .. n - 1
  <2>1. frames[i].at \in Nat
    BY <1>1, FrameFacts
  <2> QED BY <1>1, <2>1, SMTT(30)
<1>3. CallsSubscriber'
  BY <1>1 DEF BInv, CallsSubscriber
<1>4. Accounted'
  <2> SUFFICES ASSUME bus = "global", NEW c \in Streams, c \in ToSet(listeners), NEW e \in due[c],
                      IsToBeCalled(c, e)
               PROVE  e \in thrown' \/ IsToBeCalled(c, e)'
    BY DEF BInv, Accounted, HasHeard
  <2>1. PICK i \in 1 .. n : /\ frames[i].event = e
                            /\ \E k \in frames[i].at .. Len(frames[i].copy) : frames[i].copy[k] = c
    BY DEF IsToBeCalled
  <2>2. CASE i = n
    <3>1. frames[i].at \in Nat /\ Len(frames[i].copy) \in Nat
      BY FrameFacts
    <3> QED BY <1>1, <2>1, <2>2, <3>1
  <2>3. CASE i \in 1 .. n - 1
    BY <1>1, <2>1, <2>3, SMTT(30) DEF IsToBeCalled
  <2> QED BY <1>1, <2>2, <2>3
<1> HIDE DEF n
<1>5. Len(frames') <= Len(frames) /\ Len(frames') = n - 1
  BY <1>1 DEF n
<1> QED BY <1>1, <1>2, <1>3, <1>4, <1>5, StackStep

LEMMA HandlerThrowsStep == ASSUME BInv, HandlerThrows PROVE BInv'
<1>1. /\ ~ Idle /\ bus = "global" /\ frames' = Front(frames) /\ thrown' = thrown \cup {Top.event}
      /\ UNCHANGED <<bus, sequence, durable, listeners, stream, got, within, due, dropped>>
  BY DEF HandlerThrows
<1>2. thrown' \subseteq Event /\ thrown \subseteq thrown' /\ Top.event \in thrown'
  BY <1>1, TopType DEF BInv, BusTypes
<1>3. KeptInOrder' /\ \A c \in Streams : ReplaysInOrder(c)'
  BY <1>1 DEF BInv, KeptInOrder, ReplaysInOrder, Precedes
<1>4. /\ durable' \in Seq(Event) /\ Len(durable') <= MaxDurable
      /\ \A i \in 1 .. Len(durable') : durable'[i] < sequence
  BY <1>1 DEF BInv, BusTypes, Published
<1> QED BY <1>1, <1>2, <1>3, <1>4, FrontStep

LEMMA DispatchEndsStep == ASSUME BInv, DispatchEnds PROVE BInv'
<1>1. /\ ~ Idle /\ Top.at > Len(Called(Top)) /\ frames' = Front(frames)
      /\ durable' = IF bus = "global" THEN Keep(Top.event) ELSE durable
      /\ UNCHANGED <<bus, sequence, listeners, stream, got, within, due, dropped, thrown>>
  BY DEF DispatchEnds, history
<1>2. thrown' \subseteq Event /\ thrown \subseteq thrown' /\ sequence \in Nat
  BY <1>1 DEF BInv, BusTypes
<1>3. bus = "global" => Top.at > Len(Top.copy)
  BY <1>1 DEF Called
<1>4. /\ durable' \in Seq(Event) /\ Len(durable') <= MaxDurable
      /\ \A i \in 1 .. Len(durable') : durable'[i] < sequence
      /\ KeptInOrder' /\ \A c \in Streams : ReplaysInOrder(c)'
  <2>1. CASE bus # "global"
    BY <1>1, <2>1 DEF BInv, BusTypes, Published, KeptInOrder, ReplaysInOrder, Precedes
  <2>2. CASE bus = "global"
    <3>1. /\ Len(frames) \in 1 .. Len(frames) /\ Top = frames[Len(frames)]
          /\ Top.event \in Event /\ Top.event < sequence
      <4>1. Len(frames) \in Nat \ {0} /\ Top = frames[Len(frames)]
        BY <1>1, TopType DEF BInv
      <4>2. Len(frames) \in 1 .. Len(frames)
        BY <4>1
      <4> QED BY <4>1, <4>2, FrameFacts
    <3>2. ASSUME NEW x \in Event, x < sequence
          PROVE  within'[x] = within[x] /\ (Top.event < x => Top.event \in within'[x])
      BY <1>1, <3>1, <3>2 DEF BInv, Nested
    <3>3. sequence' = sequence /\ sequence <= sequence' /\ UNCHANGED <<bus, stream, got>>
          /\ durable' = Keep(Top.event)
      BY <1>1, <1>2, <2>2
    <3>4. bus # "memory"
      BY <2>2
    <3> HIDE DEF Top
    <3>5. \A x \in Event : x < sequence => /\ within'[x] = within[x]
                                           /\ Top.event < x => Top.event \in within'[x]
                                           /\ bus = "memory" => x < Top.event
      BY <3>2, <3>4
    <3>6. sequence' \in Nat /\ Top.event < sequence'
      BY <1>2, <3>1, <3>3
    <3>7. /\ durable' \in Seq(Event) /\ Len(durable') <= MaxDurable
          /\ \A i \in 1 .. Len(durable') : durable'[i] < sequence'
          /\ KeptInOrder' /\ \A c \in Streams : ReplaysInOrder(c)'
      BY <3>1, <3>3, <3>5, <3>6, KeepStep
    <3> QED BY <3>3, <3>7
  <2> QED BY <2>1, <2>2
<1> QED BY <1>1, <1>2, <1>3, <1>4, FrontStep

(* A new dispatch is put on the stack: its event is behind every other.    *)
LEMMA PublishStep == ASSUME BInv, Publish PROVE BInv'
<1> DEFINE n == Len(frames)
           copy == IF bus = "global" THEN listeners ELSE <<>>
           f == [event |-> sequence, at |-> 1, running |-> FALSE, copy |-> copy]
<1>1. /\ sequence < MaxEvents /\ sequence' = sequence + 1
      /\ durable' = IF bus = "memory" THEN Keep(sequence) ELSE durable
      /\ frames' = Append(frames, f)
      /\ within' = [within EXCEPT ![sequence] = Dispatched]
      /\ due' = [c \in Streams |-> due[c] \cup {e \in {sequence} : c \in ToSet(listeners)}]
      /\ UNCHANGED <<bus, listeners, stream, got, dropped, thrown>>
  BY DEF Publish
<1>2. /\ sequence \in Nat /\ sequence \in Event /\ Event \subseteq Nat
      /\ \A e \in Event : e < sequence + 1 => e < sequence \/ e = sequence
      /\ sequence' \in 0 .. MaxEvents /\ sequence' \in Nat /\ sequence <= sequence' /\ sequence < sequence'
  BY <1>1, BusAssumption DEF BInv, BusTypes, Event
<1>3. copy \in Seq(Objects) /\ (bus = "global" => copy = listeners)
  BY DEF BInv, BusTypes
<1>4. f \in FrameType /\ f.event = sequence /\ f.at = 1 /\ f.running = FALSE /\ f.copy = copy
  <2> HIDE DEF copy
  <2> QED BY <1>2, <1>3 DEF FrameType
<1> HIDE DEF f, copy
<1>5. /\ frames' \in Seq(FrameType) /\ Len(frames') = n + 1 /\ n \in Nat
      /\ \A i \in 1 .. n : frames'[i] = frames[i]
      /\ frames'[n + 1] = f
  <2>1. frames \in Seq(FrameType) /\ n \in Nat
    BY DEF BInv, BusTypes
  <2> QED BY <1>1, <1>4, <2>1, AppendFacts
<1>6. /\ \A i \in 1 .. n : frames[i].event \in Event /\ frames[i].event < sequence
      /\ \A e \in Dispatched : e \in Event /\ e < sequence
      /\ \A i \in 1 .. n : frames[i].event \in Dispatched
  BY FrameFacts DEF Dispatched
<1>7. /\ within' \in [Event -> SUBSET Event] /\ within'[sequence] = Dispatched
      /\ \A e \in Event : e < sequence => within'[e] = within[e]
  <2>1. within \in [Event -> SUBSET Event] /\ Dispatched \in SUBSET Event
    BY <1>6 DEF BInv, BusTypes
  <2> QED BY <1>1, <1>2, <2>1
<1>8. /\ durable' \in Seq(Event) /\ Len(durable') <= MaxDurable
      /\ \A i \in 1 .. Len(durable') : durable'[i] < sequence'
      /\ KeptInOrder' /\ \A c \in Streams : ReplaysInOrder(c)'
  <2>1. CASE bus = "memory"
    <3>1. \A x \in Event : x < sequence => /\ within'[x] = within[x]
                                           /\ sequence < x => sequence \in within'[x]
                                           /\ bus = "memory" => x < sequence
      BY <1>2, <1>7
    <3> QED BY <1>1, <1>2, <2>1, <3>1, KeepStep
  <2>2. CASE bus # "memory"
    <3>1. durable' = durable /\ \A i \in 1 .. Len(durable) : durable[i] \in Event /\ durable[i] < sequence
      <4>1. durable \in Seq(Event) /\ \A i \in 1 .. Len(durable) : durable[i] < sequence
        BY DEF BInv, BusTypes, Published
      <4> QED BY <1>1, <2>2, <4>1
    <3>2. durable' \in Seq(Event) /\ Len(durable') <= MaxDurable
      BY <3>1 DEF BInv, BusTypes
    <3>3. \A i \in 1 .. Len(durable') : durable'[i] < sequence'
      <4>1. \A x \in Nat : x < sequence => x < sequence'
        BY <1>1, <1>2
      <4> QED BY <1>2, <3>1, <4>1
    <3>4. KeptInOrder'
      BY <1>1, <1>7, <3>1 DEF BInv, KeptInOrder, Precedes
    <3>5. ASSUME NEW c \in Streams  PROVE ReplaysInOrder(c)'
      <4>1. \A i \in 1 .. Len(got[c]) : got[c][i] \in Event /\ got[c][i] < sequence
        BY EndTypes DEF BInv, Published
      <4> QED BY <1>1, <1>7, <3>1, <4>1 DEF BInv, ReplaysInOrder, Precedes
    <3> QED BY <3>2, <3>3, <3>4, <3>5
  <2> QED BY <2>1, <2>2
<1>9. BusTypes'
  <2>1. due' \in [Streams -> SUBSET Event]
    BY <1>1, <1>2 DEF BInv, BusTypes
  <2> QED BY <1>1, <1>2, <1>5, <1>7, <1>8, <2>1 DEF BInv, BusTypes
<1>10. Published' /\ Once'
  <2>1. \A i \in 1 .. Len(frames') : frames'[i].event < sequence'
    <3> TAKE i \in 1 .. Len(frames')
    <3>1. i \in 1 .. n \/ i = n + 1
      BY <1>5
    <3>2. \A x \in Nat : x < sequence => x < sequence'
      BY <1>1, <1>2
    <3>3. CASE i \in 1 .. n
      BY <1>2, <1>5, <1>6, <3>2, <3>3
    <3>4. CASE i = n + 1
      BY <1>2, <1>4, <1>5, <3>4
    <3> QED BY <3>1, <3>3, <3>4
  <2>2. ASSUME NEW c \in Streams
        PROVE  /\ \A i \in 1 .. Len(got[c]) : got[c][i] < sequence'
               /\ \A i \in 1 .. Len(stream[c].queue) : stream[c].queue[i] < sequence'
    <3>1. /\ \A i \in 1 .. Len(got[c]) : got[c][i] < sequence /\ got[c][i] \in Nat
          /\ \A i \in 1 .. Len(stream[c].queue) : stream[c].queue[i] < sequence /\ stream[c].queue[i] \in Nat
      BY EndTypes DEF BInv, Published
    <3> QED BY <1>1, <1>2, <3>1
  <2> QED BY <1>1, <1>8, <2>1, <2>2 DEF BInv, Published, Once
<1>11. Stacked'
  <2> SUFFICES ASSUME NEW i \in 1 .. n + 1, NEW j \in 1 .. n + 1, i < j
               PROVE  frames'[i].event < frames'[j].event
    BY <1>5 DEF Stacked
  <2>1. i \in 1 .. n /\ (j \in 1 .. n \/ j = n + 1)
    BY <1>5
  <2> QED BY <1>4, <1>5, <1>6, <2>1 DEF BInv, Stacked
<1>12. Nested'
  <2>1. ASSUME NEW i \in 1 .. Len(frames'), NEW h \in Event, frames'[i].event < h, h < sequence'
        PROVE  frames'[i].event \in within'[h]
    <3>1. h < sequence \/ h = sequence
      BY <1>1, <1>2, <2>1
    <3>2. i \in 1 .. n
      <4>1. i # n + 1
        BY <1>2, <1>4, <1>5, <2>1, <3>1
      <4> QED BY <1>5, <4>1
    <3>3. CASE h < sequence
      BY <1>5, <1>7, <2>1, <3>2, <3>3 DEF BInv, Nested
    <3>4. CASE h = sequence
      BY <1>5, <1>6, <1>7, <3>2, <3>4
    <3> QED BY <3>1, <3>3, <3>4
  <2>2. ASSUME NEW d \in Event, NEW g \in Event, NEW h \in Event,
               h < sequence', d < g, g < h, d \in within'[h]
        PROVE  d \in within'[g]
    <3>1. (h < sequence \/ h = sequence) /\ g < sequence /\ within'[g] = within[g]
      <4>1. h < sequence \/ h = sequence
        BY <1>1, <1>2, <2>2
      <4>2. g < sequence
        BY <1>2, <2>2, <4>1
      <4> QED BY <1>7, <4>1, <4>2
    <3>2. CASE h < sequence
      BY <1>7, <2>2, <3>1, <3>2 DEF BInv, Nested
    <3>3. CASE h = sequence
      <4>1. PICK i \in 1 .. n : frames[i].event = d
        BY <1>7, <2>2, <3>3 DEF Dispatched
      <4> QED BY <2>2, <3>1, <4>1 DEF BInv, Nested
    <3> QED BY <3>1, <3>2, <3>3
  <2> QED BY <2>1, <2>2 DEF Nested
<1>13. ASSUME NEW c \in Streams  PROVE HeardInOrder(c)' /\ Served(c)'
  <2>1. Served(c)'
    BY <1>1 DEF BInv, Served, Live
  <2>2. /\ \A i \in 1 .. Len(got[c]) : within'[got[c][i]] = within[got[c][i]]
        /\ \A i \in 1 .. Len(stream[c].queue) : within'[stream[c].queue[i]] = within[stream[c].queue[i]]
    <3>1. /\ \A i \in 1 .. Len(got[c]) : got[c][i] < sequence /\ got[c][i] \in Event
          /\ \A i \in 1 .. Len(stream[c].queue) : stream[c].queue[i] < sequence /\ stream[c].queue[i] \in Event
      BY EndTypes DEF BInv, Published
    <3> QED BY <1>7, <3>1
  <2>3. HeardInOrder(c) /\ got' = got /\ stream' = stream /\ bus' = bus
    BY <1>1 DEF BInv
  <2>4. HeardInOrder(c)'
    BY ONLY <2>2, <2>3 DEF HeardInOrder, Follows
  <2> QED BY <2>1, <2>4
<1>14. CopiesLive' /\ CallsSubscriber'
  <2> SUFFICES ASSUME NEW i \in 1 .. n + 1
               PROVE  /\ \A k \in 1 .. Len(frames'[i].copy) :
                           frames'[i].copy[k] \in Streams => Live(frames'[i].copy[k])
                      /\ bus = "global" /\ frames'[i].running =>
                           frames'[i].at <= Len(frames'[i].copy) /\ frames'[i].copy[frames'[i].at] \in Subscribers
    BY <1>1, <1>5 DEF CopiesLive, CallsSubscriber, Live
  <2>1. CASE i \in 1 .. n
    BY <1>5, <2>1 DEF BInv, CopiesLive, CallsSubscriber
  <2>2. CASE i = n + 1
    <3>1. ASSUME NEW k \in 1 .. Len(copy), copy[k] \in Streams  PROVE Live(copy[k])
      <4>1. CASE bus = "global"
        <5>1. copy = listeners /\ listeners \in Seq(Objects)
          BY <1>3, <4>1 DEF BInv, BusTypes
        <5>2. copy[k] \in ToSet(listeners)
          BY <3>1, <5>1, InSet
        <5> QED BY <3>1, <5>2 DEF BInv, Served
      <4>2. CASE bus # "global"
        <5>1. Len(copy) = 0
          BY <4>2 DEF copy
        <5> QED BY <5>1
      <4> QED BY <4>1, <4>2
    <3> QED BY <1>4, <1>5, <2>2, <3>1
  <2> QED BY <1>5, <2>1, <2>2
<1>15. StillNew'
  <2> SUFFICES ASSUME bus = "memory", NEW i \in 1 .. n + 1, NEW p \in 1 .. Len(listeners),
                      p >= frames'[i].at, listeners[p] \in Streams
               PROVE  ~ HasHeard(listeners[p], frames'[i].event)
    BY <1>1, <1>5 DEF StillNew, HasHeard
  <2>1. CASE i \in 1 .. n
    BY <1>5, <2>1 DEF BInv, StillNew
  <2>2. CASE i = n + 1
    <3> DEFINE c == listeners[p]
    <3> HIDE DEF c
    <3>0. c \in Streams
      BY DEF c
    <3>1. /\ got[c] \in Seq(Event) /\ stream[c].queue \in Seq(Event)
          /\ \A k \in 1 .. Len(got[c]) : got[c][k] < sequence /\ got[c][k] \in Nat
          /\ \A k \in 1 .. Len(stream[c].queue) : stream[c].queue[k] < sequence /\ stream[c].queue[k] \in Nat
      <4>1. /\ \A k \in 1 .. Len(got[c]) : got[c][k] < sequence
            /\ \A k \in 1 .. Len(stream[c].queue) : stream[c].queue[k] < sequence
        BY <3>0 DEF BInv, Published
      <4> QED BY <3>0, <4>1, EndTypes
    <3>2. /\ \A k \in 1 .. Len(got[c]) : got[c][k] # sequence
          /\ \A k \in 1 .. Len(stream[c].queue) : stream[c].queue[k] # sequence
      <4>1. \A x \in Nat : x < sequence => x # sequence
        BY <1>2
      <4> QED BY <3>1, <4>1
    <3>3. ~ HasHeard(c, sequence)
      BY <3>1, <3>2, InSet DEF HasHeard
    <3> QED BY <1>4, <1>5, <2>2, <3>3 DEF c
  <2> QED BY <1>5, <2>1, <2>2
<1>16. Accounted'
  <2> SUFFICES ASSUME bus = "global", NEW c \in Streams, c \in ToSet(listeners), NEW e \in due'[c]
               PROVE  HasHeard(c, e) \/ e \in dropped[c] \/ e \in thrown \/ IsToBeCalled(c, e)'
    BY <1>1 DEF Accounted, HasHeard
  <2>1. CASE e \in due[c]
    <3>1. IsToBeCalled(c, e) => IsToBeCalled(c, e)'
      <4> SUFFICES ASSUME NEW i \in 1 .. n, frames[i].event = e,
                          NEW k \in frames[i].at .. Len(frames[i].copy), frames[i].copy[k] = c
                   PROVE  IsToBeCalled(c, e)'
        BY DEF IsToBeCalled
      <4>1. frames'[i] = frames[i] /\ i \in 1 .. Len(frames')
        BY <1>5
      <4> QED BY <4>1 DEF IsToBeCalled
    <3> QED BY <2>1, <3>1 DEF BInv, Accounted
  <2>2. CASE e = sequence
    <3>1. listeners \in Seq(Objects)
      BY DEF BInv, BusTypes
    <3>2. PICK k \in 1 .. Len(listeners) : listeners[k] = c
      BY <3>1, InSet
    <3>3. /\ n + 1 \in 1 .. Len(frames') /\ frames'[n + 1].event = e
          /\ k \in frames'[n + 1].at .. Len(frames'[n + 1].copy) /\ frames'[n + 1].copy[k] = c
      BY <1>3, <1>4, <1>5, <2>2, <3>2
    <3> QED BY <3>3 DEF IsToBeCalled
  <2> QED BY <1>1, <2>1, <2>2
<1> QED BY <1>8, <1>9, <1>10, <1>11, <1>12, <1>13, <1>14, <1>15, <1>16 DEF BInv

LEMMA CallStreamStep == ASSUME BInv, CallStream PROVE BInv'
<1>0. PICK c \in Streams : c = Called(Top)[Top.at]
  BY DEF CallStream
<1> DEFINE n == Len(frames)
           t == Top.event
           q == stream[c].queue
           kept == IF Len(q) >= MaxQueue THEN Tail(q) ELSE q
           s == Hears(stream[c], t)
           f == [Top EXCEPT !.at = @ + 1]
<1>1. /\ ~ Idle /\ ~ Top.running /\ Top.at <= Len(Called(Top))
      /\ stream' = [stream EXCEPT ![c] = Hears(@, t)]
      /\ dropped' = [dropped EXCEPT ![c] = IF Len(stream[c].queue) < MaxQueue THEN @
                                           ELSE @ \cup {Head(stream[c].queue)}]
      /\ frames' = [frames EXCEPT ![n].at = @ + 1]
      /\ UNCHANGED <<bus, sequence, durable, listeners, got, within, due, thrown>>
  BY <1>0 DEF CallStream
<1>2. /\ Top \in FrameType /\ Top.at \in Nat \ {0} /\ Top = frames[n] /\ n \in Nat \ {0} /\ n \in 1 .. n
      /\ frames \in Seq(FrameType) /\ t \in Event /\ t \in Nat /\ t < sequence /\ sequence \in Nat
  <2>1. Top = frames[n] /\ n \in Nat \ {0} /\ n \in 1 .. n /\ frames \in Seq(FrameType) /\ sequence \in Nat
    BY <1>1, TopType DEF BInv, BusTypes
  <2>2. Top \in FrameType /\ Top.at \in Nat \ {0} /\ t \in Event /\ t \in Nat /\ t < sequence
    BY <2>1, FrameFacts
  <2> QED BY <2>1, <2>2
<1>3. f \in FrameType /\ f.event = t /\ f.copy = Top.copy /\ f.at = Top.at + 1 /\ f.running = FALSE
  <2>1. Top.at + 1 \in Nat \ {0} /\ Top.running = FALSE
    BY <1>1, <1>2 DEF FrameType
  <2> QED BY <1>2, <2>1 DEF FrameType
<1>4. /\ frames' \in Seq(FrameType) /\ Len(frames') = n /\ frames'[n] = f
      /\ \A i \in 1 .. n : i # n => frames'[i] = frames[i]
  <2>1. frames' = [frames EXCEPT ![n] = f]
    BY <1>1, <1>2
  <2>2. BusTypes
    BY DEF BInv
  <2> HIDE DEF f
  <2> QED BY <1>1, <1>3, <2>1, <2>2, TopFacts
<1> HIDE DEF f
<1>5. Live(c)
  <2>1. CASE bus = "global"
    <3>1. c = Top.copy[Top.at] /\ Top.at \in 1 .. Len(Top.copy) /\ Len(Top.copy) \in Nat
      <4>1. Len(Top.copy) \in Nat
        BY <1>2, FrameFacts
      <4>2. c = Top.copy[Top.at] /\ Top.at <= Len(Top.copy)
        BY <1>0, <1>1, <2>1 DEF Called
      <4> QED BY <1>2, <4>1, <4>2
    <3> QED BY <1>1, <1>2, <3>1 DEF BInv, CopiesLive
  <2>2. CASE bus # "global"
    <3>1. listeners \in Seq(Objects) /\ c = listeners[Top.at] /\ Top.at \in 1 .. Len(listeners)
      BY <1>0, <1>1, <1>2, <2>2, SMTT(30) DEF Called, BInv, BusTypes
    <3>2. c \in ToSet(listeners)
      BY <3>1, InSet
    <3> QED BY <1>1, <3>2 DEF BInv, Served
  <2> QED BY <2>1, <2>2
<1>6. /\ stream[c] \in StreamType /\ q \in Seq(Event) /\ Len(q) \in Nat /\ Len(q) <= MaxQueue
      /\ MaxQueue \in Nat \ {0}
      /\ \A i \in 1 .. Len(q) : q[i] \in Event /\ q[i] < sequence
      /\ stream \in [Streams -> StreamType] /\ dropped \in [Streams -> SUBSET Event]
  BY <1>1, EndTypes, BusAssumption DEF BInv, BusTypes, Published
<1> DEFINE Shifted(d) == /\ kept \in Seq(Event) /\ Len(kept) \in Nat /\ Len(kept) = Len(q) - d
                         /\ Len(kept) + 1 <= MaxQueue
                         /\ \A i \in 1 .. Len(kept) : i + d \in 1 .. Len(q) /\ kept[i] = q[i + d]
<1>7. \E d \in {0, 1} : Shifted(d)
  <2>1. CASE Len(q) >= MaxQueue
    <3>1. q # <<>>
      BY <1>6, <2>1
    <3>2. Tail(q) \in Seq(Event) /\ Len(Tail(q)) = Len(q) - 1
          /\ \A i \in 1 .. Len(q) - 1 : Tail(q)[i] = q[i + 1]
      BY <1>6, <3>1, TailFacts
    <3>3. kept = Tail(q)
      BY <2>1
    <3>4. Shifted(1)
      <4> HIDE DEF kept, q
      <4> QED BY <1>6, <2>1, <3>2, <3>3
    <3> QED BY <3>4
  <2>2. CASE Len(q) < MaxQueue
    <3>1. kept = q
      BY <1>6, <2>2
    <3>2. Shifted(0)
      <4> HIDE DEF kept, q
      <4> QED BY <1>6, <2>2, <3>1
    <3> QED BY <3>2
  <2> QED BY <1>6, <2>1, <2>2
<1>8. PICK d \in {0, 1} : Shifted(d)
  BY <1>7
<1>9. /\ ToSet(kept) \subseteq ToSet(q)
      /\ Len(q) < MaxQueue => kept = q
      /\ Len(q) >= MaxQueue => ToSet(q) = {Head(q)} \cup ToSet(kept) /\ Head(q) \in Event
  <2>1. CASE Len(q) >= MaxQueue
    <3>1. q # <<>> /\ kept = Tail(q)
      BY <1>6, <2>1
    <3> QED BY <1>6, <2>1, <3>1, TailFacts
  <2>2. CASE Len(q) < MaxQueue
    BY <1>6, <2>2
  <2> QED BY <1>6, <2>1, <2>2
<1> HIDE DEF kept
<1>10. /\ s \in StreamType /\ s.queue = Append(kept, t) /\ s.done = stream[c].done
       /\ s.pc \in {"woken", "yielded"} /\ s.from = stream[c].from /\ s.at = stream[c].at
  <2>1. stream[c].pc \in {"sleeping", "woken", "yielded"}
    BY <1>5 DEF Live
  <2>2. Append(kept, t) \in Seq(Event)
    BY <1>2, <1>8
  <2>3. s = [stream[c] EXCEPT !.queue = Append(kept, t),
                              !.pc = IF stream[c].pc = "sleeping" THEN "woken" ELSE stream[c].pc]
    BY <1>6 DEF Hears, StreamType, kept
  <2> QED BY <1>6, <2>1, <2>2, <2>3 DEF StreamType, Pc
<1>11. /\ stream' \in [Streams -> StreamType] /\ stream'[c] = s
       /\ \A x \in Streams : x # c => stream'[x] = stream[x]
  <2>1. stream' = [stream EXCEPT ![c] = s]
    BY <1>1, <1>6
  <2> HIDE DEF s
  <2> QED BY <1>1, <1>6, <1>10, <2>1
<1> HIDE DEF s
<1>12. /\ stream'[c].queue \in Seq(Event) /\ Len(stream'[c].queue) = Len(kept) + 1
       /\ \A i \in 1 .. Len(kept) : stream'[c].queue[i] = kept[i]
       /\ stream'[c].queue[Len(kept) + 1] = t
       /\ ToSet(stream'[c].queue) = ToSet(kept) \cup {t}
  <2>1. kept \in Seq(Event) /\ t \in Event /\ stream'[c].queue = Append(kept, t)
    BY <1>2, <1>8, <1>10, <1>11
  <2> HIDE DEF t, q
  <2> QED BY <2>1, AppendFacts
<1>13. /\ \A x \in Streams : Live(x)' <=> Live(x)
       /\ \A x \in Streams : stream'[x].done = stream[x].done
  BY <1>5, <1>10, <1>11 DEF Live
<1>14. /\ dropped' \in [Streams -> SUBSET Event]
       /\ \A x \in Streams : dropped[x] \subseteq dropped'[x]
       /\ Len(q) >= MaxQueue => Head(q) \in dropped'[c]
  BY <1>1, <1>6, <1>9
<1> HIDE DEF q, t
<1>15. BusTypes'
  BY <1>1, <1>4, <1>8, <1>11, <1>12, <1>14 DEF BInv, BusTypes
<1>16. Published'
  <2>1. \A i \in 1 .. Len(stream'[c].queue) : stream'[c].queue[i] < sequence
    <3> TAKE i \in 1 .. Len(stream'[c].queue)
    <3>1. i \in 1 .. Len(kept) \/ i = Len(kept) + 1
      BY <1>8, <1>12
    <3> QED BY <1>2, <1>6, <1>8, <1>12, <3>1
  <2>2. \A i \in 1 .. Len(frames') : frames'[i].event < sequence
    BY <1>2, <1>3, <1>4 DEF BInv, Published
  <2> QED BY <1>1, <1>11, <2>1, <2>2 DEF BInv, Published
<1>17. \A i \in 1 .. n : frames'[i].event = frames[i].event /\ frames'[i].copy = frames[i].copy
  BY <1>2, <1>3, <1>4 DEF t
<1>18. Once' /\ Stacked' /\ Nested' /\ KeptInOrder'
  BY <1>1, <1>4, <1>17 DEF BInv, Once, Stacked, Nested, KeptInOrder, Precedes
<1>19. bus = "memory" => c = listeners[Top.at] /\ Top.at \in 1 .. Len(listeners) /\ ~ HasHeard(c, t)
  <2> SUFFICES ASSUME bus = "memory"
               PROVE  c = listeners[Top.at] /\ Top.at \in 1 .. Len(listeners) /\ ~ HasHeard(c, t)
    OBVIOUS
  <2>1. c = listeners[Top.at] /\ Top.at \in 1 .. Len(listeners) /\ Top.at >= frames[n].at
    <3>1. listeners \in Seq(Objects) /\ Len(listeners) \in Nat
      BY DEF BInv, BusTypes
    <3>2. c = listeners[Top.at] /\ Top.at <= Len(listeners)
      BY <1>0, <1>1 DEF Called
    <3> QED BY <1>2, <3>1, <3>2
  <2> QED BY <1>1, <1>2, <2>1 DEF BInv, StillNew, t
<1>20. ASSUME NEW x \in Event, x < sequence, bus = "memory" => x # t
       PROVE  Follows(x, t)
  BY <1>2, <1>20 DEF BInv, Nested, Follows, t
<1>21. HeardInOrder(c)'
  <2>1. \A i, j \in 1 .. Len(got[c]) : i < j => Follows(got[c][i], got[c][j])
    BY <1>1 DEF BInv, HeardInOrder
  <2>2. \A i, j \in 1 .. Len(q) : i < j => Follows(q[i], q[j])
    BY <1>1 DEF BInv, HeardInOrder, q
  <2>3. \A i \in 1 .. Len(got[c]), j \in 1 .. Len(q) : Follows(got[c][i], q[j])
    BY <1>1 DEF BInv, HeardInOrder, q
  <2>4. \A i \in 1 .. Len(got[c]) : Follows(got[c][i], t)
    <3> TAKE i \in 1 .. Len(got[c])
    <3>1. got[c] \in Seq(Event) /\ got[c][i] \in Event /\ got[c][i] < sequence
      BY <1>1, EndTypes DEF BInv, Published
    <3>2. bus = "memory" => got[c][i] # t
      BY <1>19, <3>1, InSet DEF HasHeard
    <3> QED BY <1>20, <3>1, <3>2
  <2>5. \A i \in 1 .. Len(q) : Follows(q[i], t)
    <3> TAKE i \in 1 .. Len(q)
    <3>1. bus = "memory" => q[i] # t
      BY <1>6, <1>19, InSet DEF HasHeard, q
    <3> QED BY <1>6, <1>20, <3>1
  <2>6. \A i \in 1 .. Len(got[c]), j \in 1 .. Len(kept) : Follows(got[c][i], kept[j])
    BY <1>8, <2>3
  <2>7. \A i, j \in 1 .. Len(kept) : i < j => Follows(kept[i], kept[j])
    <3> TAKE i, j \in 1 .. Len(kept)
    <3> HAVE i < j
    <3>1. i + d \in 1 .. Len(q) /\ j + d \in 1 .. Len(q) /\ kept[i] = q[i + d] /\ kept[j] = q[j + d]
      BY <1>8
    <3>2. i + d < j + d
      BY <1>8
    <3> QED BY <2>2, <3>1, <3>2
  <2>8. \A i \in 1 .. Len(kept) : Follows(kept[i], t)
    BY <1>8, <2>5
  <2>9. /\ \A i, j \in 1 .. Len(stream'[c].queue) : i < j => Follows(stream'[c].queue[i], stream'[c].queue[j])
        /\ \A i \in 1 .. Len(got[c]), j \in 1 .. Len(stream'[c].queue) : Follows(got[c][i], stream'[c].queue[j])
    <3>1. \A j \in 1 .. Len(kept) + 1 : j \in 1 .. Len(kept) \/ j = Len(kept) + 1
      BY <1>8
    <3>2. \A i, j \in 1 .. Len(kept) + 1 : i < j => i \in 1 .. Len(kept)
      BY <1>8
    <3> QED BY <1>12, <2>4, <2>6, <2>7, <2>8, <3>1, <3>2
  <2>10. bus' = bus /\ within' = within /\ got' = got
    BY <1>1
  <2> QED BY ONLY <2>1, <2>9, <2>10 DEF HeardInOrder, Follows
<1>22. ASSUME NEW x \in Streams  PROVE ReplaysInOrder(x)' /\ HeardInOrder(x)' /\ Served(x)'
  <2>1. Served(x)'
    <3>1. CASE x = c
      BY <1>1, <1>5, <1>10, <1>11, <1>13, <3>1 DEF BInv, Served
    <3>2. CASE x # c
      <4>1. Served(x) /\ stream'[x] = stream[x] /\ listeners' = listeners
        BY <1>1, <1>11, <3>2 DEF BInv
      <4> QED BY ONLY <4>1 DEF Served, Live
    <3> QED BY <3>1, <3>2
  <2>2. ReplaysInOrder(x)'
    <3>1. CASE x = c
      BY <1>10, <1>11, <3>1 DEF ReplaysInOrder
    <3>2. CASE x # c
      BY <1>1, <1>11, <3>2 DEF BInv, ReplaysInOrder, Precedes
    <3> QED BY <3>1, <3>2
  <2>3. HeardInOrder(x)'
    <3>1. CASE x # c
      <4>1. HeardInOrder(x) /\ stream'[x] = stream[x] /\ got' = got /\ bus' = bus /\ within' = within
        BY <1>1, <1>11, <3>1 DEF BInv
      <4> QED BY ONLY <4>1 DEF HeardInOrder, Follows
    <3> QED BY <1>21, <3>1
  <2> QED BY <2>1, <2>2, <2>3
<1>23. CopiesLive'
  <2> SUFFICES ASSUME NEW i \in 1 .. n, NEW k \in 1 .. Len(frames'[i].copy), frames'[i].copy[k] \in Streams
               PROVE  Live(frames[i].copy[k])'
    BY <1>4, <1>17 DEF CopiesLive, Live
  <2>1. Live(frames[i].copy[k]) /\ frames[i].copy[k] \in Streams /\ frames'[i].copy[k] = frames[i].copy[k]
    BY <1>17 DEF BInv, CopiesLive
  <2>2. stream'[frames[i].copy[k]].pc \in {"sleeping", "woken", "yielded"}
    BY <1>13, <2>1 DEF Live
  <2> QED BY <2>1, <2>2 DEF Live
<1>24. CallsSubscriber'
  <2> SUFFICES ASSUME bus = "global", NEW i \in 1 .. n, frames'[i].running
               PROVE  frames'[i].at <= Len(frames'[i].copy) /\ frames'[i].copy[frames'[i].at] \in Subscribers
    BY <1>1, <1>4 DEF CallsSubscriber
  <2>1. i # n
    BY <1>3, <1>4
  <2> QED BY <1>4, <2>1 DEF BInv, CallsSubscriber
<1>25. StillNew'
  <2> SUFFICES ASSUME bus = "memory", NEW i \in 1 .. n, NEW p \in 1 .. Len(listeners),
                      p >= frames'[i].at, listeners[p] \in Streams
               PROVE  /\ frames'[i].event \notin ToSet(got[listeners[p]])
                      /\ frames'[i].event \notin ToSet(stream'[listeners[p]].queue)
    BY <1>1, <1>4 DEF StillNew, HasHeard
  <2>1. p >= frames[i].at /\ (i = n => p # Top.at)
    <3>1. CASE i = n
      BY <1>2, <1>3, <1>4, <3>1
    <3>2. CASE i # n
      BY <1>4, <3>2
    <3> QED BY <3>1, <3>2
  <2>2. ~ HasHeard(listeners[p], frames[i].event)
    BY <2>1 DEF BInv, StillNew
  <2>3. CASE listeners[p] # c
    BY <1>11, <1>17, <2>2, <2>3 DEF HasHeard
  <2>4. CASE listeners[p] = c
    <3>1. p = Top.at
      BY <1>19, <2>4 DEF BInv, Once
    <3>2. i < n
      BY <1>2, <2>1, <3>1
    <3>3. frames[i].event # t
      <4>1. frames[i].event < frames[n].event /\ frames[i].event \in Nat
        BY <1>2, <3>2, FrameFacts DEF BInv, Stacked
      <4> QED BY <1>2, <4>1 DEF t
    <3> QED BY <1>9, <1>12, <1>17, <2>2, <2>4, <3>3 DEF HasHeard, q
  <2> QED BY <2>3, <2>4
<1>26. Accounted'
  <2> SUFFICES ASSUME bus = "global", NEW x \in Streams, x \in ToSet(listeners), NEW e \in due[x]
               PROVE  HasHeard(x, e)' \/ e \in dropped'[x] \/ e \in thrown \/ IsToBeCalled(x, e)'
    BY <1>1 DEF Accounted
  <2>1. HasHeard(x, e) \/ e \in dropped[x] \/ e \in thrown \/ IsToBeCalled(x, e)
    BY DEF BInv, Accounted
  <2>2. CASE HasHeard(x, e)
    <3>1. CASE x # c
      BY <1>1, <1>11, <2>2, <3>1 DEF HasHeard
    <3>2. CASE x = c
      <4>1. CASE e \in ToSet(got[c])
        BY <1>1, <3>2, <4>1 DEF HasHeard
      <4>2. CASE e \in ToSet(q)
        BY <1>6, <1>9, <1>12, <1>14, <3>2, <4>2 DEF HasHeard
      <4> QED BY <2>2, <3>2, <4>1, <4>2 DEF HasHeard, q
    <3> QED BY <3>1, <3>2
  <2>3. CASE e \in dropped[x]
    BY <1>14, <2>3
  <2>4. CASE IsToBeCalled(x, e)
    <3>1. PICK i \in 1 .. n : /\ frames[i].event = e
                              /\ \E k \in frames[i].at .. Len(frames[i].copy) : frames[i].copy[k] = x
      BY <2>4 DEF IsToBeCalled
    <3>2. PICK k \in frames[i].at .. Len(frames[i].copy) : frames[i].copy[k] = x
      BY <3>1
    <3>3. CASE i = n /\ k = Top.at
      <4>1. x = c /\ e = t
        BY <1>0, <1>2, <3>1, <3>2, <3>3 DEF t, Called
      <4> QED BY <1>12, <4>1 DEF HasHeard
    <3>4. CASE i # n \/ k # Top.at
      <4>1. k \in frames'[i].at .. Len(frames'[i].copy)
        <5>1. CASE i # n
          BY <1>4, <3>2, <5>1
        <5>2. CASE i = n
          <6>1. Len(Top.copy) \in Nat
            BY <1>2, FrameFacts
          <6> QED BY <1>2, <1>3, <1>4, <3>2, <3>4, <5>2, <6>1
        <5> QED BY <5>1, <5>2
      <4>2. i \in 1 .. Len(frames') /\ frames'[i].event = e /\ frames'[i].copy[k] = x
        BY <1>4, <1>17, <3>1, <3>2
      <4> QED BY <4>1, <4>2 DEF IsToBeCalled
    <3> QED BY <3>3, <3>4
  <2> QED BY <2>1, <2>2, <2>3, <2>4
<1> QED BY <1>15, <1>16, <1>18, <1>22, <1>23, <1>24, <1>25, <1>26 DEF BInv

LEMMA InitHolds == ASSUME Init PROVE BInv
<1>1. /\ bus \in Buses /\ sequence = 0 /\ durable = <<>> /\ frames = <<>> /\ listeners = <<>>
      /\ stream = [c \in Streams |-> Opened(0)] /\ got = [c \in Streams |-> <<>>]
      /\ within = [e \in Event |-> {}] /\ due = [c \in Streams |-> {}]
      /\ dropped = [c \in Streams |-> {}] /\ thrown = {}
  BY DEF Init
<1>2. Opened(0) \in StreamType /\ Opened(0).pc = "new" /\ Opened(0).queue = <<>> /\ Opened(0).done = FALSE
  BY DEF Opened, StreamType, Pc
<1>3. /\ Len(durable) = 0 /\ Len(frames) = 0 /\ Len(listeners) = 0 /\ \A i \in 1 .. 0 : FALSE
      /\ <<>> \in Seq(Event) /\ <<>> \in Seq(FrameType) /\ listeners \in Seq(Objects)
      /\ 0 \in 0 .. MaxEvents /\ 0 <= MaxDurable /\ 0 <= MaxQueue
  BY <1>1, BusAssumption
<1>4. ASSUME NEW c \in Streams
      PROVE  /\ stream[c] = Opened(0) /\ got[c] = <<>> /\ Len(got[c]) = 0 /\ Len(stream[c].queue) = 0
             /\ c \notin ToSet(listeners) /\ ~ Live(c) /\ due[c] = {}
  BY <1>1, <1>2, <1>3, InSet DEF Live
<1>5. BusTypes
  BY <1>1, <1>2, <1>3, <1>4 DEF BusTypes
<1>6. Published /\ Once /\ Stacked /\ KeptInOrder /\ CopiesLive /\ StillNew /\ CallsSubscriber
  BY <1>3, <1>4 DEF Published, Once, Stacked, KeptInOrder, CopiesLive, StillNew, CallsSubscriber
<1>7. Nested
  <2>1. \A h \in Event : ~ h < 0
    BY DEF Event
  <2> QED BY <1>1, <1>3, <2>1 DEF Nested
<1>8. ASSUME NEW c \in Streams  PROVE ReplaysInOrder(c) /\ HeardInOrder(c) /\ Served(c)
  <2>1. ReplaysInOrder(c) /\ Served(c)
    BY <1>2, <1>3, <1>4 DEF ReplaysInOrder, Served, Live
  <2>2. HeardInOrder(c)
    BY <1>3, <1>4 DEF HeardInOrder
  <2> QED BY <2>1, <2>2
<1>9. Accounted
  BY <1>4 DEF Accounted
<1> QED BY <1>5, <1>6, <1>7, <1>8, <1>9 DEF BInv

LEMMA NothingChanges == ASSUME BInv, UNCHANGED vars PROVE BInv'
<1>1. UNCHANGED <<bus, sequence, durable, frames, got, history, listeners, stream, within>>
  BY DEF vars, history
<1>2. listeners' \in Seq(Objects) /\ Once' /\ stream' \in [Streams -> StreamType]
  BY <1>1 DEF BInv, BusTypes, Once
<1>3. ASSUME NEW p \in 1 .. Len(listeners)
      PROVE  \E q \in 1 .. Len(listeners) : q >= p /\ listeners'[p] = listeners[q]
  <2>1. listeners' = listeners /\ p >= p
    BY <1>1
  <2> QED BY <2>1
<1>4. \A d \in Streams : (Live(d) => Live(d)') /\ Served(d)'
  BY <1>1 DEF BInv, Served, Live
<1> QED BY <1>1, <1>2, <1>3, <1>4, AsideStep

LEMMA BusStep == ASSUME BInv, [Next]_vars PROVE BInv'
<1>1. CASE Publish
  BY <1>1, PublishStep
<1>2. CASE Dispatch
  BY <1>2, CallStreamStep, CallSubscriberStep, HandlerReturnsStep, HandlerThrowsStep, DispatchEndsStep
     DEF Dispatch
<1>3. ASSUME NEW o \in Subscribers, Subscribe(o) \/ Unsubscribe(o)  PROVE BInv'
  BY <1>3, SubscribeStep, UnsubscribeStep
<1>4. ASSUME NEW c \in Streams, Consume(c)  PROVE BInv'
  BY <1>4, BeginStep, ReplayKeeps, GoLiveStep, AdvanceStep DEF Consume
<1>5. ASSUME NEW c \in Streams, Abort(c) \/ Leave(c) \/ Return(c)  PROVE BInv'
  BY <1>5, AbortStep, LeaveStep, ReturnStep
<1>6. CASE UNCHANGED vars
  BY <1>6, NothingChanges
<1> QED BY <1>1, <1>2, <1>3, <1>4, <1>5, <1>6 DEF Next

LEMMA BusInvariant == Spec => []BInv
<1> QED BY InitHolds, BusStep, PTL DEF Spec

(* What a consumer heard: what it was given, and then its queue.           *)
LEMMA HeardFacts ==
  ASSUME BInv, NEW c \in Streams
  PROVE  /\ Heard(c) \in Seq(Event) /\ Len(Heard(c)) \in Nat /\ DOMAIN Heard(c) = 1 .. Len(Heard(c))
         /\ ToSet(Heard(c)) = ToSet(got[c]) \cup ToSet(stream[c].queue)
         /\ \A i \in 1 .. Len(Heard(c)) : Heard(c)[i] \in Event /\ Heard(c)[i] < sequence
         /\ \A i, j \in 1 .. Len(Heard(c)) : i < j => Follows(Heard(c)[i], Heard(c)[j])
<1> DEFINE g == got[c]
           q == stream[c].queue
           h == Heard(c)
<1>1. /\ g \in Seq(Event) /\ q \in Seq(Event) /\ Len(g) \in Nat /\ Len(q) \in Nat
      /\ \A i \in 1 .. Len(g) : g[i] \in Event /\ g[i] < sequence
      /\ \A i \in 1 .. Len(q) : q[i] \in Event /\ q[i] < sequence
  BY EndTypes DEF BInv, Published
<1>2. /\ \A i, j \in 1 .. Len(g) : i < j => Follows(g[i], g[j])
      /\ \A i, j \in 1 .. Len(q) : i < j => Follows(q[i], q[j])
      /\ \A i \in 1 .. Len(g), j \in 1 .. Len(q) : Follows(g[i], q[j])
  BY DEF BInv, HeardInOrder
<1>3. h = g \o q
  BY DEF Heard
<1> HIDE DEF g, q, h
<1>4. h \in Seq(Event) /\ Len(h) = Len(g) + Len(q) /\ ToSet(h) = ToSet(g) \cup ToSet(q)
  BY <1>1, <1>3, ConcatProperties, ConcatSet
<1>5. Len(h) \in Nat /\ DOMAIN h = 1 .. Len(h)
  BY <1>4
<1>6. ASSUME NEW i \in 1 .. Len(h)
      PROVE  \/ i \in 1 .. Len(g) /\ h[i] = g[i]
             \/ i > Len(g) /\ i - Len(g) \in 1 .. Len(q) /\ h[i] = q[i - Len(g)]
  <2>1. h[i] = IF i <= Len(g) THEN g[i] ELSE q[i - Len(g)]
    BY <1>1, <1>3, <1>4, ConcatProperties
  <2>2. i \in Nat /\ i >= 1 /\ i <= Len(g) + Len(q)
    BY <1>1, <1>4
  <2>3. CASE i <= Len(g)
    BY <1>1, <2>1, <2>2, <2>3
  <2>4. CASE i > Len(g)
    BY <1>1, <2>1, <2>2, <2>4
  <2> QED BY <1>1, <2>2, <2>3, <2>4
<1>7. \A i \in 1 .. Len(h) : h[i] \in Event /\ h[i] < sequence
  BY <1>1, <1>6
<1>8. ASSUME NEW i \in 1 .. Len(h), NEW j \in 1 .. Len(h), i < j  PROVE Follows(h[i], h[j])
  <2>1. CASE j \in 1 .. Len(g)
    <3>1. i \in 1 .. Len(g) /\ h[i] = g[i] /\ h[j] = g[j]
      BY <1>1, <1>6, <1>8, <2>1
    <3> QED BY <1>2, <1>8, <2>1, <3>1
  <2>2. CASE j > Len(g) /\ i \in 1 .. Len(g)
    <3>1. h[i] = g[i] /\ j - Len(g) \in 1 .. Len(q) /\ h[j] = q[j - Len(g)]
      BY <1>1, <1>6, <2>2
    <3> QED BY <1>2, <2>2, <3>1
  <2>3. CASE i > Len(g)
    <3>1. i - Len(g) \in 1 .. Len(q) /\ h[i] = q[i - Len(g)] /\ j - Len(g) \in 1 .. Len(q) /\ h[j] = q[j - Len(g)]
      BY <1>1, <1>6, <1>8, <2>3
    <3>2. i - Len(g) < j - Len(g)
      BY <1>1, <1>8
    <3> QED BY <1>2, <3>1, <3>2
  <2> QED BY <1>1, <1>8, <2>1, <2>2, <2>3
<1> QED BY <1>4, <1>5, <1>7, <1>8 DEF g, q, h

(* On either bus, for any number of consumers, subscribers and events and  *)
(* any limit of the durable list and of the queues: the lists stay within  *)
(* their limits, nobody hears of an event that was not published, and the  *)
(* bus calls exactly the streams that are open (the subscriptions of       *)
(* stream in in-memory-bus.ts and global-bus.ts).                          *)
THEOREM BusTypesHold == Spec => []TypeOK
<1>1. BInv => TypeOK
  <2> SUFFICES ASSUME BInv PROVE TypeOK
    OBVIOUS
  <2>1. /\ bus \in Buses /\ sequence \in 0 .. MaxEvents /\ sequence \in Nat /\ Len(durable) <= MaxDurable
        /\ durable \in Seq(Event) /\ listeners \in Seq(Objects)
    BY DEF BInv, BusTypes
  <2>2. ToSet(durable) \subseteq Event /\ ToSet(listeners) \subseteq Streams \cup Subscribers
    <3>1. ASSUME NEW S, NEW s \in Seq(S)  PROVE ToSet(s) \subseteq S
      BY InSet
    <3> QED BY <2>1, <3>1 DEF Objects
  <2>3. ASSUME NEW c \in Streams
        PROVE  /\ stream[c].pc \in Pc /\ Len(stream[c].queue) <= MaxQueue
               /\ ToSet(Heard(c)) \subseteq 0 .. sequence - 1
    <3>1. stream[c].pc \in Pc /\ Len(stream[c].queue) <= MaxQueue
      BY EndTypes DEF BInv, BusTypes
    <3>2. ASSUME NEW e \in ToSet(Heard(c))  PROVE e \in 0 .. sequence - 1
      <4>1. e \in Event /\ e < sequence
        BY HeardFacts, InSet
      <4> QED BY <2>1, <4>1 DEF Event
    <3> QED BY <3>1, <3>2
  <2>4. ServedWhileOpen
    BY DEF BInv, Served, ServedWhileOpen
  <2> QED BY <2>1, <2>2, <2>3, <2>4 DEF TypeOK
<1> QED BY <1>1, BusInvariant, PTL

(* Through replays, trimming, nested publishes and its own coming and      *)
(* going, a consumer of the bus in memory is given no event twice, and a   *)
(* consumer of either bus is given a later event before an earlier one     *)
(* only if the later one was published by a handler of the earlier.        *)
THEOREM GivenOnceInOrderHolds == Spec => []GivenOnceInOrder
<1>1. BInv => GivenOnceInOrder
  <2> SUFFICES ASSUME BInv PROVE GivenOnceInOrder
    OBVIOUS
  <2>1. OnceEach
    <3> SUFFICES ASSUME bus = "memory", NEW c \in Streams
                 PROVE  IsInjective(Heard(c))
      BY DEF OnceEach
    <3>1. \A i, j \in 1 .. Len(Heard(c)) : i < j => Heard(c)[i] # Heard(c)[j]
      BY HeardFacts DEF Follows
    <3>2. Len(Heard(c)) \in Nat /\ DOMAIN Heard(c) = 1 .. Len(Heard(c))
      BY HeardFacts
    <3>3. \A i, j \in 1 .. Len(Heard(c)) : i # j => i < j \/ j < i
      BY <3>2
    <3> QED BY <3>1, <3>2, <3>3 DEF IsInjective
  <2>2. InOrder
    <3> SUFFICES ASSUME NEW c \in Streams, NEW i \in 1 .. Len(Heard(c)), NEW j \in 1 .. Len(Heard(c)),
                        i < j, Heard(c)[i] > Heard(c)[j]
                 PROVE  Heard(c)[j] \in within[Heard(c)[i]]
      BY DEF InOrder
    <3>1. Heard(c)[i] \in Nat /\ Heard(c)[j] \in Nat /\ Follows(Heard(c)[i], Heard(c)[j])
      BY HeardFacts DEF Event
    <3> QED BY <3>1 DEF Follows
  <2> QED BY <2>1, <2>2 DEF GivenOnceInOrder
<1> QED BY <1>1, BusInvariant, PTL

(* The emitter of the global bus calls a copy of its listeners, so nothing *)
(* a handler does makes it pass over one: whoever was subscribed when an   *)
(* event was published and still is has heard of it when the dispatch is   *)
(* over, unless a handler threw out of it or a full queue dropped it.      *)
THEOREM NobodyIsSkippedHolds == Spec => []NobodyIsSkipped
<1>1. BInv => NobodyIsSkipped
  <2> SUFFICES ASSUME BInv, bus = "global", NEW c \in Streams, c \in ToSet(listeners),
                      NEW e \in due[c] \ (Dispatched \cup thrown)
               PROVE  e \in ToSet(Heard(c)) \cup dropped[c]
    BY DEF NobodyIsSkipped, HearsOfEach
  <2>1. ~ IsToBeCalled(c, e)
    BY DEF IsToBeCalled, Dispatched
  <2>2. HasHeard(c, e) \/ e \in dropped[c]
    BY <2>1 DEF BInv, Accounted
  <2> QED BY <2>2, HeardFacts DEF HasHeard
<1> QED BY <1>1, BusInvariant, PTL

----------------------------------------------------------------------------
(* The transports of MCP.                                                  *)

(* Each transport keeps what it keeps by its own steps.                    *)
LEMMA HttpKeeps ==
  ASSUME Http!TypeOK, Http!Next
  PROVE  Http!TypeOK'
<1> USE DEF Http!TypeOK
<1>1. CASE Http!Close
  BY <1>1, SMTT(30) DEF Http!Close, Http!Settled
<1>2. ASSUME NEW r \in Requests, Http!Request(r)
      PROVE  Http!TypeOK'
  BY <1>2, SMTT(30) DEF Http!Request
<1>3. ASSUME NEW r \in Requests, Http!HeadersCome(r)
      PROVE  Http!TypeOK'
  BY <1>3 DEF Http!HeadersCome
<1>4. ASSUME NEW r \in Requests, Http!Answers(r)
      PROVE  Http!TypeOK'
  BY <1>4, SMTT(30) DEF Http!Answers, Http!Done, Http!Settled
<1>5. ASSUME NEW r \in Requests, Http!Fails(r)
      PROVE  Http!TypeOK'
  BY <1>5, SMTT(30) DEF Http!Fails, Http!Done, Http!Settled
<1>6. ASSUME NEW r \in Requests, Http!Timer(r)
      PROVE  Http!TypeOK'
  BY <1>6, SMTT(30) DEF Http!Timer, Http!Settled
<1> QED BY <1>1, <1>2, <1>3, <1>4, <1>5, <1>6 DEF Http!Next

LEMMA SseKeeps ==
  ASSUME Sse!TypeOK, Sse!Next
  PROVE  Sse!TypeOK'
<1> USE DEF Sse!TypeOK, Sse!Goto
<1>1. CASE Sse!Connected
  BY <1>1 DEF Sse!Connected
<1>2. CASE Sse!ConnectFails
  BY <1>2 DEF Sse!ConnectFails, Sse!AllFailed, Sse!Rejected
<1>3. CASE Sse!Endpoint
  BY <1>3 DEF Sse!Endpoint
<1>4. CASE Sse!StreamFails
  BY <1>4 DEF Sse!StreamFails, Sse!AllFailed
<1>5. CASE Sse!StreamEnds
  BY <1>5 DEF Sse!StreamEnds
<1>6. CASE Sse!Close
  BY <1>6 DEF Sse!Close, Sse!AllFailed, Sse!Rejected
<1>7. ASSUME NEW r \in Requests, Sse!Wait(r)
      PROVE  Sse!TypeOK'
  <2>1. CASE Sse!Request(r)
    BY <2>1 DEF Sse!Request
  <2>2. CASE Sse!EndpointWaited(r)
    BY <2>2 DEF Sse!EndpointWaited
  <2>3. CASE Sse!PostReturns(r)
    BY <2>3 DEF Sse!PostReturns
  <2>4. CASE Sse!BodyAnswers(r)
    BY <2>4 DEF Sse!BodyAnswers
  <2>5. CASE Sse!BodyEnds(r)
    BY <2>5 DEF Sse!BodyEnds
  <2>6. CASE Sse!PostFails(r)
    BY <2>6 DEF Sse!PostFails
  <2>7. CASE Sse!Timer(r)
    BY <2>7 DEF Sse!Timer
  <2> QED BY <1>7, <2>1, <2>2, <2>3, <2>4, <2>5, <2>6, <2>7 DEF Sse!Wait
<1>8. ASSUME NEW r \in Requests, Sse!Deliver(r)
      PROVE  Sse!TypeOK'
  BY <1>8 DEF Sse!Deliver
<1>9. ASSUME NEW r \in Requests, Sse!ServerGets(r)
      PROVE  Sse!TypeOK'
  BY <1>9 DEF Sse!ServerGets
<1>10. ASSUME NEW r \in Requests, Sse!ServerAnswers(r)
       PROVE  Sse!TypeOK'
  BY <1>10 DEF Sse!ServerAnswers
<1> QED BY <1>1, <1>2, <1>3, <1>4, <1>5, <1>6, <1>7, <1>8, <1>9, <1>10 DEF Sse!Next

LEMMA StdioKeeps ==
  ASSUME Stdio!TypeOK, Stdio!Next
  PROVE  Stdio!TypeOK'
<1> USE NoneAssumption DEF Stdio!TypeOK
<1>1. CASE Stdio!Line
  <2>1. out # <<>> /\ Head(out) \in Requests /\ Tail(out) \in Seq(Requests)
    BY <1>1 DEF Stdio!Line
  <2>2. CASE resolver = None
    BY <1>1, <2>1, <2>2 DEF Stdio!Line
  <2>3. CASE resolver # None
    <3>1. given' = [given EXCEPT ![resolver] = Head(out)] /\ caller' = [caller EXCEPT ![resolver] = "answered"]
      BY <1>1, <2>3 DEF Stdio!Line
    <3>2. given' \in [Requests -> Requests \cup {None}]
      BY <2>1, <3>1
    <3>3. \A r \in Requests : given'[r] # None <=> caller'[r] = "answered"
      BY <2>1, <2>3, <3>1
    <3>4. timers' = {r \in Requests : caller'[r] = "waiting"}
      BY <1>1, <2>3, <3>1 DEF Stdio!Line
    <3> QED BY <1>1, <2>1, <2>3, <3>1, <3>2, <3>3, <3>4 DEF Stdio!Line
  <2> QED BY <2>2, <2>3
<1>2. CASE Stdio!ChildDies
  BY <1>2 DEF Stdio!ChildDies
<1>3. CASE Stdio!Close
  BY <1>3 DEF Stdio!Close
<1>4. ASSUME NEW r \in Requests, Stdio!Request(r)
      PROVE  Stdio!TypeOK'
  BY <1>4 DEF Stdio!Request
<1>5. ASSUME NEW r \in Requests, Stdio!ServerAnswers(r)
      PROVE  Stdio!TypeOK'
  BY <1>5 DEF Stdio!ServerAnswers
<1>6. ASSUME NEW r \in Requests, Stdio!Timer(r)
      PROVE  Stdio!TypeOK'
  BY <1>6 DEF Stdio!Timer
<1> QED BY <1>1, <1>2, <1>3, <1>4, <1>5, <1>6 DEF Stdio!Next

(* Over any of the transports and for any number of requests, the entry,   *)
(* the timer and the resolver a transport keeps of a request are there     *)
(* exactly while its caller waits, whatever comes late.                    *)
THEOREM KeptHolds == ClientSpec => []KeptWhileAwaited
<1>1. ClientInit => KeptWhileAwaited
  <2>1. ASSUME Http!Init  PROVE  Http!TypeOK
    BY <2>1 DEF Http!Init, Http!TypeOK
  <2>2. ASSUME Sse!Init  PROVE  Sse!TypeOK
    BY <2>2 DEF Sse!Init, Sse!TypeOK
  <2>3. ASSUME Stdio!Init  PROVE  Stdio!TypeOK
    <3>1. out \in Seq(Requests) /\ timers = {r \in Requests : caller[r] = "waiting"} /\ resolver \in timers \cup {None}
      BY <2>3 DEF Stdio!Init
    <3> QED BY <2>3, <3>1, NoneAssumption DEF Stdio!Init, Stdio!TypeOK
  <2> QED BY <2>1, <2>2, <2>3 DEF ClientInit, KeptWhileAwaited
<1>2. KeptWhileAwaited /\ [ClientNext]_clientVars => KeptWhileAwaited'
  <2> SUFFICES ASSUME KeptWhileAwaited, [ClientNext]_clientVars
               PROVE  KeptWhileAwaited'
    OBVIOUS
  <2>1. CASE Http!Next /\ OverHttp
    BY <2>1, HttpKeeps DEF KeptWhileAwaited, OverHttp
  <2>2. CASE Sse!Next /\ OverSse
    BY <2>2, SseKeeps DEF KeptWhileAwaited, OverSse
  <2>3. CASE Stdio!Next /\ OverStdio
    BY <2>3, StdioKeeps DEF KeptWhileAwaited, OverStdio
  <2>4. CASE UNCHANGED clientVars
    BY <2>4 DEF KeptWhileAwaited, clientVars, httpOnly, sseOnly, stdioOnly, Http!TypeOK, Sse!TypeOK, Stdio!TypeOK
  <2> QED BY <2>1, <2>2, <2>3, <2>4 DEF ClientNext
<1> QED BY <1>1, <1>2, PTL DEF ClientSpec

(* Each step of streamable HTTP is a step of the exchange, or none.        *)
LEMMA HttpExchanges ==
  ASSUME transport = "streamable-http", UNCHANGED transport, Http!TypeOK, Http!Next
  PROVE  [Exchange!Next]_(Exchange!vars)
<1> USE DEF Http!TypeOK, Exchange!Next, Exchange!vars
<1>1. CASE Http!Close
  BY <1>1, SMTT(30) DEF Http!Close, Http!Settled, Exchange!Close
<1>2. ASSUME NEW r \in Requests, Http!Request(r)
      PROVE  Exchange!Send(r)
  BY <1>2, SMTT(30) DEF Http!Request, Exchange!Send
<1>3. ASSUME NEW r \in Requests, Http!HeadersCome(r)
      PROVE  UNCHANGED Exchange!vars
  BY <1>3 DEF Http!HeadersCome
<1>4. ASSUME NEW r \in Requests, NEW s \in {"answered", "failed"}, UNCHANGED closed, caller' = Http!Settled({r}, s)
      PROVE  Exchange!Settle(r) \/ UNCHANGED Exchange!vars
  <2>1. CASE caller[r] = "waiting"
    <3>1. caller' = [caller EXCEPT ![r] = s]
      BY <1>4, <2>1 DEF Http!Settled
    <3> QED BY <1>4, <2>1, <3>1 DEF Exchange!Settle
  <2>2. CASE caller[r] # "waiting"
    <3>1. caller' = caller
      BY <1>4, <2>2 DEF Http!Settled
    <3> QED BY <1>4, <3>1
  <2> QED BY <2>1, <2>2
<1>5. ASSUME NEW r \in Requests, Http!Answers(r) \/ Http!Fails(r) \/ Http!Timer(r)
      PROVE  Exchange!Settle(r) \/ UNCHANGED Exchange!vars
  BY <1>4, <1>5 DEF Http!Answers, Http!Fails, Http!Timer, Http!Done
<1> QED BY <1>1, <1>2, <1>3, <1>5 DEF Http!Next

(* The streamable HTTP transport settles every request once and its close  *)
(* rejects all that are outstanding: each of its steps is a step of the    *)
(* abstract exchange, or none.                                             *)
THEOREM ExchangeImplemented == ClientSpec => ImplementsExchange
<1>1. ClientInit => Exchange!Init
  BY DEF ClientInit, Exchange!Init, Http!Init
<1>2. KeptWhileAwaited /\ [ClientNext]_clientVars => [Exchange!Next]_(Exchange!vars)
  <2> SUFFICES ASSUME KeptWhileAwaited, [ClientNext]_clientVars
               PROVE  [Exchange!Next]_(Exchange!vars)
    OBVIOUS
  <2>1. CASE Http!Next /\ OverHttp
    BY <2>1, HttpExchanges DEF KeptWhileAwaited, OverHttp
  <2>2. CASE transport # "streamable-http" /\ UNCHANGED transport
    BY <2>2 DEF Exchange!vars
  <2>3. CASE UNCHANGED clientVars
    BY <2>3 DEF clientVars, Exchange!vars
  <2> QED BY <2>1, <2>2, <2>3 DEF ClientNext, OverSse, OverStdio
<1> QED BY <1>1, <1>2, KeptHolds, PTL DEF ClientSpec, ImplementsExchange, Exchange!Spec
=============================================================================
