------------------------------ MODULE EventBus ------------------------------
(***************************************************************************)
(* The event buses of event/src: publish, subscribe, durable, stream and   *)
(* streamWithReplay of InMemoryEventBus (in-memory-bus.ts) and of          *)
(* GlobalEventBus (global-bus.ts).  One durable event type and one         *)
(* aggregate; an event is its sequence number.                             *)
(*                                                                         *)
(* publish calls its listeners one after the other and they may publish,   *)
(* subscribe, unsubscribe or abort in turn: frames is the stack of the     *)
(* dispatches under way.  A consumer of a stream moves between them.       *)
(***************************************************************************)
EXTENDS Naturals, Sequences, SequencesExt

CONSTANTS Streams,      \* consumers of stream or
          Replays,      \* of streamWithReplay
          Subscribers,  \* handlers of subscribe
          Buses,        \* the kinds of bus: "memory", "global"
          MaxEvents,    \* bound on publish
          MaxDurable,   \* MAX_DURABLE_EVENTS
          MaxQueue      \* MAX_STREAM_QUEUE

ASSUME BusAssumption == /\ Replays \subseteq Streams /\ Streams \cap Subscribers = {}
                        /\ Buses \subseteq {"memory", "global"}
                        /\ MaxEvents \in Nat /\ MaxDurable \in Nat \ {0} /\ MaxQueue \in Nat \ {0}

VARIABLES
  bus,        \* which of the two it is
  sequence,   \* the next sequence number
  durable,    \* the durable events of the aggregate
  listeners,  \* in the order of their registration
  frames,     \* dispatches: the event, the next listener, whether a handler is running,
              \* and for the emitter the listeners it copied
  stream,     \* per consumer: where its generator is suspended, and its local variables
  got,        \* what each consumer was given (history)
  within,     \* the dispatches an event was published in (history)
  due,        \* the events published while a consumer was subscribed (history)
  dropped,    \* the events its full queue dropped (history)
  thrown      \* the events whose dispatch a handler threw out of (history)

history == <<within, due, dropped, thrown>>
vars == <<bus, sequence, durable, listeners, frames, stream, got, history>>

Event == 0 .. MaxEvents - 1

(* replaying, yielded: at a yield of durable and of stream;  between: one  *)
(* has returned and the other is not called;  sleeping, woken: the promise *)
(* an event or an abort resolves                                           *)
Pc      == {"new", "replaying", "between", "sleeping", "woken", "yielded", "ended"}
Live(c) == stream[c].pc \in {"sleeping", "woken", "yielded"}

Opened(from) == [pc |-> "new", from |-> from, at |-> 0, queue |-> <<>>,
                 done |-> FALSE, aborted |-> FALSE]

Init == /\ bus \in Buses
        /\ sequence = 0 /\ durable = <<>> /\ frames = <<>>
        /\ listeners = <<>>
        /\ stream = [c \in Streams |-> Opened(0)]
        /\ got = [c \in Streams |-> <<>>]
        /\ within = [e \in Event |-> {}]
        /\ due = [c \in Streams |-> {}] /\ dropped = [c \in Streams |-> {}]
        /\ thrown = {}

----------------------------------------------------------------------------
(* Dispatch.                                                               *)

Idle == frames = <<>>
Top  == frames[Len(frames)]

(* Host code runs between dispatches and in the handlers they call.        *)
Free == Idle \/ (~ Idle /\ Top.running)
Dispatched == {frames[i].event : i \in 1 .. Len(frames)}

(* The durable list with e, without what is over its limit.                *)
Keep(e) ==
  LET list == Append(durable, e) IN
  SubSeq(list, IF Len(list) > MaxDurable THEN Len(list) - MaxDurable + 1 ELSE 1, Len(list))

(* The bus in memory keeps the event first, the global bus emits it first. *)
Publish ==
  /\ Free /\ sequence < MaxEvents
  /\ sequence' = sequence + 1
  /\ durable' = IF bus = "memory" THEN Keep(sequence) ELSE durable
  /\ frames' = Append(frames, [event |-> sequence, at |-> 1, running |-> FALSE,
                               copy |-> IF bus = "global" THEN listeners ELSE <<>>])
  /\ within' = [within EXCEPT ![sequence] = Dispatched]
  /\ due' = [c \in Streams |-> due[c] \cup {e \in {sequence} : c \in ToSet(listeners)}]
  /\ UNCHANGED <<bus, listeners, stream, got, dropped, thrown>>

(* Mutant: the emitter calls the listeners there are when their turn comes. *)
CalledLive(f) == listeners

Called(f) == IF bus = "global" THEN f.copy ELSE listeners

(* The handler of a stream.                                                *)
Hears(s, e) ==
  [s EXCEPT !.queue = Append(IF Len(@) >= MaxQueue THEN Tail(@) ELSE @, e),
            !.pc = IF @ = "sleeping" THEN "woken" ELSE @]

CallStream ==
  /\ ~ Idle /\ ~ Top.running /\ Top.at <= Len(Called(Top))
  /\ LET c == Called(Top)[Top.at] IN
     /\ c \in Streams
     /\ stream'  = [stream EXCEPT ![c] = Hears(@, Top.event)]
     /\ dropped' = [dropped EXCEPT ![c] = IF Len(stream[c].queue) < MaxQueue THEN @
                                          ELSE @ \cup {Head(stream[c].queue)}]
  /\ frames' = [frames EXCEPT ![Len(frames)].at = @ + 1]
  /\ UNCHANGED <<bus, sequence, durable, listeners, got, within, due, thrown>>

CallSubscriber ==
  /\ ~ Idle /\ ~ Top.running /\ Top.at <= Len(Called(Top))
  /\ Called(Top)[Top.at] \in Subscribers
  /\ frames' = [frames EXCEPT ![Len(frames)].running = TRUE]
  /\ UNCHANGED <<bus, sequence, durable, listeners, stream, got, history>>

HandlerReturns ==
  /\ ~ Idle /\ Top.running
  /\ frames' = [frames EXCEPT ![Len(frames)].running = FALSE, ![Len(frames)].at = @ + 1]
  /\ UNCHANGED <<bus, sequence, durable, listeners, stream, got, history>>

(* The bus in memory catches what a handler throws.  The emitter does not: *)
(* publish throws it too, into the handler that called it, if one did.     *)
HandlerThrows ==
  /\ ~ Idle /\ Top.running /\ bus = "global"
  /\ frames' = Front(frames)
  /\ thrown' = thrown \cup {Top.event}
  /\ UNCHANGED <<bus, sequence, durable, listeners, stream, got, within, due, dropped>>

DispatchEnds ==
  /\ ~ Idle /\ ~ Top.running /\ Top.at > Len(Called(Top))
  /\ frames'  = Front(frames)
  /\ durable' = IF bus = "global" THEN Keep(Top.event) ELSE durable
  /\ UNCHANGED <<bus, sequence, listeners, stream, got, history>>

----------------------------------------------------------------------------
(* Subscriptions, and the generators of the streams.                       *)

Subscribe(o) ==
  /\ Free /\ o \notin ToSet(listeners)
  /\ listeners' = Append(listeners, o)
  /\ UNCHANGED <<bus, sequence, durable, frames, stream, got, history>>

(* indexOf and splice: every listener is registered with an entry of its   *)
(* own, and is there once.                                                 *)
Without(l) ==
  IF l \in ToSet(listeners)
  THEN RemoveAt(listeners, CHOOSE i \in 1 .. Len(listeners) : listeners[i] = l)
  ELSE listeners

Unsubscribe(o) ==
  /\ Free /\ o \in ToSet(listeners)
  /\ listeners' = Without(o)
  /\ UNCHANGED <<bus, sequence, durable, frames, stream, got, history>>

(* durable: the event at i is the first after the one asked for.           *)
IsFirstFrom(from, i) == durable[i] >= from /\ \A j \in 1 .. i - 1 : durable[j] < from

(* Mutant: the consumer subscribes before its replay.                      *)
BeginSubscribed(c) ==
  /\ Idle /\ c \in Replays /\ stream[c].pc = "new"
  /\ listeners' = Append(listeners, c)
  /\ \/ /\ \A i \in 1 .. Len(durable) : durable[i] < stream[c].from
        /\ stream' = [stream EXCEPT ![c].pc = "between"] /\ got' = got
     \/ \E first \in 1 .. Len(durable) :
        /\ IsFirstFrom(stream[c].from, first)
        /\ got' = [got EXCEPT ![c] = Append(@, durable[first])]
        /\ stream' = [stream EXCEPT ![c].pc = "replaying", ![c].at = first]
  /\ UNCHANGED <<bus, sequence, durable, frames, history>>

Begin(c) ==
  /\ Idle /\ c \in Replays /\ stream[c].pc = "new"
  /\ \/ /\ \A i \in 1 .. Len(durable) : durable[i] < stream[c].from
        /\ stream' = [stream EXCEPT ![c].pc = "between"] /\ got' = got
     \/ \E first \in 1 .. Len(durable) :
        /\ IsFirstFrom(stream[c].from, first)
        /\ got' = [got EXCEPT ![c] = Append(@, durable[first])]
        /\ stream' = [stream EXCEPT ![c].pc = "replaying", ![c].at = first]
  /\ UNCHANGED <<bus, sequence, durable, listeners, frames, history>>

(* The loop of durable goes on by position in the list as it is now.       *)
Replay(c) ==
  /\ Idle /\ stream[c].pc = "replaying"
  /\ \/ /\ stream[c].at < Len(durable)
        /\ got' = [got EXCEPT ![c] = Append(@, durable[stream[c].at + 1])]
        /\ stream' = [stream EXCEPT ![c].at = @ + 1]
     \/ /\ stream[c].at >= Len(durable)
        /\ stream' = [stream EXCEPT ![c].pc = "between"] /\ got' = got
  /\ UNCHANGED <<bus, sequence, durable, listeners, frames, history>>

(* stream is called: it listens, finds its queue empty and sleeps.         *)
GoLive(c) ==
  /\ Idle
  /\ stream[c].pc = IF c \in Replays THEN "between" ELSE "new"
  /\ listeners' = Append(listeners, c)
  /\ stream' = [stream EXCEPT ![c].pc = "sleeping"]
  /\ due' = [due EXCEPT ![c] = {}]
  /\ UNCHANGED <<bus, sequence, durable, frames, got, within, dropped, thrown>>

(* The loop of stream, from one await or yield to the next.                *)
Advance(c) ==
  /\ Idle /\ stream[c].pc \in {"woken", "yielded"}
  /\ LET q == stream[c].queue IN
     \/ /\ q # <<>>
        /\ got' = [got EXCEPT ![c] = Append(@, Head(q))]
        /\ stream' = [stream EXCEPT ![c].pc = "yielded", ![c].queue = Tail(q)]
        /\ UNCHANGED listeners
     \/ /\ q = <<>> /\ stream[c].done
        /\ stream' = [stream EXCEPT ![c].pc = "ended"]
        /\ listeners' = Without(c) /\ UNCHANGED got
     \/ /\ q = <<>> /\ ~ stream[c].done
        /\ stream' = [stream EXCEPT ![c].pc = "sleeping"]
        /\ UNCHANGED <<listeners, got>>
  /\ UNCHANGED <<bus, sequence, durable, frames, history>>

(* Mutant: the abort leaves the subscription to the loop, which may sleep. *)
AbortQuietly(c) ==
  /\ Free /\ ~ stream[c].aborted /\ stream[c].pc # "ended"
  /\ stream' = [stream EXCEPT ![c].aborted = TRUE, ![c].done = Live(c)]
  /\ listeners' = IF Live(c) THEN Without(c) ELSE listeners
  /\ UNCHANGED <<bus, sequence, durable, frames, got, history>>

(* The signal is aborted.  Only a stream that is live listens to it, and a *)
(* signal aborted earlier never calls the listener a stream adds.          *)
Abort(c) ==
  /\ Free /\ ~ stream[c].aborted /\ stream[c].pc # "ended"
  /\ stream' = [stream EXCEPT ![c].aborted = TRUE, ![c].done = Live(c),
                              ![c].pc = IF @ = "sleeping" THEN "woken" ELSE @]
  /\ listeners' = IF Live(c) THEN Without(c) ELSE listeners
  /\ UNCHANGED <<bus, sequence, durable, frames, got, history>>

(* Mutant: a consumer that breaks out of its loop stays subscribed.        *)
LeaveListening(c) ==
  /\ Idle /\ stream[c].pc \in {"replaying", "yielded"}
  /\ stream' = [stream EXCEPT ![c].pc = "ended", ![c].queue = <<>>]
  /\ UNCHANGED <<bus, sequence, durable, listeners, frames, got, history>>

(* The consumer breaks out of its loop at a yield.                         *)
Leave(c) ==
  /\ Idle /\ stream[c].pc \in {"replaying", "yielded"}
  /\ stream' = [stream EXCEPT ![c].pc = "ended", ![c].queue = <<>>]
  /\ listeners' = Without(c)
  /\ UNCHANGED <<bus, sequence, durable, frames, got, history>>

(* And comes back for what follows the last event it knows.                *)
Return(c) ==
  /\ Idle /\ c \in Replays /\ stream[c].pc = "ended"
  /\ \E last \in ToSet(got[c]) : /\ \A e \in ToSet(got[c]) : e <= last
                                 /\ stream' = [stream EXCEPT ![c] = Opened(last + 1)]
  /\ UNCHANGED <<bus, sequence, durable, listeners, frames, got, history>>

Dispatch == CallStream \/ CallSubscriber \/ HandlerReturns \/ HandlerThrows \/ DispatchEnds
Consume(c) == Begin(c) \/ Replay(c) \/ GoLive(c) \/ Advance(c)

Next == \/ Publish \/ Dispatch
        \/ \E o \in Subscribers : Subscribe(o) \/ Unsubscribe(o)
        \/ \E c \in Streams : Consume(c) \/ Abort(c) \/ Leave(c) \/ Return(c)

Spec == Init /\ [][Next]_vars

(* Handlers return, publish is a loop, and a consumer that is given an     *)
(* event asks for the next one.                                            *)
FairSpec == Spec /\ WF_vars(Dispatch) /\ \A c \in Streams : WF_vars(Consume(c))

----------------------------------------------------------------------------
Heard(c) == got[c] \o stream[c].queue

(* An open stream is served: the bus calls exactly those that did not end, *)
(* were not left or aborted; and a generator waits for its promise only    *)
(* while there is nothing for it: no event or abort comes between the look *)
(* at the queue and the wait.                                              *)
ServedWhileOpen ==
  \A c \in Streams :
    /\ c \in ToSet(listeners) <=> Live(c) /\ ~ stream[c].done
    /\ stream[c].pc = "sleeping" => stream[c].queue = <<>> /\ ~ stream[c].done

TypeOK ==
  /\ bus \in Buses /\ sequence \in 0 .. MaxEvents
  /\ Len(durable) <= MaxDurable /\ ToSet(durable) \subseteq Event
  /\ ToSet(listeners) \subseteq Streams \cup Subscribers
  /\ \A c \in Streams : /\ stream[c].pc \in Pc
                        /\ Len(stream[c].queue) <= MaxQueue
                        /\ ToSet(Heard(c)) \subseteq 0 .. sequence - 1
  /\ ServedWhileOpen

(* On the bus in memory nobody is given an event twice: not by the replay  *)
(* and the live part of a stream, and not when a consumer comes back for   *)
(* the events after the last one it has, although the list it comes back   *)
(* to was trimmed.                                                         *)
OnceEach == bus = "memory" => \A c \in Streams : IsInjective(Heard(c))

(* Events come in the order of their sequence, except where one was        *)
(* published by a handler of the other.                                    *)
InOrder ==
  \A c \in Streams : \A i, j \in 1 .. Len(Heard(c)) :
     i < j /\ Heard(c)[i] > Heard(c)[j] => Heard(c)[j] \in within[Heard(c)[i]]

(* A consumer is given what was published, once and in order, through      *)
(* replays, trimming, nested publishes and its own coming and going.       *)
GivenOnceInOrder == OnceEach /\ InOrder

HearsOfEach ==
  \A c \in Streams : \A e \in due[c] \ (Dispatched \cup thrown) :
     c \in ToSet(listeners) => e \in ToSet(Heard(c)) \cup dropped[c]

(* On the global bus, whoever was subscribed when an event was published   *)
(* and still is has heard of it when the dispatch is over, or its full     *)
(* queue dropped it, whatever other handlers did in between.               *)
NobodyIsSkipped == bus = "global" => HearsOfEach

(* A stream that heard of the abort comes to its end.                      *)
DoneEnds == \A c \in Streams : (Live(c) /\ stream[c].done) ~> (stream[c].pc = "ended")

----------------------------------------------------------------------------
(* What comments and docs say of the buses and the code does not do.       *)

(* in-memory-bus.ts:63: "errors/timeouts don't cascade": on either bus.    *)
NobodyIsEverSkipped == HearsOfEach

(* in-memory-bus.ts:116, global-bus.ts:125: "trimming the bounded durable  *)
(* list cannot shift the resume point": on either bus.                     *)
OnceEachOnAnyBus == \A c \in Streams : IsInjective(Heard(c))

(* types.ts:35, "Optional AbortSignal to stop streaming": an aborted       *)
(* stream ends.                                                            *)
AbortEnds == \A c \in Streams : stream[c].aborted ~> (stream[c].pc = "ended")

(* "Replay historical events for an aggregate, then merge live events"     *)
(* (docs/api/event.en.md:81): whoever is live was given every event the    *)
(* bus still keeps, from the one it asked for on.                          *)
NothingBetween ==
  \A c \in Replays : Live(c) /\ ~ stream[c].done =>
     \A e \in ToSet(durable) \ Dispatched :
        e >= stream[c].from => e \in ToSet(Heard(c)) \cup dropped[c]

(* in-memory-bus.ts:116: a replay goes by sequence numbers and not by      *)
(* positions in the list, so trimming the list does not make it pass over  *)
(* an event that is still kept.                                            *)
ReplayIsWhole ==
  \A c \in Replays : stream[c].pc = "replaying" =>
     \A e \in ToSet(durable) : e \in stream[c].from .. Last(got[c]) => e \in ToSet(got[c])
=============================================================================
