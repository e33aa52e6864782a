------------------------------- MODULE McpSse -------------------------------
(***************************************************************************)
(* SseTransport (mcp/transports/sse.ts): a stream of events that is opened *)
(* once, brings the URL for requests and then their answers.  A request is *)
(* in pending only after its POST has come back without the answer.        *)
(***************************************************************************)
CONSTANT Requests   \* by their ids

VARIABLES
  closed,
  events,    \* the stream of events
  postUrl,   \* whether the server has said where to post
  ready,     \* the promise sseReady
  pending,   \* the requests in the map, each with an armed timer
  call,      \* per request: the await it is at, or how it settled
  server,    \* external: per request, whether the server has got and answered it
  wire,      \* external: answers in the events, not yet read
  missed     \* answers that no entry of pending was there for

Init == /\ closed = FALSE /\ events = "connecting" /\ postUrl = FALSE /\ ready = "pending"
        /\ pending = {} /\ wire = {} /\ missed = {}
        /\ call   = [r \in Requests |-> "new"]
        /\ server = [r \in Requests |-> "none"]

Goto(r, s) == call' = [call EXCEPT ![r] = s]
AllFailed  == [r \in Requests |-> IF r \in pending THEN "failed" ELSE call[r]]
Rejected   == IF ready = "pending" THEN "rejected" ELSE ready

----------------------------------------------------------------------------
(* The stream.                                                             *)

Connected == /\ events = "connecting" /\ events' = "open"
             /\ UNCHANGED <<closed, postUrl, ready, pending, call, server, wire, missed>>

ConnectFails == /\ events = "connecting" /\ events' = "ended"
                /\ ready' = Rejected /\ call' = AllFailed /\ pending' = {}
                /\ UNCHANGED <<closed, postUrl, server, wire, missed>>

Endpoint == /\ events = "open" /\ ~ postUrl
            /\ postUrl' = TRUE
            /\ ready' = IF ready = "pending" THEN "resolved" ELSE ready
            /\ UNCHANGED <<closed, events, pending, call, server, wire, missed>>

(* An answer is read: it is taken by its entry, or goes to the handlers.   *)
Deliver(r) ==
  /\ events = "open" /\ r \in wire /\ wire' = wire \ {r}
  /\ \/ r \in pending /\ Goto(r, "answered") /\ pending' = pending \ {r} /\ missed' = missed
     \/ r \notin pending /\ missed' = missed \cup {r} /\ UNCHANGED <<call, pending>>
  /\ UNCHANGED <<closed, events, postUrl, ready, server>>

(* A read that throws rejects who is in pending; an end of the events, and *)
(* either of them who waits for the URL, leaves it to the timers.          *)
StreamFails == /\ events = "open" /\ events' = "ended"
               /\ call' = AllFailed /\ pending' = {}
               /\ UNCHANGED <<closed, postUrl, ready, server, wire, missed>>

StreamEnds == /\ events = "open" /\ wire = {} /\ events' = "ended"
              /\ UNCHANGED <<closed, postUrl, ready, pending, call, server, wire, missed>>

----------------------------------------------------------------------------
(* A request.                                                              *)

Request(r) ==
  /\ call[r] = "new" /\ Goto(r, IF closed THEN "failed" ELSE "endpoint")
  /\ UNCHANGED <<closed, events, postUrl, ready, pending, server, wire, missed>>

EndpointWaited(r) ==
  /\ call[r] = "endpoint" /\ (postUrl \/ ready # "pending")
  /\ Goto(r, IF postUrl /\ ~ closed THEN "posting" ELSE "failed")
  /\ UNCHANGED <<closed, events, postUrl, ready, pending, server, wire, missed>>

ServerGets(r) ==
  /\ call[r] = "posting" /\ server[r] = "none"
  /\ server' = [server EXCEPT ![r] = "got"]
  /\ UNCHANGED <<closed, events, postUrl, ready, pending, call, wire, missed>>

(* On the events, as soon as it has got the request.                       *)
ServerAnswers(r) ==
  /\ server[r] = "got" /\ server' = [server EXCEPT ![r] = "answered"]
  /\ wire' = wire \cup {r}
  /\ UNCHANGED <<closed, events, postUrl, ready, pending, call, missed>>

PostReturns(r) ==
  /\ call[r] = "posting" /\ server[r] # "none" /\ Goto(r, "body")
  /\ UNCHANGED <<closed, events, postUrl, ready, pending, server, wire, missed>>

(* The body of the POST, JSON or a stream of its own, has the answer.      *)
BodyAnswers(r) ==
  /\ call[r] = "body" /\ server[r] = "got"
  /\ server' = [server EXCEPT ![r] = "answered"] /\ Goto(r, "answered")
  /\ UNCHANGED <<closed, events, postUrl, ready, pending, wire, missed>>

(* Mutant: the request waits without a timer.                              *)
WaitsUnregistered(r) ==
  /\ call[r] = "body" /\ Goto(r, "waiting")
  /\ UNCHANGED <<closed, events, postUrl, ready, pending, server, wire, missed>>

(* It has not: waitForResponseOnSse.                                       *)
BodyEnds(r) ==
  /\ call[r] = "body" /\ Goto(r, "waiting") /\ pending' = pending \cup {r}
  /\ UNCHANGED <<closed, events, postUrl, ready, server, wire, missed>>

(* The network, or the timeout that the fetch and its body have.           *)
PostFails(r) ==
  /\ call[r] \in {"posting", "body"} /\ Goto(r, "failed")
  /\ UNCHANGED <<closed, events, postUrl, ready, pending, server, wire, missed>>

Timer(r) ==
  /\ r \in pending /\ pending' = pending \ {r} /\ Goto(r, "failed")
  /\ UNCHANGED <<closed, events, postUrl, ready, server, wire, missed>>

Close ==
  /\ ~ closed /\ closed' = TRUE
  /\ events' = "ended" /\ postUrl' = FALSE /\ ready' = Rejected
  /\ call' = AllFailed /\ pending' = {}
  /\ UNCHANGED <<server, wire, missed>>

Wait(r) == \/ Request(r) \/ EndpointWaited(r) \/ PostReturns(r)
           \/ BodyAnswers(r) \/ BodyEnds(r) \/ PostFails(r) \/ Timer(r)

Next == \/ Connected \/ ConnectFails \/ Endpoint \/ StreamFails \/ StreamEnds \/ Close
        \/ \E r \in Requests : Wait(r) \/ Deliver(r) \/ ServerGets(r) \/ ServerAnswers(r)

(* Timers fire, those of the fetches too, and promises that have settled   *)
(* continue.  The server need not answer, nor say where to post.           *)
Fair(r) == EndpointWaited(r) \/ PostFails(r) \/ Timer(r)

----------------------------------------------------------------------------
(* The map has exactly the requests that wait for the events, so that      *)
(* every one of them is reached by its answer, by the events's failure, by *)
(* its timer and by close; and a stream is never given an answer that its  *)
(* server has not sent.                                                    *)
TypeOK ==
  /\ closed \in BOOLEAN /\ postUrl \in BOOLEAN
  /\ events \in {"connecting", "open", "ended"} /\ ready \in {"pending", "resolved", "rejected"}
  /\ call \in [Requests -> {"new", "endpoint", "posting", "body", "waiting", "answered", "failed"}]
  /\ server \in [Requests -> {"none", "got", "answered"}]
  /\ pending = {r \in Requests : call[r] = "waiting"}
  /\ wire \cup missed \subseteq {r \in Requests : server[r] = "answered"}

(* "Response may arrive on POST body or on SSE stream - race both": no one *)
(* goes on waiting for an answer that has come.                            *)
AnswersAreTaken == \A r \in missed : call[r] # "waiting"

(* "close rejects pending": no request is outstanding once the transport   *)
(* is closed, except one that has yet to look at closed.                   *)
CloseRejects == closed => \A r \in Requests : call[r] \notin {"posting", "body", "waiting"}
=============================================================================
