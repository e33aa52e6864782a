------------------------------ MODULE McpHttp ------------------------------
(***************************************************************************)
(* StreamableHttpTransport (mcp/transports/streamable-http.ts): a request  *)
(* is an entry of pending, a timer and a fetch that runs in the            *)
(* background.  Neither the timer nor close stops the fetch.  The id of    *)
(* the session is data.                                                    *)
(***************************************************************************)
CONSTANT Requests   \* by their ids, which McpClient counts up

VARIABLES
  closed,
  pending,   \* the requests in the map
  timers,    \* the armed timers
  fetch,     \* per request: the await its background function is at
  call       \* per request: what its caller has

Init == /\ closed = FALSE /\ pending = {} /\ timers = {}
        /\ fetch = [r \in Requests |-> "none"]
        /\ call  = [r \in Requests |-> "new"]

(* A promise is settled once.                                              *)
Settled(rs, s) ==
  [r \in Requests |-> IF r \in rs /\ call[r] = "waiting" THEN s ELSE call[r]]

Request(r) ==
  /\ call[r] = "new"
  /\ \/ /\ closed
        /\ call' = [call EXCEPT ![r] = "failed"]
        /\ UNCHANGED <<pending, timers, fetch>>
     \/ /\ ~ closed
        /\ call' = [call EXCEPT ![r] = "waiting"]
        /\ pending' = pending \cup {r} /\ timers' = timers \cup {r}
        /\ fetch' = [fetch EXCEPT ![r] = "headers"]
  /\ UNCHANGED closed

(* A response with a JSON body or one that is a stream of events, in which *)
(* messages for others go to the handlers.                                 *)
HeadersCome(r) ==
  /\ fetch[r] = "headers" /\ fetch' = [fetch EXCEPT ![r] = "body"]
  /\ UNCHANGED <<closed, pending, timers, call>>

(* Mutant: the entry stays in the map.                                     *)
DoneKeeping(r, s) ==
  /\ fetch' = [fetch EXCEPT ![r] = "none"]
  /\ timers' = timers \ {r}
  /\ call' = Settled({r}, s)
  /\ UNCHANGED <<closed, pending>>

Done(r, s) ==
  /\ fetch' = [fetch EXCEPT ![r] = "none"]
  /\ pending' = pending \ {r} /\ timers' = timers \ {r}
  /\ call' = Settled({r}, s)
  /\ UNCHANGED closed

(* The answer has the id of the request.                                   *)
Answers(r) == fetch[r] = "body" /\ Done(r, "answered")

(* The network, the fetch's own timeout, a status without a body, another  *)
(* id, or a stream that ends without the answer.                           *)
Fails(r) == fetch[r] # "none" /\ Done(r, "failed")

Timer(r) ==
  /\ r \in timers
  /\ timers' = timers \ {r} /\ pending' = pending \ {r}
  /\ call' = Settled({r}, "failed")
  /\ UNCHANGED <<closed, fetch>>

(* Mutant: close clears the map and the timers and rejects nobody.         *)
CloseSilently ==
  /\ ~ closed /\ closed' = TRUE
  /\ timers' = timers \ pending /\ pending' = {}
  /\ UNCHANGED <<fetch, call>>

Close ==
  /\ ~ closed /\ closed' = TRUE
  /\ timers' = timers \ pending /\ pending' = {}
  /\ call' = Settled(pending, "failed")
  /\ UNCHANGED fetch

Next == Close \/ \E r \in Requests : Request(r) \/ HeadersCome(r) \/ Answers(r) \/ Fails(r) \/ Timer(r)

(* A timer that is armed fires.  The server need not answer.               *)
Fair(r) == Timer(r)

----------------------------------------------------------------------------
(* Whoever waits is in the map and has a timer, and no one else is: close  *)
(* reaches every caller, no timer fires for one that has its answer, and   *)
(* a fetch that comes back late finds nothing of a request that is over.   *)
TypeOK ==
  /\ closed \in BOOLEAN
  /\ fetch \in [Requests -> {"none", "headers", "body"}]
  /\ call \in [Requests -> {"new", "waiting", "answered", "failed"}]
  /\ pending = {r \in Requests : call[r] = "waiting"} /\ timers = pending
=============================================================================
