----------------------------- MODULE McpClient -----------------------------
(***************************************************************************)
(* A connection of McpClient (mcp/client.ts): createTransport makes one of *)
(* three transports and everything the connection asks of its server goes  *)
(* through its request.  They share what they have in common: the requests *)
(* of the callers and the map and timers of those that are outstanding.    *)
(***************************************************************************)
CONSTANTS Requests,    \* by their ids, which the connection counts up
          Transports,  \* those the host's configurations name
          None

ASSUME NoneAssumption == None \notin Requests
ASSUME TransportsAssumption == Transports \subseteq {"streamable-http", "sse", "stdio"}

VARIABLES
  transport,                     \* of this connection
  caller,                        \* per request: what its caller has
  closed, pending, timers,
  fetch,                                        \* of McpHttp
  events, postUrl, ready, server, wire, missed, \* of McpSse
  child, resolver, given, asked, out            \* of McpStdio

httpOnly  == <<fetch>>
sseOnly   == <<events, postUrl, ready, server, wire, missed>>
stdioOnly == <<child, resolver, given, asked, out>>
clientVars == <<transport, caller, closed, pending, timers,
                httpOnly, sseOnly, stdioOnly>>

Http  == INSTANCE McpHttp WITH call <- caller
Sse   == INSTANCE McpSse WITH call <- caller
Stdio == INSTANCE McpStdio WITH call <- caller

ClientInit == transport \in Transports /\ Http!Init /\ Sse!Init /\ Stdio!Init

OverHttp  == transport = "streamable-http" /\ UNCHANGED <<transport, sseOnly, stdioOnly>>
OverSse   == transport = "sse" /\ UNCHANGED <<transport, timers, httpOnly, stdioOnly>>
OverStdio == transport = "stdio" /\ UNCHANGED <<transport, closed, pending, httpOnly, sseOnly>>

ClientNext == \/ Http!Next /\ OverHttp
              \/ Sse!Next /\ OverSse
              \/ Stdio!Next /\ OverStdio

ClientSpec == ClientInit /\ [][ClientNext]_clientVars

(* Timers fire and promises that have settled continue; no server is fair. *)
ClientFairSpec == /\ ClientSpec
                  /\ \A r \in Requests : /\ WF_clientVars(Http!Fair(r) /\ OverHttp)
                                         /\ WF_clientVars(Sse!Fair(r) /\ OverSse)
                                         /\ WF_clientVars(Stdio!Fair(r) /\ OverStdio)

----------------------------------------------------------------------------
(* What a transport keeps of a request is there exactly while its caller   *)
(* waits: the entry, the timer, the resolver.  An answer, a timer, a       *)
(* failure or close that comes late finds nothing of it.                   *)
KeptWhileAwaited ==
  /\ transport \in Transports
  /\ transport = "streamable-http" => Http!TypeOK
  /\ transport = "sse" => Sse!TypeOK
  /\ transport = "stdio" => Stdio!TypeOK

(* The streamable HTTP transport settles each request once, whatever its   *)
(* fetch and its timer do later, and its close rejects all that are        *)
(* outstanding in one step.  (The other two do not: see CloseRejects of    *)
(* McpSse.)  That it settles them in the end is RequestsEnd.               *)
Exchange ==
  INSTANCE McpExchange
    WITH call   <- IF transport = "streamable-http" THEN caller ELSE [r \in Requests |-> "new"],
         closed <- transport = "streamable-http" /\ closed

ImplementsExchange == Exchange!Spec

(* Whatever becomes of the server, its process or its streams, of close    *)
(* and of the other requests: one that has been sent comes to an end.      *)
RequestsEnd ==
  \A r \in Requests : caller[r] \in {"posting", "body", "waiting"} ~> caller[r] \in {"answered", "failed"}
=============================================================================
