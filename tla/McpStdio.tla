------------------------------ MODULE McpStdio ------------------------------
(***************************************************************************)
(* StdioTransport (mcp/transports/stdio.ts): one resolver for whichever    *)
(* request came last, and a timer per request.                             *)
(***************************************************************************)
EXTENDS Sequences

CONSTANTS Requests,   \* by their ids
          None

VARIABLES
  child,      \* "running", "killed" by close, or "dead" by itself
  resolver,   \* the request that requestResolve belongs to
  timers,     \* the armed timers
  call,       \* per request: how it settled
  given,      \* per request: whose answer it was given
  asked,      \* external: what the server has still to answer
  out         \* external: the lines it has written

Init == /\ child = "running" /\ resolver = None /\ timers = {} /\ asked = {} /\ out = <<>>
        /\ call  = [r \in Requests |-> "new"]
        /\ given = [r \in Requests |-> None]

(* A process that died by itself is not "killed": it is still written to.  *)
Request(r) ==
  /\ call[r] = "new"
  /\ \/ /\ child = "killed" /\ call' = [call EXCEPT ![r] = "failed"]
        /\ UNCHANGED <<resolver, timers, asked>>
     \/ /\ child # "killed" /\ call' = [call EXCEPT ![r] = "waiting"]
        /\ resolver' = r /\ timers' = timers \cup {r}
        /\ asked' = asked \cup {q \in {r} : child = "running"}
  /\ UNCHANGED <<child, given, out>>

(* In any order.                                                           *)
ServerAnswers(r) ==
  /\ child = "running" /\ r \in asked
  /\ asked' = asked \ {r} /\ out' = Append(out, r)
  /\ UNCHANGED <<child, resolver, timers, call, given>>

(* Mutant: the answer takes the timers of all requests with it.            *)
LineClearing ==
  /\ out # <<>> /\ out' = Tail(out)
  /\ resolver # None
  /\ call'  = [call EXCEPT ![resolver] = "answered"]
  /\ given' = [given EXCEPT ![resolver] = Head(out)]
  /\ resolver' = None /\ timers' = {}
  /\ UNCHANGED <<child, asked>>

Line ==
  /\ out # <<>> /\ out' = Tail(out)
  /\ \/ /\ resolver = None /\ UNCHANGED <<resolver, timers, call, given>>
     \/ /\ resolver # None
        /\ call'  = [call EXCEPT ![resolver] = "answered"]
        /\ given' = [given EXCEPT ![resolver] = Head(out)]
        /\ resolver' = None /\ timers' = timers \ {resolver}
  /\ UNCHANGED <<child, asked>>

(* It takes the resolver away, whoever has it.                             *)
Timer(r) ==
  /\ r \in timers /\ timers' = timers \ {r}
  /\ call' = [call EXCEPT ![r] = "failed"]
  /\ resolver' = None
  /\ UNCHANGED <<child, given, asked, out>>

ChildDies == /\ child = "running" /\ child' = "dead" /\ out = <<>> /\ resolver' = None
             /\ UNCHANGED <<timers, call, given, asked, out>>

(* What was written before the kill may still be read.  A process that     *)
(* died by itself cannot be killed, and so never counts as closed.         *)
Close == /\ child' = IF child = "running" THEN "killed" ELSE child
         /\ resolver' = None
         /\ UNCHANGED <<timers, call, given, asked, out>>

Next == Line \/ ChildDies \/ Close \/ \E r \in Requests : Request(r) \/ ServerAnswers(r) \/ Timer(r)

(* Timers fire.                                                            *)
Fair(r) == Timer(r)

----------------------------------------------------------------------------
(* A request that waits has its timer, one that is over has none, and the  *)
(* resolver, where there is one, belongs to a request that waits: a late   *)
(* line never resolves a request that is over.                             *)
TypeOK ==
  /\ child \in {"running", "killed", "dead"} /\ asked \subseteq Requests
  /\ out \in Seq(Requests)
  /\ call \in [Requests -> {"new", "waiting", "answered", "failed"}]
  /\ given \in [Requests -> Requests \cup {None}]
  /\ \A r \in Requests : given[r] # None <=> call[r] = "answered"
  /\ timers = {r \in Requests : call[r] = "waiting"}
  /\ resolver \in timers \cup {None}

(* A call is given the answer to itself.                                   *)
OwnAnswer == \A r \in Requests : given[r] \in {r, None}
=============================================================================
