------------------------------- MODULE MCTools -------------------------------
(***************************************************************************)
(* What becomes of the tool calls of a step: ToolStep on two steps of two  *)
(* calls; or RunConcurrent, which starts the calls of a step, on a batch   *)
(* of more tasks than may run at a time; or McpClient, which asks the      *)
(* servers of tools, with three requests over one of the transports.  A    *)
(* behaviour is of one of them.                                            *)
(***************************************************************************)
EXTENDS ToolStep, RunConcurrent, McpClient

CONSTANTS r1, r2, r3

VARIABLE part

MCVars == <<part, vars, poolVars, clientVars>>

(* Where there is no connection its variables are those of any transport.  *)
MCInit == /\ part \in {"tools", "batch", "server"}
          /\ Init /\ PoolInit /\ ClientInit
          /\ part # "server" => transport = "streamable-http"

OfTools  == part = "tools" /\ UNCHANGED <<part, poolVars, clientVars>>
OfBatch  == part = "batch" /\ UNCHANGED <<part, vars, clientVars>>
OfServer == part = "server" /\ UNCHANGED <<part, vars, poolVars>>

MCNext == \/ OfTools /\ Next
          \/ OfBatch /\ PoolNext
          \/ OfServer /\ ClientNext

(* The fairness of FairSpec, of PoolFairSpec and of ClientFairSpec.        *)
MCFairness ==
  /\ \A c \in Calls : WF_MCVars(OfTools /\ Progress(c))
  /\ \A w \in Walkers : WF_MCVars(OfTools /\ Rollback(w))
  /\ WF_MCVars(OfTools /\ Advance) /\ WF_MCVars(OfTools /\ StepTimeout)
  /\ \A i \in Tasks : WF_MCVars(OfBatch /\ TaskEnds(i)) /\ WF_MCVars(OfBatch /\ RaceWon(i))
  /\ WF_MCVars(OfBatch /\ FirstSettled) /\ WF_MCVars(OfBatch /\ AllSettled)
  /\ \A r \in Requests : /\ WF_MCVars(OfServer /\ OverHttp /\ Http!Fair(r))
                         /\ WF_MCVars(OfServer /\ OverSse /\ Sse!Fair(r))
                         /\ WF_MCVars(OfServer /\ OverStdio /\ Stdio!Fair(r))

MCSpec == MCInit /\ [][MCNext]_MCVars /\ MCFairness

(* RunEnds of ToolStep: a tool that hangs is abandoned by its timeout, the *)
(* step timer or the abort, and the run ends (step-executor.ts:199-650).   *)
ToolRunEnds == part = "tools" => RunEnds

(* Terminates of RunConcurrent: a batch returns, although every entry of   *)
(* `running` waits for another one (step-executor.ts:162-191).             *)
BatchReturns == part = "batch" => Terminates
=============================================================================
