------------------------------- MODULE Router -------------------------------
(***************************************************************************)
(* pkg/backend/router/router.go: operations routed to the agent, to the    *)
(* shell, or to one after the other; together with the one-shot transport  *)
(* of pkg/backend/agent/agent.go by which they reach the agent.            *)
(*                                                                         *)
(* An operation is one call of a Backend method, a prober one call of      *)
(* Probe; each runs in a goroutine of its own.  What they do on the remote *)
(* is one framed command at a time; by AbstractSession such a command runs *)
(* at most once, and its effect is there although an error is reported     *)
(* when only the answer was lost.  The commands of ShellBackend that make  *)
(* up one operation are taken together.                                    *)
(*                                                                         *)
(* An OpenWrite is more than one operation of route: the writer that it    *)
(* returns belongs to one backend and sends its data when it is closed.    *)
(***************************************************************************)
EXTENDS Naturals, Sequences, FiniteSets

CONSTANTS
    Ops,         \* operations
    Probers,     \* calls of Probe
    Chunks,      \* framed commands needed to stage one request
    MayFail      \* may framed commands fail?

Callers == Ops \cup Probers
ASSUME CallersAssumption == Ops \cap Probers = {} /\ IsFiniteSet(Callers)
ASSUME ChunksAssumption == Chunks \in Nat \ {0} /\ MayFail \in BOOLEAN

VARIABLES
    healthy,     \* agentHealthy
    pc, res,     \* each caller
    class,       \* Op.Class, of which route treats ReadOnly as Idempotent;
                 \* OpenWrite, Idempotent as well, is a class of its own
    staged,      \* chunks of its request a caller has staged
    tmp,         \* content of the temporary file of each caller
    installed,   \* is there a working agent on the remote?
    ranByAgent, ranByShell   \* how often an operation took effect

vars == <<healthy, pc, res, class, staged, tmp, installed, ranByAgent, ranByShell>>

Classes == {"idempotent", "non_idempotent", "open_write"}

Init ==
    /\ healthy = FALSE
    /\ pc = [x \in Callers |-> "new"]
    /\ res = [x \in Callers |-> "none"]
    /\ class \in [Ops -> Classes]
    /\ staged = [x \in Callers |-> 0]
    /\ tmp = [x \in Callers |-> <<>>]
    /\ installed \in BOOLEAN
    /\ ranByAgent = [o \in Ops |-> 0] /\ ranByShell = [o \in Ops |-> 0]

Goto(x, l) == pc' = [pc EXCEPT ![x] = l]
Return(x, r) == Goto(x, "done") /\ res' = [res EXCEPT ![x] = r]

-----------------------------------------------------------------------------
(* route, up to the call of agentFn.                                       *)

\* agentHealthy is read once, under its lock, and acted upon later.
First(o) ==
    CASE class[o] # "open_write" -> IF healthy THEN "stage" ELSE "shell"
      [] class[o] = "open_write" -> IF healthy THEN "agent_writer" ELSE "open_shell"
Begin(o) ==
    /\ o \in Ops /\ pc[o] = "new"
    /\ Goto(o, First(o))
    /\ UNCHANGED <<healthy, res, class, staged, tmp, installed, ranByAgent,
                   ranByShell>>

\* The agent has failed.  A writer of the agent returns that to its user, who
\* is not in route any more: no other backend is tried, and no mark set.
FallBackAlways(x) == x \in Ops
FallsBack(x) == x \in Ops /\ class[x] = "idempotent"
AgentFailed(x) ==
    \/ /\ x \in Probers /\ Goto(x, "mark") /\ UNCHANGED res
    \/ /\ FallsBack(x) /\ Goto(x, "mark") /\ UNCHANGED res
    \/ /\ x \in Ops /\ ~FallsBack(x) /\ Return(x, "agent_error")

\* OpenWrite: the agent's only makes a buffer, the shell's may have to probe.
OpenShell(o) ==
    /\ o \in Ops /\ pc[o] = "open_shell"
    /\ \/ Goto(o, "shell_writer") /\ UNCHANGED res
       \/ MayFail /\ Return(o, "shell_error")
    /\ UNCHANGED <<healthy, class, staged, tmp, installed, ranByAgent, ranByShell>>

\* The user closes the writer: a Write of the backend that made it.
CloseAgentWriter(o) ==
    /\ o \in Ops /\ pc[o] = "agent_writer"
    /\ Goto(o, "stage")
    /\ UNCHANGED <<healthy, res, class, staged, tmp, installed, ranByAgent, ranByShell>>

CloseShellWriter(o) ==
    /\ o \in Ops /\ pc[o] = "shell_writer"
    /\ Goto(o, "shell")
    /\ UNCHANGED <<healthy, res, class, staged, tmp, installed, ranByAgent, ranByShell>>

-----------------------------------------------------------------------------
(* callOneShot: stage the request in a temporary file, chunk by chunk, then *)
(* run the agent on it and remove the file.                                *)

\* The name of the file has a request number and the time of day in it.
OneTmpForAll(x) == CHOOSE y \in Callers : TRUE
TmpOf(x) == x
Chunk(x, i) == <<x, i>>
Request(x) == [i \in 1..Chunks |-> Chunk(x, i)]

LastChunkOffByOne(x) == staged[x] = Chunks
LastChunk(x) == staged[x] + 1 = Chunks
Stage(x) ==
    /\ pc[x] = "stage"
    /\ staged' = [staged EXCEPT ![x] = @ + 1]
    /\ LET before == IF staged[x] = 0 THEN <<>> ELSE tmp[TmpOf(x)]
       IN tmp' = [tmp EXCEPT ![TmpOf(x)] = Append(before, Chunk(x, staged[x] + 1))]
    /\ Goto(x, IF LastChunk(x) THEN "invoke" ELSE "stage")
    /\ UNCHANGED <<healthy, res, class, installed, ranByAgent, ranByShell>>

\* The file stays behind.
StageFails(x) ==
    /\ MayFail /\ pc[x] = "stage"
    /\ AgentFailed(x)
    /\ UNCHANGED <<healthy, class, staged, tmp, installed, ranByAgent, ranByShell>>

\* The agent runs and answers: an operation takes effect, a ping is answered.
Invoke(x) ==
    /\ pc[x] = "invoke" /\ installed
    /\ tmp' = [tmp EXCEPT ![TmpOf(x)] = <<>>]
    /\ IF x \in Ops
       THEN /\ ranByAgent' = [ranByAgent EXCEPT ![x] = @ + 1]
            /\ Return(x, "agent_ok")
       ELSE /\ Goto(x, "answered")
            /\ UNCHANGED <<res, ranByAgent>>
    /\ UNCHANGED <<healthy, class, staged, installed, ranByShell>>

\* No usable agent, or it answers with an error: the file is removed.
InvokeRejected(x) ==
    /\ pc[x] = "invoke"
    /\ MayFail \/ ~installed
    /\ tmp' = [tmp EXCEPT ![TmpOf(x)] = <<>>]
    /\ AgentFailed(x)
    /\ UNCHANGED <<healthy, class, staged, installed, ranByAgent, ranByShell>>

\* The agent runs, and its answer is lost.
InvokeLost(x) ==
    /\ MayFail /\ pc[x] = "invoke" /\ installed
    /\ tmp' = [tmp EXCEPT ![TmpOf(x)] = <<>>]
    /\ ranByAgent' = [o \in Ops |-> ranByAgent[o] + (IF o = x THEN 1 ELSE 0)]
    /\ AgentFailed(x)
    /\ UNCHANGED <<healthy, class, staged, installed, ranByShell>>

-----------------------------------------------------------------------------
(* The rest of route, and Probe.                                           *)

\* markAgentUnhealthy; an operation goes on to the shell, Probe returns nil.
ReturnAfterMark(x) == Return(x, IF x \in Probers THEN "nil" ELSE "agent_error")
AfterMark(x) ==
    \/ x \in Probers /\ Return(x, "nil")
    \/ x \in Ops /\ Goto(x, "shell") /\ UNCHANGED res
MarkUnhealthy(x) ==
    /\ pc[x] = "mark"
    /\ healthy' = FALSE
    /\ AfterMark(x)
    /\ UNCHANGED <<class, staged, tmp, installed, ranByAgent, ranByShell>>

ShellRuns(o) ==
    /\ o \in Ops /\ pc[o] = "shell"
    /\ ranByShell' = [ranByShell EXCEPT ![o] = @ + 1]
    /\ Return(o, "shell_ok") \/ (MayFail /\ Return(o, "shell_error"))
    /\ UNCHANGED <<healthy, class, staged, tmp, installed, ranByAgent>>

ShellFails(o) ==
    /\ MayFail /\ o \in Ops /\ pc[o] = "shell"
    /\ Return(o, "shell_error")
    /\ UNCHANGED <<healthy, class, staged, tmp, installed, ranByAgent, ranByShell>>

\* Probe: the shell's probe comes first, and its failure is the end of it.
ProbeShell(p) ==
    /\ p \in Probers /\ pc[p] = "new"
    /\ \/ Goto(p, "stage") /\ UNCHANGED res
       \/ MayFail /\ Return(p, "shell_error")
    /\ UNCHANGED <<healthy, class, staged, tmp, installed, ranByAgent, ranByShell>>

MarkHealthy(p) ==
    /\ pc[p] = "answered"
    /\ healthy' = TRUE
    /\ Return(p, "nil")
    /\ UNCHANGED <<class, staged, tmp, installed, ranByAgent, ranByShell>>

\* The agent is removed from the remote, or (re)installed.
AgentChanges ==
    /\ installed' = ~installed
    /\ UNCHANGED <<healthy, pc, res, class, staged, tmp, ranByAgent, ranByShell>>

-----------------------------------------------------------------------------
Step(x) ==
    \/ Begin(x) \/ OpenShell(x) \/ CloseAgentWriter(x) \/ CloseShellWriter(x)
    \/ Stage(x) \/ StageFails(x)
    \/ Invoke(x) \/ InvokeRejected(x) \/ InvokeLost(x)
    \/ MarkUnhealthy(x) \/ ShellRuns(x) \/ ShellFails(x)
    \/ ProbeShell(x) \/ MarkHealthy(x)
Next == (\E x \in Callers : Step(x)) \/ AgentChanges

Spec == Init /\ [][Next]_vars

-----------------------------------------------------------------------------
(* Correctness.                                                            *)

\* Every variable has its type.
TypeOK ==
    /\ healthy \in BOOLEAN /\ installed \in BOOLEAN
    /\ pc \in [Callers -> {"new", "open_shell", "agent_writer", "shell_writer", "stage",
                            "invoke", "answered", "mark", "shell", "done"}]
    /\ res \in [Callers -> {"none", "nil", "agent_ok", "agent_error", "shell_ok",
                            "shell_error"}]
    /\ class \in [Ops -> Classes]
    /\ staged \in [Callers -> 0..Chunks]
    /\ tmp \in [Callers -> Seq(Callers \X (1..Chunks))]
    /\ ranByAgent \in [Ops -> Nat] /\ ranByShell \in [Ops -> Nat]

\* A Run or a Remove takes effect at most once, by whichever backend, although
\* answers are lost and the health of the agent changes in between.  So does the
\* data of a writer, which nobody sends again.
NonIdempotentOnce ==
    \A o \in Ops :
        class[o] # "idempotent" => ranByAgent[o] + ranByShell[o] <= 1

\* The fallback is transparent: an idempotent operation is never failed by the
\* agent alone, and one that reports success has taken effect.
FallbackIsTransparent ==
    \A o \in Ops :
        /\ class[o] = "idempotent" => res[o] # "agent_error"
        /\ res[o] = "agent_ok" => ranByAgent[o] = 1
        /\ res[o] = "shell_ok" => ranByShell[o] = 1

\* The agent is started on exactly the request of its caller, however the
\* framed commands of concurrent callers interleave.
RequestIntact ==
    \A x \in Callers : pc[x] = "invoke" => tmp[TmpOf(x)] = Request(x)
=============================================================================
