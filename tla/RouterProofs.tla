---------------------------- MODULE RouterProofs ----------------------------
(***************************************************************************)
(* Theorems about Router, for any operations and probers, any number of    *)
(* chunks per request, and any failures.                                   *)
(***************************************************************************)
EXTENDS Router, SequenceTheorems, TLAPS

-----------------------------------------------------------------------------
(* The inductive invariant, of each caller.                                *)

\* How much of its request a caller has staged, where it is in callOneShot.
StagedAt(x) ==
    /\ pc[x] \in {"new", "agent_writer"} => staged[x] = 0
    /\ pc[x] = "stage" => staged[x] < Chunks
    /\ pc[x] = "invoke" => staged[x] = Chunks

\* What is staged is the beginning of the caller's own request.
TmpAt(x) ==
    pc[x] \in {"stage", "invoke"} /\ staged[x] > 0 =>
        tmp[x] = [i \in 1..staged[x] |-> Chunk(x, i)]

\* Only an operation that is idempotent goes from the agent to the shell.
MarkAt(o) == pc[o] = "mark" => class[o] = "idempotent"

\* Nothing has run before the agent was invoked; nothing has run in the shell,
\* and by an operation that is not idempotent nowhere, before it returns.
BeforeAgent == {"new", "open_shell", "agent_writer", "shell_writer", "stage", "invoke"}
RanAt(o) ==
    /\ pc[o] \in BeforeAgent => ranByAgent[o] = 0
    /\ pc[o] # "done" => ranByShell[o] = 0 /\ res[o] = "none"
    /\ pc[o] # "done" /\ class[o] # "idempotent" => ranByAgent[o] = 0

\* NonIdempotentOnce and FallbackIsTransparent, for one operation.
OnceAt(o) == class[o] # "idempotent" => ranByAgent[o] + ranByShell[o] <= 1
ResultAt(o) ==
    /\ class[o] = "idempotent" => res[o] # "agent_error"
    /\ res[o] = "agent_ok" => ranByAgent[o] = 1
    /\ res[o] = "shell_ok" => ranByShell[o] = 1

OpAt(o) == MarkAt(o) /\ RanAt(o) /\ OnceAt(o) /\ ResultAt(o)

IInv ==
    /\ TypeOK
    /\ \A x \in Callers : StagedAt(x) /\ TmpAt(x)
    /\ \A o \in Ops : OpAt(o)

Places == {"new", "open_shell", "agent_writer", "shell_writer", "stage",
           "invoke", "answered", "mark", "shell", "done"}
Outcomes == {"none", "nil", "agent_ok", "agent_error", "shell_ok", "shell_error"}

-----------------------------------------------------------------------------
(* The operators of the model.                                             *)

\* route begins with one of two backends, or with the writer of one.
LEMMA FirstGoes ==
    ASSUME TypeOK, NEW x \in Ops
    PROVE  First(x) \in {"stage", "shell", "agent_writer", "open_shell"}
  BY DEF First, TypeOK

\* An agent that fails sends its caller to the mark or back with an error: the
\* first for Probe and for idempotent operations, the second for the others.
LEMMA AgentFailedGoes ==
    ASSUME NEW x \in Callers, AgentFailed(x)
    PROVE  \/ /\ pc' = [pc EXCEPT ![x] = "mark"] /\ res' = res
              /\ x \in Ops => class[x] = "idempotent"
           \/ /\ pc' = [pc EXCEPT ![x] = "done"]
              /\ res' = [res EXCEPT ![x] = "agent_error"]
              /\ x \in Ops /\ class[x] # "idempotent"
  BY CallersAssumption DEF AgentFailed, FallsBack, Goto, Return

\* Chunks of the requests of callers are what the files hold.
LEMMA ChunkType ==
    /\ <<>> \in Seq(Callers \X (1..Chunks))
    /\ \A s \in Seq(Callers \X (1..Chunks)), x \in Callers, i \in 1..Chunks :
          Append(s, Chunk(x, i)) \in Seq(Callers \X (1..Chunks))
  <1>1. \A x \in Callers, i \in 1..Chunks : Chunk(x, i) \in Callers \X (1..Chunks)
    BY DEF Chunk
  <1>2. \A T : /\ <<>> \in Seq(T)
               /\ \A s \in Seq(T), e \in T : Append(s, e) \in Seq(T)
    OBVIOUS
  <1> QED BY <1>1, <1>2

\* One more chunk makes a longer beginning of the request.
LEMMA ChunkAppended ==
    ASSUME NEW x \in Callers, NEW n \in Nat
    PROVE  Append([i \in 1..n |-> Chunk(x, i)], Chunk(x, n + 1))
             = [i \in 1..(n + 1) |-> Chunk(x, i)]
  <1> DEFINE s == [i \in 1..n |-> Chunk(x, i)]
             t == [i \in 1..(n + 1) |-> Chunk(x, i)]
             T == {Chunk(x, i) : i \in Nat}
  <1>1. s \in Seq(T) /\ t \in Seq(T) /\ Len(s) = n /\ Len(t) = n + 1
    OBVIOUS
  <1>2. Append(s, Chunk(x, n + 1)) \in Seq(T) /\ Len(Append(s, Chunk(x, n + 1))) = n + 1
    BY <1>1
  <1>3. \A i \in 1..(n + 1) : Append(s, Chunk(x, n + 1))[i] = t[i]
    BY <1>1
  <1> HIDE DEF s, t, T
  <1>4. Append(s, Chunk(x, n + 1)) = t
    BY <1>1, <1>2, <1>3, SeqEqual
  <1> QED BY <1>4 DEF s, t

-----------------------------------------------------------------------------
(* Every step keeps the types, and leaves the other callers alone.         *)

\* The types: callOneShot stages no more chunks than the request has.
LEMMA TypeStep ==
    ASSUME TypeOK, NEW x \in Callers, StagedAt(x), Step(x)
    PROVE  TypeOK'
  <1> DEFINE Files == Seq(Callers \X (1..Chunks))
  <1>1. /\ pc \in [Callers -> Places] /\ res \in [Callers -> Outcomes]
        /\ tmp \in [Callers -> Files] /\ staged \in [Callers -> 0..Chunks]
        /\ ranByAgent \in [Ops -> Nat] /\ ranByShell \in [Ops -> Nat]
        /\ healthy \in BOOLEAN
    BY DEF TypeOK, Places, Outcomes
  <1>2. pc' \in [Callers -> Places]
    BY <1>1, FirstGoes, AgentFailedGoes
    DEF Places, Step, Goto, Return, Begin, OpenShell, CloseAgentWriter, CloseShellWriter,
        Stage, StageFails, Invoke, InvokeRejected, InvokeLost, MarkUnhealthy, AfterMark,
        ShellRuns, ShellFails, ProbeShell, MarkHealthy
  <1>3. res' \in [Callers -> Outcomes]
    BY <1>1, AgentFailedGoes
    DEF Outcomes, Step, Goto, Return, Begin, OpenShell, CloseAgentWriter, CloseShellWriter,
        Stage, StageFails, Invoke, InvokeRejected, InvokeLost, MarkUnhealthy, AfterMark,
        ShellRuns, ShellFails, ProbeShell, MarkHealthy
  <1>4. staged' \in [Callers -> 0..Chunks]
    <2>1. CASE Stage(x)
      BY <1>1, <2>1, ChunksAssumption DEF Stage, StagedAt
    <2>2. CASE UNCHANGED staged
      BY <1>1, <2>2
    <2> QED BY <2>1, <2>2 DEF Step, Begin, OpenShell, CloseAgentWriter, CloseShellWriter,
        StageFails, Invoke, InvokeRejected, InvokeLost, MarkUnhealthy,
        ShellRuns, ShellFails, ProbeShell, MarkHealthy
  <1>5. tmp' \in [Callers -> Files]
    <2>1. CASE Stage(x)
      <3>1. staged[x] + 1 \in 1..Chunks
        BY <1>1, <2>1, ChunksAssumption DEF Stage, StagedAt
      <3>2. (IF staged[x] = 0 THEN <<>> ELSE tmp[x]) \in Files
        BY <1>1, ChunkType
      <3>3. Append(IF staged[x] = 0 THEN <<>> ELSE tmp[x], Chunk(x, staged[x] + 1)) \in Files
        BY <3>1, <3>2, ChunkType
      <3> HIDE DEF Files
      <3> QED BY <1>1, <2>1, <3>3 DEF Stage, TmpOf
    <2>2. CASE tmp' = [tmp EXCEPT ![x] = <<>>]
      BY <1>1, <2>2, ChunkType
    <2>3. CASE UNCHANGED tmp
      BY <1>1, <2>3
    <2> QED BY <2>1, <2>2, <2>3 DEF Step, Begin, OpenShell, CloseAgentWriter,
        CloseShellWriter, StageFails, Invoke, InvokeRejected, InvokeLost, MarkUnhealthy,
        ShellRuns, ShellFails, ProbeShell, MarkHealthy, TmpOf
  <1>6. ranByAgent' \in [Ops -> Nat]
    <2>1. CASE InvokeLost(x)
      BY <1>1, <2>1 DEF InvokeLost
    <2>2. CASE x \in Ops /\ ranByAgent' = [ranByAgent EXCEPT ![x] = @ + 1]
      BY <1>1, <2>2
    <2>3. CASE UNCHANGED ranByAgent
      BY <1>1, <2>3
    <2> QED BY <2>1, <2>2, <2>3 DEF Step, Begin, OpenShell, CloseAgentWriter,
        CloseShellWriter, Stage, StageFails, Invoke, InvokeRejected, MarkUnhealthy,
        ShellRuns, ShellFails, ProbeShell, MarkHealthy
  <1>7. ranByShell' \in [Ops -> Nat]
    <2>1. CASE x \in Ops /\ ranByShell' = [ranByShell EXCEPT ![x] = @ + 1]
      BY <1>1, <2>1
    <2>2. CASE UNCHANGED ranByShell
      BY <1>1, <2>2
    <2> QED BY <2>1, <2>2 DEF Step, Begin, OpenShell, CloseAgentWriter,
        CloseShellWriter, Stage, StageFails, Invoke, InvokeRejected, InvokeLost,
        MarkUnhealthy, ShellRuns, ShellFails, ProbeShell, MarkHealthy
  <1>8. healthy' \in BOOLEAN /\ class' = class /\ installed' = installed
    BY <1>1
    DEF Step, Begin, OpenShell, CloseAgentWriter, CloseShellWriter, Stage, StageFails,
        Invoke, InvokeRejected, InvokeLost, MarkUnhealthy, ShellRuns, ShellFails,
        ProbeShell, MarkHealthy
  <1> QED BY <1>2, <1>3, <1>4, <1>5, <1>6, <1>7, <1>8 DEF TypeOK, Places, Outcomes

\* A caller moves only itself, and touches no temporary file but its own.
LEMMA StepIsLocal ==
    ASSUME TypeOK, NEW x \in Callers, Step(x)
    PROVE  /\ class' = class
           /\ \A y \in Callers \ {x} :
                 /\ pc'[y] = pc[y] /\ res'[y] = res[y]
                 /\ staged'[y] = staged[y] /\ tmp'[y] = tmp[y]
           /\ \A o \in Ops \ {x} :
                 ranByAgent'[o] = ranByAgent[o] /\ ranByShell'[o] = ranByShell[o]
  <1>1. class' = class
    BY DEF Step, Begin, OpenShell, CloseAgentWriter, CloseShellWriter, Stage, StageFails,
        Invoke, InvokeRejected, InvokeLost, MarkUnhealthy, ShellRuns, ShellFails,
        ProbeShell, MarkHealthy
  <1>2. \A y \in Callers \ {x} : pc'[y] = pc[y] /\ res'[y] = res[y]
    BY AgentFailedGoes
    DEF TypeOK, Step, Goto, Return, Begin, OpenShell, CloseAgentWriter, CloseShellWriter,
        Stage, StageFails, Invoke, InvokeRejected, InvokeLost, MarkUnhealthy, AfterMark,
        ShellRuns, ShellFails, ProbeShell, MarkHealthy
  <1>3. \A y \in Callers \ {x} : staged'[y] = staged[y] /\ tmp'[y] = tmp[y]
    BY DEF TypeOK, Step, Begin, OpenShell, CloseAgentWriter, CloseShellWriter, Stage,
        StageFails, Invoke, InvokeRejected, InvokeLost, MarkUnhealthy, ShellRuns,
        ShellFails, ProbeShell, MarkHealthy, TmpOf
  <1>4. \A o \in Ops \ {x} :
           ranByAgent'[o] = ranByAgent[o] /\ ranByShell'[o] = ranByShell[o]
    BY DEF TypeOK, Step, Begin, OpenShell, CloseAgentWriter, CloseShellWriter, Stage,
        StageFails, Invoke, InvokeRejected, InvokeLost, MarkUnhealthy, ShellRuns,
        ShellFails, ProbeShell, MarkHealthy
  <1> QED BY <1>1, <1>2, <1>3, <1>4

-----------------------------------------------------------------------------
(* Every step keeps the invariant of the caller that takes it.             *)

\* Staging: the loop of callOneShot, and nobody else in the file.
LEMMA StagingStep ==
    ASSUME TypeOK, NEW x \in Callers, StagedAt(x), TmpAt(x), Step(x)
    PROVE  StagedAt(x)' /\ TmpAt(x)'
  <1>1. /\ pc[x] \in Places /\ staged[x] \in 0..Chunks
        /\ pc \in [Callers -> Places] /\ staged \in [Callers -> 0..Chunks]
        /\ DOMAIN tmp = Callers
    BY DEF TypeOK, Places
  <1>2. CASE Stage(x)
    <2>1. staged'[x] = staged[x] + 1 /\ staged[x] < Chunks
      BY <1>1, <1>2 DEF Stage, StagedAt
    <2>2. pc'[x] = IF staged'[x] = Chunks THEN "invoke" ELSE "stage"
      BY <1>1, <1>2, <2>1 DEF Stage, LastChunk, Goto
    <2>3. (IF staged[x] = 0 THEN <<>> ELSE tmp[x]) = [i \in 1..staged[x] |-> Chunk(x, i)]
      <3>1. CASE staged[x] = 0
        BY <3>1
      <3>2. CASE staged[x] # 0
        BY <1>1, <1>2, <3>2 DEF Stage, TmpAt
      <3> QED BY <3>1, <3>2
    <2>4. tmp'[x] = Append(IF staged[x] = 0 THEN <<>> ELSE tmp[x], Chunk(x, staged[x] + 1))
      BY <1>1, <1>2 DEF Stage, TmpOf
    <2>5. tmp'[x] = [i \in 1..staged'[x] |-> Chunk(x, i)]
      BY <1>1, <2>1, <2>3, <2>4, ChunkAppended
    <2> QED BY <1>1, <2>1, <2>2, <2>5, ChunksAssumption DEF StagedAt, TmpAt
  <1>3. CASE /\ staged' = staged /\ tmp' = tmp
             /\ \/ pc'[x] = pc[x]
                \/ pc'[x] \notin {"new", "agent_writer", "stage", "invoke"}
                \/ pc[x] \in {"new", "agent_writer"} /\ pc'[x] \in {"agent_writer", "stage"}
    BY <1>1, <1>3, ChunksAssumption DEF StagedAt, TmpAt
  <1>4. CASE pc'[x] \in {"answered", "mark", "done"}
    BY <1>4 DEF StagedAt, TmpAt
  <1>5. CASE Begin(x)
    BY <1>1, <1>3, <1>5, FirstGoes DEF Begin, Goto
  <1>6. CASE OpenShell(x) \/ CloseAgentWriter(x) \/ CloseShellWriter(x) \/ ProbeShell(x)
    BY <1>1, <1>3, <1>6
    DEF OpenShell, CloseAgentWriter, CloseShellWriter, ProbeShell, Goto, Return
  <1>7. CASE StageFails(x) \/ InvokeRejected(x) \/ InvokeLost(x)
    BY <1>1, <1>4, <1>7, AgentFailedGoes DEF StageFails, InvokeRejected, InvokeLost
  <1>8. CASE Invoke(x) \/ ShellRuns(x) \/ ShellFails(x) \/ MarkHealthy(x)
    BY <1>1, <1>4, <1>8 DEF Invoke, ShellRuns, ShellFails, MarkHealthy, Goto, Return
  <1>9. CASE MarkUnhealthy(x)
    BY <1>1, <1>3, <1>9 DEF MarkUnhealthy, AfterMark, Goto, Return
  <1> QED BY <1>2, <1>5, <1>6, <1>7, <1>8, <1>9 DEF Step

\* Effects and results: what has run is counted where an operation returns, or
\* on its way from the agent to the shell, where only idempotent ones go.
LEMMA OpStep ==
    ASSUME TypeOK, NEW x \in Ops, OpAt(x), Step(x)
    PROVE  OpAt(x)'
  <1>1. /\ x \in Callers /\ x \notin Probers
        /\ pc \in [Callers -> Places] /\ res \in [Callers -> Outcomes]
        /\ ranByAgent \in [Ops -> Nat] /\ ranByShell \in [Ops -> Nat]
        /\ class[x] \in Classes /\ class' = class
    BY CallersAssumption, StepIsLocal DEF TypeOK, Places, Outcomes, Callers
  <1> USE DEF OpAt, MarkAt, RanAt, OnceAt, ResultAt, BeforeAgent, Goto, Return
  <1>2. CASE Begin(x)
    BY <1>1, <1>2, FirstGoes DEF Begin
  <1>3. CASE OpenShell(x)
    BY <1>1, <1>3 DEF OpenShell
  <1>4. CASE CloseAgentWriter(x) \/ CloseShellWriter(x)
    BY <1>1, <1>4 DEF CloseAgentWriter, CloseShellWriter
  <1>5. CASE Stage(x)
    BY <1>1, <1>5 DEF Stage
  <1>6. CASE StageFails(x)
    BY <1>1, <1>6, AgentFailedGoes DEF StageFails
  <1>7. CASE Invoke(x)
    BY <1>1, <1>7 DEF Invoke
  <1>8. CASE InvokeRejected(x)
    BY <1>1, <1>8, AgentFailedGoes DEF InvokeRejected
  <1>9. CASE InvokeLost(x)
    <2>1. /\ ranByAgent[x] = 0 /\ ranByShell[x] = 0 /\ res[x] = "none"
          /\ ranByAgent'[x] = 1 /\ ranByShell' = ranByShell
      BY <1>1, <1>9 DEF InvokeLost
    <2> QED BY <1>1, <1>9, <2>1, AgentFailedGoes DEF InvokeLost
  <1>10. CASE MarkUnhealthy(x)
    BY <1>1, <1>10 DEF MarkUnhealthy, AfterMark
  <1>11. CASE ShellRuns(x)
    <2>1. ranByShell'[x] = 1 /\ ranByAgent' = ranByAgent /\ pc'[x] = "done"
      BY <1>1, <1>11 DEF ShellRuns
    <2>2. res'[x] \in {"shell_ok", "shell_error"}
      BY <1>1, <1>11 DEF ShellRuns
    <2>3. class[x] # "idempotent" => ranByAgent[x] = 0
      BY <1>11 DEF ShellRuns
    <2> QED BY <1>1, <2>1, <2>2, <2>3
  <1>12. CASE ShellFails(x)
    BY <1>1, <1>12 DEF ShellFails
  <1>13. CASE ProbeShell(x) \/ MarkHealthy(x)
    BY <1>1, <1>13 DEF ProbeShell, MarkHealthy
  <1> QED BY <1>2, <1>3, <1>4, <1>5, <1>6, <1>7, <1>8, <1>9, <1>10, <1>11, <1>12, <1>13
      DEF Step

-----------------------------------------------------------------------------
(* The theorems.                                                           *)

\* Nothing is staged, and nothing has run, to begin with.
LEMMA InitIInv == Init => IInv
  <1> SUFFICES ASSUME Init PROVE IInv
    OBVIOUS
  <1>1. TypeOK
    <2>1. tmp \in [Callers -> Seq(Callers \X (1..Chunks))]
      BY ChunkType DEF Init
    <2>2. /\ pc \in [Callers -> Places] /\ res \in [Callers -> Outcomes]
          /\ staged \in [Callers -> 0..Chunks]
      BY ChunksAssumption DEF Init, Places, Outcomes
    <2>3. /\ ranByAgent \in [Ops -> Nat] /\ ranByShell \in [Ops -> Nat]
          /\ class \in [Ops -> Classes] /\ healthy \in BOOLEAN /\ installed \in BOOLEAN
      BY DEF Init
    <2> QED BY <2>1, <2>2, <2>3 DEF TypeOK, Places, Outcomes
  <1>2. \A x \in Callers : StagedAt(x) /\ TmpAt(x)
    BY DEF Init, StagedAt, TmpAt
  <1>3. \A o \in Ops : OpAt(o)
    BY DEF Init, OpAt, MarkAt, RanAt, OnceAt, ResultAt, Callers
  <1> QED BY <1>1, <1>2, <1>3 DEF IInv

\* The invariant is inductive.
LEMMA NextIInv == IInv /\ [Next]_vars => IInv'
  <1> SUFFICES ASSUME IInv, [Next]_vars PROVE IInv'
    OBVIOUS
  <1>1. ASSUME NEW x \in Callers, Step(x)
        PROVE  IInv'
    <2>1. TypeOK'
      BY <1>1, TypeStep DEF IInv
    <2>2. \A y \in Callers : StagedAt(y)' /\ TmpAt(y)'
      <3>1. StagedAt(x)' /\ TmpAt(x)'
        BY <1>1, StagingStep DEF IInv
      <3>2. \A y \in Callers \ {x} : StagedAt(y)' /\ TmpAt(y)'
        BY <1>1, StepIsLocal DEF IInv, StagedAt, TmpAt
      <3> QED BY <3>1, <3>2
    <2>3. \A o \in Ops : OpAt(o)'
      <3>1. x \in Ops => OpAt(x)'
        BY <1>1, OpStep DEF IInv
      <3>2. \A o \in Ops \ {x} : OpAt(o)'
        <4> SUFFICES ASSUME NEW o \in Ops \ {x} PROVE OpAt(o)'
          OBVIOUS
        <4>1. /\ pc'[o] = pc[o] /\ res'[o] = res[o] /\ class' = class
              /\ ranByAgent'[o] = ranByAgent[o] /\ ranByShell'[o] = ranByShell[o]
          BY <1>1, StepIsLocal DEF IInv, Callers
        <4>2. OpAt(o)
          BY DEF IInv
        <4> QED BY <4>1, <4>2 DEF OpAt, MarkAt, RanAt, OnceAt, ResultAt
      <3> QED BY <3>1, <3>2
    <2> QED BY <2>1, <2>2, <2>3 DEF IInv
  <1>2. CASE AgentChanges \/ UNCHANGED vars
    <2>1. /\ UNCHANGED <<healthy, pc, res, class, staged, tmp, ranByAgent, ranByShell>>
          /\ installed' \in BOOLEAN
      BY <1>2 DEF AgentChanges, vars, IInv, TypeOK
    <2> QED BY <2>1 DEF IInv, TypeOK, StagedAt, TmpAt, OpAt, MarkAt, RanAt, OnceAt, ResultAt
  <1> QED BY <1>1, <1>2 DEF Next

\* The invariant gives the four properties.
LEMMA IInvImplies ==
    IInv => TypeOK /\ NonIdempotentOnce /\ FallbackIsTransparent /\ RequestIntact
  <1> SUFFICES ASSUME IInv
               PROVE  NonIdempotentOnce /\ FallbackIsTransparent /\ RequestIntact
    BY DEF IInv
  <1>1. NonIdempotentOnce /\ FallbackIsTransparent
    BY DEF IInv, OpAt, OnceAt, ResultAt, NonIdempotentOnce, FallbackIsTransparent
  <1>2. RequestIntact
    <2> SUFFICES ASSUME NEW x \in Callers, pc[x] = "invoke"
                 PROVE  tmp[x] = Request(x)
      BY DEF RequestIntact, TmpOf
    <2>1. staged[x] = Chunks /\ staged[x] > 0
      BY ChunksAssumption DEF IInv, StagedAt
    <2> QED BY <2>1 DEF IInv, TmpAt, Request
  <1> QED BY <1>1, <1>2

\* The types of every variable: an operation or a probe of the router is always
\* at one of the places of route, callOneShot and Probe.
THEOREM TypeCorrect == Spec => []TypeOK
  BY InitIInv, NextIInv, IInvImplies, PTL DEF Spec

\* route never lets a Run, a Remove or the data of a writer take effect twice,
\* whatever fails, is lost, or happens to the agent and its mark meanwhile.
THEOREM RunsOnce == Spec => []NonIdempotentOnce
  BY InitIInv, NextIInv, IInvImplies, PTL DEF Spec

\* The fallback of route hides the agent's failures from idempotent operations,
\* and success is reported of what has taken effect, by the backend named.
THEOREM FallbackTransparent == Spec => []FallbackIsTransparent
  BY InitIInv, NextIInv, IInvImplies, PTL DEF Spec

\* callOneShot starts the agent on the whole request of its own caller.
THEOREM RequestsIntact == Spec => []RequestIntact
  BY InitIInv, NextIInv, IInvImplies, PTL DEF Spec
=============================================================================
