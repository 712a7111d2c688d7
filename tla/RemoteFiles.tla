---------------------------- MODULE RemoteFiles ----------------------------
(***************************************************************************)
(* The file operations as the router offers them: some begin at the agent  *)
(* (the handlers of cmd/ptyrelay-agent, reached by one framed command each) *)
(* and fall back to ShellBackend, the others are ShellBackend's.           *)
(*                                                                         *)
(* One run of the agent is one step, as a framed command is one step of    *)
(* ShellFiles.  It may be killed inside, or its answer be lost.            *)
(***************************************************************************)
EXTENDS ShellFiles

CONSTANT MaxRouted   \* bound: operations that begin at the agent

VARIABLES
    routed,    \* the operations that begin at the agent
    turn       \* those that are still there

agent == <<routed, turn>>

RemoteInit ==
    /\ Init
    /\ routed \in SUBSET {c \in Calls : Kind(c) # "probe"}
    /\ Cardinality(routed) <= MaxRouted
    /\ turn = routed

AtAgent(c) == c \in turn /\ pc[c] = "new"

-----------------------------------------------------------------------------
(* The handlers.  Unlike `rm -f', os.Remove wants a file; unlike `find',   *)
(* os.ReadDir is content with an empty directory.                          *)

CanServe(c) ==
    CASE Kind(c) \in {"read", "rename"} -> fs[Path(c)].there
      [] Kind(c) = "remove" -> fs[Path(c)].there /\ Path(c) \notin Dirs
      [] Kind(c) = "write"  -> Path(c) \notin Dirs
      [] Kind(c) = "list"   -> TRUE
Served(c) ==
    CASE Kind(c) = "write" -> [fs EXCEPT ![Path(c)] = File(Whole(c))]
      [] Kind(c) \in {"rename", "remove"} -> Done(c)
      [] OTHER -> fs

AgentAnswers(c) ==
    /\ AtAgent(c) /\ ~dead /\ CanServe(c)
    /\ fs' = Served(c)
    /\ got' = IF Kind(c) = "read" THEN [got EXCEPT ![c] = fs[Path(c)]] ELSE got
    /\ Return(c, "ok")
    /\ turn' = turn \ {c}
    /\ UNCHANGED <<bk, request, staged, temp, dead, routed>>

\* route: only a Remove is not Idempotent.
NoFallback(c) == Kind(c) = "remove"
AgentFailed(c) ==
    /\ turn' = turn \ {c}
    /\ IF NoFallback(c) THEN Return(c, "error") ELSE UNCHANGED <<pc, res>>
    /\ UNCHANGED <<bk, request, staged, got, temp, routed>>

\* The request cannot be staged, there is no agent, or the handler fails: the
\* path is as it was.
AgentRefuses(c) ==
    /\ AtAgent(c)
    /\ dead \/ ~CanServe(c) \/ "exit" \in Faults
    /\ AgentFailed(c)
    /\ UNCHANGED <<fs, dead>>

\* Killed at any point of the handler, or not heard: before Rename or when all
\* was done.
KilledInPlace(c) ==
    {fs} \cup (IF CanServe(c) THEN {Served(c)} ELSE {})
         \cup (IF Kind(c) = "write" THEN {[fs EXCEPT ![Path(c)] = File(Sized(c, 1))]} ELSE {})
KilledAt(c) == {fs} \cup (IF CanServe(c) THEN {Served(c)} ELSE {})
AgentCutOff(c) ==
    /\ AtAgent(c) /\ ~dead
    /\ fs' \in KilledAt(c)
    /\ \/ "cancel" \in Faults /\ UNCHANGED dead
       \/ "lost" \in Faults /\ dead' = TRUE
    /\ AgentFailed(c)

-----------------------------------------------------------------------------
RemoteNext ==
    \/ \E c \in Calls : AgentAnswers(c) \/ AgentRefuses(c) \/ AgentCutOff(c)
    \/ (\E c \in Calls \ turn : Step(c)) /\ UNCHANGED agent
    \/ Close /\ UNCHANGED agent

remoteVars == <<vars, agent>>
RemoteSpec == RemoteInit /\ [][RemoteNext]_remoteVars

-----------------------------------------------------------------------------
(* Correctness.                                                            *)

\* Every variable has its type.
RemoteTypeOK ==
    /\ TypeOK
    /\ routed \subseteq Calls /\ turn \subseteq routed

\* The operations implement AbstractFiles: a path never shows part of a Write,
\* a damaged chunk, or chunks of two Writes; a Read returns what the path held
\* at one instant; an operation that reports success has taken effect, whichever
\* backend did it; and only one that is Idempotent takes effect again after the
\* answer of the agent was lost.
Abs == INSTANCE AbstractFiles WITH
    request <- [c \in Calls |-> [kind |-> Kind(c), path |-> Path(c),
                                 to |-> request[c].to, data |-> File(Whole(c)),
                                 again |-> c \in routed /\ Kind(c) # "remove"]],
    files <- fs,
    state <- [c \in Calls |-> AbsState(c)]
ImplementsFiles == Abs!Spec
=============================================================================
