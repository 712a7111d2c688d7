------------------------- MODULE SubprocessChannel -------------------------
(***************************************************************************)
(* pkg/channel/subprocess: a Channel on the stdin and stdout of a local    *)
(* process.                                                                *)
(*                                                                         *)
(* Beside the user of the Channel there are the goroutine that Start       *)
(* leaves behind to reap the child, and the one by which os/exec kills it  *)
(* when the context of Start ends.  The operators are the steps of all of  *)
(* them; the module that uses the Channel takes them into its own steps.   *)
(***************************************************************************)
EXTENDS Naturals

CONSTANT MaxOut   \* bound: pieces of output of one child

VARIABLES
    child,      \* the process
    heir,       \* does a process the child has started hold its stdout open?
    signals,    \* what it was sent
    graceful,   \* history: was it only killed after its chances to exit?
    ends,       \* the pipe ends that are open on this side
    output,     \* pieces of output in the pipe, and how many are to come
    closing     \* progress of Close

SubprocessInit ==
    /\ child = "none" /\ heir = FALSE /\ signals = {} /\ graceful = TRUE
    /\ ends = {} /\ output = [unread |-> 0, left |-> MaxOut] /\ closing = "no"

SubprocessTypeOK ==
    /\ child \in {"none", "running", "zombie", "collected", "exited"}
    /\ heir \in BOOLEAN /\ graceful \in BOOLEAN
    /\ signals \subseteq {"TERM", "KILL"} /\ ends \subseteq {"stdin", "stdout"}
    /\ output \in [unread : 0..MaxOut, left : 0..MaxOut]
    /\ closing \in {"no", "grace", "killGrace", "wait", "drained", "done"}

\* Start.  A context that has ended, or a command that is not there, and both
\* pipes are closed again.
Fresh(process, open) ==
    /\ child' = process /\ heir' = FALSE /\ signals' = {} /\ graceful' = TRUE
    /\ ends' = open /\ output' = [unread |-> 0, left |-> MaxOut] /\ closing' = "no"
Start == Fresh("running", {"stdin", "stdout"})
StartFails == Fresh("none", {})

-----------------------------------------------------------------------------
(* The child (not part of the repository), the kernel, and os/exec.        *)

ChildWrites ==
    /\ child = "running" /\ output.left > 0
    /\ output' = [unread |-> output.unread + 1, left |-> output.left - 1]
    /\ UNCHANGED <<child, heir, signals, graceful, ends, closing>>

\* For any reason at any time, or never: on EOF, on SIGTERM, of its own.
ChildExits ==
    /\ child = "running"
    /\ child' = "zombie" /\ heir' \in BOOLEAN
    /\ UNCHANGED <<signals, graceful, ends, output, closing>>

KernelKills ==
    /\ child = "running" /\ "KILL" \in signals
    /\ child' = "zombie" /\ heir' \in BOOLEAN
    /\ UNCHANGED <<signals, graceful, ends, output, closing>>

\* exec.CommandContext: no EOF and no SIGTERM come first.
WatchCtx ==
    /\ child \in {"running", "zombie"} /\ "KILL" \notin signals
    /\ signals' = signals \cup {"KILL"}
    /\ graceful' = (graceful /\ "TERM" \in signals)
    /\ UNCHANGED <<child, heir, ends, output, closing>>

-----------------------------------------------------------------------------
(* The goroutine of Start: cmd.Wait, then close(exited).  Wait does not    *)
(* care whether all output has been read when it closes the pipes.         *)

Reap ==
    /\ child = "zombie"
    /\ child' = "collected"
    /\ UNCHANGED <<heir, signals, graceful, ends, output, closing>>

WaitLeavesStdout == ends \cap {"stdout"}
WaitCloses == {}
Exited ==
    /\ child = "collected"
    /\ child' = "exited"
    /\ ends' = WaitCloses
    /\ UNCHANGED <<heir, signals, graceful, output, closing>>

-----------------------------------------------------------------------------
(* Read and Write.                                                         *)

Read ==
    /\ "stdout" \in ends /\ output.unread > 0
    /\ output' = [output EXCEPT !.unread = @ - 1]
    /\ UNCHANGED <<child, heir, signals, graceful, ends, closing>>

\* io.EOF when nobody has the other end, os.ErrClosed when this one is closed.
AtEOF == "stdout" \in ends /\ output.unread = 0 /\ child # "running" /\ ~heir
ReadFails == AtEOF \/ "stdout" \notin ends

\* Can bytes reach the child, and an answer come back?
Connected == child = "running" /\ ends = {"stdin", "stdout"}

-----------------------------------------------------------------------------
(* Close.  The second call of closeOnce does nothing.                      *)

CloseStdin ==
    /\ closing = "no"
    /\ ends' = ends \ {"stdin"}
    /\ closing' = "grace"
    /\ UNCHANGED <<child, heir, signals, graceful, output>>

SeesExit ==
    /\ closing \in {"grace", "killGrace", "wait"} /\ child = "exited"
    /\ closing' = "drained"
    /\ UNCHANGED <<child, heir, signals, graceful, ends, output>>

\* closeGrace is over.
Terminate ==
    /\ closing = "grace"
    /\ signals' = signals \cup {"TERM"}
    /\ closing' = "killGrace"
    /\ UNCHANGED <<child, heir, graceful, ends, output>>

\* killGrace is over.
TermIsEnough == signals \cup {"TERM"}
Escalated == signals \cup {"KILL"}
Kill ==
    /\ closing = "killGrace"
    /\ signals' = Escalated
    /\ closing' = "wait"
    /\ UNCHANGED <<child, heir, graceful, ends, output>>

CloseStdout ==
    /\ closing = "drained"
    /\ ends' = ends \ {"stdout"}
    /\ closing' = "done"
    /\ UNCHANGED <<child, heir, signals, graceful, output>>

SubprocessClose == CloseStdin \/ SeesExit \/ Terminate \/ Kill \/ CloseStdout
SubprocessInternal == ChildWrites \/ ChildExits \/ KernelKills \/ Reap \/ Exited

\* Nothing of it is left: the child has been waited for, the pipes are closed.
SubprocessGone == child \in {"none", "exited"} /\ ends = {}
=============================================================================
