----------------------------- MODULE Connection -----------------------------
(***************************************************************************)
(* The connection of the two programs to the remote: dial of the command   *)
(* (cmd/ptyrelay/connect.go) and dialFromConfig, dial and run of the MCP   *)
(* server (cmd/ptyrelay-mcp), on top of the channels.                      *)
(*                                                                         *)
(* The command dials, does one thing and closes.  The server takes         *)
(* requests one after the other and dials when the first tool is called.   *)
(* Both run one goroutine; the session's reader and the steps of the       *)
(* channel are beside it.  A call of a backend is one framed command here: *)
(* it is written, and answered or not.  A Write of the shell backend that  *)
(* has failed removes its temporary file by one more command, the cleanup, *)
(* which is not bound by the context of the call.                          *)
(***************************************************************************)
EXTENDS Naturals, Sequences

CONSTANTS
    Programs, Transports,   \* subsets of {"cli", "mcp"} and {"exec", "tmux"}
    ReadCap,                \* capacity of readCh
    MaxReqs,                \* bound: requests to the server
    MaxOut, MaxPane         \* bounds of the channels

ASSUME ConnectionAssumption ==
    /\ Programs \subseteq {"cli", "mcp"} /\ Transports \subseteq {"exec", "tmux"}
    /\ ReadCap \in Nat \ {0} /\ MaxReqs \in Nat /\ MaxOut \in Nat /\ MaxPane \in Nat

VARIABLES
    program, transport, opts,     \* which program, and its options
    pc, sent, reqs,               \* its goroutine; is the command written?
    be,                           \* the Backend of the connection, if there is one
    ctx, expired,                 \* the context of the dial; has it timed out?
    dead, reader,                 \* the session and its reader
    readerDone, chunks,           \* has Close cancelled readerCtx?  Chunks in readCh
    full,                         \* does the channel take no bytes from a command?
    child, heir, signals, graceful, ends, output, closing,
    pane, pipe, toggles, out, from, log, there, attach, pos, undone

X == INSTANCE SubprocessChannel
T == INSTANCE TmuxChannel

prog == <<program, transport, opts>>
main == <<pc, sent, reqs, be>>
sess == <<dead, reader, readerDone, chunks>>
proc == <<child, heir, signals, graceful, ends, output, closing>>
tmux == <<pane, pipe, toggles, out, from, log, there, attach, pos, undone>>
chan == <<proc, tmux>>
vars == <<prog, main, ctx, expired, sess, full, chan>>

Commands == {"install", "home", "probe", "tool", "cleanup"}

\* With noAgent, nobody looks at the other options.
Init ==
    /\ program \in Programs /\ transport \in Transports
    /\ opts \in [noAgent : BOOLEAN, path : BOOLEAN, install : BOOLEAN]
    /\ opts.install => program = "cli"
    /\ opts.noAgent => ~opts.path /\ ~opts.install
    /\ pc = (IF program = "mcp" THEN "idle" ELSE "dial")
    /\ sent = FALSE /\ reqs = 0 /\ be = "none"
    /\ ctx = "none" /\ expired = FALSE /\ dead = FALSE /\ reader = "none"
    /\ readerDone = FALSE /\ chunks = 0 /\ full = FALSE
    /\ X!SubprocessInit /\ T!TmuxInit

Goto(l) == pc' = l /\ UNCHANGED <<sent, reqs, be>>

-----------------------------------------------------------------------------
(* run and handle of the server: a notification gets no reply.             *)

Request ==
    /\ pc = "idle" /\ reqs < MaxReqs
    /\ reqs' = reqs + 1
    /\ pc' \in {"idle", "reply", IF be = "none" THEN "dial" ELSE "tool"}
    /\ UNCHANGED <<prog, sent, be, ctx, expired, sess, full, chan>>

\* The deferred close of run, if something was dialed.
Ends == IF be = "none" THEN "stopped" ELSE "teardown"

\* A reply that cannot be written ends the server, as the end of its input does.
Reply ==
    /\ pc = "reply"
    /\ Goto("idle") \/ Goto(Ends)
    /\ UNCHANGED <<prog, ctx, expired, sess, full, chan>>

InputEnds ==
    /\ pc = "idle"
    /\ Goto(Ends)
    /\ UNCHANGED <<prog, ctx, expired, sess, full, chan>>

-----------------------------------------------------------------------------
(* dial and dialFromConfig.                                                *)

\* Everything is new; the reader of an earlier channel goes its own way.
Dial ==
    /\ pc = "dial"
    /\ ctx' = "live" /\ expired' = FALSE
    /\ dead' = FALSE /\ reader' = "none" /\ readerDone' = FALSE /\ chunks' = 0
    /\ Goto("open")
    /\ T!Forget /\ X!StartFails
    /\ UNCHANGED <<prog, full>>

\* The agent is not wanted; or it is installed first; or its path is known, or
\* depends on the remote's $HOME.
FindAgent == IF opts.path THEN "probe" ELSE "home"
WithChannel ==
    IF opts.noAgent THEN "return" ELSE IF opts.install THEN "install" ELSE FindAgent
\* A bad --log-level is only noticed now, and the channel closed again, but not
\* the session.
NewSession ==
    /\ reader' = "reading" /\ UNCHANGED <<dead, readerDone, chunks>>
    /\ Goto(WithChannel) \/ (program = "cli" /\ Goto("closing"))

StartChild ==
    /\ pc = "open" /\ transport = "exec"
    /\ \/ ctx = "live" /\ X!Start /\ NewSession
       \/ X!StartFails /\ Goto("refused") /\ UNCHANGED sess
    /\ UNCHANGED <<prog, ctx, expired, full, tmux>>

AttachPane ==
    /\ pc = "open" /\ transport = "tmux" /\ T!TmuxNew
    /\ CASE attach' = "open" -> NewSession
         [] attach' = "failed" -> Goto("refused") /\ UNCHANGED sess
         [] OTHER -> UNCHANGED <<main, sess>>
    /\ UNCHANGED <<prog, ctx, expired, full, proc>>

\* A command of the Backend: what comes after it.
AfterTool == IF program = "mcp" THEN "reply" ELSE "teardown"
ForgetTeardown == "refused"
DialFails == "teardown"
After(p, ok) ==
    CASE p \in {"install", "home"} /\ ~ok -> DialFails
      [] p = "install" /\ ok -> "probe"
      [] p = "home" /\ ok -> "probe"
      [] p = "probe" -> "return"
      [] p = "tool" -> AfterTool
      [] p = "cleanup" -> IF be = "none" THEN DialFails ELSE AfterTool
CleansUp(p, ok) == ~ok /\ p \in {"install", "tool"}
Finish(ok) ==
    /\ pc' \in {After(pc, ok)} \cup (IF CleansUp(pc, ok) THEN {"cleanup"} ELSE {})
    /\ sent' = FALSE /\ full' = FALSE
    /\ UNCHANGED <<reqs, be>>

Accepts == IF transport = "exec" THEN "stdin" \in ends ELSE T!KeysAccepted
Connected == IF transport = "exec" THEN X!Connected ELSE T!TmuxConnected
Waits == pc \in Commands /\ sent

\* A dead session refuses the call.  A channel that takes no bytes keeps it.
Write ==
    /\ pc \in Commands /\ ~sent
    /\ IF dead \/ ~Accepts
       THEN Finish(FALSE)
       ELSE ~full /\ sent' = TRUE /\ UNCHANGED <<pc, reqs, be, full>>
    /\ UNCHANGED <<prog, ctx, expired, sess, chan>>

\* A Write may fail for reasons of its own.
WriteFault ==
    /\ pc \in Commands /\ ~sent
    /\ Finish(FALSE)
    /\ UNCHANGED <<prog, ctx, expired, sess, chan>>

\* driveParser feeds a chunk to the parser, which may refuse it: the call fails,
\* and what comes after the chunk is nobody's.
TakeChunk ==
    /\ Waits /\ chunks > 0
    /\ chunks' = chunks - 1
    /\ UNCHANGED <<main, full>> \/ Finish(FALSE)
    /\ UNCHANGED <<prog, ctx, expired, dead, reader, readerDone, chan>>

Answer ==
    /\ Waits /\ ~dead
    /\ Connected /\ reader = "reading" /\ chunks = 0
    /\ \E ok \in BOOLEAN : Finish(ok)
    /\ UNCHANGED <<prog, ctx, expired, sess, chan>>

\* The stream has ended; or the context of the call has: the interrupts are
\* written, and the session may have been declared dead.
StreamOver == reader = "ended" /\ chunks = 0
ContextEnds == pc # "cleanup" /\ (Accepts => ~full)
NoAnswer ==
    /\ Waits
    /\ \/ StreamOver /\ dead' = TRUE
       \/ ~StreamOver /\ ContextEnds /\ dead' \in {dead, TRUE}
    /\ Finish(FALSE)
    /\ UNCHANGED <<prog, ctx, expired, reader, readerDone, chunks, chan>>

\* The server's dial cancels its context as it returns.
CtxAfterDial == IF program = "mcp" THEN "done" ELSE ctx
Return ==
    /\ pc = "return"
    /\ be' = IF opts.noAgent THEN "shell" ELSE "router"
    /\ ctx' = CtxAfterDial
    /\ pc' = "tool"
    /\ UNCHANGED <<prog, sent, reqs, expired, sess, full, chan>>

\* An error that the server reports, and that ends the command.
Refused ==
    /\ pc = "refused"
    /\ ctx' = "done"
    /\ Goto(IF program = "mcp" THEN "reply" ELSE "stopped")
    /\ UNCHANGED <<prog, expired, sess, full, chan>>

-----------------------------------------------------------------------------
(* teardown: session.Close, which marks the session dead and closes the    *)
(* channel; ch.Close once more; and in the command, cancel.                *)

CancelFirst == IF program = "cli" THEN "done" ELSE ctx
CtxAtTeardown == ctx
CloseSession ==
    /\ pc = "teardown"
    /\ Goto("closing")
    /\ dead' = TRUE /\ readerDone' = TRUE
    /\ ctx' = CtxAtTeardown
    /\ UNCHANGED <<prog, expired, reader, chunks, full, chan>>

CloseChild ==
    /\ pc = "closing" /\ transport = "exec"
    /\ X!SubprocessClose
    /\ UNCHANGED <<prog, main, ctx, expired, sess, full, tmux>>

ClosePane ==
    /\ pc = "closing" /\ transport = "tmux"
    /\ T!TmuxClose
    /\ UNCHANGED <<prog, main, ctx, expired, sess, full, proc>>

Closed ==
    /\ pc = "closing"
    /\ IF transport = "exec" THEN closing = "done" ELSE attach = "closed"
    /\ Goto(IF be = "none" THEN "refused" ELSE "stopped")
    /\ ctx' = "done"
    /\ UNCHANGED <<prog, expired, sess, full, chan>>

-----------------------------------------------------------------------------
(* Beside the program.                                                     *)

\* The deadline of the dial, which for the command is that of everything.
Timeout ==
    /\ ctx = "live"
    /\ ctx' = "done" /\ expired' = TRUE
    /\ UNCHANGED <<prog, main, sess, full, chan>>

WatchCtx ==
    /\ ctx = "done" /\ X!WatchCtx
    /\ UNCHANGED <<prog, main, ctx, expired, sess, full, tmux>>

\* readerLoop: what Read returns, a chunk or its error, is sent to readCh, and the
\* reader stops with it when it is full until there is room, or Close.
HasRoom == chunks < ReadCap /\ ~readerDone
ReaderReads ==
    /\ reader = "reading"
    /\ IF HasRoom THEN chunks' = chunks + 1 /\ UNCHANGED reader
                  ELSE reader' = "sending" /\ UNCHANGED chunks
    /\ \/ transport = "exec" /\ X!Read /\ UNCHANGED tmux
       \/ transport = "tmux" /\ T!ReadLog /\ UNCHANGED proc
    /\ UNCHANGED <<prog, main, ctx, expired, dead, readerDone, full>>

ReaderSends ==
    /\ reader = "sending" /\ chunks < ReadCap
    /\ chunks' = chunks + 1 /\ reader' = "reading"
    /\ UNCHANGED <<prog, main, ctx, expired, dead, readerDone, full, chan>>

ReadFails == IF transport = "exec" THEN X!ReadFails ELSE T!ReadChannelClosed
ReaderFails ==
    /\ reader = "reading" /\ ReadFails
    /\ reader' = IF HasRoom THEN "ended" ELSE "failed"
    /\ UNCHANGED <<prog, main, ctx, expired, dead, readerDone, chunks, full, chan>>

ReaderStops ==
    /\ \/ reader = "failed" /\ chunks < ReadCap
       \/ reader \in {"sending", "failed"} /\ readerDone
    /\ reader' = "ended"
    /\ UNCHANGED <<prog, main, ctx, expired, dead, readerDone, chunks, full, chan>>

\* A pipe or a terminal is full, or tmux does not come back; or no longer.  It only
\* matters to a command under way.
Congestion ==
    /\ pc \in Commands /\ full' = ~full
    /\ UNCHANGED <<prog, main, ctx, expired, sess, chan>>

Child ==
    /\ X!SubprocessInternal
    /\ UNCHANGED <<prog, main, ctx, expired, sess, full, tmux>>
Pane ==
    /\ transport = "tmux" /\ T!TmuxAround
    /\ UNCHANGED <<prog, main, ctx, expired, sess, full, proc>>

-----------------------------------------------------------------------------
MainStep ==
    \/ Reply \/ Dial \/ StartChild \/ AttachPane \/ Write \/ TakeChunk \/ Answer \/ NoAnswer
    \/ Return \/ Refused \/ CloseSession \/ CloseChild \/ ClosePane \/ Closed
Reader == ReaderReads \/ ReaderSends \/ ReaderFails \/ ReaderStops
Next ==
    \/ Request \/ InputEnds \/ MainStep \/ WriteFault
    \/ Timeout \/ WatchCtx \/ Reader \/ Congestion \/ Child \/ Pane

Spec == Init /\ [][Next]_vars

\* The goroutines run, the timers of Close and of the calls fire, the kernel
\* delivers SIGKILL; a Write comes back when the channel takes bytes now and then.
\* The remote owes nothing.
Fairness ==
    /\ SF_vars(MainStep) /\ WF_vars(Reader) /\ WF_vars(WatchCtx)
    /\ WF_vars(Child /\ (X!KernelKills \/ X!Reap \/ X!Exited))
FairSpec == Spec /\ Fairness

-----------------------------------------------------------------------------
(* Correctness.                                                            *)

\* Every variable has its type.
TypeOK ==
    /\ program \in Programs /\ transport \in Transports
    /\ opts \in [noAgent : BOOLEAN, path : BOOLEAN, install : BOOLEAN]
    /\ pc \in Commands \cup {"idle", "dial", "open", "return", "reply", "refused",
                             "teardown", "closing", "stopped"}
    /\ sent \in BOOLEAN /\ reqs \in 0..MaxReqs
    /\ be \in {"none", "shell", "router"}
    /\ ctx \in {"none", "live", "done"} /\ expired \in BOOLEAN
    /\ dead \in BOOLEAN /\ reader \in {"none", "reading", "sending", "failed", "ended"}
    /\ readerDone \in BOOLEAN /\ chunks \in 0..ReadCap /\ full \in BOOLEAN
    /\ X!SubprocessTypeOK /\ T!TmuxTypeOK

\* When the program has stopped by itself (neither handles a signal), and when a
\* dial has failed and the server goes on, no child, open pipe end, pipe of the
\* pane or log file is left of a channel that was handed out: whichever command of
\* the dial failed, and however much the child resists.  Only what Close itself
\* failed to undo stays: the pipe when its tmux command failed, the log when its
\* removal did.
NothingLeft ==
    pc = "stopped" \/ (pc \in {"idle", "reply", "refused"} /\ be = "none") =>
        X!SubprocessGone /\ (attach # "failed" => T!TmuxGone)

\* The command lets the child go by itself: unless its overall timeout has ended,
\* SIGKILL comes after the end of its stdin and after SIGTERM, though the context
\* that kills it is cancelled by the same teardown.
ChildMayLeave == program = "cli" /\ ~expired => graceful

\* A tmux channel reads what the pane has written since it was attached, all of
\* it and in order, for as long as nobody else takes the pipe.
ReadsFromAttach == transport = "tmux" => T!ReadsFromAttach

\* Every request is answered and the program ends when it is told to: with a remote
\* that never answers, a child that ignores EOF and SIGTERM, a pane that is gone.
\* There are two exceptions, for which the code has no limit: a channel that takes no
\* bytes any more, and a cleanup that is never answered.
CleanupWaits == pc = "cleanup" /\ sent
ComesBack ==
    []<>~full /\ []<>~CleanupWaits =>
        ((pc \notin {"idle", "stopped"}) ~> (pc \in {"idle", "stopped"}))

\* The session's reader does not outlive the channel: not when a process the
\* child has started keeps its stdout open, and not when the pane is silent.  It does
\* for as long as readCh is full and nobody takes from it, and Close ends that.
Reading == reader \in {"reading", "sending", "failed"}
NobodyTakes ==
    reader \in {"sending", "failed"} /\ chunks = ReadCap /\ ~readerDone /\ ~Waits
ReaderEnds ==
    []<>~NobodyTakes =>
        ((Reading /\ (readerDone \/ child = "exited" \/ T!ReadChannelClosed)) ~> ~Reading)

\* main.go: "A single Backend connection is shared across all tools/call requests
\* for the lifetime of the process."  Nothing in the program kills the child of a
\* connection that is in use, unless the timeout of its dial was over.
ConnectionOutlivesDial ==
    pc \in {"idle", "reply", "tool"} /\ be # "none" /\ ~expired => "KILL" \notin signals
=============================================================================
