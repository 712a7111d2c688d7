--------------------------- MODULE FramedSession ---------------------------
(***************************************************************************)
(* pkg/session/framed.go: one FramedSession multiplexed by several         *)
(* goroutines over one byte channel to one remote shell.                   *)
(*                                                                         *)
(* A member of Calls is one call of RunFramed or Pipe (op tells which),    *)
(* made by a goroutine of its own; sequential calls of one goroutine are   *)
(* the behaviours in which a call begins after another one returned.  A    *)
(* call runs at most two framed commands: the session prelude, when it is  *)
(* the first to hold the mutex, and the user's command.  A frame stands    *)
(* for the command and its nonce: distinct frames have distinct nonces.    *)
(* The byte stream is abstracted to tokens: a marker line, one piece of    *)
(* output, one chunk of a wrapped command; how markers are recognised in   *)
(* arbitrary chunks of bytes is the business of module SentinelParser.     *)
(***************************************************************************)
EXTENDS Naturals, Sequences, FiniteSets

CONSTANTS
    Calls,        \* the calls made on the session
    Methods,      \* the methods called: "run" is RunFramed, "pipe" is Pipe
    NoCall,       \* not a call
    Chunks,       \* Channel writes per wrapped command (Caps.MaxWriteChunk)
    ReadCap,      \* capacity of readCh, 32 in the code
    MaxOutput,    \* output tokens a RunFramed may capture (WithMaxOutput)
    MaxEmit,      \* bound: output tokens one remote command may print
    MaxStdin,     \* bound: writes on one Pipe's stdin
    LeavesEarly,  \* may the user of a Pipe close its stdout before the end?
    LateStdin,    \* may a stdin writer be used after its Pipe has ended?
    Tty,          \* does the transport have a PTY that turns ^C into SIGINT?
    Cancellable,  \* the calls whose context may be done
    MayClose,     \* may the owner of the session call Close?
    MayDie,       \* may the remote end go away for good?
    MayFail,      \* may a Channel.Write fail although the remote lives?
    MayStall,     \* may a Channel.Write block: a full pipe, a silent peer?
    MaxRelinks    \* how often the channel replaces a lost connection: 0
                  \* without websocket's Reconnect, else a bound

ASSUME CallsAssumption == NoCall \notin Calls /\ IsFiniteSet(Calls)
ASSUME SizeAssumption ==
    /\ Chunks \in Nat \ {0} /\ ReadCap \in Nat \ {0}
    /\ MaxOutput \in Nat /\ MaxEmit \in Nat /\ MaxStdin \in Nat
    /\ LeavesEarly \in BOOLEAN /\ LateStdin \in BOOLEAN /\ Tty \in BOOLEAN
    /\ MayClose \in BOOLEAN /\ MayDie \in BOOLEAN
    /\ MayFail \in BOOLEAN /\ MayStall \in BOOLEAN
    /\ Methods \subseteq {"run", "pipe"} /\ Cancellable \subseteq Calls
\* Only the WebSocket channel reconnects, and it has no MaxWriteChunk.
ASSUME RelinkAssumption == MaxRelinks \in Nat /\ (MaxRelinks > 0 => Chunks = 1)

Stages == {"prelude", "user"}
Frames == Calls \X Stages
NoFrame == <<NoCall, "user">>

\* What travels to the remote shell: chunk i of the wrapped command of frame
\* f, a piece of stdin, or one of the bytes 0x03 and 0x1c (i is 0 in these).
Input == [k : {"PART", "STDIN", "INT", "QUIT"}, f : Frames, i : 0..Chunks]
\* What comes back: the marker lines, output of a command, or the read error
\* (EOF included) that ends the stream.  code is the exit code of an END.
Message == [k : {"BEG", "OUT", "END", "ERR"}, f : Frames \cup {NoFrame}, code : {0, 1}]
Msg(k, f, code) == [k |-> k, f |-> f, code |-> code]
ReadError == Msg("ERR", NoFrame, 0)

VARIABLES
    \* the FramedSession
    mu, dead, preluded,
    \* each call: program counter, method, framed command and chunks written
    pc, op, stage, off, res,
    \* each call's context, and the cancellation stage of its driver
    ctx, cancelStage,
    \* each call's parser
    capturing, out,
    \* the reader goroutine, the message it is about to send, and readCh
    reader, held, readCh,
    \* the two directions of the Channel, and the progress of Close
    toRemote, fromRemote, closer,
    \* the remote shell: the foreground job, the unfinished command line,
    \* what became of each frame's command and how much it printed
    job, line, exec, wrote, down,
    \* the user of each Pipe: has it closed stdout, and how often it wrote
    rdClosed, fed,
    \* the connection: is a Write (which holds writeMu) blocked in it, is an
    \* ErrReconnected still to be read, and how often was it replaced
    stalled, relinked, relinks

sess   == <<mu, dead, preluded>>
caller == <<pc, op, stage, off, res>>
cancel == <<ctx, cancelStage>>
parser == <<capturing, out>>
rd     == <<reader, held, readCh>>
chan   == <<toRemote, fromRemote, closer>>
remote == <<job, line, exec, wrote, down>>
user   == <<rdClosed, fed>>
link   == <<stalled, relinked, relinks>>
vars   == <<sess, caller, cancel, parser, rd, chan, remote, user, link>>

Pumping == {"pump", "flush", "release"}
Holding == {"write", "drive"} \cup Pumping
Results == {"none", "ok", "canceled", "dead", "closed", "protocol", "write"}
Frame(c) == <<c, stage[c]>>
NoJob == [f |-> NoFrame, framed |-> FALSE]

Init ==
    /\ mu = NoCall /\ dead = FALSE /\ preluded = FALSE
    /\ pc = [c \in Calls |-> "new"]
    /\ op \in [Calls -> Methods]
    /\ stage = [c \in Calls |-> "user"]
    /\ off = [c \in Calls |-> 0]
    /\ res = [c \in Calls |-> "none"]
    /\ ctx = [c \in Calls |-> FALSE]
    /\ cancelStage = [c \in Calls |-> 0]
    /\ capturing = [c \in Calls |-> FALSE]
    /\ out = [c \in Calls |-> <<>>]
    /\ reader = "run" /\ held = <<>> /\ readCh = <<>>
    /\ toRemote = <<>> /\ fromRemote = <<>> /\ closer = "open"
    /\ job = NoJob /\ line = <<>> /\ down = FALSE
    /\ exec = [f \in Frames |-> "no"]
    /\ wrote = [f \in Frames |-> 0]
    /\ rdClosed = [c \in Calls |-> FALSE]
    /\ fed = [c \in Calls |-> 0]
    /\ stalled = FALSE /\ relinked = FALSE /\ relinks = 0

-----------------------------------------------------------------------------
(* Entering RunFramed or Pipe.                                             *)

\* The dead flag is read before the mutex is taken, and not again.
Begin(c) ==
    /\ pc[c] = "new"
    /\ IF dead
       THEN /\ pc' = [pc EXCEPT ![c] = "done"]
            /\ res' = [res EXCEPT ![c] = "dead"]
       ELSE /\ pc' = [pc EXCEPT ![c] = "lock"]
            /\ UNCHANGED res
    /\ UNCHANGED <<sess, op, stage, off, cancel, parser, rd, chan, remote, user, link>>

\* The first framed command of a call: the prelude until it has succeeded once.
Acquire(c) ==
    /\ pc[c] = "lock"
    /\ mu = NoCall
    /\ mu' = c
    /\ pc' = [pc EXCEPT ![c] = "write"]
    /\ stage' = [stage EXCEPT ![c] = IF preluded THEN "user" ELSE "prelude"]
    /\ UNCHANGED <<dead, preluded, op, off, res, cancel, parser, rd, chan, remote, user, link>>

\* The call is over.  RunFramed, and Pipe before it has started its pump,
\* unlock on the way out.  The pump delivers the result on resultCh first and
\* unlocks in a deferred call.
UnlockBeforeResult(c, e) ==
    /\ res' = [res EXCEPT ![c] = e]
    /\ pc' = [pc EXCEPT ![c] = IF pc[c] \in Pumping THEN "release" ELSE "done"]
    /\ mu' = NoCall
Finish(c, e) ==
    /\ res' = [res EXCEPT ![c] = e]
    /\ IF pc[c] \in Pumping
       THEN pc' = [pc EXCEPT ![c] = "release"] /\ UNCHANGED mu
       ELSE pc' = [pc EXCEPT ![c] = "done"] /\ mu' = NoCall

Release(c) ==
    /\ pc[c] = "release"
    /\ pc' = [pc EXCEPT ![c] = "done"]
    /\ mu' = NoCall
    /\ UNCHANGED <<dead, preluded, op, stage, off, res, cancel, parser, rd, chan, remote, user, link>>

-----------------------------------------------------------------------------
(* Writing: one Channel.Write at a time, each under writeMu.  No write has *)
(* a deadline or looks at a context: while one blocks nobody else writes,  *)
(* and only the peer or Close ends it.                                     *)

CanWrite == closer # "closed" /\ ~stalled
CanFail == closer = "closed" \/ (~stalled /\ (down \/ MayFail))
Send(k, f, i) == toRemote' = Append(toRemote, [k |-> k, f |-> f, i |-> i])

\* After the last chunk RunFramed (and any prelude) drives the parser itself;
\* Pipe hands the mutex to its pump goroutine and returns.
AfterWrite(c) == IF op[c] = "pipe" /\ stage[c] = "user" THEN "pump" ELSE "drive"

LastChunkOffByOne(c) == off[c] = Chunks
LastChunk(c) == off[c] + 1 = Chunks

WriteChunk(c) ==
    /\ pc[c] = "write"
    /\ CanWrite
    /\ Send("PART", Frame(c), off[c] + 1)
    /\ off' = [off EXCEPT ![c] = @ + 1]
    /\ pc' = IF LastChunk(c) THEN [pc EXCEPT ![c] = AfterWrite(c)] ELSE pc
    /\ UNCHANGED <<sess, op, stage, res, cancel, parser, rd, fromRemote, closer, remote, user, link>>

\* A failed write ends the call, and says nothing about the session.
WriteFails(c) ==
    /\ pc[c] = "write"
    /\ CanFail
    /\ Finish(c, "write")
    /\ UNCHANGED <<dead, preluded, op, stage, off, cancel, parser, rd, chan, remote, user, link>>

-----------------------------------------------------------------------------
(* driveParser and pipePump: one select loop over readCh, ctx.Done() and   *)
(* the phase timer.  pc is "drive" or "pump" when the loop is at its       *)
(* select, and "flush" when the pump is inside a write to the Pipe's       *)
(* stdout, which has no buffer.                                            *)

Selecting == {"drive", "pump"}

\* A message that the parser consumes.
Take(c, m) ==
    /\ pc[c] \in Selecting
    /\ readCh # <<>> /\ m = Head(readCh)
    /\ readCh' = Tail(readCh)
    /\ UNCHANGED <<reader, held, link>>

OwnAnyNonce(c, k, m) == m.k = k
Own(c, k, m) == m.k = k /\ m.f = Frame(c)

\* Everything before the BEG line with the call's own nonce is discarded.
SkipNoise(c, m) ==
    /\ Take(c, m)
    /\ m.k # "ERR" /\ ~capturing[c] /\ ~Own(c, "BEG", m)
    /\ UNCHANGED <<sess, caller, cancel, parser, chan, remote, user, link>>

SeeBeg(c, m) ==
    /\ Take(c, m)
    /\ ~capturing[c] /\ Own(c, "BEG", m)
    /\ capturing' = [capturing EXCEPT ![c] = TRUE]
    /\ UNCHANGED <<sess, caller, cancel, out, chan, remote, user, link>>

\* RunFramed captures, and fails the call when the cap is exceeded.  The pump
\* writes to stdout: it stays in that write until the user reads, or gets an
\* error when the user has closed its end.
Capture(c, m) ==
    /\ Take(c, m)
    /\ m.k # "ERR" /\ capturing[c] /\ ~Own(c, "END", m)
    /\ out' = [out EXCEPT ![c] = Append(@, m)]
    /\ \/ /\ pc[c] = "drive" /\ Len(out[c]) < MaxOutput
          /\ UNCHANGED <<mu, pc, res>>
       \/ /\ pc[c] = "drive" /\ Len(out[c]) >= MaxOutput
          /\ Finish(c, "protocol")
       \/ /\ pc[c] = "pump" /\ ~rdClosed[c]
          /\ pc' = [pc EXCEPT ![c] = "flush"]
          /\ UNCHANGED <<mu, res>>
       \/ /\ pc[c] = "pump" /\ rdClosed[c]
          /\ Finish(c, "protocol")
    /\ UNCHANGED <<dead, preluded, op, stage, off, cancel, capturing, chan, remote, user, link>>

\* The END line of the call's own nonce.  A prelude that was cancelled or
\* exited non-zero ends the call; otherwise the user's command is next.
PreludeAnyExitCode(c, m) ==
    IF cancelStage[c] > 0
    THEN Finish(c, "canceled") /\ UNCHANGED <<preluded, stage, off>>
    ELSE /\ preluded' = TRUE
         /\ stage' = [stage EXCEPT ![c] = "user"]
         /\ off' = [off EXCEPT ![c] = 0]
         /\ pc' = [pc EXCEPT ![c] = "write"]
         /\ UNCHANGED <<mu, res>>
PreludeEnds(c, m) ==
    IF cancelStage[c] > 0
    THEN Finish(c, "canceled") /\ UNCHANGED <<preluded, stage, off>>
    ELSE IF m.code # 0
    THEN Finish(c, "protocol") /\ UNCHANGED <<preluded, stage, off>>
    ELSE /\ preluded' = TRUE
         /\ stage' = [stage EXCEPT ![c] = "user"]
         /\ off' = [off EXCEPT ![c] = 0]
         /\ pc' = [pc EXCEPT ![c] = "write"]
         /\ UNCHANGED <<mu, res>>

UserEnds(c) ==
    /\ Finish(c, IF cancelStage[c] > 0 THEN "canceled" ELSE "ok")
    /\ UNCHANGED <<preluded, stage, off, link>>

SeeEnd(c, m) ==
    /\ Take(c, m)
    /\ capturing[c] /\ Own(c, "END", m)
    /\ capturing' = [capturing EXCEPT ![c] = FALSE]
    /\ \/ /\ stage[c] = "prelude" /\ PreludeEnds(c, m)
          /\ out' = [out EXCEPT ![c] = <<>>]
       \/ /\ stage[c] = "user" /\ UserEnds(c)
          /\ out' = [out EXCEPT ![c] = Append(@, m)]
    /\ UNCHANGED <<dead, op, cancel, chan, remote, user, link>>

EofIsSuccess(c, m) ==
    /\ Take(c, m)
    /\ m.k = "ERR"
    /\ dead' = TRUE
    /\ Finish(c, "ok")
    /\ UNCHANGED <<preluded, op, stage, off, cancel, parser, chan, remote, user, link>>
SeeReadError(c, m) ==
    /\ Take(c, m)
    /\ m.k = "ERR"
    /\ dead' = TRUE
    /\ Finish(c, "closed")
    /\ UNCHANGED <<preluded, op, stage, off, cancel, parser, chan, remote, user, link>>

\* readCh is closed: the reader is gone.
ReadChNeverClosed(c) == FALSE
SeeReaderGone(c) ==
    /\ pc[c] \in Selecting
    /\ readCh = <<>> /\ reader = "exit"
    /\ dead' = TRUE
    /\ Finish(c, "closed")
    /\ UNCHANGED <<preluded, op, stage, off, cancel, parser, rd, chan, remote, user, link>>

\* ctx.Done() is ready: ^C, and arm the first timer.
CtxDone(c) == pc[c] \in Selecting /\ ctx[c] /\ cancelStage[c] = 0
SoftCancel(c) ==
    /\ CtxDone(c)
    /\ CanWrite
    /\ Send("INT", Frame(c), 0)
    /\ cancelStage' = [cancelStage EXCEPT ![c] = 1]
    /\ UNCHANGED <<sess, caller, ctx, parser, rd, fromRemote, closer, remote, user, link>>

\* softCancelGrace has elapsed since: ^\, and arm the second timer.
EscalatesAfterReturn(c) == cancelStage[c] = 1
Escalates(c) == pc[c] \in Selecting /\ cancelStage[c] = 1
HardCancel(c) ==
    /\ Escalates(c)
    /\ CanWrite
    /\ Send("QUIT", Frame(c), 0)
    /\ cancelStage' = [cancelStage EXCEPT ![c] = 2]
    /\ UNCHANGED <<sess, caller, ctx, parser, rd, fromRemote, closer, remote, user, link>>

InterruptDue(c) == CtxDone(c) \/ (pc[c] \in Selecting /\ cancelStage[c] = 1)
CancelWriteFails(c) ==
    /\ InterruptDue(c)
    /\ CanFail
    /\ dead' = TRUE
    /\ Finish(c, "write")
    /\ UNCHANGED <<preluded, op, stage, off, cancel, parser, rd, chan, remote, user, link>>

\* hardCancelGrace has elapsed as well: give the session up.
SecondTimerNotArmed(c) == FALSE
DeclareDead(c) ==
    /\ pc[c] \in Selecting
    /\ cancelStage[c] = 2
    /\ dead' = TRUE
    /\ Finish(c, "dead")
    /\ UNCHANGED <<preluded, op, stage, off, cancel, parser, rd, chan, remote, user, link>>

-----------------------------------------------------------------------------
(* The callers' side: contexts, and the user of a Pipe's three handles.    *)

\* A context may be done before the call or at any moment of it; nobody looks
\* before the select loop, so a context that is done then is done soon enough.
CancelCtx(c) ==
    /\ c \in Cancellable /\ ~ctx[c] /\ pc[c] \in {"drive", "pump", "flush"}
    /\ ctx' = [ctx EXCEPT ![c] = TRUE]
    /\ UNCHANGED <<sess, caller, cancelStage, parser, rd, chan, remote, user, link>>

\* The user reads what the pump is writing.
PipeRead(c) ==
    /\ pc[c] = "flush"
    /\ ~rdClosed[c]
    /\ pc' = [pc EXCEPT ![c] = "pump"]
    /\ UNCHANGED <<sess, op, stage, off, res, cancel, parser, rd, chan, remote, user, link>>

PipeCloseStdout(c) ==
    /\ LeavesEarly /\ pc[c] \in Pumping /\ ~rdClosed[c]
    /\ rdClosed' = [rdClosed EXCEPT ![c] = TRUE]
    /\ UNCHANGED <<sess, caller, cancel, parser, rd, chan, remote, fed, link>>

\* The write the pump is in fails once stdout is closed.
FlushFails(c) ==
    /\ pc[c] = "flush" /\ rdClosed[c]
    /\ Finish(c, "protocol")
    /\ UNCHANGED <<dead, preluded, op, stage, off, cancel, parser, rd, chan, remote, user, link>>

\* channelWriter.Write: nothing ties the writer to the lease of its Pipe.
HasWriter(c) == op[c] = "pipe" /\ stage[c] = "user" /\ off[c] = Chunks
CanFeed(c) ==
    /\ HasWriter(c)
    /\ pc[c] \in {"pump", "flush"} \/ LateStdin
    /\ fed[c] < MaxStdin
PipeWrite(c) ==
    /\ CanFeed(c)
    /\ CanWrite
    /\ Send("STDIN", Frame(c), 0)
    /\ fed' = [fed EXCEPT ![c] = @ + 1]
    /\ UNCHANGED <<sess, caller, cancel, parser, rd, fromRemote, closer, remote, rdClosed, link>>

-----------------------------------------------------------------------------
(* readerLoop.  The ErrReconnected of a replaced connection is an error    *)
(* like any other, read once what the new connection has sent is read.     *)

ReaderRead ==
    /\ reader = "run" /\ held = <<>>
    /\ \/ /\ fromRemote # <<>>
          /\ held' = <<Head(fromRemote)>>
          /\ fromRemote' = Tail(fromRemote)
          /\ UNCHANGED relinked
       \/ /\ closer = "closed"
          /\ held' = <<ReadError>>
          /\ UNCHANGED <<fromRemote, relinked>>
       \/ /\ relinked /\ fromRemote = <<>>
          /\ held' = <<ReadError>>
          /\ relinked' = FALSE
          /\ UNCHANGED fromRemote
    /\ UNCHANGED <<sess, caller, cancel, parser, reader, readCh, toRemote, closer, remote, user,
                   stalled, relinks>>

ReaderSend ==
    /\ reader = "run" /\ held # <<>>
    /\ Len(readCh) < ReadCap
    /\ readCh' = Append(readCh, Head(held))
    /\ held' = <<>>
    /\ reader' = IF Head(held).k = "ERR" THEN "exit" ELSE "run"
    /\ UNCHANGED <<sess, caller, cancel, parser, chan, remote, user, link>>

\* readerCtx is done: the message is dropped and readCh is closed.
ReaderStop ==
    /\ reader = "run" /\ held # <<>>
    /\ closer \in {"stopped", "closed"}
    /\ held' = <<>>
    /\ reader' = "exit"
    /\ UNCHANGED <<sess, caller, cancel, parser, readCh, chan, remote, user, link>>

-----------------------------------------------------------------------------
(* Close, in its three steps; it does not take mu.                         *)

CloseMark ==
    /\ MayClose /\ closer = "open"
    /\ closer' = "marked"
    /\ dead' = TRUE
    /\ UNCHANGED <<mu, preluded, caller, cancel, parser, rd, toRemote, fromRemote, remote, user, link>>

CloseStop ==
    /\ closer = "marked"
    /\ closer' = "stopped"
    /\ UNCHANGED <<sess, caller, cancel, parser, rd, toRemote, fromRemote, remote, user, link>>

CloseChannel ==
    /\ closer = "stopped"
    /\ closer' = "closed"
    /\ UNCHANGED <<sess, caller, cancel, parser, rd, toRemote, fromRemote, remote, user, link>>

-----------------------------------------------------------------------------
(* The remote side (not part of the repository): a shell that reads its    *)
(* input one complete command line at a time, runs it in the foreground,   *)
(* and lets it read the rest of the input.  Output appears in the order    *)
(* in which it was printed.                                                *)

Emit(k, f, code) == fromRemote' = Append(fromRemote, Msg(k, f, code))
Idle == job = NoJob
IsSignal(t) == Tty /\ t.k \in {"INT", "QUIT"}
HeadIsData == ~down /\ toRemote # <<>> /\ ~IsSignal(Head(toRemote))
Wrapped(f) == [i \in 1..Chunks |-> [k |-> "PART", f |-> f, i |-> i]]
EndsLine(t) == t.k = "PART" /\ t.i = Chunks

\* A chunk that does not complete a line is kept; stray stdin on a fresh line
\* is a command the shell rejects.
ShellRead ==
    /\ Idle /\ HeadIsData
    /\ ~EndsLine(Head(toRemote))
    /\ toRemote' = Tail(toRemote)
    /\ line' = IF Head(toRemote).k = "STDIN" /\ line = <<>>
               THEN <<>> ELSE Append(line, Head(toRemote))
    /\ UNCHANGED <<sess, caller, cancel, parser, rd, fromRemote, closer, job, exec, wrote, down, user, link>>

\* The line is complete and as the session wrote it.
ShellStart(f) ==
    /\ Idle /\ HeadIsData
    /\ EndsLine(Head(toRemote)) /\ Head(toRemote).f = f
    /\ Append(line, Head(toRemote)) = Wrapped(f)
    /\ toRemote' = Tail(toRemote)
    /\ line' = <<>>
    /\ job' = [f |-> f, framed |-> TRUE]
    /\ exec' = [exec EXCEPT ![f] = "running"]
    /\ Emit("BEG", f, 0)
    /\ UNCHANGED <<sess, caller, cancel, parser, rd, closer, wrote, down, user, link>>

\* Something else got into the line, or part of it is missing.  The shell
\* rejects it, or runs the command without having set its nonce (__PR_N keeps
\* an older value), or, when the damage is in the body, runs another command
\* between the right markers.
ShellStartGarbled(f) ==
    /\ Idle /\ HeadIsData
    /\ EndsLine(Head(toRemote)) /\ Head(toRemote).f = f
    /\ Append(line, Head(toRemote)) # Wrapped(f)
    /\ toRemote' = Tail(toRemote)
    /\ line' = <<>>
    /\ \/ UNCHANGED <<job, exec, fromRemote>>
       \/ /\ job' = [f |-> f, framed |-> FALSE]
          /\ exec' = [exec EXCEPT ![f] = "running"]
          /\ UNCHANGED fromRemote
       \/ /\ line # <<>> /\ Head(line) = [k |-> "PART", f |-> f, i |-> 1]
          /\ job' = [f |-> f, framed |-> TRUE]
          /\ exec' = [exec EXCEPT ![f] = "altered"]
          /\ Emit("BEG", f, 0)
    /\ UNCHANGED <<sess, caller, cancel, parser, rd, closer, wrote, down, user, link>>

\* The running command reads its standard input.
JobRead ==
    /\ ~Idle /\ HeadIsData
    /\ toRemote' = Tail(toRemote)
    /\ UNCHANGED <<sess, caller, cancel, parser, rd, fromRemote, closer, remote, user, link>>

\* The prelude prints nothing.
JobPrint ==
    /\ ~Idle /\ ~down /\ job.f[2] = "user"
    /\ wrote[job.f] < MaxEmit
    /\ wrote' = [wrote EXCEPT ![job.f] = @ + 1]
    /\ Emit("OUT", job.f, 0)
    /\ UNCHANGED <<sess, caller, cancel, parser, rd, toRemote, closer, job, line, exec, down, user, link>>

\* The command is over, with END when its wrapper reaches the last printf.
JobOver(code) ==
    /\ job' = NoJob
    /\ exec' = [exec EXCEPT ![job.f] =
                    IF @ = "altered" THEN @ ELSE IF code = 0 THEN "done" ELSE "failed"]
    /\ IF job.framed THEN Emit("END", job.f, code) ELSE UNCHANGED fromRemote
JobExit(code) ==
    /\ ~Idle /\ ~down
    /\ JobOver(code)
    /\ UNCHANGED <<sess, caller, cancel, parser, rd, toRemote, closer, line, wrote, down, user, link>>

\* The terminal turns ^C or ^\ into a signal the moment it arrives and throws
\* away the input in front of it.  The idle shell starts a new line.  A
\* running command ignores the signal, ends with its END line, or is aborted
\* together with the rest of the line and its END.
Signal(p) ==
    /\ ~down /\ p \in 1..Len(toRemote)
    /\ IsSignal(toRemote[p])
    /\ \A q \in 1..(p - 1) : ~IsSignal(toRemote[q])
    /\ toRemote' = SubSeq(toRemote, p + 1, Len(toRemote))
    /\ line' = <<>>
    /\ \/ UNCHANGED <<job, exec, fromRemote>>
       \/ ~Idle /\ JobOver(1)
       \/ /\ ~Idle
          /\ job' = NoJob
          /\ exec' = [exec EXCEPT ![job.f] = "aborted"]
          /\ UNCHANGED fromRemote
    /\ UNCHANGED <<sess, caller, cancel, parser, rd, closer, wrote, down, user, link>>

RemoteDies ==
    /\ MayDie /\ ~down
    /\ down' = TRUE
    /\ fromRemote' = Append(fromRemote, ReadError)
    /\ UNCHANGED <<sess, caller, cancel, parser, rd, toRemote, closer, job, line, exec, wrote, user, link>>

-----------------------------------------------------------------------------
(* The connection (pkg/channel/websocket in detail: WebSocketChannel).     *)

\* The channel stops taking bytes while somebody writes, and takes them again.
InWrite(c) == pc[c] = "write" \/ InterruptDue(c) \/ CanFeed(c)
Stall ==
    /\ MayStall /\ ~stalled /\ closer # "closed"
    /\ \E c \in Calls : InWrite(c)
    /\ stalled' = TRUE
    /\ UNCHANGED <<sess, caller, cancel, parser, rd, chan, remote, user, relinked, relinks>>
Unstall ==
    /\ stalled
    /\ stalled' = FALSE
    /\ UNCHANGED <<sess, caller, cancel, parser, rd, chan, remote, user, relinked, relinks>>

\* The connection is lost and redialled: what was under way in it is gone,
\* and so is its shell.  The new one is idle and was never prepared; nothing
\* resets preluded.
Relink ==
    /\ relinks < MaxRelinks /\ ~down /\ closer # "closed"
    /\ ~stalled
    /\ relinks' = relinks + 1 /\ relinked' = TRUE
    /\ toRemote' = <<>> /\ fromRemote' = <<>>
    /\ line' = <<>> /\ job' = NoJob
    /\ exec' = IF Idle THEN exec ELSE [exec EXCEPT ![job.f] = "aborted"]
    /\ UNCHANGED <<sess, caller, cancel, parser, rd, closer, wrote, down, user, stalled>>

-----------------------------------------------------------------------------
Receive(c) ==
    \E m \in {Head(readCh) : i \in 1..Len(readCh)} :
        \/ SkipNoise(c, m) \/ SeeBeg(c, m) \/ Capture(c, m)
        \/ SeeEnd(c, m) \/ SeeReadError(c, m)

SessionStep(c) ==
    \/ Acquire(c) \/ Release(c) \/ WriteChunk(c) \/ WriteFails(c)
    \/ Receive(c) \/ SeeReaderGone(c)
    \/ SoftCancel(c) \/ HardCancel(c) \/ CancelWriteFails(c) \/ DeclareDead(c)
    \/ FlushFails(c)
UserStep(c) ==
    \/ Begin(c) \/ CancelCtx(c)
    \/ PipeRead(c) \/ PipeCloseStdout(c) \/ PipeWrite(c)
ReaderStep == ReaderRead \/ ReaderSend \/ ReaderStop
CloseStep == CloseMark \/ CloseStop \/ CloseChannel
RemoteStep ==
    \/ ShellRead \/ JobRead \/ JobPrint \/ RemoteDies \/ Relink
    \/ \E f \in Frames : ShellStart(f) \/ ShellStartGarbled(f)
    \/ \E code \in {0, 1} : JobExit(code)
    \/ \E p \in 1..Len(toRemote) : Signal(p)

ChannelStep == Stall \/ Unstall

Next ==
    \/ \E c \in Calls : SessionStep(c) \/ UserStep(c)
    \/ ReaderStep \/ CloseStep \/ RemoteStep \/ ChannelStep

Spec == Init /\ [][Next]_vars

\* Goroutines keep running, timers fire and sync.Mutex hands over: a call, the
\* reader and a Close that has begun take their next step, a write when the
\* channel is not stalled.  The user of a Pipe drains its stdout, as the
\* Session interface demands ("drain the reader until the result channel
\* fires").  Nothing is assumed of the remote side, nor that a stall ends.
Fairness ==
    /\ \A c \in Calls : WF_vars(SessionStep(c)) /\ WF_vars(PipeRead(c))
    /\ WF_vars(ReaderStep)
    /\ WF_vars(CloseStop \/ CloseChannel)
FairSpec == Spec /\ Fairness

-----------------------------------------------------------------------------
(* Correctness.                                                            *)

\* Every variable has its type.
LinkOK == stalled \in BOOLEAN /\ relinked \in BOOLEAN /\ relinks \in 0..MaxRelinks
TypeOK ==
    /\ mu \in Calls \cup {NoCall} /\ dead \in BOOLEAN /\ preluded \in BOOLEAN
    /\ pc \in [Calls -> {"new", "lock", "done"} \cup Holding]
    /\ op \in [Calls -> Methods]
    /\ stage \in [Calls -> Stages]
    /\ off \in [Calls -> 0..Chunks]
    /\ res \in [Calls -> Results]
    /\ ctx \in [Calls -> BOOLEAN] /\ cancelStage \in [Calls -> 0..2]
    /\ capturing \in [Calls -> BOOLEAN] /\ out \in [Calls -> Seq(Message)]
    /\ reader \in {"run", "exit"} /\ held \in Seq(Message) /\ readCh \in Seq(Message)
    /\ toRemote \in Seq(Input) /\ fromRemote \in Seq(Message)
    /\ closer \in {"open", "marked", "stopped", "closed"}
    /\ job \in [f : Frames \cup {NoFrame}, framed : BOOLEAN]
    /\ line \in Seq(Input) /\ down \in BOOLEAN
    /\ exec \in [Frames -> {"no", "running", "altered", "done", "failed", "aborted"}]
    /\ wrote \in [Frames -> Nat]
    /\ rdClosed \in [Calls -> BOOLEAN] /\ fed \in [Calls -> Nat]
    /\ LinkOK

\* s.mu is a lease: whoever writes a command, drives a parser or pumps a Pipe
\* holds it, nobody else does, and it survives the hand-over from Pipe to its
\* pump until the result has been delivered.
LeaseExclusive == \A c \in Calls : pc[c] \in Holding <=> mu = c

\* A call that returns a result (also one that was cancelled and drained)
\* returns the result of its own command: the unmodified command ran to its
\* END, what the call captured is exactly what the command printed, and the
\* exit code is the command's.
ResultIsOwn ==
    \A c \in Calls :
        res[c] \in {"ok", "canceled"} /\ stage[c] = "user" =>
            LET f == <<c, "user">>
                printed == [i \in 1..wrote[f] |-> Msg("OUT", f, 0)]
            IN \/ exec[f] = "done" /\ out[c] = Append(printed, Msg("END", f, 0))
               \/ exec[f] = "failed" /\ out[c] = Append(printed, Msg("END", f, 1))

\* Until the channel has reconnected there is one shell, and no user's command
\* starts in it before a prelude has succeeded in it.  The shell that comes
\* with a reconnect is excepted: preluded stays TRUE, and it runs the commands
\* of calls that do not know yet unprepared.
PreludeFirst ==
    [][\A c \in Calls :
          relinks = 0 /\ exec[<<c, "user">>] = "no" /\ exec'[<<c, "user">>] # "no" =>
              \E d \in Calls : exec[<<d, "prelude">>] = "done"]_vars

\* ^C and ^\ may arrive after the command they were meant for, but they never
\* stop the command of another call that still waits for it.
NoStrayInterrupt ==
    [][\A p \in 1..Len(toRemote) :
          Signal(p) /\ ~Idle /\ job' # job =>
              \/ job.f[1] = toRemote[p].f[1]
              \/ pc[job.f[1]] = "done"]_vars

\* Cancelling a context ends the call that holds the lease, even when the
\* remote command ignores every signal and never prints anything again.  The
\* one thing it cannot end is a Write that blocks, its own or that of a Pipe's
\* stdin, which keeps writeMu: the interrupt waits behind it.
CancelReturns ==
    <>[]~stalled =>
        \A c \in Calls : (ctx[c] /\ pc[c] \in Holding) ~> pc[c] = "done"

\* Close ends every call, those queued on the mutex included, although it does
\* not take the mutex and the reader may stop without reporting an error.
CloseUnblocks ==
    \A c \in Calls : (closer = "closed" /\ pc[c] # "new") ~> pc[c] = "done"

-----------------------------------------------------------------------------
(* The session implements AbstractSession.                                 *)

AbsState(c) ==
    IF pc[c] \in Holding THEN "holding"
    ELSE IF pc[c] = "lock" THEN "waiting"
    ELSE IF pc[c] = "new" THEN "new"
    ELSE IF res[c] \in {"ok", "canceled"} /\ stage[c] = "user" THEN "succeeded"
    ELSE "failed"

Abs == INSTANCE AbstractSession WITH
    lease <- mu,
    state <- [c \in Calls |-> AbsState(c)],
    ran <- [c \in Calls |-> IF exec[<<c, "user">>] = "failed" THEN "done"
                             ELSE exec[<<c, "user">>]]

\* Serialised calls, each command run at most once and never beside another,
\* success only for a command that completed.
ImplementsSession == Abs!Spec
=============================================================================
