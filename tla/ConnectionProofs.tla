--------------------------- MODULE ConnectionProofs ---------------------------
(***************************************************************************)
(* Theorems about Connection, for any of its programs and transports, any  *)
(* number of requests and any amount of output.                            *)
(***************************************************************************)
EXTENDS Connection, TLAPS

-----------------------------------------------------------------------------
(* The inductive invariant.                                                *)

\* There is a Backend from the return of the dial on.
BackendInv ==
    /\ pc \in {"dial", "open", "install", "home", "probe", "return", "refused"} => be = "none"
    /\ pc = "tool" => be # "none"

\* A child that was waited for, or was not started, has no open pipe end here.
\* What is in the pipe and what is to come are the child's output.
Away == child \in {"none", "exited"}
ProcInv ==
    /\ Away => ends = {}
    /\ closing \in {"drained", "done"} => child = "exited"
    /\ transport = "tmux" => child = "none"
    /\ output.unread + output.left <= MaxOut

\* The log exists, and the pipe is this channel's, only between New and Close, but
\* for what Close has failed to undo.
PaneInv ==
    /\ attach \in {"none", "found"} => ~there
    /\ attach = "closed" /\ there => "log" \in undone
    /\ attach \in {"none", "found", "created", "empty"} => pipe # "ours"
    /\ attach \in {"stopped", "shut", "closed"} /\ pipe = "ours" => "pipe" \in undone
    /\ transport = "exec" => attach = "none"

\* The log is empty until the pipe is there; and as long as it is there, the log
\* goes on from where it was attached to the last piece the pane has written.
LogInv ==
    /\ attach \in {"none", "found", "created", "empty"} => log = <<>>
    /\ \A i \in 1..Len(log) : log[i] = from + i
    /\ pipe = "ours" => from + Len(log) = out

\* Where nothing may be left: also as a new dial begins.
Ended == pc = "stopped" \/ (pc \in {"idle", "reply", "refused", "dial"} /\ be = "none")
EndedInv == Ended => Away /\ attach \in {"none", "failed", "closed"}

\* A context that is done kills the command's child only after the timeout: in
\* the teardown, the command cancels when the child is away.
CtxInv == program = "cli" /\ ~expired => graceful /\ (ctx = "done" => Away)

IInv == TypeOK /\ BackendInv /\ ProcInv /\ PaneInv /\ LogInv /\ EndedInv /\ CtxInv

-----------------------------------------------------------------------------
(* The two channels, by themselves.                                        *)

\* A step of the child, of its goroutines, of Read or of Close.
ChildStep == X!WatchCtx \/ X!SubprocessInternal \/ X!SubprocessClose \/ X!Read

\* A child that is away stays away, and only the context's kill is not graceful.
LEMMA ChildKeeps ==
    ASSUME X!SubprocessTypeOK, ProcInv, ChildStep, transport' = transport,
           MaxOut \in Nat
    PROVE  /\ X!SubprocessTypeOK' /\ ProcInv'
           /\ Away => Away' /\ ~X!WatchCtx
           /\ ~X!WatchCtx => graceful' = graceful
  <1> USE DEF X!SubprocessTypeOK, ProcInv, Away
  <1>1. CASE X!WatchCtx
    BY <1>1 DEF X!WatchCtx
  <1>2. CASE X!SubprocessInternal
    <2>1. CASE X!ChildWrites
      BY <2>1 DEF X!ChildWrites
    <2>2. CASE X!ChildExits \/ X!KernelKills
      BY <2>2 DEF X!ChildExits, X!KernelKills
    <2>3. CASE X!Reap
      BY <2>3 DEF X!Reap
    <2>4. CASE X!Exited
      BY <2>4 DEF X!Exited, X!WaitCloses
    <2>5. Away => ~X!WatchCtx
      BY DEF X!WatchCtx
    <2> QED BY <1>2, <2>1, <2>2, <2>3, <2>4, <2>5 DEF X!SubprocessInternal
  <1>3. CASE X!SubprocessClose
    BY <1>3 DEF X!SubprocessClose, X!CloseStdin, X!SeesExit, X!Terminate, X!Kill,
        X!Escalated, X!CloseStdout, X!WatchCtx
  <1>4. CASE X!Read
    BY <1>4 DEF X!Read, X!WatchCtx
  <1> QED BY <1>1, <1>2, <1>3, <1>4 DEF ChildStep

\* A channel that is started, or fails to, is a fresh one.
LEMMA FreshKeeps ==
    ASSUME X!Start \/ X!StartFails, transport' = transport, MaxOut \in Nat,
           transport = "tmux" => X!StartFails
    PROVE  X!SubprocessTypeOK' /\ ProcInv' /\ graceful' /\ (X!StartFails => Away')
  <1>1. /\ heir' = FALSE /\ signals' = {} /\ closing' = "no" /\ graceful' = TRUE
        /\ output' = [unread |-> 0, left |-> MaxOut]
        /\ \/ X!Start /\ child' = "running" /\ ends' = {"stdin", "stdout"}
           \/ child' = "none" /\ ends' = {}
    BY DEF X!Start, X!StartFails, X!Fresh
  <1>2. X!StartFails => child' = "none"
    BY DEF X!StartFails, X!Fresh
  <1>3. output' \in [unread : 0..MaxOut, left : 0..MaxOut]
        /\ output'.unread + output'.left <= MaxOut
    BY <1>1
  <1>4. X!SubprocessTypeOK'
    BY <1>1, <1>3 DEF X!SubprocessTypeOK
  <1>5. ProcInv'
    BY <1>1, <1>2, <1>3 DEF ProcInv, Away
  <1> QED BY <1>1, <1>2, <1>4, <1>5 DEF Away

\* The pane writes one more piece.
LEMMA PaneWritesKeeps ==
    ASSUME T!TmuxTypeOK, PaneInv, LogInv, T!PaneWrites, MaxPane \in Nat
    PROVE  T!TmuxTypeOK' /\ LogInv'
  <1>1. /\ log \in Seq(1..MaxPane) /\ out \in 0..MaxPane /\ from \in 0..MaxPane
        /\ out' = out + 1 /\ out' \in 1..MaxPane /\ pos \in 0..Len(log)
        /\ UNCHANGED <<pane, pipe, toggles, from, there, attach, pos, undone>>
        /\ undone \subseteq {"pipe", "log"}
    BY DEF T!TmuxTypeOK, T!PaneWrites
  <1>2. CASE pipe = "ours"
    <2>1. log' = Append(log, out') /\ from + Len(log) = out
      BY <1>1, <1>2 DEF T!PaneWrites, LogInv
    <2>2. log' \in Seq(1..MaxPane) /\ Len(log') = Len(log) + 1
      BY <1>1, <2>1
    <2>3. \A i \in 1..Len(log') : log'[i] = from + i
      <3> SUFFICES ASSUME NEW i \in 1..Len(log') PROVE log'[i] = from + i
        OBVIOUS
      <3>1. CASE i \in 1..Len(log)
        <4>1. log'[i] = log[i]
          BY <1>1, <2>1, <3>1
        <4>2. log[i] = from + i
          BY <3>1 DEF LogInv
        <4> QED BY <4>1, <4>2
      <3>2. CASE i = Len(log) + 1
        <4>1. log'[i] = out'
          BY <1>1, <2>1, <3>2
        <4> QED BY <1>1, <2>1, <3>2, <4>1
      <3>3. i \in 1..Len(log) \/ i = Len(log) + 1
        BY <1>1, <2>2
      <3> QED BY <3>1, <3>2, <3>3
    <2>4. T!TmuxTypeOK'
      BY <1>1, <2>2 DEF T!TmuxTypeOK
    <2>5. attach \notin {"none", "found", "created", "empty"}
      BY <1>2 DEF PaneInv
    <2>6. LogInv'
      BY <1>1, <2>1, <2>2, <2>3, <2>5 DEF LogInv
    <2> QED BY <2>4, <2>6
  <1>3. CASE pipe # "ours"
    BY <1>1, <1>3 DEF T!PaneWrites, LogInv, T!TmuxTypeOK
  <1> QED BY <1>2, <1>3

\* A step of New, Read or Close, or of what is around the pane.
PaneStep == T!TmuxNew \/ T!ReadLog \/ T!TmuxClose \/ T!TmuxAround

\* Each of them keeps the types of the pane's side and the log in order.
LEMMA PaneKeeps ==
    ASSUME T!TmuxTypeOK, PaneInv, LogInv, PaneStep, transport = "tmux",
           transport' = transport, MaxPane \in Nat
    PROVE  T!TmuxTypeOK' /\ PaneInv' /\ LogInv'
  <1> USE DEF T!TmuxTypeOK, T!Attaching, PaneInv, LogInv
  <1>1. CASE T!FindPane
    <2>1. /\ attach = "none" /\ attach' \in {"found", "failed"}
          /\ UNCHANGED <<pane, pipe, toggles, out, from, log, there, pos, undone>>
      BY <1>1 DEF T!FindPane, T!NewFails
    <2>2. T!TmuxTypeOK'
      BY <2>1
    <2>3. PaneInv'
      BY <2>1
    <2>4. LogInv'
      BY <2>1
    <2> QED BY <2>2, <2>3, <2>4
  <1>9. CASE T!ResolveLogPath
    BY <1>9 DEF T!ResolveLogPath, T!NewFails
  <1>2. CASE T!Truncate
    BY <1>2 DEF T!Truncate, T!NewFails
  <1>3. CASE T!PipePane
    <2>1. CASE T!NewFails("failed")
      BY <1>3, <2>1 DEF T!PipePane, T!NewFails
    <2>2. CASE ~T!NewFails("failed")
      <3>1. log = <<>> /\ log' = <<>> /\ from' = out /\ out' = out /\ pipe' \in {"ours", "none"}
            /\ UNCHANGED <<pane, toggles, there, pos, undone>> /\ attach' \in {"piped", "failed"}
        BY <1>3, <2>2 DEF T!PipePane, T!Piped
      <3>2. Len(log') = 0
        BY <3>1
      <3> QED BY <3>1, <3>2
    <2> QED BY <2>1, <2>2
  <1>4. CASE T!OpenLog \/ T!Undo
    BY <1>4 DEF T!OpenLog, T!Opened, T!NewFails, T!Undo
  <1>5. CASE T!ReadLog
    BY <1>5 DEF T!ReadLog, T!LogHasMore
  <1>6. CASE T!TmuxClose
    BY <1>6 DEF T!TmuxClose, T!MarkClosed, T!StopPipe, T!PipeStopped, T!CloseLog, T!RemoveLog
  <1>7. CASE T!PaneWrites
    <2>1. UNCHANGED <<attach, there, pipe, undone>>
      BY <1>7 DEF T!PaneWrites
    <2> QED BY <1>7, <2>1, PaneWritesKeeps
  <1>8. CASE T!PaneDies \/ T!OtherPipes
    <2>1. /\ pipe' \in {"none", "other"} /\ pane' \in {"up", "gone"}
          /\ UNCHANGED <<toggles, out, from, log, there, attach, pos, undone>>
      BY <1>8 DEF T!PaneDies, T!OtherPipes
    <2>2. T!TmuxTypeOK'
      BY <2>1
    <2>3. PaneInv'
      BY <2>1
    <2>4. LogInv'
      BY <2>1
    <2> QED BY <2>2, <2>3, <2>4
  <1> QED BY <1>1, <1>2, <1>3, <1>4, <1>5, <1>6, <1>7, <1>8, <1>9
      DEF PaneStep, T!TmuxNew, T!TmuxAround

\* A new channel forgets the log of the one before, whose pipe is now another's.
LEMMA ForgetKeeps ==
    ASSUME T!TmuxTypeOK, T!Forget, transport' = transport
    PROVE  T!TmuxTypeOK' /\ PaneInv' /\ LogInv' /\ attach' = "none"
  <1>1. /\ attach' = "none" /\ log' = <<>> /\ there' = FALSE /\ pos' = 0 /\ undone' = {}
        /\ pipe' \in {"none", "other"} /\ UNCHANGED <<pane, toggles, out, from>>
    BY DEF T!Forget, T!TmuxTypeOK
  <1>2. Len(log') = 0 /\ log' \in Seq(1..MaxPane)
    BY <1>1
  <1>3. T!TmuxTypeOK'
    <2>1. pos' \in 0..Len(log') /\ attach' \in T!Attaching
      BY <1>1, <1>2 DEF T!Attaching
    <2>2. /\ pane' \in {"up", "gone"} /\ toggles' \in BOOLEAN /\ there' \in BOOLEAN
          /\ out' \in 0..MaxPane /\ from' \in 0..MaxPane
      BY <1>1 DEF T!TmuxTypeOK
    <2> QED BY <1>1, <1>2, <2>1, <2>2 DEF T!TmuxTypeOK, T!Attaching
  <1>4. PaneInv'
    BY <1>1 DEF PaneInv
  <1>5. LogInv'
    BY <1>1, <1>2 DEF LogInv
  <1> QED BY <1>1, <1>3, <1>4, <1>5

-----------------------------------------------------------------------------
(* The program.                                                            *)

\* The steps that leave the channel alone.
Quiet ==
    \/ Request \/ InputEnds \/ Reply \/ Write \/ WriteFault \/ TakeChunk \/ Answer \/ NoAnswer
    \/ Return \/ Refused \/ CloseSession \/ Closed \/ Timeout
    \/ ReaderSends \/ ReaderFails \/ ReaderStops \/ Congestion

\* The places of the program.
Places == Commands \cup {"idle", "dial", "open", "return", "reply", "refused",
                         "teardown", "closing", "stopped"}
SessTypeOK ==
    /\ dead \in BOOLEAN /\ reader \in {"none", "reading", "sending", "failed", "ended"}
    /\ readerDone \in BOOLEAN /\ chunks \in 0..ReadCap /\ full \in BOOLEAN
MainTypeOK ==
    /\ program \in Programs /\ transport \in Transports
    /\ opts \in [noAgent : BOOLEAN, path : BOOLEAN, install : BOOLEAN]
    /\ pc \in Places /\ sent \in BOOLEAN /\ reqs \in 0..MaxReqs
    /\ be \in {"none", "shell", "router"}
    /\ ctx \in {"none", "live", "done"} /\ expired \in BOOLEAN
    /\ SessTypeOK

\* The types of the program and of the two channels it composes.
LEMMA TypesOfParts == TypeOK <=> MainTypeOK /\ X!SubprocessTypeOK /\ T!TmuxTypeOK
  BY DEF TypeOK, MainTypeOK, SessTypeOK, Places

\* The session is as it was.
LEMMA SessStays ==
    ASSUME SessTypeOK, UNCHANGED <<sess, full>>
    PROVE  SessTypeOK'
  BY DEF SessTypeOK, sess

\* What comes after a command: there is a Backend exactly when there was one.
LEMMA AfterGoes ==
    ASSUME NEW ok \in BOOLEAN, pc \in Commands, BackendInv, Finish(ok)
    PROVE  /\ pc' \in {"teardown", "probe", "return", "reply", "cleanup"}
           /\ pc' \in {"probe", "return"} => be = "none"
           /\ pc' = "reply" => be # "none"
           /\ sent' = FALSE /\ full' = FALSE /\ UNCHANGED <<reqs, be>>
  <1>1. pc' = After(pc, ok) \/ pc' = "cleanup"
    BY DEF Finish
  <1>2. sent' = FALSE /\ full' = FALSE /\ UNCHANGED <<reqs, be>>
    BY DEF Finish
  <1>3. CASE pc' = After(pc, ok)
    BY <1>2, <1>3 DEF Commands, After, DialFails, AfterTool, BackendInv
  <1> QED BY <1>1, <1>2, <1>3

\* The steps that end a command, or leave the program where it is.
Command == Write \/ WriteFault \/ TakeChunk \/ Answer \/ NoAnswer
LEMMA CommandGoes ==
    ASSUME Command
    PROVE  /\ pc \in Commands
           /\ (\E ok \in BOOLEAN : Finish(ok))
              \/ (UNCHANGED <<pc, reqs, be, full>> /\ sent' \in {sent, TRUE})
           /\ UNCHANGED <<prog, ctx, expired, reader, readerDone, chan>>
           /\ dead' \in {dead, TRUE}
           /\ chunks' = chunks \/ (chunks > 0 /\ chunks' = chunks - 1)
  <1>1. CASE Write
    BY <1>1 DEF Write, sess
  <1>2. CASE WriteFault
    BY <1>2 DEF WriteFault, sess
  <1>3. CASE TakeChunk
    BY <1>3 DEF TakeChunk, main, Waits
  <1>4. CASE Answer
    BY <1>4 DEF Answer, sess, Waits
  <1>5. CASE NoAnswer
    BY <1>5 DEF NoAnswer, Waits
  <1> QED BY <1>1, <1>2, <1>3, <1>4, <1>5 DEF Command

\* A step of the reader, or of the channel's other end, is none of the program's.
ReaderMoves == ReaderSends \/ ReaderFails \/ ReaderStops \/ Congestion
LEMMA ReaderTypes ==
    ASSUME SessTypeOK, ReaderMoves
    PROVE  SessTypeOK' /\ UNCHANGED <<prog, main, ctx, expired, chan>>
  <1> USE ConnectionAssumption DEF SessTypeOK
  <1>1. CASE ReaderSends
    BY <1>1 DEF ReaderSends
  <1>2. CASE ReaderFails
    BY <1>2 DEF ReaderFails
  <1>3. CASE ReaderStops
    BY <1>3 DEF ReaderStops
  <1>4. CASE Congestion
    BY <1>4 DEF Congestion, sess
  <1> QED BY <1>1, <1>2, <1>3, <1>4 DEF ReaderMoves

\* The types of the program's variables and the place of its Backend.
LEMMA QuietKeeps ==
    ASSUME MainTypeOK, BackendInv, Quiet
    PROVE  MainTypeOK' /\ BackendInv'
  <1>1. CASE Command
    <2>1. SessTypeOK'
      <3>1. full' \in BOOLEAN
        BY <1>1, CommandGoes, AfterGoes DEF MainTypeOK, SessTypeOK
      <3>2. dead' \in BOOLEAN /\ reader' = reader /\ readerDone' = readerDone
        BY <1>1, CommandGoes DEF MainTypeOK, SessTypeOK
      <3>3. chunks' \in 0..ReadCap
        BY <1>1, CommandGoes, ConnectionAssumption DEF MainTypeOK, SessTypeOK
      <3> QED BY <3>1, <3>2, <3>3 DEF MainTypeOK, SessTypeOK
    <2>2. /\ pc' = pc \/ pc' \in {"teardown", "probe", "return", "reply", "cleanup"}
          /\ pc' # pc => (pc' \in {"probe", "return"} => be = "none")
          /\ sent' \in BOOLEAN /\ UNCHANGED <<reqs, be>>
      BY <1>1, CommandGoes, AfterGoes DEF MainTypeOK
    <2>3. UNCHANGED <<program, transport, opts, ctx, expired>>
      BY <1>1, CommandGoes DEF prog
    <2> QED BY <2>1, <2>2, <2>3 DEF MainTypeOK, Places, Commands, BackendInv
  <1>2. CASE ReaderMoves
    BY <1>2, ReaderTypes DEF MainTypeOK, BackendInv, prog, main
  <1>3. CASE CloseSession
    <2>1. SessTypeOK'
      BY <1>3 DEF CloseSession, MainTypeOK, SessTypeOK
    <2> QED BY <1>3, <2>1
        DEF CloseSession, CtxAtTeardown, Goto, MainTypeOK, Places, Commands, BackendInv, prog
  <1>4. CASE ~Command /\ ~ReaderMoves /\ ~CloseSession
    <2>1. UNCHANGED <<sess, full>>
      BY <1>4 DEF Quiet, Command, ReaderMoves, Request, InputEnds, Reply, Return, Refused,
          Closed, Timeout
    <2>2. SessTypeOK'
      BY <2>1, SessStays DEF MainTypeOK
    <2> USE <2>2 DEF MainTypeOK, Places, Commands, BackendInv, prog
    <2>3. CASE Request
      BY <2>3, ConnectionAssumption DEF Request
    <2>4. CASE InputEnds \/ Reply
      BY <2>4 DEF InputEnds, Reply, Goto, Ends
    <2>5. CASE Return \/ Refused
      BY <2>5 DEF Return, CtxAfterDial, Refused, Goto
    <2>6. CASE Closed
      BY <2>6 DEF Closed, Goto
    <2>7. CASE Timeout
      BY <2>7 DEF Timeout, main
    <2> QED BY <1>4, <2>3, <2>4, <2>5, <2>6, <2>7 DEF Quiet, Command, ReaderMoves
  <1> QED BY <1>1, <1>2, <1>3, <1>4

\* Nothing of a channel is left when the program gets to where nothing may be: it
\* comes from such a place, or Close is done.
LEMMA QuietEnds ==
    ASSUME IInv, Quiet
    PROVE  UNCHANGED <<prog, chan>> /\ EndedInv'
  <1>1. UNCHANGED <<prog, chan>>
    <2>1. CASE Command
      BY <2>1, CommandGoes
    <2>2. CASE ReaderMoves
      BY <2>2, ReaderTypes, TypesOfParts DEF IInv, MainTypeOK
    <2>3. CASE ~Command /\ ~ReaderMoves
      BY <2>3 DEF Quiet, Command, ReaderMoves, Request, InputEnds, Reply, Return, Refused,
          CloseSession, Closed, Timeout
    <2> QED BY <2>1, <2>2, <2>3
  <1>2. Ended' => Ended \/ Closed
    <2> USE DEF Ended
    <2>1. CASE Request \/ InputEnds \/ Reply
      BY <2>1 DEF Request, InputEnds, Reply, Goto, Ends
    <2>2. CASE Command
      <3>1. pc \in Commands /\ BackendInv
        BY <2>2, CommandGoes DEF IInv
      <3>2. CASE \E ok \in BOOLEAN : Finish(ok)
        <4>1. /\ pc' \in {"teardown", "probe", "return", "reply", "cleanup"}
              /\ pc' = "reply" => be # "none"
              /\ be' = be
          BY <3>1, <3>2, AfterGoes
        <4> QED BY <4>1
      <3>3. CASE pc' = pc
        BY <3>1, <3>3 DEF Commands
      <3> QED BY <2>2, <3>2, <3>3, CommandGoes
    <2>3. CASE Return \/ CloseSession
      BY <2>3 DEF Return, CloseSession, Goto
    <2>4. CASE Refused
      BY <2>4 DEF Refused, IInv, BackendInv
    <2>5. CASE Timeout
      BY <2>5 DEF Timeout, main
    <2>6. CASE ReaderMoves
      BY <2>6, ReaderTypes, TypesOfParts DEF IInv, MainTypeOK, main
    <2> QED BY <2>1, <2>2, <2>3, <2>4, <2>5, <2>6 DEF Quiet, Command, ReaderMoves
  <1>3. Closed => Away /\ attach \in {"none", "failed", "closed"}
    <2> SUFFICES ASSUME Closed PROVE Away /\ attach \in {"none", "failed", "closed"}
      OBVIOUS
    <2>1. CASE transport = "exec"
      BY <2>1 DEF Closed, IInv, ProcInv, PaneInv, Away
    <2>2. CASE transport # "exec"
      <3>1. transport = "tmux"
        BY <2>2, ConnectionAssumption DEF IInv, TypeOK
      <3> QED BY <2>2, <3>1 DEF Closed, IInv, ProcInv, Away
    <2> QED BY <2>1, <2>2
  <1>4. (Ended \/ Closed) => Away' /\ attach' \in {"none", "failed", "closed"}
    BY <1>1, <1>3 DEF IInv, EndedInv, Away, chan, proc, tmux
  <1> QED BY <1>1, <1>2, <1>4 DEF EndedInv

\* A step that leaves the channel alone ends the command's context only by the
\* timeout, or with the child away.
LEMMA QuietStep ==
    ASSUME IInv, Quiet
    PROVE  IInv'
  <1>1. UNCHANGED <<prog, chan>> /\ EndedInv'
    BY QuietEnds
  <1>2. TypeOK' /\ BackendInv'
    <2>1. MainTypeOK' /\ BackendInv'
      BY QuietKeeps, TypesOfParts DEF IInv
    <2>2. X!SubprocessTypeOK' /\ T!TmuxTypeOK'
      BY <1>1 DEF IInv, TypeOK, X!SubprocessTypeOK, T!TmuxTypeOK, chan, proc, tmux, T!Attaching
    <2> QED BY <2>1, <2>2 DEF TypeOK, MainTypeOK, SessTypeOK, Places
  <1>3. ProcInv' /\ PaneInv' /\ LogInv'
    BY <1>1 DEF IInv, ProcInv, PaneInv, LogInv, Away, chan, proc, tmux, prog
  <1>4. CtxInv'
    <2>1. program' = program /\ graceful' = graceful /\ (Away' <=> Away)
      BY <1>1 DEF prog, chan, proc, Away
    <2>2. CASE Timeout
      BY <2>2 DEF Timeout, CtxInv
    <2>3. CASE Refused \/ Closed
      <3>1. Ended'
        BY <2>3 DEF Refused, Closed, Goto, Ended, IInv, BackendInv
      <3>2. Away' /\ expired' = expired
        BY <2>3, <3>1, <1>1 DEF EndedInv, Refused, Closed
      <3> QED BY <2>1, <3>2 DEF IInv, CtxInv
    <2>4. CASE Return
      BY <2>1, <2>4 DEF Return, CtxAfterDial, IInv, CtxInv
    <2>5. CASE expired' = expired /\ ctx' = ctx
      BY <2>1, <2>5 DEF IInv, CtxInv
    <2>6. CASE Command
      BY <2>5, <2>6, CommandGoes
    <2>7. CASE ReaderMoves
      BY <2>5, <2>7, ReaderTypes, TypesOfParts DEF IInv, MainTypeOK
    <2>8. CASE Request \/ InputEnds \/ Reply \/ CloseSession
      BY <2>5, <2>8 DEF Request, InputEnds, Reply, CloseSession, CtxAtTeardown
    <2> QED BY <2>2, <2>3, <2>4, <2>6, <2>7, <2>8 DEF Quiet, Command, ReaderMoves
  <1> QED BY <1>1, <1>2, <1>3, <1>4 DEF IInv

\* Each dial begins anew, with no child.
LEMMA DialStep ==
    ASSUME IInv, Dial
    PROVE  IInv'
  <1>1. /\ UNCHANGED <<program, transport, opts>> /\ T!Forget /\ X!StartFails
        /\ pc' = "open" /\ UNCHANGED <<sent, reqs, be>> /\ ctx' = "live" /\ expired' = FALSE
        /\ dead' = FALSE /\ reader' = "none" /\ readerDone' = FALSE /\ chunks' = 0
        /\ full' = full /\ pc = "dial"
    BY DEF Dial, prog, Goto
  <1>2. X!SubprocessTypeOK' /\ ProcInv' /\ graceful' /\ Away'
    BY <1>1, FreshKeeps, ConnectionAssumption
  <1>3. T!TmuxTypeOK' /\ PaneInv' /\ LogInv'
    BY <1>1, ForgetKeeps DEF IInv, TypeOK
  <1>4. MainTypeOK'
    <2>1. SessTypeOK'
      <3>1. 0 \in 0..ReadCap
        BY ConnectionAssumption
      <3> QED BY <1>1, <3>1 DEF IInv, TypeOK, SessTypeOK
    <2> QED BY <1>1, <2>1 DEF IInv, TypeOK, MainTypeOK, Places
  <1>5. BackendInv' /\ EndedInv' /\ CtxInv'
    BY <1>1, <1>2 DEF IInv, BackendInv, EndedInv, Ended, CtxInv
  <1>6. TypeOK'
    BY <1>2, <1>3, <1>4 DEF TypeOK, MainTypeOK, SessTypeOK, Places
  <1> QED BY <1>2, <1>3, <1>5, <1>6 DEF IInv

\* Where a dial with a channel, or with none, goes on.
LEMMA OpenGoes ==
    ASSUME MainTypeOK, BackendInv, pc = "open", NewSession \/ (Goto("refused") /\ UNCHANGED sess)
           \/ UNCHANGED <<main, sess>>, UNCHANGED <<prog, ctx, expired, full>>
    PROVE  /\ MainTypeOK' /\ BackendInv'
           /\ NewSession => ~Ended'
           /\ Ended' => pc' = "refused" /\ ~NewSession
  <1>1. SessTypeOK'
    BY DEF MainTypeOK, SessTypeOK, NewSession, sess
  <1> QED BY <1>1 DEF MainTypeOK, Places, BackendInv, NewSession, WithChannel, FindAgent, Goto,
      Ended, prog, main, Commands

\* The child is started while the context lives; or there is none.
LEMMA StartStep ==
    ASSUME IInv, StartChild
    PROVE  IInv'
  <1>1. /\ UNCHANGED <<prog, ctx, expired, full, tmux>> /\ pc = "open" /\ transport = "exec"
        /\ \/ ctx = "live" /\ X!Start /\ NewSession
           \/ X!StartFails /\ Goto("refused") /\ UNCHANGED sess
    BY DEF StartChild
  <1>2. MainTypeOK' /\ BackendInv' /\ (NewSession => ~Ended')
    BY <1>1, OpenGoes, TypesOfParts DEF IInv
  <1>3. X!SubprocessTypeOK' /\ ProcInv' /\ graceful' /\ (X!StartFails => Away')
    BY <1>1, FreshKeeps, ConnectionAssumption DEF prog
  <1>4. T!TmuxTypeOK' /\ PaneInv' /\ LogInv' /\ attach' = "none"
    BY <1>1 DEF IInv, TypeOK, T!TmuxTypeOK, T!Attaching, PaneInv, LogInv, tmux, prog
  <1>5. TypeOK'
    BY <1>2, <1>3, <1>4 DEF TypeOK, MainTypeOK, SessTypeOK, Places
  <1>6. EndedInv' /\ CtxInv'
    BY <1>1, <1>2, <1>3, <1>4 DEF EndedInv, CtxInv
  <1> QED BY <1>2, <1>3, <1>4, <1>5, <1>6 DEF IInv

\* A step of New; the dial is refused where it has failed.
LEMMA AttachStep ==
    ASSUME IInv, AttachPane
    PROVE  IInv'
  <1>1. /\ UNCHANGED <<prog, ctx, expired, full, proc>> /\ pc = "open" /\ transport = "tmux"
        /\ T!TmuxNew
        /\ \/ attach' = "open" /\ NewSession
           \/ attach' = "failed" /\ Goto("refused") /\ UNCHANGED sess
           \/ UNCHANGED <<main, sess>>
    BY DEF AttachPane
  <1>2. MainTypeOK' /\ BackendInv' /\ (NewSession => ~Ended') /\ (Ended' => pc' = "refused")
    BY <1>1, OpenGoes, TypesOfParts DEF IInv
  <1>3. T!TmuxTypeOK' /\ PaneInv' /\ LogInv'
    BY <1>1, PaneKeeps, ConnectionAssumption DEF IInv, TypeOK, PaneStep, prog
  <1>4. X!SubprocessTypeOK' /\ ProcInv' /\ CtxInv' /\ Away'
    BY <1>1 DEF IInv, TypeOK, X!SubprocessTypeOK, ProcInv, CtxInv, Away, proc, prog
  <1>5. TypeOK'
    BY <1>2, <1>3, <1>4 DEF TypeOK, MainTypeOK, SessTypeOK, Places
  <1>6. EndedInv'
    BY <1>1, <1>2, <1>4 DEF EndedInv, main
  <1> QED BY <1>2, <1>3, <1>4, <1>5, <1>6 DEF IInv

\* No other step of the channel is os/exec's kill.
LEMMA NoKill ==
    ASSUME X!SubprocessInternal \/ X!SubprocessClose \/ X!Read
    PROVE  ~X!WatchCtx
  <1> USE DEF X!WatchCtx
  <1>1. CASE X!SubprocessInternal
    BY <1>1 DEF X!SubprocessInternal, X!ChildWrites, X!ChildExits, X!KernelKills, X!Reap,
        X!Exited
  <1>2. CASE X!SubprocessClose
    BY <1>2 DEF X!SubprocessClose, X!CloseStdin, X!SeesExit, X!Terminate, X!Kill,
        X!CloseStdout
  <1>3. CASE X!Read
    BY <1>3 DEF X!Read
  <1> QED BY <1>1, <1>2, <1>3

\* A step of the child, its Read or its Close.
LEMMA ChildSteps ==
    ASSUME IInv, ChildStep, X!WatchCtx => ctx = "done",
           UNCHANGED <<prog, main, ctx, expired, tmux>>, SessTypeOK'
    PROVE  IInv'
  <1>1. X!SubprocessTypeOK' /\ ProcInv' /\ (Away => Away' /\ ~X!WatchCtx)
        /\ (~X!WatchCtx => graceful' = graceful)
    BY ChildKeeps, ConnectionAssumption DEF IInv, TypeOK, prog
  <1>2. T!TmuxTypeOK' /\ PaneInv' /\ LogInv'
    BY DEF IInv, TypeOK, T!TmuxTypeOK, T!Attaching, PaneInv, LogInv, tmux, prog
  <1>3. MainTypeOK' /\ BackendInv'
    BY DEF IInv, TypeOK, MainTypeOK, Places, BackendInv, prog, main
  <1>4. EndedInv' /\ CtxInv'
    BY <1>1 DEF IInv, EndedInv, Ended, CtxInv, prog, main, tmux
  <1>5. TypeOK'
    BY <1>1, <1>2, <1>3 DEF TypeOK, MainTypeOK, SessTypeOK, Places
  <1> QED BY <1>1, <1>2, <1>3, <1>4, <1>5 DEF IInv

\* A step of the pane, of Read, or of Close, which is called before the end.
LEMMA PaneSteps ==
    ASSUME IInv, transport = "tmux", (T!TmuxClose /\ pc = "closing") \/ T!ReadLog \/ T!TmuxAround,
           UNCHANGED <<prog, main, ctx, expired, proc>>, SessTypeOK'
    PROVE  IInv'
  <1>1. T!TmuxTypeOK' /\ PaneInv' /\ LogInv'
    BY PaneKeeps, ConnectionAssumption DEF IInv, TypeOK, PaneStep, prog
  <1>2. X!SubprocessTypeOK' /\ ProcInv' /\ CtxInv'
    BY DEF IInv, TypeOK, X!SubprocessTypeOK, ProcInv, CtxInv, Away, proc, prog
  <1>3. MainTypeOK' /\ BackendInv'
    BY DEF IInv, TypeOK, MainTypeOK, Places, BackendInv, prog, main
  <1>4. pc = "closing" \/ attach' = attach
    BY DEF T!ReadLog, T!TmuxAround, T!PaneWrites, T!PaneDies, T!OtherPipes
  <1>5. EndedInv'
    BY <1>4 DEF IInv, EndedInv, Ended, Away, main, proc
  <1>6. TypeOK'
    BY <1>1, <1>2, <1>3 DEF TypeOK, MainTypeOK, SessTypeOK, Places
  <1> QED BY <1>1, <1>2, <1>3, <1>5, <1>6 DEF IInv

-----------------------------------------------------------------------------
(* The theorems.                                                           *)

\* Nothing is started or attached to begin with.
LEMMA InitIInv == Init => IInv
  <1> SUFFICES ASSUME Init PROVE IInv
    OBVIOUS
  <1>1. /\ child = "none" /\ heir = FALSE /\ signals = {} /\ graceful = TRUE
        /\ ends = {} /\ output = [unread |-> 0, left |-> MaxOut] /\ closing = "no"
    BY DEF Init, X!SubprocessInit
  <1>2. /\ pane = "up" /\ pipe \in {"none", "other"} /\ toggles \in BOOLEAN
        /\ out = 0 /\ from = 0 /\ log = <<>> /\ there = FALSE
        /\ attach = "none" /\ pos = 0 /\ undone = {}
    BY DEF Init, T!TmuxInit
  <1>3. X!SubprocessTypeOK /\ ProcInv
    <2>1. output \in [unread : 0..MaxOut, left : 0..MaxOut]
          /\ output.unread + output.left <= MaxOut
      BY <1>1, ConnectionAssumption
    <2>2. X!SubprocessTypeOK
      BY <1>1, <2>1 DEF X!SubprocessTypeOK
    <2> QED BY <1>1, <2>1, <2>2 DEF ProcInv, Away
  <1>4. T!TmuxTypeOK
    <2>1. Len(log) = 0 /\ log \in Seq(1..MaxPane)
      BY <1>2
    <2>2. 0 \in 0..MaxPane /\ pos \in 0..Len(log)
      BY <1>2, <2>1, ConnectionAssumption
    <2> QED BY <1>2, <2>1, <2>2 DEF T!TmuxTypeOK, T!Attaching
  <1>5. PaneInv /\ LogInv
    BY <1>2 DEF PaneInv, LogInv
  <1>6. MainTypeOK /\ BackendInv
    <2>1. MainTypeOK
      <3>1. /\ program \in Programs /\ transport \in Transports
            /\ opts \in [noAgent : BOOLEAN, path : BOOLEAN, install : BOOLEAN]
            /\ pc \in {"idle", "dial"} /\ sent = FALSE /\ reqs = 0 /\ be = "none"
            /\ ctx = "none" /\ expired = FALSE /\ dead = FALSE /\ reader = "none"
            /\ readerDone = FALSE /\ chunks = 0 /\ full = FALSE
        BY DEF Init
      <3>2. 0 \in 0..MaxReqs /\ 0 \in 0..ReadCap
        BY ConnectionAssumption
      <3>3. SessTypeOK
        BY <3>1, <3>2 DEF SessTypeOK
      <3> QED BY <3>1, <3>2, <3>3 DEF MainTypeOK, Places
    <2>2. BackendInv
      BY DEF Init, BackendInv
    <2> QED BY <2>1, <2>2
  <1>7. EndedInv /\ CtxInv
    BY <1>1, <1>2 DEF EndedInv, CtxInv, Away
  <1> QED BY <1>3, <1>4, <1>5, <1>6, <1>7, TypesOfParts DEF IInv

\* The invariant is inductive.
LEMMA NextIInv == IInv /\ [Next]_vars => IInv'
  <1> SUFFICES ASSUME IInv, [Next]_vars PROVE IInv'
    OBVIOUS
  <1>1. CASE Quiet
    BY <1>1, QuietStep
  <1>2. CASE Dial
    BY <1>2, DialStep
  <1>3. CASE StartChild
    BY <1>3, StartStep
  <1>4. CASE AttachPane
    BY <1>4, AttachStep
  <1>12. SessTypeOK /\ (UNCHANGED <<sess, full>> => SessTypeOK')
    BY SessStays, TypesOfParts DEF IInv, MainTypeOK
  <1>5. CASE CloseChild
    BY <1>5, <1>12, NoKill, ChildSteps DEF CloseChild, ChildStep
  <1>6. CASE WatchCtx
    BY <1>6, <1>12, ChildSteps DEF WatchCtx, ChildStep
  <1>7. CASE Child
    BY <1>7, <1>12, NoKill, ChildSteps DEF Child, ChildStep
  <1>8. CASE ReaderReads
    <2>1. SessTypeOK' /\ UNCHANGED <<prog, main, ctx, expired>>
      BY <1>8, <1>12, ConnectionAssumption DEF ReaderReads, HasRoom, SessTypeOK
    <2>2. CASE transport = "exec" /\ X!Read /\ UNCHANGED tmux
      BY <2>1, <2>2, NoKill, ChildSteps DEF ChildStep
    <2>3. CASE transport = "tmux" /\ T!ReadLog /\ UNCHANGED proc
      BY <2>1, <2>3, PaneSteps
    <2> QED BY <1>8, <2>2, <2>3 DEF ReaderReads
  <1>9. CASE ClosePane
    BY <1>9, <1>12, PaneSteps DEF ClosePane
  <1>10. CASE Pane
    BY <1>10, <1>12, PaneSteps DEF Pane
  <1>11. CASE UNCHANGED vars
    BY <1>11
    DEF IInv, TypeOK, X!SubprocessTypeOK, T!TmuxTypeOK, T!Attaching, BackendInv, ProcInv,
        PaneInv, LogInv, EndedInv, Ended, CtxInv, Away, vars, prog, main, sess, chan, proc, tmux
  <1> QED BY <1>1, <1>2, <1>3, <1>4, <1>5, <1>6, <1>7, <1>8, <1>9, <1>10, <1>11
      DEF Next, MainStep, Reader, Quiet

\* The types of every variable, those of the two channels included.
THEOREM TypeCorrect == Spec => []TypeOK
  <1>1. IInv => TypeOK
    BY DEF IInv
  <1> QED BY <1>1, InitIInv, NextIInv, PTL DEF Spec

\* Whichever command of a dial fails, and however the child or the pane ends, a
\* program that has stopped, or a server whose dial has failed, has no child and no
\* open end of its pipes; no pipe of the pane, unless Close's pipe-pane has failed;
\* and no log file, unless its removal has.
THEOREM NothingIsLeft == Spec => []NothingLeft
  <1>1. IInv => NothingLeft
    BY DEF IInv, NothingLeft, EndedInv, Ended, Away, ProcInv, PaneInv,
        X!SubprocessGone, T!TmuxGone
  <1> QED BY <1>1, InitIInv, NextIInv, PTL DEF Spec

\* The cancelled context of the command never kills a child before its Close has
\* waited for it to go by itself: only the overall timeout does.
THEOREM ChildLeaves == Spec => []ChildMayLeave
  <1>1. IInv => ChildMayLeave
    BY DEF IInv, CtxInv, ChildMayLeave
  <1> QED BY <1>1, InitIInv, NextIInv, PTL DEF Spec

\* What a tmux channel reads begins where the pane was when its pipe was opened,
\* and has no gap, on the first dial and on every later one.
THEOREM LogIsFromAttach == Spec => []ReadsFromAttach
  <1>1. IInv => ReadsFromAttach
    BY DEF IInv, LogInv, ReadsFromAttach, T!ReadsFromAttach
  <1> QED BY <1>1, InitIInv, NextIInv, PTL DEF Spec
=============================================================================
