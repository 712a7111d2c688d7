------------------------ MODULE FramedSessionProofs ------------------------
(***************************************************************************)
(* Theorems about FramedSession, for any set of calls, any chunking and    *)
(* any capacity: the types, the lease, and that an interrupt stops no      *)
(* command of another call that still waits for it.  Then the order of the *)
(* chunks on the wire and what the calls return: no command is altered on  *)
(* its way, the prelude comes first, the session implements                *)
(* AbstractSession, and a result is that of the call's own command.  The   *)
(* last three under WholeLines: no Pipe's stdin is written to after the    *)
(* Pipe has ended, or the channel takes each command in one Write.         *)
(***************************************************************************)
EXTENDS FramedSession, SequenceTheorems, TLAPS

\* The types of the messages and of the chunks in flight.
LEMMA MessageTypes ==
    /\ \A k \in {"BEG", "OUT", "END", "ERR"}, f \in Frames \cup {NoFrame}, code \in {0, 1} :
          Msg(k, f, code) \in Message
    /\ ReadError \in Message
    /\ \A c \in Calls : stage \in [Calls -> Stages] => Frame(c) \in Frames
    /\ NoJob \in [f : Frames \cup {NoFrame}, framed : BOOLEAN]
  BY DEF Msg, ReadError, Message, Frames, NoFrame, Frame, Stages, NoJob

\* How far a call has written its command: TypeOK is not inductive without it,
\* since only the loop condition of writeAll bounds the offset.
OffsetInv ==
    \A c \in Calls :
        /\ pc[c] \in {"new", "lock"} => off[c] = 0
        /\ pc[c] = "write" => off[c] < Chunks

IInv == TypeOK /\ OffsetInv

\* Ending a call keeps the types.
LEMMA FinishType ==
    ASSUME NEW c \in Calls, NEW e \in Results, TypeOK, Finish(c, e)
    PROVE  /\ mu' \in Calls \cup {NoCall}
           /\ pc' \in [Calls -> {"new", "lock", "done"} \cup Holding]
           /\ res' \in [Calls -> Results]
  BY DEF TypeOK, Finish, Holding, Pumping

\* Sending puts a well-typed chunk on the wire.
LEMMA SendType ==
    ASSUME NEW c \in Calls, TypeOK, NEW k \in {"PART", "STDIN", "INT", "QUIT"},
           NEW i \in 0..Chunks, Send(k, Frame(c), i)
    PROVE  toRemote' \in Seq(Input)
  <1>1. Frame(c) \in Frames
    BY MessageTypes DEF TypeOK
  <1>2. [k |-> k, f |-> Frame(c), i |-> i] \in Input
    BY <1>1 DEF Input
  <1> QED BY <1>2 DEF Send, TypeOK

\* So does printing, on the way back.
LEMMA EmitType ==
    ASSUME TypeOK, NEW k \in {"BEG", "OUT", "END"}, NEW f \in Frames \cup {NoFrame},
           NEW code \in {0, 1}, Emit(k, f, code)
    PROVE  fromRemote' \in Seq(Message)
  <1>1. Msg(k, f, code) \in Message
    BY MessageTypes
  <1> QED BY <1>1 DEF Emit, TypeOK

\* What does not touch the connection keeps its types.
LEMMA LinkStays == TypeOK /\ UNCHANGED link => LinkOK'
  BY DEF TypeOK, LinkOK, link

\* A goroutine that handles a message keeps the types.
LEMMA ReceiveType ==
    ASSUME NEW c \in Calls, TypeOK, Receive(c)
    PROVE  TypeOK'
  <1> USE LinkStays
  <1> PICK m \in {Head(readCh) : i \in 1..Len(readCh)} :
        \/ SkipNoise(c, m) \/ SeeBeg(c, m) \/ Capture(c, m)
        \/ SeeEnd(c, m) \/ SeeReadError(c, m)
    BY DEF Receive
  <1>1. Take(c, m)
    BY DEF SkipNoise, SeeBeg, Capture, SeeEnd, SeeReadError
  <1>2. /\ readCh' \in Seq(Message) /\ m \in Message
        /\ reader' = reader /\ held' = held
    BY <1>1 DEF Take, TypeOK
  <1>3. \A x \in Seq(Message) : Append(x, m) \in Seq(Message)
    BY <1>2
  <1>4. CASE SkipNoise(c, m)
    BY <1>2, <1>4 DEF SkipNoise, TypeOK, sess, caller, cancel, parser, chan, remote, user
  <1>5. CASE SeeBeg(c, m)
    BY <1>2, <1>5 DEF SeeBeg, TypeOK, sess, caller, cancel, chan, remote, user
  <1>6. CASE Capture(c, m)
    <2>1. out' \in [Calls -> Seq(Message)]
      BY <1>3, <1>6 DEF Capture, TypeOK
    <2>2. /\ mu' \in Calls \cup {NoCall}
          /\ pc' \in [Calls -> {"new", "lock", "done"} \cup Holding]
          /\ res' \in [Calls -> Results]
      <3>1. CASE Finish(c, "protocol")
        BY <3>1, FinishType DEF Results
      <3>2. CASE UNCHANGED <<mu, pc, res>>
        BY <3>2 DEF TypeOK
      <3>3. CASE pc' = [pc EXCEPT ![c] = "flush"] /\ UNCHANGED <<mu, res>>
        BY <3>3 DEF TypeOK, Holding, Pumping
      <3> QED BY <1>6, <3>1, <3>2, <3>3 DEF Capture
    <2> QED BY <1>2, <1>6, <2>1, <2>2 DEF Capture, TypeOK, cancel, chan, remote, user
  <1>7. CASE SeeEnd(c, m)
    <2>1. out' \in [Calls -> Seq(Message)] /\ capturing' \in [Calls -> BOOLEAN]
      <3>1. \A x \in Seq(Message) : [out EXCEPT ![c] = x] \in [Calls -> Seq(Message)]
        BY DEF TypeOK
      <3>2. out[c] \in Seq(Message) /\ <<>> \in Seq(Message)
        BY DEF TypeOK
      <3>3. Append(out[c], m) \in Seq(Message)
        BY <1>3, <3>2
      <3>4. out' = [out EXCEPT ![c] = <<>>] \/ out' = [out EXCEPT ![c] = Append(out[c], m)]
        BY <1>7 DEF SeeEnd
      <3>5. capturing' = [capturing EXCEPT ![c] = FALSE]
        BY <1>7 DEF SeeEnd
      <3> QED BY <3>1, <3>2, <3>3, <3>4, <3>5 DEF TypeOK
    <2>2. /\ mu' \in Calls \cup {NoCall}
          /\ pc' \in [Calls -> {"new", "lock", "done"} \cup Holding]
          /\ res' \in [Calls -> Results]
          /\ preluded' \in BOOLEAN
          /\ stage' \in [Calls -> Stages]
          /\ off' \in [Calls -> 0..Chunks]
      <3>1. CASE /\ \E e \in {"canceled", "protocol", "ok"} : Finish(c, e)
                 /\ UNCHANGED <<preluded, stage, off>>
        BY <3>1, FinishType DEF Results, TypeOK
      <3>2. CASE /\ preluded' = TRUE
                 /\ stage' = [stage EXCEPT ![c] = "user"]
                 /\ off' = [off EXCEPT ![c] = 0]
                 /\ pc' = [pc EXCEPT ![c] = "write"]
                 /\ UNCHANGED <<mu, res>>
        BY <3>2, SizeAssumption DEF TypeOK, Holding, Stages
      <3> QED BY <1>7, <3>1, <3>2 DEF SeeEnd, PreludeEnds, UserEnds
    <2> QED BY <1>2, <1>7, <2>1, <2>2 DEF SeeEnd, TypeOK, cancel, chan, remote, user
  <1>8. CASE SeeReadError(c, m)
    BY <1>2, <1>8, FinishType DEF SeeReadError, TypeOK, cancel, parser, chan, remote, user, Results
  <1> QED BY <1>4, <1>5, <1>6, <1>7, <1>8

\* Every step of a goroutine inside the session keeps the types.
LEMMA SessionType ==
    ASSUME NEW c \in Calls, TypeOK, OffsetInv, SessionStep(c)
    PROVE  TypeOK'
  <1> USE LinkStays DEF sess, caller, cancel, parser, rd, chan, remote, user
  <1>1. CASE Acquire(c)
    BY <1>1 DEF Acquire, TypeOK, Holding, Stages
  <1>2. CASE Release(c)
    BY <1>2 DEF Release, TypeOK
  <1>3. CASE WriteChunk(c)
    <2>1. off[c] + 1 \in 0..Chunks
      BY <1>3, SizeAssumption DEF WriteChunk, TypeOK, OffsetInv
    <2>2. toRemote' \in Seq(Input)
      BY <1>3, <2>1, SendType DEF WriteChunk
    <2> QED BY <1>3, <2>1, <2>2 DEF WriteChunk, AfterWrite, TypeOK, Holding, Pumping
  <1>4. CASE WriteFails(c)
    BY <1>4, FinishType DEF WriteFails, TypeOK, Results
  <1>5. CASE Receive(c)
    BY <1>5, ReceiveType
  <1>6. CASE SeeReaderGone(c)
    BY <1>6, FinishType DEF SeeReaderGone, TypeOK, Results
  <1>7. CASE SoftCancel(c)
    <2>1. toRemote' \in Seq(Input)
      BY <1>7, SendType, SizeAssumption DEF SoftCancel
    <2> QED BY <1>7, <2>1 DEF SoftCancel, TypeOK
  <1>8. CASE HardCancel(c)
    <2>1. toRemote' \in Seq(Input)
      BY <1>8, SendType, SizeAssumption DEF HardCancel
    <2> QED BY <1>8, <2>1 DEF HardCancel, TypeOK
  <1>9. CASE CancelWriteFails(c)
    BY <1>9, FinishType DEF CancelWriteFails, TypeOK, Results
  <1>10. CASE DeclareDead(c)
    BY <1>10, FinishType DEF DeclareDead, TypeOK, Results
  <1>11. CASE FlushFails(c)
    BY <1>11, FinishType DEF FlushFails, TypeOK, Results
  <1> QED BY <1>1, <1>2, <1>3, <1>4, <1>5, <1>6, <1>7, <1>8, <1>9, <1>10, <1>11 DEF SessionStep

\* So does every step of a caller or of the user of a Pipe.
LEMMA UserType ==
    ASSUME NEW c \in Calls, TypeOK, UserStep(c)
    PROVE  TypeOK'
  <1> USE LinkStays DEF sess, caller, cancel, parser, rd, chan, remote, user
  <1>1. CASE Begin(c)
    BY <1>1 DEF Begin, TypeOK, Results
  <1>2. CASE PipeRead(c)
    BY <1>2 DEF PipeRead, TypeOK, Holding, Pumping
  <1>3. CASE CancelCtx(c)
    BY <1>3 DEF CancelCtx, TypeOK
  <1>4. CASE PipeCloseStdout(c)
    BY <1>4 DEF PipeCloseStdout, TypeOK
  <1>5. CASE PipeWrite(c)
    <2>1. toRemote' \in Seq(Input)
      BY <1>5, SendType, SizeAssumption DEF PipeWrite
    <2>2. fed' \in [Calls -> Nat]
      BY <1>5 DEF PipeWrite, TypeOK
    <2> QED BY <1>5, <2>1, <2>2 DEF PipeWrite, TypeOK
  <1> QED BY <1>1, <1>2, <1>3, <1>4, <1>5 DEF UserStep

\* The reader goroutine moves messages, and Close only changes flags.
LEMMA ReaderCloseType ==
    ASSUME TypeOK, ReaderStep \/ CloseStep
    PROVE  TypeOK'
  <1> USE LinkStays DEF sess, caller, cancel, parser, rd, chan, remote, user
  <1>1. CASE ReaderRead
    <2>1. held' \in Seq(Message) /\ fromRemote' \in Seq(Message)
      <3>1. CASE fromRemote # <<>> /\ held' = <<Head(fromRemote)>> /\ fromRemote' = Tail(fromRemote)
        BY <3>1 DEF TypeOK
      <3>2. CASE held' = <<ReadError>> /\ UNCHANGED fromRemote
        BY <3>2, MessageTypes DEF TypeOK
      <3> QED BY <1>1, <3>1, <3>2 DEF ReaderRead
    <2>2. LinkOK'
      BY <1>1 DEF ReaderRead, TypeOK, LinkOK
    <2> QED BY <1>1, <2>1, <2>2 DEF ReaderRead, TypeOK
  <1>2. CASE ReaderSend
    <2>1. readCh' \in Seq(Message) /\ held' \in Seq(Message)
      BY <1>2 DEF ReaderSend, TypeOK
    <2> QED BY <1>2, <2>1 DEF ReaderSend, TypeOK
  <1>3. CASE ReaderStop
    BY <1>3 DEF ReaderStop, TypeOK
  <1>4. CASE CloseStep
    BY <1>4 DEF CloseStep, CloseMark, CloseStop, CloseChannel, TypeOK
  <1> QED BY <1>1, <1>2, <1>3, <1>4 DEF ReaderStep

\* A write that blocks, or goes on, changes nothing else.
Steady ==
    UNCHANGED <<sess, caller, cancel, parser, rd, chan, remote, user, relinked, relinks>>
LEMMA ChannelSteady == ChannelStep => Steady /\ stalled' \in BOOLEAN
  BY DEF ChannelStep, Stall, Unstall, Steady

\* The remote side keeps the types.
LEMMA RemoteType ==
    ASSUME TypeOK, RemoteStep
    PROVE  TypeOK'
  <1> USE LinkStays DEF sess, caller, cancel, parser, rd, chan, remote, user
  <1>0. HeadIsData => /\ Head(toRemote) \in Input /\ Tail(toRemote) \in Seq(Input)
                      /\ Append(line, Head(toRemote)) \in Seq(Input)
    BY DEF HeadIsData, TypeOK
  <1>1. CASE ShellRead
    BY <1>0, <1>1 DEF ShellRead, TypeOK
  <1>2. ASSUME NEW f \in Frames, ShellStart(f) PROVE TypeOK'
    <2>1. fromRemote' \in Seq(Message)
      BY <1>2, MessageTypes DEF ShellStart, Emit, TypeOK
    <2> QED BY <1>0, <1>2, <2>1 DEF ShellStart, TypeOK
  <1>3. ASSUME NEW f \in Frames, ShellStartGarbled(f) PROVE TypeOK'
    <2>1. fromRemote' \in Seq(Message)
      <3>1. CASE UNCHANGED fromRemote
        BY <3>1 DEF TypeOK
      <3>2. CASE Emit("BEG", f, 0)
        BY <3>2, EmitType
      <3> QED BY <1>3, <3>1, <3>2 DEF ShellStartGarbled
    <2>2. /\ job' \in [f : Frames \cup {NoFrame}, framed : BOOLEAN]
          /\ exec' \in [Frames -> {"no", "running", "altered", "done", "failed", "aborted"}]
      <3>1. CASE UNCHANGED <<job, exec>>
        BY <3>1 DEF TypeOK
      <3>2. CASE job' = [f |-> f, framed |-> FALSE] /\ exec' = [exec EXCEPT ![f] = "running"]
        BY <3>2 DEF TypeOK
      <3>3. CASE job' = [f |-> f, framed |-> TRUE] /\ exec' = [exec EXCEPT ![f] = "altered"]
        BY <3>3 DEF TypeOK
      <3> QED BY <1>3, <3>1, <3>2, <3>3 DEF ShellStartGarbled
    <2>3. toRemote' \in Seq(Input) /\ line' \in Seq(Input)
      <3>1. toRemote' = Tail(toRemote) /\ line' = <<>> /\ HeadIsData
        BY <1>3 DEF ShellStartGarbled
      <3> QED BY <1>0, <3>1
    <2>4. UNCHANGED <<sess, caller, cancel, parser, rd, closer, wrote, down, user, link>>
      BY <1>3 DEF ShellStartGarbled
    <2> QED BY <2>1, <2>2, <2>3, <2>4 DEF TypeOK
  <1>4. CASE JobRead
    BY <1>0, <1>4 DEF JobRead, TypeOK
  <1>5. job.f \in Frames \cup {NoFrame}
    BY DEF TypeOK
  <1>6. CASE JobPrint
    <2>1. fromRemote' \in Seq(Message)
      BY <1>5, <1>6, MessageTypes DEF JobPrint, Emit, TypeOK
    <2>2. wrote' \in [Frames -> Nat]
      <3>1. wrote' = [wrote EXCEPT ![job.f] = wrote[job.f] + 1]
        BY <1>6 DEF JobPrint
      <3>2. wrote \in [Frames -> Nat]
        BY DEF TypeOK
      <3>3. CASE job.f \in Frames
        BY <3>1, <3>2, <3>3
      <3>4. CASE job.f \notin Frames
        BY <3>1, <3>2, <3>4
      <3> QED BY <3>3, <3>4
    <2> QED BY <1>6, <2>1, <2>2 DEF JobPrint, TypeOK
  <1>7. ASSUME NEW code \in {0, 1}, JobOver(code)
        PROVE  /\ fromRemote' \in Seq(Message)
               /\ job' \in [f : Frames \cup {NoFrame}, framed : BOOLEAN]
               /\ exec' \in [Frames -> {"no", "running", "altered", "done", "failed", "aborted"}]
    <2>1. fromRemote' \in Seq(Message)
      <3>1. CASE UNCHANGED fromRemote
        BY <3>1 DEF TypeOK
      <3>2. CASE Emit("END", job.f, code)
        BY <3>2, <1>5, EmitType
      <3> QED BY <1>7, <3>1, <3>2 DEF JobOver
    <2> QED BY <1>7, <2>1, MessageTypes DEF JobOver, TypeOK
  <1>8. ASSUME NEW code \in {0, 1}, JobExit(code) PROVE TypeOK'
    BY <1>7, <1>8 DEF JobExit, TypeOK
  <1>9. ASSUME NEW p \in 1..Len(toRemote), Signal(p) PROVE TypeOK'
    <2>1. SubSeq(toRemote, p + 1, Len(toRemote)) \in Seq(Input)
      BY DEF TypeOK
    <2>2. /\ fromRemote' \in Seq(Message)
          /\ job' \in [f : Frames \cup {NoFrame}, framed : BOOLEAN]
          /\ exec' \in [Frames -> {"no", "running", "altered", "done", "failed", "aborted"}]
      <3>1. CASE UNCHANGED <<job, exec, fromRemote>>
        BY <3>1 DEF TypeOK
      <3>2. CASE JobOver(1)
        BY <3>2, <1>7
      <3>3. CASE job' = NoJob /\ exec' = [exec EXCEPT ![job.f] = "aborted"] /\ UNCHANGED fromRemote
        BY <3>3, MessageTypes DEF TypeOK
      <3> QED BY <1>9, <3>1, <3>2, <3>3 DEF Signal
    <2>3. toRemote' \in Seq(Input) /\ line' \in Seq(Input)
      <3>1. toRemote' = SubSeq(toRemote, p + 1, Len(toRemote)) /\ line' = <<>>
        BY <1>9 DEF Signal
      <3> QED BY <2>1, <3>1
    <2>4. UNCHANGED <<sess, caller, cancel, parser, rd, closer, wrote, down, user, link>>
      BY <1>9 DEF Signal
    <2> QED BY <2>1, <2>2, <2>3, <2>4 DEF TypeOK
  <1>10. CASE RemoteDies
    <2>1. fromRemote' \in Seq(Message)
      BY <1>10, MessageTypes DEF RemoteDies, TypeOK
    <2> QED BY <1>10, <2>1 DEF RemoteDies, TypeOK
  <1>11. CASE Relink
    <2>1. exec' \in [Frames -> {"no", "running", "altered", "done", "failed", "aborted"}]
      BY <1>11 DEF Relink, TypeOK
    <2>2. /\ toRemote' \in Seq(Input) /\ fromRemote' \in Seq(Message) /\ line' \in Seq(Input)
          /\ job' \in [f : Frames \cup {NoFrame}, framed : BOOLEAN]
      BY <1>11, MessageTypes DEF Relink
    <2>3. LinkOK'
      BY <1>11, RelinkAssumption DEF Relink, TypeOK, LinkOK
    <2> QED BY <1>11, <2>1, <2>2, <2>3 DEF Relink, TypeOK
  <1> QED BY <1>1, <1>2, <1>3, <1>4, <1>6, <1>8, <1>9, <1>10, <1>11 DEF RemoteStep

\* A call starts at offset 0 and stops writing at the last chunk.
LEMMA OffsetStep ==
    ASSUME TypeOK, OffsetInv, [Next]_vars
    PROVE  OffsetInv'
  <1> USE SizeAssumption DEF TypeOK, OffsetInv
  <1>1. ASSUME NEW c \in Calls, NEW e, Finish(c, e), UNCHANGED off PROVE OffsetInv'
    BY <1>1 DEF Finish
  <1>2. ASSUME NEW c \in Calls, SessionStep(c) PROVE OffsetInv'
    <2>1. CASE Acquire(c)
      BY <2>1 DEF Acquire
    <2>2. CASE Release(c)
      BY <2>2 DEF Release
    <2>3. CASE WriteChunk(c)
      <3>1. /\ pc[c] = "write" /\ off[c] \in 0..Chunks
            /\ off' = [off EXCEPT ![c] = off[c] + 1]
        BY <2>3 DEF WriteChunk
      <3>2. CASE off[c] + 1 = Chunks
        <4>1. pc' = [pc EXCEPT ![c] = AfterWrite(c)] /\ AfterWrite(c) \in {"pump", "drive"}
          BY <2>3, <3>2 DEF WriteChunk, LastChunk, AfterWrite
        <4>2. pc'[c] \notin {"new", "lock", "write"}
          BY <4>1
        <4>3. \A d \in Calls \ {c} : pc'[d] = pc[d] /\ off'[d] = off[d]
          BY <3>1, <4>1
        <4> QED BY <4>2, <4>3
      <3>3. CASE off[c] + 1 # Chunks
        <4>1. pc' = pc
          BY <2>3, <3>3 DEF WriteChunk, LastChunk
        <4>2. off[c] < Chunks /\ off[c] + 1 < Chunks
          BY <3>1, <3>3
        <4>3. \A d \in Calls \ {c} : off'[d] = off[d]
          BY <3>1
        <4>4. off'[c] = off[c] + 1
          BY <3>1
        <4> QED BY <3>1, <4>1, <4>2, <4>3, <4>4
      <3> QED BY <3>2, <3>3
    <2>4. CASE WriteFails(c)
      BY <2>4, <1>1 DEF WriteFails
    <2>5. CASE Receive(c)
      <3> PICK m \in {Head(readCh) : i \in 1..Len(readCh)} :
            \/ SkipNoise(c, m) \/ SeeBeg(c, m) \/ Capture(c, m)
            \/ SeeEnd(c, m) \/ SeeReadError(c, m)
        BY <2>5 DEF Receive
      <3>1. CASE SkipNoise(c, m) \/ SeeBeg(c, m)
        BY <3>1 DEF SkipNoise, SeeBeg, caller
      <3>2. CASE Capture(c, m)
        BY <3>2, <1>1 DEF Capture
      <3>3. CASE SeeEnd(c, m)
        <4>1. CASE UNCHANGED off /\ \E e : Finish(c, e)
          BY <4>1, <1>1
        <4>2. CASE off' = [off EXCEPT ![c] = 0] /\ pc' = [pc EXCEPT ![c] = "write"]
          BY <4>2
        <4> QED BY <3>3, <4>1, <4>2 DEF SeeEnd, PreludeEnds, UserEnds
      <3>4. CASE SeeReadError(c, m)
        BY <3>4, <1>1 DEF SeeReadError
      <3> QED BY <3>1, <3>2, <3>3, <3>4
    <2>6. CASE SoftCancel(c) \/ HardCancel(c)
      BY <2>6 DEF SoftCancel, HardCancel, caller
    <2>7. CASE SeeReaderGone(c) \/ CancelWriteFails(c) \/ DeclareDead(c) \/ FlushFails(c)
      BY <2>7, <1>1 DEF SeeReaderGone, CancelWriteFails, DeclareDead, FlushFails
    <2> QED BY <1>2, <2>1, <2>2, <2>3, <2>4, <2>5, <2>6, <2>7 DEF SessionStep
  <1>3. ASSUME NEW c \in Calls, UserStep(c) PROVE OffsetInv'
    BY <1>3 DEF UserStep, Begin, CancelCtx, PipeRead, PipeCloseStdout, PipeWrite, caller
  <1>4. CASE ReaderStep
    BY <1>4 DEF ReaderStep, ReaderRead, ReaderSend, ReaderStop, caller
  <1>5. CASE CloseStep
    BY <1>5 DEF CloseStep, CloseMark, CloseStop, CloseChannel, caller
  <1>6. CASE RemoteStep
    BY <1>6 DEF RemoteStep, ShellRead, ShellStart, ShellStartGarbled, JobRead, JobPrint,
       JobExit, Signal, RemoteDies, Relink, caller
  <1>7. CASE ChannelStep
    BY <1>7, ChannelSteady DEF Steady, caller
  <1>8. CASE UNCHANGED vars
    BY <1>8 DEF vars, caller
  <1> QED BY <1>2, <1>3, <1>4, <1>5, <1>6, <1>7, <1>8 DEF Next

\* No step of the session, its users or the shell takes a variable out of its
\* type, or a call past the last chunk of its command.
LEMMA TypesAndOffsets == Spec => []IInv
  <1>1. Init => IInv
    <2> SUFFICES ASSUME Init PROVE IInv
      OBVIOUS
    <2>1. /\ held \in Seq(Message) /\ readCh \in Seq(Message) /\ fromRemote \in Seq(Message)
          /\ toRemote \in Seq(Input) /\ line \in Seq(Input)
      BY DEF Init
    <2>2. out \in [Calls -> Seq(Message)]
      BY DEF Init
    <2>3. job \in [f : Frames \cup {NoFrame}, framed : BOOLEAN]
      BY MessageTypes DEF Init
    <2>4. OffsetInv
      BY DEF Init, OffsetInv
    <2>5. /\ off \in [Calls -> 0..Chunks] /\ cancelStage \in [Calls -> 0..2]
          /\ wrote \in [Frames -> Nat] /\ fed \in [Calls -> Nat]
      BY SizeAssumption DEF Init
    <2>7. LinkOK
      <3>1. stalled = FALSE /\ relinked = FALSE /\ relinks = 0
        BY DEF Init
      <3>2. 0 \in 0..MaxRelinks
        BY RelinkAssumption
      <3> QED BY <3>1, <3>2 DEF LinkOK
    <2>6. /\ pc \in [Calls -> {"new", "lock", "done"} \cup Holding]
          /\ stage \in [Calls -> Stages] /\ res \in [Calls -> Results]
          /\ exec \in [Frames -> {"no", "running", "altered", "done", "failed", "aborted"}]
      BY DEF Init, Stages, Results
    <2> QED BY <2>1, <2>2, <2>3, <2>4, <2>5, <2>6, <2>7 DEF Init, IInv, TypeOK
  <1>2. IInv /\ [Next]_vars => IInv'
    <2> SUFFICES ASSUME TypeOK, OffsetInv, [Next]_vars PROVE TypeOK'
      BY OffsetStep DEF IInv
    <2>1. CASE \E c \in Calls : SessionStep(c)
      BY <2>1, SessionType
    <2>2. CASE \E c \in Calls : UserStep(c)
      BY <2>2, UserType
    <2>3. CASE ReaderStep \/ CloseStep
      BY <2>3, ReaderCloseType
    <2>4. CASE RemoteStep
      BY <2>4, RemoteType
    <2>5. CASE ChannelStep
      <3>1. LinkOK'
        BY <2>5, ChannelSteady DEF Steady, TypeOK, LinkOK
      <3> QED BY <2>5, <3>1, ChannelSteady
              DEF Steady, sess, caller, cancel, parser, rd, chan, remote, user, TypeOK
    <2>6. CASE UNCHANGED vars
      BY <2>6, LinkStays DEF vars, sess, caller, cancel, parser, rd, chan, remote, user, TypeOK
    <2> QED BY <2>1, <2>2, <2>3, <2>4, <2>5, <2>6 DEF Next
  <1> QED BY <1>1, <1>2, PTL DEF Spec

\* Type correctness of the whole session, whatever the number of calls, chunks
\* and messages in flight.
THEOREM TypeCorrect == Spec => []TypeOK
  <1>1. IInv => TypeOK
    BY DEF IInv
  <1> QED BY <1>1, TypesAndOffsets, PTL

-----------------------------------------------------------------------------
\* The part of the state that the mutex discipline is about.
LeaseType ==
    /\ mu \in Calls \cup {NoCall}
    /\ pc \in [Calls -> {"new", "lock", "done"} \cup Holding]

LeaseInv == LeaseType /\ LeaseExclusive

\* Ending a call keeps the lease exclusive: a pump keeps holding it until it
\* releases, any other holder gives it back.
LEMMA FinishKeepsLease ==
    ASSUME NEW c \in Calls, NEW e, LeaseInv, pc[c] \in Holding, Finish(c, e)
    PROVE  LeaseInv'
  BY CallsAssumption DEF LeaseInv, LeaseType, LeaseExclusive, Finish, Holding, Pumping

\* Handling one message keeps the lease exclusive.
LEMMA ReceiveKeepsLease ==
    ASSUME NEW c \in Calls, LeaseInv, Receive(c)
    PROVE  LeaseInv'
  <1> PICK m \in {Head(readCh) : i \in 1..Len(readCh)} :
        \/ SkipNoise(c, m) \/ SeeBeg(c, m) \/ Capture(c, m)
        \/ SeeEnd(c, m) \/ SeeReadError(c, m)
    BY DEF Receive
  <1>0. pc[c] \in Holding
    BY DEF SkipNoise, SeeBeg, Capture, SeeEnd, SeeReadError, Take, Selecting, Holding, Pumping
  <1>1. CASE SkipNoise(c, m)
    BY <1>1 DEF SkipNoise, LeaseInv, LeaseType, LeaseExclusive, sess, caller
  <1>2. CASE SeeBeg(c, m)
    BY <1>2 DEF SeeBeg, LeaseInv, LeaseType, LeaseExclusive, sess, caller
  <1>3. CASE Capture(c, m)
    <2>1. CASE \E e : Finish(c, e)
      BY <2>1, <1>0, FinishKeepsLease
    <2>2. CASE UNCHANGED <<mu, pc, res>>
      BY <2>2 DEF LeaseInv, LeaseType, LeaseExclusive
    <2>3. CASE pc[c] = "pump" /\ pc' = [pc EXCEPT ![c] = "flush"] /\ UNCHANGED mu
      BY <2>3 DEF LeaseInv, LeaseType, LeaseExclusive, Holding, Pumping
    <2> QED BY <1>3, <2>1, <2>2, <2>3 DEF Capture
  <1>4. CASE SeeEnd(c, m)
    <2>1. CASE \E e : Finish(c, e)
      BY <2>1, <1>0, FinishKeepsLease
    <2>2. CASE pc' = [pc EXCEPT ![c] = "write"] /\ UNCHANGED mu
      BY <2>2, <1>0 DEF LeaseInv, LeaseType, LeaseExclusive, Holding, Pumping
    <2> QED BY <1>4, <2>1, <2>2 DEF SeeEnd, PreludeEnds, UserEnds
  <1>5. CASE SeeReadError(c, m)
    BY <1>5, <1>0, FinishKeepsLease DEF SeeReadError
  <1> QED BY <1>1, <1>2, <1>3, <1>4, <1>5

\* Every step of a goroutine inside the session keeps the lease exclusive.
LEMMA SessionKeepsLease ==
    ASSUME NEW c \in Calls, LeaseInv, SessionStep(c)
    PROVE  LeaseInv'
  <1> USE DEF LeaseInv, LeaseType, LeaseExclusive, Holding, Pumping
  <1>1. CASE Acquire(c)
    BY <1>1, CallsAssumption DEF Acquire
  <1>2. CASE Release(c)
    BY <1>2, CallsAssumption DEF Release
  <1>3. CASE WriteChunk(c)
    BY <1>3 DEF WriteChunk, AfterWrite, sess
  <1>4. CASE WriteFails(c)
    BY <1>4, FinishKeepsLease DEF WriteFails
  <1>5. CASE Receive(c)
    BY <1>5, ReceiveKeepsLease
  <1>6. CASE SeeReaderGone(c)
    BY <1>6, FinishKeepsLease DEF SeeReaderGone, Selecting
  <1>7. CASE SoftCancel(c) \/ HardCancel(c)
    BY <1>7 DEF SoftCancel, HardCancel, sess, caller
  <1>8. CASE CancelWriteFails(c)
    BY <1>8, FinishKeepsLease DEF CancelWriteFails, InterruptDue, CtxDone, Selecting
  <1>9. CASE DeclareDead(c)
    BY <1>9, FinishKeepsLease DEF DeclareDead, Selecting
  <1>10. CASE FlushFails(c)
    BY <1>10, FinishKeepsLease DEF FlushFails
  <1> QED BY <1>1, <1>2, <1>3, <1>4, <1>5, <1>6, <1>7, <1>8, <1>9, <1>10 DEF SessionStep

\* So does every step of a Pipe's user or of a caller outside the session.
LEMMA UserKeepsLease ==
    ASSUME NEW c \in Calls, LeaseInv, UserStep(c)
    PROVE  LeaseInv'
  <1> USE DEF LeaseInv, LeaseType, LeaseExclusive, Holding, Pumping
  <1>1. CASE Begin(c)
    BY <1>1 DEF Begin, sess
  <1>2. CASE PipeRead(c)
    BY <1>2 DEF PipeRead, sess
  <1>3. CASE CancelCtx(c) \/ PipeCloseStdout(c) \/ PipeWrite(c)
    BY <1>3 DEF CancelCtx, PipeCloseStdout, PipeWrite, sess, caller
  <1> QED BY <1>1, <1>2, <1>3 DEF UserStep

\* The reader goroutine, Close and the remote side never touch the mutex.
LEMMA OthersKeepLease ==
    ASSUME LeaseInv, ReaderStep \/ CloseStep \/ RemoteStep
    PROVE  LeaseInv'
  <1>1. UNCHANGED <<mu, pc>>
    <2>1. CASE ReaderStep
      BY <2>1 DEF ReaderStep, ReaderRead, ReaderSend, ReaderStop, sess, caller
    <2>2. CASE CloseStep
      BY <2>2 DEF CloseStep, CloseMark, CloseStop, CloseChannel, sess, caller
    <2>3. CASE RemoteStep
      BY <2>3 DEF RemoteStep, ShellRead, ShellStart, ShellStartGarbled, JobRead, JobPrint,
         JobExit, Signal, RemoteDies, Relink, sess, caller
    <2> QED BY <2>1, <2>2, <2>3
  <1> QED BY <1>1 DEF LeaseInv, LeaseType, LeaseExclusive

\* The session mutex is an exclusive lease: exactly the call that holds it
\* writes, drives or pumps, also across the hand-over to the pump goroutine
\* and however the call ends.
THEOREM LeaseIsExclusive == Spec => []LeaseExclusive
  <1>1. Init => LeaseInv
    BY CallsAssumption DEF Init, LeaseInv, LeaseType, LeaseExclusive, Holding, Pumping
  <1>2. LeaseInv /\ [Next]_vars => LeaseInv'
    <2> SUFFICES ASSUME LeaseInv, [Next]_vars PROVE LeaseInv'
      OBVIOUS
    <2>1. CASE \E c \in Calls : SessionStep(c)
      BY <2>1, SessionKeepsLease
    <2>2. CASE \E c \in Calls : UserStep(c)
      BY <2>2, UserKeepsLease
    <2>3. CASE ReaderStep \/ CloseStep \/ RemoteStep
      BY <2>3, OthersKeepLease
    <2>4. CASE ChannelStep \/ UNCHANGED vars
      BY <2>4, ChannelSteady DEF Steady, vars, sess, caller, LeaseInv, LeaseType, LeaseExclusive
    <2> QED BY <2>1, <2>2, <2>3, <2>4 DEF Next
  <1>3. LeaseInv => LeaseExclusive
    BY DEF LeaseInv
  <1> QED BY <1>1, <1>2, <1>3, PTL DEF Spec

-----------------------------------------------------------------------------
(* What a step does, for the invariants below.                             *)

\* What a step of a goroutine leaves alone: the other calls, the reader's
\* hands, what the shell printed and the shell itself.
Alone(c) ==
    /\ \A d \in Calls \ {c} :
          /\ pc'[d] = pc[d] /\ stage'[d] = stage[d] /\ off'[d] = off[d] /\ res'[d] = res[d]
          /\ capturing'[d] = capturing[d] /\ out'[d] = out[d]
    /\ UNCHANGED <<op, reader, held, fromRemote, closer, job, line, exec, wrote, down>>

\* The message that the parser of a call reads is the END of its own frame.
EndRead(c) == readCh # <<>> /\ Own(c, "END", Head(readCh))

\* What a step of a goroutine may do, apart from writing a chunk: put another
\* byte on the wire, ...
Interrupts(c) ==
    /\ pc[c] \in Selecting /\ CanWrite
    /\ \E k \in {"INT", "QUIT"} : Send(k, Frame(c), 0)
    /\ UNCHANGED <<mu, preluded, pc, stage, off, res>>
Feeds(c) ==
    /\ pc[c] \in {"pump", "flush"} \/ LateStdin
    /\ CanWrite /\ Send("STDIN", Frame(c), 0)
    /\ UNCHANGED <<mu, preluded, pc, stage, off, res>>
\* ... or answer the call, go on to its user's command, or stay with it.
Answers(c) ==
    /\ pc[c] \in {"write", "drive", "pump", "flush"}
    /\ pc[c] = "write" => CanFail
    /\ \E e \in Results \ {"none"} :
          Finish(c, e) /\ (e \in {"ok", "canceled"} /\ stage[c] = "user" => EndRead(c))
    /\ UNCHANGED <<preluded, stage, off>>
GoesOn(c) ==
    /\ pc[c] \in Selecting /\ stage[c] = "prelude"
    /\ EndRead(c) /\ Head(readCh).code = 0
    /\ preluded' = TRUE
    /\ stage' = [stage EXCEPT ![c] = "user"]
    /\ off' = [off EXCEPT ![c] = 0]
    /\ pc' = [pc EXCEPT ![c] = "write"]
    /\ UNCHANGED <<mu, res>>
Stays(c) ==
    /\ pc' = pc \/ (pc[c] \in {"pump", "flush"} /\ pc' \in {[pc EXCEPT ![c] = q] : q \in {"pump", "flush"}})
    /\ UNCHANGED <<mu, preluded, stage, off, res>>
Moves(c) ==
    \/ WriteChunk(c) \/ Interrupts(c) \/ Feeds(c)
    \/ /\ toRemote' = toRemote
       /\ Begin(c) \/ Acquire(c) \/ Release(c) \/ Answers(c) \/ GoesOn(c) \/ Stays(c)

\* Handling a message is one of these.
LEMMA ReceiveMoves ==
    ASSUME NEW c \in Calls, TypeOK, Receive(c)
    PROVE  Alone(c) /\ Moves(c)
  <1> USE DEF sess, caller, cancel, parser, rd, chan, remote, user, link
  <1> PICK m \in {Head(readCh) : i \in 1..Len(readCh)} :
        \/ SkipNoise(c, m) \/ SeeBeg(c, m) \/ Capture(c, m)
        \/ SeeEnd(c, m) \/ SeeReadError(c, m)
    BY DEF Receive
  <1>0. pc[c] \in Selecting /\ m = Head(readCh) /\ readCh # <<>> /\ reader' = reader /\ held' = held
    BY DEF SkipNoise, SeeBeg, Capture, SeeEnd, SeeReadError, Take
  <1>1. CASE SkipNoise(c, m)
    BY <1>0, <1>1 DEF SkipNoise, Alone, Moves, Stays, TypeOK
  <1>2. CASE SeeBeg(c, m)
    BY <1>0, <1>2 DEF SeeBeg, Alone, Moves, Stays, TypeOK
  <1>6. ASSUME NEW e \in {"protocol", "canceled", "ok"}, Finish(c, e),
               UNCHANGED <<preluded, stage, off>>,
               e \in {"canceled", "ok"} /\ stage[c] = "user" => EndRead(c)
        PROVE  Answers(c)
    <2>1. pc[c] \in {"drive", "pump"} /\ e \in Results \ {"none"}
      BY <1>0 DEF Selecting, Results
    <2> QED BY <1>6, <2>1 DEF Answers
  <1>3. CASE Capture(c, m)
    <2>1. Alone(c)
      BY <1>0, <1>3 DEF Capture, Alone, Finish, TypeOK
    <2>2. toRemote' = toRemote /\ UNCHANGED <<preluded, stage, off>>
      BY <1>3 DEF Capture
    <2>3. CASE Finish(c, "protocol")
      BY <1>0, <2>1, <2>2, <2>3, <1>6 DEF Moves
    <2>4. CASE UNCHANGED <<mu, pc, res>>
      BY <2>1, <2>2, <2>4 DEF Moves, Stays
    <2>5. CASE pc[c] = "pump" /\ pc' = [pc EXCEPT ![c] = "flush"] /\ UNCHANGED <<mu, res>>
      BY <2>1, <2>2, <2>5 DEF Moves, Stays
    <2> QED BY <1>3, <2>3, <2>4, <2>5, <2>1 DEF Capture
  <1>4. CASE SeeEnd(c, m)
    <2>1. Alone(c)
      BY <1>0, <1>4 DEF SeeEnd, PreludeEnds, UserEnds, Alone, Finish, TypeOK
    <2>2. EndRead(c) /\ toRemote' = toRemote
      BY <1>0, <1>4 DEF SeeEnd, EndRead
    <2>3. CASE stage[c] = "user" /\ UserEnds(c)
      <3>1. \E e \in {"canceled", "ok"} : Finish(c, e)
        BY <2>3 DEF UserEnds
      <3>2. UNCHANGED <<preluded, stage, off>>
        BY <2>3 DEF UserEnds
      <3> QED BY <1>6, <2>1, <2>2, <3>1, <3>2 DEF Moves
    <2>4. CASE stage[c] = "prelude" /\ PreludeEnds(c, m)
      <3>1. CASE /\ \E e \in {"canceled", "protocol"} : Finish(c, e)
                 /\ UNCHANGED <<preluded, stage, off>>
        BY <1>6, <2>1, <2>2, <2>4, <3>1 DEF Moves
      <3>2. CASE ~(cancelStage[c] > 0) /\ ~(m.code # 0)
        <4>1. GoesOn(c)
          BY <1>0, <2>2, <2>4, <3>2 DEF PreludeEnds, GoesOn
        <4> QED BY <2>1, <2>2, <4>1 DEF Moves
      <3>3. \/ /\ \E e \in {"canceled", "protocol"} : Finish(c, e)
               /\ UNCHANGED <<preluded, stage, off>>
            \/ ~(cancelStage[c] > 0) /\ ~(m.code # 0)
        BY <2>4 DEF PreludeEnds
      <3> QED BY <3>1, <3>2, <3>3
    <2> QED BY <1>4, <2>3, <2>4 DEF SeeEnd
  <1>5. CASE SeeReadError(c, m)
    <2>1. Alone(c)
      BY <1>0, <1>5 DEF SeeReadError, Alone, Finish, TypeOK
    <2> QED BY <1>0, <1>5, <2>1 DEF SeeReadError, Moves, Answers, Results, Selecting
  <1> QED BY <1>1, <1>2, <1>3, <1>4, <1>5

\* Every step of a goroutine of the session, of a caller or of the user of a
\* Pipe is one of these.
LEMMA CallerMoves ==
    ASSUME NEW c \in Calls, TypeOK, SessionStep(c) \/ UserStep(c)
    PROVE  Alone(c) /\ Moves(c)
  <1> USE DEF sess, caller, cancel, parser, rd, chan, remote, user, link
  <1>1. CASE Begin(c)
    BY <1>1 DEF Begin, Alone, Moves, TypeOK
  <1>2. CASE Acquire(c)
    BY <1>2 DEF Acquire, Alone, Moves, TypeOK
  <1>3. CASE Release(c)
    BY <1>3 DEF Release, Alone, Moves, TypeOK
  <1>4. CASE WriteChunk(c)
    BY <1>4 DEF WriteChunk, Alone, Moves, TypeOK
  <1>5. CASE WriteFails(c)
    <2>1. Alone(c)
      BY <1>5 DEF WriteFails, Alone, Finish, TypeOK
    <2> QED BY <1>5, <2>1 DEF WriteFails, Moves, Answers, Results
  <1>6. CASE Receive(c)
    BY <1>6, ReceiveMoves
  <1>7. CASE SeeReaderGone(c) \/ CancelWriteFails(c) \/ DeclareDead(c) \/ FlushFails(c)
    <2>1. Alone(c)
      BY <1>7 DEF SeeReaderGone, CancelWriteFails, DeclareDead, FlushFails, Alone, Finish, TypeOK
    <2>2. Answers(c) /\ toRemote' = toRemote
      BY <1>7 DEF SeeReaderGone, CancelWriteFails, InterruptDue, CtxDone, DeclareDead, FlushFails,
         Answers, Results, Selecting
    <2> QED BY <2>1, <2>2 DEF Moves
  <1>8. CASE SoftCancel(c) \/ HardCancel(c)
    BY <1>8 DEF SoftCancel, CtxDone, HardCancel, Escalates, Alone, Moves, Interrupts, TypeOK
  <1>9. CASE CancelCtx(c) \/ PipeCloseStdout(c)
    BY <1>9 DEF CancelCtx, PipeCloseStdout, Alone, Moves, Stays, TypeOK
  <1>10. CASE PipeRead(c)
    BY <1>10 DEF PipeRead, Alone, Moves, Stays, TypeOK
  <1>11. CASE PipeWrite(c)
    BY <1>11 DEF PipeWrite, CanFeed, Alone, Moves, Feeds, TypeOK
  <1> QED BY <1>1, <1>2, <1>3, <1>4, <1>5, <1>6, <1>7, <1>8, <1>9, <1>10, <1>11
         DEF SessionStep, UserStep

\* What a step of the reader, of Close or of the remote side leaves alone.
Untouched == UNCHANGED <<mu, preluded, pc, op, stage, off, res, capturing, out>>

\* The shell and its terminal take the first p chunks off the wire.
Dropped(p) ==
    /\ p \in 0..Len(toRemote) /\ Len(toRemote') = Len(toRemote) - p
    /\ \A i \in 1..Len(toRemote') : toRemote'[i] = toRemote[i + p]

\* The reader and Close leave both the wire and the shell alone.
LEMMA ReaderCloseMoves ==
    ASSUME ReaderStep \/ CloseStep
    PROVE  Untouched /\ UNCHANGED <<toRemote, job, line, exec, wrote, down>>
  BY DEF ReaderStep, ReaderRead, ReaderSend, ReaderStop, CloseStep, CloseMark, CloseStop,
     CloseChannel, Untouched, sess, caller, parser, chan, remote

\* The chunk that completes the command line of a frame.
Part(f, i) == [k |-> "PART", f |-> f, i |-> i]
LastPart(f) == Part(f, Chunks)

\* What the remote side may do: start the command whose line is complete,
\* from the lines it was given or from others, ...
Starts(f) ==
    /\ Idle /\ ~down /\ toRemote # <<>> /\ Head(toRemote) = LastPart(f) /\ Dropped(1)
    /\ line' = <<>> /\ UNCHANGED <<wrote, down>>
    /\ \/ /\ job' = [f |-> f, framed |-> TRUE] /\ Emit("BEG", f, 0)
          /\ \/ exec' = [exec EXCEPT ![f] = "running"]
             \/ /\ exec' = [exec EXCEPT ![f] = "altered"]
                /\ line # <<>> /\ Head(line) = Part(f, 1)
                /\ Append(line, Head(toRemote)) # Wrapped(f)
       \/ /\ job' = [f |-> f, framed |-> FALSE] /\ fromRemote' = fromRemote
          /\ exec' = [exec EXCEPT ![f] = "running"]
\* The output of the old shell goes with its connection.
Cut == Relink /\ fromRemote' = <<>>
\* ... end the job or lose it, ...
Ends ==
    /\ ~Idle /\ ~down /\ \E p \in Nat : Dropped(p)
    /\ line' \in {line, <<>>} /\ UNCHANGED <<wrote, down>>
    /\ \/ \E code \in {0, 1} : JobOver(code)
       \/ /\ job' = NoJob /\ exec' = [exec EXCEPT ![job.f] = "aborted"]
          /\ fromRemote' = fromRemote \/ Cut
\* ... or neither.
Goes ==
    /\ \E p \in Nat : Dropped(p)
    /\ UNCHANGED <<job, exec>>
    /\ \/ /\ ShellRead \/ JobRead \/ line' = <<>>
          /\ UNCHANGED <<wrote, down, fromRemote>>
       \/ (JobPrint \/ RemoteDies) /\ UNCHANGED <<line, toRemote>>
       \/ Cut /\ line' = <<>> /\ UNCHANGED <<wrote, down>>

\* The shell takes the first chunk off the wire.
LEMMA DroppedOne ==
    ASSUME TypeOK, toRemote # <<>>, toRemote' = Tail(toRemote)
    PROVE  Dropped(1) /\ Head(toRemote) = toRemote[1] /\ Head(toRemote) \in Input
                      /\ Len(toRemote) >= 1
  <1>1. toRemote \in Seq(Input)
    BY DEF TypeOK
  <1>2. Len(toRemote) \in Nat \ {0} /\ Len(Tail(toRemote)) = Len(toRemote) - 1
    BY <1>1, EmptySeq, HeadTailProperties
  <1>3. \A i \in 1..Len(Tail(toRemote)) : Tail(toRemote)[i] = toRemote[i + 1]
    BY <1>1, HeadTailProperties
  <1>4. Head(toRemote) \in Input /\ Head(toRemote) = toRemote[1]
    BY <1>1, HeadTailProperties
  <1> QED BY <1>2, <1>3, <1>4 DEF Dropped

\* Every step of the remote side is one of these.
LEMMA RemoteMoves ==
    ASSUME TypeOK, RemoteStep
    PROVE  Untouched /\ closer' = closer /\ held' = held /\ readCh' = readCh /\ reader' = reader
           /\ ((\E f \in Frames : Starts(f)) \/ Ends \/ Goes)
  <1>1. Untouched /\ closer' = closer /\ held' = held /\ readCh' = readCh /\ reader' = reader
    BY DEF RemoteStep, ShellRead, JobRead, JobPrint, RemoteDies, Relink, ShellStart, ShellStartGarbled,
       JobExit, Signal, Untouched, sess, caller, parser, rd
  <1>2. toRemote' = toRemote => Dropped(0)
    BY DEF Dropped, TypeOK
  <1>3. HeadIsData => toRemote # <<>> /\ ~down
    BY DEF HeadIsData
  <1>4. CASE ShellRead \/ JobRead
    <2>1. Dropped(1)
      BY <1>3, <1>4, DroppedOne DEF ShellRead, JobRead
    <2>2. UNCHANGED <<job, exec, wrote, down, fromRemote>>
      BY <1>4 DEF ShellRead, JobRead, remote
    <2> QED BY <1>1, <1>4, <2>1, <2>2 DEF Goes
  <1>5. CASE JobPrint \/ RemoteDies
    BY <1>1, <1>2, <1>5 DEF JobPrint, RemoteDies, Goes
  <1>6. ASSUME NEW f \in Frames, HeadIsData, EndsLine(Head(toRemote)), Head(toRemote).f = f,
               toRemote' = Tail(toRemote)
        PROVE  Head(toRemote) = LastPart(f) /\ Dropped(1)
    <2>1. Head(toRemote) \in Input
      BY <1>3, <1>6, DroppedOne
    <2> QED BY <1>3, <1>6, <2>1, DroppedOne DEF Input, EndsLine, LastPart, Part
  <1>7. ASSUME NEW f \in Frames, ShellStart(f) PROVE Starts(f)
    BY <1>3, <1>6, <1>7 DEF ShellStart, Starts
  <1>8. ASSUME NEW f \in Frames, ShellStartGarbled(f) PROVE Starts(f) \/ Goes
    <2>1. Head(toRemote) = LastPart(f) /\ Dropped(1)
      BY <1>6, <1>8 DEF ShellStartGarbled
    <2>2. CASE UNCHANGED <<job, exec, fromRemote>>
      BY <1>8, <2>1, <2>2 DEF ShellStartGarbled, Goes
    <2>3. /\ Idle /\ ~down /\ toRemote # <<>> /\ line' = <<>> /\ UNCHANGED <<wrote, down>>
          /\ Append(line, Head(toRemote)) # Wrapped(f)
      BY <1>3, <1>8 DEF ShellStartGarbled
    <2>4. CASE /\ job' = [f |-> f, framed |-> FALSE] /\ UNCHANGED fromRemote
               /\ exec' = [exec EXCEPT ![f] = "running"]
      BY <2>1, <2>3, <2>4 DEF Starts
    <2>5. CASE /\ line # <<>> /\ Head(line) = [k |-> "PART", f |-> f, i |-> 1]
               /\ job' = [f |-> f, framed |-> TRUE]
               /\ exec' = [exec EXCEPT ![f] = "altered"] /\ Emit("BEG", f, 0)
      BY <2>1, <2>3, <2>5 DEF Starts, Part
    <2> QED BY <1>8, <2>2, <2>4, <2>5 DEF ShellStartGarbled
  <1>9. ASSUME NEW code \in {0, 1}, JobExit(code) PROVE Ends
    BY <1>2, <1>9 DEF JobExit, Ends
  <1>10. ASSUME NEW p \in 1..Len(toRemote), Signal(p) PROVE Ends \/ Goes
    <2>1. Dropped(p)
      <3>1. toRemote \in Seq(Input) /\ toRemote' = SubSeq(toRemote, p + 1, Len(toRemote))
        BY <1>10 DEF TypeOK, Signal
      <3>2. Len(toRemote) \in Nat /\ p \in 1..Len(toRemote)
        BY <3>1, LenProperties
      <3> QED BY <3>1, <3>2 DEF Dropped
    <2>2. p \in Nat
      BY DEF TypeOK
    <2>3. CASE UNCHANGED <<job, exec, fromRemote>>
      BY <1>10, <2>1, <2>2, <2>3 DEF Signal, Goes
    <2>4. CASE ~(UNCHANGED <<job, exec, fromRemote>>)
      BY <1>10, <2>1, <2>2, <2>4 DEF Signal, Ends
    <2> QED BY <2>3, <2>4
  <1>11. CASE Relink
    <2>1. \E p \in Nat : Dropped(p)
      <3>1. toRemote' = <<>> /\ Len(toRemote) \in Nat
        BY <1>11 DEF Relink, TypeOK
      <3>2. Len(toRemote') = 0
        BY <3>1
      <3>3. Dropped(Len(toRemote))
        BY <3>1, <3>2 DEF Dropped
      <3> QED BY <3>1, <3>3
    <2>2. UNCHANGED <<wrote, down>> /\ ~down /\ job' = NoJob /\ line' = <<>> /\ Cut
      BY <1>11 DEF Relink, Cut
    <2>3. CASE Idle
      <3>1. UNCHANGED <<job, exec>>
        BY <1>11, <2>3 DEF Relink, Idle
      <3> QED BY <1>1, <2>1, <2>2, <3>1 DEF Goes
    <2>4. CASE ~Idle
      <3>1. exec' = [exec EXCEPT ![job.f] = "aborted"]
        BY <1>11, <2>4 DEF Relink
      <3> QED BY <1>1, <2>1, <2>2, <2>4, <3>1 DEF Ends
    <2> QED BY <2>3, <2>4
  <1> QED BY <1>1, <1>4, <1>5, <1>7, <1>8, <1>9, <1>10, <1>11 DEF RemoteStep

-----------------------------------------------------------------------------
(* The wire, and the command lines that it carries.                        *)

\* The wire after one more chunk.
Appended(t) ==
    /\ Len(toRemote') = Len(toRemote) + 1 /\ toRemote'[Len(toRemote')] = t
    /\ \A i \in 1..Len(toRemote) : toRemote'[i] = toRemote[i]

\* Channel.Write puts the chunk at the end of the wire.
LEMMA SendAppends ==
    ASSUME NEW c \in Calls, TypeOK, NEW k \in {"PART", "STDIN", "INT", "QUIT"},
           NEW i \in 0..Chunks, Send(k, Frame(c), i)
    PROVE  Appended([k |-> k, f |-> Frame(c), i |-> i])
  <1>1. toRemote \in Seq(Input) /\ [k |-> k, f |-> Frame(c), i |-> i] \in Input
    BY MessageTypes DEF TypeOK, Input
  <1>2. toRemote' = Append(toRemote, [k |-> k, f |-> Frame(c), i |-> i])
    BY DEF Send
  <1> HIDE DEF Input
  <1> QED BY <1>1, <1>2, AppendProperties, LenProperties DEF Appended

\* Only a chunk of its command, or a byte of its own, goes out for a call.
LEMMA WireMoves ==
    ASSUME NEW c \in Calls, TypeOK, OffsetInv, Moves(c)
    PROVE  \/ toRemote' = toRemote /\ ~WriteChunk(c)
           \/ WriteChunk(c) /\ Appended(Part(Frame(c), off[c] + 1))
           \/ \E k \in {"INT", "QUIT"} : Interrupts(c) /\ Appended([k |-> k, f |-> Frame(c), i |-> 0])
           \/ Feeds(c) /\ Appended([k |-> "STDIN", f |-> Frame(c), i |-> 0])
  <1>1. CASE WriteChunk(c)
    <2>1. off[c] + 1 \in 0..Chunks
      BY <1>1, SizeAssumption DEF WriteChunk, OffsetInv, TypeOK
    <2>2. Send("PART", Frame(c), off[c] + 1)
      BY <1>1 DEF WriteChunk
    <2> QED BY <1>1, <2>1, <2>2, SendAppends DEF Part
  <1>2. CASE Interrupts(c)
    <2>1. PICK k \in {"INT", "QUIT"} : Send(k, Frame(c), 0)
      BY <1>2 DEF Interrupts
    <2> QED BY <1>2, <2>1, SendAppends, SizeAssumption
  <1>3. CASE Feeds(c)
    BY <1>3, SendAppends, SizeAssumption DEF Feeds
  <1> QED BY <1>1, <1>2, <1>3 DEF Moves

\* The last chunk of a frame has not been written yet, if it ever will be.
NotYet(f) ==
    \/ pc[f[1]] \in {"new", "lock"}
    \/ pc[f[1]] = "write" /\ stage[f[1]] = f[2]
    \/ stage[f[1]] = "prelude" /\ f[2] = "user"
InStream(f) == \E i \in 1..Len(toRemote) : toRemote[i] = LastPart(f)

\* Each command line is completed once, and then runs once.
OnceAt(f) ==
    /\ NotYet(f) => exec[f] = "no" /\ ~InStream(f)
    /\ InStream(f) => exec[f] = "no"
    /\ \A i, j \in 1..Len(toRemote) :
           toRemote[i] = LastPart(f) /\ toRemote[j] = LastPart(f) => i = j
OnceInv == \A f \in Frames : OnceAt(f)

\* A call writes the last chunk of a frame once.
LEMMA NotYetShrinks ==
    ASSUME NEW c \in Calls, TypeOK, OffsetInv, Alone(c), Moves(c), NEW f \in Frames
    PROVE  /\ NotYet(f)' => NotYet(f)
           /\ WriteChunk(c) /\ off[c] + 1 = Chunks /\ f = Frame(c) => NotYet(f) /\ ~NotYet(f)'
  <1>0. f[1] \in Calls /\ f[2] \in {"prelude", "user"} /\ f = <<f[1], f[2]>>
    BY DEF Frames, Stages
  <1>1. CASE f[1] # c
    BY <1>0, <1>1 DEF Alone, NotYet, Frame
  <1>2. CASE f[1] = c
    <2> USE <1>0, <1>2 DEF NotYet
    <2>1. pc \in [Calls -> {"new", "lock", "done"} \cup Holding] /\ stage \in [Calls -> Stages]
      BY DEF TypeOK
    <2>2. CASE WriteChunk(c)
      <3>1. pc[c] = "write" /\ stage' = stage
        BY <2>2 DEF WriteChunk
      <3>2. off[c] + 1 = Chunks => pc'[c] \in {"pump", "drive"}
        BY <2>1, <2>2 DEF WriteChunk, LastChunk, AfterWrite
      <3>3. off[c] + 1 # Chunks => pc' = pc
        BY <2>2 DEF WriteChunk, LastChunk
      <3> QED BY <3>1, <3>2, <3>3 DEF Frame
    <2>3. CASE ~WriteChunk(c) /\ (Interrupts(c) \/ Feeds(c))
      BY <2>3 DEF Interrupts, Feeds
    <2>4. CASE ~WriteChunk(c) /\ (Begin(c) \/ Acquire(c) \/ Release(c))
      BY <2>1, <2>4 DEF Begin, Acquire, Release
    <2>5. CASE ~WriteChunk(c) /\ Answers(c)
      BY <2>1, <2>5 DEF Answers, Finish
    <2>6. CASE ~WriteChunk(c) /\ GoesOn(c)
      BY <2>1, <2>6 DEF GoesOn, Selecting
    <2>7. CASE ~WriteChunk(c) /\ Stays(c)
      BY <2>1, <2>7 DEF Stays
    <2>8. CASE WriteChunk(c) /\ ~(off[c] + 1 = Chunks /\ f = Frame(c))
      BY <2>2, <2>8
    <2> QED BY <2>2, <2>3, <2>4, <2>5, <2>6, <2>7 DEF Moves
  <1> QED BY <1>1, <1>2

\* A goroutine that writes a chunk completes no command line twice (writeAll).
LEMMA CallerKeepsOnce ==
    ASSUME NEW c \in Calls, TypeOK, OffsetInv, OnceInv, Alone(c), Moves(c)
    PROVE  OnceInv'
  <1> SUFFICES ASSUME NEW f \in Frames PROVE OnceAt(f)'
    BY DEF OnceInv
  <1>0. OnceAt(f) /\ exec' = exec
    BY DEF OnceInv, Alone
  <1>1. Len(toRemote) \in Nat
    BY DEF TypeOK
  <1>2. NotYet(f)' => NotYet(f)
    BY NotYetShrinks
  <1>3. CASE toRemote' = toRemote
    BY <1>0, <1>2, <1>3 DEF OnceAt, InStream, LastPart, Part
  <1>4. ASSUME NEW t, Appended(t), t # LastPart(f) PROVE OnceAt(f)'
    <2>1. \A i \in 1..Len(toRemote') : toRemote'[i] = LastPart(f) =>
              i \in 1..Len(toRemote) /\ toRemote[i] = LastPart(f)
      BY <1>1, <1>4 DEF Appended
    <2>2. InStream(f)' => InStream(f)
      BY <2>1 DEF InStream, LastPart, Part
    <2>3. \A i, j \in 1..Len(toRemote') :
              toRemote'[i] = LastPart(f) /\ toRemote'[j] = LastPart(f) => i = j
      BY <1>0, <2>1 DEF OnceAt
    <2> QED BY <1>0, <1>2, <2>2, <2>3 DEF OnceAt, LastPart, Part
  <1>5. CASE WriteChunk(c) /\ Appended(Part(Frame(c), off[c] + 1)) /\ Part(Frame(c), off[c] + 1) = LastPart(f)
    <2>1. f = Frame(c) /\ off[c] + 1 = Chunks
      BY <1>5 DEF LastPart, Part
    <2>2. NotYet(f) /\ ~NotYet(f)'
      BY <1>5, <2>1, NotYetShrinks
    <2>3. exec[f] = "no" /\ ~InStream(f)
      BY <1>0, <2>2 DEF OnceAt
    <2>4. \A i \in 1..Len(toRemote) : toRemote'[i] # LastPart(f)
      BY <1>5, <2>3 DEF InStream, Appended
    <2>5. \A i, j \in 1..Len(toRemote') :
              toRemote'[i] = LastPart(f) /\ toRemote'[j] = LastPart(f) => i = j
      BY <1>1, <1>5, <2>4 DEF Appended
    <2> QED BY <1>0, <2>2, <2>3, <2>5 DEF OnceAt, LastPart, Part
  <1>6. \A k \in {"INT", "QUIT", "STDIN"} : [k |-> k, f |-> Frame(c), i |-> 0] # LastPart(f)
    BY DEF LastPart, Part
  <1> QED BY <1>3, <1>4, <1>5, <1>6, WireMoves

\* The shell is busy with one command at a time, which it started.
JobInv ==
    /\ ~Idle => job.f \in Frames /\ line = <<>> /\ exec[job.f] \in {"running", "altered"}
    /\ \A f \in Frames : exec[f] = "running" => job.f = f

\* The shell, which takes chunks from the front, runs no command line twice.
LEMMA RemoteKeepsOnce ==
    ASSUME TypeOK, OnceInv, JobInv, RemoteStep
    PROVE  OnceInv'
  <1> SUFFICES ASSUME NEW f \in Frames PROVE OnceAt(f)'
    BY DEF OnceInv
  <1>0. /\ OnceAt(f) /\ Untouched
        /\ exec \in [Frames -> {"no", "running", "altered", "done", "failed", "aborted"}]
    BY RemoteMoves DEF OnceInv, TypeOK
  <1>1. Len(toRemote) \in Nat
    BY DEF TypeOK
  <1>2. NotYet(f)' <=> NotYet(f)
    BY <1>0 DEF NotYet, Untouched
  <1>3. ASSUME NEW p \in Nat, Dropped(p)
        PROVE  /\ InStream(f)' => InStream(f)
               /\ p = 1 /\ toRemote # <<>> /\ Head(toRemote) = LastPart(f) => InStream(f) /\ ~InStream(f)'
               /\ \A i, j \in 1..Len(toRemote') :
                      toRemote'[i] = LastPart(f) /\ toRemote'[j] = LastPart(f) => i = j
    <2>1. \A i \in 1..Len(toRemote') : i + p \in 1..Len(toRemote) /\ toRemote'[i] = toRemote[i + p]
      BY <1>1, <1>3 DEF Dropped
    <2>2. InStream(f)' => InStream(f)
      BY <2>1 DEF InStream, LastPart, Part
    <2>3. \A i, j \in 1..Len(toRemote') :
              toRemote'[i] = LastPart(f) /\ toRemote'[j] = LastPart(f) => i = j
      <3> SUFFICES ASSUME NEW i \in 1..Len(toRemote'), NEW j \in 1..Len(toRemote'),
                          toRemote'[i] = LastPart(f), toRemote'[j] = LastPart(f)
                   PROVE  i = j
        OBVIOUS
      <3>1. /\ i + p \in 1..Len(toRemote) /\ toRemote[i + p] = LastPart(f)
            /\ j + p \in 1..Len(toRemote) /\ toRemote[j + p] = LastPart(f)
        BY <2>1
      <3>2. i + p = j + p
        BY <1>0, <3>1 DEF OnceAt
      <3> QED BY <1>1, <1>3, <3>2 DEF Dropped
    <2>4. ASSUME p = 1, toRemote # <<>>, Head(toRemote) = LastPart(f)
          PROVE  InStream(f) /\ ~InStream(f)'
      <3>1. 1 \in 1..Len(toRemote) /\ toRemote[1] = LastPart(f)
        <4> toRemote \in Seq(Input)
          BY DEF TypeOK
        <4> QED BY <2>4
      <3>2. \A i \in 1..Len(toRemote') : toRemote'[i] # LastPart(f)
        BY <1>0, <2>1, <2>4, <3>1 DEF OnceAt
      <3> QED BY <3>1, <3>2 DEF InStream, LastPart, Part
    <2> QED BY <2>2, <2>3, <2>4
  <1>4. ASSUME NEW p \in Nat, Dropped(p), exec'[f] = exec[f] PROVE OnceAt(f)'
    BY <1>0, <1>2, <1>3, <1>4 DEF OnceAt, LastPart, Part
  <1>5. ASSUME NEW g \in Frames, Starts(g) PROVE OnceAt(f)'
    <2>1. Dropped(1) /\ toRemote # <<>> /\ Head(toRemote) = LastPart(g)
      BY <1>5 DEF Starts
    <2>2. CASE f = g
      <3>1. InStream(f) /\ ~InStream(f)'
        BY <1>3, <2>1, <2>2
      <3>2. ~NotYet(f)'
        BY <1>0, <1>2, <3>1 DEF OnceAt
      <3> QED BY <1>3, <2>1, <3>1, <3>2 DEF OnceAt, LastPart, Part
    <2>3. CASE f # g
      <3>1. exec'[f] = exec[f]
        BY <1>0, <1>5, <2>3 DEF Starts
      <3> QED BY <1>4, <2>1, <3>1
    <2> QED BY <2>2, <2>3
  <1>6. CASE Ends
    <2>1. PICK p \in Nat : Dropped(p)
      BY <1>6 DEF Ends
    <2>2. CASE f = job.f
      <3>1. exec[f] \in {"running", "altered"}
        BY <1>6, <2>2 DEF Ends, JobInv
      <3>2. ~NotYet(f)' /\ ~InStream(f)'
        BY <1>0, <1>2, <1>3, <2>1, <3>1 DEF OnceAt
      <3> QED BY <1>3, <2>1, <3>2 DEF OnceAt, LastPart, Part
    <2>3. CASE f # job.f
      <3>1. exec'[f] = exec[f]
        BY <1>0, <1>6, <2>3 DEF Ends, JobOver
      <3> QED BY <1>4, <2>1, <3>1
    <2> QED BY <2>2, <2>3
  <1>7. CASE Goes
    BY <1>4, <1>7 DEF Goes
  <1> QED BY <1>5, <1>6, <1>7, RemoteMoves

-----------------------------------------------------------------------------
(* The foreground job, and the interrupts on their way to it.              *)

\* The shell goes on having one foreground job at a time.
LEMMA RemoteKeepsJob ==
    ASSUME TypeOK, JobInv, RemoteStep
    PROVE  JobInv'
  <1>0. /\ exec \in [Frames -> {"no", "running", "altered", "done", "failed", "aborted"}]
        /\ NoJob.f \notin Frames
    BY CallsAssumption DEF TypeOK, NoJob, NoFrame, Frames
  <1>1. ASSUME NEW f \in Frames, Starts(f) PROVE JobInv'
    <2>1. \A g \in Frames : exec[g] # "running"
      BY <1>0, <1>1 DEF Starts, JobInv, Idle
    <2>2. line' = <<>> /\ job'.f = f /\ exec'[f] \in {"running", "altered"}
          /\ \A g \in Frames \ {f} : exec'[g] = exec[g]
      BY <1>0, <1>1 DEF Starts
    <2> QED BY <2>1, <2>2 DEF JobInv
  <1>2. CASE Ends
    <2>1. job' = NoJob /\ job.f \in Frames /\ exec'[job.f] # "running"
          /\ \A g \in Frames \ {job.f} : exec'[g] = exec[g]
      BY <1>0, <1>2 DEF Ends, JobInv, JobOver
    <2>2. \A g \in Frames : exec'[g] # "running"
      BY <2>1 DEF JobInv
    <2> QED BY <2>1, <2>2 DEF JobInv, Idle
  <1>3. CASE Goes
    <2>1. UNCHANGED <<job, exec>> /\ (~Idle => line' \in {line, <<>>})
      BY <1>3 DEF Goes, ShellRead, JobRead, remote
    <2> QED BY <2>1 DEF JobInv, Idle
  <1> QED BY <1>1, <1>2, <1>3, RemoteMoves

\* The command of d has begun, or will have begun when position i of the wire
\* reaches the shell.
Begun(d, i) ==
    \E s \in Stages : \/ exec[<<d, s>>] # "no"
                      \/ \E j \in 1..(i - 1) : toRemote[j] = LastPart(<<d, s>>)

\* When an interrupt is overtaken by other calls, these have ended or their
\* commands are behind it.
InterruptInv ==
    \A i \in 1..Len(toRemote) : toRemote[i].k \in {"INT", "QUIT"} =>
        \A d \in Calls \ {toRemote[i].f[1]} : Begun(d, i) => pc[d] = "done"

\* A call that has returned stays so.
LEMMA DoneStays ==
    ASSUME NEW c \in Calls, TypeOK, Alone(c), Moves(c), NEW d \in Calls, pc[d] = "done"
    PROVE  pc'[d] = "done"
  BY DEF Alone, Moves, WriteChunk, Interrupts, Feeds, Begin, Acquire, Release, Answers, GoesOn,
     Stays, Selecting

\* A call writes ^C while it drives its parser: the others have ended or are
\* not yet served.
LEMMA CallerKeepsInterrupts ==
    ASSUME NEW c \in Calls, TypeOK, OffsetInv, LeaseExclusive, OnceInv, InterruptInv,
           Alone(c), Moves(c)
    PROVE  InterruptInv'
  <1> SUFFICES ASSUME NEW i \in 1..Len(toRemote'), toRemote'[i].k \in {"INT", "QUIT"},
                      NEW d \in Calls \ {toRemote'[i].f[1]}, Begun(d, i)'
               PROVE  pc'[d] = "done"
    BY DEF InterruptInv
  <1>0. exec' = exec /\ Len(toRemote) \in Nat
    BY DEF Alone, TypeOK
  <1>1. CASE i \in 1..Len(toRemote) /\ \A j \in 1..Len(toRemote) : toRemote'[j] = toRemote[j]
    <2>1. \A j \in 1..(i - 1) : toRemote'[j] = toRemote[j]
      BY <1>0, <1>1
    <2>2. Begun(d, i)
      BY <1>0, <2>1 DEF Begun, LastPart, Part
    <2>3. pc[d] = "done"
      BY <1>1, <2>2 DEF InterruptInv
    <2> QED BY <2>3, DoneStays
  <1>2. ASSUME i = Len(toRemote'), NEW t, Appended(t), t.k \notin {"INT", "QUIT"} PROVE FALSE
    BY <1>2 DEF Appended
  <1>3. ASSUME i = Len(toRemote'), Interrupts(c), NEW k, Appended([k |-> k, f |-> Frame(c), i |-> 0])
        PROVE  pc'[d] = "done"
    <2>1. d # c /\ pc' = pc /\ pc[c] \in Holding
      BY <1>3 DEF Appended, Interrupts, Frame, Selecting, Holding, Pumping
    <2>2. PICK s \in Stages : \/ exec[<<d, s>>] # "no"
                             \/ \E j \in 1..(i - 1) : toRemote'[j] = LastPart(<<d, s>>)
      BY <1>0 DEF Begun, LastPart, Part
    <2>3. <<d, s>> \in Frames
      BY DEF Frames
    <2>4. exec[<<d, s>>] # "no" \/ InStream(<<d, s>>)
      BY <1>0, <1>3, <2>2 DEF Appended, InStream
    <2>5. ~NotYet(<<d, s>>)
      BY <2>3, <2>4 DEF OnceInv, OnceAt
    <2>6. pc[d] \notin {"new", "lock"}
      BY <2>5 DEF NotYet
    <2>7. pc[d] \notin Holding
      BY <2>1 DEF LeaseExclusive
    <2> QED BY <2>1, <2>6, <2>7 DEF TypeOK
  <1>4. CASE toRemote' = toRemote
    BY <1>1, <1>4
  <1>5. ASSUME NEW t, Appended(t)
        PROVE  \/ i = Len(toRemote')
               \/ i \in 1..Len(toRemote) /\ \A j \in 1..Len(toRemote) : toRemote'[j] = toRemote[j]
    BY <1>0, <1>5 DEF Appended
  <1> QED BY <1>1, <1>2, <1>3, <1>4, <1>5, WireMoves DEF Part

\* When the shell or its terminal takes chunks off the wire, what was behind an
\* interrupt stays behind it.
LEMMA RemoteKeepsInterrupts ==
    ASSUME TypeOK, JobInv, InterruptInv, RemoteStep
    PROVE  InterruptInv'
  <1> SUFFICES ASSUME NEW i \in 1..Len(toRemote'), toRemote'[i].k \in {"INT", "QUIT"},
                      NEW d \in Calls \ {toRemote'[i].f[1]}, Begun(d, i)'
               PROVE  pc'[d] = "done"
    BY DEF InterruptInv
  <1>0. /\ pc' = pc /\ Len(toRemote) \in Nat
        /\ exec \in [Frames -> {"no", "running", "altered", "done", "failed", "aborted"}]
    <2>1. Untouched
      BY RemoteMoves
    <2> QED BY <2>1 DEF Untouched, TypeOK
  <1>1. PICK s \in Stages : \/ exec'[<<d, s>>] # "no"
                           \/ \E j \in 1..(i - 1) : toRemote'[j] = LastPart(<<d, s>>)
    BY DEF Begun, LastPart, Part
  <1>2. <<d, s>> \in Frames
    BY DEF Frames
  <1>3. ASSUME NEW p \in Nat, Dropped(p),
               \/ exec'[<<d, s>>] = exec[<<d, s>>]
               \/ exec[<<d, s>>] # "no"
               \/ p = 1 /\ toRemote[1] = LastPart(<<d, s>>)
        PROVE  pc[d] = "done"
    <2>1. i + p \in 1..Len(toRemote) /\ toRemote'[i] = toRemote[i + p]
      BY <1>0, <1>3 DEF Dropped
    <2>2. ASSUME NEW j \in 1..(i - 1), toRemote'[j] = LastPart(<<d, s>>)
          PROVE  Begun(d, i + p)
      <3>1. j + p \in 1..(i + p - 1) /\ toRemote[j + p] = LastPart(<<d, s>>)
        BY <1>0, <1>3, <2>2 DEF Dropped
      <3>2. \E n \in 1..(i + p - 1) : toRemote[n] = LastPart(<<d, s>>)
        BY <3>1
      <3>3. s \in Stages
        BY <1>1
      <3> QED BY <3>2, <3>3 DEF Begun
    <2>3. ASSUME p = 1, toRemote[1] = LastPart(<<d, s>>) PROVE Begun(d, i + p)
      <3>1. 1 \in 1..(i + p - 1)
        BY <1>0, <2>1, <2>3
      <3> QED BY <2>3, <3>1 DEF Begun
    <2>4. Begun(d, i + p)
      BY <1>1, <1>3, <2>2, <2>3 DEF Begun
    <2> QED BY <2>1, <2>4 DEF InterruptInv
  <1>4. ASSUME NEW f \in Frames, Starts(f) PROVE pc[d] = "done"
    <2>1. Dropped(1) /\ toRemote # <<>> /\ Head(toRemote) = LastPart(f)
      BY <1>4 DEF Starts
    <2>2. toRemote[1] = LastPart(f)
      <3>1. toRemote \in Seq(Input)
        BY DEF TypeOK
      <3> QED BY <2>1, <3>1
    <2>3. f # <<d, s>> => exec'[<<d, s>>] = exec[<<d, s>>]
      BY <1>0, <1>2, <1>4 DEF Starts
    <2> QED BY <1>3, <2>1, <2>2, <2>3
  <1>5. CASE Ends
    <2>1. PICK p \in Nat : Dropped(p)
      BY <1>5 DEF Ends
    <2>2. job.f # <<d, s>> => exec'[<<d, s>>] = exec[<<d, s>>]
      BY <1>0, <1>2, <1>5 DEF Ends, JobOver
    <2>3. job.f = <<d, s>> => exec[<<d, s>>] # "no"
      BY <1>5 DEF Ends, JobInv
    <2> QED BY <1>0, <1>3, <2>1, <2>2, <2>3
  <1>6. CASE Goes
    <2>1. exec' = exec
      BY <1>6 DEF Goes
    <2>2. PICK p \in Nat : Dropped(p)
      BY <1>6 DEF Goes
    <2> QED BY <1>0, <1>3, <2>1, <2>2
  <1> QED BY <1>0, <1>4, <1>5, <1>6, RemoteMoves

ShellInv == OnceInv /\ JobInv /\ InterruptInv

\* Every step keeps what the last lemmas say of the wire and of the job.
LEMMA ShellStep ==
    ASSUME IInv, LeaseExclusive, ShellInv, [Next]_vars
    PROVE  ShellInv'
  <1>0. TypeOK /\ OffsetInv /\ OnceInv /\ JobInv /\ InterruptInv
    BY DEF IInv, ShellInv
  <1>1. ASSUME NEW c \in Calls, SessionStep(c) \/ UserStep(c) PROVE ShellInv'
    <2>1. Alone(c) /\ Moves(c)
      BY <1>0, <1>1, CallerMoves
    <2>2. JobInv'
      BY <1>0, <2>1 DEF Alone, JobInv, Idle
    <2> QED BY <1>0, <2>1, <2>2, CallerKeepsOnce, CallerKeepsInterrupts DEF ShellInv
  <1>2. CASE ReaderStep \/ CloseStep \/ ChannelStep \/ UNCHANGED vars
    <2>1. Untouched /\ UNCHANGED <<toRemote, job, line, exec, wrote, down>>
      BY <1>2, ReaderCloseMoves, ChannelSteady
         DEF Steady, vars, sess, caller, parser, chan, remote, Untouched
    <2>2. OnceInv'
      BY <1>0, <2>1 DEF Untouched, OnceInv, OnceAt, NotYet, InStream, LastPart, Part
    <2>3. JobInv'
      BY <1>0, <2>1 DEF JobInv, Idle
    <2>4. InterruptInv'
      BY <1>0, <2>1 DEF Untouched, InterruptInv, Begun, LastPart, Part
    <2> QED BY <2>2, <2>3, <2>4 DEF ShellInv
  <1>3. CASE RemoteStep
    BY <1>0, <1>3, RemoteKeepsOnce, RemoteKeepsJob, RemoteKeepsInterrupts DEF ShellInv
  <1> QED BY <1>1, <1>2, <1>3 DEF Next

\* So it always holds.
LEMMA ShellInvariant == Spec => []ShellInv
  <1>1. Init => ShellInv
    <2> SUFFICES ASSUME Init PROVE ShellInv
      OBVIOUS
    <2>1. toRemote = <<>> /\ job = NoJob /\ \A f \in Frames : exec[f] = "no"
      BY DEF Init
    <2>2. OnceInv
      BY <2>1 DEF OnceInv, OnceAt, InStream
    <2>3. JobInv /\ InterruptInv
      BY <2>1 DEF JobInv, Idle, InterruptInv
    <2> QED BY <2>2, <2>3 DEF ShellInv
  <1>2. IInv /\ LeaseExclusive /\ ShellInv /\ [Next]_vars => ShellInv'
    BY ShellStep
  <1> QED BY <1>1, <1>2, TypesAndOffsets, LeaseIsExclusive, PTL DEF Spec

\* The ^C and ^\ that driveParser and pipePump write for a cancelled context never
\* stop the command of another call that still waits for it, however late they
\* reach the shell: s.mu is held until the parser is done, so a command that is
\* running when a foreign interrupt arrives belongs to a call that has returned.
THEOREM StrayInterruptsHarmless == Spec => NoStrayInterrupt
  <1> DEFINE Harmless ==
        \A p \in 1..Len(toRemote) :
            Signal(p) /\ ~Idle /\ job' # job =>
                \/ job.f[1] = toRemote[p].f[1]
                \/ pc[job.f[1]] = "done"
  <1>1. TypeOK /\ ShellInv => Harmless
    <2> SUFFICES ASSUME TypeOK, ShellInv, NEW p \in 1..Len(toRemote), Signal(p), ~Idle,
                        job.f[1] # toRemote[p].f[1]
                 PROVE  pc[job.f[1]] = "done"
      OBVIOUS
    <2>1. job.f \in Frames /\ exec[job.f] # "no"
      BY DEF ShellInv, JobInv
    <2>2. job.f[1] \in Calls /\ job.f[2] \in Stages /\ job.f = <<job.f[1], job.f[2]>>
      BY <2>1 DEF Frames
    <2>3. toRemote[p].k \in {"INT", "QUIT"}
      BY DEF Signal, IsSignal
    <2>4. Begun(job.f[1], p)
      BY <2>1, <2>2 DEF Begun
    <2> QED BY <2>2, <2>3, <2>4 DEF ShellInv, InterruptInv
  <1>2. TypeOK /\ ShellInv => [Harmless]_vars
    BY <1>1
  <1> QED BY <1>2, TypeCorrect, ShellInvariant, PTL DEF NoStrayInterrupt

-----------------------------------------------------------------------------
(* The chunks of a command line reach the shell unaltered and in order.    *)

\* Nothing gets between the chunks of a command: no Pipe is written to after its
\* end and no Write fails while the remote lives, or the channel takes a command
\* in one Write (Caps.MaxWriteChunk is 0 for WebSocket and subprocess channels;
\* tmux splits).
WholeLines == LateStdin \/ MayFail => Chunks = 1

\* The chunks of a command line follow each other on the wire and in the
\* shell's line, up to the one that its call writes next.  A channel that is
\* closed sends no more; what a dead remote side has received does not matter.
Partial(t) == t.k = "PART" /\ 0 < t.i /\ t.i < Chunks
Writing(t) ==
    \/ closer = "closed"
    \/ pc[t.f[1]] = "write" /\ Frame(t.f[1]) = t.f /\ off[t.f[1]] = t.i
\* The same, when the step is over.
StillWriting(t) ==
    \/ closer' = "closed"
    \/ pc'[t.f[1]] = "write" /\ <<t.f[1], stage'[t.f[1]]>> = t.f /\ off'[t.f[1]] = t.i
NextPart(t) == Part(t.f, t.i + 1)
Following ==
    \A i \in 1..Len(toRemote) : Partial(toRemote[i]) =>
        IF i < Len(toRemote) THEN toRemote[i + 1] = NextPart(toRemote[i])
                             ELSE Writing(toRemote[i])
LineGoesOn ==
    line # <<>> /\ Partial(line[Len(line)]) =>
        IF toRemote = <<>> THEN Writing(line[Len(line)])
                           ELSE toRemote[1] = NextPart(line[Len(line)])
LineInOrder ==
    line # <<>> /\ line[1] = Part(line[1].f, 1) =>
        \A i \in 1..Len(line) : line[i] = Part(line[1].f, i) /\ i < Chunks
OrderInv == ~down => Following /\ LineGoesOn /\ LineInOrder

\* A call that is writing goes on, unless the channel is closed.
LEMMA WritingStays ==
    ASSUME NEW c \in Calls, TypeOK, WholeLines, ~down, Alone(c), Moves(c), ~WriteChunk(c),
           NEW t \in Input, Partial(t), Writing(t)
    PROVE  StillWriting(t)
  <1>00. ~MayFail
    BY SizeAssumption DEF WholeLines, Partial, Input
  <1>0. t.f[1] \in Calls /\ closer' = closer
    BY DEF Input, Frames, Alone
  <1>1. CASE t.f[1] # c
    BY <1>0, <1>1 DEF Alone, Writing, StillWriting, Frame
  <1>2. CASE t.f[1] = c /\ closer # "closed"
    <2>1. pc[c] = "write"
      BY <1>2 DEF Writing
    <2>2. UNCHANGED <<pc, stage, off>>
      BY <1>00, <1>2, <2>1 DEF Moves, Interrupts, Feeds, Begin, Acquire, Release, Answers, CanFail,
         GoesOn, Stays, Selecting
    <2> QED BY <1>0, <1>2, <2>2 DEF Writing, StillWriting, Frame
  <1> QED BY <1>0, <1>1, <1>2 DEF Writing, StillWriting

\* What goes out after a chunk is the next chunk of the same command: the
\* call that is writing has the lease.
LEMMA NextPartFollows ==
    ASSUME NEW c \in Calls, TypeOK, LeaseExclusive, WholeLines,
           NEW t \in Input, Partial(t), Writing(t),
           WriteChunk(c) \/ Interrupts(c) \/ Feeds(c)
    PROVE  WriteChunk(c) /\ Part(Frame(c), off[c] + 1) = NextPart(t)
  <1>00. ~LateStdin
    BY SizeAssumption DEF WholeLines, Partial, Input
  <1>0. t.f[1] \in Calls /\ closer # "closed" /\ pc[c] \in Holding
    BY <1>00 DEF Input, Frames, WriteChunk, Interrupts, Feeds, CanWrite, Selecting, Holding, Pumping
  <1>1. pc[t.f[1]] = "write" /\ Frame(t.f[1]) = t.f /\ off[t.f[1]] = t.i
    BY <1>0 DEF Writing
  <1>2. t.f[1] = c
    BY <1>0, <1>1 DEF LeaseExclusive, Holding
  <1>3. WriteChunk(c)
    BY <1>00, <1>1, <1>2 DEF Interrupts, Feeds, Selecting
  <1> QED BY <1>1, <1>2, <1>3 DEF NextPart, Part

\* A goroutine that writes while it holds s.mu keeps the chunks in order.
LEMMA CallerKeepsOrder ==
    ASSUME NEW c \in Calls, TypeOK, OffsetInv, LeaseExclusive, WholeLines, OrderInv,
           Alone(c), Moves(c)
    PROVE  OrderInv'
  <1> SUFFICES ASSUME ~down PROVE Following' /\ LineGoesOn' /\ LineInOrder'
    BY DEF Alone, OrderInv
  <1>0. /\ Following /\ LineGoesOn /\ LineInOrder /\ line' = line
        /\ line # <<>> => line[Len(line)] \in Input
    BY DEF Alone, OrderInv, TypeOK
  <1>1. LineInOrder'
    BY <1>0 DEF LineInOrder, Part
  <1>2. CASE toRemote' = toRemote /\ ~WriteChunk(c)
    <2>1. \A i \in 1..Len(toRemote) : toRemote[i] \in Input
      BY DEF TypeOK
    <2>2. \A i \in 1..Len(toRemote) :
              Partial(toRemote[i]) /\ Writing(toRemote[i]) => StillWriting(toRemote[i])
      BY <1>2, <2>1, WritingStays
    <2>3. Following'
      BY <1>0, <1>2, <2>2 DEF Following, Writing, StillWriting, Frame, Partial, NextPart, Part
    <2>4. line # <<>> /\ Partial(line[Len(line)]) /\ Writing(line[Len(line)]) =>
              StillWriting(line[Len(line)])
      BY <1>0, <1>2, WritingStays
    <2>5. LineGoesOn'
      BY <1>0, <1>2, <2>4 DEF LineGoesOn, Writing, StillWriting, Frame, Partial, NextPart, Part
    <2> QED BY <1>1, <2>3, <2>5
  <1>3. ASSUME NEW t, Appended(t), WriteChunk(c) \/ Interrupts(c) \/ Feeds(c),
               WriteChunk(c) => t = Part(Frame(c), off[c] + 1), Partial(t) => StillWriting(t)
        PROVE  Following' /\ LineGoesOn'
    <2>1. /\ Len(toRemote) \in Nat /\ Len(toRemote') = Len(toRemote) + 1
          /\ toRemote \in Seq(Input) /\ toRemote' # <<>>
          /\ \A i \in 1..Len(toRemote) : toRemote'[i] = toRemote[i] /\ toRemote[i] \in Input
          /\ toRemote'[Len(toRemote) + 1] = t
      BY <1>3 DEF Appended, TypeOK
    <2>2. ASSUME NEW i \in 1..Len(toRemote'), Partial(toRemote'[i])
          PROVE  IF i < Len(toRemote') THEN toRemote'[i + 1] = NextPart(toRemote'[i])
                                       ELSE StillWriting(toRemote'[i])
      <3>1. CASE i < Len(toRemote)
        <4>1. i \in 1..Len(toRemote) /\ i + 1 \in 1..Len(toRemote) /\ i < Len(toRemote')
          BY <2>1, <3>1
        <4>2. toRemote[i + 1] = NextPart(toRemote[i])
          BY <1>0, <2>1, <2>2, <3>1, <4>1 DEF Following
        <4> QED BY <2>1, <4>1, <4>2
      <3>2. CASE i = Len(toRemote)
        <4>1. i \in 1..Len(toRemote) /\ i < Len(toRemote') /\ toRemote'[i + 1] = t
          BY <2>1, <3>2
        <4>2. Writing(toRemote[i]) /\ toRemote[i] \in Input
          BY <1>0, <2>1, <2>2, <3>2, <4>1 DEF Following
        <4>3. t = NextPart(toRemote[i])
          BY <1>3, <2>1, <2>2, <3>2, <4>1, <4>2, NextPartFollows
        <4> QED BY <2>1, <4>1, <4>3
      <3>3. CASE i = Len(toRemote) + 1
        BY <1>3, <2>1, <2>2, <3>3
      <3> QED BY <2>1, <3>1, <3>2, <3>3
    <2>3. Following'
      BY <2>2 DEF Following, Writing, StillWriting, Frame, Partial, NextPart, Part
    <2>4. LineGoesOn'
      <3> SUFFICES ASSUME line # <<>>, Partial(line[Len(line)])
                   PROVE  toRemote'[1] = NextPart(line[Len(line)])
        BY <1>0, <2>1 DEF LineGoesOn, Writing, StillWriting, Frame, Partial, NextPart, Part
      <3>1. CASE toRemote = <<>>
        <4>1. Writing(line[Len(line)])
          BY <1>0, <3>1 DEF LineGoesOn
        <4>2. t = NextPart(line[Len(line)])
          BY <1>0, <1>3, <4>1, NextPartFollows
        <4>3. toRemote'[1] = t
          BY <2>1, <3>1
        <4> QED BY <4>2, <4>3
      <3>2. CASE toRemote # <<>>
        <4>1. 1 \in 1..Len(toRemote)
          BY <2>1, <3>2
        <4> QED BY <1>0, <2>1, <3>2, <4>1 DEF LineGoesOn
      <3> QED BY <3>1, <3>2
    <2> QED BY <2>3, <2>4
  <1>4. CASE WriteChunk(c) /\ Appended(Part(Frame(c), off[c] + 1))
    <2> DEFINE t == Part(Frame(c), off[c] + 1)
    <2>1. ASSUME Partial(t) PROVE StillWriting(t)
      <3>1. off[c] + 1 # Chunks /\ t.i = off[c] + 1 /\ t.f = Frame(c) /\ t.f[1] = c
            /\ off[c] \in 0..Chunks
        BY <2>1, SizeAssumption DEF Partial, Part, Frame, TypeOK
      <3>2. pc' = pc /\ stage' = stage /\ pc[c] = "write" /\ off'[c] = off[c] + 1
        BY <1>4, <3>1 DEF WriteChunk, LastChunk, TypeOK
      <3> QED BY <3>1, <3>2 DEF StillWriting, Frame, Part
    <2> QED BY <1>1, <1>3, <1>4, <2>1
  <1>5. ASSUME NEW t, Interrupts(c) \/ Feeds(c), ~WriteChunk(c), Appended(t), t.k # "PART"
        PROVE  Following' /\ LineGoesOn'
    BY <1>3, <1>5 DEF Partial
  <1>6. Interrupts(c) \/ Feeds(c) => ~WriteChunk(c)
    <2>1. WriteChunk(c) => off'[c] = off[c] + 1 /\ off[c] \in 0..Chunks
      BY DEF WriteChunk, TypeOK
    <2>2. Interrupts(c) \/ Feeds(c) => off' = off
      BY DEF Interrupts, Feeds
    <2> QED BY <2>1, <2>2, SizeAssumption
  <1> QED BY <1>1, <1>2, <1>4, <1>5, <1>6, WireMoves

\* What the shell takes off the wire leaves the order of the rest.
LEMMA DropKeepsFollowing ==
    ASSUME TypeOK, Following, Untouched, closer' = closer, NEW p, Dropped(p)
    PROVE  Following'
  <1>0. /\ Len(toRemote) \in Nat /\ p \in 0..Len(toRemote)
        /\ Len(toRemote') = Len(toRemote) - p
        /\ \A i \in 1..Len(toRemote') : toRemote'[i] = toRemote[i + p]
    BY DEF Dropped, TypeOK
  <1> SUFFICES ASSUME NEW i \in 1..Len(toRemote'), Partial(toRemote'[i])
               PROVE  IF i < Len(toRemote') THEN toRemote'[i + 1] = NextPart(toRemote'[i])
                                            ELSE StillWriting(toRemote'[i])
    BY DEF Following, Writing, StillWriting, Frame, Partial, NextPart, Part
  <1>1. i + p \in 1..Len(toRemote) /\ toRemote'[i] = toRemote[i + p]
    BY <1>0
  <1>2. CASE i < Len(toRemote')
    <2>1. i + p < Len(toRemote) /\ toRemote'[i + 1] = toRemote[(i + p) + 1]
      <3>1. i + 1 \in 1..Len(toRemote') /\ (i + 1) + p = (i + p) + 1
        BY <1>0, <1>2
      <3> QED BY <1>0, <1>2, <3>1
    <2> QED BY <1>1, <1>2, <2>1 DEF Following
  <1>3. CASE ~(i < Len(toRemote'))
    <2>1. ~(i + p < Len(toRemote))
      BY <1>0, <1>3
    <2>2. Writing(toRemote[i + p])
      BY <1>1, <2>1 DEF Following
    <2> QED BY <1>1, <1>3, <2>2 DEF Writing, StillWriting, Untouched, Frame
  <1> QED BY <1>2, <1>3

\* The shell starts no command that stray input has got into.
LEMMA StartsUnaltered ==
    ASSUME TypeOK, OrderInv, NEW f \in Frames, Starts(f)
    PROVE  exec' = [exec EXCEPT ![f] = "running"]
  <1> SUFFICES ASSUME line # <<>>, Head(line) = Part(f, 1),
                      Append(line, Head(toRemote)) # Wrapped(f)
               PROVE  FALSE
    BY DEF Starts
  <1>0. /\ line \in Seq(Input) /\ Len(line) \in Nat \ {0} /\ Chunks \in Nat
        /\ toRemote # <<>> /\ Head(toRemote) = LastPart(f) /\ Head(toRemote) = toRemote[1]
        /\ LineGoesOn /\ LineInOrder /\ line[1] = Head(line) /\ Head(toRemote) \in Input
        /\ toRemote \in Seq(Input)
    BY EmptySeq, SizeAssumption DEF TypeOK, OrderInv, Starts
  <1>1. \A i \in 1..Len(line) : line[i] = Part(f, i) /\ i < Chunks
    BY <1>0 DEF LineInOrder, Part
  <1>2. line[Len(line)] = Part(f, Len(line)) /\ Len(line) < Chunks
    BY <1>0, <1>1
  <1>3. toRemote[1] = NextPart(line[Len(line)])
    BY <1>0, <1>2 DEF LineGoesOn, Partial, Part
  <1>4. Len(line) + 1 = Chunks
    BY <1>0, <1>2, <1>3 DEF NextPart, LastPart, Part
  <1>5. Wrapped(f) \in Seq(Input)
    <2>1. \A i \in 1..Chunks : Part(f, i) \in Input
      BY <1>0 DEF Part, Input
    <2>2. Wrapped(f) \in [1..Chunks -> Input]
      BY <2>1 DEF Wrapped, Part
    <2> QED BY <1>0, <2>2
  <1>6. Len(Wrapped(f)) = Chunks /\ \A i \in 1..Chunks : Wrapped(f)[i] = Part(f, i)
    BY <1>0 DEF Wrapped, Part
  <1>7. /\ Append(line, Head(toRemote)) \in Seq(Input)
        /\ Len(Append(line, Head(toRemote))) = Chunks
        /\ \A i \in 1..Len(line) : Append(line, Head(toRemote))[i] = line[i]
        /\ Append(line, Head(toRemote))[Len(line) + 1] = Head(toRemote)
    BY <1>0, <1>4, AppendProperties
  <1>8. \A i \in 1..Chunks : Append(line, Head(toRemote))[i] = Part(f, i)
    <2> SUFFICES ASSUME NEW i \in 1..Chunks PROVE Append(line, Head(toRemote))[i] = Part(f, i)
      OBVIOUS
    <2>1. CASE i \in 1..Len(line)
      BY <1>1, <1>7, <2>1
    <2>2. CASE i = Len(line) + 1
      BY <1>0, <1>4, <1>7, <2>2 DEF LastPart
    <2> QED BY <1>0, <1>4, <2>1, <2>2
  <1>9. Append(line, Head(toRemote)) = Wrapped(f)
    BY <1>5, <1>6, <1>7, <1>8, SeqEqual
  <1> QED BY <1>9

\* The shell adds the next chunk to its line.
LEMMA ShellReadKeepsOrder ==
    ASSUME TypeOK, OrderInv, ~down, ShellRead
    PROVE  LineGoesOn' /\ LineInOrder'
  <1>0. /\ line \in Seq(Input) /\ Len(line) \in Nat /\ Chunks \in Nat
        /\ toRemote # <<>> /\ toRemote' = Tail(toRemote) /\ ~EndsLine(Head(toRemote))
        /\ UNCHANGED <<pc, stage, off, closer>>
        /\ Following /\ LineGoesOn /\ LineInOrder
    BY SizeAssumption DEF TypeOK, OrderInv, ShellRead, HeadIsData, caller, chan
  <1>1. /\ Dropped(1) /\ Head(toRemote) = toRemote[1] /\ Head(toRemote) \in Input
        /\ Len(toRemote) \in Nat \ {0} /\ toRemote' \in Seq(Input)
    BY <1>0, DroppedOne, EmptySeq, HeadTailProperties DEF TypeOK
  <1> DEFINE t == Head(toRemote)
  <1>2. CASE line' = <<>>
    BY <1>2 DEF LineGoesOn, LineInOrder
  <1>3. CASE line' = Append(line, t)
    <2>1. /\ Len(line') = Len(line) + 1 /\ line'[Len(line) + 1] = t /\ line' # <<>>
          /\ \A i \in 1..Len(line) : line'[i] = line[i]
      BY <1>0, <1>1, <1>3, AppendProperties
    <2>2. ASSUME Partial(t) PROVE IF toRemote' = <<>> THEN StillWriting(t) ELSE toRemote'[1] = NextPart(t)
      <3>1. CASE Len(toRemote) = 1
        <4>1. toRemote' = <<>>
          BY <1>1, <3>1 DEF Dropped
        <4>2. Writing(t)
          BY <1>0, <1>1, <2>2, <3>1 DEF Following
        <4> QED BY <1>0, <4>1, <4>2 DEF Writing, StillWriting, Frame
      <3>2. CASE Len(toRemote) > 1
        <4>1. toRemote' # <<>> /\ 1 \in 1..Len(toRemote')
          BY <1>1, <3>2 DEF Dropped
        <4>2. toRemote'[1] = toRemote[1 + 1]
          BY <1>1, <4>1 DEF Dropped
        <4>3. toRemote[1 + 1] = NextPart(t)
          BY <1>0, <1>1, <2>2, <3>2 DEF Following
        <4> QED BY <4>1, <4>2, <4>3
      <3>3. Len(toRemote) = 1 \/ Len(toRemote) > 1
        <4>1. Len(toRemote) \in Nat /\ Len(toRemote) # 0
          BY <1>1
        <4> QED BY <4>1
      <3> QED BY <3>1, <3>2, <3>3
    <2>3. LineGoesOn'
      BY <2>1, <2>2 DEF LineGoesOn, Writing, StillWriting, Frame, Partial, NextPart, Part
    <2>4. ASSUME line'[1] = Part(line'[1].f, 1)
          PROVE  \A i \in 1..Len(line') : line'[i] = Part(line'[1].f, i) /\ i < Chunks
      <3>1. CASE line = <<>>
        <4>1. Len(line) = 0 /\ line'[1] = t
          BY <2>1, <3>1
        <4>2. t = Part(t.f, 1) /\ 1 # Chunks
          BY <1>0, <2>4, <4>1 DEF EndsLine, Part
        <4>3. 1 < Chunks
          BY <1>0, <4>2, SizeAssumption
        <4> QED BY <2>1, <4>1, <4>2, <4>3
      <3>2. CASE line # <<>>
        <4>1. 1 \in 1..Len(line) /\ line'[1] = line[1] /\ Len(line) \in 1..Len(line)
          BY <1>0, <2>1, <3>2, EmptySeq
        <4>2. \A i \in 1..Len(line) : line[i] = Part(line[1].f, i) /\ i < Chunks
          BY <1>0, <2>4, <3>2, <4>1 DEF LineInOrder
        <4>3. t = Part(line[1].f, Len(line) + 1)
          <5>1. line[Len(line)] = Part(line[1].f, Len(line)) /\ Len(line) < Chunks
            BY <4>1, <4>2
          <5>2. Len(line) > 0
            BY <4>1
          <5>3. Partial(line[Len(line)])
            BY <5>1, <5>2 DEF Partial, Part
          <5> QED BY <1>0, <1>1, <5>1, <5>3, <3>2 DEF LineGoesOn, NextPart, Part
        <4>4. Len(line) + 1 < Chunks
          <5>1. Len(line) + 1 # Chunks
            BY <1>0, <4>3 DEF EndsLine, Part
          <5>2. Len(line) < Chunks
            BY <4>1, <4>2
          <5> QED BY <1>0, <5>1, <5>2
        <4>5. ASSUME NEW i \in 1..Len(line')
              PROVE  line'[i] = Part(line[1].f, i) /\ i < Chunks
          <5>1. CASE i \in 1..Len(line)
            BY <2>1, <4>2, <5>1
          <5>2. CASE i = Len(line) + 1
            BY <2>1, <4>3, <4>4, <5>2
          <5> QED BY <1>0, <2>1, <5>1, <5>2
        <4> QED BY <4>1, <4>5
      <3> QED BY <3>1, <3>2
    <2>5. LineInOrder'
      BY <2>4 DEF LineInOrder, Part
    <2> QED BY <2>3, <2>5
  <1> QED BY <1>2, <1>3 DEF ShellRead

\* The shell, which reads whole lines, keeps the rest of them in order.
LEMMA RemoteKeepsOrder ==
    ASSUME TypeOK, JobInv, OrderInv, RemoteStep
    PROVE  OrderInv'
  <1> SUFFICES ASSUME ~down, ~down' PROVE Following' /\ LineGoesOn' /\ LineInOrder'
    BY DEF OrderInv, RemoteStep, ShellRead, JobRead, JobPrint, RemoteDies, Relink, ShellStart,
       ShellStartGarbled, JobExit, Signal, remote
  <1>0. Following /\ LineGoesOn /\ LineInOrder /\ Untouched /\ closer' = closer
    BY RemoteMoves DEF OrderInv
  <1>1. Following'
    <2>1. PICK p : Dropped(p)
      BY RemoteMoves DEF Starts, Ends, Goes
    <2> QED BY <1>0, <2>1, DropKeepsFollowing
  <1>2. CASE line' = <<>>
    BY <1>1, <1>2 DEF LineGoesOn, LineInOrder
  <1>3. CASE ShellRead
    BY <1>1, <1>3, ShellReadKeepsOrder
  <1>4. CASE JobPrint
    <2>1. UNCHANGED <<toRemote, line, pc, stage, off, closer>>
      BY <1>4 DEF JobPrint, caller
    <2> QED BY <1>0, <1>1, <2>1 DEF LineGoesOn, LineInOrder, Writing, Partial, NextPart, Part, Frame
  <1>5. CASE ~Idle /\ ~ShellRead /\ ~JobPrint
    <2>1. line = <<>>
      BY <1>5 DEF JobInv
    <2>2. line' \in {line, <<>>}
      BY <1>5, RemoteMoves DEF Starts, Ends, Goes, JobRead, RemoteDies, remote
    <2> QED BY <1>2, <2>1, <2>2
  <1>6. CASE Idle /\ ~ShellRead
    <2>1. line' = <<>>
      BY <1>6, RemoteMoves DEF Starts, Ends, Goes, JobRead, JobPrint, RemoteDies
    <2> QED BY <1>2, <2>1
  <1> QED BY <1>3, <1>4, <1>5, <1>6

-----------------------------------------------------------------------------
(* What the shell does to its commands, and the END lines it prints.       *)

Unaltered == \A f \in Frames : exec[f] # "altered"

\* An END tells what became of its command.
Truth(m) ==
    m.k = "END" => m.f \in Frames /\ exec[m.f] = IF m.code = 0 THEN "done" ELSE "failed"
EndInv ==
    /\ \A i \in 1..Len(readCh) : Truth(readCh[i])
    /\ \A i \in 1..Len(held) : Truth(held[i])
    /\ \A i \in 1..Len(fromRemote) : Truth(fromRemote[i])

\* A call that succeeded has seen its END, and a prelude that succeeded has
\* run before any user's command is written.
ResInv ==
    \A c \in Calls :
        /\ res[c] # "none" => pc[c] \in {"release", "done"}
        /\ res[c] \in {"ok", "canceled"} /\ stage[c] = "user" =>
              exec[<<c, "user">>] \in {"done", "failed"}
PreludeInv ==
    /\ preluded => \E d \in Calls : exec[<<d, "prelude">>] = "done"
    /\ \A c \in Calls :
          /\ pc[c] \in Holding /\ stage[c] = "user" => preluded
          /\ exec[<<c, "user">>] # "no" \/ InStream(<<c, "user">>) => preluded

\* What a parser takes is the head of readCh.
LEMMA CallerReads ==
    ASSUME NEW c \in Calls, SessionStep(c) \/ UserStep(c)
    PROVE  readCh' = readCh \/ (readCh # <<>> /\ readCh' = Tail(readCh))
  BY DEF SessionStep, UserStep, Receive, SkipNoise, SeeBeg, Capture, SeeEnd, SeeReadError, Take,
     Begin, Acquire, Release, WriteChunk, WriteFails, SeeReaderGone, SoftCancel, HardCancel,
     CancelWriteFails, DeclareDead, FlushFails, CancelCtx, PipeRead, PipeCloseStdout, PipeWrite, rd

\* A command that starts has not run before.
LEMMA StartsOnce ==
    ASSUME TypeOK, OnceInv, NEW f \in Frames, Starts(f)
    PROVE  exec[f] = "no" /\ InStream(f) /\ ~NotYet(f)
  <1>1. 1 \in 1..Len(toRemote) /\ toRemote[1] = LastPart(f)
    <2>1. toRemote \in Seq(Input) /\ toRemote # <<>> /\ Head(toRemote) = LastPart(f)
      BY DEF TypeOK, Starts
    <2> QED BY <2>1
  <1>2. InStream(f)
    BY <1>1 DEF InStream
  <1> QED BY <1>2 DEF OnceInv, OnceAt

\* What the shell does to its commands and what it prints of it.
Prints(m) == fromRemote' = Append(fromRemote, m)
Begins(f) ==
    /\ Starts(f) /\ exec[f] = "no" /\ exec' = [exec EXCEPT ![f] = "running"]
    /\ \/ job' = [f |-> f, framed |-> TRUE] /\ Prints(Msg("BEG", f, 0))
       \/ job' = [f |-> f, framed |-> FALSE] /\ fromRemote' = fromRemote
Over(f, code) ==
    /\ ~down /\ exec[f] = "running" /\ job.f = f /\ job' = NoJob /\ UNCHANGED <<wrote, down>>
    /\ exec' = [exec EXCEPT ![f] = IF code = 0 THEN "done" ELSE "failed"]
    /\ IF job.framed THEN Prints(Msg("END", f, code)) ELSE fromRemote' = fromRemote
Aborted(f) ==
    /\ ~down /\ exec[f] = "running" /\ job.f = f /\ job' = NoJob /\ UNCHANGED <<wrote, down>>
    /\ exec' = [exec EXCEPT ![f] = "aborted"]
    /\ fromRemote' = fromRemote \/ Cut
Quiet ==
    /\ UNCHANGED <<job, exec>>
    /\ \/ UNCHANGED <<wrote, down, fromRemote>> \/ JobPrint \/ RemoteDies
       \/ Cut /\ UNCHANGED <<wrote, down>>

Acts(f) == Begins(f) \/ (\E code \in {0, 1} : Over(f, code)) \/ Aborted(f)

\* With its lines unaltered, the shell starts each command once and between
\* markers of its own, ends it, loses it to a signal, or does none of these.
LEMMA ShellActs ==
    ASSUME TypeOK, OnceInv, JobInv, OrderInv, Unaltered, RemoteStep
    PROVE  \/ \E f \in Frames : Acts(f)
           \/ Quiet
  <1>1. ASSUME NEW f \in Frames, Starts(f) PROVE Begins(f)
    <2>1. exec[f] = "no" /\ exec' = [exec EXCEPT ![f] = "running"]
      BY <1>1, StartsOnce, StartsUnaltered
    <2>2. \/ job' = [f |-> f, framed |-> TRUE] /\ Prints(Msg("BEG", f, 0))
          \/ job' = [f |-> f, framed |-> FALSE] /\ fromRemote' = fromRemote
      BY <1>1 DEF Starts, Emit, Prints
    <2> QED BY <1>1, <2>1, <2>2 DEF Begins
  <1>2. ASSUME Ends
        PROVE  /\ job.f \in Frames
               /\ ((\E code \in {0, 1} : Over(job.f, code)) \/ Aborted(job.f))
    <2>1. /\ job.f \in Frames /\ exec[job.f] = "running" /\ ~down
          /\ exec \in [Frames -> {"no", "running", "altered", "done", "failed", "aborted"}]
          /\ UNCHANGED <<wrote, down>>
      BY <1>2 DEF Ends, JobInv, Unaltered, TypeOK
    <2>2. ASSUME NEW code \in {0, 1}, JobOver(code) PROVE Over(job.f, code)
      BY <2>1, <2>2 DEF JobOver, Over, Emit, Prints
    <2>3. CASE /\ job' = NoJob /\ exec' = [exec EXCEPT ![job.f] = "aborted"]
               /\ fromRemote' = fromRemote \/ Cut
      BY <2>1, <2>3 DEF Aborted
    <2> QED BY <1>2, <2>1, <2>2, <2>3 DEF Ends
  <1>3. Goes => Quiet
    BY DEF Goes, Quiet
  <1>4. \A f \in Frames : Starts(f) => Acts(f)
    BY <1>1 DEF Acts
  <1>5. Ends => job.f \in Frames /\ Acts(job.f)
    BY <1>2 DEF Acts
  <1> QED BY <1>3, <1>4, <1>5, RemoteMoves

\* No command is altered, and one that is over stays what it became.
LEMMA ShellKeepsExec ==
    ASSUME TypeOK, OnceInv, JobInv, OrderInv, Unaltered, RemoteStep
    PROVE  /\ Unaltered'
           /\ \A f \in Frames : exec[f] \in {"done", "failed"} => exec'[f] = exec[f]
           /\ \A f \in Frames : exec'[f] # "no" => exec[f] # "no" \/ InStream(f)
  <1>0. exec \in [Frames -> {"no", "running", "altered", "done", "failed", "aborted"}]
    BY DEF TypeOK
  <1>1. ASSUME NEW f \in Frames, exec[f] \notin {"done", "failed"}, exec[f] # "no" \/ InStream(f),
               NEW r \in {"running", "done", "failed", "aborted"}, exec' = [exec EXCEPT ![f] = r]
        PROVE  /\ Unaltered'
               /\ \A g \in Frames : exec[g] \in {"done", "failed"} => exec'[g] = exec[g]
               /\ \A g \in Frames : exec'[g] # "no" => exec[g] # "no" \/ InStream(g)
    BY <1>0, <1>1 DEF Unaltered
  <1>2. ASSUME NEW f \in Frames, Begins(f) PROVE exec[f] = "no" /\ InStream(f)
    BY <1>2, StartsOnce DEF Begins
  <1>3. CASE Quiet
    BY <1>3 DEF Quiet, Unaltered
  <1> QED BY <1>1, <1>2, <1>3, ShellActs DEF Acts, Begins, Over, Aborted

\* The reader moves messages and adds the read error.
LEMMA ReaderMoves ==
    ASSUME TypeOK, ReaderStep \/ CloseStep
    PROVE  \/ UNCHANGED <<held, readCh, fromRemote, reader>>
           \/ /\ reader = "run" /\ fromRemote # <<>> /\ held = <<>> /\ held' = <<Head(fromRemote)>>
              /\ fromRemote' = Tail(fromRemote) /\ UNCHANGED <<readCh, reader>>
           \/ /\ held = <<>> /\ held' = <<ReadError>> /\ UNCHANGED <<readCh, fromRemote, reader>>
           \/ /\ reader = "run" /\ held # <<>> /\ readCh' = Append(readCh, Head(held)) /\ held' = <<>>
              /\ reader' = (IF Head(held).k = "ERR" THEN "exit" ELSE "run")
              /\ UNCHANGED fromRemote
           \/ held' = <<>> /\ reader' = "exit" /\ UNCHANGED <<readCh, fromRemote>>
  BY DEF ReaderStep, ReaderRead, ReaderSend, ReaderStop, CloseStep, CloseMark, CloseStop,
     CloseChannel, rd, chan

\* No step puts a false END on its way to the parsers.
LEMMA EndsToldTruly ==
    ASSUME IInv, OnceInv, JobInv, OrderInv, Unaltered, EndInv, [Next]_vars
    PROVE  EndInv'
  <1>0. /\ TypeOK /\ readCh \in Seq(Message) /\ held \in Seq(Message) /\ fromRemote \in Seq(Message)
        /\ Len(readCh) \in Nat /\ Len(held) \in Nat /\ Len(fromRemote) \in Nat
    BY DEF IInv, TypeOK
  <1> DEFINE Told(s) == \A i \in 1..Len(s) : Truth(s[i])
  <1>1. ASSUME NEW s \in Seq(Message), Told(s)
        PROVE  /\ s # <<>> => Told(Tail(s)) /\ Head(s) \in Message /\ Truth(Head(s))
               /\ \A m \in Message : Truth(m) => Told(Append(s, m))
    <2>1. ASSUME s # <<>> PROVE Told(Tail(s)) /\ Head(s) \in Message /\ Truth(Head(s))
      BY <1>1, <2>1, HeadTailProperties
    <2>2. ASSUME NEW m \in Message, Truth(m) PROVE Told(Append(s, m))
      <3>1. /\ Len(Append(s, m)) = Len(s) + 1 /\ Append(s, m)[Len(s) + 1] = m /\ Len(s) \in Nat
            /\ \A i \in 1..Len(s) : Append(s, m)[i] = s[i]
        BY AppendProperties, LenProperties
      <3>2. ASSUME NEW i \in 1..(Len(s) + 1) PROVE Truth(Append(s, m)[i])
        BY <1>1, <2>2, <3>1, <3>2
      <3> QED BY <3>1, <3>2
    <2> QED BY <2>1, <2>2
  <1>2. ASSUME NEW m \in Message PROVE Told(<<m>>) <=> Truth(m)
    <2>1. Len(<<m>>) = 1 /\ <<m>>[1] = m
      OBVIOUS
    <2> QED BY <2>1
  <1>3. Told(<<>>) /\ Truth(ReadError) /\ ReadError \in Message
    BY MessageTypes DEF Truth, ReadError, Msg
  <1>4. Told(readCh) /\ Told(held) /\ Told(fromRemote)
    BY DEF EndInv
  <1>5. CASE exec' = exec /\ Told(readCh') /\ Told(held') /\ Told(fromRemote')
    BY <1>5 DEF EndInv, Truth
  <1> HIDE DEF Told
  <1>6. ASSUME NEW c \in Calls, SessionStep(c) \/ UserStep(c) PROVE EndInv'
    <2>1. Alone(c)
      BY <1>0, <1>6, CallerMoves
    <2>2. readCh' = readCh \/ (readCh # <<>> /\ readCh' = Tail(readCh))
      BY <1>6, CallerReads
    <2>3. Told(readCh')
      BY <1>0, <1>1, <1>4, <2>2
    <2> QED BY <1>4, <1>5, <2>1, <2>3 DEF Alone
  <1>7. CASE ReaderStep \/ CloseStep
    <2>1. exec' = exec
      BY <1>7, ReaderCloseMoves
    <2>2. Told(readCh') /\ Told(held') /\ Told(fromRemote')
      BY <1>0, <1>1, <1>2, <1>3, <1>4, <1>7, ReaderMoves
    <2> QED BY <1>5, <2>1, <2>2
  <1>8. CASE RemoteStep
    <2>1. \A f \in Frames : exec[f] \in {"done", "failed"} => exec'[f] = exec[f]
      BY <1>0, <1>8, ShellKeepsExec
    <2> DEFINE TruthNow(m) ==
          m.k = "END" => m.f \in Frames /\ exec'[m.f] = IF m.code = 0 THEN "done" ELSE "failed"
    <2>2. \A m \in Message : Truth(m) => TruthNow(m)
      BY <2>1 DEF Truth
    <2> HIDE DEF TruthNow
    <2>3. readCh' = readCh /\ held' = held
      BY <1>0, <1>8, RemoteMoves
    <2>4. /\ \A i \in 1..Len(readCh) : TruthNow(readCh[i])
          /\ \A i \in 1..Len(held) : TruthNow(held[i])
          /\ \A i \in 1..Len(fromRemote) : TruthNow(fromRemote[i])
      BY <1>0, <2>2 DEF EndInv
    <2>5. ASSUME NEW m \in Message, Prints(m), TruthNow(m)
          PROVE  \A i \in 1..Len(fromRemote') : TruthNow(fromRemote'[i])
      <3>1. /\ Len(fromRemote') = Len(fromRemote) + 1 /\ fromRemote'[Len(fromRemote) + 1] = m
            /\ \A i \in 1..Len(fromRemote) : fromRemote'[i] = fromRemote[i]
        BY <1>0, <2>5, AppendProperties DEF Prints
      <3>2. ASSUME NEW i \in 1..(Len(fromRemote) + 1) PROVE TruthNow(fromRemote'[i])
        BY <1>0, <2>4, <2>5, <3>1, <3>2
      <3> QED BY <3>1, <3>2
    <2>6. ASSUME fromRemote' = fromRemote
          PROVE  \A i \in 1..Len(fromRemote') : TruthNow(fromRemote'[i])
      BY <2>4, <2>6
    <2>7. \A i \in 1..Len(fromRemote') : TruthNow(fromRemote'[i])
      <3>1. ASSUME NEW f \in Frames, Begins(f) PROVE fromRemote' = fromRemote \/ Prints(Msg("BEG", f, 0))
        BY <3>1 DEF Begins
      <3>2. ASSUME NEW f \in Frames, NEW code \in {0, 1}, Over(f, code)
            PROVE  fromRemote' = fromRemote \/ (Prints(Msg("END", f, code)) /\ TruthNow(Msg("END", f, code)))
        <4>1. exec'[f] = IF code = 0 THEN "done" ELSE "failed"
          BY <1>0, <3>2 DEF Over, TypeOK
        <4>2. TruthNow(Msg("END", f, code))
          BY <4>1 DEF Msg, TruthNow
        <4> QED BY <3>2, <4>2 DEF Over
      <3>3. ASSUME Quiet
            PROVE  \/ fromRemote' = fromRemote \/ fromRemote' = <<>> \/ Prints(ReadError)
                   \/ job.f \in Frames /\ Prints(Msg("OUT", job.f, 0))
        BY <3>3 DEF Quiet, Cut, JobPrint, RemoteDies, Prints, Emit, JobInv
      <3>4. \A f \in Frames : TruthNow(Msg("BEG", f, 0)) /\ TruthNow(Msg("OUT", f, 0))
        BY DEF Msg, TruthNow
      <3>5. TruthNow(ReadError)
        BY DEF ReadError, Msg, TruthNow
      <3>6. \A f \in Frames : Aborted(f) => fromRemote' = fromRemote \/ fromRemote' = <<>>
        BY DEF Aborted, Cut
      <3>8. ASSUME fromRemote' = <<>> PROVE \A i \in 1..Len(fromRemote') : TruthNow(fromRemote'[i])
        <4>1. Len(fromRemote') = 0
          BY <3>8
        <4> QED BY <4>1
      <3>7. \A f \in Frames, code \in {0, 1} :
               /\ Msg("BEG", f, 0) \in Message /\ Msg("OUT", f, 0) \in Message
               /\ Msg("END", f, code) \in Message
        BY MessageTypes
      <3> QED BY <1>0, <1>3, <1>8, <2>5, <2>6, <3>1, <3>2, <3>3, <3>4, <3>5, <3>6, <3>7, <3>8, ShellActs
              DEF Acts
    <2> QED BY <2>3, <2>4, <2>7 DEF EndInv, Truth, TruthNow
  <1>9. CASE ChannelStep \/ UNCHANGED vars
    BY <1>4, <1>5, <1>9, ChannelSteady DEF Steady, vars, remote, rd, chan
  <1> QED BY <1>6, <1>7, <1>8, <1>9 DEF Next

-----------------------------------------------------------------------------
(* Answers and the prelude.                                                *)

\* The END that a parser reads is true.
LEMMA EndReadIsTrue ==
    ASSUME NEW c \in Calls, TypeOK, EndInv, EndRead(c)
    PROVE  /\ exec[Frame(c)] \in {"done", "failed"}
           /\ Head(readCh).code = 0 => exec[Frame(c)] = "done"
  <1>1. readCh \in Seq(Message) /\ readCh # <<>>
    BY DEF TypeOK, EndRead
  <1>2. Head(readCh) = readCh[1] /\ 1 \in 1..Len(readCh)
    BY <1>1, EmptySeq
  <1>3. Truth(Head(readCh)) /\ Head(readCh).k = "END" /\ Head(readCh).f = Frame(c)
    BY <1>2 DEF EndInv, EndRead, Own
  <1> QED BY <1>3 DEF Truth

\* RunFramed and Pipe succeed only on the END of their own nonce.
LEMMA CallerKeepsResults ==
    ASSUME NEW c \in Calls, TypeOK, EndInv, ResInv, Alone(c), Moves(c)
    PROVE  ResInv'
  <1> SUFFICES ASSUME NEW d \in Calls
               PROVE  /\ res'[d] # "none" => pc'[d] \in {"release", "done"}
                      /\ res'[d] \in {"ok", "canceled"} /\ stage'[d] = "user" =>
                            exec[<<d, "user">>] \in {"done", "failed"}
    BY DEF ResInv, Alone
  <1>0. /\ res[d] # "none" => pc[d] \in {"release", "done"}
        /\ res[d] \in {"ok", "canceled"} /\ stage[d] = "user" =>
              exec[<<d, "user">>] \in {"done", "failed"}
        /\ pc \in [Calls -> {"new", "lock", "done"} \cup Holding]
        /\ res \in [Calls -> Results]
    BY DEF ResInv, TypeOK
  <1>1. CASE d # c
    BY <1>0, <1>1 DEF Alone
  <1>2. CASE d = c
    <2> USE <1>0, <1>2
    <2>1. CASE WriteChunk(c)
      <3>1. pc[c] = "write" /\ UNCHANGED <<res, stage>>
        BY <2>1 DEF WriteChunk
      <3> QED BY <3>1
    <2>2. CASE Interrupts(c) \/ Feeds(c)
      BY <2>2 DEF Interrupts, Feeds
    <2>3. CASE Begin(c)
      BY <2>3 DEF Begin
    <2>4. CASE Acquire(c)
      BY <2>4 DEF Acquire
    <2>5. CASE Release(c)
      BY <2>5 DEF Release
    <2>6. CASE Answers(c)
      <3>1. PICK e \in Results \ {"none"} :
              Finish(c, e) /\ (e \in {"ok", "canceled"} /\ stage[c] = "user" => EndRead(c))
        BY <2>6 DEF Answers
      <3>2. res'[c] = e /\ pc'[c] \in {"release", "done"} /\ stage' = stage
        BY <2>6, <3>1 DEF Finish, Answers
      <3>3. e \in {"ok", "canceled"} /\ stage[c] = "user" => exec[Frame(c)] \in {"done", "failed"}
        BY <3>1, EndReadIsTrue
      <3> QED BY <3>2, <3>3 DEF Frame
    <2>7. CASE GoesOn(c)
      BY <2>7 DEF GoesOn, Selecting
    <2>8. CASE Stays(c)
      BY <2>8 DEF Stays
    <2> QED BY <2>1, <2>2, <2>3, <2>4, <2>5, <2>6, <2>7, <2>8 DEF Moves
  <1> QED BY <1>1, <1>2

\* ensurePrelude marks the prelude as done after an END with exit code 0, before
\* the first chunk of a user's command.
LEMMA CallerKeepsPrelude ==
    ASSUME NEW c \in Calls, TypeOK, OffsetInv, EndInv, PreludeInv, Alone(c), Moves(c)
    PROVE  PreludeInv'
  <1>0. exec' = exec /\ pc \in [Calls -> {"new", "lock", "done"} \cup Holding]
        /\ stage \in [Calls -> Stages] /\ Len(toRemote) \in Nat
    BY DEF Alone, TypeOK
  <1>1. /\ preluded => preluded'
        /\ preluded' => preluded \/ \E d \in Calls : exec[<<d, "prelude">>] = "done"
    <2>1. CASE GoesOn(c)
      <3>1. exec[Frame(c)] = "done"
        BY <2>1, EndReadIsTrue DEF GoesOn
      <3> QED BY <2>1, <3>1 DEF GoesOn, Frame
    <2>2. CASE ~GoesOn(c)
      <3>1. preluded' = preluded
        BY <2>2 DEF Moves, WriteChunk, Interrupts, Feeds, Begin, Acquire, Release, Answers, Stays, sess
      <3> QED BY <3>1
    <2> QED BY <2>1, <2>2
  <1>2. ASSUME NEW d \in Calls, pc'[d] \in Holding, stage'[d] = "user" PROVE preluded'
    <2>1. CASE d # c
      BY <1>1, <1>2, <2>1 DEF Alone, PreludeInv
    <2>2. CASE d = c /\ (Acquire(c) \/ GoesOn(c))
      BY <1>0, <1>1, <1>2, <2>2 DEF Acquire, GoesOn
    <2>3. CASE d = c /\ ~Acquire(c) /\ ~GoesOn(c)
      <3>1. stage' = stage
        BY <2>3 DEF Moves, WriteChunk, Interrupts, Feeds, Begin, Release, Answers, Stays
      <3>2. pc[c] \in Holding
        BY <1>0, <1>2, <2>3 DEF Moves, WriteChunk, Interrupts, Feeds, Begin, Release, Answers, Stays,
           Holding, Pumping
      <3> QED BY <1>1, <1>2, <2>3, <3>1, <3>2 DEF PreludeInv
    <2> QED BY <2>1, <2>2, <2>3
  <1>3. ASSUME NEW d \in Calls, InStream(<<d, "user">>)' PROVE preluded'
    <2>1. PICK i \in 1..Len(toRemote') : toRemote'[i] = LastPart(<<d, "user">>)
      BY <1>3 DEF InStream, LastPart, Part
    <2>2. CASE i \in 1..Len(toRemote) /\ toRemote'[i] = toRemote[i]
      BY <1>1, <2>1, <2>2 DEF PreludeInv, InStream
    <2>3. ASSUME NEW t, Appended(t), t.k # "PART" PROVE preluded'
      BY <1>0, <2>1, <2>2, <2>3 DEF Appended, LastPart, Part
    <2>4. CASE WriteChunk(c) /\ Appended(Part(Frame(c), off[c] + 1))
      <3>1. CASE i = Len(toRemote')
        <4>1. Frame(c) = <<d, "user">>
          BY <2>1, <2>4, <3>1 DEF Appended, LastPart, Part
        <4>2. stage[c] = "user" /\ pc[c] \in Holding
          BY <2>4, <4>1 DEF WriteChunk, Frame, Holding
        <4> QED BY <1>1, <4>2 DEF PreludeInv
      <3>2. CASE i # Len(toRemote')
        BY <1>0, <2>2, <2>4, <3>2 DEF Appended
      <3> QED BY <3>1, <3>2
    <2> QED BY <2>1, <2>2, <2>3, <2>4, WireMoves
  <1>4. ASSUME NEW d \in Calls, exec[<<d, "user">>] # "no" PROVE preluded'
    BY <1>1, <1>4 DEF PreludeInv
  <1>5. preluded' => \E d \in Calls : exec'[<<d, "prelude">>] = "done"
    BY <1>0, <1>1 DEF PreludeInv
  <1> QED BY <1>0, <1>2, <1>3, <1>4, <1>5 DEF PreludeInv

\* The shell runs what was written, so a user's command after a prelude.
LEMMA RemoteKeepsAnswers ==
    ASSUME TypeOK, OnceInv, JobInv, OrderInv, Unaltered, ResInv, PreludeInv, RemoteStep
    PROVE  ResInv' /\ PreludeInv'
  <1>0. /\ Untouched
        /\ \A f \in Frames : exec[f] \in {"done", "failed"} => exec'[f] = exec[f]
        /\ \A f \in Frames : exec'[f] # "no" => exec[f] # "no" \/ InStream(f)
        /\ \A d \in Calls, g \in Stages : <<d, g>> \in Frames
    BY RemoteMoves, ShellKeepsExec DEF Frames
  <1>1. ResInv'
    BY <1>0 DEF ResInv, Untouched, Stages
  <1>2. ASSUME NEW f \in Frames, InStream(f)' PROVE InStream(f)
    <2>1. PICK p \in Nat : Dropped(p)
      BY RemoteMoves DEF Starts, Ends, Goes
    <2>2. PICK i \in 1..Len(toRemote') : toRemote'[i] = LastPart(f)
      BY <1>2 DEF InStream, LastPart, Part
    <2>3. Len(toRemote) \in Nat
      BY DEF TypeOK
    <2>4. i + p \in 1..Len(toRemote) /\ toRemote[i + p] = LastPart(f)
      BY <2>1, <2>2, <2>3 DEF Dropped
    <2> QED BY <2>4 DEF InStream
  <1>3. preluded' => \E d \in Calls : exec'[<<d, "prelude">>] = "done"
    BY <1>0 DEF PreludeInv, Untouched, Stages
  <1>4. ASSUME NEW d \in Calls
        PROVE  /\ pc'[d] \in Holding /\ stage'[d] = "user" => preluded'
               /\ exec'[<<d, "user">>] # "no" \/ InStream(<<d, "user">>)' => preluded'
    <2>1. <<d, "user">> \in Frames
      BY <1>0 DEF Stages
    <2> QED BY <1>0, <1>2, <2>1 DEF PreludeInv, Untouched
  <1> QED BY <1>1, <1>3, <1>4 DEF PreludeInv

\* What holds of a session whose lines reach the shell whole.
ServiceInv == OrderInv /\ Unaltered /\ EndInv /\ ResInv /\ PreludeInv

\* Every step keeps the order of the lines and the truth of the answers.
LEMMA ServiceStep ==
    ASSUME WholeLines, IInv, LeaseExclusive, ShellInv, ServiceInv, [Next]_vars
    PROVE  ServiceInv'
  <1>0. /\ TypeOK /\ OffsetInv /\ OnceInv /\ JobInv /\ InterruptInv
        /\ OrderInv /\ Unaltered /\ EndInv /\ ResInv /\ PreludeInv
    BY DEF IInv, ShellInv, ServiceInv
  <1>1. EndInv'
    BY <1>0, EndsToldTruly
  <1>2. ASSUME NEW c \in Calls, SessionStep(c) \/ UserStep(c) PROVE ServiceInv'
    <2>1. Alone(c) /\ Moves(c)
      BY <1>0, <1>2, CallerMoves
    <2>2. Unaltered'
      BY <1>0, <2>1 DEF Alone, Unaltered
    <2> QED BY <1>0, <1>1, <2>1, <2>2, CallerKeepsOrder, CallerKeepsResults, CallerKeepsPrelude
            DEF ServiceInv
  <1>3. CASE RemoteStep
    BY <1>0, <1>1, <1>3, RemoteKeepsOrder, ShellKeepsExec, RemoteKeepsAnswers DEF ServiceInv
  <1>4. CASE ReaderStep \/ CloseStep \/ ChannelStep \/ UNCHANGED vars
    <2>1. Untouched /\ UNCHANGED <<toRemote, job, line, exec, wrote, down>>
      BY <1>4, ReaderCloseMoves, ChannelSteady
         DEF Steady, vars, sess, caller, parser, chan, remote, Untouched
    <2>2. closer = "closed" => closer' = "closed"
      BY <1>4, ChannelSteady DEF Steady, ReaderStep, ReaderRead, ReaderSend, ReaderStop, CloseStep, CloseMark, CloseStop,
         CloseChannel, chan, vars
    <2>3. \A t : Writing(t) => StillWriting(t)
      BY <2>1, <2>2 DEF Writing, StillWriting, Untouched, Frame
    <2>4. OrderInv'
      <3> SUFFICES ASSUME ~down PROVE Following' /\ LineGoesOn' /\ LineInOrder'
        BY <2>1 DEF OrderInv
      <3>0. Following /\ LineGoesOn /\ LineInOrder
        BY <1>0 DEF OrderInv
      <3>1. Following'
        BY <2>1, <2>3, <3>0 DEF Following, Writing, StillWriting, Frame, Partial, NextPart, Part
      <3>2. LineGoesOn'
        BY <2>1, <2>3, <3>0 DEF LineGoesOn, Writing, StillWriting, Frame, Partial, NextPart, Part
      <3>3. LineInOrder'
        BY <2>1, <3>0 DEF LineInOrder, Part
      <3> QED BY <3>1, <3>2, <3>3
    <2>5. Unaltered' /\ ResInv'
      BY <1>0, <2>1 DEF Unaltered, ResInv, Untouched
    <2>6. PreludeInv'
      BY <1>0, <2>1 DEF PreludeInv, InStream, LastPart, Part, Untouched
    <2> QED BY <1>1, <2>4, <2>5, <2>6 DEF ServiceInv
  <1> QED BY <1>2, <1>3, <1>4 DEF Next

\* So they hold in every state of a session whose lines reach the shell whole.
LEMMA ServiceInvariant == WholeLines => (Spec => []ServiceInv)
  <1> SUFFICES ASSUME WholeLines PROVE Spec => []ServiceInv
    OBVIOUS
  <1>1. Init => ServiceInv
    <2> SUFFICES ASSUME Init PROVE ServiceInv
      OBVIOUS
    <2>1. /\ toRemote = <<>> /\ line = <<>> /\ readCh = <<>> /\ held = <<>> /\ fromRemote = <<>>
          /\ preluded = FALSE
          /\ \A f \in Frames : exec[f] = "no"
          /\ \A c \in Calls : res[c] = "none" /\ pc[c] = "new"
      BY DEF Init
    <2>2. OrderInv
      BY <2>1 DEF OrderInv, Following, LineGoesOn, LineInOrder
    <2>3. Unaltered /\ EndInv /\ ResInv
      BY <2>1 DEF Unaltered, EndInv, ResInv
    <2>4. PreludeInv
      BY <2>1 DEF PreludeInv, InStream, Frames, Stages, Holding, Pumping
    <2> QED BY <2>2, <2>3, <2>4 DEF ServiceInv
  <1>2. IInv /\ LeaseExclusive /\ ShellInv /\ ServiceInv /\ [Next]_vars => ServiceInv'
    BY ServiceStep
  <1> QED BY <1>1, <1>2, TypesAndOffsets, LeaseIsExclusive, ShellInvariant, PTL DEF Spec

\* In the shell that the session began with, no user's command starts before a
\* prelude has succeeded in it (ensurePrelude), also when the first prelude was
\* cancelled, failed or was cut off.  Of the shell behind a connection that
\* WebSocket's Reconnect has replaced it says nothing.
THEOREM PreludeIsFirst == WholeLines => (Spec => PreludeFirst)
  <1> SUFFICES ASSUME WholeLines PROVE Spec => PreludeFirst
    OBVIOUS
  <1> DEFINE Prepared ==
        \A c \in Calls :
            relinks = 0 /\ exec[<<c, "user">>] = "no" /\ exec'[<<c, "user">>] # "no" =>
                \E d \in Calls : exec[<<d, "prelude">>] = "done"
  <1>1. IInv /\ ShellInv /\ ServiceInv /\ [Next]_vars => Prepared
    <2> SUFFICES ASSUME IInv, ShellInv, ServiceInv, [Next]_vars, NEW c \in Calls,
                        exec[<<c, "user">>] = "no", exec'[<<c, "user">>] # "no"
                 PROVE  \E d \in Calls : exec[<<d, "prelude">>] = "done"
      OBVIOUS
    <2>0. /\ TypeOK /\ OnceInv /\ JobInv /\ OrderInv /\ Unaltered /\ PreludeInv
          /\ <<c, "user">> \in Frames
      BY DEF IInv, ShellInv, ServiceInv, Frames, Stages
    <2>1. ~(\E d \in Calls : SessionStep(d) \/ UserStep(d))
      BY <2>0, CallerMoves DEF Alone
    <2>2. ~(ReaderStep \/ CloseStep \/ ChannelStep \/ UNCHANGED vars)
      BY ReaderCloseMoves, ChannelSteady DEF Steady, vars, remote
    <2>3. RemoteStep
      BY <2>1, <2>2 DEF Next
    <2>4. InStream(<<c, "user">>)
      BY <2>0, <2>3, ShellKeepsExec
    <2> QED BY <2>0, <2>4 DEF PreludeInv
  <1>2. IInv /\ ShellInv /\ ServiceInv /\ [Next]_vars => [Prepared]_vars
    BY <1>1
  <1>3. Spec => []ServiceInv
    BY ServiceInvariant
  <1> QED BY <1>2, <1>3, TypesAndOffsets, ShellInvariant, PTL DEF Spec, PreludeFirst

-----------------------------------------------------------------------------
(* The refinement of AbstractSession.                                      *)

\* What AbstractSession sees of a command.
Ran(c) == IF exec[<<c, "user">>] = "failed" THEN "done" ELSE exec[<<c, "user">>]
AbsNext == Abs!Next \/ UNCHANGED Abs!avars

\* A step of a goroutine of c is a step of AbstractSession for c, which leaves
\* the commands alone.
LEMMA CallerMaps ==
    ASSUME NEW c \in Calls, TypeOK, EndInv, ResInv, Alone(c), Moves(c)
    PROVE  AbsNext
  <1> DEFINE state == [d \in Calls |-> AbsState(d)]
             ran == [d \in Calls |-> Ran(d)]
  <1>0. /\ pc \in [Calls -> {"new", "lock", "done"} \cup Holding]
        /\ res \in [Calls -> Results] /\ stage \in [Calls -> Stages]
        /\ exec' = exec
    BY DEF TypeOK, Alone
  <1>1. \A d \in Calls : AbsState(d) \in {"new", "waiting", "holding", "succeeded", "failed"}
    BY DEF AbsState
  <1>2. \A d \in Calls \ {c} : AbsState(d)' = AbsState(d)
    BY DEF Alone, AbsState
  <1>3. [d \in Calls |-> AbsState(d)'] = [state EXCEPT ![c] = AbsState(c)']
    BY <1>2
  <1>4. [d \in Calls |-> Ran(d)'] = ran
    BY <1>0 DEF Ran
  <1>5. ASSUME AbsState(c)' = AbsState(c), mu' = mu PROVE AbsNext
    <2>1. [d \in Calls |-> AbsState(d)'] = state
      BY <1>2, <1>5
    <2> QED BY <1>4, <1>5, <2>1 DEF AbsNext, Abs!avars, Ran
  <1>6. ASSUME AbsState(c) = "holding", mu' = NoCall, AbsState(c)' \in {"succeeded", "failed"},
               AbsState(c)' = "succeeded" => exec[<<c, "user">>] \in {"done", "failed"}
        PROVE  AbsNext
    <2>1. CASE AbsState(c)' = "failed"
      <3>1. Abs!Fail(c)
        BY <1>3, <1>4, <1>6, <2>1 DEF Abs!Fail, Ran
      <3> QED BY <3>1 DEF AbsNext, Abs!Next
    <2>2. CASE AbsState(c)' = "succeeded"
      <3>1. ran[c] = "done"
        BY <1>6, <2>2 DEF Ran
      <3>2. Abs!Succeed(c)
        BY <1>3, <1>4, <1>6, <2>2, <3>1 DEF Abs!Succeed, Ran
      <3> QED BY <3>2 DEF AbsNext, Abs!Next
    <2> QED BY <1>6, <2>1, <2>2
  <1> USE <1>0
  <1>7. CASE WriteChunk(c)
    <2>1. pc[c] \in Holding /\ pc'[c] \in Holding /\ mu' = mu
      BY <1>7 DEF WriteChunk, AfterWrite, Holding, Pumping, sess
    <2> QED BY <1>5, <2>1 DEF AbsState
  <1>8. CASE Interrupts(c) \/ Feeds(c)
    <2>1. UNCHANGED <<mu, pc, res, stage>>
      BY <1>8 DEF Interrupts, Feeds
    <2> QED BY <1>5, <2>1 DEF AbsState
  <1>9. CASE Stays(c)
    <2>1. UNCHANGED <<mu, res, stage>> /\ (pc' = pc \/ (pc[c] \in Holding /\ pc'[c] \in Holding))
      BY <1>9 DEF Stays, Holding, Pumping
    <2> QED BY <1>5, <2>1 DEF AbsState
  <1>10. CASE GoesOn(c)
    <2>1. pc[c] \in Holding /\ pc'[c] \in Holding /\ mu' = mu
      BY <1>10 DEF GoesOn, Selecting, Holding, Pumping
    <2> QED BY <1>5, <2>1 DEF AbsState
  <1>11. CASE Begin(c)
    <2>1. AbsState(c) = "new" /\ mu' = mu
      BY <1>11 DEF Begin, AbsState, Holding, Pumping, sess
    <2>2. AbsState(c)' \in {"waiting", "failed"}
      BY <1>11 DEF Begin, AbsState, Holding, Pumping
    <2>3. Abs!Invoke(c) \/ Abs!Refuse(c)
      BY <1>3, <1>4, <2>1, <2>2 DEF Abs!Invoke, Abs!Refuse, Ran
    <2> QED BY <2>3 DEF AbsNext, Abs!Next
  <1>12. CASE Acquire(c)
    <2>1. AbsState(c) = "waiting" /\ mu = NoCall /\ mu' = c
      BY <1>12 DEF Acquire, AbsState, Holding, Pumping
    <2>2. AbsState(c)' = "holding"
      BY <1>12 DEF Acquire, AbsState, Holding
    <2>3. Abs!Grant(c)
      BY <1>3, <1>4, <2>1, <2>2 DEF Abs!Grant, Ran
    <2> QED BY <2>3 DEF AbsNext, Abs!Next
  <1>13. CASE Release(c)
    <2>1. AbsState(c) = "holding" /\ mu' = NoCall /\ pc'[c] = "done" /\ UNCHANGED <<res, stage>>
      BY <1>13 DEF Release, AbsState, Holding, Pumping
    <2>2. AbsState(c)' = IF res[c] \in {"ok", "canceled"} /\ stage[c] = "user"
                         THEN "succeeded" ELSE "failed"
      BY <2>1 DEF AbsState, Holding, Pumping
    <2>3. res[c] \in {"ok", "canceled"} /\ stage[c] = "user" => exec[<<c, "user">>] \in {"done", "failed"}
      BY DEF ResInv
    <2> QED BY <1>6, <2>1, <2>2, <2>3
  <1>14. CASE Answers(c)
    <2>1. PICK e \in Results \ {"none"} :
            Finish(c, e) /\ (e \in {"ok", "canceled"} /\ stage[c] = "user" => EndRead(c))
      BY <1>14 DEF Answers
    <2>2. AbsState(c) = "holding" /\ stage' = stage
      BY <1>14 DEF Answers, AbsState, Holding, Pumping
    <2>3. CASE pc[c] \in Pumping
      <3>1. pc'[c] \in Holding /\ mu' = mu
        BY <2>1, <2>3 DEF Finish, Holding, Pumping
      <3> QED BY <1>5, <2>2, <3>1 DEF AbsState
    <2>4. CASE pc[c] \notin Pumping
      <3>1. pc'[c] = "done" /\ mu' = NoCall /\ res'[c] = e
        BY <2>1, <2>4 DEF Finish
      <3>2. AbsState(c)' = IF e \in {"ok", "canceled"} /\ stage[c] = "user"
                           THEN "succeeded" ELSE "failed"
        BY <2>2, <3>1 DEF AbsState, Holding, Pumping
      <3>3. e \in {"ok", "canceled"} /\ stage[c] = "user" => exec[<<c, "user">>] \in {"done", "failed"}
        BY <2>1, EndReadIsTrue DEF Frame
      <3> QED BY <1>6, <2>2, <3>1, <3>2, <3>3
    <2> QED BY <2>3, <2>4
  <1> QED BY <1>7, <1>8, <1>9, <1>10, <1>11, <1>12, <1>13, <1>14 DEF Moves

\* A step of the shell starts or ends one command, or none that counts.
LEMMA RemoteMaps ==
    ASSUME TypeOK, OnceInv, JobInv, OrderInv, Unaltered, ResInv, RemoteStep
    PROVE  AbsNext
  <1> DEFINE state == [d \in Calls |-> AbsState(d)]
             ran == [d \in Calls |-> Ran(d)]
  <1>0. exec \in [Frames -> {"no", "running", "altered", "done", "failed", "aborted"}]
        /\ \A d \in Calls : <<d, "user">> \in Frames
    BY DEF TypeOK, Frames, Stages
  <1>1. mu' = mu /\ [d \in Calls |-> AbsState(d)'] = state
    <2>1. UNCHANGED <<mu, pc, res, stage>>
      BY RemoteMoves DEF Untouched
    <2> QED BY <2>1 DEF AbsState
  <1>2. ASSUME NEW f \in Frames, f[2] # "user", NEW r, exec' = [exec EXCEPT ![f] = r] PROVE AbsNext
    <2>1. [d \in Calls |-> Ran(d)'] = ran
      BY <1>0, <1>2 DEF Ran
    <2> QED BY <1>1, <2>1 DEF AbsNext, Abs!avars, Ran
  <1>3. CASE exec' = exec
    BY <1>1, <1>3 DEF AbsNext, Abs!avars
  <1>4. ASSUME NEW f \in Frames, NEW r, f[2] = "user", exec' = [exec EXCEPT ![f] = r]
        PROVE  /\ f[1] \in Calls /\ f = <<f[1], "user">>
               /\ [d \in Calls |-> Ran(d)'] = [ran EXCEPT ![f[1]] = IF r = "failed" THEN "done" ELSE r]
    <2>1. f[1] \in Calls /\ f = <<f[1], "user">>
      BY <1>4 DEF Frames
    <2>2. \A d \in Calls \ {f[1]} : exec'[<<d, "user">>] = exec[<<d, "user">>]
      <3>1. \A d \in Calls \ {f[1]} : <<d, "user">> # f
        BY <2>1
      <3> QED BY <1>0, <1>4, <3>1
    <2>3. exec'[<<f[1], "user">>] = r
      BY <1>0, <1>4, <2>1
    <2> QED BY <2>1, <2>2, <2>3 DEF Ran
  <1>5. ASSUME NEW f \in Frames, f[2] = "user", Begins(f) PROVE AbsNext
    <2>1. /\ f[1] \in Calls /\ f = <<f[1], "user">> /\ exec[f] = "no"
          /\ [d \in Calls |-> Ran(d)'] = [ran EXCEPT ![f[1]] = "running"]
      BY <1>4, <1>5 DEF Begins
    <2>2. ~NotYet(f)
      BY <1>5, StartsOnce DEF Begins
    <2>3. pc[f[1]] \notin {"new", "lock"}
      BY <2>2 DEF NotYet
    <2>4. ~(res[f[1]] \in {"ok", "canceled"} /\ stage[f[1]] = "user")
      BY <2>1 DEF ResInv
    <2>5. AbsState(f[1]) \in {"holding", "failed"}
      BY <2>3, <2>4 DEF AbsState
    <2>6. \A d \in Calls : ran[d] # "running"
      <3>1. job.f \notin Frames
        BY <1>5, CallsAssumption DEF Begins, Starts, Idle, NoJob, NoFrame, Frames
      <3>2. \A d \in Calls : exec[<<d, "user">>] # "running"
        BY <1>0, <3>1 DEF JobInv
      <3> QED BY <3>2 DEF Ran
    <2>7. ran[f[1]] = "no"
      BY <2>1 DEF Ran
    <2>8. Abs!Start(f[1])
      BY <1>1, <2>1, <2>5, <2>6, <2>7 DEF Abs!Start, Ran
    <2> QED BY <2>1, <2>8 DEF AbsNext, Abs!Next
  <1>6. ASSUME NEW f \in Frames, NEW r \in {"done", "failed", "aborted"}, f[2] = "user",
               exec[f] = "running", exec' = [exec EXCEPT ![f] = r]
        PROVE  AbsNext
    <2>1. /\ f[1] \in Calls /\ f = <<f[1], "user">>
          /\ [d \in Calls |-> Ran(d)'] = [ran EXCEPT ![f[1]] = IF r = "failed" THEN "done" ELSE r]
      BY <1>4, <1>6
    <2>2. ran[f[1]] = "running"
      BY <1>6, <2>1 DEF Ran
    <2>3. Abs!End(f[1])
      BY <1>1, <1>6, <2>1, <2>2 DEF Abs!End, Ran
    <2> QED BY <2>1, <2>3 DEF AbsNext, Abs!Next
  <1>7. ASSUME NEW f \in Frames, Acts(f) PROVE AbsNext
    <2>1. CASE f[2] # "user"
      BY <1>2, <1>7, <2>1 DEF Acts, Begins, Over, Aborted
    <2>2. CASE f[2] = "user"
      BY <1>5, <1>6, <1>7, <2>2 DEF Acts, Over, Aborted
    <2> QED BY <2>1, <2>2
  <1>8. Quiet => exec' = exec
    BY DEF Quiet
  <1> QED BY <1>3, <1>7, <1>8, ShellActs

\* The session is what the Session interface promises, stated by AbstractSession:
\* calls are served one at a time, each command runs at most once and never beside
\* another, and a call succeeds only when its command has completed.
THEOREM Implements == WholeLines => (Spec => ImplementsSession)
  <1> SUFFICES ASSUME WholeLines PROVE Spec => ImplementsSession
    OBVIOUS
  <1>1. Init => Abs!Init
    BY DEF Init, Abs!Init, AbsState, Holding, Pumping, Frames, Stages
  <1>2. IInv /\ ShellInv /\ ServiceInv /\ [Next]_vars => [Abs!Next]_Abs!avars
    <2> SUFFICES ASSUME IInv, ShellInv, ServiceInv, [Next]_vars PROVE AbsNext
      BY DEF AbsNext
    <2>0. /\ TypeOK /\ OnceInv /\ JobInv /\ OrderInv /\ Unaltered /\ EndInv /\ ResInv
      BY DEF IInv, ShellInv, ServiceInv
    <2>1. ASSUME NEW c \in Calls, SessionStep(c) \/ UserStep(c) PROVE AbsNext
      BY <2>0, <2>1, CallerMoves, CallerMaps
    <2>2. CASE RemoteStep
      BY <2>0, <2>2, RemoteMaps
    <2>3. CASE ReaderStep \/ CloseStep \/ ChannelStep \/ UNCHANGED vars
      <3>1. UNCHANGED <<mu, pc, res, stage, exec>>
        BY <2>3, ReaderCloseMoves, ChannelSteady DEF Steady, vars, sess, caller, remote, Untouched
      <3> QED BY <3>1 DEF AbsNext, Abs!avars, AbsState
    <2> QED BY <2>1, <2>2, <2>3 DEF Next
  <1>3. Spec => []ServiceInv
    BY ServiceInvariant
  <1> QED BY <1>1, <1>2, <1>3, TypesAndOffsets, ShellInvariant, PTL DEF Spec, ImplementsSession, Abs!Spec

-----------------------------------------------------------------------------
(* The stream of messages: ResultIsOwn.                                    *)

\* The messages on their way to the parsers, in order: readCh, what the reader
\* holds and, until it has met a read error, what the shell has printed.
Flowing == reader = "run" /\ (held # <<>> => Head(held).k # "ERR")
Moving ==
    IF Flowing THEN Len(readCh) + Len(held) + Len(fromRemote) ELSE Len(readCh) + Len(held)
At(i) ==
    IF i <= Len(readCh) THEN readCh[i]
    ELSE IF i <= Len(readCh) + Len(held) THEN held[i - Len(readCh)]
    ELSE fromRemote[i - Len(readCh) - Len(held)]

HeldInv == Len(held) <= 1

\* What is on its way are messages.
LEMMA MovingTypes ==
    ASSUME TypeOK
    PROVE  /\ Moving \in Nat /\ Len(readCh) \in Nat /\ Len(held) \in Nat /\ Len(fromRemote) \in Nat
           /\ readCh \in Seq(Message) /\ held \in Seq(Message) /\ fromRemote \in Seq(Message)
           /\ \A i \in 1..Moving : At(i) \in Message
  <1>1. /\ readCh \in Seq(Message) /\ held \in Seq(Message) /\ fromRemote \in Seq(Message)
        /\ Len(readCh) \in Nat /\ Len(held) \in Nat /\ Len(fromRemote) \in Nat
    BY DEF TypeOK
  <1>2. Moving \in Nat
    BY <1>1 DEF Moving
  <1>3. ASSUME NEW i \in 1..Moving PROVE At(i) \in Message
    <2>1. CASE i <= Len(readCh)
      BY <1>1, <2>1 DEF At
    <2>2. CASE ~(i <= Len(readCh)) /\ i <= Len(readCh) + Len(held)
      <3>1. i - Len(readCh) \in 1..Len(held)
        BY <1>1, <2>2
      <3> QED BY <1>1, <2>2, <3>1 DEF At
    <2>3. CASE ~(i <= Len(readCh)) /\ ~(i <= Len(readCh) + Len(held))
      <3>1. i - Len(readCh) - Len(held) \in 1..Len(fromRemote)
        BY <1>1, <2>3 DEF Moving
      <3> QED BY <1>1, <2>3, <3>1 DEF At
    <2> QED BY <2>1, <2>2, <2>3
  <1> QED BY <1>1, <1>2, <1>3

\* A parser takes the first message, ...
LEMMA TakeShifts ==
    ASSUME TypeOK, readCh # <<>>, readCh' = Tail(readCh), UNCHANGED <<held, reader, fromRemote>>
    PROVE  /\ Moving' = Moving - 1 /\ Moving >= 1 /\ At(1) = Head(readCh) /\ Flowing' = Flowing
           /\ \A i \in 1..Moving' : At(i)' = At(i + 1)
  <1>1. /\ Len(readCh) \in Nat /\ Len(readCh) >= 1 /\ Len(readCh') = Len(readCh) - 1
        /\ Head(readCh) = readCh[1] /\ Len(held) \in Nat /\ Len(fromRemote) \in Nat
        /\ \A i \in 1..Len(readCh') : readCh'[i] = readCh[i + 1]
    BY MovingTypes, EmptySeq, HeadTailProperties
  <1>2. Flowing' = Flowing
    BY DEF Flowing
  <1>3. Moving' = Moving - 1 /\ Moving >= 1
    BY <1>1, <1>2 DEF Moving
  <1>4. At(1) = Head(readCh)
    BY <1>1 DEF At
  <1>5. ASSUME NEW i \in 1..Moving' PROVE At(i)' = At(i + 1)
    <2>1. i \in Nat /\ i >= 1
      OBVIOUS
    <2>2. CASE i <= Len(readCh')
      <3>1. i + 1 <= Len(readCh) /\ i \in 1..Len(readCh')
        BY <1>1, <2>1, <2>2
      <3> QED BY <1>1, <2>2, <3>1 DEF At
    <2>3. CASE ~(i <= Len(readCh'))
      <3>1. ~(i + 1 <= Len(readCh)) /\ i - Len(readCh') = (i + 1) - Len(readCh)
        BY <1>1, <2>1, <2>3
      <3>2. i <= Len(readCh') + Len(held) <=> i + 1 <= Len(readCh) + Len(held)
        BY <1>1, <2>1
      <3> QED BY <2>3, <3>1, <3>2 DEF At
    <2> QED BY <2>2, <2>3
  <1> QED BY <1>2, <1>3, <1>4, <1>5

\* ... the shell prints another one, which counts while the reader goes on, ...
LEMMA PrintsGrows ==
    ASSUME TypeOK, NEW m \in Message, Prints(m), UNCHANGED <<held, reader, readCh>>
    PROVE  /\ Flowing' = Flowing
           /\ Moving' = IF Flowing THEN Moving + 1 ELSE Moving
           /\ \A i \in 1..Moving' : At(i)' = IF i <= Moving THEN At(i) ELSE m
  <1>1. /\ Len(readCh) \in Nat /\ Len(held) \in Nat /\ Len(fromRemote) \in Nat
        /\ Len(fromRemote') = Len(fromRemote) + 1 /\ fromRemote'[Len(fromRemote) + 1] = m
        /\ \A i \in 1..Len(fromRemote) : fromRemote'[i] = fromRemote[i]
    BY MovingTypes, AppendProperties DEF Prints
  <1>2. Flowing' = Flowing
    BY DEF Flowing
  <1>3. Moving' = IF Flowing THEN Moving + 1 ELSE Moving
    BY <1>1, <1>2 DEF Moving
  <1>4. ASSUME NEW i \in 1..Moving' PROVE At(i)' = IF i <= Moving THEN At(i) ELSE m
    <2>1. i \in Nat /\ i >= 1 /\ i <= Moving'
      BY <1>1, <1>2 DEF Moving
    <2>2. CASE i <= Len(readCh) + Len(held)
      <3>1. i <= Moving
        BY <1>1, <2>1, <2>2 DEF Moving
      <3> QED BY <2>2, <3>1 DEF At
    <2>3. CASE ~(i <= Len(readCh) + Len(held))
      <3>1. Flowing /\ Moving = Len(readCh) + Len(held) + Len(fromRemote)
        BY <1>1, <1>3, <2>1, <2>3 DEF Moving
      <3>2. ~(i <= Len(readCh))
        BY <1>1, <2>1, <2>3
      <3>3. CASE i <= Moving
        <4>1. i - Len(readCh) - Len(held) \in 1..Len(fromRemote)
          BY <1>1, <2>1, <2>3, <3>1, <3>3
        <4> QED BY <1>1, <2>3, <3>2, <3>3, <4>1 DEF At
      <3>4. CASE ~(i <= Moving)
        <4>1. i - Len(readCh) - Len(held) = Len(fromRemote) + 1
          BY <1>1, <1>3, <2>1, <2>3, <3>1, <3>4
        <4> QED BY <1>1, <2>3, <3>2, <3>4, <4>1 DEF At
      <3> QED BY <3>3, <3>4
    <2> QED BY <2>2, <2>3
  <1> QED BY <1>2, <1>3, <1>4

\* ... and the reader moves them on, or cuts them off at some point and may
\* add a read error there.
MovesOn ==
    Moving' = Moving /\ Flowing' = Flowing /\ \A i \in 1..Moving : At(i)' = At(i)
CutsOff ==
    /\ ~Flowing'
    /\ \E n \in 0..Moving :
          /\ Moving' \in {n, n + 1} /\ \A i \in 1..n : At(i)' = At(i)
          /\ Moving' = n + 1 => At(n + 1)'.k = "ERR"

\* readerLoop and Close do one of these.
LEMMA ReaderStream ==
    ASSUME TypeOK, HeldInv, ReaderStep \/ CloseStep
    PROVE  HeldInv' /\ (MovesOn \/ CutsOff)
  <1>1. /\ Len(readCh) \in Nat /\ Len(held) \in Nat /\ Len(fromRemote) \in Nat /\ Moving \in Nat
        /\ readCh \in Seq(Message) /\ held \in Seq(Message) /\ fromRemote \in Seq(Message)
    BY MovingTypes
  <1>2. Len(<<>>) = 0 /\ \A m : Len(<<m>>) = 1 /\ <<m>>[1] = m /\ Head(<<m>>) = m /\ <<m>> # <<>>
    OBVIOUS
  <1>3. CASE UNCHANGED <<held, readCh, fromRemote, reader>>
    BY <1>3 DEF HeldInv, MovesOn, Moving, Flowing, At
  <1>4. CASE /\ reader = "run" /\ fromRemote # <<>> /\ held = <<>> /\ held' = <<Head(fromRemote)>>
             /\ fromRemote' = Tail(fromRemote) /\ UNCHANGED <<readCh, reader>>
    <2>0. /\ Len(fromRemote) >= 1 /\ Len(fromRemote') = Len(fromRemote) - 1
          /\ Head(fromRemote) = fromRemote[1]
          /\ \A i \in 1..Len(fromRemote') : fromRemote'[i] = fromRemote[i + 1]
      BY <1>1, <1>4, EmptySeq, HeadTailProperties
    <2>1. /\ Len(held') = 1 /\ held'[1] = Head(fromRemote) /\ Head(held') = Head(fromRemote)
          /\ Len(held) = 0
      BY <1>2, <1>4
    <2>2. HeldInv'
      BY <2>1 DEF HeldInv
    <2>3. CASE Head(fromRemote).k # "ERR"
      <3>1. Flowing /\ Flowing'
        BY <1>4, <2>1, <2>3 DEF Flowing
      <3>2. Moving = Len(readCh) + Len(fromRemote) /\ Moving' = Moving
        BY <1>1, <1>4, <2>0, <2>1, <3>1 DEF Moving
      <3>3. ASSUME NEW i \in 1..Moving PROVE At(i)' = At(i)
        <4>1. CASE i <= Len(readCh)
          BY <1>4, <4>1 DEF At
        <4>2. CASE i = Len(readCh) + 1
          BY <1>1, <1>4, <2>0, <2>1, <4>2 DEF At
        <4>3. CASE i > Len(readCh) + 1
          <5>1. /\ ~(i <= Len(readCh)) /\ ~(i <= Len(readCh) + 1)
                /\ i - Len(readCh) - 1 \in 1..Len(fromRemote')
                /\ (i - Len(readCh) - 1) + 1 = i - Len(readCh) - 0
            BY <1>1, <2>0, <3>2, <4>3
          <5> QED BY <1>1, <1>4, <2>0, <2>1, <5>1 DEF At
        <4> QED BY <1>1, <3>2, <4>1, <4>2, <4>3
      <3> QED BY <2>2, <3>1, <3>2, <3>3 DEF MovesOn
    <2>4. CASE Head(fromRemote).k = "ERR"
      <3>1. ~Flowing'
        BY <2>1, <2>4, <1>4, <1>2 DEF Flowing
      <3>2. Moving' = Len(readCh) + 1 /\ Len(readCh) \in 0..Moving
        BY <1>1, <1>4, <2>1, <3>1 DEF Moving
      <3>3. \A i \in 1..Len(readCh) : At(i)' = At(i)
        BY <1>4 DEF At
      <3> DEFINE n == Len(readCh)
      <3>5. \A j \in Nat : j = n + 1 => At(j)' = held'[1]
        BY <1>1, <1>4, <2>1 DEF At
      <3> QED BY <1>2, <1>4, <2>1, <2>2, <2>4, <3>1, <3>2, <3>3, <3>5 DEF CutsOff
    <2> QED BY <2>3, <2>4
  <1>5. CASE held = <<>> /\ held' = <<ReadError>> /\ UNCHANGED <<readCh, fromRemote, reader>>
    <2>1. Len(held') = 1 /\ held'[1] = ReadError /\ Head(held') = ReadError /\ ReadError.k = "ERR"
      BY <1>2, <1>5 DEF ReadError, Msg
    <2>2. ~Flowing' /\ HeldInv'
      BY <1>2, <1>5, <2>1 DEF Flowing, HeldInv
    <2>3. Moving' = Len(readCh) + 1 /\ Len(readCh) \in 0..Moving
      BY <1>1, <1>2, <1>5, <2>1, <2>2 DEF Moving
    <2>4. \A i \in 1..Len(readCh) : At(i)' = At(i)
      BY <1>5 DEF At
    <2>5. \A j \in Nat : j = Len(readCh) + 1 => At(j)' = held'[1]
      BY <1>1, <1>5, <2>1 DEF At
    <2> QED BY <1>1, <2>1, <2>2, <2>3, <2>4, <2>5 DEF CutsOff
  <1>6. CASE /\ reader = "run" /\ held # <<>> /\ readCh' = Append(readCh, Head(held)) /\ held' = <<>>
             /\ reader' = (IF Head(held).k = "ERR" THEN "exit" ELSE "run")
             /\ UNCHANGED fromRemote
    <2>1. /\ Len(held) = 1 /\ Head(held) = held[1] /\ Head(held) \in Message
      <3>1. Len(held) # 0 /\ Head(held) = held[1] /\ Head(held) \in Message
        BY <1>1, <1>6, EmptySeq, HeadTailProperties
      <3>2. Len(held) <= 1
        BY DEF HeldInv
      <3>3. \A n \in Nat : n # 0 /\ n <= 1 => n = 1
        OBVIOUS
      <3>4. Len(held) = 1
        BY <1>1, <3>1, <3>2, <3>3
      <3> QED BY <3>1, <3>4
    <2>2. /\ Len(readCh') = Len(readCh) + 1 /\ readCh'[Len(readCh) + 1] = held[1] /\ Len(held') = 0
          /\ \A i \in 1..Len(readCh) : readCh'[i] = readCh[i]
      BY <1>1, <1>2, <1>6, <2>1, AppendProperties
    <2>3. HeldInv' /\ Flowing' = Flowing
      BY <1>6, <2>2 DEF HeldInv, Flowing
    <2>4. Moving' = Moving
      BY <1>1, <1>6, <2>1, <2>2, <2>3 DEF Moving
    <2>5. ASSUME NEW i \in 1..Moving PROVE At(i)' = At(i)
      <3>1. CASE i <= Len(readCh)
        BY <1>1, <2>2, <3>1 DEF At
      <3>2. CASE i = Len(readCh) + 1
        BY <1>1, <2>1, <2>2, <3>2 DEF At
      <3>3. CASE i > Len(readCh) + 1
        <4>1. i - Len(readCh') - 0 = i - Len(readCh) - 1
          BY <1>1, <2>2, <3>3
        <4> QED BY <1>1, <1>6, <2>1, <2>2, <3>3, <4>1 DEF At
      <3> QED BY <1>1, <3>1, <3>2, <3>3
    <2> QED BY <2>3, <2>4, <2>5 DEF MovesOn
  <1>7. CASE held' = <<>> /\ reader' = "exit" /\ UNCHANGED <<readCh, fromRemote>>
    <2>1. ~Flowing' /\ HeldInv'
      BY <1>2, <1>7 DEF Flowing, HeldInv
    <2>2. Moving' = Len(readCh) /\ Len(readCh) \in 0..Moving
      BY <1>1, <1>2, <1>7, <2>1 DEF Moving
    <2>3. \A i \in 1..Len(readCh) : At(i)' = At(i)
      BY <1>7 DEF At
    <2> QED BY <1>1, <2>1, <2>2, <2>3 DEF CutsOff
  <1> QED BY <1>3, <1>4, <1>5, <1>6, <1>7, ReaderMoves
\* What a goroutine does with the messages: nothing, or it takes one.
Parsing(c) == pc[c] \in {"drive", "pump", "flush"}
SameResult(c) == res'[c] \in {"ok", "canceled"} => res'[c] = res[c]
Passes(c) ==
    /\ UNCHANGED <<readCh, capturing, out>> /\ SameResult(c)
    /\ pc[c] \in {"new", "lock"} => pc'[c] \in {"new", "lock", "write", "done"}
    /\ pc[c] \notin {"new", "lock"} => stage'[c] = stage[c]
    /\ pc[c] = "write" => pc'[c] \in {"write", "drive", "pump", "done"}
    /\ Parsing(c) => pc'[c] \in {"drive", "pump", "flush", "release", "done"}
    /\ pc[c] \in {"release", "done"} => pc'[c] \in {"release", "done"}
Skips(c, m) ==
    /\ Take(c, m) /\ UNCHANGED <<capturing, out, stage>> /\ SameResult(c)
    /\ (~capturing[c] /\ pc' = pc) \/ pc'[c] \in {"release", "done"}
Parses(c, m) ==
    /\ readCh # <<>> /\ m = Head(readCh)
    /\ Skips(c, m) \/ SeeBeg(c, m) \/ Capture(c, m) \/ SeeEnd(c, m)

\* Every step of a goroutine passes or parses one message.
LEMMA ParserMoves ==
    ASSUME NEW c \in Calls, TypeOK, SessionStep(c) \/ UserStep(c)
    PROVE  Passes(c) \/ \E m \in Message : Parses(c, m)
  <1>0. /\ pc \in [Calls -> {"new", "lock", "done"} \cup Holding] /\ res \in [Calls -> Results]
        /\ stage \in [Calls -> Stages]
    BY DEF TypeOK
  <1> USE DEF sess, caller, cancel, parser, rd, chan, remote, user, link
  <1>1. ASSUME NEW e \in Results, Finish(c, e), e \notin {"ok", "canceled"},
               pc[c] \in {"write", "drive", "pump", "flush"}, UNCHANGED stage
        PROVE  /\ SameResult(c) /\ pc'[c] \in {"release", "done"} /\ stage'[c] = stage[c]
               /\ pc[c] = "write" => pc'[c] = "done"
    BY <1>0, <1>1 DEF SameResult, Finish, Pumping
  <1>2. CASE UNCHANGED <<readCh, capturing, out, stage, res, pc>>
    BY <1>2 DEF Passes, SameResult, Parsing
  <1>3. CASE UNCHANGED <<readCh, capturing, out, stage>> /\ pc[c] \in {"write", "drive", "pump", "flush"}
             /\ \E e \in {"closed", "write", "dead", "protocol"} : Finish(c, e)
    <2>1. PICK e \in {"closed", "write", "dead", "protocol"} : Finish(c, e)
      BY <1>3
    <2>2. SameResult(c) /\ pc'[c] \in {"release", "done"} /\ (pc[c] = "write" => pc'[c] = "done")
      BY <1>1, <1>3, <2>1 DEF Results
    <2> QED BY <1>3, <2>2 DEF Passes, Parsing
  <1>4. CASE Begin(c)
    <2>1. /\ UNCHANGED <<readCh, capturing, out, stage>> /\ pc[c] = "new" /\ pc'[c] \in {"lock", "done"}
          /\ res'[c] \in {res[c], "dead"}
      BY <1>0, <1>4 DEF Begin
    <2> QED BY <2>1 DEF Passes, SameResult, Parsing
  <1>5. CASE Acquire(c)
    <2>1. /\ UNCHANGED <<readCh, capturing, out, res>> /\ pc[c] = "lock" /\ pc'[c] = "write"
      BY <1>0, <1>5 DEF Acquire
    <2> QED BY <2>1 DEF Passes, SameResult, Parsing
  <1>6. CASE Release(c)
    <2>1. /\ UNCHANGED <<readCh, capturing, out, stage, res>> /\ pc[c] = "release" /\ pc'[c] = "done"
      BY <1>0, <1>6 DEF Release
    <2> QED BY <2>1 DEF Passes, SameResult, Parsing
  <1>7. CASE WriteChunk(c)
    <2>1. /\ UNCHANGED <<readCh, capturing, out, stage, res>> /\ pc[c] = "write"
          /\ pc'[c] \in {"write", "drive", "pump"}
      BY <1>0, <1>7 DEF WriteChunk, AfterWrite
    <2> QED BY <2>1 DEF Passes, SameResult, Parsing
  <1>8. CASE PipeRead(c)
    <2>1. /\ UNCHANGED <<readCh, capturing, out, stage, res>> /\ pc[c] = "flush" /\ pc'[c] = "pump"
      BY <1>0, <1>8 DEF PipeRead
    <2> QED BY <2>1 DEF Passes, SameResult, Parsing
  <1>9. CASE CancelCtx(c) \/ PipeCloseStdout(c) \/ PipeWrite(c) \/ SoftCancel(c) \/ HardCancel(c)
    BY <1>2, <1>9 DEF CancelCtx, PipeCloseStdout, PipeWrite, SoftCancel, HardCancel
  <1>10. CASE WriteFails(c) \/ SeeReaderGone(c) \/ CancelWriteFails(c) \/ DeclareDead(c) \/ FlushFails(c)
    BY <1>3, <1>10 DEF WriteFails, SeeReaderGone, CancelWriteFails, InterruptDue, CtxDone, DeclareDead,
       FlushFails, Selecting
  <1>11. CASE Receive(c)
    <2>1. PICK m \in {Head(readCh) : i \in 1..Len(readCh)} :
            \/ SkipNoise(c, m) \/ SeeBeg(c, m) \/ Capture(c, m)
            \/ SeeEnd(c, m) \/ SeeReadError(c, m)
      BY <1>11 DEF Receive
    <2>2. Take(c, m) /\ readCh # <<>> /\ m = Head(readCh)
      BY <2>1 DEF SkipNoise, SeeBeg, Capture, SeeEnd, SeeReadError, Take
    <2>3. m \in Message
      <3>1. readCh \in Seq(Message)
        BY DEF TypeOK
      <3> QED BY <2>2, <3>1, HeadTailProperties
    <2>4. ASSUME SkipNoise(c, m) PROVE Parses(c, m)
      <3>1. UNCHANGED <<capturing, out, stage, res, pc>> /\ ~capturing[c]
        BY <2>4 DEF SkipNoise
      <3>2. Skips(c, m)
        BY <2>2, <3>1 DEF Skips, SameResult
      <3> QED BY <2>2, <3>2 DEF Parses
    <2>5. ASSUME SeeReadError(c, m) PROVE Parses(c, m)
      <3>1. Finish(c, "closed") /\ UNCHANGED <<stage, capturing, out>> /\ pc[c] \in {"drive", "pump"}
        BY <2>2, <2>5 DEF SeeReadError, Take, Selecting
      <3>2. SameResult(c) /\ pc'[c] \in {"release", "done"}
        BY <1>1, <3>1 DEF Results
      <3>3. Skips(c, m)
        BY <2>2, <3>1, <3>2 DEF Skips
      <3> QED BY <2>2, <3>3 DEF Parses
    <2>6. Parses(c, m)
      <3>1. SeeBeg(c, m) \/ Capture(c, m) \/ SeeEnd(c, m) => Parses(c, m)
        BY <2>2 DEF Parses
      <3> QED BY <2>1, <2>4, <2>5, <3>1
    <2> QED BY <2>3, <2>6
  <1> QED BY <1>4, <1>5, <1>6, <1>7, <1>8, <1>9, <1>10, <1>11 DEF SessionStep, UserStep
\* The messages of a frame are between its BEG and its END, which is at p or
\* will be when the running command is over.
EndsAt(f, p) ==
    \/ p \in 1..Moving /\ At(p).k = "END" /\ At(p).f = f
    \/ p = Moving + 1 /\ job = [f |-> f, framed |-> TRUE] /\ ~down /\ Flowing
\* Right before it is what the command printed, ...
Outs(f, p) == \A k \in 1..wrote[f] : k < p => At(p - k) = Msg("OUT", f, 0)
\* ... before that the BEG, ...
Begs(f, p) == \A i \in 1..Moving : At(i).k = "BEG" /\ At(i).f = f => i + wrote[f] + 1 = p
\* ... and what the call has captured already is the first part of it.
Captured(f, p) ==
    capturing[f[1]] /\ Frame(f[1]) = f /\ Parsing(f[1]) =>
        /\ Len(out[f[1]]) + p = wrote[f] + 1
        /\ \A i \in 1..Len(out[f[1]]) : out[f[1]][i] = Msg("OUT", f, 0)
Aligned(f, p) == Outs(f, p) /\ Begs(f, p) /\ Captured(f, p)
AlignInv == \A f \in Frames : \A p \in 1..(Moving + 1) : EndsAt(f, p) => Aligned(f, p)

\* Only commands that have started print, and a parser that has seen no BEG
\* has captured nothing.
StartInv ==
    /\ \A i \in 1..Moving : At(i).k # "ERR" => At(i).f \in Frames /\ exec[At(i).f] # "no"
    /\ \A f \in Frames : exec[f] = "no" => wrote[f] = 0
ParserInv ==
    \A c \in Calls :
        /\ capturing[c] => exec[Frame(c)] # "no" /\ pc[c] \notin {"new", "lock", "write"}
        /\ ~capturing[c] /\ pc[c] \notin {"release", "done"} => out[c] = <<>>

\* The messages around the END of a frame stay where they are.
LEMMA AlignedStays ==
    ASSUME TypeOK, NEW f \in Frames, NEW p \in Nat, Aligned(f, p), wrote'[f] = wrote[f],
           UNCHANGED <<capturing, out, stage, pc>>,
           \A i \in 1..(p - 1) : At(i)' = At(i),
           \A i \in 1..Moving' : At(i)'.k = "BEG" /\ At(i)'.f = f => i \in 1..Moving /\ At(i)' = At(i)
    PROVE  Aligned(f, p)'
  <1>0. wrote[f] \in Nat
    BY DEF TypeOK
  <1>1. ASSUME NEW k \in 1..wrote'[f], k < p PROVE At(p - k)' = Msg("OUT", f, 0)
    <2>1. k \in 1..wrote[f] /\ p - k \in 1..(p - 1)
      BY <1>0, <1>1
    <2>2. At(p - k) = Msg("OUT", f, 0)
      BY <1>1, <2>1 DEF Aligned, Outs
    <2>3. \A j \in 1..(p - 1) : j = p - k => At(j)' = At(j)
      OBVIOUS
    <2> QED BY <2>1, <2>2, <2>3
  <1>2. Outs(f, p)'
    BY <1>1 DEF Outs, Msg
  <1>3. Begs(f, p)'
    BY DEF Aligned, Begs
  <1>4. Captured(f, p)'
    BY DEF Aligned, Captured, Frame, Parsing, Msg
  <1> QED BY <1>2, <1>3, <1>4 DEF Aligned

\* A step of a goroutine that takes no message.
LEMMA PassKeepsFlow ==
    ASSUME NEW c \in Calls, TypeOK, TypeOK', ResInv, StartInv, ParserInv, AlignInv, ResultIsOwn,
           Alone(c), Passes(c)
    PROVE  StartInv' /\ ParserInv' /\ AlignInv' /\ ResultIsOwn'
  <1>0. /\ UNCHANGED <<held, reader, fromRemote, readCh, exec, wrote, job, down, capturing, out>>
        /\ \A d \in Calls \ {c} : pc'[d] = pc[d] /\ stage'[d] = stage[d] /\ res'[d] = res[d]
    BY DEF Alone, Passes
  <1>1. Moving' = Moving /\ Flowing' = Flowing /\ \A i : At(i)' = At(i)
    BY <1>0 DEF Moving, Flowing, At
  <1>2. StartInv'
    BY <1>0, <1>1 DEF StartInv
  <1>3. ASSUME NEW d \in Calls
        PROVE  /\ capturing[d] => exec[<<d, stage'[d]>>] # "no" /\ pc'[d] \notin {"new", "lock", "write"}
               /\ ~capturing[d] /\ pc'[d] \notin {"release", "done"} => out[d] = <<>>
    <2>0. /\ capturing[d] => exec[<<d, stage[d]>>] # "no" /\ pc[d] \notin {"new", "lock", "write"}
          /\ ~capturing[d] /\ pc[d] \notin {"release", "done"} => out[d] = <<>>
      BY DEF ParserInv, Frame
    <2>1. CASE d # c
      BY <1>0, <2>0, <2>1
    <2>2. CASE d = c
      <3>1. pc[c] \in {"new", "lock", "done"} \cup Holding
        BY DEF TypeOK
      <3> QED BY <2>0, <2>2, <3>1 DEF Passes, Parsing, Holding, Pumping
    <2> QED BY <2>1, <2>2
  <1>4. ParserInv'
    BY <1>0, <1>3 DEF ParserInv, Frame
  <1>5. ASSUME NEW f \in Frames, NEW p \in 1..(Moving + 1), EndsAt(f, p)'
        PROVE  Aligned(f, p)'
    <2>1. EndsAt(f, p)
      BY <1>0, <1>1, <1>5 DEF EndsAt
    <2>2. Outs(f, p) /\ Begs(f, p) /\ Captured(f, p)
      BY <2>1 DEF AlignInv, Aligned
    <2>3. Outs(f, p)' /\ Begs(f, p)'
      BY <1>0, <1>1, <2>2 DEF Outs, Begs, Msg
    <2>4. f[1] \in Calls
      BY DEF Frames
    <2>5. ASSUME capturing[f[1]], Frame(f[1])' = f, Parsing(f[1])'
          PROVE  Frame(f[1]) = f /\ Parsing(f[1])
      <3>1. CASE f[1] # c
        BY <1>0, <2>4, <2>5, <3>1 DEF Frame, Parsing
      <3>2. CASE f[1] = c
        <4>1. pc[c] \notin {"new", "lock", "write"} /\ pc[c] \in {"new", "lock", "done"} \cup Holding
          BY <2>5, <3>2 DEF ParserInv, TypeOK
        <4> QED BY <2>5, <3>2, <4>1 DEF Passes, Frame, Parsing, Holding, Pumping
      <3> QED BY <3>1, <3>2
    <2>6. Captured(f, p)'
      BY <1>0, <2>2, <2>5 DEF Captured, Msg
    <2> QED BY <2>3, <2>6 DEF Aligned
  <1>6. AlignInv'
    BY <1>1, <1>5 DEF AlignInv
  <1>7. ASSUME NEW d \in Calls, res'[d] \in {"ok", "canceled"}, stage'[d] = "user"
        PROVE  res[d] = res'[d] /\ stage[d] = "user"
    <2>1. CASE d # c
      BY <1>0, <1>7, <2>1
    <2>2. CASE d = c
      <3>1. res[c] = res'[c]
        BY <1>7, <2>2 DEF Passes, SameResult
      <3>2. pc[c] \in {"release", "done"}
        BY <1>7, <2>2, <3>1 DEF ResInv
      <3> QED BY <1>7, <2>2, <3>1, <3>2 DEF Passes
    <2> QED BY <2>1, <2>2
  <1>8. ResultIsOwn'
    BY <1>0, <1>7 DEF ResultIsOwn, Msg
  <1> QED BY <1>2, <1>4, <1>6, <1>8
\* The parser takes the first message: only the holder of the lease parses,
\* and everything moves on by one place.
LEMMA ParseShifts ==
    ASSUME NEW c \in Calls, NEW m \in Message, TypeOK, LeaseExclusive, Alone(c), Parses(c, m)
    PROVE  /\ Moving' = Moving - 1 /\ Moving \in Nat /\ Moving >= 1 /\ At(1) = m /\ Flowing' = Flowing
           /\ \A i \in 1..Moving' : At(i)' = At(i + 1)
           /\ pc[c] \in Selecting /\ Parsing(c)
           /\ \A d \in Calls \ {c} : ~Parsing(d) /\ ~Parsing(d)'
  <1>1. Take(c, m)
    BY DEF Parses, Skips, SeeBeg, Capture, SeeEnd
  <1>2. /\ pc[c] \in Selecting /\ readCh # <<>> /\ m = Head(readCh) /\ readCh' = Tail(readCh)
        /\ UNCHANGED <<reader, held, fromRemote>>
    BY <1>1 DEF Take, Alone
  <1>3. Parsing(c) /\ mu = c
    BY <1>2 DEF Selecting, Parsing, LeaseExclusive, Holding, Pumping
  <1>4. ASSUME NEW d \in Calls \ {c} PROVE ~Parsing(d) /\ ~Parsing(d)'
    BY <1>3 DEF Parsing, LeaseExclusive, Holding, Pumping, Alone
  <1>5. Moving \in Nat
    BY MovingTypes
  <1> QED BY <1>2, <1>3, <1>4, <1>5, TakeShifts

\* The parser that takes a message leaves the others aligned, and has captured
\* what is no longer on its way.
LEMMA ParseKeepsAligned ==
    ASSUME NEW c \in Calls, NEW m \in Message, TypeOK, LeaseExclusive, ParserInv, AlignInv,
           Alone(c), Parses(c, m)
    PROVE  AlignInv'
  <1>0. /\ Moving' = Moving - 1 /\ Moving \in Nat /\ Moving >= 1 /\ At(1) = m /\ Flowing' = Flowing
        /\ \A i \in 1..Moving' : At(i)' = At(i + 1)
        /\ pc[c] \in Selecting /\ Parsing(c)
        /\ \A d \in Calls \ {c} : ~Parsing(d)'
        /\ UNCHANGED <<exec, wrote, job, down>>
    BY ParseShifts DEF Alone
  <1> SUFFICES ASSUME NEW f \in Frames, NEW p \in 1..(Moving' + 1), EndsAt(f, p)'
               PROVE  Aligned(f, p)'
    BY DEF AlignInv
  <1>1. p \in Nat /\ p >= 1 /\ p + 1 \in 1..(Moving + 1) /\ wrote[f] \in Nat
    BY <1>0 DEF TypeOK
  <1>2. EndsAt(f, p + 1)
    <2>1. CASE p \in 1..Moving' /\ At(p)'.k = "END" /\ At(p)'.f = f
      <3>1. p + 1 \in 1..Moving /\ At(p + 1) = At(p)'
        BY <1>0, <1>1, <2>1
      <3> QED BY <2>1, <3>1 DEF EndsAt
    <2>2. CASE p = Moving' + 1 /\ job = [f |-> f, framed |-> TRUE] /\ ~down /\ Flowing
      <3>1. p + 1 = Moving + 1
        BY <1>0, <2>2
      <3> QED BY <2>2, <3>1 DEF EndsAt
    <2> QED BY <1>0, <2>1, <2>2 DEF EndsAt
  <1>3. Outs(f, p + 1) /\ Begs(f, p + 1) /\ Captured(f, p + 1)
    BY <1>1, <1>2 DEF AlignInv, Aligned
  <1>4. Outs(f, p)'
    <2>1. ASSUME NEW k \in 1..wrote[f], k < p PROVE At(p - k)' = Msg("OUT", f, 0)
      <3>1. k < p + 1 /\ p - k \in 1..Moving' /\ (p - k) + 1 = (p + 1) - k
        BY <1>0, <1>1, <2>1
      <3>2. At((p + 1) - k) = Msg("OUT", f, 0)
        BY <1>3, <3>1 DEF Outs
      <3>3. \A i \in 1..Moving' : i = p - k => At(i)' = At(i + 1)
        BY <1>0
      <3> QED BY <3>1, <3>2, <3>3
    <2> QED BY <1>0, <2>1 DEF Outs, Msg
  <1>5. Begs(f, p)'
    <2>1. ASSUME NEW i \in 1..Moving', At(i)'.k = "BEG", At(i)'.f = f PROVE i + wrote[f] + 1 = p
      <3>1. i + 1 \in 1..Moving /\ At(i)' = At(i + 1)
        BY <1>0
      <3>2. (i + 1) + wrote[f] + 1 = p + 1
        BY <1>3, <2>1, <3>1 DEF Begs
      <3> QED BY <1>1, <3>2
    <2> QED BY <1>0, <2>1 DEF Begs
  <1>6. ASSUME capturing'[f[1]], <<f[1], stage'[f[1]]>> = f, Parsing(f[1])'
        PROVE  /\ Len(out'[f[1]]) + p = wrote[f] + 1
               /\ \A i \in 1..Len(out'[f[1]]) : out'[f[1]][i] = Msg("OUT", f, 0)
    <2>1. f[1] = c /\ pc'[c] \notin {"release", "done"} /\ out[c] \in Seq(Message)
      <3>1. f[1] \in Calls
        BY DEF Frames
      <3> QED BY <1>0, <1>6, <3>1 DEF Parsing, TypeOK
    <2>2. CASE Skips(c, m)
      BY <1>6, <2>1, <2>2 DEF Skips
    <2>3. CASE SeeBeg(c, m)
      <3>1. ~capturing[c] /\ m.k = "BEG" /\ m.f = Frame(c) /\ UNCHANGED <<stage, out, pc>>
        BY <2>3 DEF SeeBeg, Own, caller
      <3>2. m.f = f /\ out'[c] = <<>>
        BY <1>6, <2>1, <3>1 DEF Frame, ParserInv
      <3>3. 1 \in 1..Moving
        BY <1>0
      <3>4. 1 + wrote[f] + 1 = p + 1
        BY <1>0, <1>3, <3>1, <3>2, <3>3 DEF Begs
      <3>5. Len(out'[c]) = 0
        BY <3>2
      <3> QED BY <1>1, <2>1, <3>4, <3>5
    <2>4. CASE Capture(c, m)
      <3>1. capturing' = capturing /\ stage' = stage /\ out' = [out EXCEPT ![c] = Append(@, m)]
        BY <2>4 DEF Capture
      <3>2. capturing[c] /\ Frame(c) = f /\ out'[c] = Append(out[c], m)
        BY <1>6, <2>1, <3>1 DEF Frame, TypeOK
      <3>3. /\ Len(out[c]) + (p + 1) = wrote[f] + 1
            /\ \A i \in 1..Len(out[c]) : out[c][i] = Msg("OUT", f, 0)
        BY <1>0, <1>3, <2>1, <3>2 DEF Captured
      <3>4. /\ Len(out'[c]) = Len(out[c]) + 1 /\ out'[c][Len(out[c]) + 1] = m /\ Len(out[c]) \in Nat
            /\ \A i \in 1..Len(out[c]) : out'[c][i] = out[c][i]
        BY <2>1, <3>2, AppendProperties, LenProperties
      <3>5. p \in 1..wrote[f] /\ p < p + 1 /\ (p + 1) - p = 1
        BY <1>1, <3>3, <3>4
      <3>6. At((p + 1) - p) = Msg("OUT", f, 0)
        BY <1>3, <3>5 DEF Outs
      <3>7. m = Msg("OUT", f, 0)
        BY <1>0, <3>5, <3>6
      <3>8. ASSUME NEW i \in 1..Len(out'[c]) PROVE out'[c][i] = Msg("OUT", f, 0)
        BY <3>3, <3>4, <3>7
      <3> DEFINE n == Len(out[c])
      <3>9. n \in Nat /\ Len(out'[c]) = n + 1 /\ n + (p + 1) = wrote[f] + 1
        BY <3>3, <3>4
      <3> HIDE DEF n
      <3>10. n + p = wrote[f]
        BY <1>1, <3>9
      <3>11. Len(out'[c]) + p = wrote[f] + 1
        BY <1>1, <3>9, <3>10
      <3> QED BY <2>1, <3>8, <3>11
    <2>5. CASE SeeEnd(c, m)
      <3>1. ~capturing'[c]
        BY <2>5 DEF SeeEnd, TypeOK
      <3> QED BY <1>6, <2>1, <3>1
    <2> QED BY <2>2, <2>3, <2>4, <2>5 DEF Parses
  <1>7. Captured(f, p)'
    BY <1>0, <1>6 DEF Captured, Frame, Msg
  <1> QED BY <1>4, <1>5, <1>7 DEF Aligned
\* The parser that takes the END of a user's command has captured what the
\* command printed.
LEMMA EndIsOwn ==
    ASSUME NEW c \in Calls, NEW m \in Message, TypeOK, LeaseExclusive, EndInv, AlignInv,
           Alone(c), Parses(c, m), SeeEnd(c, m), stage[c] = "user"
    PROVE  LET f == <<c, "user">>
               printed == [i \in 1..wrote[f] |-> Msg("OUT", f, 0)]
           IN \/ exec[f] = "done" /\ out'[c] = Append(printed, Msg("END", f, 0))
              \/ exec[f] = "failed" /\ out'[c] = Append(printed, Msg("END", f, 1))
  <1> DEFINE f == <<c, "user">>
             printed == [i \in 1..wrote[f] |-> Msg("OUT", f, 0)]
  <1>0. /\ Moving \in Nat /\ Moving >= 1 /\ At(1) = m /\ Parsing(c) /\ f = Frame(c) /\ f \in Frames
        /\ f[1] = c /\ readCh # <<>> /\ m = Head(readCh)
    BY ParseShifts DEF Frame, Frames, Stages, Parses
  <1>1. /\ capturing[c] /\ m.k = "END" /\ m.f = f /\ out'[c] = Append(out[c], m)
    BY <1>0 DEF SeeEnd, Own, TypeOK
  <1>2. m = Msg("END", f, m.code) /\ m.code \in {0, 1}
    BY <1>1 DEF Message, Msg
  <1>3. exec[f] = IF m.code = 0 THEN "done" ELSE "failed"
    <2>1. readCh \in Seq(Message) /\ Head(readCh) = readCh[1] /\ 1 \in 1..Len(readCh)
      BY <1>0, EmptySeq, HeadTailProperties DEF TypeOK
    <2>2. Truth(m)
      BY <1>0, <2>1 DEF EndInv
    <2> QED BY <1>1, <2>2 DEF Truth
  <1>4. out[c] = printed
    <2>1. 1 \in 1..Moving /\ 1 \in 1..(Moving + 1)
      BY <1>0
    <2>2. EndsAt(f, 1)
      BY <1>0, <1>1, <2>1 DEF EndsAt
    <2>3. Captured(f, 1)
      BY <1>0, <2>1, <2>2 DEF AlignInv, Aligned
    <2>4. /\ Len(out[c]) + 1 = wrote[f] + 1
          /\ \A i \in 1..Len(out[c]) : out[c][i] = Msg("OUT", f, 0)
      BY <1>0, <1>1, <2>3 DEF Captured
    <2>5. out[c] \in Seq(Message) /\ wrote[f] \in Nat /\ Len(out[c]) \in Nat
      BY <1>0 DEF TypeOK
    <2>6. Len(out[c]) = wrote[f]
      BY <2>4, <2>5
    <2>7. out[c] = [i \in 1..Len(out[c]) |-> out[c][i]]
      BY <2>5
    <2> QED BY <2>4, <2>6, <2>7
  <1>5. CASE m.code = 0
    BY <1>1, <1>2, <1>3, <1>4, <1>5
  <1>6. CASE m.code = 1
    BY <1>1, <1>2, <1>3, <1>4, <1>6
  <1> QED BY <1>2, <1>5, <1>6

\* The rest of what a parser keeps.
LEMMA ParseKeepsFlow ==
    ASSUME NEW c \in Calls, NEW m \in Message, TypeOK, TypeOK', LeaseExclusive, EndInv, ResInv,
           StartInv, ParserInv, AlignInv, ResultIsOwn, Alone(c), Parses(c, m)
    PROVE  StartInv' /\ ParserInv' /\ AlignInv' /\ ResultIsOwn'
  <1>0. /\ Moving' = Moving - 1 /\ Moving \in Nat /\ Moving >= 1 /\ At(1) = m
        /\ \A i \in 1..Moving' : At(i)' = At(i + 1)
        /\ pc[c] \in Selecting /\ UNCHANGED <<exec, wrote>> /\ res[c] = "none"
    BY ParseShifts DEF Alone, ResInv, Selecting
  <1>1. StartInv'
    <2>1. ASSUME NEW i \in 1..Moving', At(i)'.k # "ERR" PROVE At(i)'.f \in Frames /\ exec[At(i)'.f] # "no"
      <3>1. i + 1 \in 1..Moving /\ At(i)' = At(i + 1)
        BY <1>0
      <3> QED BY <2>1, <3>1 DEF StartInv
    <2> QED BY <1>0, <2>1 DEF StartInv
  <1>2. ASSUME NEW d \in Calls
        PROVE  /\ capturing'[d] => exec[<<d, stage'[d]>>] # "no" /\ pc'[d] \notin {"new", "lock", "write"}
               /\ ~capturing'[d] /\ pc'[d] \notin {"release", "done"} => out'[d] = <<>>
    <2>0. /\ capturing[d] => exec[<<d, stage[d]>>] # "no" /\ pc[d] \notin {"new", "lock", "write"}
          /\ ~capturing[d] /\ pc[d] \notin {"release", "done"} => out[d] = <<>>
      BY DEF ParserInv, Frame
    <2>1. CASE d # c
      BY <2>0, <2>1 DEF Alone
    <2>2. CASE d = c /\ Skips(c, m)
      BY <1>0, <2>0, <2>2 DEF Skips, Selecting
    <2>3. CASE d = c /\ SeeBeg(c, m)
      <3>1. /\ m.k = "BEG" /\ m.f = <<c, stage[c]>> /\ UNCHANGED <<stage, out, pc>> /\ capturing'[c]
        BY <2>3 DEF SeeBeg, Own, caller, Frame, TypeOK
      <3>2. 1 \in 1..Moving
        BY <1>0
      <3>3. exec[m.f] # "no"
        BY <1>0, <3>1, <3>2 DEF StartInv
      <3> QED BY <1>0, <2>3, <3>1, <3>3 DEF Selecting
    <2>4. CASE d = c /\ Capture(c, m)
      <3>1. UNCHANGED <<stage, capturing>> /\ capturing[c]
        BY <2>4 DEF Capture
      <3>2. pc'[c] \in {"drive", "pump", "flush", "release", "done"}
        BY <1>0, <2>4 DEF Capture, Selecting, Finish, TypeOK
      <3> QED BY <2>0, <2>4, <3>1, <3>2
    <2>5. CASE d = c /\ SeeEnd(c, m)
      <3>1. ~capturing'[c]
        BY <2>5 DEF SeeEnd, TypeOK
      <3>2. CASE stage[c] = "prelude"
        BY <2>5, <3>1, <3>2 DEF SeeEnd, TypeOK
      <3>3. CASE stage[c] = "user"
        <4>1. UserEnds(c)
          BY <2>5, <3>3 DEF SeeEnd
        <4>2. pc'[c] \in {"release", "done"}
          BY <4>1 DEF UserEnds, Finish, TypeOK
        <4> QED BY <2>5, <3>1, <4>2
      <3> QED BY <2>5, <3>2, <3>3 DEF SeeEnd
    <2> QED BY <2>1, <2>2, <2>3, <2>4, <2>5 DEF Parses
  <1>3. ParserInv'
    BY <1>0, <1>2 DEF ParserInv, Frame
  <1>4. ASSUME NEW d \in Calls, res'[d] \in {"ok", "canceled"}, stage'[d] = "user"
        PROVE  LET f == <<d, "user">>
                   printed == [i \in 1..wrote[f] |-> Msg("OUT", f, 0)]
               IN \/ exec[f] = "done" /\ out'[d] = Append(printed, Msg("END", f, 0))
                  \/ exec[f] = "failed" /\ out'[d] = Append(printed, Msg("END", f, 1))
    <2>1. CASE d # c
      <3>1. UNCHANGED <<res[d], stage[d], out[d]>>
        BY <2>1 DEF Alone
      <3> QED BY <1>4, <3>1 DEF ResultIsOwn
    <2>2. CASE d = c
      <3>1. ~Skips(c, m) /\ ~SeeBeg(c, m)
        BY <1>0, <1>4, <2>2 DEF Skips, SameResult, SeeBeg, caller
      <3>2. ~Capture(c, m)
        BY <1>0, <1>4, <2>2 DEF Capture, Finish, TypeOK
      <3>3. SeeEnd(c, m)
        BY <3>1, <3>2 DEF Parses
      <3>4. stage[c] = "user"
        BY <1>0, <1>4, <2>2, <3>3 DEF SeeEnd, PreludeEnds, Finish, TypeOK
      <3> QED BY <2>2, <3>3, <3>4, EndIsOwn
    <2> QED BY <2>1, <2>2
  <1>5. ResultIsOwn'
    BY <1>0, <1>4 DEF ResultIsOwn, Msg
  <1> QED BY <1>1, <1>3, <1>5, ParseKeepsAligned
\* The reader moves the messages on or cuts the stream off after some of them:
\* what is left is aligned as before.
LEMMA ReaderKeepsFlow ==
    ASSUME TypeOK, HeldInv, StartInv, ParserInv, AlignInv, ResultIsOwn, ReaderStep \/ CloseStep
    PROVE  HeldInv' /\ StartInv' /\ ParserInv' /\ AlignInv' /\ ResultIsOwn'
  <1>0. /\ Untouched /\ UNCHANGED <<job, exec, wrote, down>> /\ HeldInv' /\ (MovesOn \/ CutsOff)
        /\ Moving \in Nat
    BY ReaderCloseMoves, ReaderStream, MovingTypes
  <1>1. ParserInv' /\ ResultIsOwn'
    BY <1>0 DEF Untouched, ParserInv, Frame, ResultIsOwn, Msg
  <1>2. CASE MovesOn
    <2>1. Moving' = Moving /\ Flowing' = Flowing /\ \A i \in 1..Moving : At(i)' = At(i)
      BY <1>2 DEF MovesOn
    <2>2. StartInv'
      BY <1>0, <2>1 DEF StartInv
    <2>3. ASSUME NEW f \in Frames, NEW p \in 1..(Moving + 1), EndsAt(f, p)' PROVE Aligned(f, p)'
      <3>1. EndsAt(f, p)
        BY <1>0, <2>1, <2>3 DEF EndsAt
      <3>2. Aligned(f, p) /\ p \in Nat /\ \A i \in 1..(p - 1) : i \in 1..Moving
        BY <1>0, <3>1 DEF AlignInv
      <3> QED BY <1>0, <2>1, <3>2, AlignedStays DEF Untouched
    <2> QED BY <1>0, <1>1, <2>1, <2>2, <2>3 DEF AlignInv
  <1>3. CASE CutsOff
    <2>1. PICK n \in 0..Moving :
            /\ Moving' \in {n, n + 1} /\ \A i \in 1..n : At(i)' = At(i)
            /\ Moving' = n + 1 => At(n + 1)'.k = "ERR"
      BY <1>3 DEF CutsOff
    <2>2. ~Flowing' /\ n \in Nat /\ n <= Moving /\ Moving' \in Nat
      BY <1>0, <1>3, <2>1 DEF CutsOff
    <2>3. ASSUME NEW i \in 1..Moving', At(i)'.k # "ERR" PROVE i \in 1..n /\ i \in 1..Moving /\ At(i)' = At(i)
      <3>1. i # n + 1
        <4> SUFFICES ASSUME i = n + 1 PROVE FALSE
          OBVIOUS
        <4>1. Moving' = n + 1
          BY <2>1, <2>2
        <4>2. \A j \in 1..Moving' : j = n + 1 => At(j)' = At(n + 1)'
          OBVIOUS
        <4> QED BY <2>1, <2>3, <4>1, <4>2
      <3>2. i \in 1..n /\ i \in 1..Moving
        BY <1>0, <2>1, <2>2, <3>1
      <3> QED BY <2>1, <3>2
    <2>4. StartInv'
      BY <1>0, <2>3 DEF StartInv
    <2>5. ASSUME NEW f \in Frames, NEW p \in 1..(Moving' + 1), EndsAt(f, p)' PROVE Aligned(f, p)'
      <3>1. p \in 1..Moving' /\ At(p)'.k = "END" /\ At(p)'.f = f
        BY <2>2, <2>5 DEF EndsAt
      <3>2. p \in 1..n /\ p \in 1..Moving /\ At(p)' = At(p)
        BY <2>3, <3>1
      <3>3. EndsAt(f, p) /\ p \in 1..(Moving + 1) /\ p \in Nat
        BY <1>0, <3>1, <3>2 DEF EndsAt
      <3>4. Aligned(f, p)
        BY <3>3 DEF AlignInv
      <3>5. \A i \in 1..(p - 1) : i \in 1..n
        BY <2>2, <3>2
      <3> QED BY <1>0, <2>1, <2>3, <3>3, <3>4, <3>5, AlignedStays DEF Untouched
    <2> QED BY <1>0, <1>1, <2>4, <2>5 DEF AlignInv
  <1> QED BY <1>0, <1>2, <1>3

\* An END on its way tells the truth.
LEMMA TruthOnTheWay ==
    ASSUME TypeOK, EndInv
    PROVE  \A i \in 1..Moving : Truth(At(i))
  <1>1. /\ Len(readCh) \in Nat /\ Len(held) \in Nat /\ Len(fromRemote) \in Nat
    BY MovingTypes
  <1> SUFFICES ASSUME NEW i \in 1..Moving PROVE Truth(At(i))
    OBVIOUS
  <1>2. i \in Nat /\ i >= 1 /\ i <= Moving
    BY <1>1 DEF Moving
  <1>3. CASE i <= Len(readCh)
    <2>1. i \in 1..Len(readCh) /\ At(i) = readCh[i]
      BY <1>1, <1>2, <1>3 DEF At
    <2> QED BY <2>1 DEF EndInv
  <1>4. CASE ~(i <= Len(readCh)) /\ i <= Len(readCh) + Len(held)
    <2>1. i - Len(readCh) \in 1..Len(held) /\ At(i) = held[i - Len(readCh)]
      BY <1>1, <1>2, <1>4 DEF At
    <2> QED BY <2>1 DEF EndInv
  <1>5. CASE ~(i <= Len(readCh)) /\ ~(i <= Len(readCh) + Len(held))
    <2>1. i - Len(readCh) - Len(held) \in 1..Len(fromRemote)
      BY <1>1, <1>2, <1>5 DEF Moving
    <2>2. At(i) = fromRemote[i - Len(readCh) - Len(held)]
      BY <1>5 DEF At
    <2> QED BY <2>1, <2>2 DEF EndInv
  <1> QED BY <1>3, <1>4, <1>5
\* What the shell prints goes to the end of the stream.
NewMessage(m) == fromRemote' = fromRemote \/ Prints(m)

\* The rest of the stream stays where it is.
LEMMA PrintMoves ==
    ASSUME TypeOK, UNCHANGED <<held, reader, readCh>>, NEW m \in Message, NewMessage(m)
    PROVE  /\ Moving \in Nat /\ Flowing' = Flowing
           /\ Moving' = Moving \/ (Moving' = Moving + 1 /\ Flowing)
           /\ \A i \in 1..Moving : At(i)' = At(i)
           /\ \A i \in 1..Moving' : i \in 1..Moving \/ (i = Moving + 1 /\ At(i)' = m)
           /\ Prints(m) /\ Flowing => Moving' = Moving + 1
  <1>0. Moving \in Nat
    BY MovingTypes
  <1>1. CASE fromRemote' = fromRemote
    <2>1. Moving' = Moving /\ Flowing' = Flowing /\ \A i : At(i)' = At(i)
      BY <1>1 DEF Moving, Flowing, At
    <2>2. ~Prints(m)
      <3>1. Len(fromRemote) \in Nat /\ fromRemote \in Seq(Message)
        BY MovingTypes
      <3>2. Len(Append(fromRemote, m)) = Len(fromRemote) + 1
        BY <3>1, AppendProperties
      <3> QED BY <1>1, <3>1, <3>2 DEF Prints
    <2> QED BY <1>0, <2>1, <2>2
  <1>2. CASE Prints(m)
    <2>1. /\ Flowing' = Flowing /\ Moving' = IF Flowing THEN Moving + 1 ELSE Moving
          /\ \A i \in 1..Moving' : At(i)' = IF i <= Moving THEN At(i) ELSE m
      BY <1>2, PrintsGrows
    <2>2. \A i \in 1..Moving : i \in 1..Moving' /\ i <= Moving
      BY <1>0, <2>1
    <2>3. \A i \in 1..Moving' : i \in 1..Moving \/ (i = Moving + 1 /\ ~(i <= Moving))
      BY <1>0, <2>1
    <2> QED BY <1>0, <2>1, <2>2, <2>3
  <1> QED BY <1>1, <1>2 DEF NewMessage

\* It is no concern of the other frames.
LEMMA PrintKeepsAligned ==
    ASSUME TypeOK, Untouched, UNCHANGED <<held, reader, readCh>>, AlignInv,
           NEW m \in Message, NewMessage(m), NEW f \in Frames, m.k = "BEG" => m.f # f,
           wrote'[f] = wrote[f], NEW p \in 1..(Moving + 1), EndsAt(f, p)
    PROVE  Aligned(f, p)'
  <1>1. Aligned(f, p)
    BY DEF AlignInv
  <1>2. p \in Nat /\ \A i \in 1..(p - 1) : i \in 1..Moving
    BY PrintMoves
  <1>3. \A i \in 1..(p - 1) : At(i)' = At(i)
    BY <1>2, PrintMoves
  <1>4. ASSUME NEW i \in 1..Moving', At(i)'.k = "BEG", At(i)'.f = f
        PROVE  i \in 1..Moving /\ At(i)' = At(i)
    BY <1>4, PrintMoves
  <1> QED BY <1>1, <1>2, <1>3, <1>4, AlignedStays DEF Untouched

\* A command starts: its BEG is the last message, and nothing of it was there.
LEMMA BeginKeepsAligned ==
    ASSUME TypeOK, Untouched, UNCHANGED <<held, reader, readCh>>, StartInv, ParserInv, AlignInv,
           NEW g \in Frames, Begins(g)
    PROVE  AlignInv'
  <1> DEFINE m == Msg("BEG", g, 0)
  <1>0. m \in Message /\ m.k = "BEG" /\ m.f = g
    BY MessageTypes DEF Msg
  <1>1. /\ NewMessage(m) /\ UNCHANGED <<wrote, down>> /\ exec[g] = "no" /\ job'.f = g
        /\ job'.framed => Prints(m)
    BY DEF Begins, Starts, NewMessage
  <1> HIDE DEF m
  <1>2. /\ Moving \in Nat /\ Flowing' = Flowing
        /\ \A i \in 1..Moving : At(i)' = At(i)
        /\ \A i \in 1..Moving' : i \in 1..Moving \/ (i = Moving + 1 /\ At(i)' = m)
        /\ Prints(m) /\ Flowing => Moving' = Moving + 1
        /\ Moving' = Moving \/ Moving' = Moving + 1
    BY <1>0, <1>1, PrintMoves
  <1> SUFFICES ASSUME NEW f \in Frames, NEW p \in 1..(Moving' + 1), EndsAt(f, p)'
               PROVE  Aligned(f, p)'
    BY DEF AlignInv
  <1>3. ASSUME p \in 1..Moving', At(p)'.k = "END", At(p)'.f = f PROVE EndsAt(f, p) /\ p \in 1..Moving
    BY <1>0, <1>2, <1>3 DEF EndsAt
  <1>4. CASE f # g
    <2>1. EndsAt(f, p) /\ p \in 1..Moving
      BY <1>1, <1>3, <1>4 DEF EndsAt
    <2>2. p \in 1..(Moving + 1)
      BY <1>2, <2>1
    <2> QED BY <1>0, <1>1, <1>4, <2>1, <2>2, PrintKeepsAligned
  <1>5. CASE f = g
    <2>1. ASSUME NEW i \in 1..Moving, At(i).f = g, At(i).k # "ERR" PROVE FALSE
      BY <1>1, <2>1 DEF StartInv
    <2>2. p = Moving' + 1 /\ job'.framed /\ Flowing
      <3>1. ~(p \in 1..Moving' /\ At(p)'.k = "END" /\ At(p)'.f = f)
        BY <1>2, <1>3, <1>5, <2>1
      <3> QED BY <1>2, <3>1 DEF EndsAt
    <2>3. Moving' = Moving + 1 /\ wrote[f] = 0 /\ wrote' = wrote
      BY <1>1, <1>2, <1>5, <2>2 DEF StartInv
    <2>4. Outs(f, p)'
      BY <2>3 DEF Outs
    <2>5. ASSUME NEW i \in 1..Moving', At(i)'.k = "BEG", At(i)'.f = f PROVE i + wrote'[f] + 1 = p
      <3>1. i = Moving + 1
        BY <1>2, <1>5, <2>1, <2>5
      <3> QED BY <1>2, <2>2, <2>3, <3>1
    <2>6. Captured(f, p)'
      <3>1. f[1] \in Calls
        BY DEF Frames
      <3>2. ~(capturing[f[1]] /\ Frame(f[1]) = f)
        BY <1>1, <1>5, <3>1 DEF ParserInv
      <3> QED BY <3>2 DEF Captured, Frame, Untouched
    <2> QED BY <2>4, <2>5, <2>6 DEF Aligned, Begs
  <1> QED BY <1>4, <1>5
\* A command ends: its END is the last message, where it was expected.
LEMMA OverKeepsAligned ==
    ASSUME TypeOK, Untouched, UNCHANGED <<held, reader, readCh>>, AlignInv,
           NEW g \in Frames, NEW code \in {0, 1}, Over(g, code) \/ Aborted(g), ~Cut
    PROVE  AlignInv'
  <1> DEFINE m == Msg("END", g, code)
  <1>0. m \in Message /\ m.k = "END" /\ m.f = g
    BY MessageTypes DEF Msg
  <1>1. /\ NewMessage(m) /\ UNCHANGED <<wrote, down>> /\ ~down /\ job' = NoJob
        /\ fromRemote' = fromRemote \/ (Prints(m) /\ job = [f |-> g, framed |-> TRUE])
    <2>1. job \in [f : Frames \cup {NoFrame}, framed : BOOLEAN] /\ job.f = g
      BY DEF TypeOK, Over, Aborted
    <2>2. job.framed => job = [f |-> g, framed |-> TRUE]
      BY <2>1
    <2> QED BY <2>2 DEF Over, Aborted, NewMessage
  <1> HIDE DEF m
  <1>2. /\ Moving \in Nat /\ Flowing' = Flowing
        /\ Moving' = Moving \/ (Moving' = Moving + 1 /\ Flowing)
        /\ \A i \in 1..Moving : At(i)' = At(i)
        /\ \A i \in 1..Moving' : i \in 1..Moving \/ (i = Moving + 1 /\ At(i)' = m)
    BY <1>0, <1>1, PrintMoves
  <1>3. fromRemote' = fromRemote => Moving' = Moving
    BY <1>1 DEF Moving, Flowing
  <1> SUFFICES ASSUME NEW f \in Frames, NEW p \in 1..(Moving' + 1), EndsAt(f, p)'
               PROVE  Aligned(f, p)'
    BY DEF AlignInv
  <1>4. p \in 1..Moving' /\ At(p)'.k = "END" /\ At(p)'.f = f
    <2>1. job'.f \notin Frames
      BY <1>1, CallsAssumption DEF NoJob, NoFrame, Frames
    <2> QED BY <2>1 DEF EndsAt
  <1>5. EndsAt(f, p) /\ p \in 1..(Moving + 1)
    <2>1. CASE p \in 1..Moving
      BY <1>2, <1>4, <2>1 DEF EndsAt
    <2>2. CASE p \notin 1..Moving
      <3>1. p = Moving + 1 /\ At(p)' = m /\ Moving' = Moving + 1 /\ Flowing
        BY <1>2, <1>4, <2>2
      <3>2. fromRemote' # fromRemote
        BY <1>2, <1>3, <3>1
      <3>3. f = g /\ job = [f |-> g, framed |-> TRUE]
        BY <1>0, <1>1, <1>4, <3>1, <3>2
      <3> QED BY <1>1, <1>2, <3>1, <3>3 DEF EndsAt
    <2> QED BY <2>1, <2>2
  <1> QED BY <1>0, <1>1, <1>5, PrintKeepsAligned

\* A command prints: its END is expected one place later.
LEMMA OutKeepsAligned ==
    ASSUME TypeOK, Untouched, UNCHANGED <<held, reader, readCh>>, JobInv, EndInv, AlignInv, JobPrint
    PROVE  AlignInv'
  <1>0. PICK g \in Frames : g = job.f /\ exec[g] \in {"running", "altered"}
    BY DEF JobPrint, JobInv
  <1> DEFINE m == Msg("OUT", g, 0)
  <1>1. m \in Message /\ m.k = "OUT" /\ m.f = g
    BY <1>0, MessageTypes DEF Msg
  <1>2. /\ Prints(m) /\ NewMessage(m) /\ UNCHANGED <<down, job, exec>>
        /\ wrote' = [wrote EXCEPT ![g] = @ + 1] /\ wrote \in [Frames -> Nat]
    BY <1>0 DEF JobPrint, Emit, Prints, NewMessage, TypeOK
  <1> HIDE DEF m
  <1>3. /\ Moving \in Nat /\ Flowing' = Flowing
        /\ Prints(m) /\ Flowing => Moving' = Moving + 1
        /\ \A i \in 1..Moving : At(i)' = At(i)
        /\ \A i \in 1..Moving' : i \in 1..Moving \/ (i = Moving + 1 /\ At(i)' = m)
    BY <1>1, <1>2, PrintMoves
  <1> SUFFICES ASSUME NEW f \in Frames, NEW p \in 1..(Moving' + 1), EndsAt(f, p)'
               PROVE  Aligned(f, p)'
    BY DEF AlignInv
  <1>4. ASSUME p \in 1..Moving', At(p)'.k = "END", At(p)'.f = f PROVE EndsAt(f, p) /\ p \in 1..Moving
    BY <1>1, <1>3, <1>4 DEF EndsAt
  <1>5. CASE f # g
    <2>1. EndsAt(f, p) /\ p \in 1..Moving
      BY <1>0, <1>2, <1>4, <1>5 DEF EndsAt
    <2>2. p \in 1..(Moving + 1) /\ wrote'[f] = wrote[f]
      BY <1>2, <1>3, <1>5, <2>1
    <2> QED BY <1>1, <1>2, <2>1, <2>2, PrintKeepsAligned
  <1>6. CASE f = g
    <2>1. ~(p \in 1..Moving' /\ At(p)'.k = "END" /\ At(p)'.f = f)
      <3> SUFFICES ASSUME p \in 1..Moving', At(p)'.k = "END", At(p)'.f = f PROVE FALSE
        OBVIOUS
      <3>1. p \in 1..Moving /\ At(p).k = "END" /\ At(p).f = g
        BY <1>3, <1>4, <1>6
      <3>2. exec[g] \in {"done", "failed"}
        BY <3>1, TruthOnTheWay DEF Truth
      <3> QED BY <1>0, <3>2
    <2>2. p = Moving' + 1 /\ job = [f |-> g, framed |-> TRUE] /\ ~down /\ Flowing
      BY <1>2, <1>3, <1>6, <2>1 DEF EndsAt
    <2> DEFINE q == Moving + 1
    <2>3. Moving' = Moving + 1 /\ q \in Nat /\ q \in 1..(Moving + 1) /\ p = q + 1
      BY <1>2, <1>3, <2>2
    <2>4. EndsAt(g, q)
      BY <2>2 DEF EndsAt
    <2>5. Outs(g, q) /\ Begs(g, q) /\ Captured(g, q)
      BY <1>0, <2>3, <2>4 DEF AlignInv, Aligned
    <2>6. wrote'[g] = wrote[g] + 1 /\ wrote[g] \in Nat
      BY <1>0, <1>2
    <2>7. ASSUME NEW k \in 1..(wrote[g] + 1), k < p PROVE At(p - k)' = Msg("OUT", g, 0)
      <3>1. CASE k = 1
        <4>1. p - k = Moving + 1 /\ p - k \in 1..Moving' /\ p - k \notin 1..Moving
          BY <1>3, <2>3, <3>1
        <4>2. \A i \in 1..Moving' : i = p - k => i \in 1..Moving \/ At(i)' = m
          BY <1>3
        <4>3. At(p - k)' = m
          BY <4>1, <4>2
        <4> QED BY <4>3 DEF m
      <3>2. CASE k # 1
        <4>1. k - 1 \in 1..wrote[g] /\ k - 1 < q /\ q - (k - 1) = p - k /\ p - k \in 1..Moving
          BY <1>3, <2>3, <2>6, <2>7, <3>2
        <4>2. At(q - (k - 1)) = Msg("OUT", g, 0)
          BY <2>5, <4>1 DEF Outs
        <4>3. \A i \in 1..Moving : i = p - k => At(i)' = At(i)
          BY <1>3
        <4> QED BY <4>1, <4>2, <4>3
      <3> QED BY <3>1, <3>2
    <2>8. Outs(g, p)'
      BY <2>6, <2>7 DEF Outs, Msg
    <2>9. ASSUME NEW i \in 1..Moving', At(i)'.k = "BEG", At(i)'.f = g PROVE i + wrote'[g] + 1 = p
      <3>1. i \in 1..Moving /\ At(i)' = At(i)
        BY <1>1, <1>3, <2>9
      <3>2. i + wrote[g] + 1 = q
        BY <2>5, <2>9, <3>1 DEF Begs
      <3> HIDE DEF q
      <3> QED BY <2>3, <2>6, <3>1, <3>2
    <2>10. Captured(g, p)'
      <3>1. g[1] \in Calls
        BY <1>0 DEF Frames
      <3>2. UNCHANGED <<capturing, out, stage, pc>>
        BY DEF Untouched
      <3> SUFFICES ASSUME capturing[g[1]], Frame(g[1]) = g, Parsing(g[1])
                   PROVE  /\ Len(out[g[1]]) + p = wrote'[g] + 1
                          /\ \A i \in 1..Len(out[g[1]]) : out[g[1]][i] = Msg("OUT", g, 0)
        BY <3>2 DEF Captured, Frame, Parsing, Msg
      <3> DEFINE n == Len(out[g[1]])
      <3>3. n \in Nat /\ n + q = wrote[g] + 1 /\ \A i \in 1..n : out[g[1]][i] = Msg("OUT", g, 0)
        BY <2>5, <3>1 DEF Captured, TypeOK
      <3> HIDE DEF n, q
      <3>4. n + p = wrote'[g] + 1
        BY <2>3, <2>6, <3>3
      <3> QED BY <3>3, <3>4 DEF n
    <2>11. Begs(g, p)'
      BY <2>9 DEF Begs
    <2> QED BY <1>6, <2>8, <2>10, <2>11 DEF Aligned
  <1> QED BY <1>5, <1>6

\* A connection that is replaced takes the end of the stream with it, ...
LEMMA CutKeepsPrefix ==
    ASSUME TypeOK, UNCHANGED <<held, reader, readCh>>, Cut
    PROVE  \A i \in 1..Moving' : i \in 1..Moving /\ At(i)' = At(i)
  <1>1. /\ Len(readCh) \in Nat /\ Len(held) \in Nat /\ Len(fromRemote) \in Nat
        /\ fromRemote' = <<>> /\ Len(<<>>) = 0
    BY MovingTypes DEF Cut
  <1>2. Moving' = Len(readCh) + Len(held) \/ (Moving' = Moving /\ ~Flowing)
    BY <1>1 DEF Moving, Flowing
  <1>3. Moving' \in Nat /\ Moving' <= Len(readCh) + Len(held) /\ Moving' <= Moving /\ Moving \in Nat
    BY <1>1 DEF Moving, Flowing
  <1>4. ASSUME NEW i \in 1..Moving' PROVE i \in 1..Moving /\ i <= Len(readCh) + Len(held)
    BY <1>1, <1>3
  <1> QED BY <1>4 DEF At

\* ... and the command whose END was still to come.
LEMMA CutKeepsAligned ==
    ASSUME TypeOK, Untouched, UNCHANGED <<held, reader, readCh>>, AlignInv, Cut
    PROVE  AlignInv'
  <1>1. \A i \in 1..Moving' : i \in 1..Moving /\ At(i)' = At(i)
    BY CutKeepsPrefix
  <1>2. Moving \in Nat /\ Moving' \in Nat /\ wrote' = wrote /\ job' = NoJob
    BY MovingTypes DEF Cut, Relink, Moving
  <1> SUFFICES ASSUME NEW f \in Frames, NEW p \in 1..(Moving' + 1), EndsAt(f, p)'
               PROVE  Aligned(f, p)'
    BY DEF AlignInv
  <1>3. p \in 1..Moving' /\ At(p)'.k = "END" /\ At(p)'.f = f
    <2>1. job'.f \notin Frames
      BY <1>2, CallsAssumption DEF NoJob, NoFrame, Frames
    <2> QED BY <2>1 DEF EndsAt
  <1>4. EndsAt(f, p) /\ p \in 1..(Moving + 1) /\ p \in Nat
    BY <1>1, <1>2, <1>3 DEF EndsAt
  <1>5. Aligned(f, p) /\ \A i \in 1..(p - 1) : i \in 1..Moving'
    BY <1>2, <1>3, <1>4 DEF AlignInv
  <1> QED BY <1>1, <1>2, <1>4, <1>5, AlignedStays DEF Untouched

\* Every step of the remote side keeps the stream aligned.
LEMMA RemoteKeepsFlow ==
    ASSUME TypeOK, OnceInv, JobInv, OrderInv, Unaltered, EndInv, StartInv, ParserInv, AlignInv,
           ResultIsOwn, RemoteStep
    PROVE  StartInv' /\ ParserInv' /\ AlignInv' /\ ResultIsOwn'
  <1>0. /\ Untouched /\ UNCHANGED <<held, reader, readCh>>
        /\ ((\E f \in Frames : Acts(f)) \/ Quiet)
        /\ \A f \in Frames : exec[f] \in {"done", "failed"} => exec'[f] = exec[f]
        /\ exec \in [Frames -> {"no", "running", "altered", "done", "failed", "aborted"}]
        /\ wrote \in [Frames -> Nat]
    BY RemoteMoves, ShellActs, ShellKeepsExec DEF TypeOK
  <1>1. AlignInv'
    <2>1. ASSUME NEW f \in Frames, Acts(f) PROVE AlignInv'
      BY <1>0, <2>1, BeginKeepsAligned, OverKeepsAligned, CutKeepsAligned DEF Acts
    <2>2. CASE JobPrint
      BY <1>0, <2>2, OutKeepsAligned
    <2>3. CASE /\ UNCHANGED <<job, exec, wrote>> /\ NewMessage(ReadError)
               /\ ~down' => ~down /\ fromRemote' = fromRemote
      <3>1. ReadError \in Message /\ ReadError.k = "ERR"
        BY MessageTypes DEF ReadError, Msg
      <3>2. /\ Moving \in Nat /\ Flowing' = Flowing
            /\ \A i \in 1..Moving : At(i)' = At(i)
            /\ \A i \in 1..Moving' : i \in 1..Moving \/ (i = Moving + 1 /\ At(i)' = ReadError)
        BY <1>0, <2>3, <3>1, PrintMoves
      <3>3. fromRemote' = fromRemote => Moving' = Moving
        BY <1>0 DEF Moving, Flowing
      <3>4. ASSUME NEW f \in Frames, NEW p \in 1..(Moving' + 1), EndsAt(f, p)' PROVE Aligned(f, p)'
        <4>1. EndsAt(f, p) /\ p \in 1..(Moving + 1)
          <5>1. CASE p \in 1..Moving' /\ At(p)'.k = "END" /\ At(p)'.f = f
            <6>1. p \in 1..Moving /\ At(p)' = At(p)
              BY <3>1, <3>2, <5>1
            <6> QED BY <3>2, <5>1, <6>1 DEF EndsAt
          <5>2. CASE p = Moving' + 1 /\ job' = [f |-> f, framed |-> TRUE] /\ ~down' /\ Flowing'
            <6>1. p = Moving + 1 /\ job = [f |-> f, framed |-> TRUE] /\ ~down /\ Flowing
              BY <2>3, <3>2, <3>3, <5>2
            <6> QED BY <3>2, <6>1 DEF EndsAt
          <5> QED BY <3>4, <5>1, <5>2 DEF EndsAt
        <4> QED BY <1>0, <2>3, <3>1, <4>1, PrintKeepsAligned
      <3> QED BY <3>4 DEF AlignInv
    <2>4. Quiet => JobPrint \/ Cut \/ (/\ UNCHANGED <<job, exec, wrote>> /\ NewMessage(ReadError)
                               /\ (~down' => ~down /\ fromRemote' = fromRemote))
      BY DEF Quiet, RemoteDies, NewMessage, Prints
    <2> QED BY <1>0, <2>1, <2>2, <2>3, <2>4, CutKeepsAligned
  <1>2. \A f \in Frames : exec[f] # "no" => exec'[f] # "no"
    <2>1. ASSUME NEW f \in Frames, Acts(f) PROVE \A g \in Frames : exec[g] # "no" => exec'[g] # "no"
      BY <1>0, <2>1 DEF Acts, Begins, Over, Aborted
    <2>2. Quiet => exec' = exec
      BY DEF Quiet
    <2> QED BY <1>0, <2>1, <2>2
  <1>3. wrote' = wrote \/ (JobPrint /\ job.f \in Frames /\ wrote' = [wrote EXCEPT ![job.f] = @ + 1])
    <2>1. ASSUME NEW f \in Frames, Acts(f) PROVE wrote' = wrote
      BY <2>1 DEF Acts, Begins, Starts, Over, Aborted
    <2>2. Quiet => wrote' = wrote \/ JobPrint
      BY DEF Quiet, RemoteDies
    <2> QED BY <1>0, <2>1, <2>2 DEF JobPrint, JobInv
  <1>4. \A f \in Frames : wrote'[f] # wrote[f] =>
            job.f = f /\ exec[f] \in {"running", "altered"} /\ exec' = exec
    BY <1>0, <1>3 DEF JobPrint, JobInv
  <1>5. ASSUME Cut PROVE StartInv'
    <2>1. StartInv'
      <3>1. ASSUME NEW i \in 1..Moving', At(i)'.k # "ERR" PROVE At(i)'.f \in Frames /\ exec'[At(i)'.f] # "no"
        BY <1>0, <1>2, <3>1, <1>5, CutKeepsPrefix DEF StartInv
      <3>2. \A f \in Frames : exec'[f] = "no" => wrote'[f] = 0
        BY <1>2, <1>4 DEF StartInv
      <3> QED BY <3>1, <3>2 DEF StartInv
    <2> QED BY <2>1
  <1>8. ASSUME ~Cut PROVE StartInv'
    <2>1. \E m \in Message : NewMessage(m) /\ (m.k # "ERR" => m.f \in Frames /\ exec'[m.f] # "no")
      <3>1. ReadError \in Message /\ ReadError.k = "ERR"
        BY MessageTypes DEF ReadError, Msg
      <3>2. CASE fromRemote' = fromRemote \/ RemoteDies
        BY <3>1, <3>2 DEF NewMessage, Prints, RemoteDies
      <3>3. ASSUME NEW f \in Frames, NEW k \in {"BEG", "OUT", "END"}, NEW code \in {0, 1},
                   Prints(Msg(k, f, code)), exec'[f] # "no"
            PROVE  \E m \in Message : NewMessage(m) /\ (m.k # "ERR" => m.f \in Frames /\ exec'[m.f] # "no")
        <4>1. Msg(k, f, code) \in Message /\ Msg(k, f, code).f = f
          BY MessageTypes DEF Msg
        <4> QED BY <3>3, <4>1 DEF NewMessage
      <3>4. CASE JobPrint
        <4>1. Prints(Msg("OUT", job.f, 0)) /\ job.f \in Frames /\ exec'[job.f] # "no"
          BY <3>4 DEF JobPrint, Emit, Prints, JobInv
        <4> QED BY <3>3, <4>1
      <3>5. ASSUME NEW f \in Frames, Begins(f)
            PROVE  fromRemote' = fromRemote \/ (Prints(Msg("BEG", f, 0)) /\ exec'[f] # "no")
        BY <1>0, <3>5 DEF Begins
      <3>6. ASSUME NEW f \in Frames, NEW code \in {0, 1}, Over(f, code)
            PROVE  fromRemote' = fromRemote \/ (Prints(Msg("END", f, code)) /\ exec'[f] # "no")
        BY <1>0, <3>6 DEF Over
      <3>7. ASSUME NEW f \in Frames, Aborted(f) PROVE fromRemote' = fromRemote
        BY <1>8, <3>7 DEF Aborted
      <3>8. Quiet => JobPrint \/ fromRemote' = fromRemote \/ RemoteDies
        BY <1>8 DEF Quiet
      <3> QED BY <1>0, <3>2, <3>3, <3>4, <3>5, <3>6, <3>7, <3>8 DEF Acts
    <2>2. PICK m \in Message : NewMessage(m) /\ (m.k # "ERR" => m.f \in Frames /\ exec'[m.f] # "no")
      BY <2>1
    <2>3. /\ \A i \in 1..Moving : At(i)' = At(i)
          /\ \A i \in 1..Moving' : i \in 1..Moving \/ (i = Moving + 1 /\ At(i)' = m)
      BY <1>0, <2>2, PrintMoves
    <2>4. ASSUME NEW i \in 1..Moving', At(i)'.k # "ERR" PROVE At(i)'.f \in Frames /\ exec'[At(i)'.f] # "no"
      <3>1. CASE i \in 1..Moving
        BY <1>2, <2>3, <2>4, <3>1 DEF StartInv
      <3>2. CASE i \notin 1..Moving
        BY <2>2, <2>3, <2>4, <3>2
      <3> QED BY <3>1, <3>2
    <2>5. \A f \in Frames : exec'[f] = "no" => wrote'[f] = 0
      BY <1>2, <1>4 DEF StartInv
    <2> QED BY <2>4, <2>5 DEF StartInv
  <1>6. ParserInv'
    <2>1. TypeOK => \A c \in Calls : Frame(c) \in Frames
      BY DEF TypeOK, Frame, Frames
    <2> QED BY <1>0, <1>2, <2>1 DEF ParserInv, Frame, Untouched
  <1>7. ResultIsOwn'
    <2>1. ASSUME NEW c \in Calls, res[c] \in {"ok", "canceled"}, stage[c] = "user"
          PROVE  wrote'[<<c, "user">>] = wrote[<<c, "user">>] /\ exec'[<<c, "user">>] = exec[<<c, "user">>]
      <3>1. <<c, "user">> \in Frames /\ exec[<<c, "user">>] \in {"done", "failed"}
        BY <2>1 DEF ResultIsOwn, Frames, Stages
      <3> QED BY <1>0, <1>4, <3>1
    <2> QED BY <1>0, <2>1 DEF ResultIsOwn, Untouched, Msg
  <1> QED BY <1>1, <1>5, <1>6, <1>7, <1>8

\* The stream of messages, the parsers and the results, in every state.
FlowInv == HeldInv /\ StartInv /\ ParserInv /\ AlignInv /\ ResultIsOwn

\* Every step keeps them.
LEMMA FlowStep ==
    ASSUME TypeOK, TypeOK', LeaseExclusive, ShellInv, ServiceInv, FlowInv, [Next]_vars
    PROVE  FlowInv'
  <1>0. /\ OnceInv /\ JobInv /\ OrderInv /\ Unaltered /\ EndInv /\ ResInv
        /\ HeldInv /\ StartInv /\ ParserInv /\ AlignInv /\ ResultIsOwn
    BY DEF ShellInv, ServiceInv, FlowInv
  <1>1. ASSUME NEW c \in Calls, SessionStep(c) \/ UserStep(c) PROVE FlowInv'
    <2>1. Alone(c)
      BY <1>1, CallerMoves
    <2>2. HeldInv'
      BY <1>0, <2>1 DEF Alone, HeldInv
    <2>3. CASE Passes(c)
      BY <1>0, <2>1, <2>2, <2>3, PassKeepsFlow DEF FlowInv
    <2>4. ASSUME NEW m \in Message, Parses(c, m) PROVE FlowInv'
      BY <1>0, <2>1, <2>2, <2>4, ParseKeepsFlow DEF FlowInv
    <2> QED BY <1>1, <2>3, <2>4, ParserMoves
  <1>2. CASE ReaderStep \/ CloseStep
    BY <1>0, <1>2, ReaderKeepsFlow DEF FlowInv
  <1>3. CASE RemoteStep
    <2>1. HeldInv'
      BY <1>0, <1>3, RemoteMoves DEF HeldInv
    <2> QED BY <1>0, <1>3, <2>1, RemoteKeepsFlow DEF FlowInv
  <1>4. CASE ChannelStep \/ UNCHANGED vars
    <2>1. /\ Untouched /\ UNCHANGED <<held, reader, readCh, fromRemote, exec, wrote, job, down>>
      BY <1>4, ChannelSteady DEF Steady, vars, Untouched, sess, caller, parser, rd, chan, remote
    <2>2. Moving' = Moving /\ Flowing' = Flowing /\ \A i : At(i)' = At(i)
      BY <2>1 DEF Moving, Flowing, At
    <2>3. HeldInv' /\ StartInv' /\ ParserInv' /\ ResultIsOwn'
      BY <1>0, <2>1, <2>2 DEF HeldInv, StartInv, ParserInv, Frame, ResultIsOwn, Untouched, Msg
    <2>4. ASSUME NEW f \in Frames, NEW p \in 1..(Moving + 1), EndsAt(f, p)' PROVE Aligned(f, p)'
      <3>1. EndsAt(f, p)
        BY <2>1, <2>2, <2>4 DEF EndsAt
      <3>2. Aligned(f, p) /\ p \in Nat
        BY <1>0, <3>1, MovingTypes DEF AlignInv
      <3> QED BY <2>1, <2>2, <3>2, AlignedStays DEF Untouched
    <2>5. AlignInv'
      BY <2>2, <2>4 DEF AlignInv
    <2> QED BY <2>3, <2>5 DEF FlowInv
  <1> QED BY <1>1, <1>2, <1>3, <1>4 DEF Next

\* A successful call of RunFramed or Pipe returns what its own command printed,
\* all of it and nothing else, and its exit code (framed.go: the nonce in the
\* markers, driveParser and pipePump), as long as stdin that is written after the
\* end of its Pipe cannot get between the chunks of a command.
THEOREM ResultsAreOwn == WholeLines => (Spec => []ResultIsOwn)
  <1> SUFFICES ASSUME WholeLines PROVE Spec => []ResultIsOwn
    OBVIOUS
  <1>1. Init => FlowInv
    <2> SUFFICES ASSUME Init PROVE FlowInv
      OBVIOUS
    <2>1. /\ readCh = <<>> /\ held = <<>> /\ fromRemote = <<>> /\ job = NoJob
          /\ \A f \in Frames : wrote[f] = 0
          /\ \A c \in Calls : res[c] = "none" /\ ~capturing[c] /\ out[c] = <<>>
      BY DEF Init
    <2>2. Moving = 0 /\ HeldInv
      BY <2>1 DEF Moving, HeldInv
    <2>3. ASSUME NEW f \in Frames, NEW p \in 1..(Moving + 1) PROVE ~EndsAt(f, p)
      <3>1. job.f # f /\ ~(p \in 1..Moving)
        BY <2>1, <2>2, CallsAssumption DEF NoJob, NoFrame, Frames
      <3> QED BY <3>1 DEF EndsAt
    <2>4. StartInv /\ ParserInv /\ ResultIsOwn
      BY <2>1, <2>2 DEF StartInv, ParserInv, ResultIsOwn
    <2> QED BY <2>2, <2>3, <2>4 DEF FlowInv, AlignInv
  <1>2. IInv /\ IInv' /\ LeaseExclusive /\ ShellInv /\ ServiceInv /\ FlowInv /\ [Next]_vars => FlowInv'
    BY FlowStep DEF IInv
  <1>3. FlowInv => ResultIsOwn
    BY DEF FlowInv
  <1>4. Spec => []ServiceInv
    BY ServiceInvariant
  <1> QED BY <1>1, <1>2, <1>3, <1>4, TypesAndOffsets, LeaseIsExclusive, ShellInvariant, PTL DEF Spec
=============================================================================
