----------------------------- MODULE AgentRepl -----------------------------
(***************************************************************************)
(* pkg/backend/agent/repl.go: the REPL transport.  One agent process runs  *)
(* for a long time as the command of a Session.Pipe, concurrent operations *)
(* share it, and Close ends it.                                            *)
(*                                                                         *)
(* An epoch is one Pipe: one replState, one agent process, one lease on    *)
(* the session.  Of the session the module uses what AbstractSession says: *)
(* the lease is held from the start of the Pipe until its command is over. *)
(* A pump that has a reply in hand does not see the end of the command     *)
(* before the reply is read.                                               *)
(***************************************************************************)
EXTENDS Naturals, Sequences, FiniteSets

CONSTANTS
    Calls,        \* operations (callREPL)
    Nobody,       \* holder of a mutex that is free
    Closer,       \* the goroutine in Close
    MaxEpochs,    \* bound: Pipes started in the lifetime of the Backend
    MayBeOld,     \* may an agent speak another version than proto.Version?
    MayDie,       \* may the agent process die, or the session's channel break?
    MayFail,      \* may a write or a read fail although the agent lives?
    MayStall,     \* may a write into the session block: see FramedSession
    MayExpire     \* may the context of a call end when the call has returned?

ASSUME NamesAssumption ==
    /\ IsFiniteSet(Calls) /\ Nobody \notin Calls /\ Closer \notin Calls
    /\ Nobody # Closer
    /\ Calls \cap {"warmup", "bye"} = {}
ASSUME BoundsAssumption ==
    /\ MaxEpochs \in Nat \ {0}
    /\ MayBeOld \in BOOLEAN /\ MayDie \in BOOLEAN /\ MayExpire \in BOOLEAN
    /\ MayFail \in BOOLEAN /\ MayStall \in BOOLEAN

Epochs == 1..MaxEpochs
\* Requests and replies are known by their ID: that of a call, which is a number,
\* or that of the warmup ping; bye, which has none, is known by its operation.
Ids == Calls \cup {"warmup", "bye"}
Reply == [id : Ids, ok : BOOLEAN]

VARIABLES
    initMu, repl,             \* replInitMu; b.repl, 0 is nil
    callMu, closed,           \* of each replState
    pc, mine, res,            \* each call; the replState it works on
    closer, target,           \* Close; the replState it has taken
    lease, started,           \* holder of the session; Pipes started so far
    starter,                  \* the call whose context governs the Pipe
    requests, replies,        \* stdin and stdout of each agent
    agent,                    \* each agent process
    broken,                   \* is the channel of the session broken?
    ran,                      \* how often an operation has taken effect
    stalled,                  \* does the channel take no bytes for now?
    failed                    \* history: the agents with which a write or a read
                              \* failed while they lived

locks == <<initMu, repl, callMu, closed>>
calls == <<pc, mine, res>>
close == <<closer, target>>
pipes == <<lease, started, starter>>
procs == <<requests, replies, agent, broken, ran>>
faults == <<stalled, failed>>
vars  == <<locks, calls, close, pipes, procs, faults>>

Init ==
    /\ initMu = Nobody /\ repl = 0
    /\ callMu = [e \in Epochs |-> Nobody]
    /\ closed = [e \in Epochs |-> FALSE]
    /\ pc = [c \in Calls |-> "new"]
    /\ mine = [c \in Calls |-> 0]
    /\ res = [c \in Calls |-> "none"]
    /\ closer = "open" /\ target = 0
    /\ lease = 0 /\ started = 0
    /\ starter = [e \in Epochs |-> Nobody]
    /\ requests = [e \in Epochs |-> <<>>] /\ replies = [e \in Epochs |-> <<>>]
    /\ agent = [e \in Epochs |-> "none"] /\ broken = FALSE
    /\ ran = [c \in Calls |-> 0]
    /\ stalled = FALSE /\ failed = {}

Ended(e) == agent[e] = "gone" /\ lease # e
Return(c, r) ==
    /\ pc' = [pc EXCEPT ![c] = "done"]
    /\ res' = [res EXCEPT ![c] = r]
Ask(e, id) ==
    requests' = IF broken THEN requests ELSE [requests EXCEPT ![e] = Append(@, id)]
TakeReply(e) == replies' = [replies EXCEPT ![e] = Tail(@)]
\* A write comes back: from a channel that is broken with an error.
CanWrite == broken \/ ~stalled

-----------------------------------------------------------------------------
(* callREPL up to callMu, with startREPL under replInitMu.                 *)

Begin(c) ==
    /\ pc[c] = "new" /\ initMu = Nobody
    /\ \/ /\ repl # 0
          /\ mine' = [mine EXCEPT ![c] = repl]
          /\ pc' = [pc EXCEPT ![c] = "lock"]
          /\ UNCHANGED initMu
       \/ /\ repl = 0
          /\ initMu' = c
          /\ pc' = [pc EXCEPT ![c] = "pipe"]
          /\ UNCHANGED mine
    /\ UNCHANGED <<repl, callMu, closed, res, close, pipes, procs, faults>>

\* Session.Pipe has to wait for the lease, and does not look at the context
\* while it waits; then the warmup ping.
StartPipe(c) ==
    /\ pc[c] = "pipe" /\ ~broken /\ ~stalled
    /\ lease = 0 /\ started < MaxEpochs
    /\ started' = started + 1
    /\ lease' = started + 1
    /\ starter' = [starter EXCEPT ![started + 1] = c]
    /\ \E version \in {"up"} \cup (IF MayBeOld THEN {"old"} ELSE {}) :
           agent' = [agent EXCEPT ![started + 1] = version]
    /\ repl' = started + 1
    /\ Ask(started + 1, "warmup")
    /\ pc' = [pc EXCEPT ![c] = "warmup"]
    /\ UNCHANGED <<initMu, callMu, closed, mine, res, close, replies, broken, ran, faults>>

\* The session is dead, or the command line cannot be written.
PipeFails(c) ==
    /\ pc[c] = "pipe" /\ broken
    /\ initMu' = Nobody
    /\ Return(c, "error")
    /\ UNCHANGED <<repl, callMu, closed, mine, close, pipes, procs, faults>>

WarmupAnswered(c) ==
    /\ pc[c] = "warmup"
    /\ replies[repl] # <<>> /\ Head(replies[repl]).ok
    /\ TakeReply(repl)
    /\ mine' = [mine EXCEPT ![c] = repl]
    /\ initMu' = Nobody
    /\ pc' = [pc EXCEPT ![c] = "lock"]
    /\ UNCHANGED <<repl, callMu, closed, res, close, pipes, requests, agent, broken, ran, faults>>

\* The reply is an error, or the stream has ended: b.repl is forgotten, and
\* nothing is done about the Pipe.
WarmupFails(c) ==
    /\ pc[c] = "warmup"
    /\ \/ replies[repl] # <<>> /\ ~Head(replies[repl]).ok /\ TakeReply(repl)
       \/ replies[repl] = <<>> /\ Ended(repl) /\ UNCHANGED replies
    /\ repl' = 0
    /\ initMu' = Nobody
    /\ Return(c, "error")
    /\ UNCHANGED <<callMu, closed, mine, close, pipes, requests, agent, broken, ran, faults>>

-----------------------------------------------------------------------------
(* callREPL under callMu.                                                  *)

NoCallMu(c) == pc[c] = "lock"
CanLock(c) == pc[c] = "lock" /\ callMu[mine[c]] = Nobody
Lock(c) ==
    /\ CanLock(c)
    /\ IF closed[mine[c]]
       THEN Return(c, "error") /\ UNCHANGED callMu
       ELSE /\ callMu' = [callMu EXCEPT ![mine[c]] = c]
            /\ pc' = [pc EXCEPT ![c] = "write"]
            /\ UNCHANGED res
    /\ UNCHANGED <<initMu, repl, closed, mine, close, pipes, procs, faults>>

\* The write succeeds whether or not the agent still runs.
Write(c) ==
    /\ pc[c] = "write" /\ ~broken /\ ~stalled
    /\ Ask(mine[c], c)
    /\ pc' = [pc EXCEPT ![c] = "read"]
    /\ UNCHANGED <<locks, mine, res, close, pipes, replies, agent, broken, ran, faults>>

WriteFails(c) ==
    /\ pc[c] = "write" /\ broken
    /\ closed' = [closed EXCEPT ![mine[c]] = TRUE]
    /\ callMu' = [callMu EXCEPT ![mine[c]] = Nobody]
    /\ Return(c, "error")
    /\ UNCHANGED <<initMu, repl, mine, close, pipes, procs, faults>>

\* A reply with the ID of another request fails the call and nothing else.
ReadReply(c) ==
    /\ pc[c] = "read" /\ replies[mine[c]] # <<>>
    /\ TakeReply(mine[c])
    /\ callMu' = [callMu EXCEPT ![mine[c]] = Nobody]
    /\ LET reply == Head(replies[mine[c]])
       IN Return(c, IF reply.id # c THEN "mismatch"
                    ELSE IF reply.ok THEN "ok" ELSE "error")
    /\ UNCHANGED <<initMu, repl, closed, mine, close, pipes, requests, agent, broken, ran, faults>>

ReadFails(c) ==
    /\ pc[c] = "read" /\ replies[mine[c]] = <<>> /\ Ended(mine[c])
    /\ closed' = [closed EXCEPT ![mine[c]] = TRUE]
    /\ callMu' = [callMu EXCEPT ![mine[c]] = Nobody]
    /\ Return(c, "error")
    /\ UNCHANGED <<initMu, repl, mine, close, pipes, procs, faults>>

-----------------------------------------------------------------------------
(* closeREPL.                                                              *)

CloseTakes ==
    /\ closer = "begun" /\ initMu = Nobody
    /\ target' = repl
    /\ repl' = 0
    /\ closer' = IF repl = 0 THEN "done" ELSE "lock"
    /\ UNCHANGED <<initMu, callMu, closed, calls, pipes, procs, faults>>

CloseBegins ==
    /\ closer = "open"
    /\ closer' = "begun"
    /\ UNCHANGED <<locks, calls, target, pipes, procs, faults>>

ForgetBye(e) == requests' = requests
SendShutdown(e) == Ask(e, "shutdown")
SendBye(e) == Ask(e, "bye")
CloseLocks ==
    /\ closer = "lock" /\ callMu[target] = Nobody
    /\ IF closed[target]
       THEN closer' = "result" /\ UNCHANGED <<callMu, requests>>
       ELSE /\ CanWrite
            /\ closer' = "bye"
            /\ callMu' = [callMu EXCEPT ![target] = Closer]
            /\ SendBye(target)
    /\ UNCHANGED <<initMu, repl, closed, calls, target, pipes, replies, agent, broken, ran, faults>>

CloseReads ==
    /\ closer = "bye"
    /\ \/ replies[target] # <<>> /\ TakeReply(target)
       \/ replies[target] = <<>> /\ Ended(target) /\ UNCHANGED replies
    /\ closed' = [closed EXCEPT ![target] = TRUE]
    /\ callMu' = [callMu EXCEPT ![target] = Nobody]
    /\ closer' = "result"
    /\ UNCHANGED <<initMu, repl, calls, target, pipes, requests, agent, broken, ran, faults>>

\* Stdout is drained in the background until the result of the Pipe is there.
CloseDrains ==
    /\ closer = "result" /\ replies[target] # <<>>
    /\ TakeReply(target)
    /\ UNCHANGED <<locks, calls, close, pipes, requests, agent, broken, ran, faults>>

CloseReturns ==
    /\ closer = "result" /\ Ended(target)
    /\ closer' = "done"
    /\ UNCHANGED <<locks, calls, target, pipes, procs, faults>>

-----------------------------------------------------------------------------
(* A write or a read fails although the agent lives: a command of tmux or  *)
(* a frame of the WebSocket is refused, a line on stdout is no reply.      *)
(* What was written may have arrived or not, and the line may have been    *)
(* the reply or one before it.                                             *)

Fail(e) == MayFail /\ failed' = failed \cup {e} /\ UNCHANGED stalled
MayArrive(e, id) == UNCHANGED requests \/ Ask(e, id)
MayBeReply(e) == UNCHANGED replies \/ (replies[e] # <<>> /\ TakeReply(e))

\* Session.Pipe gives the lease back when it cannot write its command line.
PipeFault(c) ==
    /\ pc[c] = "pipe" /\ MayFail /\ lease = 0
    /\ initMu' = Nobody
    /\ Return(c, "error")
    /\ UNCHANGED <<repl, callMu, closed, mine, close, pipes, procs, faults>>

\* b.repl is forgotten, and the Pipe goes on.
WarmupFault(c) ==
    /\ pc[c] = "warmup" /\ Fail(repl)
    /\ MayBeReply(repl)
    /\ repl' = 0
    /\ initMu' = Nobody
    /\ Return(c, "error")
    /\ UNCHANGED <<callMu, closed, mine, close, pipes, requests, agent, broken, ran>>

WriteFault(c) ==
    /\ pc[c] = "write" /\ Fail(mine[c])
    /\ MayArrive(mine[c], c)
    /\ closed' = [closed EXCEPT ![mine[c]] = TRUE]
    /\ callMu' = [callMu EXCEPT ![mine[c]] = Nobody]
    /\ Return(c, "error")
    /\ UNCHANGED <<initMu, repl, mine, close, pipes, replies, agent, broken, ran>>

ReadFault(c) ==
    /\ pc[c] = "read" /\ Fail(mine[c])
    /\ MayBeReply(mine[c])
    /\ closed' = [closed EXCEPT ![mine[c]] = TRUE]
    /\ callMu' = [callMu EXCEPT ![mine[c]] = Nobody]
    /\ Return(c, "error")
    /\ UNCHANGED <<initMu, repl, mine, close, pipes, requests, agent, broken, ran>>

\* A bye that does not arrive is waited for all the same.
ByeFault ==
    /\ closer = "lock" /\ callMu[target] = Nobody /\ ~closed[target]
    /\ Fail(target)
    /\ callMu' = [callMu EXCEPT ![target] = Closer]
    /\ closer' = "bye"
    /\ UNCHANGED <<initMu, repl, closed, calls, target, pipes, procs>>

ByeReplyFault ==
    /\ closer = "bye" /\ Fail(target)
    /\ MayBeReply(target)
    /\ closed' = [closed EXCEPT ![target] = TRUE]
    /\ callMu' = [callMu EXCEPT ![target] = Nobody]
    /\ closer' = "result"
    /\ UNCHANGED <<initMu, repl, calls, target, pipes, requests, agent, broken, ran>>

Stall ==
    /\ MayStall
    /\ stalled' = ~stalled
    /\ UNCHANGED <<locks, calls, close, pipes, procs, failed>>

-----------------------------------------------------------------------------
(* The agent process (runREPL of cmd/ptyrelay-agent), and the pump of the  *)
(* Pipe.                                                                   *)

\* One request after the other; bye ends the loop.  An operation may fail, and
\* an agent of another version fails every request, bye included.
Running(e) == agent[e] \in {"up", "old"}
AgentServes(e) ==
    /\ Running(e) /\ requests[e] # <<>>
    /\ requests' = [requests EXCEPT ![e] = Tail(@)]
    /\ \E ok \in BOOLEAN :
        LET id == Head(requests[e])
        IN /\ agent[e] = "old" => ~ok
           /\ agent[e] = "up" /\ id \notin Calls => ok
           /\ replies' = [replies EXCEPT ![e] = Append(@, [id |-> id, ok |-> ok])]
           /\ agent' = [agent EXCEPT ![e] = IF id = "bye" THEN "gone" ELSE @]
           /\ ran' = [c \in Calls |-> ran[c] + (IF ok /\ c = id THEN 1 ELSE 0)]
    /\ UNCHANGED <<locks, calls, close, pipes, broken, faults>>

AgentDies(e) ==
    /\ MayDie /\ Running(e)
    /\ agent' = [agent EXCEPT ![e] = "gone"]
    /\ UNCHANGED <<locks, calls, close, pipes, requests, replies, broken, ran, faults>>

\* The channel breaks, and with it every agent is gone for the session.
ChannelBreaks ==
    /\ MayDie /\ ~broken
    /\ broken' = TRUE
    /\ agent' = [e \in Epochs |-> IF Running(e) THEN "gone" ELSE agent[e]]
    /\ UNCHANGED <<locks, calls, close, pipes, requests, replies, ran, faults>>

\* The Pipe runs under the context of the call that started it: when that ends
\* the session interrupts the agent.
StarterExpires(e) ==
    /\ MayExpire /\ Running(e)
    /\ starter[e] \in Calls /\ pc[starter[e]] = "done"
    /\ agent' = [agent EXCEPT ![e] = "gone"]
    /\ UNCHANGED <<locks, calls, close, pipes, requests, replies, broken, ran, faults>>

PipeEnds(e) ==
    /\ lease = e /\ agent[e] = "gone" /\ replies[e] = <<>>
    /\ lease' = 0
    /\ UNCHANGED <<locks, calls, close, started, starter, procs, faults>>

-----------------------------------------------------------------------------
CallStep(c) ==
    \/ Begin(c) \/ StartPipe(c) \/ PipeFails(c) \/ WarmupAnswered(c) \/ WarmupFails(c)
    \/ Lock(c) \/ Write(c) \/ WriteFails(c) \/ ReadReply(c) \/ ReadFails(c)
CloseStep == CloseTakes \/ CloseLocks \/ CloseReads \/ CloseDrains \/ CloseReturns
CallFault(c) == PipeFault(c) \/ WarmupFault(c) \/ WriteFault(c) \/ ReadFault(c)
Fault == (\E c \in Calls : CallFault(c)) \/ ByeFault \/ ByeReplyFault

Next ==
    \/ \E c \in Calls : CallStep(c)
    \/ CloseBegins \/ CloseStep \/ ChannelBreaks \/ Fault \/ Stall
    \/ \E e \in Epochs : AgentServes(e) \/ AgentDies(e) \/ StarterExpires(e) \/ PipeEnds(e)

Spec == Init /\ [][Next]_vars

\* Goroutines run, sync.Mutex is handed over, and the pump sees the end of its
\* command.  An agent that runs answers a ping and a bye; an operation may run
\* for ever ("sh -c" with a user's command, without a limit).
Busy(e) == Running(e) /\ requests[e] # <<>> /\ Head(requests[e]) \in Calls
Fairness ==
    /\ \A c \in Calls : SF_vars(pc[c] # "new" /\ CallStep(c))
    /\ SF_vars(CloseStep)
    /\ \A e \in Epochs : WF_vars(~Busy(e) /\ AgentServes(e)) /\ WF_vars(PipeEnds(e))
FairSpec == Spec /\ Fairness

-----------------------------------------------------------------------------
(* Correctness.                                                            *)

\* Every variable has its type.
TypeOK ==
    /\ initMu \in Calls \cup {Nobody} /\ repl \in 0..MaxEpochs
    /\ callMu \in [Epochs -> Calls \cup {Closer, Nobody}]
    /\ closed \in [Epochs -> BOOLEAN]
    /\ pc \in [Calls -> {"new", "pipe", "warmup", "lock", "write", "read", "done"}]
    /\ mine \in [Calls -> 0..MaxEpochs]
    /\ res \in [Calls -> {"none", "ok", "error", "mismatch"}]
    /\ closer \in {"open", "begun", "lock", "bye", "result", "done"}
    /\ target \in 0..MaxEpochs
    /\ lease \in 0..MaxEpochs /\ started \in 0..MaxEpochs
    /\ starter \in [Epochs -> Calls \cup {Nobody}]
    /\ requests \in [Epochs -> Seq(Ids)] /\ replies \in [Epochs -> Seq(Reply)]
    /\ agent \in [Epochs -> {"none", "up", "old", "gone"}] /\ broken \in BOOLEAN
    /\ ran \in [Calls -> Nat] /\ stalled \in BOOLEAN /\ failed \subseteq Epochs

\* Requests and replies stay in step over the life of an agent, with Close and
\* dying or failing agents in between: the check of the reply's ID never fails, and a call
\* that succeeds has taken effect exactly once.
RepliesInStep ==
    \A c \in Calls :
        /\ res[c] # "mismatch"
        /\ res[c] = "ok" => ran[c] = 1
        /\ ran[c] <= 1

\* Close "tears down the REPL agent (sending bye, waiting for exit, releasing
\* the Session lease)": it comes back.  It has no limit of its own, so what it
\* waits for may last for ever in three ways, and only in these: a write that
\* the channel does not take; an operation that the agent does not finish; and,
\* after a write or a read has failed, an agent that lives on because nobody says
\* bye to it, or whose last reply nobody takes.
Endless(e) ==
    /\ lease = e
    /\ \/ Busy(e)
       \/ e \in failed /\ (Running(e) \/ (replies[e] # <<>> /\ target # e))
CloseComesBack ==
    []<>~(stalled \/ \E e \in Epochs : Endless(e)) =>
        (closer = "begun" ~> closer = "done")
=============================================================================
