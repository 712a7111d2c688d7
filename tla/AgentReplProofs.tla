--------------------------- MODULE AgentReplProofs ---------------------------
(***************************************************************************)
(* Theorems about AgentRepl, for any operations, any number of agents one  *)
(* after the other, and any failures.                                      *)
(***************************************************************************)
EXTENDS AgentRepl, SequenceTheorems, TLAPS

-----------------------------------------------------------------------------
(* The inductive invariant.                                                *)

\* Who holds which mutex.
LockInv ==
    /\ \A c \in Calls : initMu = c <=> pc[c] \in {"pipe", "warmup"}
    /\ \A c \in Calls, e \in Epochs :
          callMu[e] = c <=> pc[c] \in {"write", "read"} /\ mine[c] = e
    /\ \A e \in Epochs : callMu[e] = Closer <=> closer = "bye" /\ target = e

\* Which replState is known to whom: b.repl is the latest or none, and while it
\* is warmed up nobody but the caller that does so has it.
EpochInv ==
    /\ repl \in {0, started} /\ target <= started
    /\ \A c \in Calls :
          /\ mine[c] <= started
          /\ pc[c] = "pipe" => repl = 0
          /\ pc[c] = "warmup" =>
                repl # 0 /\ target < repl /\ \A d \in Calls : mine[d] < repl
          /\ pc[c] \in {"lock", "write", "read"} => mine[c] # 0
    /\ closer \in {"lock", "bye", "result"} => target # 0 /\ target # repl

\* An agent runs only in a Pipe that was started, and while the channel lasts.
AgentInv ==
    /\ \A e \in Epochs : e > started =>
          agent[e] = "none" /\ requests[e] = <<>> /\ replies[e] = <<>>
    /\ broken => \A e \in Epochs : ~Running(e)

\* Who waits for a reply with which ID.
Waiting(id, e) ==
    \/ id \in Calls /\ pc[id] = "read" /\ mine[id] = e
    \/ id = "warmup" /\ repl = e /\ \E c \in Calls : pc[c] = "warmup"
    \/ id = "bye" /\ closer = "bye" /\ target = e

\* A failed write or read leaves its request, or the reply, with the agent, and
\* whoever waited for the reply does not any more.
Abandoned(id, e) ==
    /\ e \in failed
    /\ id \in Calls => pc[id] = "done" /\ mine[id] = e
Expected(id, e) == Waiting(id, e) \/ Abandoned(id, e)

\* Nobody asks an agent with which a write or a read has failed.
Dead(e) ==
    /\ e <= started
    /\ \A c \in Calls :
          /\ pc[c] \in {"write", "read"} => mine[c] # e
          /\ pc[c] = "warmup" => repl # e
          /\ pc[c] = "lock" /\ mine[c] = e => closed[e] \/ callMu[e] = Closer
    /\ repl = e => closed[e]
    /\ closer = "lock" /\ target = e => closed[e]
DeadInv == \A e \in failed : Dead(e)

\* What is between a Backend and an agent that may still be heard of: nothing, or
\* one request or its reply, which somebody waits for or has given up.
Live(e) == Running(e) \/ replies[e] # <<>>
Asked(id, e) ==
    /\ requests[e] = <<id>> /\ replies[e] = <<>>
    /\ id \in Calls => ran[id] = 0
Answered(id, ok, e) ==
    /\ requests[e] = <<>> /\ replies[e] = <<[id |-> id, ok |-> ok]>>
    /\ id \in Calls /\ ok => ran[id] = 1
InFlight(e) ==
    \/ requests[e] = <<>> /\ replies[e] = <<>>
    \/ \E id \in Ids :
          Expected(id, e) /\ (Asked(id, e) \/ \E ok \in BOOLEAN : Answered(id, ok, e))
StepInv == \A e \in Epochs : Live(e) => InFlight(e)

\* An operation has not run before its request is written.
RanInv ==
    \A c \in Calls :
        /\ pc[c] \notin {"read", "done"} => ran[c] = 0
        /\ pc[c] # "done" => res[c] = "none"

IInv ==
    /\ TypeOK /\ LockInv /\ EpochInv /\ AgentInv /\ DeadInv /\ StepInv /\ RanInv
    /\ RepliesInStep

Places == {"new", "pipe", "warmup", "lock", "write", "read", "done"}
Outcomes == {"none", "ok", "error", "mismatch"}

-----------------------------------------------------------------------------
(* Types.                                                                  *)

\* Changing a function at one place keeps its type.
LEMMA ExceptType ==
    ASSUME NEW S, NEW T, NEW f \in [S -> T], NEW x, NEW v \in T
    PROVE  [f EXCEPT ![x] = v] \in [S -> T]
  OBVIOUS

\* A step changes one entry of a variable at most, to what its type allows.
Holders == Calls \cup {Closer, Nobody}

\* Every action of callREPL, closeREPL and the agent is of this kind.
LEMMA OneEntry ==
    ASSUME Next
    PROVE  /\ pc' = pc \/ \E c, p : p \in Places /\ pc' = [pc EXCEPT ![c] = p]
           /\ res' = res \/ \E c, r : r \in Outcomes /\ res' = [res EXCEPT ![c] = r]
           /\ callMu' = callMu \/ \E e, h : h \in Holders /\ callMu' = [callMu EXCEPT ![e] = h]
           /\ closed' = closed \/ \E e : closed' = [closed EXCEPT ![e] = TRUE]
           /\ mine' = mine \/ \E c : mine' = [mine EXCEPT ![c] = repl]
           /\ repl' \in {repl, 0} \/ repl' = started'
           /\ target' \in {target, repl} /\ lease' \in {lease, 0, started'}
           /\ \/ started' = started /\ starter' = starter
              \/ /\ started < MaxEpochs /\ started' = started + 1
                 /\ \E e, c : c \in Calls /\ starter' = [starter EXCEPT ![e] = c]
           /\ initMu' \in Calls \cup {initMu, Nobody} /\ broken' \in {broken, TRUE}
           /\ closer' \in {closer, "begun", "lock", "bye", "result", "done"}
  <1> USE DEF Begin, StartPipe, PipeFails, WarmupAnswered, WarmupFails, CanLock, Lock, Write,
        WriteFails, ReadReply, ReadFails, CloseTakes, CloseBegins, CloseLocks, CloseReads,
        CloseDrains, CloseReturns, AgentServes, AgentDies, ChannelBreaks, StarterExpires,
        PipeEnds, PipeFault, WarmupFault, WriteFault, ReadFault, ByeFault, ByeReplyFault, Stall,
        Return, locks, calls, close, pipes, procs
  <1>1. CASE \E c \in Calls : CallStep(c)
    <2> PICK c \in Calls : CallStep(c)
      BY <1>1
    <2>1. pc' = pc \/ \E p : p \in Places /\ pc' = [pc EXCEPT ![c] = p]
      BY DEF CallStep, Places
    <2>2. res' = res \/ \E r : r \in Outcomes /\ res' = [res EXCEPT ![c] = r]
      BY DEF CallStep, Outcomes
    <2>3. callMu' = callMu
          \/ \E h : h \in Holders /\ callMu' = [callMu EXCEPT ![mine[c]] = h]
      BY DEF CallStep, Holders
    <2>4. closed' = closed \/ closed' = [closed EXCEPT ![mine[c]] = TRUE]
      BY DEF CallStep
    <2>5. mine' = mine \/ mine' = [mine EXCEPT ![c] = repl]
      BY DEF CallStep
    <2>6. /\ repl' \in {repl, 0} \/ repl' = started'
          /\ target' = target /\ lease' \in {lease, started'}
      BY DEF CallStep
    <2>7. \/ started' = started /\ starter' = starter
          \/ /\ started < MaxEpochs /\ started' = started + 1
             /\ starter' = [starter EXCEPT ![started + 1] = c]
      BY DEF CallStep
    <2>8. /\ initMu' \in Calls \cup {initMu, Nobody} /\ broken' = broken
          /\ closer' = closer
      BY DEF CallStep
    <2> HIDE DEF CallStep
    <2> QED BY <2>1, <2>2, <2>3, <2>4, <2>5, <2>6, <2>7, <2>8
  <1>2. CASE CloseBegins \/ CloseStep \/ ChannelBreaks
    BY <1>2 DEF CloseStep, Holders
  <1>3. CASE \E e \in Epochs : AgentServes(e) \/ AgentDies(e) \/ StarterExpires(e) \/ PipeEnds(e)
    BY <1>3
  <1>4. ASSUME NEW c \in Calls, CallFault(c)
        PROVE  /\ pc' = [pc EXCEPT ![c] = "done"] /\ res' = [res EXCEPT ![c] = "error"]
               /\ callMu' = callMu \/ callMu' = [callMu EXCEPT ![mine[c]] = Nobody]
               /\ closed' = closed \/ closed' = [closed EXCEPT ![mine[c]] = TRUE]
               /\ mine' = mine /\ repl' \in {repl, 0}
               /\ UNCHANGED <<target, lease, started, starter, broken, closer>>
               /\ initMu' \in {initMu, Nobody}
    BY <1>4 DEF CallFault
  <1>5. CASE \E c \in Calls : CallFault(c)
    BY <1>4, <1>5 DEF Places, Outcomes, Holders
  <1>6. CASE ByeFault \/ ByeReplyFault \/ Stall
    BY <1>6 DEF Holders
  <1> QED BY <1>1, <1>2, <1>3, <1>5, <1>6 DEF Next, Fault

\* The types of the mutexes, of the calls and of Close, and of what counts Pipes.
LEMMA LocalTypes ==
    ASSUME TypeOK, Next
    PROVE  /\ initMu' \in Calls \cup {Nobody} /\ callMu' \in [Epochs -> Holders]
           /\ closed' \in [Epochs -> BOOLEAN]
           /\ pc' \in [Calls -> Places] /\ res' \in [Calls -> Outcomes]
           /\ mine' \in [Calls -> 0..MaxEpochs]
           /\ repl' \in 0..MaxEpochs /\ target' \in 0..MaxEpochs
           /\ lease' \in 0..MaxEpochs /\ started' \in 0..MaxEpochs
           /\ starter' \in [Epochs -> Calls \cup {Nobody}]
           /\ closer' \in {"open", "begun", "lock", "bye", "result", "done"}
           /\ broken' \in BOOLEAN
  <1>1. /\ callMu \in [Epochs -> Holders] /\ closed \in [Epochs -> BOOLEAN]
        /\ pc \in [Calls -> Places] /\ res \in [Calls -> Outcomes]
        /\ mine \in [Calls -> 0..MaxEpochs] /\ repl \in 0..MaxEpochs
        /\ started \in 0..MaxEpochs /\ target \in 0..MaxEpochs /\ lease \in 0..MaxEpochs
        /\ starter \in [Epochs -> Calls \cup {Nobody}]
    BY DEF TypeOK, Holders, Places, Outcomes
  <1>2. started' \in 0..MaxEpochs
    BY <1>1, OneEntry, BoundsAssumption
  <1>3. /\ repl' \in 0..MaxEpochs /\ target' \in 0..MaxEpochs /\ lease' \in 0..MaxEpochs
    BY <1>1, <1>2, OneEntry, BoundsAssumption
  <1>4. callMu' \in [Epochs -> Holders] /\ closed' \in [Epochs -> BOOLEAN]
    <2>1. closed' = closed \/ \E e : closed' = [closed EXCEPT ![e] = TRUE]
      BY OneEntry
    <2>2. closed' \in [Epochs -> BOOLEAN]
      BY <1>1, <2>1
    <2>3. callMu' \in [Epochs -> Holders]
      BY <1>1, OneEntry, ExceptType
    <2> QED BY <2>2, <2>3
  <1>5. pc' \in [Calls -> Places] /\ res' \in [Calls -> Outcomes]
    BY <1>1, OneEntry, ExceptType
  <1>6. mine' \in [Calls -> 0..MaxEpochs]
    BY <1>1, OneEntry, ExceptType
  <1>7. starter' \in [Epochs -> Calls \cup {Nobody}]
    <2>1. starter' = starter \/ \E e, c : c \in Calls /\ starter' = [starter EXCEPT ![e] = c]
      BY OneEntry
    <2> QED BY <1>1, <2>1
  <1> QED BY <1>2, <1>3, <1>4, <1>5, <1>6, <1>7, OneEntry DEF TypeOK

\* The types of what is left of faults: a write or a read fails in a Pipe that was
\* started.
LEMMA FaultTypes ==
    ASSUME TypeOK, EpochInv, Next
    PROVE  stalled' \in BOOLEAN /\ failed' \subseteq Epochs
  <1>1. /\ stalled \in BOOLEAN /\ failed \subseteq Epochs
        /\ mine \in [Calls -> 0..MaxEpochs] /\ repl \in 0..MaxEpochs /\ target \in 0..MaxEpochs
        /\ MaxEpochs \in Nat
    BY BoundsAssumption DEF TypeOK
  <1>2. ASSUME NEW e \in Epochs, Fail(e)
        PROVE  stalled' \in BOOLEAN /\ failed' \subseteq Epochs
    BY <1>1, <1>2 DEF Fail
  <1>3. ASSUME NEW c \in Calls, CallFault(c)
        PROVE  stalled' \in BOOLEAN /\ failed' \subseteq Epochs
    <2>1. CASE PipeFault(c)
      BY <1>1, <2>1 DEF PipeFault, faults
    <2>2. CASE WarmupFault(c)
      <3>1. repl \in Epochs /\ Fail(repl)
        BY <1>1, <2>2 DEF WarmupFault, EpochInv, Epochs
      <3> QED BY <1>2, <3>1
    <2>3. CASE WriteFault(c) \/ ReadFault(c)
      <3>1. mine[c] \in Epochs /\ Fail(mine[c])
        BY <1>1, <2>3 DEF WriteFault, ReadFault, EpochInv, Epochs
      <3> QED BY <1>2, <3>1
    <2> QED BY <1>3, <2>1, <2>2, <2>3 DEF CallFault
  <1>4. CASE ByeFault \/ ByeReplyFault
    <2>1. target \in Epochs /\ Fail(target)
      BY <1>1, <1>4 DEF ByeFault, ByeReplyFault, EpochInv, Epochs
    <2> QED BY <1>2, <2>1
  <1>5. CASE Stall
    BY <1>1, <1>5 DEF Stall
  <1>6. CASE UNCHANGED faults
    BY <1>1, <1>6 DEF faults
  <1>7. ASSUME NEW c \in Calls, CallStep(c)
        PROVE  UNCHANGED faults
    BY <1>7 DEF CallStep, Begin, StartPipe, PipeFails, WarmupAnswered, WarmupFails, Lock, Write,
        WriteFails, ReadReply, ReadFails
  <1> QED BY <1>3, <1>4, <1>5, <1>6, <1>7
      DEF Next, Fault, CloseStep, CloseTakes, CloseBegins, CloseLocks, CloseReads, CloseDrains,
          CloseReturns, AgentServes, AgentDies, ChannelBreaks, StarterExpires, PipeEnds

\* The types of the agents and of what they are sent and send.
LEMMA AgentTypes ==
    ASSUME TypeOK, EpochInv, Next
    PROVE  /\ requests' \in [Epochs -> Seq(Ids)] /\ replies' \in [Epochs -> Seq(Reply)]
           /\ agent' \in [Epochs -> {"none", "up", "old", "gone"}]
           /\ ran' \in [Calls -> Nat]
  <1>1. /\ requests \in [Epochs -> Seq(Ids)] /\ replies \in [Epochs -> Seq(Reply)]
        /\ agent \in [Epochs -> {"none", "up", "old", "gone"}] /\ ran \in [Calls -> Nat]
    BY DEF TypeOK
  <1>2. ASSUME NEW e \in Epochs, AgentServes(e)
        PROVE  /\ requests' \in [Epochs -> Seq(Ids)] /\ replies' \in [Epochs -> Seq(Reply)]
               /\ agent' \in [Epochs -> {"none", "up", "old", "gone"}]
               /\ ran' \in [Calls -> Nat]
    <2>1. requests[e] \in Seq(Ids) /\ requests[e] # <<>>
      BY <1>1, <1>2 DEF AgentServes
    <2>2. Head(requests[e]) \in Ids /\ Tail(requests[e]) \in Seq(Ids)
      BY <2>1
    <2>3. \A ok \in BOOLEAN :
             Append(replies[e], [id |-> Head(requests[e]), ok |-> ok]) \in Seq(Reply)
      <3>1. \A ok \in BOOLEAN : [id |-> Head(requests[e]), ok |-> ok] \in Reply
        BY <2>2 DEF Reply
      <3> QED BY <1>1, <3>1
    <2>4. requests' \in [Epochs -> Seq(Ids)]
      BY <1>1, <1>2, <2>2 DEF AgentServes
    <2>5. replies' \in [Epochs -> Seq(Reply)]
      BY <1>1, <1>2, <2>3 DEF AgentServes
    <2>6. agent' \in [Epochs -> {"none", "up", "old", "gone"}]
      BY <1>1, <1>2 DEF AgentServes
    <2>7. ran' \in [Calls -> Nat]
      <3>1. PICK ok \in BOOLEAN :
               ran' = [c \in Calls |-> ran[c] + (IF ok /\ c = Head(requests[e]) THEN 1 ELSE 0)]
        BY <1>2 DEF AgentServes
      <3> QED BY <1>1, <3>1
    <2> QED BY <2>4, <2>5, <2>6, <2>7
  <1>3. ASSUME ~\E e \in Epochs : AgentServes(e)
        PROVE  ran' = ran /\ agent' \in [Epochs -> {"none", "up", "old", "gone"}]
    BY <1>1, <1>3
    DEF Next, CallStep, CloseStep, Begin, StartPipe,
        PipeFails, WarmupAnswered, WarmupFails, Lock, Write, WriteFails, ReadReply, ReadFails,
        CloseTakes, CloseBegins, CloseLocks, CloseReads, CloseDrains, CloseReturns, AgentDies,
        ChannelBreaks, StarterExpires, PipeEnds, Fault, CallFault, PipeFault, WarmupFault,
        WriteFault, ReadFault, ByeFault, ByeReplyFault, MayBeReply, Stall, locks, calls, close,
        pipes, procs
  <1>4. ASSUME NEW e, NEW id \in Ids, Ask(e, id)
        PROVE  requests' \in [Epochs -> Seq(Ids)]
    <2>1. e \in Epochs => Append(requests[e], id) \in Seq(Ids)
      BY <1>1, <1>4
    <2>2. requests' = requests \/ requests' = [requests EXCEPT ![e] = Append(requests[e], id)]
      BY <1>4 DEF Ask
    <2> QED BY <1>1, <2>1, <2>2
  <1>5. ASSUME NEW e, replies[e] # <<>>, TakeReply(e)
        PROVE  replies' \in [Epochs -> Seq(Reply)]
    <2>1. e \in Epochs => Tail(replies[e]) \in Seq(Reply)
      BY <1>1, <1>5
    <2> QED BY <1>1, <1>5, <2>1 DEF TakeReply
  <1>6. ASSUME ~\E e \in Epochs : AgentServes(e)
        PROVE  \/ requests' = requests
               \/ \E e, id : id \in Ids /\ Ask(e, id)
    BY <1>6
    DEF Next, CallStep, CloseStep, Begin, StartPipe, Ids,
        PipeFails, WarmupAnswered, WarmupFails, Lock, Write, WriteFails, ReadReply, ReadFails,
        CloseTakes, CloseBegins, CloseLocks, SendBye, CloseReads, CloseDrains, CloseReturns,
        AgentDies, ChannelBreaks, StarterExpires, PipeEnds, Fault, CallFault, PipeFault,
        WarmupFault, WriteFault, ReadFault, ByeFault, ByeReplyFault, MayArrive, Stall, locks,
        calls, close, pipes, procs
  <1>7. ASSUME ~\E e \in Epochs : AgentServes(e)
        PROVE  \/ replies' = replies
               \/ \E e : replies[e] # <<>> /\ TakeReply(e)
    BY <1>7
    DEF Next, CallStep, CloseStep, Begin, StartPipe,
        PipeFails, WarmupAnswered, WarmupFails, Lock, Write, WriteFails, ReadReply, ReadFails,
        CloseTakes, CloseBegins, CloseLocks, CloseReads, CloseDrains, CloseReturns, AgentDies,
        ChannelBreaks, StarterExpires, PipeEnds, Fault, CallFault, PipeFault, WarmupFault,
        WriteFault, ReadFault, ByeFault, ByeReplyFault, MayBeReply, Stall, locks, calls, close,
        pipes, procs
  <1> QED BY <1>1, <1>2, <1>3, <1>4, <1>5, <1>6, <1>7

-----------------------------------------------------------------------------
(* Mutexes, epochs and agents.                                             *)

\* The mutexes are taken and released where the code says so.
LEMMA LockStep ==
    ASSUME TypeOK, LockInv, EpochInv, Next
    PROVE  LockInv'
  <1>1. /\ callMu \in [Epochs -> Holders] /\ pc \in [Calls -> Places]
        /\ mine \in [Calls -> 0..MaxEpochs]
        /\ Nobody \notin Calls /\ Closer \notin Calls /\ Nobody # Closer
    BY NamesAssumption DEF TypeOK, Holders, Places
  <1> USE <1>1 DEF LockInv, Return
  <1>2. ASSUME NEW c \in Calls, Begin(c)
        PROVE  LockInv'
    <2>1. CASE pc' = [pc EXCEPT ![c] = "lock"] /\ UNCHANGED initMu
      <3>1. pc[c] = "new" /\ mine' = [mine EXCEPT ![c] = repl]
        BY <1>2, <2>1 DEF Begin
      <3>2. UNCHANGED <<callMu, closer, target>>
        BY <1>2 DEF Begin, close
      <3> QED BY <2>1, <3>1, <3>2
    <2>2. CASE pc' = [pc EXCEPT ![c] = "pipe"] /\ UNCHANGED mine
      <3>1. pc[c] = "new" /\ initMu = Nobody /\ initMu' = c
        BY <1>2, <2>2 DEF Begin
      <3>2. UNCHANGED <<callMu, closer, target>>
        BY <1>2 DEF Begin, close
      <3> QED BY <2>2, <3>1, <3>2
    <2> QED BY <1>2, <2>1, <2>2 DEF Begin
  <1>3. ASSUME NEW c \in Calls, StartPipe(c) \/ PipeFails(c) \/ PipeFault(c)
        PROVE  LockInv'
    BY <1>3 DEF StartPipe, PipeFails, PipeFault, locks, close
  <1>4. ASSUME NEW c \in Calls, WarmupAnswered(c) \/ WarmupFails(c) \/ WarmupFault(c)
        PROVE  LockInv'
    BY <1>4 DEF WarmupAnswered, WarmupFails, WarmupFault, close
  <1>5. ASSUME NEW c \in Calls, Lock(c)
        PROVE  LockInv'
    BY <1>5 DEF Lock, CanLock, close
  <1>6. ASSUME NEW c \in Calls, Write(c)
        PROVE  LockInv'
    BY <1>6 DEF Write, locks, close
  <1>7. ASSUME NEW c \in Calls, WriteFails(c) \/ ReadReply(c) \/ ReadFails(c)
                                \/ WriteFault(c) \/ ReadFault(c)
        PROVE  LockInv'
    BY <1>7 DEF WriteFails, ReadReply, ReadFails, WriteFault, ReadFault, close
  <1>8. CASE CloseTakes \/ CloseBegins \/ CloseReturns
    BY <1>8 DEF CloseTakes, CloseBegins, CloseReturns, locks, calls
  <1>9. CASE CloseLocks \/ ByeFault
    BY <1>9 DEF CloseLocks, ByeFault, calls
  <1>10. CASE CloseReads \/ ByeReplyFault
    BY <1>10 DEF CloseReads, ByeReplyFault, calls
  <1>11. CASE UNCHANGED <<initMu, callMu, pc, mine, closer, target>>
    BY <1>11
  <1> QED BY <1>2, <1>3, <1>4, <1>5, <1>6, <1>7, <1>8, <1>9, <1>10, <1>11
      DEF Next, CallStep, CallFault, Fault, CloseStep, CloseDrains, ChannelBreaks, AgentServes,
          AgentDies, StarterExpires, PipeEnds, Stall, locks, calls, close

\* Each Pipe is a new epoch, which only the caller that starts it knows at first.
LEMMA EpochStep ==
    ASSUME TypeOK, LockInv, EpochInv, Next
    PROVE  EpochInv'
  <1>1. /\ pc \in [Calls -> Places] /\ mine \in [Calls -> 0..MaxEpochs]
        /\ repl \in 0..MaxEpochs /\ started \in 0..MaxEpochs /\ target \in 0..MaxEpochs
        /\ MaxEpochs \in Nat
    BY BoundsAssumption DEF TypeOK, Places
  <1> USE <1>1 DEF EpochInv, Return
  <1>2. ASSUME NEW c \in Calls, Begin(c)
        PROVE  EpochInv'
    <2>1. \A d \in Calls : pc[d] # "warmup" /\ pc'[d] # "warmup"
      BY <1>2, NamesAssumption DEF Begin, LockInv
    <2>2. UNCHANGED <<repl, started, closer, target>>
      BY <1>2 DEF Begin, close, pipes
    <2>3. CASE repl # 0
      BY <1>2, <2>1, <2>2, <2>3 DEF Begin
    <2>4. CASE repl = 0
      BY <1>2, <2>1, <2>2, <2>4 DEF Begin
    <2> QED BY <2>3, <2>4
  <1>3. ASSUME NEW c \in Calls, StartPipe(c)
        PROVE  EpochInv'
    <2>1. /\ started' = started + 1 /\ repl' = started + 1 /\ UNCHANGED <<mine, closer, target>>
          /\ pc' = [pc EXCEPT ![c] = "warmup"]
      BY <1>3 DEF StartPipe, close
    <2>2. \A d \in Calls \ {c} : pc'[d] # "pipe"
      BY <1>3, <2>1 DEF StartPipe, LockInv
    <2> QED BY <2>1, <2>2
  <1>4. ASSUME NEW c \in Calls, PipeFails(c) \/ Lock(c) \/ Write(c) \/ WriteFails(c)
                                \/ ReadReply(c) \/ ReadFails(c)
                                \/ PipeFault(c) \/ WriteFault(c) \/ ReadFault(c)
        PROVE  EpochInv'
    <2>1. /\ UNCHANGED <<repl, started, mine, closer, target>>
          /\ \E p \in {"write", "read", "done"} : pc' = [pc EXCEPT ![c] = p]
          /\ pc[c] \in {"pipe", "lock", "write", "read"}
          /\ pc[c] = "pipe" => pc'[c] = "done"
      BY <1>4 DEF PipeFails, Lock, CanLock, Write, WriteFails, ReadReply, ReadFails, PipeFault,
          WriteFault, ReadFault, locks, close, pipes
    <2> QED BY <2>1
  <1>5. ASSUME NEW c \in Calls, WarmupAnswered(c) \/ WarmupFails(c) \/ WarmupFault(c)
        PROVE  EpochInv'
    <2>1. \A d \in Calls \ {c} : pc[d] \notin {"pipe", "warmup"}
      BY <1>5 DEF WarmupAnswered, WarmupFails, WarmupFault, LockInv
    <2>2. /\ UNCHANGED <<started, closer, target>>
          /\ \/ /\ repl' = repl /\ mine' = [mine EXCEPT ![c] = repl]
                /\ pc' = [pc EXCEPT ![c] = "lock"]
             \/ repl' = 0 /\ mine' = mine /\ pc' = [pc EXCEPT ![c] = "done"]
          /\ pc[c] = "warmup"
      BY <1>5 DEF WarmupAnswered, WarmupFails, WarmupFault, close, pipes
    <2> QED BY <2>1, <2>2
  <1>6. CASE CloseTakes
    <2>1. \A d \in Calls : pc[d] # "warmup"
      BY <1>6, NamesAssumption DEF CloseTakes, LockInv
    <2> QED BY <1>6, <2>1 DEF CloseTakes, calls, pipes
  <1>7. CASE UNCHANGED <<repl, started, mine, pc, target>> /\ closer' \in {closer, "begun", "done"}
    BY <1>7
  <1>8. CASE CloseLocks \/ CloseReads \/ ByeFault \/ ByeReplyFault
    BY <1>8 DEF CloseLocks, CloseReads, ByeFault, ByeReplyFault, calls, pipes
  <1> QED BY <1>2, <1>3, <1>4, <1>5, <1>6, <1>7, <1>8
      DEF Next, CallStep, CallFault, Fault, CloseStep, CloseBegins, CloseDrains, CloseReturns,
          ChannelBreaks, AgentServes, AgentDies, StarterExpires, PipeEnds, Stall, locks, calls,
          close, pipes

\* A failed write or read closes the replState before anybody else can have it, or
\* forgets it, or is that of a bye: nobody asks its agent after that.
LEMMA DeadStep ==
    ASSUME TypeOK, LockInv, EpochInv, DeadInv, Next
    PROVE  DeadInv'
  <1>1. /\ pc \in [Calls -> Places] /\ mine \in [Calls -> 0..MaxEpochs]
        /\ callMu \in [Epochs -> Holders] /\ closed \in [Epochs -> BOOLEAN]
        /\ repl \in 0..MaxEpochs /\ started \in 0..MaxEpochs /\ target \in 0..MaxEpochs
        /\ MaxEpochs \in Nat /\ failed \subseteq Epochs /\ \A e \in Epochs : e \in Nat /\ e # 0
        /\ Nobody \notin Calls /\ Closer \notin Calls /\ Nobody # Closer
    BY BoundsAssumption, NamesAssumption DEF TypeOK, Places, Holders, Epochs
  <1>2. ASSUME NEW c \in Calls, CallStep(c), NEW e \in Epochs, Dead(e)
        PROVE  Dead(e)'
    <2>1. CASE Begin(c)
      BY <1>1, <1>2, <2>1 DEF Begin, Dead, close, pipes
    <2>2. CASE StartPipe(c)
      BY <1>1, <1>2, <2>2 DEF StartPipe, Dead, close
    <2>3. CASE PipeFails(c)
      BY <1>1, <1>2, <2>3 DEF PipeFails, Return, Dead, close, pipes
    <2>4. CASE WarmupAnswered(c)
      BY <1>1, <1>2, <2>4 DEF WarmupAnswered, Dead, close, pipes
    <2>5. CASE WarmupFails(c)
      BY <1>1, <1>2, <2>5 DEF WarmupFails, Return, Dead, close, pipes
    <2>6. CASE Lock(c)
      BY <1>1, <1>2, <2>6 DEF Lock, CanLock, Return, Dead, close, pipes
    <2>7. CASE Write(c)
      BY <1>1, <1>2, <2>7 DEF Write, Dead, locks, close, pipes
    <2>8. CASE WriteFails(c) \/ ReadFails(c)
      BY <1>1, <1>2, <2>8 DEF WriteFails, ReadFails, Return, Dead, LockInv, close, pipes
    <2>9. CASE ReadReply(c)
      BY <1>1, <1>2, <2>9 DEF ReadReply, Return, Dead, LockInv, close, pipes
    <2> QED BY <1>2, <2>1, <2>2, <2>3, <2>4, <2>5, <2>6, <2>7, <2>8, <2>9 DEF CallStep
  <1>3. ASSUME NEW c \in Calls, PipeFault(c), NEW e \in Epochs, Dead(e)
        PROVE  Dead(e)'
    BY <1>1, <1>3 DEF PipeFault, Return, Dead, close, pipes
  <1>4. ASSUME NEW c \in Calls, WarmupFault(c), NEW e \in Epochs, Dead(e) \/ e = repl
        PROVE  Dead(e)'
    <2>1. target < repl /\ \A d \in Calls : mine[d] < repl
      BY <1>4 DEF WarmupFault, EpochInv
    <2>2. \A d \in Calls \ {c} : pc[d] # "warmup"
      BY <1>4 DEF WarmupFault, LockInv
    <2>3. /\ UNCHANGED <<callMu, closed, mine, closer, target, started>> /\ repl' = 0
          /\ pc' = [pc EXCEPT ![c] = "done"]
      BY <1>4 DEF WarmupFault, Return, close, pipes
    <2>4. CASE Dead(e)
      BY <1>1, <2>2, <2>3, <2>4 DEF Dead
    <2>5. CASE e = repl
      BY <1>1, <2>1, <2>2, <2>3, <2>5 DEF Dead, EpochInv
    <2> QED BY <1>4, <2>4, <2>5
  <1>5. ASSUME NEW c \in Calls, WriteFault(c) \/ ReadFault(c), NEW e \in Epochs,
               Dead(e) \/ e = mine[c]
        PROVE  Dead(e)'
    <2>1. /\ UNCHANGED <<repl, mine, closer, target, started>>
          /\ pc[c] \in {"write", "read"} /\ pc' = [pc EXCEPT ![c] = "done"]
          /\ callMu' = [callMu EXCEPT ![mine[c]] = Nobody]
          /\ closed' = [closed EXCEPT ![mine[c]] = TRUE]
      BY <1>5 DEF WriteFault, ReadFault, Return, close, pipes
    <2>2. CASE Dead(e) /\ e # mine[c]
      BY <1>1, <2>1, <2>2 DEF Dead
    <2>3. CASE e = mine[c]
      <3>1. closed'[e]
        BY <1>1, <2>1, <2>3
      <3>2. \A d \in Calls \ {c} : pc[d] \in {"write", "read"} => mine[d] # e
        BY <1>1, <2>1, <2>3 DEF LockInv
      <3>3. \A d \in Calls : pc[d] = "warmup" => repl # e
        BY <1>1, <2>1, <2>3 DEF EpochInv
      <3> QED BY <1>1, <2>1, <2>3, <3>1, <3>2, <3>3 DEF Dead, EpochInv
    <2> QED BY <1>5, <2>2, <2>3
  <1>6. ASSUME NEW e \in Epochs, Dead(e),
               CloseTakes \/ CloseBegins \/ CloseDrains \/ CloseReturns
        PROVE  Dead(e)'
    BY <1>1, <1>6 DEF CloseTakes, CloseBegins, CloseDrains, CloseReturns, Dead, locks, calls,
        close, pipes
  <1>7. ASSUME CloseLocks, NEW e \in Epochs, Dead(e)
        PROVE  Dead(e)'
    BY <1>1, <1>7 DEF CloseLocks, Dead, calls, pipes
  <1>8. ASSUME ByeFault, NEW e \in Epochs, Dead(e) \/ e = target
        PROVE  Dead(e)'
    <2>1. /\ UNCHANGED <<repl, mine, pc, closed, target, started>> /\ closer = "lock"
          /\ closer' = "bye" /\ callMu[target] = Nobody
          /\ callMu' = [callMu EXCEPT ![target] = Closer]
      BY <1>8 DEF ByeFault, calls, pipes
    <2>2. CASE Dead(e)
      BY <1>1, <2>1, <2>2 DEF Dead
    <2>3. CASE e = target
      BY <1>1, <2>1, <2>3 DEF Dead, LockInv, EpochInv
    <2> QED BY <1>8, <2>2, <2>3
  <1>9. ASSUME CloseReads \/ ByeReplyFault, NEW e \in Epochs, Dead(e) \/ e = target
        PROVE  Dead(e)'
    <2>1. /\ UNCHANGED <<repl, mine, pc, target, started>> /\ closer = "bye"
          /\ closer' = "result" /\ callMu' = [callMu EXCEPT ![target] = Nobody]
          /\ closed' = [closed EXCEPT ![target] = TRUE]
      BY <1>9 DEF CloseReads, ByeReplyFault, calls, pipes
    <2>2. CASE Dead(e) /\ e # target
      BY <1>1, <2>1, <2>2 DEF Dead
    <2>3. CASE e = target
      BY <1>1, <2>1, <2>3 DEF Dead, LockInv, EpochInv
    <2> QED BY <1>9, <2>2, <2>3
  <1>10. ASSUME NEW e \in Epochs, Dead(e), UNCHANGED <<locks, calls, close, started>>
         PROVE  Dead(e)'
    BY <1>10 DEF Dead, locks, calls, close
  <1>11. CASE Fault
    <2>1. CASE \E c \in Calls : PipeFault(c)
      BY <1>1, <1>3, <2>1 DEF PipeFault, faults, DeadInv
    <2>2. CASE \E c \in Calls : WarmupFault(c)
      <3>1. repl \in Epochs /\ failed' = failed \cup {repl}
        BY <1>1, <2>2 DEF WarmupFault, Fail, EpochInv, Epochs
      <3> QED BY <1>1, <1>4, <2>2, <3>1 DEF DeadInv
    <2>3. ASSUME NEW c \in Calls, WriteFault(c) \/ ReadFault(c)
          PROVE  DeadInv'
      <3>1. mine[c] \in Epochs /\ failed' = failed \cup {mine[c]}
        BY <1>1, <2>3 DEF WriteFault, ReadFault, Fail, EpochInv, Epochs
      <3> QED BY <1>1, <1>5, <2>3, <3>1 DEF DeadInv
    <2>4. CASE ByeFault \/ ByeReplyFault
      <3>1. target \in Epochs /\ failed' = failed \cup {target}
        BY <1>1, <2>4 DEF ByeFault, ByeReplyFault, Fail, EpochInv, Epochs
      <3> QED BY <1>1, <1>8, <1>9, <2>4, <3>1 DEF DeadInv
    <2> QED BY <1>11, <2>1, <2>2, <2>3, <2>4 DEF Fault, CallFault
  <1>12. CASE \E c \in Calls : CallStep(c)
    <2>1. failed' = failed
      BY <1>12 DEF CallStep, Begin, StartPipe, PipeFails, WarmupAnswered, WarmupFails, Lock, Write,
          WriteFails, ReadReply, ReadFails, faults
    <2> QED BY <1>1, <1>2, <1>12, <2>1 DEF DeadInv
  <1>13. CASE CloseBegins \/ CloseStep
    <2>1. failed' = failed
      BY <1>13 DEF CloseBegins, CloseStep, CloseTakes, CloseLocks, CloseReads, CloseDrains,
          CloseReturns, faults
    <2> QED BY <1>1, <1>6, <1>7, <1>9, <1>13, <2>1 DEF CloseStep, DeadInv
  <1>14. CASE \/ ChannelBreaks \/ Stall
              \/ \E a \in Epochs : AgentServes(a) \/ AgentDies(a) \/ StarterExpires(a) \/ PipeEnds(a)
    <2>1. UNCHANGED <<locks, calls, close, started, failed>>
      BY <1>14 DEF ChannelBreaks, Stall, AgentServes, AgentDies, StarterExpires, PipeEnds, pipes,
          faults
    <2> QED BY <1>1, <1>10, <2>1 DEF DeadInv
  <1> QED BY <1>11, <1>12, <1>13, <1>14 DEF Next

\* A call writes its request, and waits for the reply, under callMu; Close too.
\* During the warmup nobody else has the replState, so that one waits at most; and
\* with an agent that is still asked nothing was given up.
LEMMA OneWaits ==
    ASSUME TypeOK, LockInv, EpochInv, DeadInv, NEW e \in Epochs
    PROVE  /\ \A c \in Calls : pc[c] \in {"write", "read"} /\ mine[c] = e =>
                 \A id \in Ids : Expected(id, e) => id = c
           /\ callMu[e] = Nobody /\ closer = "lock" /\ target = e /\ ~closed[e] =>
                 \A id \in Ids : ~Expected(id, e)
  <1>1. /\ mine \in [Calls -> 0..MaxEpochs] /\ repl \in 0..MaxEpochs /\ target \in 0..MaxEpochs
        /\ MaxEpochs \in Nat /\ e \in Nat
        /\ Nobody \notin Calls /\ Closer \notin Calls /\ Nobody # Closer
        /\ "warmup" \notin Calls /\ "bye" \notin Calls
    BY BoundsAssumption, NamesAssumption DEF TypeOK, Epochs
  <1>2. /\ \A c \in Calls : pc[c] \in {"write", "read"} /\ mine[c] = e => callMu[e] = c
        /\ closer = "bye" /\ target = e => callMu[e] = Closer
        /\ \A c \in Calls : pc[c] = "warmup" =>
              target < repl /\ \A d \in Calls : mine[d] < repl
    BY DEF LockInv, EpochInv
  <1>3. \A c \in Calls : pc[c] \in {"write", "read"} /\ mine[c] = e =>
           e \notin failed /\ \A id \in Ids : Waiting(id, e) => id = c
    BY <1>1, <1>2 DEF Waiting, DeadInv, Dead
  <1>4. callMu[e] = Nobody /\ closer = "lock" /\ target = e /\ ~closed[e] =>
           e \notin failed /\ \A id \in Ids : ~Waiting(id, e)
    BY <1>1, <1>2 DEF Waiting, DeadInv, Dead
  <1> QED BY <1>3, <1>4 DEF Expected, Abandoned

\* An agent of which a step touches nothing but its death is not disturbed, if
\* those who wait for it still do, or have given up.
LEMMA FlightKept ==
    ASSUME StepInv, NEW e \in Epochs,
           requests'[e] = requests[e], replies'[e] = replies[e],
           agent'[e] \in {agent[e], "gone"},
           \A id \in Ids : Expected(id, e) =>
               Expected(id, e)' /\ (id \in Calls => ran'[id] = ran[id])
    PROVE  Live(e)' => InFlight(e)'
  <1> SUFFICES ASSUME Live(e)' PROVE InFlight(e)'
    OBVIOUS
  <1>1. Live(e)
    BY DEF Live, Running
  <1>2. CASE requests[e] = <<>> /\ replies[e] = <<>>
    BY <1>2 DEF InFlight
  <1>3. ASSUME NEW id \in Ids, Expected(id, e), Asked(id, e)
        PROVE  InFlight(e)'
    BY <1>3 DEF InFlight, Asked
  <1>4. ASSUME NEW id \in Ids, Expected(id, e), NEW ok \in BOOLEAN, Answered(id, ok, e)
        PROVE  InFlight(e)'
    <2>1. Answered(id, ok, e)' /\ Expected(id, e)'
      BY <1>4 DEF Answered
    <2> QED BY <2>1 DEF InFlight
  <1> QED BY <1>1, <1>2, <1>3, <1>4 DEF StepInv, InFlight

\* Who asks a live agent, and nobody waits for one, is the only one.
LEMMA AskStep ==
    ASSUME TypeOK, StepInv, AgentInv, NEW e \in Epochs, NEW id \in Ids, Ask(e, id),
           \A i \in Ids : ~Expected(i, e), Expected(id, e)', UNCHANGED <<replies, agent, ran>>,
           id \in Calls => ran[id] = 0
    PROVE  Live(e)' => InFlight(e)'
  <1> SUFFICES ASSUME Live(e)' PROVE InFlight(e)'
    OBVIOUS
  <1>1. Live(e)
    BY DEF Live, Running
  <1>2. requests[e] = <<>> /\ replies[e] = <<>>
    BY <1>1 DEF StepInv, InFlight
  <1>3. ~broken
    BY <1>1, <1>2 DEF Live, AgentInv
  <1>4. requests'[e] = <<id>>
    BY <1>2, <1>3 DEF Ask, TypeOK
  <1>5. Asked(id, e)'
    BY <1>2, <1>4 DEF Asked
  <1> QED BY <1>5 DEF InFlight

\* Who takes a reply leaves nothing behind.
LEMMA TakeStep ==
    ASSUME TypeOK, StepInv, NEW e \in Epochs, replies[e] # <<>>, TakeReply(e)
    PROVE  /\ requests[e] = <<>> /\ replies'[e] = <<>>
           /\ \E id \in Ids, ok \in BOOLEAN :
                 /\ Expected(id, e) /\ Head(replies[e]) = [id |-> id, ok |-> ok]
                 /\ id \in Calls /\ ok => ran[id] = 1
  <1>1. PICK id \in Ids, ok \in BOOLEAN : Expected(id, e) /\ Answered(id, ok, e)
    BY DEF StepInv, InFlight, Live, Asked
  <1>2. replies[e] = <<[id |-> id, ok |-> ok]>> /\ requests[e] = <<>>
    BY <1>1 DEF Answered
  <1>3. Head(replies[e]) = [id |-> id, ok |-> ok] /\ Tail(replies[e]) = <<>>
    BY <1>2
  <1>4. replies'[e] = <<>>
    BY <1>3 DEF TakeReply, TypeOK
  <1> QED BY <1>1, <1>2, <1>3, <1>4 DEF Answered

\* An agent is started in a new Pipe, and asked nothing before.
LEMMA AgentStep ==
    ASSUME TypeOK, EpochInv, AgentInv, Next
    PROVE  AgentInv'
  <1>1. /\ requests \in [Epochs -> Seq(Ids)] /\ replies \in [Epochs -> Seq(Reply)]
        /\ agent \in [Epochs -> {"none", "up", "old", "gone"}]
        /\ mine \in [Calls -> 0..MaxEpochs] /\ repl \in 0..MaxEpochs
        /\ started \in 0..MaxEpochs /\ target \in 0..MaxEpochs /\ MaxEpochs \in Nat
    BY BoundsAssumption DEF TypeOK
  <1>2. ASSUME NEW e, e <= started, e \in Nat, started' = started,
               requests' = requests \/ \E q : requests' = [requests EXCEPT ![e] = q],
               replies' = replies \/ \E q : replies' = [replies EXCEPT ![e] = q],
               agent' = agent, broken' = broken
        PROVE  AgentInv'
    <2>1. \A f \in Epochs : f > started =>
             requests'[f] = requests[f] /\ replies'[f] = replies[f]
      <3> SUFFICES ASSUME NEW f \in Epochs, f > started
                   PROVE  requests'[f] = requests[f] /\ replies'[f] = replies[f]
        OBVIOUS
      <3>1. f # e
        BY <1>1, <1>2 DEF Epochs
      <3> QED BY <1>1, <1>2, <3>1
    <2> QED BY <1>2, <2>1 DEF AgentInv, Running
  <1>3. ASSUME NEW c \in Calls, CallStep(c)
        PROVE  AgentInv'
    <2>1. mine[c] \in Nat /\ mine[c] <= started /\ repl \in Nat /\ repl <= started
      BY <1>1 DEF EpochInv
    <2>2. CASE StartPipe(c)
      <3>1. /\ started' = started + 1 /\ ~broken /\ broken' = broken /\ replies' = replies
            /\ requests' = requests \/ requests' = [requests EXCEPT ![started + 1] = Append(@, "warmup")]
            /\ \E v \in {"up", "old"} : agent' = [agent EXCEPT ![started + 1] = v]
        BY <2>2 DEF StartPipe, Ask
      <3>2. \A f \in Epochs : f > started' =>
               /\ f > started /\ agent'[f] = agent[f]
               /\ requests'[f] = requests[f] /\ replies'[f] = replies[f]
        <4> SUFFICES ASSUME NEW f \in Epochs, f > started'
                     PROVE  /\ f > started /\ agent'[f] = agent[f]
                            /\ requests'[f] = requests[f] /\ replies'[f] = replies[f]
          OBVIOUS
        <4>1. f # started + 1 /\ f > started
          BY <1>1, <3>1 DEF Epochs
        <4> QED BY <1>1, <3>1, <4>1
      <3> QED BY <3>1, <3>2 DEF AgentInv
    <2>3. CASE Write(c)
      BY <1>2, <2>1, <2>3 DEF Write, Ask, pipes
    <2>4. CASE ReadReply(c)
      BY <1>2, <2>1, <2>4 DEF ReadReply, TakeReply, pipes
    <2>5. CASE WarmupAnswered(c) \/ WarmupFails(c)
      BY <1>2, <2>1, <2>5 DEF WarmupAnswered, WarmupFails, TakeReply, pipes
    <2>6. CASE Begin(c) \/ PipeFails(c) \/ Lock(c) \/ WriteFails(c) \/ ReadFails(c)
      BY <1>2, <2>1, <2>6 DEF Begin, PipeFails, Lock, WriteFails, ReadFails, pipes, procs
    <2> QED BY <1>3, <2>2, <2>3, <2>4, <2>5, <2>6 DEF CallStep
  <1>4. CASE CloseBegins \/ CloseStep
    <2>1. target \in Nat /\ target <= started
      BY <1>1 DEF EpochInv
    <2> QED BY <1>2, <1>4, <2>1
        DEF CloseBegins, CloseStep, CloseTakes, CloseLocks, CloseReads, CloseDrains, CloseReturns,
            SendBye, Ask, TakeReply, pipes, procs
  <1>5. CASE ChannelBreaks
    BY <1>1, <1>5 DEF ChannelBreaks, AgentInv, Running, Epochs, pipes
  <1>6. ASSUME NEW e \in Epochs, AgentServes(e)
        PROVE  AgentInv'
    <2>1. e \in Nat /\ e <= started /\ ~broken
      BY <1>1, <1>6 DEF AgentServes, AgentInv, Running, Epochs
    <2>2. \E q, r, a : /\ requests' = [requests EXCEPT ![e] = q]
                       /\ replies' = [replies EXCEPT ![e] = r]
                       /\ agent' = [agent EXCEPT ![e] = a]
      BY <1>6 DEF AgentServes
    <2> QED BY <1>1, <1>6, <2>1, <2>2 DEF AgentServes, AgentInv, Epochs, pipes
  <1>7. ASSUME NEW e \in Epochs, AgentDies(e) \/ StarterExpires(e) \/ PipeEnds(e)
        PROVE  AgentInv'
    <2>1. /\ UNCHANGED <<requests, replies, broken, started>>
          /\ \/ agent' = agent
             \/ Running(e) /\ agent' = [agent EXCEPT ![e] = "gone"]
      BY <1>7 DEF AgentDies, StarterExpires, PipeEnds, pipes, procs
    <2>2. \A f \in Epochs : agent'[f] = agent[f] \/ (Running(f) /\ agent'[f] = "gone")
      BY <1>1, <2>1
    <2> QED BY <2>1, <2>2 DEF AgentInv, Running
  <1>8. ASSUME NEW c \in Calls, CallFault(c)
        PROVE  AgentInv'
    <2>1. mine[c] \in Nat /\ mine[c] <= started /\ repl \in Nat /\ repl <= started
      BY <1>1 DEF EpochInv
    <2>2. CASE PipeFault(c)
      BY <1>2, <2>1, <2>2 DEF PipeFault, pipes, procs
    <2>3. CASE WarmupFault(c)
      BY <1>2, <2>1, <2>3 DEF WarmupFault, MayBeReply, TakeReply, pipes
    <2>4. CASE WriteFault(c)
      BY <1>2, <2>1, <2>4 DEF WriteFault, MayArrive, Ask, pipes
    <2>5. CASE ReadFault(c)
      BY <1>2, <2>1, <2>5 DEF ReadFault, MayBeReply, TakeReply, pipes
    <2> QED BY <1>8, <2>2, <2>3, <2>4, <2>5 DEF CallFault
  <1>9. CASE ByeFault \/ ByeReplyFault \/ Stall
    <2>1. target \in Nat /\ target <= started
      BY <1>1 DEF EpochInv
    <2> QED BY <1>2, <1>9, <2>1
        DEF ByeFault, ByeReplyFault, MayBeReply, TakeReply, Stall, pipes, procs
  <1> QED BY <1>3, <1>4, <1>5, <1>6, <1>7, <1>8, <1>9 DEF Next, Fault

\* Waiting ends with the step that takes the reply, or with the agent.
LEMMA CallFlight ==
    ASSUME TypeOK, LockInv, EpochInv, AgentInv, DeadInv, StepInv, RanInv, NEW c \in Calls, CallStep(c)
    PROVE  StepInv'
  <1> SUFFICES ASSUME NEW e \in Epochs PROVE Live(e)' => InFlight(e)'
    BY DEF StepInv
  <1>1. /\ requests \in [Epochs -> Seq(Ids)] /\ replies \in [Epochs -> Seq(Reply)]
        /\ agent \in [Epochs -> {"none", "up", "old", "gone"}]
        /\ pc \in [Calls -> Places] /\ mine \in [Calls -> 0..MaxEpochs]
        /\ repl \in 0..MaxEpochs /\ started \in 0..MaxEpochs /\ MaxEpochs \in Nat
        /\ "warmup" \notin Calls /\ "bye" \notin Calls /\ Nobody \notin Calls
    BY BoundsAssumption, NamesAssumption DEF TypeOK, Places
  <1>2. CASE Begin(c) \/ PipeFails(c) \/ Lock(c) \/ WriteFails(c)
    <2>1. /\ UNCHANGED <<requests, replies, agent, ran, repl, closer, target, failed>>
          /\ \E p \in {"lock", "pipe", "write", "done"} : pc' = [pc EXCEPT ![c] = p]
          /\ \A d \in Calls \ {c} : mine'[d] = mine[d]
          /\ pc[c] \in {"new", "pipe", "lock", "write"}
      BY <1>1, <1>2 DEF Begin, PipeFails, Lock, CanLock, WriteFails, Return, locks, close, procs,
          faults
    <2>2. \A id \in Ids : Expected(id, e) => Expected(id, e)'
      BY <1>1, <2>1 DEF Expected, Abandoned, Waiting
    <2> QED BY <2>1, <2>2, FlightKept
  <1>3. CASE StartPipe(c)
    <2>1. /\ UNCHANGED <<replies, ran, mine, closer, target, broken, failed>> /\ ~broken
          /\ pc[c] = "pipe" /\ pc' = [pc EXCEPT ![c] = "warmup"]
          /\ repl' = started + 1 /\ started + 1 \in Epochs
          /\ \E v \in {"up", "old"} : agent' = [agent EXCEPT ![started + 1] = v]
          /\ Ask(started + 1, "warmup")
      <3>1. started + 1 \in Epochs
        BY <1>1, <1>3 DEF StartPipe, Epochs
      <3>2. \E v \in {"up", "old"} : agent' = [agent EXCEPT ![started + 1] = v]
        BY <1>3 DEF StartPipe
      <3> QED BY <1>3, <3>1, <3>2 DEF StartPipe, close, faults
    <2>2. repl = 0
      BY <2>1 DEF EpochInv
    <2>3. CASE e = started + 1
      <3>1. requests[e] = <<>> /\ replies[e] = <<>>
        BY <1>1, <2>3 DEF AgentInv
      <3>2. requests'[e] = <<"warmup">>
        BY <1>1, <2>1, <2>3, <3>1 DEF Ask
      <3>3. Asked("warmup", e)' /\ Expected("warmup", e)'
        BY <1>1, <2>1, <2>3, <3>1, <3>2 DEF Asked, Expected, Waiting
      <3> QED BY <3>3 DEF InFlight, Ids
    <2>4. CASE e # started + 1
      <3>1. \A id \in Ids : Expected(id, e) => Expected(id, e)'
        BY <1>1, <2>1, <2>2 DEF Expected, Abandoned, Waiting, Epochs
      <3>2. /\ requests'[e] = requests[e] /\ replies'[e] = replies[e]
            /\ agent'[e] = agent[e] /\ ran' = ran
        BY <1>1, <2>1, <2>4 DEF Ask
      <3> QED BY <3>1, <3>2, FlightKept
    <2> QED BY <2>3, <2>4
  <1>4. CASE WarmupAnswered(c) \/ WarmupFails(c)
    <2>1. /\ UNCHANGED <<requests, agent, ran, closer, target, failed>> /\ pc[c] = "warmup"
          /\ \E p \in {"lock", "done"} : pc' = [pc EXCEPT ![c] = p]
          /\ \A d \in Calls \ {c} : mine'[d] = mine[d]
          /\ \/ replies[repl] # <<>> /\ TakeReply(repl)
             \/ replies[repl] = <<>> /\ agent[repl] = "gone" /\ replies' = replies
      <3>1. CASE WarmupAnswered(c)
        BY <1>1, <3>1 DEF WarmupAnswered, close, faults
      <3>2. CASE WarmupFails(c)
        BY <1>1, <3>2 DEF WarmupFails, Ended, Return, close, faults
      <3> QED BY <1>4, <3>1, <3>2
    <2>2. repl \in Epochs
      BY <1>1, <2>1 DEF EpochInv, Epochs
    <2>3. CASE e = repl
      <3>1. CASE replies[e] # <<>> /\ TakeReply(e)
        BY <2>1, <2>3, <3>1, TakeStep DEF InFlight
      <3>2. CASE replies[e] = <<>> /\ agent[e] = "gone" /\ replies' = replies
        BY <2>1, <3>2 DEF Live, Running
      <3> QED BY <2>1, <2>3, <3>1, <3>2
    <2>4. CASE e # repl
      <3>1. \A id \in Ids : Expected(id, e) => Expected(id, e)'
        BY <1>1, <2>1, <2>4 DEF Expected, Abandoned, Waiting
      <3>2. replies'[e] = replies[e]
        BY <1>1, <2>1, <2>4 DEF TakeReply
      <3> QED BY <2>1, <3>1, <3>2, FlightKept
    <2> QED BY <2>3, <2>4
  <1>5. CASE Write(c)
    <2>1. /\ UNCHANGED <<replies, agent, ran, repl, mine, closer, target, failed>>
          /\ pc[c] = "write" /\ pc' = [pc EXCEPT ![c] = "read"] /\ Ask(mine[c], c)
      BY <1>5 DEF Write, locks, close, faults
    <2>2. CASE e = mine[c]
      <3>1. \A id \in Ids : ~Expected(id, e)
        <4>1. \A id \in Ids : Expected(id, e) => id = c
          BY <2>1, <2>2, OneWaits
        <4>2. ~Expected(c, e)
          BY <1>1, <2>1 DEF Expected, Abandoned, Waiting
        <4> QED BY <4>1, <4>2
      <3>2. Expected(c, e)' /\ c \in Ids /\ ran[c] = 0
        BY <1>1, <2>1, <2>2 DEF Expected, Abandoned, Waiting, Ids, RanInv
      <3> QED BY <2>1, <2>2, <3>1, <3>2, AskStep
    <2>3. CASE e # mine[c]
      <3>1. \A id \in Ids : Expected(id, e) => Expected(id, e)'
        BY <1>1, <2>1 DEF Expected, Abandoned, Waiting
      <3>2. requests'[e] = requests[e]
        BY <1>1, <2>1, <2>3 DEF Ask
      <3> QED BY <2>1, <3>1, <3>2, FlightKept
    <2> QED BY <2>2, <2>3
  <1>6. CASE ReadReply(c) \/ ReadFails(c)
    <2>1. /\ UNCHANGED <<requests, agent, ran, repl, mine, closer, target, failed>>
          /\ pc[c] = "read" /\ pc' = [pc EXCEPT ![c] = "done"]
          /\ \/ replies[mine[c]] # <<>> /\ TakeReply(mine[c])
             \/ replies[mine[c]] = <<>> /\ agent[mine[c]] = "gone" /\ replies' = replies
      BY <1>6 DEF ReadReply, ReadFails, Ended, Return, close, procs, faults
    <2>2. CASE e = mine[c]
      <3>1. CASE replies[e] # <<>> /\ TakeReply(e)
        BY <2>1, <2>2, <3>1, TakeStep DEF InFlight
      <3>2. CASE replies[e] = <<>> /\ agent[e] = "gone" /\ replies' = replies
        BY <2>1, <3>2 DEF Live, Running
      <3> QED BY <2>1, <2>2, <3>1, <3>2
    <2>3. CASE e # mine[c]
      <3>1. \A id \in Ids : Expected(id, e) => Expected(id, e)'
        BY <1>1, <2>1, <2>3 DEF Expected, Abandoned, Waiting
      <3>2. replies'[e] = replies[e]
        BY <1>1, <2>1, <2>3 DEF TakeReply
      <3> QED BY <2>1, <3>1, <3>2, FlightKept
    <2> QED BY <2>2, <2>3
  <1> QED BY <1>2, <1>3, <1>4, <1>5, <1>6 DEF CallStep

\* The same for the steps of Close.
LEMMA CloseFlight ==
    ASSUME TypeOK, LockInv, EpochInv, AgentInv, DeadInv, StepInv, CloseBegins \/ CloseStep
    PROVE  StepInv'
  <1> SUFFICES ASSUME NEW e \in Epochs PROVE Live(e)' => InFlight(e)'
    BY DEF StepInv
  <1>1. /\ requests \in [Epochs -> Seq(Ids)] /\ replies \in [Epochs -> Seq(Reply)]
        /\ target \in 0..MaxEpochs /\ Nobody \notin Calls
    BY NamesAssumption DEF TypeOK
  <1>2. CASE CloseTakes
    <2>1. /\ UNCHANGED <<requests, replies, agent, ran, pc, mine, failed>> /\ closer = "begun"
          /\ initMu = Nobody
      BY <1>2 DEF CloseTakes, calls, procs, faults
    <2>2. \A id \in Ids : Expected(id, e) => Expected(id, e)'
      BY <1>1, <2>1 DEF Expected, Abandoned, Waiting, LockInv
    <2> QED BY <2>1, <2>2, FlightKept
  <1>3. CASE CloseBegins \/ CloseReturns
    <2>1. /\ UNCHANGED <<requests, replies, agent, ran, pc, mine, repl, target, failed>>
          /\ closer # "bye"
      BY <1>3 DEF CloseBegins, CloseReturns, locks, calls, procs, faults
    <2>2. \A id \in Ids : Expected(id, e) => Expected(id, e)'
      BY <2>1 DEF Expected, Abandoned, Waiting
    <2> QED BY <2>1, <2>2, FlightKept
  <1>4. CASE CloseLocks
    <2>1. /\ UNCHANGED <<replies, agent, ran, pc, mine, repl, target, failed>>
          /\ closer = "lock" /\ callMu[target] = Nobody
          /\ \/ requests' = requests
             \/ ~closed[target] /\ closer' = "bye" /\ Ask(target, "bye")
      BY <1>4 DEF CloseLocks, SendBye, calls, faults
    <2>2. \A id \in Ids : Expected(id, e) => Expected(id, e)'
      BY <2>1 DEF Expected, Abandoned, Waiting
    <2>3. CASE requests' = requests
      BY <2>1, <2>2, <2>3, FlightKept
    <2>4. CASE ~closed[target] /\ closer' = "bye" /\ Ask(target, "bye") /\ e = target
      <3>1. \A id \in Ids : ~Expected(id, e)
        BY <2>1, <2>4, OneWaits
      <3>2. Expected("bye", e)' /\ "bye" \in Ids /\ "bye" \notin Calls
        BY <2>1, <2>4, NamesAssumption DEF Expected, Abandoned, Waiting, Ids
      <3> QED BY <2>1, <2>4, <3>1, <3>2, AskStep
    <2>5. CASE Ask(target, "bye") /\ e # target
      <3>1. requests'[e] = requests[e]
        BY <1>1, <2>5 DEF Ask
      <3> QED BY <2>1, <2>2, <3>1, FlightKept
    <2> QED BY <2>1, <2>3, <2>4, <2>5
  <1>5. CASE CloseReads
    <2>1. /\ UNCHANGED <<requests, agent, ran, pc, mine, repl, target, failed>> /\ closer = "bye"
          /\ \/ replies[target] # <<>> /\ TakeReply(target)
             \/ replies[target] = <<>> /\ agent[target] = "gone" /\ replies' = replies
      BY <1>5 DEF CloseReads, Ended, calls, faults
    <2>2. CASE e = target
      <3>1. CASE replies[e] # <<>> /\ TakeReply(e)
        BY <2>1, <2>2, <3>1, TakeStep DEF InFlight
      <3>2. CASE replies[e] = <<>> /\ agent[e] = "gone" /\ replies' = replies
        BY <2>1, <3>2 DEF Live, Running
      <3> QED BY <2>1, <2>2, <3>1, <3>2
    <2>3. CASE e # target
      <3>1. \A id \in Ids : Expected(id, e) => Expected(id, e)'
        BY <2>1, <2>3 DEF Expected, Abandoned, Waiting
      <3>2. replies'[e] = replies[e]
        BY <1>1, <2>1, <2>3 DEF TakeReply
      <3> QED BY <2>1, <3>1, <3>2, FlightKept
    <2> QED BY <2>2, <2>3
  <1>6. CASE CloseDrains
    <2>1. /\ UNCHANGED <<requests, agent, ran, pc, mine, repl, closer, target, failed>>
          /\ replies[target] # <<>> /\ TakeReply(target)
      BY <1>6 DEF CloseDrains, locks, calls, close, faults
    <2>2. CASE e = target
      BY <2>1, <2>2, TakeStep DEF InFlight
    <2>3. CASE e # target
      <3>1. \A id \in Ids : Expected(id, e) => Expected(id, e)'
        BY <2>1 DEF Expected, Abandoned, Waiting
      <3>2. replies'[e] = replies[e]
        BY <1>1, <2>1, <2>3 DEF TakeReply
      <3> QED BY <2>1, <3>1, <3>2, FlightKept
    <2> QED BY <2>2, <2>3
  <1> QED BY <1>2, <1>3, <1>4, <1>5, <1>6 DEF CloseStep

\* A fault leaves what is in flight, or takes it away, or leaves a request that
\* nobody waits for.
LEMMA FaultFlight ==
    ASSUME TypeOK, LockInv, EpochInv, AgentInv, DeadInv, StepInv, RanInv, Fault
    PROVE  StepInv'
  <1> SUFFICES ASSUME NEW e \in Epochs PROVE Live(e)' => InFlight(e)'
    BY DEF StepInv
  <1>1. /\ requests \in [Epochs -> Seq(Ids)] /\ replies \in [Epochs -> Seq(Reply)]
        /\ pc \in [Calls -> Places] /\ mine \in [Calls -> 0..MaxEpochs]
        /\ repl \in 0..MaxEpochs /\ target \in 0..MaxEpochs /\ MaxEpochs \in Nat
        /\ "warmup" \notin Calls /\ "bye" \notin Calls /\ failed \subseteq Epochs
    BY BoundsAssumption, NamesAssumption DEF TypeOK, Places
  <1>2. ASSUME NEW f \in Epochs, MayBeReply(f), UNCHANGED <<requests, agent, ran>>,
               \A id \in Ids : Expected(id, e) => Expected(id, e)'
        PROVE  Live(e)' => InFlight(e)'
    <2>1. CASE replies' = replies
      BY <1>2, <2>1, FlightKept
    <2>2. CASE replies[f] # <<>> /\ TakeReply(f) /\ e = f
      BY <1>2, <2>2, TakeStep DEF InFlight
    <2>3. CASE replies[f] # <<>> /\ TakeReply(f) /\ e # f
      <3>1. replies'[e] = replies[e]
        BY <1>1, <2>3 DEF TakeReply
      <3> QED BY <1>2, <3>1, FlightKept
    <2> QED BY <1>2, <2>1, <2>2, <2>3 DEF MayBeReply
  <1>3. ASSUME NEW c \in Calls, PipeFault(c)
        PROVE  Live(e)' => InFlight(e)'
    <2>1. /\ UNCHANGED <<requests, replies, agent, ran, repl, mine, closer, target, failed>>
          /\ pc[c] = "pipe" /\ pc' = [pc EXCEPT ![c] = "done"]
      BY <1>3 DEF PipeFault, Return, close, procs, faults
    <2>2. \A id \in Ids : Expected(id, e) => Expected(id, e)'
      BY <1>1, <2>1 DEF Expected, Abandoned, Waiting
    <2> QED BY <2>1, <2>2, FlightKept
  <1>4. ASSUME NEW c \in Calls, WarmupFault(c)
        PROVE  Live(e)' => InFlight(e)'
    <2>1. /\ UNCHANGED <<requests, agent, ran, mine, closer, target>> /\ MayBeReply(repl)
          /\ pc[c] = "warmup" /\ pc' = [pc EXCEPT ![c] = "done"]
          /\ repl' = 0 /\ failed' = failed \cup {repl}
      BY <1>4 DEF WarmupFault, Fail, Return, close
    <2>2. \A id \in Ids : Expected(id, e) => Expected(id, e)'
      BY <1>1, <2>1 DEF Expected, Abandoned, Waiting
    <2>3. repl \in Epochs
      BY <1>1, <2>1 DEF EpochInv, Epochs
    <2> QED BY <1>2, <2>1, <2>2, <2>3
  <1>5. ASSUME NEW c \in Calls, ReadFault(c)
        PROVE  Live(e)' => InFlight(e)'
    <2>1. /\ UNCHANGED <<requests, agent, ran, repl, mine, closer, target>>
          /\ pc[c] = "read" /\ pc' = [pc EXCEPT ![c] = "done"] /\ MayBeReply(mine[c])
          /\ failed' = failed \cup {mine[c]}
      BY <1>5 DEF ReadFault, Fail, Return, close
    <2>2. \A id \in Ids : Expected(id, e) => Expected(id, e)'
      BY <1>1, <2>1 DEF Expected, Abandoned, Waiting
    <2>3. mine[c] \in Epochs
      BY <1>1, <2>1 DEF EpochInv, Epochs
    <2> QED BY <1>2, <2>1, <2>2, <2>3
  <1>6. ASSUME NEW c \in Calls, WriteFault(c)
        PROVE  Live(e)' => InFlight(e)'
    <2>1. /\ UNCHANGED <<replies, agent, ran, repl, mine, closer, target>>
          /\ pc[c] = "write" /\ pc' = [pc EXCEPT ![c] = "done"] /\ MayArrive(mine[c], c)
          /\ failed' = failed \cup {mine[c]}
      BY <1>6 DEF WriteFault, Fail, Return, close
    <2>2. \A id \in Ids : Expected(id, e) => Expected(id, e)'
      BY <1>1, <2>1 DEF Expected, Abandoned, Waiting
    <2>3. CASE requests' = requests
      BY <2>1, <2>2, <2>3, FlightKept
    <2>4. CASE Ask(mine[c], c) /\ e # mine[c]
      <3>1. requests'[e] = requests[e]
        BY <1>1, <2>4 DEF Ask
      <3> QED BY <2>1, <2>2, <3>1, FlightKept
    <2>5. CASE Ask(mine[c], c) /\ e = mine[c]
      <3>1. \A id \in Ids : ~Expected(id, e)
        <4>1. \A id \in Ids : Expected(id, e) => id = c
          BY <2>1, <2>5, OneWaits
        <4>2. ~Expected(c, e)
          BY <1>1, <2>1 DEF Expected, Abandoned, Waiting
        <4> QED BY <4>1, <4>2
      <3>2. Expected(c, e)' /\ c \in Ids /\ ran[c] = 0
        BY <1>1, <2>1, <2>5 DEF Expected, Abandoned, Ids, RanInv
      <3> QED BY <2>1, <2>5, <3>1, <3>2, AskStep
    <2> QED BY <2>1, <2>3, <2>4, <2>5 DEF MayArrive
  <1>7. CASE ByeFault
    <2>1. /\ UNCHANGED <<requests, replies, agent, ran, repl, pc, mine, target>>
          /\ closer = "lock" /\ failed \subseteq failed'
      BY <1>7 DEF ByeFault, Fail, calls, procs
    <2>2. \A id \in Ids : Expected(id, e) => Expected(id, e)'
      BY <1>1, <2>1 DEF Expected, Abandoned, Waiting
    <2> QED BY <2>1, <2>2, FlightKept
  <1>8. CASE ByeReplyFault
    <2>1. /\ UNCHANGED <<requests, agent, ran, repl, pc, mine, target>>
          /\ closer = "bye" /\ MayBeReply(target) /\ failed' = failed \cup {target}
      BY <1>8 DEF ByeReplyFault, Fail, calls
    <2>2. \A id \in Ids : Expected(id, e) => Expected(id, e)'
      BY <1>1, <2>1 DEF Expected, Abandoned, Waiting
    <2>3. target \in Epochs
      BY <1>1, <2>1 DEF EpochInv, Epochs
    <2> QED BY <1>2, <2>1, <2>2, <2>3
  <1> QED BY <1>3, <1>4, <1>5, <1>6, <1>7, <1>8 DEF Fault, CallFault

\* An agent answers the one request that it has, and has run the operation by
\* then if it says so.
LEMMA ServeFlight ==
    ASSUME TypeOK, LockInv, EpochInv, DeadInv, StepInv, NEW a \in Epochs, AgentServes(a)
    PROVE  /\ StepInv'
           /\ \E id \in Ids : Expected(id, a) /\ Asked(id, a)
                 /\ \A c \in Calls : ran'[c] = ran[c] \/ (c = id /\ ran'[c] = 1)
  <1>1. /\ requests \in [Epochs -> Seq(Ids)] /\ replies \in [Epochs -> Seq(Reply)]
        /\ agent \in [Epochs -> {"none", "up", "old", "gone"}] /\ ran \in [Calls -> Nat]
    BY DEF TypeOK
  <1>2. PICK id \in Ids : Expected(id, a) /\ Asked(id, a)
    BY DEF AgentServes, StepInv, Live, InFlight, Answered
  <1>3. requests[a] = <<id>> /\ Head(requests[a]) = id /\ Tail(requests[a]) = <<>>
    BY <1>2 DEF Asked
  <1>4. PICK ok \in BOOLEAN :
           /\ replies' = [replies EXCEPT ![a] = Append(@, [id |-> id, ok |-> ok])]
           /\ agent' = [agent EXCEPT ![a] = IF id = "bye" THEN "gone" ELSE @]
           /\ ran' = [c \in Calls |-> ran[c] + (IF ok /\ c = id THEN 1 ELSE 0)]
    BY <1>3 DEF AgentServes
  <1>5. requests' = [requests EXCEPT ![a] = <<>>] /\ UNCHANGED <<pc, mine, repl, closer, target, failed>>
    BY <1>3 DEF AgentServes, locks, calls, close, faults
  <1>6. \A i \in Ids, e \in Epochs : Expected(i, e) => Expected(i, e)'
    BY <1>5 DEF Expected, Abandoned, Waiting
  <1>7. \A c \in Calls : ran'[c] = IF ok /\ c = id THEN ran[c] + 1 ELSE ran[c]
    BY <1>1, <1>4
  <1>8. id \in Calls => ran[id] = 0
    BY <1>2 DEF Asked
  <1>9. InFlight(a)'
    <2>1. requests'[a] = <<>> /\ replies'[a] = <<[id |-> id, ok |-> ok]>>
      <3>1. replies[a] = <<>>
        BY <1>2 DEF Asked
      <3> QED BY <1>1, <1>4, <1>5, <3>1
    <2>2. Answered(id, ok, a)'
      BY <1>7, <1>8, <2>1 DEF Answered
    <2> QED BY <1>2, <1>6, <2>2 DEF InFlight
  <1>10. ASSUME NEW e \in Epochs, e # a
         PROVE  Live(e)' => InFlight(e)'
    <2>1. /\ requests'[e] = requests[e] /\ replies'[e] = replies[e] /\ agent'[e] = agent[e]
      BY <1>1, <1>4, <1>5, <1>10
    <2>2. \A i \in Ids : Expected(i, e) => (i \in Calls => ran'[i] = ran[i])
      <3> SUFFICES ASSUME NEW i \in Ids, Expected(i, e), i \in Calls PROVE i # id
        BY <1>7
      <3> QED BY <1>2, <1>10, NamesAssumption DEF Expected, Abandoned, Waiting
    <2> QED BY <1>6, <2>1, <2>2, FlightKept
  <1>11. StepInv'
    BY <1>9, <1>10 DEF StepInv
  <1> QED BY <1>2, <1>7, <1>8, <1>11

\* A death or the end of a Pipe takes no message away.
LEMMA FlightStep ==
    ASSUME TypeOK, LockInv, EpochInv, AgentInv, DeadInv, StepInv, RanInv, Next
    PROVE  StepInv'
  <1>1. agent \in [Epochs -> {"none", "up", "old", "gone"}]
    BY DEF TypeOK
  <1>2. CASE ChannelBreaks \/ Stall \/ \E a \in Epochs : AgentDies(a) \/ StarterExpires(a) \/ PipeEnds(a)
    <2>1. UNCHANGED <<requests, replies, ran, pc, mine, repl, closer, target, failed>>
      BY <1>2 DEF ChannelBreaks, Stall, AgentDies, StarterExpires, PipeEnds, locks, calls, close, procs,
          faults
    <2>2. \A e \in Epochs : agent'[e] \in {agent[e], "gone"}
      BY <1>1, <1>2 DEF ChannelBreaks, Stall, AgentDies, StarterExpires, PipeEnds, procs
    <2>3. \A id \in Ids, e \in Epochs : Expected(id, e) => Expected(id, e)'
      BY <2>1 DEF Expected, Abandoned, Waiting
    <2>4. \A e \in Epochs : Live(e)' => InFlight(e)'
      BY <2>1, <2>2, <2>3, FlightKept
    <2> QED BY <2>4 DEF StepInv
  <1> QED BY <1>2, CallFlight, CloseFlight, ServeFlight, FaultFlight DEF Next

\* What an operation reports, and how often it took effect.
LEMMA ResultStep ==
    ASSUME TypeOK, LockInv, EpochInv, DeadInv, StepInv, RanInv, RepliesInStep, Next
    PROVE  RanInv' /\ RepliesInStep'
  <1>1. /\ pc \in [Calls -> Places] /\ res \in [Calls -> Outcomes] /\ ran \in [Calls -> Nat]
        /\ mine \in [Calls -> 0..MaxEpochs]
    BY DEF TypeOK, Places, Outcomes
  <1>2. ASSUME NEW c \in Calls, CallStep(c) \/ CallFault(c), ~ReadReply(c)
        PROVE  RanInv' /\ RepliesInStep'
    <2>1. /\ ran' = ran /\ pc[c] # "done"
          /\ \/ \E p \in Places \ {"done"} : pc' = [pc EXCEPT ![c] = p] /\ res' = res
             \/ pc' = [pc EXCEPT ![c] = "done"] /\ res' = [res EXCEPT ![c] = "error"]
      BY <1>1, <1>2
      DEF CallStep, Begin, StartPipe, PipeFails, WarmupAnswered, WarmupFails, CanLock, Lock,
          Write, WriteFails, ReadFails, CallFault, PipeFault, WarmupFault, WriteFault, ReadFault,
          Return, Places, procs
    <2>2. pc'[c] \notin {"read", "done"} => pc[c] \notin {"read", "done"}
      BY <1>1, <1>2
      DEF CallStep, Begin, StartPipe, PipeFails, WarmupAnswered, WarmupFails, CanLock, Lock,
          Write, WriteFails, ReadFails, CallFault, PipeFault, WarmupFault, WriteFault, ReadFault,
          Return
    <2>3. RanInv'
      BY <1>1, <2>1, <2>2 DEF RanInv
    <2>4. RepliesInStep'
      BY <1>1, <2>1 DEF RepliesInStep
    <2> QED BY <2>3, <2>4
  <1>3. ASSUME NEW c \in Calls, ReadReply(c)
        PROVE  RanInv' /\ RepliesInStep'
    <2>1. /\ ran' = ran /\ pc[c] = "read" /\ pc' = [pc EXCEPT ![c] = "done"]
          /\ replies[mine[c]] # <<>> /\ TakeReply(mine[c])
          /\ res' = [res EXCEPT ![c] = IF Head(replies[mine[c]]).id # c THEN "mismatch"
                                       ELSE IF Head(replies[mine[c]]).ok THEN "ok" ELSE "error"]
      BY <1>3 DEF ReadReply, Return
    <2>2. mine[c] \in Epochs /\ c \in Ids
      BY <1>1, <2>1, BoundsAssumption DEF EpochInv, Epochs, Ids
    <2>3. /\ Head(replies[mine[c]]).id = c
          /\ Head(replies[mine[c]]).ok => ran[c] = 1
      <3>1. ASSUME NEW e \in Epochs, e = mine[c]
            PROVE  Head(replies[e]).id = c /\ (Head(replies[e]).ok => ran[c] = 1)
        <4>1. \A id \in Ids : Expected(id, e) => id = c
          BY <2>1, <3>1, OneWaits
        <4>2. replies[e] # <<>> /\ TakeReply(e)
          BY <2>1, <3>1
        <4>3. PICK id \in Ids, ok \in BOOLEAN :
                 /\ Expected(id, e) /\ Head(replies[e]) = [id |-> id, ok |-> ok]
                 /\ id \in Calls /\ ok => ran[id] = 1
          BY <4>2, TakeStep
        <4>4. id = c
          BY <4>1, <4>3
        <4> QED BY <4>3, <4>4
      <3> QED BY <2>2, <3>1
    <2>4. RanInv'
      BY <1>1, <2>1 DEF RanInv
    <2>5. RepliesInStep'
      BY <1>1, <2>1, <2>3 DEF RepliesInStep
    <2> QED BY <2>4, <2>5
  <1>4. ASSUME NEW a \in Epochs, AgentServes(a)
        PROVE  RanInv' /\ RepliesInStep'
    <2>1. UNCHANGED <<pc, res>>
      BY <1>4 DEF AgentServes, calls
    <2>2. PICK id \in Ids : /\ Expected(id, a) /\ Asked(id, a)
                            /\ \A c \in Calls : ran'[c] = ran[c] \/ (c = id /\ ran'[c] = 1)
      BY <1>4, ServeFlight
    <2>3. id \in Calls => pc[id] \in {"read", "done"} /\ ran[id] = 0
      BY <2>2, NamesAssumption DEF Expected, Abandoned, Waiting, Asked
    <2>4. RanInv'
      BY <2>1, <2>2, <2>3 DEF RanInv
    <2>5. RepliesInStep'
      BY <2>1, <2>2, <2>3 DEF RepliesInStep
    <2> QED BY <2>4, <2>5
  <1>5. CASE UNCHANGED <<pc, res, ran>>
    BY <1>5 DEF RanInv, RepliesInStep
  <1> QED BY <1>2, <1>3, <1>4, <1>5
      DEF Next, Fault, CloseStep, CloseTakes, CloseBegins, CloseLocks, CloseReads, CloseDrains,
          CloseReturns, ByeFault, ByeReplyFault, Stall, ChannelBreaks, AgentDies, StarterExpires,
          PipeEnds, calls, procs

-----------------------------------------------------------------------------
(* The theorems.                                                           *)

\* No agent runs to begin with.
LEMMA InitIInv == Init => IInv
  <1> SUFFICES ASSUME Init PROVE IInv
    OBVIOUS
  <1> USE NamesAssumption, BoundsAssumption DEF Init
  <1>1. TypeOK
    <2>1. <<>> \in Seq(Ids) /\ <<>> \in Seq(Reply)
      OBVIOUS
    <2>2. /\ requests \in [Epochs -> Seq(Ids)] /\ replies \in [Epochs -> Seq(Reply)]
      BY <2>1
    <2>3. /\ callMu \in [Epochs -> Calls \cup {Closer, Nobody}]
          /\ starter \in [Epochs -> Calls \cup {Nobody}]
          /\ mine \in [Calls -> 0..MaxEpochs]
      OBVIOUS
    <2>4. /\ repl \in 0..MaxEpochs /\ target \in 0..MaxEpochs
          /\ lease \in 0..MaxEpochs /\ started \in 0..MaxEpochs
      OBVIOUS
    <2> QED BY <2>2, <2>3, <2>4 DEF TypeOK
  <1>2. LockInv /\ EpochInv /\ DeadInv
    BY DEF LockInv, EpochInv, DeadInv
  <1>3. AgentInv /\ StepInv
    BY DEF AgentInv, StepInv, Live, InFlight, Running
  <1>4. RanInv /\ RepliesInStep
    BY DEF RanInv, RepliesInStep
  <1> QED BY <1>1, <1>2, <1>3, <1>4 DEF IInv

\* The invariant is inductive.
LEMMA NextIInv == IInv /\ [Next]_vars => IInv'
  <1> SUFFICES ASSUME IInv, [Next]_vars PROVE IInv'
    OBVIOUS
  <1>1. CASE Next
    <2>1. TypeOK'
      BY <1>1, LocalTypes, AgentTypes, FaultTypes DEF IInv, TypeOK, Places, Outcomes, Holders
    <2> QED BY <1>1, <2>1, LockStep, EpochStep, AgentStep, DeadStep, FlightStep, ResultStep
        DEF IInv
  <1>2. CASE UNCHANGED vars
    <2> USE <1>2 DEF IInv, vars, locks, calls, close, pipes, procs, faults
    <2>1. TypeOK'
      BY DEF TypeOK
    <2>2. LockInv' /\ EpochInv' /\ DeadInv'
      BY DEF LockInv, EpochInv, DeadInv, Dead
    <2>3. AgentInv' /\ RanInv' /\ RepliesInStep'
      BY DEF AgentInv, Running, RanInv, RepliesInStep
    <2>4. \A e \in Epochs : Live(e)' => InFlight(e)'
      BY FlightKept DEF Expected, Abandoned, Waiting
    <2> QED BY <2>1, <2>2, <2>3, <2>4 DEF StepInv
  <1> QED BY <1>1, <1>2

\* The types of every variable of the REPL transport.
THEOREM TypeCorrect == Spec => []TypeOK
  <1>1. IInv => TypeOK
    BY DEF IInv
  <1> QED BY <1>1, InitIInv, NextIInv, PTL DEF Spec

\* Any number of operations share one agent after the other: the reply that
\* callREPL reads is always that of its own request, through Close, agents that
\* die, writes and reads that fail though the agent lives, and channels that stall
\* and break; and an operation takes effect once at most.
THEOREM InStep == Spec => []RepliesInStep
  <1>1. IInv => RepliesInStep
    BY DEF IInv
  <1> QED BY <1>1, InitIInv, NextIInv, PTL DEF Spec
=============================================================================
