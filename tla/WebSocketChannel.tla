-------------------------- MODULE WebSocketChannel --------------------------
(***************************************************************************)
(* pkg/channel/websocket/websocket.go: a Channel on one WebSocket          *)
(* connection at a time, with opt-in reconnect.                            *)
(*                                                                         *)
(* The goroutines: the pump (readPump), one keepalive per connection, one  *)
(* reader (a Channel is read sequentially: Caps.Concurrent is false),      *)
(* writers serialised by writeMu, and the caller of Close.  Connections    *)
(* are numbered in the order in which they were dialed.  Message i of      *)
(* connection g stands for the payload of one frame.  A region of code     *)
(* under readMu is one step, except the swap of c.conn: the pump waits for *)
(* writeMu there while it holds readMu.                                    *)
(***************************************************************************)
EXTENDS Integers, Sequences, FiniteSets

CONSTANTS
    Setups,         \* the Options of Dial, each with a bound (conns) of the
                    \* connections that can be established
    MaxConns,       \* bound: that of all setups
    MaxMsgs,        \* bound: messages the peer sends on one connection
    MayGarble,      \* may Options.Decode reject a frame?
    MayHang         \* may the peer fall silent without closing (half-open)?

ASSUME OptionsAssumption ==
    /\ MaxConns \in Nat \ {0} /\ MaxMsgs \in Nat
    /\ Setups \subseteq [reconnect : BOOLEAN, maxReconnects : Nat, keepalive : BOOLEAN,
                         conns : 1..MaxConns]
    /\ MayGarble \in BOOLEAN /\ MayHang \in BOOLEAN

Conns == 1..MaxConns

VARIABLES
    \* Options: Reconnect; MaxReconnects, 0 is "no cap"; is PingInterval positive?
    opts,
    \* the Channel
    conn, buf, readErr, pending, remaining, closed,
    \* the pump: where it is, the message or error it carries, the new conn
    pump, item, why, newConn,
    \* the reader, the connection that holds writeMu (0 when it is free), the
    \* keepalive goroutines, and the progress of Close
    rd, writing, pinging, closer,
    \* the connections: what the peer has done, which ones were closed on this
    \* side, how many messages were sent and how many ReadMessage returned
    net, shut, sent, taken,
    \* history: the reconnects that Read has reported
    reported

chan == <<opts, conn, buf, readErr, pending, remaining, closed>>
pmp  == <<pump, item, why, newConn>>
goro == <<rd, writing, pinging, closer>>
wire == <<net, shut, sent, taken>>
vars == <<chan, pmp, goro, wire, reported>>

Data(g, i) == [g |-> g, i |-> i]
Message == [g : Conns, i : 1..MaxMsgs]

\* Dial has succeeded.
Init ==
    /\ opts \in Setups
    /\ conn = 1 /\ buf = <<>> /\ readErr = "none" /\ pending = FALSE
    /\ remaining = opts.maxReconnects /\ closed = FALSE
    /\ pump = "read" /\ item = 0 /\ why = "none" /\ newConn = 0
    /\ rd = "out" /\ writing = 0 /\ closer = "open"
    /\ pinging = IF opts.keepalive THEN {1} ELSE {}
    /\ net = [g \in Conns |-> IF g = 1 THEN "up" ELSE "none"]
    /\ shut = {}
    /\ sent = [g \in Conns |-> 0] /\ taken = [g \in Conns |-> 0]
    /\ reported = <<>>

ReadMuFree == pump # "swap"
WriteMuFree == writing = 0
Broken(g) == net[g] \in {"eof", "lost"} \/ g \in shut
NoBroadcast == rd' = rd
Broadcast == rd' = IF rd = "asleep" THEN "awake" ELSE rd

-----------------------------------------------------------------------------
(* readPump.                                                               *)

\* ReadMessage returns the next message; one that has arrived can still be
\* returned after the connection is closed.
ReadMessage ==
    /\ pump = "read"
    /\ taken[conn] < sent[conn]
    /\ taken' = [taken EXCEPT ![conn] = @ + 1]
    /\ item' = taken[conn] + 1
    /\ pump' = "got"
    /\ UNCHANGED <<chan, why, newConn, goro, net, shut, sent, reported>>

\* ReadMessage fails: a close frame, a reset (which may overtake data), the
\* read deadline that only a pong moves, or Close on this side.
ReadFails ==
    /\ pump = "read"
    /\ \/ net[conn] = "eof" /\ taken[conn] = sent[conn]
       \/ net[conn] = "lost"
       \/ net[conn] = "hung" /\ opts.keepalive
       \/ conn \in shut
    /\ why' = IF net[conn] = "eof" /\ conn \notin shut THEN "EOF" ELSE "ERR"
    /\ pump' = "failed"
    /\ UNCHANGED <<chan, item, newConn, goro, wire, reported>>

Deliver ==
    /\ pump = "got"
    /\ buf' = Append(buf, Data(conn, item))
    /\ pump' = "read"
    /\ Broadcast
    /\ item' = 0
    /\ UNCHANGED <<opts, conn, readErr, pending, remaining, closed, why, newConn,
                   writing, pinging, closer, wire, reported>>

\* A frame that Decode rejects ends the pump, whatever Reconnect says.
DecodeFails ==
    /\ pump = "got" /\ MayGarble
    /\ readErr' = "ERR"
    /\ pump' = "exit"
    /\ Broadcast
    /\ item' = 0
    /\ UNCHANGED <<opts, conn, buf, pending, remaining, closed, why, newConn,
                   writing, pinging, closer, wire, reported>>

ReconnectAtZero == remaining >= 0
ShouldTryReconnect == opts.maxReconnects = 0 \/ remaining > 0

\* The sticky error of the connection, and the end of the pump.
TerminalUnannounced ==
    /\ readErr' = why
    /\ pump' = "exit" /\ why' = "none" /\ newConn' = 0
    /\ NoBroadcast
    /\ UNCHANGED <<opts, conn, buf, pending, remaining, closed, item,
                   writing, pinging, closer, wire, reported>>
Terminal ==
    /\ readErr' = why
    /\ pump' = "exit" /\ why' = "none" /\ newConn' = 0
    /\ Broadcast
    /\ UNCHANGED <<opts, conn, buf, pending, remaining, closed, item,
                   writing, pinging, closer, wire, reported>>

HandleFailure ==
    /\ pump = "failed"
    /\ \/ /\ closed
          /\ pump' = "exit"
          /\ UNCHANGED <<chan, item, why, newConn, goro, wire, reported>>
       \/ /\ ~closed /\ opts.reconnect /\ ShouldTryReconnect
          /\ pump' = "backoff"
          /\ UNCHANGED <<chan, item, why, newConn, goro, wire, reported>>
       \/ /\ ~closed /\ ~(opts.reconnect /\ ShouldTryReconnect)
          /\ Terminal

\* attemptReconnect has returned false.
GiveUp == pump = "giveup" /\ Terminal

-----------------------------------------------------------------------------
(* attemptReconnect.                                                       *)

\* A select between stopPing and the backoff timer: both may be ready.
Backoff ==
    /\ pump = "backoff"
    /\ \/ closer # "open" /\ pump' = "giveup"
       \/ pump' = "dial"
    /\ UNCHANGED <<chan, item, why, newConn, goro, wire, reported>>

\* dialWithRetry, its bounded attempts taken together.
DialSucceeds ==
    /\ pump = "dial" /\ conn < opts.conns
    /\ newConn' = conn + 1
    /\ net' = [net EXCEPT ![conn + 1] = "up"]
    /\ pump' = "dialed"
    /\ UNCHANGED <<chan, item, why, goro, shut, sent, taken, reported>>

DialFails ==
    /\ pump = "dial"
    /\ newConn' = 0
    /\ pump' = "dialed"
    /\ UNCHANGED <<chan, item, why, goro, wire, reported>>

\* Closed while dialing: the new connection is closed again.
DropNewConnLeaks ==
    /\ pump = "dialed" /\ closed
    /\ shut' = shut
    /\ pump' = "giveup"
    /\ UNCHANGED <<chan, item, why, newConn, goro, net, sent, taken, reported>>
DropNewConn ==
    /\ pump = "dialed" /\ closed
    /\ shut' = (shut \cup {newConn}) \ {0}
    /\ pump' = "giveup"
    /\ UNCHANGED <<chan, item, why, newConn, goro, net, sent, taken, reported>>

NotRedialed ==
    /\ pump = "dialed" /\ ~closed /\ newConn = 0
    /\ pump' = "giveup"
    /\ UNCHANGED <<chan, item, why, newConn, goro, wire, reported>>

\* Under readMu, which is kept: the old connection's bytes are dropped.
KeepOldBytes == buf
SpendBudget == IF opts.maxReconnects > 0 THEN remaining - 1 ELSE remaining
DropOldBytes == <<>>
RedialedUnchecked == pump = "dialed" /\ newConn # 0
Redialed == pump = "dialed" /\ ~closed /\ newConn # 0
AcceptNewConn ==
    /\ Redialed
    /\ remaining' = SpendBudget
    /\ buf' = DropOldBytes
    /\ pending' = TRUE
    /\ pump' = "swap"
    /\ UNCHANGED <<opts, conn, readErr, closed, item, why, newConn, goro, wire, reported>>

\* Under writeMu as well: c.conn changes; then readMu is released.
SwapBesideWrites == pump = "swap"
CanSwap == pump = "swap" /\ WriteMuFree
Swap ==
    /\ CanSwap
    /\ conn' = newConn
    /\ pump' = "swapped" /\ why' = "none" /\ newConn' = 0
    /\ Broadcast
    /\ UNCHANGED <<opts, buf, readErr, pending, remaining, closed, item,
                   writing, pinging, closer, wire, reported>>

\* Close the old connection, wire the new one, and go on reading.
WireConn ==
    /\ pump = "swapped"
    /\ shut' = shut \cup {conn - 1}
    /\ pinging' = IF opts.keepalive THEN pinging \cup {conn} ELSE pinging
    /\ pump' = "read"
    /\ UNCHANGED <<chan, item, why, newConn, rd, writing, closer, net, sent, taken, reported>>

-----------------------------------------------------------------------------
(* Read, Write (and Resize, which locks in the same way), Close and the    *)
(* keepalive goroutines.                                                   *)

\* A call of Read, or one that cond.Wait has woken.
Reading == rd \in {"out", "awake"} /\ ReadMuFree
MustWait == buf = <<>> /\ readErr = "none" /\ ~pending /\ ~closed

ReadWaits ==
    /\ Reading /\ MustWait
    /\ rd' = "asleep"
    /\ UNCHANGED <<chan, pmp, writing, pinging, closer, wire, reported>>

\* Up to n messages of buffered data.
ReadData(n) ==
    /\ Reading /\ n \in 1..Len(buf)
    /\ buf' = SubSeq(buf, n + 1, Len(buf))
    /\ rd' = "out"
    /\ UNCHANGED <<opts, conn, readErr, pending, remaining, closed, pmp, writing, pinging,
                   closer, wire, reported>>

SignalNotCleared == pending
SignalCleared == FALSE
ReadSignal ==
    /\ Reading /\ buf = <<>> /\ pending
    /\ reported' = Append(reported, conn)
    /\ pending' = SignalCleared
    /\ rd' = "out"
    /\ UNCHANGED <<opts, conn, buf, readErr, remaining, closed, pmp, writing, pinging, closer, wire>>

\* ErrChannelClosed, or the sticky error.
ReadEnds ==
    /\ Reading /\ buf = <<>> /\ ~pending
    /\ closed \/ readErr # "none"
    /\ rd' = "out"
    /\ UNCHANGED <<chan, pmp, writing, pinging, closer, wire, reported>>

WriteBegins ==
    /\ WriteMuFree
    /\ writing' = conn
    /\ UNCHANGED <<chan, pmp, rd, pinging, closer, wire, reported>>

\* WriteMessage returns, with or without an error.  It has no deadline: a peer
\* that has fallen silent may block it until the connection is closed.
WriteEnds ==
    /\ writing # 0
    /\ net[writing] # "hung" \/ writing \in shut
    /\ writing' = 0
    /\ UNCHANGED <<chan, pmp, rd, pinging, closer, wire, reported>>
WriteFits ==
    /\ writing # 0 /\ net[writing] = "hung"
    /\ writing' = 0
    /\ UNCHANGED <<chan, pmp, rd, pinging, closer, wire, reported>>

\* stopPing is closed, or a ping could not be written.
PingEnds(g) ==
    /\ g \in pinging
    /\ closer # "open" \/ (WriteMuFree /\ Broken(g))
    /\ pinging' = pinging \ {g}
    /\ UNCHANGED <<chan, pmp, rd, writing, closer, wire, reported>>

CloseBegins ==
    /\ closer = "open"
    /\ closer' = "stopping"
    /\ UNCHANGED <<chan, pmp, rd, writing, pinging, wire, reported>>

CloseMarks ==
    /\ closer = "stopping" /\ ReadMuFree
    /\ closed' = TRUE
    /\ closer' = "marked"
    /\ Broadcast
    /\ UNCHANGED <<opts, conn, buf, readErr, pending, remaining, pmp, writing, pinging, wire, reported>>

\* The close frame, then conn.Close, both on an unlocked read of c.conn.
CloseConn ==
    /\ closer = "marked"
    /\ shut' = shut \cup {conn}
    /\ closer' = "done"
    /\ UNCHANGED <<chan, pmp, rd, writing, pinging, net, sent, taken, reported>>

-----------------------------------------------------------------------------
(* The peers (not part of the repository).                                 *)

PeerSends(g) ==
    /\ net[g] = "up" /\ g \notin shut
    /\ sent[g] < MaxMsgs
    /\ sent' = [sent EXCEPT ![g] = @ + 1]
    /\ UNCHANGED <<chan, pmp, goro, net, shut, taken, reported>>

PeerStops(g) ==
    /\ net[g] = "up" /\ g \notin shut
    /\ \E how \in {"eof", "lost"} \cup (IF MayHang THEN {"hung"} ELSE {}) :
           net' = [net EXCEPT ![g] = how]
    /\ UNCHANGED <<chan, pmp, goro, shut, sent, taken, reported>>

-----------------------------------------------------------------------------
PumpStep ==
    \/ ReadMessage \/ ReadFails \/ Deliver \/ DecodeFails \/ HandleFailure \/ GiveUp
    \/ Backoff \/ DialSucceeds \/ DialFails
    \/ DropNewConn \/ NotRedialed \/ AcceptNewConn \/ WireConn
ReadStep ==
    \/ ReadWaits \/ ReadSignal \/ ReadEnds
    \/ \E n \in 1..Len(buf) : ReadData(n)
CloseStep == CloseMarks \/ CloseConn

Next ==
    \/ PumpStep \/ Swap \/ ReadStep
    \/ WriteBegins \/ WriteEnds \/ WriteFits
    \/ CloseBegins \/ CloseStep
    \/ \E g \in Conns : PingEnds(g) \/ PeerSends(g) \/ PeerStops(g)

Spec == Init /\ [][Next]_vars

\* Goroutines run and timers fire.  The reader takes its next step when it has
\* been woken; whether it calls Read again is its own business.  A sync.Mutex
\* that is free again and again is acquired in the end.  (A keepalive goroutine
\* ends once, so that fairness of all of them is fairness of each.)  Nothing
\* makes the peer, or a write to a silent peer, move.
Fairness ==
    /\ WF_vars(PumpStep) /\ SF_vars(Swap)
    /\ WF_vars(rd = "awake" /\ ReadStep)
    /\ WF_vars(WriteEnds) /\ WF_vars(CloseStep)
    /\ SF_vars(\E g \in Conns : PingEnds(g))
FairSpec == Spec /\ Fairness

-----------------------------------------------------------------------------
(* Correctness.                                                            *)

\* Every variable has its type; in particular the budget is never negative.
TypeOK ==
    /\ opts \in Setups /\ conn \in Conns /\ newConn \in 0..MaxConns /\ writing \in 0..MaxConns
    /\ buf \in Seq(Message) /\ reported \in Seq(Conns)
    /\ readErr \in {"none", "EOF", "ERR"} /\ why \in {"none", "EOF", "ERR"}
    /\ pending \in BOOLEAN /\ closed \in BOOLEAN
    /\ remaining \in 0..opts.maxReconnects
    /\ pump \in {"read", "got", "failed", "backoff", "dial", "dialed", "swap",
                 "swapped", "giveup", "exit"}
    /\ item \in 0..MaxMsgs
    /\ rd \in {"out", "awake", "asleep"}
    /\ pinging \subseteq Conns /\ shut \subseteq Conns
    /\ closer \in {"open", "stopping", "marked", "done"}
    /\ net \in [Conns -> {"none", "up", "hung", "eof", "lost"}]
    /\ sent \in [Conns -> 0..MaxMsgs] /\ taken \in [Conns -> 0..MaxMsgs]

\* The stream the reader sees: when a reconnect takes effect the bytes of the
\* old connection that were not read are dropped, so that data read after the
\* swap is data of the new connection.
NothingStale ==
    ReadMuFree => \A j \in 1..Len(buf) : buf[j].g = conn

\* Every stream discontinuity is charged and reported once: the budget counts
\* them, so there are never more than MaxReconnects; ErrReconnected is reported
\* at most once for each, and the report of the last is never lost: it has been
\* read, or the next Read that finds no data returns it.
ChargedAndReportedOnce ==
    /\ opts.maxReconnects > 0 =>
           remaining + (IF pump = "swap" THEN conn ELSE conn - 1) = opts.maxReconnects
    /\ \A j, k \in 1..Len(reported) : reported[j] = reported[k] => j = k
    /\ conn > 1 => pending \/ \E j \in 1..Len(reported) : reported[j] = conn

\* The swap never pulls c.conn from under a Write in progress, though Write
\* does not take readMu.
SwapExcludesWrites == writing # 0 => writing = conn

\* Close uses c.conn twice without any lock.  That is sound because c.conn is
\* final once closed is set.
ConnIsFinal == [][closed => conn' = conn]_vars

\* "Close releases all resources": a Close that is called returns, and then every
\* connection that was ever established is closed, one dialed while Close ran
\* included, and the pump and the keepalive goroutines are gone.  One thing it
\* waits for without end: the pump keeps readMu while it waits for writeMu in
\* the swap, a Write that blocks on a silent peer keeps writeMu, and only the
\* conn.Close behind readMu would end that Write.
WriteBlocked == writing # 0 /\ net[writing] = "hung" /\ writing \notin shut
SwapBlocked == pump = "swap" /\ WriteBlocked
Released ==
    /\ pump = "exit" /\ pinging = {}
    /\ \A g \in Conns : net[g] = "none" \/ g \in shut
CloseReleases ==
    []<>~SwapBlocked => (closer # "open" ~> (closer = "done" /\ Released))

\* A Read that sleeps when the connection is torn, or the channel is closed,
\* returns, unless a Write that blocks on a silent peer keeps the pump from the
\* swap.  (Otherwise, for a silent peer, it is what the comment on PingInterval
\* says: "ReadMessage fails and the Channel surfaces the error as a torn
\* connection -- much better than a half-open TCP socket where Read just blocks
\* forever".)
Torn == net[conn] \in {"eof", "lost"} \/ (net[conn] = "hung" /\ opts.keepalive)
ReadNotStranded ==
    (rd # "out" /\ (Torn \/ closer = "done")) ~> (rd = "out" \/ WriteBlocked)
=============================================================================
