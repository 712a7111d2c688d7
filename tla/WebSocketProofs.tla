--------------------------- MODULE WebSocketProofs ---------------------------
(***************************************************************************)
(* Theorems about WebSocketChannel, for any options, any number of         *)
(* connections and messages, and any peer.                                 *)
(***************************************************************************)
EXTENDS WebSocketChannel, SequenceTheorems, TLAPS

-----------------------------------------------------------------------------
(* The inductive invariant.                                                *)

\* What the pump carries: a message that is in range, a message only after it
\* was sent, and a connection one higher than that of the Channel.
PumpInv ==
    /\ pump = "got" => item \in 1..MaxMsgs
    /\ \A g \in Conns : taken[g] <= sent[g]
    /\ pump = "dialed" => newConn \in {0, conn + 1}
    /\ pump = "swap" => newConn = conn + 1
    /\ pump = "swapped" => conn > 1

\* The pump dials only with budget left, and nobody dials beside it.
BudgetInv == pump \in {"backoff", "dial", "dialed"} => ShouldTryReconnect

\* While the pump holds readMu and waits for writeMu nothing is read, no report
\* is taken and Close cannot mark the Channel.
SwapInv == pump = "swap" => buf = <<>> /\ pending /\ ~closed

\* What is reported has happened; what is pending has not been reported.
ReportInv ==
    /\ \A j \in 1..Len(reported) : reported[j] <= conn
    /\ pending /\ ReadMuFree => \A j \in 1..Len(reported) : reported[j] # conn

IInv ==
    /\ TypeOK /\ PumpInv /\ BudgetInv /\ SwapInv /\ ReportInv
    /\ NothingStale /\ ChargedAndReportedOnce /\ SwapExcludesWrites

-----------------------------------------------------------------------------
(* The steps, grouped by what they leave alone.                            *)

\* Steps of the pump that change nothing of the Channel but the sticky error.
Reconnecting ==
    \/ ReadMessage \/ ReadFails \/ DecodeFails \/ HandleFailure \/ GiveUp
    \/ Backoff \/ DialSucceeds \/ DialFails \/ DropNewConn \/ NotRedialed \/ WireConn

\* Steps of the other goroutines that change neither the pump nor the Channel.
Beside ==
    \/ ReadWaits \/ ReadEnds \/ WriteBegins \/ WriteEnds \/ WriteFits
    \/ CloseBegins \/ CloseConn
    \/ \E g \in Conns : PingEnds(g) \/ PeerSends(g) \/ PeerStops(g)

\* The other steps, one by one.
LEMMA StepKinds ==
    ASSUME Next
    PROVE  \/ Reconnecting \/ Beside
           \/ Deliver \/ AcceptNewConn \/ Swap \/ ReadSignal \/ CloseMarks
           \/ \E n \in 1..Len(buf) : ReadData(n)
  BY DEF Next, PumpStep, ReadStep, CloseStep, Reconnecting, Beside

\* The pump on its way to a new connection, or out of its loop.
LEMMA ReconnectingKeeps ==
    ASSUME Reconnecting
    PROVE  /\ UNCHANGED <<opts, conn, buf, pending, remaining, closed, writing, closer,
                          reported>>
           /\ pump # "swap" /\ pump' # "swap"
  BY DEF Reconnecting, ReadMessage, ReadFails, DecodeFails, HandleFailure, GiveUp, Terminal,
      Backoff, DialSucceeds, DialFails, DropNewConn, NotRedialed, WireConn, chan, goro, wire

\* What the other goroutines do beside it.
LEMMA BesideKeeps ==
    ASSUME Beside
    PROVE  /\ UNCHANGED <<opts, conn, buf, readErr, pending, remaining, closed, pump, item, why,
                          newConn, taken, reported>>
           /\ writing' = writing \/ writing' = conn \/ writing' = 0
  BY DEF Beside, ReadWaits, ReadEnds, WriteBegins, WriteEnds, WriteFits, CloseBegins,
      CloseConn, PingEnds, PeerSends, PeerStops, chan, pmp, goro, wire

-----------------------------------------------------------------------------
(* Each part of the invariant is preserved.                                *)

\* The types of the Channel.
LEMMA ChannelTypes ==
    ASSUME TypeOK, PumpInv, BudgetInv, Next
    PROVE  /\ opts' \in Setups /\ conn' \in Conns /\ opts' = opts
           /\ buf' \in Seq(Message) /\ pending' \in BOOLEAN /\ closed' \in BOOLEAN
           /\ remaining' \in 0..opts'.maxReconnects
           /\ reported' \in Seq(Conns)
  <1>1. /\ opts \in Setups /\ opts.maxReconnects \in Nat
        /\ conn \in Conns /\ buf \in Seq(Message) /\ reported \in Seq(Conns)
        /\ remaining \in 0..opts.maxReconnects /\ pending \in BOOLEAN /\ closed \in BOOLEAN
    BY OptionsAssumption DEF TypeOK
  <1>2. CASE Reconnecting
    BY <1>1, <1>2, ReconnectingKeeps
  <1>3. CASE Beside
    BY <1>1, <1>3, BesideKeeps
  <1>4. CASE Deliver
    <2>1. Data(conn, item) \in Message
      BY <1>1, <1>4 DEF Deliver, PumpInv, Data, Message
    <2> QED BY <1>1, <1>4, <2>1 DEF Deliver
  <1>5. CASE AcceptNewConn
    <2>1. remaining' \in 0..opts.maxReconnects
      BY <1>1, <1>5
      DEF AcceptNewConn, Redialed, SpendBudget, BudgetInv, ShouldTryReconnect
    <2> QED BY <1>1, <1>5, <2>1 DEF AcceptNewConn, DropOldBytes
  <1>6. CASE Swap
    <2>1. newConn \in Conns
      BY <1>1, <1>6 DEF Swap, CanSwap, PumpInv, TypeOK, Conns
    <2> QED BY <1>1, <1>6, <2>1 DEF Swap
  <1>7. CASE ReadSignal
    <2>1. Append(reported, conn) \in Seq(Conns)
      BY <1>1
    <2> QED BY <1>1, <1>7, <2>1 DEF ReadSignal, SignalCleared
  <1>8. CASE CloseMarks
    BY <1>1, <1>8 DEF CloseMarks
  <1>9. CASE \E n \in 1..Len(buf) : ReadData(n)
    <2>1. PICK n \in 1..Len(buf) : ReadData(n)
      BY <1>9
    <2>2. SubSeq(buf, n + 1, Len(buf)) \in Seq(Message)
      BY <1>1
    <2> QED BY <1>1, <2>1, <2>2 DEF ReadData
  <1> QED BY <1>2, <1>3, <1>4, <1>5, <1>6, <1>7, <1>8, <1>9, StepKinds

\* The types of the pump and of the other goroutines.
LEMMA GoroutineTypes ==
    ASSUME TypeOK, PumpInv, Next
    PROVE  /\ newConn' \in 0..MaxConns /\ writing' \in 0..MaxConns
           /\ why' \in {"none", "EOF", "ERR"} /\ readErr' \in {"none", "EOF", "ERR"}
           /\ pump' \in {"read", "got", "failed", "backoff", "dial", "dialed", "swap",
                         "swapped", "giveup", "exit"}
           /\ item' \in 0..MaxMsgs
           /\ rd' \in {"out", "awake", "asleep"}
           /\ pinging' \subseteq Conns
           /\ closer' \in {"open", "stopping", "marked", "done"}
  <1> USE DEF TypeOK, Next, PumpStep, ReadStep, CloseStep, ReadMessage, ReadFails, Deliver,
        DecodeFails, HandleFailure, Terminal, GiveUp, Backoff, DialSucceeds, DialFails,
        DropNewConn, NotRedialed, AcceptNewConn, WireConn, Swap, ReadWaits, ReadData,
        ReadSignal, ReadEnds, WriteBegins, WriteEnds, WriteFits, PingEnds, CloseBegins,
        CloseMarks, CloseConn, PeerSends, PeerStops, chan, pmp, goro, wire,
        Broadcast, NoBroadcast
  <1>1. newConn' \in 0..MaxConns
    <2>1. CASE DialSucceeds
      BY <2>1, OptionsAssumption DEF Conns
    <2>2. CASE newConn' = newConn \/ newConn' = 0
      BY <2>2, OptionsAssumption
    <2> QED BY <2>1, <2>2
  <1>2. writing' \in 0..MaxConns
    <2>1. CASE WriteBegins
      BY <2>1, OptionsAssumption DEF Conns
    <2>2. CASE writing' = writing \/ writing' = 0
      BY <2>2, OptionsAssumption
    <2> QED BY <2>1, <2>2
  <1>3. why' \in {"none", "EOF", "ERR"} /\ readErr' \in {"none", "EOF", "ERR"}
    OBVIOUS
  <1>4. pump' \in {"read", "got", "failed", "backoff", "dial", "dialed", "swap",
                   "swapped", "giveup", "exit"}
    OBVIOUS
  <1>5. item' \in 0..MaxMsgs
    <2>1. CASE ReadMessage
      BY <2>1, OptionsAssumption
    <2>2. CASE item' = item \/ item' = 0
      BY <2>2, OptionsAssumption
    <2> QED BY <2>1, <2>2
  <1>6. rd' \in {"out", "awake", "asleep"}
    OBVIOUS
  <1>7. pinging' \subseteq Conns
    OBVIOUS
  <1>8. closer' \in {"open", "stopping", "marked", "done"}
    OBVIOUS
  <1> QED BY <1>1, <1>2, <1>3, <1>4, <1>5, <1>6, <1>7, <1>8

\* The types of the connections; ReadMessage returns no message twice.
LEMMA WireTypes ==
    ASSUME TypeOK, PumpInv, Next
    PROVE  /\ shut' \subseteq Conns
           /\ net' \in [Conns -> {"none", "up", "hung", "eof", "lost"}]
           /\ sent' \in [Conns -> 0..MaxMsgs] /\ taken' \in [Conns -> 0..MaxMsgs]
           /\ \A g \in Conns : taken'[g] <= sent'[g]
  <1> USE DEF TypeOK, Next, PumpStep, ReadStep, CloseStep, ReadMessage, ReadFails, Deliver,
        DecodeFails, HandleFailure, Terminal, GiveUp, Backoff, DialSucceeds, DialFails,
        DropNewConn, NotRedialed, AcceptNewConn, WireConn, Swap, ReadWaits, ReadData,
        ReadSignal, ReadEnds, WriteBegins, WriteEnds, WriteFits, PingEnds, CloseBegins,
        CloseMarks, CloseConn, PeerSends, PeerStops, chan, pmp, goro, wire
  <1>1. shut' \subseteq Conns
    <2>1. CASE DropNewConn
      BY <2>1 DEF Conns
    <2>2. CASE WireConn
      <3>1. conn - 1 \in Conns
        BY <2>2, OptionsAssumption DEF Conns, PumpInv
      <3> QED BY <2>2, <3>1
    <2>3. CASE CloseConn
      BY <2>3
    <2>4. CASE UNCHANGED shut
      BY <2>4
    <2> QED BY <2>1, <2>2, <2>3, <2>4
  <1>2. net' \in [Conns -> {"none", "up", "hung", "eof", "lost"}]
    <2>1. CASE DialSucceeds
      BY <2>1
    <2>2. CASE \E g \in Conns : PeerStops(g)
      BY <2>2
    <2>3. CASE UNCHANGED net
      BY <2>3
    <2> QED BY <2>1, <2>2, <2>3
  <1>3. CASE ReadMessage
    BY <1>1, <1>2, <1>3, OptionsAssumption DEF PumpInv
  <1>4. CASE \E g \in Conns : PeerSends(g)
    <2>1. PICK g \in Conns : PeerSends(g)
      BY <1>4
    <2> QED BY <1>1, <1>2, <2>1, OptionsAssumption DEF PumpInv
  <1>5. CASE UNCHANGED <<sent, taken>>
    BY <1>1, <1>2, <1>5 DEF PumpInv
  <1> QED BY <1>3, <1>4, <1>5

\* The pump is on its way to the connection that follows that of the Channel.
LEMMA PumpStepInv ==
    ASSUME TypeOK, PumpInv, Next
    PROVE  PumpInv'
  <1>1. \A g \in Conns : taken'[g] <= sent'[g]
    BY WireTypes
  <1>2. conn \in Conns /\ taken \in [Conns -> 0..MaxMsgs] /\ sent \in [Conns -> 0..MaxMsgs]
    BY DEF TypeOK
  <1>3. CASE ReadMessage
    <2>1. item' \in 1..MaxMsgs
      BY <1>2, <1>3, OptionsAssumption DEF ReadMessage
    <2> QED BY <1>1, <1>3, <2>1 DEF ReadMessage, PumpInv
  <1>4. CASE ReadFails \/ DecodeFails \/ HandleFailure \/ GiveUp \/ Backoff \/ DropNewConn
             \/ NotRedialed \/ WireConn \/ Deliver
    <2>1. pump' \notin {"got", "dialed", "swap", "swapped"}
      BY <1>4
      DEF ReadFails, DecodeFails, HandleFailure, GiveUp, Terminal, Backoff, DropNewConn,
          NotRedialed, WireConn, Deliver
    <2> QED BY <1>1, <2>1 DEF PumpInv
  <1>5. CASE DialSucceeds \/ DialFails
    <2>1. pump' = "dialed" /\ conn' = conn /\ newConn' \in {0, conn + 1}
      BY <1>5 DEF DialSucceeds, DialFails, chan
    <2> QED BY <1>1, <2>1 DEF PumpInv
  <1>6. CASE AcceptNewConn
    <2>1. pump' = "swap" /\ conn' = conn /\ newConn' = conn + 1
      BY <1>6 DEF AcceptNewConn, Redialed, PumpInv
    <2> QED BY <1>1, <2>1 DEF PumpInv
  <1>7. CASE Swap
    <2>1. pump' = "swapped" /\ conn' > 1
      BY <1>2, <1>7 DEF Swap, CanSwap, PumpInv, Conns
    <2> QED BY <1>1, <2>1 DEF PumpInv
  <1>8. CASE UNCHANGED <<pump, item, newConn, conn>>
    BY <1>1, <1>8 DEF PumpInv
  <1> QED BY <1>3, <1>4, <1>5, <1>6, <1>7, <1>8
      DEF Next, PumpStep, ReadStep, CloseStep, ReadWaits, ReadData, ReadSignal, ReadEnds,
          WriteBegins, WriteEnds, WriteFits, PingEnds, CloseBegins, CloseMarks, CloseConn,
          PeerSends, PeerStops, chan, pmp

\* Only HandleFailure sends the pump to attemptReconnect, with budget left, and
\* only AcceptNewConn spends from the budget.
LEMMA BudgetStep ==
    ASSUME BudgetInv, Next
    PROVE  BudgetInv'
  <1>1. CASE HandleFailure
    BY <1>1 DEF HandleFailure, Terminal, BudgetInv, ShouldTryReconnect, chan
  <1>2. CASE AcceptNewConn
    BY <1>2 DEF AcceptNewConn, BudgetInv
  <1>3. CASE Swap \/ Deliver
    BY <1>3 DEF Swap, Deliver, BudgetInv
  <1>4. CASE Reconnecting /\ ~HandleFailure
    <2>1. UNCHANGED <<opts, remaining>>
      BY <1>4, ReconnectingKeeps
    <2>2. pump' \in {"backoff", "dial", "dialed"} => pump \in {"backoff", "dial", "dialed"}
      BY <1>4
      DEF Reconnecting, ReadMessage, ReadFails, DecodeFails, GiveUp, Terminal, Backoff,
          DialSucceeds, DialFails, DropNewConn, NotRedialed, WireConn
    <2> QED BY <2>1, <2>2 DEF BudgetInv, ShouldTryReconnect
  <1>5. CASE UNCHANGED <<opts, remaining, pump>>
    BY <1>5 DEF BudgetInv, ShouldTryReconnect
  <1> QED BY <1>1, <1>2, <1>3, <1>4, <1>5, StepKinds, BesideKeeps
      DEF ReadSignal, ReadData, CloseMarks, pmp

\* Between the two locks of the swap: what the reader and Close would change is
\* under readMu, which the pump holds.
LEMMA SwapStep ==
    ASSUME SwapInv, Next
    PROVE  SwapInv'
  <1>1. CASE Reconnecting
    BY <1>1, ReconnectingKeeps DEF SwapInv
  <1>2. CASE Beside
    BY <1>2, BesideKeeps DEF SwapInv
  <1>3. CASE Deliver \/ Swap
    BY <1>3 DEF Deliver, Swap, SwapInv
  <1>4. CASE AcceptNewConn
    BY <1>4 DEF AcceptNewConn, Redialed, DropOldBytes, SwapInv
  <1>5. CASE ReadSignal \/ CloseMarks \/ \E n \in 1..Len(buf) : ReadData(n)
    BY <1>5 DEF ReadSignal, CloseMarks, ReadData, Reading, ReadMuFree, SwapInv, pmp
  <1> QED BY <1>1, <1>2, <1>3, <1>4, <1>5, StepKinds

\* Buffered data is of the current connection.
LEMMA StaleStep ==
    ASSUME TypeOK, SwapInv, NothingStale, Next
    PROVE  NothingStale'
  <1>0. buf \in Seq(Message)
    BY DEF TypeOK
  <1>1. CASE Reconnecting
    BY <1>1, ReconnectingKeeps DEF NothingStale, ReadMuFree
  <1>2. CASE Beside
    BY <1>2, BesideKeeps DEF NothingStale, ReadMuFree
  <1>3. CASE Deliver
    <2>1. /\ buf' = Append(buf, Data(conn, item)) /\ conn' = conn
          /\ \A j \in 1..Len(buf) : buf[j].g = conn
      BY <1>3 DEF Deliver, NothingStale, ReadMuFree
    <2>2. \A j \in 1..Len(buf') : buf'[j].g = conn
      BY <1>0, <2>1 DEF Data
    <2> QED BY <2>1, <2>2 DEF NothingStale
  <1>4. CASE AcceptNewConn
    BY <1>4 DEF AcceptNewConn, DropOldBytes, NothingStale
  <1>5. CASE Swap
    BY <1>5 DEF Swap, CanSwap, SwapInv, NothingStale
  <1>6. CASE ReadSignal \/ CloseMarks
    BY <1>6 DEF ReadSignal, CloseMarks, NothingStale, ReadMuFree, pmp
  <1>7. CASE \E n \in 1..Len(buf) : ReadData(n)
    <2>1. PICK n \in 1..Len(buf) : ReadData(n)
      BY <1>7
    <2>2. /\ buf' = SubSeq(buf, n + 1, Len(buf)) /\ conn' = conn
          /\ \A j \in 1..Len(buf) : buf[j].g = conn
      BY <2>1 DEF ReadData, Reading, NothingStale
    <2>3. \A j \in 1..Len(buf') : buf'[j] = buf[n + j] /\ n + j \in 1..Len(buf)
      BY <1>0, <2>2
    <2> QED BY <2>2, <2>3 DEF NothingStale
  <1> QED BY <1>1, <1>2, <1>3, <1>4, <1>5, <1>6, <1>7, StepKinds

\* One reconnect costs one unit of the budget, the moment it is accepted.
Charged ==
    opts.maxReconnects > 0 =>
        remaining + (IF pump = "swap" THEN conn ELSE conn - 1) = opts.maxReconnects

\* Every step keeps the account: reconnect takes one unit for each connection.
LEMMA ChargeStep ==
    ASSUME TypeOK, PumpInv, BudgetInv, Charged, Next
    PROVE  Charged'
  <1>1. opts' = opts /\ opts.maxReconnects \in Nat /\ conn \in Conns /\ remaining \in Nat
    BY OptionsAssumption, ChannelTypes DEF TypeOK, Conns
  <1>2. CASE Reconnecting
    BY <1>1, <1>2, ReconnectingKeeps DEF Charged
  <1>3. CASE Beside
    BY <1>1, <1>3, BesideKeeps DEF Charged
  <1>4. CASE Deliver
    BY <1>1, <1>4 DEF Deliver, Charged
  <1>5. CASE AcceptNewConn
    BY <1>1, <1>5 DEF AcceptNewConn, Redialed, SpendBudget, Charged, Conns
  <1>6. CASE Swap
    BY <1>1, <1>6 DEF Swap, CanSwap, PumpInv, Charged, Conns
  <1>7. CASE ReadSignal \/ CloseMarks \/ \E n \in 1..Len(buf) : ReadData(n)
    BY <1>1, <1>7 DEF ReadSignal, CloseMarks, ReadData, Charged, pmp
  <1> QED BY <1>2, <1>3, <1>4, <1>5, <1>6, <1>7, StepKinds

\* A reconnect is pending until it is reported, and reported by the one Read
\* that clears the mark.
ReportedOnce == \A j, k \in 1..Len(reported) : reported[j] = reported[k] => j = k
NotLost == conn > 1 => pending \/ \E j \in 1..Len(reported) : reported[j] = conn

\* Read reports a discontinuity once and clears the mark in the same region.
LEMMA ReportStep ==
    ASSUME TypeOK, PumpInv, SwapInv, ReportInv, ReportedOnce, NotLost, Next
    PROVE  ReportInv' /\ ReportedOnce' /\ NotLost'
  <1> USE DEF ReportInv, ReportedOnce, NotLost, ReadMuFree
  <1>1. reported \in Seq(Conns) /\ conn \in Nat
    BY DEF TypeOK, Conns
  <1>2. CASE Reconnecting
    BY <1>2, ReconnectingKeeps
  <1>3. CASE Beside
    BY <1>3, BesideKeeps
  <1>4. CASE Deliver
    BY <1>4 DEF Deliver
  <1>5. CASE AcceptNewConn
    BY <1>5 DEF AcceptNewConn
  <1>6. CASE Swap
    <2>1. conn' = conn + 1 /\ reported' = reported /\ pending'
      BY <1>6 DEF Swap, CanSwap, PumpInv, SwapInv
    <2>2. \A j \in 1..Len(reported) : reported[j] \in Nat
      <3>1. \A j \in 1..Len(reported) : reported[j] \in Conns
        BY <1>1
      <3> QED BY <3>1 DEF Conns
    <2>3. \A j \in 1..Len(reported) : reported[j] <= conn
      OBVIOUS
    <2> QED BY <1>1, <2>1, <2>2, <2>3
  <1>7. CASE ReadSignal
    <2>1. /\ reported' = Append(reported, conn) /\ conn' = conn /\ pending' = FALSE
          /\ \A j \in 1..Len(reported) : reported[j] # conn
      BY <1>7 DEF ReadSignal, SignalCleared, Reading
    <2>2. /\ Len(reported') = Len(reported) + 1 /\ reported'[Len(reported) + 1] = conn
          /\ \A j \in 1..Len(reported) : reported'[j] = reported[j]
          /\ Len(reported) \in Nat
      BY <1>1, <2>1
    <2>3. \A j \in 1..Len(reported') : j \in 1..Len(reported) \/ j = Len(reported) + 1
      BY <2>2
    <2>4. ReportInv'
      BY <1>1, <2>1, <2>2, <2>3
    <2>5. ReportedOnce'
      BY <2>1, <2>2, <2>3
    <2>6. Len(reported) + 1 \in 1..Len(reported')
      BY <2>2
    <2> QED BY <2>1, <2>2, <2>4, <2>5, <2>6
  <1>8. CASE CloseMarks
    BY <1>8 DEF CloseMarks, pmp
  <1>9. CASE \E n \in 1..Len(buf) : ReadData(n)
    BY <1>9 DEF ReadData, pmp
  <1> QED BY <1>2, <1>3, <1>4, <1>5, <1>6, <1>7, <1>8, <1>9, StepKinds

\* A Write takes c.conn as it is, and keeps writeMu, which the swap needs.
LEMMA WriteStep ==
    ASSUME TypeOK, SwapExcludesWrites, Next
    PROVE  SwapExcludesWrites'
  <1>1. CASE Reconnecting
    BY <1>1, ReconnectingKeeps DEF SwapExcludesWrites
  <1>2. CASE Beside
    BY <1>2, BesideKeeps DEF SwapExcludesWrites
  <1>3. CASE Swap
    BY <1>3 DEF Swap, CanSwap, WriteMuFree, SwapExcludesWrites
  <1>4. CASE Deliver \/ AcceptNewConn \/ ReadSignal \/ CloseMarks
             \/ \E n \in 1..Len(buf) : ReadData(n)
    BY <1>4 DEF Deliver, AcceptNewConn, ReadSignal, CloseMarks, ReadData, goro,
        SwapExcludesWrites
  <1> QED BY <1>1, <1>2, <1>3, <1>4, StepKinds

-----------------------------------------------------------------------------
(* The theorems.                                                           *)

\* Dial leaves one connection, of which nothing was read.
LEMMA InitIInv == Init => IInv
  <1> SUFFICES ASSUME Init PROVE IInv
    OBVIOUS
  <1>1. TypeOK
    <2>1. 1 \in Conns /\ opts.maxReconnects \in Nat
      BY OptionsAssumption DEF Init, Conns
    <2>2. <<>> \in Seq(Message) /\ <<>> \in Seq(Conns)
      OBVIOUS
    <2>3. /\ conn \in Conns /\ newConn \in 0..MaxConns /\ writing \in 0..MaxConns
          /\ remaining \in 0..opts.maxReconnects /\ item \in 0..MaxMsgs
          /\ pinging \subseteq Conns
      BY <2>1, OptionsAssumption DEF Init
    <2>4. /\ net \in [Conns -> {"none", "up", "hung", "eof", "lost"}]
          /\ sent \in [Conns -> 0..MaxMsgs] /\ taken \in [Conns -> 0..MaxMsgs]
      BY OptionsAssumption DEF Init
    <2> QED BY <2>2, <2>3, <2>4 DEF Init, TypeOK
  <1>2. PumpInv /\ BudgetInv /\ SwapInv /\ ReportInv
    BY DEF Init, PumpInv, BudgetInv, SwapInv, ReportInv
  <1>3. NothingStale /\ SwapExcludesWrites
    BY DEF Init, NothingStale, SwapExcludesWrites
  <1>4. ChargedAndReportedOnce
    <2>1. opts.maxReconnects \in Nat
      BY OptionsAssumption DEF Init
    <2> QED BY <2>1 DEF Init, ChargedAndReportedOnce
  <1> QED BY <1>1, <1>2, <1>3, <1>4 DEF IInv

\* The invariant is inductive.
LEMMA NextIInv == IInv /\ [Next]_vars => IInv'
  <1> SUFFICES ASSUME IInv, [Next]_vars PROVE IInv'
    OBVIOUS
  <1>1. CASE Next
    <2>1. TypeOK'
      BY <1>1, ChannelTypes, GoroutineTypes, WireTypes DEF IInv, TypeOK
    <2>2. PumpInv' /\ BudgetInv' /\ SwapInv' /\ NothingStale' /\ SwapExcludesWrites'
      BY <1>1, PumpStepInv, BudgetStep, SwapStep, StaleStep, WriteStep DEF IInv
    <2>3. Charged' /\ ReportInv' /\ ReportedOnce' /\ NotLost'
      <3>1. Charged /\ ReportedOnce /\ NotLost
        BY DEF IInv, ChargedAndReportedOnce, Charged, ReportedOnce, NotLost
      <3> QED BY <1>1, <3>1, ChargeStep, ReportStep DEF IInv
    <2> QED BY <2>1, <2>2, <2>3
        DEF IInv, ChargedAndReportedOnce, Charged, ReportedOnce, NotLost
  <1>2. CASE UNCHANGED vars
    BY <1>2
    DEF IInv, TypeOK, PumpInv, BudgetInv, ShouldTryReconnect, SwapInv, ReportInv,
        NothingStale, ReadMuFree, ChargedAndReportedOnce, SwapExcludesWrites,
        vars, chan, pmp, goro, wire
  <1> QED BY <1>1, <1>2

\* c.conn changes only in the swap, before which the pump has seen, under the
\* readMu it still holds, that the Channel is not closed.
LEMMA StepConnIsFinal == IInv /\ [Next]_vars => [closed => conn' = conn]_vars
  <1> SUFFICES ASSUME IInv, Next, closed PROVE conn' = conn
    BY DEF IInv, TypeOK
  <1>1. ~Swap
    BY DEF Swap, CanSwap, IInv, SwapInv
  <1> QED BY <1>1, StepKinds, ReconnectingKeeps, BesideKeeps
      DEF Deliver, AcceptNewConn, ReadSignal, CloseMarks, ReadData

\* The types of every variable of the Channel, its goroutines and connections.
\* In particular the budget of reconnects never goes below zero.
THEOREM TypeCorrect == Spec => []TypeOK
  <1>1. IInv => TypeOK
    BY DEF IInv
  <1> QED BY <1>1, InitIInv, NextIInv, PTL DEF Spec

\* readPump never lets Read return bytes of a connection that it has replaced.
THEOREM StaleBytesDropped == Spec => []NothingStale
  <1>1. IInv => NothingStale
    BY DEF IInv
  <1> QED BY <1>1, InitIInv, NextIInv, PTL DEF Spec

\* attemptReconnect charges each discontinuity of the stream once, for any cap;
\* Read reports it at most once, and the last one cannot be overlooked.
THEOREM DiscontinuityReported == Spec => []ChargedAndReportedOnce
  <1>1. IInv => ChargedAndReportedOnce
    BY DEF IInv
  <1> QED BY <1>1, InitIInv, NextIInv, PTL DEF Spec

\* A Write ends on the connection on which it began.
THEOREM WriteKeepsConn == Spec => []SwapExcludesWrites
  <1>1. IInv => SwapExcludesWrites
    BY DEF IInv
  <1> QED BY <1>1, InitIInv, NextIInv, PTL DEF Spec

\* Close may read c.conn without a lock: it is final once closed is set.
THEOREM ClosedConnIsFinal == Spec => ConnIsFinal
  BY InitIInv, NextIInv, StepConnIsFinal, PTL DEF Spec, ConnIsFinal
=============================================================================
