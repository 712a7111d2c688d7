# ptyrelay in TLA+

ptyrelay runs commands and file operations on a remote machine through nothing
but a byte channel to a shell: a PTY in a WebSocket, a tmux pane, or a local
process. This directory holds a TLA+ model of its concurrent and failure-prone
parts, the TLC configurations that check it on small instances, and TLAPS proofs,
for every value of the constants, of all its safety properties. Definitions carry the names of the Go
identifiers they model where TLA+ allows; `PROJECT.json` maps each of them to
its lines.

Contents: inventory · what is hard · modules · correspondence with the code ·
runs · bounds · fairness · proofs · disagreements with the documentation · not
modelled · plan.

## 1. Inventory

The parts, from the bottom up, with the state each keeps and how it is reached.

| part | state | operations | talks to |
|---|---|---|---|
| `pkg/channel/websocket` | current connection, read buffer, sticky error, reset mark, budget of reconnections, closed mark; readMu, writeMu, a mutex per keepalive | Read, Write, Resize, Close; goroutines readPump and keepalive | gorilla/websocket, the session above |
| `pkg/channel/subprocess` | a child process, the two pipes to it, exited | Start, Read, Write, Close; a goroutine that reaps, one of os/exec that kills when the context of Start ends | the operating system |
| `pkg/channel/tmux` | a log file and the position in it, closed mark; in tmux: the one pipe of the pane (pipe-pane) | New, Read (polls the log), Write (send-keys), Close | tmux |
| `pkg/session` (framed.go) | mutex s.mu (the lease), writeMu, dead mark, prelude mark, readCh | RunFramed, Pipe, Close, Dead; goroutines readerLoop and one pipePump per Pipe | one Channel; the remote shell |
| `pkg/session` (sentinel.go, streaming.go) | parser state and buffer | feed | owned by one call |
| `pkg/backend/shell` | probe result, closed mark, mutex | Probe, Read, Write, List, Remove, Rename, ..., Run | RunFramed, one command after the other |
| `pkg/backend/agent` (agent.go) | request counter | every operation by callOneShot: stage a request in a remote file, run the agent on it | RunFramed |
| `pkg/backend/agent` (repl.go) | the running REPL, two mutexes | callREPL, closeREPL | Pipe: requests go down stdin, replies come up stdout |
| `cmd/ptyrelay-agent` | none between requests | request loop, handlers (file operations, run) | the file system of the remote |
| `pkg/backend/router` | health of the agent | Probe; each operation by route | the agent backend, then the shell backend |
| `pkg/bootstrap` | on the remote: a staged script, its temporary files, the install path | Bootstrap, VerifyInstall | the shell backend; curl or wget on the remote |
| `cmd/ptyrelay` | one connection and the context it lives under | dial, one command, teardown | a channel, the session, the backends, bootstrap |
| `cmd/ptyrelay-mcp` | a connection that the first tool call dials | the loop of requests, dial, tools | the same |

All parts share one session, and the session one channel. Calls go down
synchronously under contexts that may end at any moment. Results come up through
Go channels (`resultCh`, `readCh`), condition variables (`Channel.cond`) and
unbuffered pipes (`io.Pipe`). The remote side is a shell that reads its input in
its own time.

What makes each part correct:

- *Channels*: no byte of a torn connection mixes with the next one; the reader is
  told of the discontinuity once; Close releases everything and wakes everybody.
- *Session*: calls are serialised; a call returns the result of its own command;
  each command starts at most once; an interrupt never hits a later command; a
  cancelled or closed call returns.
- *Parsers*: the result does not depend on how the stream was cut into chunks, and
  the buffers are bounded.
- *Shell backend*: Write is atomic and leaves no temporary file; a Read sees one
  instant; success means that the effect took place.
- *Agent transports*: each call gets the reply to its own request; a request
  reaches the agent whole; Close comes back.
- *Programs*: every request is answered and every end comes; nothing is left of a
  connection, whichever command of its dial failed; a child is given its chance to exit.
- *Bootstrap*: the install path never shows part of a binary; success means that the
  binary was put there; a failed attempt leaves nothing.
- *Router*: an operation that is not idempotent takes effect at most once; an
  idempotent one falls back without the caller's noticing.

## 2. What is hard here

The list, line by line, is `hazards` in `PROJECT.json`. The groups:

1. A lease handed from goroutine to goroutine (Pipe to its pump), a dead mark read
   before the mutex is waited for, a Close that takes no lock.
2. Cancellation by sending bytes: `^C` may arrive after the command it was meant
   for, or be read as text where there is no PTY.
3. Markers found in arbitrary chunks, with output held back or flushed.
4. Reconnection under readers, writers, pings and Close at once.
5. Answers that are lost after the effect took place: fallback, retry, cleanup.
6. Operations that are many commands, cancelled between or inside any two.
7. Resources of the operating system under a context that ends at the wrong
   moment: a child killed by the dial's own context, a pipe that toggles, a script on the remote that
   outlives its caller.

## 3. Modules

```
AbstractSession  <-- refined by --  FramedSession   <- FramedSessionProofs
MarkerText  <- SentinelParser, StreamingParser  <- (instances in) FrameParsers  <- MCFrameParsers
                                    FrameParsers    <- FrameParsersProofs
WebSocketChannel <- MCWebSocketChannel;  WebSocketChannel <- WebSocketProofs
SubprocessChannel, TmuxChannel  <- (instances in) Connection  <- ConnectionProofs
AbstractFiles    <-- refined by --  RemoteFiles  (extends ShellFiles)  <- MCRemoteFiles
                                    RemoteFiles  <- RemoteFilesProofs
Router           (one framed command = one step, by AbstractSession)  <- RouterProofs
AgentRepl        (one Pipe = one lease of the session, by AbstractSession)  <- AgentReplProofs
Bootstrap        (one Write = one step, by AbstractFiles)  <- BootstrapProofs
```

- **FramedSession** models `pkg/session/framed.go`: calls of RunFramed and Pipe by
  any number of goroutines, `writeAll` chunk by chunk, `driveParser` and `pipePump` as one select
  loop, the soft and the hard interrupt with their timers, the reader goroutine,
  the three steps of Close, and the remote shell with its terminal (external:
  line reading, foreground job, signals that flush the input). The stream is one
  of tokens: marker lines, pieces of output, chunks of commands. A write of the Channel may
  fail while the remote lives (`MayFail`) or block with writeMu held (`Stall`), and under the session a WebSocket may
  replace its connection, with a fresh shell behind it (`Relink`).
- **AbstractSession** is what the session promises: an exclusive lease, a command
  runs at most once and never beside another, success only after the command ran
  to its end. The layers above are modelled on top of that promise.
- **MarkerText**, **SentinelParser**, **StreamingParser**, **FrameParsers** have the bytes
  FramedSession abstracts. A parser is a record; `Fed` is `feed`. FrameParsers
  feeds both with the same stream in all possible chunks and compares them with
  reference definitions on the whole text (`Ref...` in MarkerText).
- **WebSocketChannel** models `websocket.go`. A region under readMu is one
  step, except the swap of connections, where the pump waits for writeMu while it holds
  readMu.
- **Router** models `router.go` together with `callOneShot`. What an operation does is
  abstracted to *how often it took effect and where*.
- **AgentRepl** models `repl.go`, with the Pipe's lease, the requests and replies in
  flight and the loop of the agent.
- **ShellFiles** models `pkg/backend/shell`: the operations as sequences of
  framed commands on one directory; the data of a file is a sequence of chunks. **RemoteFiles** extends it by the
  operations that begin at the agent: `AgentAnswers`, `AgentRefuses` and `AgentCutOff` are one run
  of a handler of `cmd/ptyrelay-agent`, after which route falls back or not.
  **AbstractFiles** is what the operations promise: each takes effect whole, at one instant, and reports success
  only if it did.
- **SubprocessChannel** and **TmuxChannel** are the steps of one channel each and of what is around it: the
  child, the kernel and os/exec; tmux, the pane and other users of its pipe. They have no
  next-state relation of their own.
- **Connection** composes them with `dial` and `teardown` of the command and `dialFromConfig`, `dial` and `run`
  of the MCP server. Both programs are one goroutine; a call of a backend is one command that is written and then
  answered or not. The WebSocket transport is not among its channels: WebSocketChannel
  already has its Close under concurrent users.
- **Bootstrap** models `pkg/bootstrap`: several programs install to one path. What the caller does is one
  step per framed command, but the script is a process of the remote, one step per line,
  since it can be killed between any two and can go on when its caller has gone.
- Each **...Proofs** module holds the theorems about one module: the inductive invariant as a conjunction of
  named parts, lemmas about the operators and about what a step does and leaves alone, one lemma per part that says that
  every step keeps it, then the theorems.

## 4. Correspondence with the code

- *Steps.* A step is what one goroutine does between two points at which another one
  can get in: a lock taken or released, a channel operation, a read or a write
  of the Channel, a framed command. So `Begin` (reads the dead mark) and `Acquire`
  (gets the mutex) of FramedSession are two steps, as they are in `RunFramed`.
- *Deferred calls.* Release of the lease by the pump (`Release`), the cleanup of a Write
  (`Cleanup`) and the removal of a request file are steps of the same call, which
  cannot return without them.
- *Timers* may fire at any time after they are armed: the model has no clock. A
  property that holds under it holds for every setting of the grace periods.
- *Failures* of a write, a read, a decode or a step of Close are disjuncts or actions of their own, possible at every call whatever the state of the other side:
  an agent, a child or a pane may live on after one.
- *Contexts* may end at any moment (`CancelCtx`, the fault `cancel` of ShellFiles, `MayFail` of
  Router, `Timeout` of Connection). Nobody looks at a context before the select loop, which `CancelCtx` uses.
- *The remote* may be slow, die, ignore signals, or stop in the middle of a command.
  A command that was cut off may have done all, part or none of its work.
- *Errors of the code* are results: `canceled`, `dead`, `closed`, `protocol`, `write`. Error texts are left out.

## 5. Runs

| run | question | property → what it rules out |
|---|---|---|
| FramedFaults | two calls, one cancelled; death of the remote, a reconnect to a fresh shell, Close | LeaseExclusive: two holders, or a lost lease. NoStrayInterrupt: an interrupt of one call stops the command of another. PreludeFirst: a user command in a shell that was not prepared, before a reconnect. ImplementsSession: a command that starts twice or beside another, success of a command that did not end |
| FramedNoTty | interrupts read as text, chunked commands one Write of which may fail, stdin of a Pipe, output over the cap | ResultIsOwn: output or exit code of another, garbled or stale command |
| FramedLive | the remote ignores everything; writes that block; output of a Pipe nobody has read yet; Close with a call that holds and a call that waits | CancelReturns: a cancelled call that holds the lease for ever, though no write is blocked. CloseUnblocks: a call that never comes back |
| FrameParsers | all streams, all cuts | StateMatchesReference: a marker missed, invented or late. ResultMatchesReference, DeliveredIsOutput: output or exit code that depends on the cut, bytes of a marker delivered. BufferBounded, StreamKeepsLittle: a buffer that grows, a complete line held back |
| WebSocket | pump, reader, writer, keepalive and Close with no, two and unlimited reconnections, peers that close, reset or fall silent | NothingStale: bytes of an old connection. ChargedAndReportedOnce: a discontinuity not reported, or beyond the budget. SwapExcludesWrites, ConnIsFinal: a connection replaced under a Write or under Close. CloseReleases: a Close that does not return, a connection or goroutine that survives it. ReadNotStranded: a Read that sleeps on a torn connection. Both but for a Write stuck on a silent peer |
| RouterFaults | two operations and two probes, every failure | NonIdempotentOnce: an operation done twice. FallbackIsTransparent: a failure of the agent that the caller of an idempotent operation sees (it does not speak of the health mark, which calls may overwrite with older knowledge). RequestIntact: a request made of pieces of two |
| ReplShared | two calls and Close; agents that die, run for ever, or live on after a write or read of their client has failed; a channel that stalls or breaks | RepliesInStep: a reply to another request. CloseComesBack: a Close that waits though nothing it waits for is endless |
| ReplOldAgent | *violation* | CloseComesBack, see section 9 |
| RemoteFiles | two operations of every kind, one of which may begin at the agent, broken off anywhere | NoTempLeft: a temporary file that a failed Write leaves. ImplementsFiles: a torn or mixed file, a Read of two instants, success without effect, an operation repeated that is not idempotent |
| Connection | both programs over both channels, any step failing, those of Close included; timeouts at any moment; a channel that takes no bytes; a reader that cannot hand over | NothingLeft: a child, pipe or log file of a dial that failed or a program that stopped. ChildMayLeave: SIGKILL before EOF and SIGTERM. ReadsFromAttach: output of the pane lost or repeated. ComesBack, ReaderEnds: a program or a reader that hangs |
| ConnectionExec | *violation* | ConnectionOutlivesDial, see section 9 |
| Bootstrap | two installations to one path, killed or lost anywhere | PathIsWhole: part of a binary, or one that fails its digest, at the path. SuccessIsInstalled: an exit code lost on its way. RetryStartsClean: a file left by a failure |

Every property of a passing run has a mutant in `PROJECT.json`: a plausible bug of
the code, as an operator next to the one it replaces, under which TLC finds the
property violated in that run.

## 6. Bounds

- *FramedSession*: two calls, each with a prelude and a command, are one holder and
  one that waits, precedes or follows it; hand-over, queueing and leftovers of
  one call that meet the next need no third. `Cancellable` names the one call whose context may end, so that the other
  one is there to be hit. `MayDie`, `MayFail`, `MayStall` and `MaxRelinks` choose the faults of a run: one reconnect is
  one more than the session expects; a write that fails alone matters where a command is more than one (FramedNoTty), one
  that blocks to liveness (FramedLive). `ReadCap` is 1 where the code has 32: with the
  smallest buffer the reader blocks soonest. `Chunks` is 2 where splitting matters.
  `MaxOutput` 0 makes every output of a RunFramed overflow while a Pipe has no cap; `MaxOutput` 1
  lets it through. `MaxEmit` 1 in FramedLive lets the pump block in the flush to a reader that has not come yet. `LeavesEarly` lets the user of a Pipe close its stdout before the end; it is set in
  FramedNoTty and off in the other runs, whose questions it does not touch.
- *FrameParsers*: markers are two bytes that share their first, the smallest that has
  a proper prefix and an overlap. All texts of five bytes after a BEG line, of four
  with an END marker behind them, of five without a BEG line, and complete frames behind noise, LF and CRLF, with every cut. Exit codes have blanks and
  carriage returns before, behind and inside the digits.
  `HardLimit` 2 is passed by half a line, cap 2 is met before, at and after END.
- *WebSocketChannel*: `MCSetups` are three Options of Dial. A budget of two with four connections that the network
  would allow, so the limit is the budget and not the bound; no reconnect; and no budget, with keepalive and two
  connections. One message per connection tells old from new.
- *Router*: two operations and two probes in all classes; two chunks per request let a
  request be half staged when another one is staged.
- *AgentRepl*: two calls and Close are one that starts the REPL, one that waits, and the one that ends it. A call starts at most
  one Pipe, so with as many epochs as calls the bound is never met.
- *RemoteFiles*: two operations on two paths cover a Write against a Write, a Read, a Rename
  and a Remove of its path. `Limit` 2 allows 0, 1, 2 and too many chunks. `MaxRouted` 1: one of them may begin at the
  agent, against one of the shell's; two that begin there meet only in steps that are atomic, or fall back
  both, which is the case of none routed.
- *Connection*: `MaxReqs` 2 is a request that dials and one that finds a connection, or dials again after a failure;
  `MaxOut` 1 and `MaxPane` 2 pieces of output tell "none", "some unread" and, for the order, first from second; with `ReadCap` 1
  where the code has 32, one chunk is enough to keep the reader from handing over the next, or the error.
- *Bootstrap*: two, one that may be left behind and one that comes later.

`CHECK_DEADLOCK FALSE` stands where a finite set of calls, or a program, ends; the WebSocket
run keeps the check.

## 7. Fairness

Liveness is checked only under what Go's scheduler and timers give: a goroutine that can
continue does (weak fairness of its steps); a `sync.Mutex` that is released again and
again is acquired in the end (strong fairness of lock steps, which Go's starvation mode
provides); an armed timer fires; the kernel delivers SIGKILL. Failures are actions outside of fairness: nothing has to fail.

No write of a channel has to complete. A write that blocks disables the step (`stalled` of FramedSession and
AgentRepl, `full` of Connection, `WriteBlocked` of WebSocketChannel), and the properties say what then does not happen: their hypotheses
(`<>[]~stalled`, `[]<>~full`, `[]<>~SwapBlocked`, `[]<>~Endless(e)`) are the cases in which the code waits without a limit, each described
in section 9. In Connection, strong fairness of the main goroutine means that a write goes on when the channel takes bytes again and again.

Two assumptions are the contract of callers or of the other side. The user of a Pipe reads stdout or closes it (`session.go` demands
it). In AgentRepl an agent that runs answers a ping and a bye (`~Busy(e) /\ AgentServes(e)`); an operation may run
for ever, as `sh -c` with a user's command may. In Connection, each command of a backend but the cleanup of a Write has a
context that ends (`ContextEnds`). The remote shell, the
peer of a WebSocket, the child, the pane and the network are never fair; neither are
calls that were not yet made or cancellations. In WebSocketChannel, strong fairness of `\E g : PingEnds(g)` is fairness of
every keepalive goroutine, since each ends once.

## 8. Proofs

TLAPS proves the following for every value of the constants that the named assumptions of the
modules allow (finite sets of callers, positive bounds, names that do not clash): 33 theorems in eight
modules. Where a theorem has a hypothesis beyond these it is given here. For most
properties the property alone is not inductive; what had to be added is the argument why the code is right.
Each strengthening was first checked by TLC, as an invariant on small instances.

**FramedSession** (`FramedSessionProofs`), in layers, each using the ones before:

- `TypeCorrect` with `IInv == TypeOK /\ OffsetInv`: `off[c] \in 0..Chunks` survives `WriteChunk` only because a call
  that is writing has not written all, the loop condition of `writeAll`.
- `LeaseIsExclusive`: a call is where it uses the session exactly when the mutex names it. The cases that matter are
  `Acquire`, `Finish` from the pump (which keeps the lease until `Release`) and `Finish` from the select loop (which does not).
- `StrayInterruptsHarmless`, by `ShellInv`. *OnceInv*: the last chunk of a command line is on the wire at most once, and only
  of a command that has not run. *JobInv*: the shell runs one command at a time. *InterruptInv*: where an interrupt is on
  the wire, every other call with a command in front of it has returned, as a call writes ^C only while it
  holds the lease. So a command that a foreign interrupt meets belongs to a call that is done.
- `PreludeIsFirst`, by `ServiceInv`. *OrderInv*: the chunks of a command follow each other on the wire and
  in the shell's line, up to the one that its writer sends next; hence *Unaltered*: no
  command line is garbled. *EndInv*, *ResInv*: an END tells the truth, and who reports success has read one. *PreludeInv*.
- `Implements`: every step of FramedSession is a step or a stutter of AbstractSession. From the invariants above, each
  step of a goroutine or of the shell maps to one abstract action.
- `ResultsAreOwn`, by `FlowInv`. The messages between the shell and the parsers (readCh, what the reader holds, what was
  printed) are one stream. *AlignInv*: when the END of a frame is at position p, or will be at the end
  because its command is running, then right before p is what the command printed, right before that its BEG, and
  what the call has captured is the missing beginning. *StartInv*, *ParserInv*: only commands that have started print, and
  a parser that has seen no BEG has captured nothing.

The last three and the lemmas from OrderInv on assume `WholeLines == LateStdin \/ MayFail => Chunks = 1`: the channel takes a command in
one Write; or nobody writes to the stdin of a Pipe that has ended, and no Write fails while the remote lives. The first is so for WebSocket and
subprocess channels, whose `Caps.MaxWriteChunk` is 0. For tmux, which splits, the second is needed: a piece of a command whose second Write
failed, or stdin between two pieces, makes another line of the shell (section 9). TypeCorrect, LeaseIsExclusive and StrayInterruptsHarmless need none of it.

PreludeFirst speaks of the shell that was there first: `relinks = 0`. Its theorem holds for a WebSocket with `Reconnect` up to the first reconnect and
not beyond, because the code does not keep the promise there (section 9).

**The parsers** (`FrameParsersProofs`): `StateFollowsStream`, `ResultFollowsStream`, `BufferStaysBounded`, `ReaderGetsOutput`,
`PipeKeepsLittle`, for streams of any length over the alphabet of MarkerText, cut into any chunks. The invariant compares each parser with the
reference reading of the stream so far: *Read* and *Piped* say what it has made of it, *AtRest* and *PipeAtRest* that there is no more to
make of it. The idea is `Barred(m, s, k)`: each of the first k places of s differs from the marker m already within s, so m begins at none of them
however s goes on. What is dropped before BEG, or flushed before END, is barred: the tail that is kept is one byte less than a marker, or
begins behind a newline, which no marker holds. So a search in the buffer finds what a search in the whole stream
would (`FindInRest`), and what was found stays where it is (`FoundStays`, `BodyGrows`, `EndGrows`). *AtRest* follows since each `advance`
goes one state further or comes to rest, and `feed` makes as many rounds as there are states to leave. `HandedOver` is the
case where the wrapper's carriage return was flushed and its newline was not. The exit code of an END line is the number that is left when
blanks are taken off its two ends (`TrimSpace`): one with a carriage return inside is an error of the protocol, in the reference as in the code. `StreamsAssumption`: streams are made of
the alphabet, which has one byte of each kind the parsers tell apart, and markers of two bytes that share the first.

**WebSocketChannel** (`WebSocketProofs`): `TypeCorrect`, `StaleBytesDropped`, `DiscontinuityReported`, `WriteKeepsConn`,
`ClosedConnIsFinal`. *PumpInv* says what the pump carries from step to step, *BudgetInv* that it dials with budget left,
*SwapInv* that while it holds readMu and waits for writeMu the buffer is empty, the mark is set and Close has not come, so that the swap that
follows installs exactly what was decided; *ReportInv* that what is pending was not reported and what was reported has happened.

**Router** (`RouterProofs`): `TypeCorrect`, `RunsOnce`, `FallbackTransparent`, `RequestsIntact`. The invariant is one formula per caller:
*StagedAt* and *TmpAt* (what is staged is a beginning of the caller's own request), *MarkAt* (only an idempotent operation goes from the agent to
the shell), *RanAt* (nothing has run before the agent was invoked, nothing in the shell before the operation returns).

**AgentRepl** (`AgentReplProofs`): `TypeCorrect`, `InStep`. *LockInv* says which step holds which mutex, *EpochInv* who knows which
replState, *AgentInv* that agents run only in Pipes that were started. *StepInv* is the argument: as long as an agent or a reply of it may be heard, there is nothing
between the two sides, or one request or one reply, and the one whose ID it bears is waiting. A write or read that fails takes the REPL
out of use (`failed`): what is then in flight is for nobody (*DeadInv*). One needs all three others for it: a second request
could only come from somebody with the same mutex. `NamesAssumption` has it that no call is named like the two
requests of the transport itself, the warm-up and the goodbye: IDs are unique in the code (`nextID`).

**RemoteFiles** (`RemoteFilesProofs`): `TypeCorrect`; `TempRemoved`: only the loss of the session leaves a temporary file; and `Implements`: the operations,
through the agent or not, implement AbstractFiles. *StagedAt* counts the chunks of a Write, *TempAt* says what the temporary file holds by then and where it is
absent. The refinement has the hypothesis `Dependable`: the remote has a digest tool or the channel damages nothing, errors are
seen on the channel, and no name is that of a directory. Without any one of them the code does not keep the promise: a damaged chunk is not noticed; a Read of a
missing file succeeds; a Write lands inside a directory (section 9 and `Dirs`, `SeesStderr` of ShellFiles).

**Connection** (`ConnectionProofs`): `TypeCorrect`, `NothingIsLeft`, `ChildLeaves`, `LogIsFromAttach`, for either program over either
channel. *ProcInv* and *PaneInv* tie what the operating system and tmux hold to the place of the channel (after Close, to what its own steps have failed to undo, `undone`), *LogInv* says that the log goes on from where it was
attached without a gap as long as the pipe is its own, *EndedInv* that nothing is held where the program is without a
connection, *CtxInv* that the command's context is done only when its child is away, or at the overall timeout. The lemmas about the two channels
are stated once, for their steps by themselves, and used for both programs.

**Bootstrap** (`BootstrapProofs`): `TypeCorrect`, `PathWhole`, `SuccessInstalled`, `RetryClean`. *PhaseAt* ties the place of a caller to
that of its script: a script runs without its caller only when the session was lost. *FilesAt* says at each line of the script which of its
two files exist and what they hold. PathIsWhole is inductive with these: what is moved was checked, and nobody else writes it.

Model-checked only:

- Liveness, and what speaks of ENABLED, which the prover does not handle: `CancelReturns`, `CloseUnblocks`, `ReadNotStranded`, `CloseReleases`, `CloseComesBack`,
  `ComesBack`, `ReaderEnds`.
- That the two violations of section 9 are violations.

## 9. Disagreements with the documentation

Two are checked runs:

- **ReplOldAgent**: when the first ping of a REPL is refused, `startREPL` (repl.go:99-101) drops the
  Pipe without closing it. The agent runs on with the lease of the session; the next operation
  waits for the lease with replInitMu held, and Close waits for replInitMu.
- **ConnectionExec**: `dialFromConfig` starts the child of an exec transport with `exec.CommandContext` under the context of
  the dial, whose deferred cancel runs when the dial has succeeded (config.go:102-103): the child is killed at once, while
  main.go:72-73 promises one connection "for the lifetime of the process". The run shows a connection in use whose child was sent SIGKILL.

The others were met while modelling and are described here only. The models follow the code:

- `Dead` says "Once true, every RunFramed returns ErrSessionDead" (framed.go:377-378). RunFramed
  reads the mark before it waits for the mutex (line 157) and not after: a call that was
  queued while another one declared the session dead goes on to write its command.
- `writeAll` takes writeMu per chunk (framed.go:434): stdin of a Pipe that is used after its end can land between
  two chunks of a command, although writeChannel says it "cannot interleave" (framed.go:415-417). `LateStdin = TRUE` with `Chunks = 2` shows it;
  section 8 proves that nothing of the kind happens with `Chunks = 1`, so only tmux, which splits, is exposed.
- The cap of RunFramed is compared with the whole buffer before END is looked for (sentinel.go:121): output
  within the cap is refused when END comes in the same chunk, against framed.go:86-88.
- MaxReconnects 0 is "no cap -- the Channel will keep trying until Close" (websocket.go:112-114), but one redial that
  fails is the end (416-423).
- After a reconnect Read may return data of the new connection before ErrReconnected (websocket.go:459 against
  445-449), and after Close it still drains the buffer (channel.go:57-58).
- A Write without a deadline that blocks on a silent peer keeps writeMu, which the swap waits for with readMu held
  (websocket.go:432, 485): the keepalive notices the peer, the reader is not released, and Close, which needs readMu (515) before it
  closes the connection that would end the Write, waits for ever and releases nothing. `WriteBlocked` and `SwapBlocked` are that case,
  and ReadNotStranded and CloseReleases except it.
- After a reconnect of a WebSocket there is a fresh shell, and higher layers "must rebuild any state" (websocket.go:107-109).
  FramedSession does not: preluded stays TRUE (framed.go:163-167). The call that reads ErrReconnected fails and the session is dead from then on, but a
  call that began before runs its command in a shell that was not prepared. PreludeFirst excepts it
  (`relinks`). The two programs never set `Reconnect`; a user of the packages may.
- A cancelled call returns when its interrupt is written, and the write has no deadline: it waits for writeMu, which a Write of a Pipe's
  stdin may hold (framed.go:343-348, 418-422), and for the Channel, which may be a full pipe or terminal or a silent peer. The call, and
  all that queue behind it, then wait for Close, although RunFramed takes a context. `stalled` is that case,
  and CancelReturns excepts it.
- OpenWrite is Idempotent, "safe to fallback" (backend.go:46), but its data is sent when the writer is closed, outside
  route (agent/fs.go:112-118): if the agent fails then, nobody falls back and the agent stays marked healthy. In Router it
  is a class of its own, to which FallbackIsTransparent makes no promise.
- Router.Probe marks the agent healthy after its ping even if another call has found it broken
  since (router.go:99-107), and operations do not probe lazily as New says (router.go:65-66).
- Close of the agent backend has no limit (repl.go:164-205). callREPL and closeREPL look at no context: an operation that the agent
  does not finish (handlers.go:262-271 runs a user's command without a limit) keeps callMu, and Close waits for it. When a write or a decode has failed with the agent alive,
  the REPL counts as closed, bye is skipped (179), and Close waits (195) for an agent that nobody told to leave: to
  close stdin is a no-op there. `Endless` are these cases, and CloseComesBack excepts them.
- A REPL lives as long as the context of the operation that started it (repl.go:73), not as long as the Backend (repl.go:28-31).
- ShellBackend.Read of a missing file succeeds with no data when stderr does not reach the channel, as with `subprocess`: the
  exit code of `cat | base64` is that of base64 (io.go:34). `SeesStderr = FALSE` shows it.
- Remove runs `rm -f` (fs.go:238): a second Remove succeeds (backend.go:142-144).
- List of an empty directory fails with GNU xargs, which runs stat without operands (fs.go:169).
- Write to a path that is a directory moves the temporary file into it and reports success (io.go:138). `Dirs` shows it.
- Probe holds the mutex of the backend during its command (shell.go:125) while ensureProbed says it does not block other callers (shell.go:167).

- *subprocess*: cmd.Wait closes the pipes when the child has exited (subprocess.go:128), while os/exec asks not to call Wait before all
  reads are done: output that was not read yet is lost, and Read then returns os.ErrClosed and not io.EOF, as its comment
  says (lines 134-135). After Close, Read and Write return os.ErrClosed and not ErrChannelClosed (channel.go:57-58). The child leads a process group
  of its own (procattr_unix.go:11), but only the leader is signalled. A Write to a full pipe ends with Close and not with a context (`full`).
- *Programs*: neither program handles a signal: one that is ended by Ctrl-C or SIGTERM runs no teardown, and the pipe of the pane and the log file
  stay (a child sees EOF). With a --log-level that is not known the command closes the channel and not the session (connect.go:140-147).
- A Write of the shell backend that has failed removes its temporary file under context.Background() (io.go:74-78, 212-218): if the remote
  does not answer, the cancelled Write does not return, and in the server, which takes one request after the other, nothing does after it.
  `CleanupWaits` is that case, and ComesBack excepts it.
- The reader hands every chunk to readCh, of capacity 32 (framed.go:139-149), from which only calls take. When the server idles, or after output
  that a call gave up on, it can stay there after the child has exited, until the next call or Close. `NobodyTakes` is that case.
- *tmux*: New leaves its log file when truncating it or pipe-pane fails, and the pipe when tmux is killed by the context after it
  did its work; only a log that cannot be opened is undone. `pipe-pane -o` closes a pipe that is open and opens none (`toggles`): a Channel attached
  to a pane whose last user has crashed reads nothing, while the comment says that -o replaces the old pipe (tmux.go:127-129).
  Close stops whichever pipe the pane has, and ignores the error of each step as best effort (tmux.go:137, 241, 247): a pipe-pane that fails leaves the
  pipe open, a removal that fails the log. Write and Close call tmux under context.Background(), for as long as that takes.
- Any error of the agent on an operation that falls back, one that says that a file does not exist included, marks it unhealthy until the
  next Probe (router.go:170).
- A Rename that the agent has done and whose answer is lost falls back to `mv`, which fails because its source is gone: the tool
  says "Idempotent (same source+dest pair re-runs cleanly)" (tools.go:102). That of remove says "a missing
  target is an error, not a no-op" (tools.go:114), and the shell backend runs `rm -f`.
- A killed agent leaves the temporary file of its Write (handlers.go:126), for which nobody looks.
- The MCP server dials when there is no backend (main.go:152-156), and keeps the one it has when its session has died.
- *bootstrap*: the last step of the script is `mv` from $TMPDIR (fetch.go:90), a copy between two file systems: the path shows part of
  the binary meanwhile, or for good if the script is killed (`sameFs`). ^C kills the shell that would remove the staged script. A script whose
  session was lost goes on, and may replace what was installed after it.

## 10. Not modelled

- In ShellFiles: MkdirAll, Stat as an operation and Run, which are one command without state
  of the backend; OpenRead, which is a Read. Of the handlers of the agent likewise: stat, mkdir, chmod, which are one
  system call, and run, whose effect Router counts.
- `init.go` of tmux, which creates or finds a pane before a Channel is attached: one tmux command after the other, and no state.
- `exec --stdin`: a goroutine that copies local input to a Pipe, which the program leaves behind as it exits.
- `providers.go` of bootstrap (a file, an embedded file or a URL is opened), flags and configuration files, JSON-RPC and the
  JSON encoding of the protocol, shell quoting, ANSI stripping: sequential and stateless. Test support.
- In Bootstrap: an install path that is a directory, into which `mv` would move the binary; a `rm -f` of the trap that fails.
- Wall-clock times, byte sizes beyond the bounds above, log messages and error texts.

## 11. Plan

The modules that were planned are written, and every safety property of a run is a theorem. What is left:

1. `NoStrayInterrupt` and `LeaseExclusive` hold without `WholeLines`; which part of `ImplementsSession` does so too is open. A command that
   was altered is the only way in which it fails, so a refinement of an AbstractSession with an outcome "altered" should hold for all channels.
2. Coverage: the remaining operations of the backends that are one command (MkdirAll, Stat, Run) and `init.go` of tmux.
