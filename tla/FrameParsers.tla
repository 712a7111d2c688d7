---------------------------- MODULE FrameParsers ----------------------------
(***************************************************************************)
(* The two parsers of pkg/session fed with the same stream.  It reaches    *)
(* feed in chunks that may end anywhere, also inside a marker; what the    *)
(* parsers make of it must not depend on where.                            *)
(***************************************************************************)
EXTENDS MarkerText

CONSTANTS
    Streams,     \* the byte streams considered
    Caps,        \* values of WithMaxOutput; 0 is no limit
    HardLimit    \* noNewlineHardLimit

ASSUME LimitAssumption == Caps \subseteq Nat /\ HardLimit \in Nat \ {0}
ASSUME StreamsAssumption == Streams \subseteq Seq(Alphabet)

Buffering == INSTANCE SentinelParser
Flushing == INSTANCE StreamingParser

VARIABLES
    stream,      \* what the channel delivers in this behaviour
    pos,         \* how much of it has been fed
    run,         \* the parser of a RunFramed
    pipe         \* the parser of a Pipe

vars == <<stream, pos, run, pipe>>

Init ==
    /\ stream \in Streams /\ pos = 0
    /\ run \in {Buffering!NewParser(n) : n \in Caps}
    /\ pipe = Flushing!NewParser

\* Nobody feeds a parser that is done or has failed.
Running(p) == p.state # "done" /\ p.err = "none"
Feed(n) ==
    /\ Running(run) \/ Running(pipe)
    /\ pos + n <= Len(stream)
    /\ pos' = pos + n
    /\ LET chunk == SubSeq(stream, pos + 1, pos + n)
       IN /\ run' = IF Running(run) THEN Buffering!Fed(run, chunk) ELSE run
          /\ pipe' = IF Running(pipe) THEN Flushing!Fed(pipe, chunk) ELSE pipe
    /\ UNCHANGED stream

Next == \E n \in 1..(Len(stream) - pos) : Feed(n)
Spec == Init /\ [][Next]_vars

-----------------------------------------------------------------------------
Prefix == First(pos, stream)

\* Wherever the chunks end and whatever was flushed, each parser has recognised
\* exactly what the whole stream so far says: not a marker too many, not one
\* too few, and not late.
StateMatchesReference ==
    \A p \in {run, pipe} :
        p.err = "none" /\ p.state # "done" =>
            /\ p.state = "beforeBEG" <=> ~RefStarted(Prefix)
            /\ p.state = "readingExitCode" <=> RefEnded(Prefix)
            /\ ~RefComplete(Prefix)

\* A finished RunFramed has what was printed between the markers without the
\* wrapper's newline, and it and a finished Pipe have the number on the END line,
\* of which there is one.  Only an END line without a number ("malformed exit
\* code") fails a command, unless there is a cap.
NumberOfEndLine(exitCode) ==
    LET line == RefCode(Prefix)
    IN \E i, j \in DOMAIN line : RefNumberAt(line, i, j) /\ exitCode = SubSeq(line, i, j)
ResultMatchesReference ==
    /\ run.state = "done" =>
           LET captured == RefCaptured(Prefix)
           IN run.output = StripNewline(First(ThroughLastNewline(captured), captured))
    /\ \A p \in {run, pipe} :
           /\ p.state = "done" => RefComplete(Prefix) /\ NumberOfEndLine(p.exitCode)
           /\ p.err = "protocol" /\ (p = pipe \/ run.maxOutput = 0) =>
                  RefComplete(Prefix) /\ ~RefHasNumber(RefCode(Prefix))

\* "Cap the buffer so a runaway command can't blow up RAM": as long as feed
\* returns no error the buffer stays within the cap until END, and within a
\* marker before BEG.
BufferBounded ==
    run.err = "none" =>
        /\ run.state = "capturing" /\ run.maxOutput > 0 => Len(run.buf) <= run.maxOutput
        /\ run.state = "beforeBEG" /\ Find(BegMarker, run.buf) = 0 =>
               Len(run.buf) < Len(BegMarker)

\* The reader of a Pipe gets the command's output, at any moment a beginning of
\* it, and no byte of a marker; the only difference the chunking can make is the
\* wrapper's line end, which may have been flushed before END was seen.
DeliveredIsOutput ==
    IF RefEnded(Prefix)
    THEN /\ IsPrefix(pipe.delivered, RefCaptured(Prefix))
         /\ pipe.state \in {"readingExitCode", "done"} =>
                LET captured == RefCaptured(Prefix)
                IN pipe.delivered \in {StripNewline(captured), captured,
                                      Append(StripNewline(captured), CR)}
    ELSE IF RefStarted(Prefix) THEN IsPrefix(pipe.delivered, RefBody(Prefix))
    ELSE pipe.delivered = <<>>

\* "This unblocks line-delimited consumers the moment a complete line lands":
\* no complete line waits in the buffer for more input; and a producer that
\* never prints a newline cannot make the buffer grow: after a chunk it holds at
\* most the hard limit, or an unfinished line of that chunk.
StreamKeepsLittle ==
    [][pipe'.state = "streaming" /\ pipe'.err = "none" =>
           /\ Find(<<NL>>, pipe'.buf) = 0
           /\ Len(pipe'.buf) <= Max({HardLimit, pos' - pos})]_vars
=============================================================================
