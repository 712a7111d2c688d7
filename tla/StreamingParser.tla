-------------------------- MODULE StreamingParser --------------------------
(***************************************************************************)
(* pkg/session/streaming.go: the parser behind Pipe.  It recognises the    *)
(* same frame as SentinelParser, but hands the output on while the command *)
(* runs, keeping back what may be the beginning of the END marker.  A      *)
(* parser is a record with the fields of streamingParser, delivered being  *)
(* all that was written to out.                                            *)
(***************************************************************************)
EXTENDS MarkerText

CONSTANT HardLimit   \* noNewlineHardLimit, 64 KiB in the code

NewParser ==
    [state |-> "beforeBEG", buf |-> <<>>, delivered |-> <<>>, exitCode |-> <<>>,
     err |-> "none"]

BeforeBEG(p) ==
    LET idx == Find(BegMarker, p.buf)
        rest == From(idx + Len(BegMarker), p.buf)
        nl == Find(<<NL>>, rest)
    IN IF idx = 0 THEN [p EXCEPT !.buf = LastBytes(Len(BegMarker) - 1, p.buf)]
       ELSE IF nl = 0 THEN [p EXCEPT !.buf = From(idx, p.buf)]
       ELSE [p EXCEPT !.state = "streaming", !.buf = From(nl + 1, rest)]

\* How much of a buffer without an END marker is written out: the complete
\* lines, or, past the hard limit, all but a possible beginning of the marker.
FlushLinesOnly(b) == ThroughLastNewline(b)
FlushWholeBuffer(b) ==
    IF ThroughLastNewline(b) > 0 THEN ThroughLastNewline(b)
    ELSE IF Len(b) > HardLimit THEN Len(b) ELSE 0
FlushEnd(b) ==
    IF ThroughLastNewline(b) > 0 THEN ThroughLastNewline(b)
    ELSE IF Len(b) > HardLimit THEN Len(b) - (Len(EndMarker) - 1)
    ELSE 0

AfterFlush(n, b) == From(n + 1, b)

Streaming(p) ==
    LET idx == Find(EndMarker, p.buf)
        n == FlushEnd(p.buf)
    IN IF idx = 0
       THEN [p EXCEPT !.delivered = @ \o First(n, p.buf), !.buf = AfterFlush(n, p.buf)]
       ELSE [p EXCEPT !.state = "readingExitCode",
                      !.delivered = @ \o StripNewline(First(idx - 1, p.buf)),
                      !.buf = From(idx + Len(EndMarker), p.buf)]

ReadingExitCode(p) ==
    LET nl == Find(<<NL>>, p.buf)
        line == First(nl - 1, p.buf)
    IN IF nl = 0 THEN p
       ELSE IF ~IsNumber(line) THEN [p EXCEPT !.err = "protocol"]
       ELSE [p EXCEPT !.state = "done", !.exitCode = TrimSpace(line), !.buf = <<>>]

Advance(p) ==
    IF p.err # "none" THEN p
    ELSE IF p.state = "beforeBEG" THEN BeforeBEG(p)
    ELSE IF p.state = "streaming" THEN Streaming(p)
    ELSE IF p.state = "readingExitCode" THEN ReadingExitCode(p)
    ELSE p

\* feed: advance while it progresses.  A round that only flushes does not
\* progress, so a flush is never followed by another one in the same feed.
Fed(p, chunk) ==
    LET p0 == [p EXCEPT !.buf = @ \o chunk]
        p1 == Advance(p0)
        p2 == IF p1.state = p0.state THEN p1 ELSE Advance(p1)
    IN IF p2.state = p1.state THEN p2 ELSE Advance(p2)
=============================================================================
