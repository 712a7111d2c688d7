-------------------------- MODULE SentinelParser --------------------------
(***************************************************************************)
(* pkg/session/sentinel.go: the parser behind RunFramed, which captures    *)
(* the whole output of a command.  A parser is a record with the fields of *)
(* sentinelParser; Fed is what feed makes of one and a chunk of bytes.     *)
(***************************************************************************)
EXTENDS MarkerText

\* newSentinelParser; maxOutput 0 is no limit.
NewParser(maxOutput) ==
    [state |-> "beforeBEG", buf |-> <<>>, output |-> <<>>, exitCode |-> <<>>,
     err |-> "none", maxOutput |-> maxOutput]

\* stateBeforeBEG: look for the marker, then for the end of its line; of what
\* cannot be used keep the tail that may be the beginning of a marker.
KeepOneTooFew == Len(BegMarker) - 2
Keep == Len(BegMarker) - 1
BeforeBEG(p) ==
    LET idx == Find(BegMarker, p.buf)
        rest == From(idx + Len(BegMarker), p.buf)
        nl == Find(<<NL>>, rest)
    IN IF idx = 0 THEN [p EXCEPT !.buf = LastBytes(Keep, p.buf)]
       ELSE IF nl = 0 THEN [p EXCEPT !.buf = From(idx, p.buf)]
       ELSE [p EXCEPT !.state = "capturing", !.buf = From(nl + 1, rest)]

\* stateCapturing: nothing leaves the buffer before the END marker is found.
\* The cap is applied to the buffer before the marker is looked for.
OverCapIgnored(p, b) == FALSE
OverCap(p, b) == p.maxOutput > 0 /\ Len(b) > p.maxOutput
\* Back to the start of the line the marker is on.
LineStart(idx, b) == ThroughLastNewline(First(idx - 1, b))
CapturedWithNewline(idx, b) == First(LineStart(idx, b), b)
Captured(idx, b) == StripNewline(First(LineStart(idx, b), b))
Capturing(p) ==
    LET idx == Find(EndMarker, p.buf)
        out == p.output \o Captured(idx, p.buf)
    IN IF OverCap(p, p.buf) THEN [p EXCEPT !.err = "protocol"]
       ELSE IF idx = 0 THEN p
       ELSE IF p.maxOutput > 0 /\ Len(out) > p.maxOutput THEN [p EXCEPT !.err = "protocol"]
       ELSE [p EXCEPT !.state = "readingExitCode", !.output = out,
                      !.buf = From(idx + Len(EndMarker), p.buf)]

\* stateReadingExitCode: the rest of the END line.
ReadingExitCode(p) ==
    LET nl == Find(<<NL>>, p.buf)
        line == First(nl - 1, p.buf)
    IN IF nl = 0 THEN p
       ELSE IF ~IsNumber(line) THEN [p EXCEPT !.err = "protocol"]
       ELSE [p EXCEPT !.state = "done", !.exitCode = TrimSpace(line), !.buf = <<>>]

\* advance, and the loop in feed: states only move forward, so after three
\* rounds nothing progresses any more.
Advance(p) ==
    IF p.err # "none" THEN p
    ELSE IF p.state = "beforeBEG" THEN BeforeBEG(p)
    ELSE IF p.state = "capturing" THEN Capturing(p)
    ELSE IF p.state = "readingExitCode" THEN ReadingExitCode(p)
    ELSE p
Fed(p, chunk) == Advance(Advance(Advance([p EXCEPT !.buf = @ \o chunk])))
=============================================================================
