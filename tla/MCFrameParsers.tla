-------------------------- MODULE MCFrameParsers --------------------------
(* Bounded streams for FrameParsers.                                       *)
EXTENDS FrameParsers

\* Any five bytes after a BEG line, or any four and an END marker, and any five
\* bytes with no BEG line given.
AfterBegLine ==
    {BegMarker \o <<NL>> \o s : s \in TupleOf(Alphabet \ {"a"}, 5)}
    \cup {BegMarker \o <<NL>> \o s \o EndMarker : s \in TupleOf(Alphabet \ {"a"}, 4)}
Anything == TupleOf(Alphabet \ {CR, "a"}, 5)
\* Noise, then a complete frame around up to two bytes of output.
Noise == {<<>>, <<"_">>, <<"a", "_">>, <<"_", "_">>, EndMarker}
Outputs == UNION {TupleOf(Alphabet, n) : n \in 0..2}
Newlines == {<<NL>>, <<CR, NL>>}
Frames ==
    {x \o BegMarker \o nl \o o \o nl \o EndMarker \o <<Digit>> \o nl :
        x \in Noise, nl \in Newlines, o \in Outputs}
\* A frame with up to three bytes where the exit code should be.
CodeTexts == UNION {TupleOf({Digit, CR, "a", "_"}, n) : n \in 0..3}
EndLines ==
    {BegMarker \o <<NL, Digit, NL>> \o EndMarker \o c \o <<NL>> : c \in CodeTexts}

MCStreams == AfterBegLine \cup Anything \cup Frames \cup EndLines
=============================================================================
