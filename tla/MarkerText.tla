---------------------------- MODULE MarkerText ----------------------------
(***************************************************************************)
(* The byte stream of pkg/session as the two parsers see it, over an       *)
(* alphabet just large enough for what they look at: a newline, a carriage *)
(* return, a digit, a letter, and the bytes of the two markers.  The       *)
(* markers share their first byte the way __PR_BEG_<nonce>__ and           *)
(* __PR_END_<nonce>__: share their first five, so that every partial match *)
(* of the real ones has its counterpart.                                   *)
(***************************************************************************)
EXTENDS Integers, Sequences, SequencesExt

NL == "n"
CR == "r"
Digit == "0"
BegMarker == <<"_", "B">>
EndMarker == <<"_", "E">>
Alphabet == {"_", "B", "E", NL, CR, Digit, "a"}

\* bytes.Index: where m first occurs in s, 0 for nowhere.
OccursAt(m, s, i) == i + Len(m) - 1 <= Len(s) /\ SubSeq(s, i, i + Len(m) - 1) = m
Find(m, s) ==
    LET at == {i \in 1..Len(s) : OccursAt(m, s, i)}
    IN IF at = {} THEN 0 ELSE Min(at)

First(n, s) == SubSeq(s, 1, n)
From(i, s) == SubSeq(s, i, Len(s))
LastBytes(n, s) == From(IF Len(s) > n THEN Len(s) - n + 1 ELSE 1, s)
\* The length of the longest prefix of s that ends with a newline.
ThroughLastNewline(s) == SelectLastInSeq(s, LAMBDA b : b = NL)

\* Strip exactly one trailing newline, and a carriage return before it: they
\* come from the wrapper's printf and the terminal, not from the command.
StripNewline(s) ==
    IF s # <<>> /\ Last(s) = NL
    THEN IF Len(s) > 1 /\ s[Len(s) - 1] = CR THEN First(Len(s) - 2, s) ELSE Front(s)
    ELSE s

\* bytes.TrimSpace: the blanks of this alphabet cut off at both ends and nowhere
\* else; strconv.Atoi accepts what is left when it is digits, and not nothing.
Blanks == {NL, CR}
SpaceDropped(b) == SelectSeq(b, LAMBDA x : x \notin Blanks)
TrimSpace(b) ==
    LET kept == {i \in DOMAIN b : b[i] \notin Blanks}
    IN IF kept = {} THEN <<>> ELSE SubSeq(b, Min(kept), Max(kept))
IsNumber(b) == TrimSpace(b) # <<>> /\ \A i \in DOMAIN TrimSpace(b) : TrimSpace(b)[i] = Digit

-----------------------------------------------------------------------------
(* Reference: what a framed command's stream means when it is read as a    *)
(* whole.  s is the stream so far.                                         *)

RefBeg(s) == Find(BegMarker, s)
RefAfterBeg(s) == From(RefBeg(s) + Len(BegMarker), s)
RefStarted(s) == RefBeg(s) # 0 /\ Find(<<NL>>, RefAfterBeg(s)) # 0
\* Everything after the BEG line.
RefBody(s) == From(Find(<<NL>>, RefAfterBeg(s)) + 1, RefAfterBeg(s))
RefEnded(s) == RefStarted(s) /\ Find(EndMarker, RefBody(s)) # 0
\* What precedes the END marker, and what follows it.
RefCaptured(s) == First(Find(EndMarker, RefBody(s)) - 1, RefBody(s))
RefAfterEnd(s) == From(Find(EndMarker, RefBody(s)) + Len(EndMarker), RefBody(s))
RefComplete(s) == RefEnded(s) /\ Find(<<NL>>, RefAfterEnd(s)) # 0
RefCode(s) == First(Find(<<NL>>, RefAfterEnd(s)) - 1, RefAfterEnd(s))
\* The number on a line is on its places i to j: digits, and outside only blanks.
RefNumberAt(line, i, j) ==
    i <= j /\ \A k \in DOMAIN line : IF k \in i..j THEN line[k] = Digit ELSE line[k] \in Blanks
RefHasNumber(line) == \E i, j \in DOMAIN line : RefNumberAt(line, i, j)
=============================================================================
