-------------------------- MODULE FrameParsersProofs --------------------------
(***************************************************************************)
(* Theorems about the two parsers, for streams of any length over the      *)
(* alphabet of MarkerText, cut into any chunks: what they recognise, what  *)
(* they return and how much they keep.  The lemmas before them say what    *)
(* searching and cutting a text does, and what the reference definitions   *)
(* say of a stream that grows.                                             *)
(***************************************************************************)
EXTENDS FrameParsers, SequenceTheorems, WellFoundedInduction, TLAPS

Text == Seq(Alphabet)

\* A non-empty set of numbers has a least one, ...
LEMMA LeastExists ==
    ASSUME NEW S, S \subseteq Nat, S # {}
    PROVE  \E x \in S : \A y \in S : x <= y
  <1>1. PICK x \in S : \A y \in S : ~(<<y, x>> \in OpToRel(<, Nat))
    BY NatLessThanWellFounded, WFMin
  <1>2. \A y \in S : x \in Nat /\ y \in Nat /\ ~(y < x)
    BY <1>1 DEF OpToRel
  <1>3. \A y \in S : x <= y
    BY <1>2
  <1> QED BY <1>3

\* ... which is what Min is, ...
LEMMA MinIs ==
    ASSUME NEW S, S \subseteq Nat, S # {}
    PROVE  Min(S) \in S /\ \A y \in S : Min(S) <= y
  BY LeastExists DEF Min

\* ... and one with a bound a largest.
LEMMA MaxIs ==
    ASSUME NEW n \in Nat, NEW S, S \subseteq 1..n, S # {}
    PROVE  Max(S) \in S /\ \A y \in S : Max(S) >= y
  <1> DEFINE T == {n - x : x \in S}
  <1>0. \A x \in S : x \in Nat /\ n - x \in Nat
    OBVIOUS
  <1>1. T \subseteq Nat /\ T # {}
    BY <1>0
  <1>2. PICK t \in T : \A u \in T : t <= u
    BY <1>1, LeastExists
  <1>3. PICK x \in S : t = n - x
    OBVIOUS
  <1>4. \A y \in S : x >= y
    <2> SUFFICES ASSUME NEW y \in S PROVE x >= y
      OBVIOUS
    <2>1. n - x <= n - y
      BY <1>2, <1>3
    <2> QED BY <2>1
  <1> QED BY <1>4 DEF Max

\* The pieces of a text.
LEMMA Pieces ==
    ASSUME NEW s \in Text, NEW i \in Nat \ {0}, NEW j \in Nat, j <= Len(s)
    PROVE  /\ SubSeq(s, i, j) \in Text
           /\ Len(SubSeq(s, i, j)) = IF i <= j THEN j - i + 1 ELSE 0
           /\ \A k \in 1..(j - i + 1) : SubSeq(s, i, j)[k] = s[i + k - 1]
  <1>1. \A k \in i..j : s[k] \in Alphabet
    BY DEF Text
  <1> QED BY <1>1, SubSeqProperties DEF Text

\* The rest of a text from a place on.
LEMMA FromIs ==
    ASSUME NEW s \in Text, NEW i \in 1..(Len(s) + 1)
    PROVE  /\ From(i, s) \in Text
           /\ Len(From(i, s)) = Len(s) - i + 1
           /\ \A k \in 1..Len(From(i, s)) : From(i, s)[k] = s[i + k - 1]
  <1>1. Len(s) \in Nat
    BY DEF Text
  <1>2. /\ From(i, s) \in Text
        /\ Len(From(i, s)) = IF i <= Len(s) THEN Len(s) - i + 1 ELSE 0
        /\ \A k \in 1..(Len(s) - i + 1) : From(i, s)[k] = s[i + k - 1]
    BY <1>1, Pieces DEF From
  <1> QED BY <1>1, <1>2

\* Its first n bytes.
LEMMA FirstIs ==
    ASSUME NEW s \in Text, NEW n \in 0..Len(s)
    PROVE  /\ First(n, s) \in Text
           /\ Len(First(n, s)) = n
           /\ \A k \in 1..n : First(n, s)[k] = s[k]
  <1>1. Len(s) \in Nat
    BY DEF Text
  <1>2. /\ First(n, s) \in Text
        /\ Len(First(n, s)) = IF 1 <= n THEN n - 1 + 1 ELSE 0
        /\ \A k \in 1..(n - 1 + 1) : First(n, s)[k] = s[1 + k - 1]
    BY <1>1, Pieces DEF First
  <1> QED BY <1>1, <1>2

\* Two texts put together.
LEMMA JoinIs ==
    ASSUME NEW s \in Text, NEW t \in Text
    PROVE  /\ s \o t \in Text /\ Len(s) \in Nat /\ Len(t) \in Nat
           /\ Len(s \o t) = Len(s) + Len(t)
           /\ \A k \in 1..Len(s) : (s \o t)[k] = s[k]
           /\ \A k \in 1..Len(t) : (s \o t)[Len(s) + k] = t[k]
  <1>1. Len(s) \in Nat /\ Len(t) \in Nat
    BY DEF Text
  <1> QED BY <1>1, ConcatProperties DEF Text

\* Equal texts.
LEMMA SameText ==
    ASSUME NEW s \in Text, NEW t \in Text, Len(s) = Len(t), \A k \in 1..Len(s) : s[k] = t[k]
    PROVE  s = t
  BY SeqEqual DEF Text

\* The markers, byte by byte.
LEMMA Markers ==
    /\ BegMarker \in Text /\ Len(BegMarker) = 2 /\ BegMarker[1] = "_" /\ BegMarker[2] = "B"
    /\ EndMarker \in Text /\ Len(EndMarker) = 2 /\ EndMarker[1] = "_" /\ EndMarker[2] = "E"
    /\ <<NL>> \in Text /\ Len(<<NL>>) = 1 /\ <<NL>>[1] = NL
  BY DEF BegMarker, EndMarker, NL, Text, Alphabet

\* Where a marker occurs.
LEMMA OccursIs ==
    ASSUME NEW m \in Text, NEW s \in Text, NEW i \in Nat \ {0}
    PROVE  OccursAt(m, s, i) <=>
               i + Len(m) - 1 <= Len(s) /\ \A j \in 1..Len(m) : s[i + j - 1] = m[j]
  <1>0. Len(m) \in Nat /\ Len(s) \in Nat
    BY DEF Text
  <1> SUFFICES ASSUME i + Len(m) - 1 <= Len(s)
               PROVE  SubSeq(s, i, i + Len(m) - 1) = m <=> \A j \in 1..Len(m) : s[i + j - 1] = m[j]
    BY DEF OccursAt
  <1> DEFINE t == SubSeq(s, i, i + Len(m) - 1)
  <1>1. /\ t \in Text /\ Len(t) = Len(m)
        /\ \A k \in 1..Len(m) : t[k] = s[i + k - 1]
    BY <1>0, Pieces
  <1> QED BY <1>1, SameText

\* bytes.Index.
LEMMA FindIs ==
    ASSUME NEW m \in Text, NEW s \in Text
    PROVE  /\ Find(m, s) \in 0..Len(s)
           /\ Find(m, s) = 0 => \A i \in 1..Len(s) : ~OccursAt(m, s, i)
           /\ Find(m, s) # 0 => OccursAt(m, s, Find(m, s))
           /\ \A i \in 1..Len(s) : i < Find(m, s) => ~OccursAt(m, s, i)
  <1> DEFINE at == {i \in 1..Len(s) : OccursAt(m, s, i)}
  <1>0. Len(s) \in Nat /\ at \subseteq Nat
    BY DEF Text
  <1>1. CASE at = {}
    BY <1>0, <1>1 DEF Find
  <1>2. CASE at # {}
    <2>1. Find(m, s) = Min(at) /\ Min(at) \in at /\ \A y \in at : Min(at) <= y
      BY <1>0, <1>2, MinIs DEF Find
    <2> QED BY <1>0, <2>1
  <1> QED BY <1>1, <1>2

\* There is one first place.
LEMMA FoundFirst ==
    ASSUME NEW m \in Text, NEW s \in Text, NEW i \in 1..Len(s), OccursAt(m, s, i),
           \A j \in 1..Len(s) : j < i => ~OccursAt(m, s, j)
    PROVE  Find(m, s) = i
  <1>0. Len(s) \in Nat
    BY DEF Text
  <1>1. Find(m, s) # 0 /\ Find(m, s) \in 1..Len(s)
    BY <1>0, FindIs
  <1> QED BY <1>0, <1>1, FindIs

\* Find is 0 when the text has no occurrence.
LEMMA NotFound ==
    ASSUME NEW m \in Text, NEW s \in Text, \A j \in 1..Len(s) : ~OccursAt(m, s, j)
    PROVE  Find(m, s) = 0
  <1>0. Len(s) \in Nat
    BY DEF Text
  <1> QED BY <1>0, FindIs

-----------------------------------------------------------------------------
(* Texts that are cut and that grow.                                       *)

\* The rest of a rest, and of a text that has grown.
LEMMA FromFrom ==
    ASSUME NEW s \in Text, NEW i \in 1..(Len(s) + 1), NEW j \in 1..(Len(s) - i + 2)
    PROVE  From(j, From(i, s)) = From(i + j - 1, s)
  <1>0. Len(s) \in Nat
    BY DEF Text
  <1>1. /\ From(i, s) \in Text /\ Len(From(i, s)) = Len(s) - i + 1
        /\ \A k \in 1..Len(From(i, s)) : From(i, s)[k] = s[i + k - 1]
    BY FromIs
  <1>2. j \in 1..(Len(From(i, s)) + 1) /\ i + j - 1 \in 1..(Len(s) + 1)
    BY <1>0, <1>1
  <1>3. /\ From(j, From(i, s)) \in Text /\ Len(From(j, From(i, s))) = Len(s) - (i + j - 1) + 1
        /\ \A k \in 1..Len(From(j, From(i, s))) : From(j, From(i, s))[k] = From(i, s)[j + k - 1]
    <2>1. Len(From(j, From(i, s))) = Len(From(i, s)) - j + 1
      BY <1>1, <1>2, FromIs
    <2>2. Len(From(i, s)) - j + 1 = Len(s) - (i + j - 1) + 1
      BY <1>0, <1>1
    <2> QED BY <1>1, <1>2, <2>1, <2>2, FromIs
  <1>4. /\ From(i + j - 1, s) \in Text /\ Len(From(i + j - 1, s)) = Len(s) - (i + j - 1) + 1
        /\ \A k \in 1..Len(From(i + j - 1, s)) : From(i + j - 1, s)[k] = s[(i + j - 1) + k - 1]
    BY <1>2, FromIs
  <1>5. ASSUME NEW k \in 1..(Len(s) - (i + j - 1) + 1)
        PROVE  From(j, From(i, s))[k] = From(i + j - 1, s)[k]
    <2>1. j + k - 1 \in 1..Len(From(i, s)) /\ i + (j + k - 1) - 1 = (i + j - 1) + k - 1
      BY <1>0, <1>1
    <2> QED BY <1>1, <1>3, <1>4, <2>1
  <1> QED BY <1>3, <1>4, <1>5, SameText

\* ... and of a text that has grown.
LEMMA FromJoin ==
    ASSUME NEW s \in Text, NEW t \in Text, NEW i \in 1..(Len(s) + 1)
    PROVE  From(i, s \o t) = From(i, s) \o t
  <1>0. /\ Len(s) \in Nat /\ Len(t) \in Nat /\ s \o t \in Text /\ Len(s \o t) = Len(s) + Len(t)
        /\ \A k \in 1..Len(s) : (s \o t)[k] = s[k]
        /\ \A k \in 1..Len(t) : (s \o t)[Len(s) + k] = t[k]
    BY JoinIs
  <1>1. /\ From(i, s) \in Text /\ Len(From(i, s)) = Len(s) - i + 1
        /\ \A k \in 1..Len(From(i, s)) : From(i, s)[k] = s[i + k - 1]
    BY FromIs
  <1>2. /\ From(i, s) \o t \in Text
        /\ Len(From(i, s) \o t) = Len(From(i, s)) + Len(t)
        /\ \A k \in 1..Len(From(i, s)) : (From(i, s) \o t)[k] = From(i, s)[k]
        /\ \A k \in 1..Len(t) : (From(i, s) \o t)[Len(From(i, s)) + k] = t[k]
    BY <1>1, JoinIs
  <1>3. /\ From(i, s \o t) \in Text /\ Len(From(i, s \o t)) = Len(s \o t) - i + 1
        /\ \A k \in 1..Len(From(i, s \o t)) : From(i, s \o t)[k] = (s \o t)[i + k - 1]
    <2>1. i \in 1..(Len(s \o t) + 1)
      BY <1>0
    <2> QED BY <1>0, <2>1, FromIs
  <1>4. Len(From(i, s \o t)) = Len(From(i, s) \o t)
    BY <1>0, <1>1, <1>2, <1>3
  <1>5. ASSUME NEW k \in 1..Len(From(i, s \o t))
        PROVE  From(i, s \o t)[k] = (From(i, s) \o t)[k]
    <2>1. CASE k <= Len(From(i, s))
      <3>1. k \in 1..Len(From(i, s)) /\ i + k - 1 \in 1..Len(s)
        BY <1>0, <1>1, <1>3, <2>1
      <3> QED BY <1>0, <1>1, <1>2, <1>3, <3>1
    <2>2. CASE k > Len(From(i, s))
      <3>1. k - Len(From(i, s)) \in 1..Len(t) /\ k = Len(From(i, s)) + (k - Len(From(i, s)))
            /\ i + k - 1 = Len(s) + (k - Len(From(i, s)))
        BY <1>0, <1>1, <1>2, <1>3, <1>4, <2>2
      <3>2. (From(i, s) \o t)[k] = t[k - Len(From(i, s))]
        BY <1>2, <3>1
      <3>3. (s \o t)[i + k - 1] = t[k - Len(From(i, s))]
        BY <1>0, <3>1
      <3> QED BY <1>3, <3>2, <3>3
    <2>3. k <= Len(From(i, s)) \/ k > Len(From(i, s))
      BY <1>0, <1>1, <1>3
    <2> QED BY <2>1, <2>2, <2>3
  <1> QED BY <1>2, <1>3, <1>4, <1>5, SameText

\* The beginning of a text stays when it grows.
LEMMA FirstJoin ==
    ASSUME NEW s \in Text, NEW t \in Text, NEW n \in 0..Len(s)
    PROVE  First(n, s \o t) = First(n, s)
  <1>0. /\ Len(s) \in Nat /\ Len(t) \in Nat /\ s \o t \in Text /\ Len(s \o t) = Len(s) + Len(t)
        /\ \A k \in 1..Len(s) : (s \o t)[k] = s[k]
    BY JoinIs
  <1>1. /\ First(n, s) \in Text /\ Len(First(n, s)) = n
        /\ \A k \in 1..n : First(n, s)[k] = s[k]
    BY FirstIs
  <1>2. /\ First(n, s \o t) \in Text /\ Len(First(n, s \o t)) = n
        /\ \A k \in 1..n : First(n, s \o t)[k] = (s \o t)[k]
    <2>1. n \in 0..Len(s \o t)
      BY <1>0
    <2> QED BY <1>0, <2>1, FirstIs
  <1>3. \A k \in 1..n : First(n, s \o t)[k] = First(n, s)[k]
    BY <1>0, <1>1, <1>2
  <1> QED BY <1>1, <1>2, <1>3, SameText

\* A longer beginning of a text: that of its rest behind a shorter one.
LEMMA FirstOfRest ==
    ASSUME NEW s \in Text, NEW k \in 0..Len(s), NEW n \in 0..(Len(s) - k)
    PROVE  First(k + n, s) = First(k, s) \o First(n, From(k + 1, s))
  <1>0. Len(s) \in Nat /\ k + 1 \in 1..(Len(s) + 1) /\ k + n \in 0..Len(s) /\ k \in Nat /\ n \in Nat
    BY DEF Text
  <1> DEFINE r == From(k + 1, s)
  <1>1. r \in Text /\ Len(r) = Len(s) - k /\ \A i \in 1..Len(r) : r[i] = s[k + i]
    <2>1. r \in Text /\ Len(r) = Len(s) - (k + 1) + 1 /\ \A i \in 1..Len(r) : r[i] = s[(k + 1) + i - 1]
      BY <1>0, FromIs
    <2>2. Len(r) = Len(s) - k
      BY <1>0, <2>1
    <2>3. ASSUME NEW i \in 1..Len(r) PROVE r[i] = s[k + i]
      <3>1. (k + 1) + i - 1 = k + i
        BY <1>0, <2>2
      <3> QED BY <2>1, <3>1
    <2> QED BY <2>1, <2>2, <2>3
  <1>2. n \in 0..Len(r)
    BY <1>0, <1>1
  <1>3. /\ First(n, r) \in Text /\ Len(First(n, r)) = n /\ \A i \in 1..n : First(n, r)[i] = r[i]
        /\ First(k, s) \in Text /\ Len(First(k, s)) = k /\ \A i \in 1..k : First(k, s)[i] = s[i]
        /\ First(k + n, s) \in Text /\ Len(First(k + n, s)) = k + n
        /\ \A i \in 1..(k + n) : First(k + n, s)[i] = s[i]
    BY <1>0, <1>1, <1>2, FirstIs
  <1> DEFINE t == First(k, s) \o First(n, r)
  <1>4. /\ t \in Text /\ Len(t) = k + n
        /\ \A i \in 1..k : t[i] = First(k, s)[i]
        /\ \A i \in 1..n : t[k + i] = First(n, r)[i]
    <2>1. /\ t \in Text /\ Len(t) = Len(First(k, s)) + Len(First(n, r))
          /\ \A i \in 1..Len(First(k, s)) : t[i] = First(k, s)[i]
          /\ \A i \in 1..Len(First(n, r)) : t[Len(First(k, s)) + i] = First(n, r)[i]
      BY <1>3, JoinIs
    <2> QED BY <1>3, <2>1
  <1>5. ASSUME NEW i \in 1..(k + n) PROVE First(k + n, s)[i] = t[i]
    <2>1. CASE i <= k
      <3>1. i \in 1..k
        BY <1>0, <2>1
      <3> QED BY <1>3, <1>4, <3>1
    <2>2. CASE i > k
      <3>1. i - k \in 1..n /\ i - k \in 1..Len(r) /\ k + (i - k) = i
        BY <1>0, <1>1, <1>2, <2>2
      <3>2. t[i] = First(n, r)[i - k] /\ First(n, r)[i - k] = r[i - k] /\ r[i - k] = s[i]
        BY <1>1, <1>3, <1>4, <3>1
      <3> QED BY <1>3, <3>2
    <2>3. i <= k \/ i > k
      BY <1>0
    <2> QED BY <2>1, <2>2, <2>3
  <1> QED BY <1>3, <1>4, <1>5, SameText

\* A beginning and the rest.
LEMMA FirstAndRest ==
    ASSUME NEW s \in Text, NEW k \in 0..Len(s)
    PROVE  s = First(k, s) \o From(k + 1, s)
  <1>0. Len(s) \in Nat /\ k + 1 \in 1..(Len(s) + 1) /\ Len(s) - k \in 0..(Len(s) - k)
        /\ k + (Len(s) - k) = Len(s) /\ Len(s) \in 0..Len(s)
    BY DEF Text
  <1>1. First(Len(s), s) = First(k, s) \o First(Len(s) - k, From(k + 1, s))
    BY <1>0, FirstOfRest
  <1>2. From(k + 1, s) \in Text /\ Len(From(k + 1, s)) = Len(s) - k
    <2>1. From(k + 1, s) \in Text /\ Len(From(k + 1, s)) = Len(s) - (k + 1) + 1
      BY <1>0, FromIs
    <2>2. Len(s) - (k + 1) + 1 = Len(s) - k
      BY <1>0
    <2> QED BY <2>1, <2>2
  <1>3. \A t \in Text : First(Len(t), t) = t
    <2> SUFFICES ASSUME NEW t \in Text PROVE First(Len(t), t) = t
      OBVIOUS
    <2>1. Len(t) \in 0..Len(t)
      BY DEF Text
    <2> QED BY <2>1, FirstIs, SameText
  <1>4. First(Len(s), s) = s
    BY <1>3
  <1>5. First(Len(s) - k, From(k + 1, s)) = From(k + 1, s)
    BY <1>2, <1>3
  <1> QED BY <1>1, <1>4, <1>5

-----------------------------------------------------------------------------
(* Finding a marker in a text that grows.                                  *)

\* No occurrence of m begins at one of the first k places, however s goes on.
Barred(m, s, k) ==
    \A i \in 1..k : \E j \in 1..Len(m) : i + j - 1 <= Len(s) /\ s[i + j - 1] # m[j]

\* What is barred stays so when the text grows, ...
LEMMA BarredStays ==
    ASSUME NEW m \in Text, NEW s \in Text, NEW t \in Text, NEW k \in Nat, Barred(m, s, k)
    PROVE  Barred(m, s \o t, k)
  <1>0. /\ Len(s) \in Nat /\ Len(t) \in Nat /\ Len(m) \in Nat /\ Len(s \o t) = Len(s) + Len(t)
        /\ \A i \in 1..Len(s) : (s \o t)[i] = s[i]
    BY JoinIs
  <1> SUFFICES ASSUME NEW i \in 1..k
               PROVE  \E j \in 1..Len(m) : i + j - 1 <= Len(s \o t) /\ (s \o t)[i + j - 1] # m[j]
    BY DEF Barred
  <1>1. PICK j \in 1..Len(m) : i + j - 1 <= Len(s) /\ s[i + j - 1] # m[j]
    BY DEF Barred
  <1>2. i + j - 1 \in 1..Len(s) /\ i + j - 1 <= Len(s \o t)
    BY <1>0, <1>1
  <1> QED BY <1>0, <1>1, <1>2

\* ... and nothing is found there.
LEMMA BarredOccurs ==
    ASSUME NEW m \in Text, NEW s \in Text, NEW k \in Nat, Barred(m, s, k), NEW i \in 1..k
    PROVE  ~OccursAt(m, s, i)
  <1>1. PICK j \in 1..Len(m) : i + j - 1 <= Len(s) /\ s[i + j - 1] # m[j]
    BY DEF Barred
  <1> QED BY <1>1, OccursIs

\* An occurrence in the rest of a text is one in the text.
LEMMA OccursInRest ==
    ASSUME NEW m \in Text, NEW s \in Text, NEW k \in 0..Len(s), NEW i \in Nat \ {0}
    PROVE  OccursAt(m, From(k + 1, s), i) <=> OccursAt(m, s, k + i)
  <1>0. Len(s) \in Nat /\ Len(m) \in Nat /\ k \in Nat /\ k + 1 \in 1..(Len(s) + 1) /\ k + i \in Nat \ {0}
    BY DEF Text
  <1> DEFINE r == From(k + 1, s)
  <1>1. /\ r \in Text /\ Len(r) = Len(s) - (k + 1) + 1
        /\ \A j \in 1..Len(r) : r[j] = s[(k + 1) + j - 1]
    BY <1>0, FromIs
  <1>2. i + Len(m) - 1 <= Len(r) <=> k + i + Len(m) - 1 <= Len(s)
    BY <1>0, <1>1
  <1>3. ASSUME i + Len(m) - 1 <= Len(r), NEW j \in 1..Len(m)
        PROVE  r[i + j - 1] = s[(k + i) + j - 1]
    <2>1. i + j - 1 \in 1..Len(r) /\ (k + 1) + (i + j - 1) - 1 = (k + i) + j - 1
      BY <1>0, <1>1, <1>3
    <2> QED BY <1>1, <2>1
  <1>4. OccursAt(m, r, i) <=> i + Len(m) - 1 <= Len(r) /\ \A j \in 1..Len(m) : r[i + j - 1] = m[j]
    BY <1>1, OccursIs
  <1>5. OccursAt(m, s, k + i) <=>
            (k + i) + Len(m) - 1 <= Len(s) /\ \A j \in 1..Len(m) : s[(k + i) + j - 1] = m[j]
    BY <1>0, OccursIs
  <1> QED BY <1>2, <1>3, <1>4, <1>5

\* Where the beginning is barred it is enough to look in the rest.
LEMMA FindInRest ==
    ASSUME NEW m \in Text, m # <<>>, NEW s \in Text, NEW k \in 0..Len(s), Barred(m, s, k)
    PROVE  LET i == Find(m, From(k + 1, s)) IN Find(m, s) = IF i = 0 THEN 0 ELSE k + i
  <1> DEFINE r == From(k + 1, s)
             i == Find(m, r)
  <1>0. /\ Len(s) \in Nat /\ k \in Nat /\ k + 1 \in 1..(Len(s) + 1)
        /\ r \in Text /\ Len(r) = Len(s) - (k + 1) + 1
    BY FromIs DEF Text
  <1>1. /\ i \in 0..Len(r)
        /\ i = 0 => \A j \in 1..Len(r) : ~OccursAt(m, r, j)
        /\ i # 0 => OccursAt(m, r, i)
        /\ \A j \in 1..Len(r) : j < i => ~OccursAt(m, r, j)
    BY <1>0, FindIs
  <1>2. ASSUME NEW j \in 1..Len(s), j <= k PROVE ~OccursAt(m, s, j)
    <2>1. j \in 1..k
      BY <1>0, <1>2
    <2> QED BY <1>0, <2>1, BarredOccurs
  <1>3. ASSUME NEW j \in 1..Len(s), j > k
        PROVE  j - k \in 1..Len(r) /\ (OccursAt(m, s, j) <=> OccursAt(m, r, j - k))
    <2>1. j - k \in 1..Len(r) /\ j - k \in Nat \ {0} /\ k + (j - k) = j
      BY <1>0, <1>3
    <2> QED BY <2>1, OccursInRest
  <1>4. CASE i = 0
    <2>1. ASSUME NEW j \in 1..Len(s) PROVE ~OccursAt(m, s, j)
      <3>1. j <= k \/ j > k
        BY <1>0
      <3> QED BY <1>1, <1>2, <1>3, <1>4, <3>1
    <2>2. Find(m, s) = 0
      BY <2>1, NotFound
    <2> QED BY <1>4, <2>2
  <1>5. CASE i # 0
    <2>1. k + i \in 1..Len(s) /\ k + i > k /\ (k + i) - k = i
      BY <1>0, <1>1, <1>5
    <2>2. OccursAt(m, s, k + i)
      BY <1>1, <1>3, <1>5, <2>1
    <2>3. ASSUME NEW j \in 1..Len(s), j < k + i PROVE ~OccursAt(m, s, j)
      <3>1. CASE j <= k
        BY <1>2, <3>1
      <3>2. CASE j > k
        <4>1. j - k < i
          BY <1>0, <1>1, <2>3, <3>2
        <4> QED BY <1>1, <1>3, <3>2, <4>1
      <3>3. j <= k \/ j > k
        BY <1>0
      <3> QED BY <3>1, <3>2, <3>3
    <2>4. Find(m, s) = k + i
      BY <2>1, <2>2, <2>3, FoundFirst
    <2> QED BY <1>5, <2>4
  <1> QED BY <1>4, <1>5

\* The places before the first occurrence are barred, ...
LEMMA BarredBefore ==
    ASSUME NEW m \in Text, NEW s \in Text, Find(m, s) # 0
    PROVE  Barred(m, s, Find(m, s) - 1)
  <1> DEFINE f == Find(m, s)
  <1>0. Len(s) \in Nat /\ Len(m) \in Nat /\ f \in 1..Len(s) /\ OccursAt(m, s, f)
    <2>1. Len(s) \in Nat /\ Len(m) \in Nat
      BY DEF Text
    <2>2. f \in 0..Len(s) /\ f # 0 /\ OccursAt(m, s, f)
      BY FindIs
    <2> QED BY <2>1, <2>2
  <1>1. f + Len(m) - 1 <= Len(s)
    BY <1>0 DEF OccursAt
  <1> HIDE DEF f
  <1> SUFFICES ASSUME NEW i \in 1..(f - 1)
               PROVE  \E j \in 1..Len(m) : i + j - 1 <= Len(s) /\ s[i + j - 1] # m[j]
    BY DEF Barred, f
  <1>2. i \in 1..Len(s) /\ i \in Nat \ {0} /\ i < f /\ i + Len(m) - 1 <= Len(s)
    BY <1>0, <1>1
  <1>3. ~OccursAt(m, s, i)
    BY <1>2, FindIs DEF f
  <1>4. PICK j \in 1..Len(m) : s[i + j - 1] # m[j]
    BY <1>2, <1>3, OccursIs
  <1>5. i + j - 1 <= Len(s)
    BY <1>0, <1>2
  <1> QED BY <1>4, <1>5

\* ... and where there is none all that are followed by enough of the text.
LEMMA BarredAll ==
    ASSUME NEW m \in Text, NEW s \in Text, Find(m, s) = 0, NEW k \in Nat, k + Len(m) - 1 <= Len(s),
           m # <<>>
    PROVE  Barred(m, s, k)
  <1>0. Len(s) \in Nat /\ Len(m) \in Nat \ {0}
    BY EmptySeq DEF Text
  <1> SUFFICES ASSUME NEW i \in 1..k
               PROVE  \E j \in 1..Len(m) : i + j - 1 <= Len(s) /\ s[i + j - 1] # m[j]
    BY DEF Barred
  <1>2. i \in 1..Len(s) /\ i \in Nat \ {0} /\ i + Len(m) - 1 <= Len(s)
    BY <1>0
  <1>3. ~OccursAt(m, s, i)
    BY <1>2, FindIs
  <1>4. PICK j \in 1..Len(m) : s[i + j - 1] # m[j]
    BY <1>2, <1>3, OccursIs
  <1>5. i + j - 1 <= Len(s)
    BY <1>0, <1>2
  <1> QED BY <1>4, <1>5

\* A byte that is not in the marker bars the places up to it.
LEMMA BarredByByte ==
    ASSUME NEW m \in Text, NEW s \in Text, Find(m, s) = 0, NEW k \in 1..Len(s),
           \A j \in 1..Len(m) : m[j] # s[k]
    PROVE  Barred(m, s, k)
  <1>0. Len(s) \in Nat /\ Len(m) \in Nat /\ k \in Nat
    BY DEF Text
  <1> SUFFICES ASSUME NEW i \in 1..k
               PROVE  \E j \in 1..Len(m) : i + j - 1 <= Len(s) /\ s[i + j - 1] # m[j]
    BY DEF Barred
  <1>1. CASE i + Len(m) - 1 <= Len(s)
    <2>1. i \in 1..Len(s) /\ i \in Nat \ {0}
      BY <1>0
    <2>2. ~OccursAt(m, s, i)
      BY <2>1, FindIs
    <2>3. PICK j \in 1..Len(m) : s[i + j - 1] # m[j]
      BY <1>1, <2>1, <2>2, OccursIs
    <2>4. i + j - 1 <= Len(s)
      BY <1>0, <1>1
    <2> QED BY <2>3, <2>4
  <1>2. CASE i + Len(m) - 1 > Len(s)
    <2>1. k - i + 1 \in 1..Len(m) /\ i + (k - i + 1) - 1 = k /\ k <= Len(s)
      BY <1>0, <1>2
    <2> QED BY <2>1
  <1>3. i + Len(m) - 1 <= Len(s) \/ i + Len(m) - 1 > Len(s)
    BY <1>0
  <1> QED BY <1>1, <1>2, <1>3

\* What was found in a text stays where it is when the text grows.
LEMMA FoundStays ==
    ASSUME NEW m \in Text, NEW s \in Text, NEW t \in Text, Find(m, s) # 0
    PROVE  Find(m, s \o t) = Find(m, s)
  <1>0. /\ Len(s) \in Nat /\ Len(t) \in Nat /\ Len(m) \in Nat /\ s \o t \in Text
        /\ Len(s \o t) = Len(s) + Len(t) /\ \A i \in 1..Len(s) : (s \o t)[i] = s[i]
    BY JoinIs DEF Text
  <1> DEFINE f == Find(m, s)
  <1>1. f \in 1..Len(s) /\ OccursAt(m, s, f)
    <2>1. f \in 0..Len(s) /\ f # 0 /\ OccursAt(m, s, f)
      BY FindIs
    <2> QED BY <1>0, <2>1
  <1>2. Barred(m, s \o t, f - 1) /\ f - 1 \in Nat
    <2>1. f - 1 \in Nat
      BY <1>0, <1>1
    <2> QED BY <2>1, BarredBefore, BarredStays
  <1>3. OccursAt(m, s \o t, f)
    <2>1. f + Len(m) - 1 <= Len(s) /\ \A j \in 1..Len(m) : s[f + j - 1] = m[j]
      BY <1>0, <1>1, OccursIs
    <2>2. f + Len(m) - 1 <= Len(s \o t)
      BY <1>0, <1>1, <2>1
    <2>3. \A j \in 1..Len(m) : f + j - 1 \in 1..Len(s)
      BY <1>0, <1>1, <2>1
    <2>4. \A j \in 1..Len(m) : (s \o t)[f + j - 1] = m[j]
      BY <1>0, <2>1, <2>3
    <2>5. f \in Nat \ {0}
      BY <1>0, <1>1
    <2> QED BY <1>0, <2>2, <2>4, <2>5, OccursIs
  <1>4. \A j \in 1..Len(s \o t) : j < f => ~OccursAt(m, s \o t, j)
    <2> SUFFICES ASSUME NEW j \in 1..Len(s \o t), j < f PROVE ~OccursAt(m, s \o t, j)
      OBVIOUS
    <2>1. j \in 1..(f - 1)
      BY <1>0, <1>1
    <2> QED BY <1>0, <1>2, <2>1, BarredOccurs
  <1>5. f \in 1..Len(s \o t)
    BY <1>0, <1>1
  <1> QED BY <1>0, <1>3, <1>4, <1>5, FoundFirst

\* Newlines: the first one and the last one.
LEMMA FirstNewline ==
    ASSUME NEW s \in Text
    PROVE  LET f == Find(<<NL>>, s)
           IN /\ f \in 0..Len(s)
              /\ f = 0 => \A i \in 1..Len(s) : s[i] # NL
              /\ f # 0 => s[f] = NL
  <1>0. /\ Len(s) \in Nat /\ <<NL>> \in Text /\ Len(<<NL>>) = 1 /\ <<NL>>[1] = NL
    <2>1. Len(s) \in Nat
      BY DEF Text
    <2> QED BY <2>1, Markers
  <1>1. ASSUME NEW i \in 1..Len(s) PROVE OccursAt(<<NL>>, s, i) <=> s[i] = NL
    <2>0. i \in Nat \ {0}
      BY <1>0
    <2>1. OccursAt(<<NL>>, s, i) <=>
              i + Len(<<NL>>) - 1 <= Len(s) /\ \A j \in 1..Len(<<NL>>) : s[i + j - 1] = <<NL>>[j]
      BY <1>0, <2>0, OccursIs
    <2>2. i + Len(<<NL>>) - 1 <= Len(s)
      BY <1>0
    <2>3. \A j \in 1..Len(<<NL>>) : j = 1 /\ i + j - 1 = i
      BY <1>0
    <2>4. 1 \in 1..Len(<<NL>>)
      BY <1>0
    <2> QED BY <1>0, <2>1, <2>2, <2>3, <2>4
  <1>2. /\ Find(<<NL>>, s) \in 0..Len(s)
        /\ Find(<<NL>>, s) = 0 => \A i \in 1..Len(s) : ~OccursAt(<<NL>>, s, i)
        /\ Find(<<NL>>, s) # 0 => OccursAt(<<NL>>, s, Find(<<NL>>, s))
    BY <1>0, FindIs
  <1>3. Find(<<NL>>, s) # 0 => Find(<<NL>>, s) \in 1..Len(s)
    BY <1>0, <1>2
  <1> QED BY <1>1, <1>2, <1>3

\* ThroughLastNewline: up to the last newline, 0 without one.
LEMMA LastNewline ==
    ASSUME NEW s \in Text
    PROVE  LET n == ThroughLastNewline(s)
           IN /\ n \in 0..Len(s)
              /\ n # 0 => s[n] = NL
              /\ \A i \in 1..Len(s) : i > n => s[i] # NL
  <1> DEFINE I == {i \in 1..Len(s) : s[i] = NL}
  <1>0. Len(s) \in Nat
    BY DEF Text
  <1>1. ThroughLastNewline(s) = IF I # {} THEN Max(I) ELSE 0
    BY DEF ThroughLastNewline, SelectLastInSeq
  <1>2. I # {} => Max(I) \in I /\ \A y \in I : Max(I) >= y
    BY <1>0, MaxIs
  <1>3. CASE I = {}
    BY <1>0, <1>1, <1>3
  <1>4. CASE I # {}
    <2>1. ThroughLastNewline(s) \in I /\ \A y \in I : ThroughLastNewline(s) >= y
      BY <1>1, <1>2, <1>4
    <2>2. ASSUME NEW i \in 1..Len(s), i > ThroughLastNewline(s) PROVE s[i] # NL
      BY <1>0, <2>1, <2>2
    <2> QED BY <1>0, <2>1, <2>2
  <1> QED BY <1>3, <1>4

-----------------------------------------------------------------------------
(* What the stream says, as it grows.                                      *)

\* The rest behind a marker that was found is a text, and it grows with the text.
LEMMA BehindGrows ==
    ASSUME NEW m \in Text, NEW s \in Text, NEW t \in Text, Find(m, s) # 0
    PROVE  /\ Find(m, s) + Len(m) \in 1..(Len(s) + 1)
           /\ From(Find(m, s) + Len(m), s) \in Text
           /\ From(Find(m, s) + Len(m), s \o t) = From(Find(m, s) + Len(m), s) \o t
  <1> DEFINE i == Find(m, s) + Len(m)
  <1>0. Len(s) \in Nat /\ Len(m) \in Nat
    BY DEF Text
  <1>1. Find(m, s) \in 1..Len(s) /\ OccursAt(m, s, Find(m, s))
    BY <1>0, FindIs
  <1>2. i \in 1..(Len(s) + 1)
    BY <1>0, <1>1 DEF OccursAt
  <1> QED BY <1>2, FromIs, FromJoin

\* The BEG line.
LEMMA BegGrows ==
    ASSUME NEW s \in Text, NEW t \in Text, RefBeg(s) # 0
    PROVE  /\ RefBeg(s \o t) = RefBeg(s)
           /\ RefAfterBeg(s) \in Text
           /\ RefAfterBeg(s \o t) = RefAfterBeg(s) \o t
  <1>1. RefBeg(s \o t) = RefBeg(s)
    BY Markers, FoundStays DEF RefBeg
  <1> DEFINE i == RefBeg(s) + Len(BegMarker)
  <1>2. From(i, s) \in Text /\ From(i, s \o t) = From(i, s) \o t
    <2>1. BegMarker \in Text /\ Find(BegMarker, s) # 0
      BY Markers DEF RefBeg
    <2> QED BY <2>1, BehindGrows DEF RefBeg
  <1> QED BY <1>1, <1>2 DEF RefAfterBeg

\* The body, once there is one.
LEMMA BodyGrows ==
    ASSUME NEW s \in Text, NEW t \in Text, RefStarted(s)
    PROVE  /\ RefStarted(s \o t)
           /\ RefBody(s) \in Text
           /\ RefBody(s \o t) = RefBody(s) \o t
  <1>1. /\ RefBeg(s \o t) = RefBeg(s) /\ RefBeg(s) # 0
        /\ RefAfterBeg(s) \in Text
        /\ RefAfterBeg(s \o t) = RefAfterBeg(s) \o t
        /\ Find(<<NL>>, RefAfterBeg(s)) # 0
    BY BegGrows DEF RefStarted
  <1> DEFINE r == RefAfterBeg(s)
             i == Find(<<NL>>, r) + Len(<<NL>>)
  <1>2. /\ Find(<<NL>>, r \o t) = Find(<<NL>>, r)
        /\ From(i, r) \in Text /\ From(i, r \o t) = From(i, r) \o t
    <2>1. <<NL>> \in Text
      BY Markers
    <2> QED BY <1>1, <2>1, FoundStays, BehindGrows
  <1>3. i = Find(<<NL>>, r) + 1
    BY Markers
  <1> QED BY <1>1, <1>2, <1>3 DEF RefStarted, RefBody

\* A BEG line that was completed just now leaves at most the new bytes.
LEMMA NewBody ==
    ASSUME NEW s \in Text, NEW t \in Text, ~RefStarted(s), RefStarted(s \o t)
    PROVE  RefBody(s \o t) \in Text /\ Len(RefBody(s \o t)) <= Len(t)
  <1> DEFINE u == s \o t
             b == RefBeg(u)
             r == RefAfterBeg(u)
             n == Find(<<NL>>, r)
  <1>0. /\ u \in Text /\ Len(s) \in Nat /\ Len(t) \in Nat /\ Len(u) = Len(s) + Len(t)
        /\ \A k \in 1..Len(s) : u[k] = s[k]
    BY JoinIs
  <1>1. b # 0 /\ n # 0 /\ RefBody(u) = From(n + 1, r)
    BY DEF RefStarted, RefBody
  <1>2. /\ b \in 1..Len(u) /\ b + 2 \in 1..(Len(u) + 1) /\ OccursAt(BegMarker, u, b)
        /\ r = From(b + 2, u) /\ r \in Text
    <2>1. b \in 0..Len(u) /\ OccursAt(BegMarker, u, b)
      BY <1>0, <1>1, Markers, FindIs DEF RefBeg
    <2>2. b + Len(BegMarker) \in 1..(Len(u) + 1) /\ From(b + Len(BegMarker), u) \in Text
      BY <1>0, <1>1, Markers, BehindGrows DEF RefBeg
    <2>3. b \in 1..Len(u)
      BY <1>0, <1>1, <2>1
    <2> QED BY <2>1, <2>2, <2>3, Markers DEF RefAfterBeg
  <1>3. /\ Len(r) = Len(u) - (b + 2) + 1
        /\ \A k \in 1..Len(r) : r[k] = u[(b + 2) + k - 1]
    <2> HIDE DEF r, b, u
    <2> QED BY <1>0, <1>2, FromIs
  <1>4. n \in 1..Len(r) /\ n + 1 \in 1..(Len(r) + 1) /\ r[n] = NL
    <2>0. r \in Text /\ Len(r) \in Nat
      BY <1>2 DEF Text
    <2>1. n \in 0..Len(r) /\ r[n] = NL
      BY <1>1, <2>0, FirstNewline
    <2> HIDE DEF r, n
    <2> QED BY <1>1, <2>0, <2>1
  <1>5. From(n + 1, r) \in Text /\ Len(From(n + 1, r)) = Len(r) - (n + 1) + 1
    BY <1>2, <1>4, FromIs
  <1> HIDE DEF u, b, r, n
  <1>6. ASSUME Len(From(n + 1, r)) > Len(t) PROVE FALSE
    <2>0. Len(u) - (b + 2) + 1 - (n + 1) + 1 > Len(t)
      <3>1. Len(From(n + 1, r)) = Len(u) - (b + 2) + 1 - (n + 1) + 1
        <4>1. Len(r) = Len(u) - (b + 2) + 1 /\ Len(u) \in Nat /\ b \in Nat /\ n \in Nat
          BY <1>0, <1>2, <1>3, <1>4
        <4>2. Len(From(n + 1, r)) = Len(r) - (n + 1) + 1
          BY <1>5
        <4> QED BY <4>1, <4>2
      <3> QED BY <1>6, <3>1
    <2>1. b + n < Len(s) /\ b + 1 \in 1..Len(s) /\ b \in 1..Len(s)
      BY <1>0, <1>2, <1>3, <1>4, <2>0
    <2>2. OccursAt(BegMarker, s, b)
      <3>1. \A j \in 1..2 : u[b + j - 1] = BegMarker[j]
        <4>1. b \in Nat \ {0} /\ BegMarker \in Text /\ Len(BegMarker) = 2
          <5>1. b \in Nat \ {0}
            BY <1>0, <1>2
          <5> QED BY <5>1, Markers
        <4>2. OccursAt(BegMarker, u, b) /\ u \in Text
          BY <1>0, <1>2
        <4>3. \A j \in 1..Len(BegMarker) : u[b + j - 1] = BegMarker[j]
          BY <4>1, <4>2, OccursIs
        <4> QED BY <4>1, <4>3
      <3>2. \A j \in 1..2 : b + j - 1 \in 1..Len(s)
        BY <1>0, <2>1
      <3>3. \A j \in 1..2 : s[b + j - 1] = BegMarker[j]
        BY <1>0, <3>1, <3>2
      <3>4. b \in Nat \ {0} /\ b + 2 - 1 <= Len(s)
        BY <1>0, <2>1
      <3>5. BegMarker \in Text /\ Len(BegMarker) = 2
        BY Markers
      <3> QED BY <3>3, <3>4, <3>5, OccursIs
    <2>3. RefBeg(s) # 0
      BY <2>1, <2>2, Markers, FindIs DEF RefBeg
    <2>4. RefBeg(s) = b /\ RefAfterBeg(s) \in Text /\ r = RefAfterBeg(s) \o t
      BY <2>3, BegGrows DEF b, r, u
    <2>5. n \in 1..Len(RefAfterBeg(s)) /\ RefAfterBeg(s)[n] = NL
      <3>1. Len(r) = Len(RefAfterBeg(s)) + Len(t) /\ Len(RefAfterBeg(s)) \in Nat
            /\ \A k \in 1..Len(RefAfterBeg(s)) : r[k] = RefAfterBeg(s)[k]
        BY <2>4, JoinIs
      <3>2. n \in 1..Len(RefAfterBeg(s))
        BY <1>0, <1>4, <1>5, <1>6, <3>1
      <3> QED BY <1>4, <3>1, <3>2
    <2>6. Find(<<NL>>, RefAfterBeg(s)) # 0
      BY <2>4, <2>5, FirstNewline
    <2> QED BY <2>3, <2>6 DEF RefStarted
  <1>7. Len(From(n + 1, r)) \in Int
    BY <1>0, <1>2, <1>3, <1>4, <1>5
  <1>8. Len(From(n + 1, r)) <= Len(t)
    BY <1>0, <1>6, <1>7
  <1> QED BY <1>1, <1>5, <1>8 DEF u

\* The END marker, what precedes it and what follows it.
LEMMA EndGrows ==
    ASSUME NEW s \in Text, NEW t \in Text, RefEnded(s)
    PROVE  /\ RefEnded(s \o t)
           /\ RefCaptured(s) \in Text /\ RefCaptured(s \o t) = RefCaptured(s)
           /\ RefAfterEnd(s) \in Text /\ RefAfterEnd(s \o t) = RefAfterEnd(s) \o t
  <1> DEFINE b == RefBody(s)
             f == Find(EndMarker, b)
  <1>1. /\ RefStarted(s) /\ RefStarted(s \o t) /\ b \in Text /\ RefBody(s \o t) = b \o t /\ f # 0
    BY BodyGrows DEF RefEnded
  <1>2. Find(EndMarker, b \o t) = f
    BY <1>1, Markers, FoundStays
  <1>3. f - 1 \in 0..Len(b)
    <2>1. f \in 0..Len(b)
      BY <1>1, Markers, FindIs
    <2>2. Len(b) \in Nat
      BY <1>1 DEF Text
    <2> QED BY <1>1, <2>1, <2>2
  <1>4. First(f - 1, b) \in Text /\ First(f - 1, b \o t) = First(f - 1, b)
    BY <1>1, <1>3, FirstIs, FirstJoin
  <1> DEFINE i == f + Len(EndMarker)
  <1>5. From(i, b) \in Text /\ From(i, b \o t) = From(i, b) \o t
    <2>1. EndMarker \in Text
      BY Markers
    <2> QED BY <1>1, <2>1, BehindGrows
  <1> QED BY <1>1, <1>2, <1>4, <1>5 DEF RefEnded, RefCaptured, RefAfterEnd

\* The rest of the END line.
LEMMA CompleteGrows ==
    ASSUME NEW s \in Text, NEW t \in Text, RefComplete(s)
    PROVE  RefComplete(s \o t) /\ RefCode(s \o t) = RefCode(s)
  <1> DEFINE r == RefAfterEnd(s)
             f == Find(<<NL>>, r)
  <1>1. /\ RefEnded(s) /\ RefEnded(s \o t) /\ r \in Text /\ RefAfterEnd(s \o t) = r \o t /\ f # 0
    BY EndGrows DEF RefComplete
  <1>2. Find(<<NL>>, r \o t) = f
    BY <1>1, Markers, FoundStays
  <1>3. f - 1 \in 0..Len(r)
    <2>1. f \in 0..Len(r) /\ Len(r) \in Nat
      BY <1>1, FirstNewline DEF Text
    <2> QED BY <1>1, <2>1
  <1>4. First(f - 1, r \o t) = First(f - 1, r)
    BY <1>1, <1>3, FirstJoin
  <1> QED BY <1>1, <1>2, <1>4 DEF RefComplete, RefCode

-----------------------------------------------------------------------------
(* A beginning of a beginning, and the wrapper's newline.                  *)

\* The whole of a text as its own beginning and rest.
LEMMA FirstAll ==
    ASSUME NEW s \in Text
    PROVE  First(Len(s), s) = s /\ From(1, s) = s
  BY SubSeqFull DEF First, From, Text

\* Texts are put together in any order.
LEMMA JoinJoin ==
    ASSUME NEW s \in Text, NEW t \in Text, NEW u \in Text
    PROVE  (s \o t) \o u = s \o (t \o u)
  BY ConcatAssociative DEF Text

\* A beginning of a beginning is one of the text.
LEMMA FirstFirst ==
    ASSUME NEW s \in Text, NEW m \in 0..Len(s), NEW n \in 0..m
    PROVE  First(n, First(m, s)) = First(n, s)
  <1>0. Len(s) \in Nat /\ m \in Nat /\ n \in 0..Len(s) /\ m + 1 \in 1..(Len(s) + 1)
    BY DEF Text
  <1>1. First(m, s) \in Text /\ Len(First(m, s)) = m /\ From(m + 1, s) \in Text
    BY <1>0, FirstIs, FromIs
  <1>2. s = First(m, s) \o From(m + 1, s)
    BY FirstAndRest
  <1>3. First(n, First(m, s) \o From(m + 1, s)) = First(n, First(m, s))
    BY <1>1, FirstJoin
  <1> QED BY <1>2, <1>3

\* Two texts put together fall apart again.
LEMMA JoinSplit ==
    ASSUME NEW s \in Text, NEW t \in Text
    PROVE  First(Len(s), s \o t) = s /\ From(Len(s) + 1, s \o t) = t
  <1>0. Len(s) \in Nat /\ Len(s) \in 0..Len(s) /\ Len(s) + 1 \in 1..(Len(s) + 1)
    BY DEF Text
  <1>1. First(Len(s), s \o t) = s
    BY <1>0, FirstJoin, FirstAll
  <1>2. From(Len(s) + 1, s \o t) = From(Len(s) + 1, s) \o t
    BY <1>0, FromJoin
  <1>3. From(Len(s) + 1, s) \in Text /\ Len(From(Len(s) + 1, s)) = Len(s) - (Len(s) + 1) + 1
    BY <1>0, FromIs
  <1>4. Len(From(Len(s) + 1, s)) = 0
    BY <1>0, <1>3
  <1>5. From(Len(s) + 1, s) = <<>>
    BY <1>3, <1>4, EmptySeq DEF Text
  <1> QED BY <1>1, <1>2, <1>5, ConcatEmptySeq DEF Text

\* A beginning is a prefix in the sense of the community modules.
LEMMA FirstIsPrefix ==
    ASSUME NEW s \in Text, NEW n \in 0..Len(s)
    PROVE  IsPrefix(First(n, s), s)
  <1>1. Len(First(n, s)) = n /\ First(n, s) \in Text /\ n <= Len(s)
    BY FirstIs DEF Text
  <1>2. First(Len(First(n, s)), First(n, s)) = First(n, s)
    BY <1>1, FirstAll
  <1> QED BY <1>1, <1>2 DEF IsPrefix, First

\* How much StripNewline leaves.
StripLen(s) ==
    IF s # <<>> /\ s[Len(s)] = NL
    THEN IF Len(s) > 1 /\ s[Len(s) - 1] = CR THEN Len(s) - 2 ELSE Len(s) - 1
    ELSE Len(s)

\* StripNewline leaves a beginning of that length.
LEMMA StripIs ==
    ASSUME NEW s \in Text
    PROVE  /\ StripLen(s) \in 0..Len(s) /\ StripNewline(s) = First(StripLen(s), s)
           /\ StripNewline(s) \in Text
  <1>0. Len(s) \in Nat /\ (s # <<>> => Len(s) \in Nat \ {0})
    BY EmptySeq DEF Text
  <1>1. StripLen(s) \in 0..Len(s)
    BY <1>0 DEF StripLen
  <1>2. StripNewline(s) = First(StripLen(s), s)
    BY FirstAll DEF StripNewline, StripLen, First, Last, Front
  <1> QED BY <1>1, <1>2, FirstIs

\* What a reader has been handed when END is found: the output, the one
\* difference being how much of the wrapper's line end was flushed before.
Handed(d, c) ==
    /\ IsPrefix(d, c)
    /\ d \in {StripNewline(c), c, Append(StripNewline(c), CR)}

\* The last bytes of two texts put together: StripNewline looks at two of them.
LEMMA LastOfJoin ==
    ASSUME NEW d \in Text, NEW x \in Text, Len(x) # 0
    PROVE  /\ (d \o x)[Len(d \o x)] = x[Len(x)]
           /\ Len(x) > 1 => (d \o x)[Len(d \o x) - 1] = x[Len(x) - 1]
           /\ Len(x) = 1 /\ Len(d) > 0 => (d \o x)[Len(d \o x) - 1] = d[Len(d)]
  <1>0. /\ d \o x \in Text /\ Len(d) \in Nat /\ Len(x) \in Nat \ {0}
        /\ Len(d \o x) = Len(d) + Len(x)
    BY JoinIs
  <1>1. /\ \A k \in 1..Len(d) : (d \o x)[k] = d[k]
        /\ \A k \in 1..Len(x) : (d \o x)[Len(d) + k] = x[k]
    BY JoinIs
  <1>2. (d \o x)[Len(d) + Len(x)] = x[Len(x)]
    BY <1>0, <1>1
  <1>3. Len(x) > 1 => (d \o x)[Len(d) + (Len(x) - 1)] = x[Len(x) - 1]
    <2>1. Len(x) > 1 => Len(x) - 1 \in 1..Len(x)
      BY <1>0
    <2> QED BY <1>1, <2>1
  <1>4. Len(x) > 1 => Len(d) + (Len(x) - 1) = Len(d \o x) - 1
    BY <1>0
  <1>5. Len(d) > 0 => (d \o x)[Len(d)] = d[Len(d)]
    BY <1>0, <1>1
  <1>6. Len(x) = 1 => Len(d) = Len(d \o x) - 1
    BY <1>0
  <1> QED BY <1>0, <1>2, <1>3, <1>4, <1>5, <1>6

\* When d was flushed before and x is the rest of the output, stripping x alone gives
\* the reader what Handed allows.
LEMMA HandedOver ==
    ASSUME NEW d \in Text, NEW x \in Text
    PROVE  Handed(d \o StripNewline(x), d \o x)
  <1> DEFINE c == d \o x
             n == StripLen(x)
             out == d \o StripNewline(x)
  <1>0. /\ c \in Text /\ Len(d) \in Nat /\ Len(x) \in Nat /\ Len(c) = Len(d) + Len(x)
    BY JoinIs
  <1>1. n \in 0..Len(x) /\ StripNewline(x) = First(n, x)
    BY StripIs
  <1>2. out = First(Len(d) + n, c) /\ Len(d) + n \in 0..Len(c)
    <2>1. Len(d) \in 0..Len(c) /\ n \in 0..(Len(c) - Len(d)) /\ Len(d) + n \in 0..Len(c)
      BY <1>0, <1>1
    <2>2. First(Len(d) + n, c) = First(Len(d), c) \o First(n, From(Len(d) + 1, c))
      BY <1>0, <2>1, FirstOfRest
    <2> QED BY <1>1, <2>1, <2>2, JoinSplit
  <1>3. IsPrefix(out, c)
    BY <1>0, <1>2, FirstIsPrefix
  <1>4. StripLen(c) \in 0..Len(c) /\ StripNewline(c) = First(StripLen(c), c)
    BY <1>0, StripIs
  <1>5. First(Len(c), c) = c
    BY <1>0, FirstAll
  <1>6. x # <<>> => Len(x) # 0 /\ c # <<>>
    <2>1. x # <<>> => Len(x) \in Nat \ {0}
      BY EmptySeq DEF Text
    <2> QED BY <1>0, <2>1, EmptySeq
  <1>7. CASE x = <<>> \/ x[Len(x)] # NL
    <2>1. n = Len(x)
      BY <1>7, EmptySeq DEF StripLen
    <2> QED BY <1>0, <1>2, <1>3, <1>5, <2>1 DEF Handed
  <1>8. CASE x # <<>> /\ x[Len(x)] = NL
    <2>0. Len(x) \in Nat \ {0} /\ c # <<>> /\ c[Len(c)] = NL
      BY <1>0, <1>6, <1>8, LastOfJoin
    <2>1. CASE Len(x) > 1
      <3>1. c[Len(c) - 1] = x[Len(x) - 1]
        BY <2>0, <2>1, LastOfJoin
      <3>2. StripLen(c) = Len(d) + n
        <4> HIDE DEF c
        <4> QED BY <1>0, <1>8, <2>0, <2>1, <3>1 DEF StripLen
      <3> QED BY <1>2, <1>3, <1>4, <3>2 DEF Handed
    <2>2. CASE Len(x) = 1 /\ Len(d) > 0 /\ d[Len(d)] = CR
      <3>1. c[Len(c) - 1] = CR /\ Len(c) > 1
        BY <1>0, <2>0, <2>2, LastOfJoin
      <3>2. StripLen(c) = Len(d) - 1 /\ n = 0
        <4> HIDE DEF c
        <4> QED BY <1>0, <1>8, <2>0, <2>2, <3>1 DEF StripLen
      <3>3. out = d
        BY <1>0, <1>2, <2>2, <3>2, JoinSplit
      <3>4. Append(First(Len(d) - 1, c), CR) = d
        <4>1. Len(d) - 1 \in 0..Len(d)
          BY <1>0, <2>2
        <4>2. First(Len(d) - 1, c) = First(Len(d) - 1, d)
          BY <4>1, FirstJoin
        <4>3. First(Len(d) - 1, d) \o <<CR>> = d
          <5>1. d = First(Len(d) - 1, d) \o From(Len(d) - 1 + 1, d)
            BY <4>1, FirstAndRest
          <5>2. Len(d) - 1 + 1 = Len(d) /\ Len(d) \in 1..(Len(d) + 1)
            BY <1>0, <2>2
          <5>3. /\ From(Len(d), d) \in Text /\ Len(From(Len(d), d)) = Len(d) - Len(d) + 1
                /\ \A k \in 1..Len(From(Len(d), d)) : From(Len(d), d)[k] = d[Len(d) + k - 1]
            BY <5>2, FromIs
          <5>4. Len(From(Len(d), d)) = 1 /\ Len(d) + 1 - 1 = Len(d)
            BY <1>0, <5>3
          <5>5. From(Len(d), d)[1] = CR
            <6> HIDE DEF c, out
            <6> QED BY <2>2, <5>3, <5>4
          <5>6. <<CR>> \in Text /\ Len(<<CR>>) = 1 /\ <<CR>>[1] = CR
            <6>1. CR \in Alphabet
              BY DEF Alphabet
            <6> HIDE DEF c, out, n
            <6> QED BY <6>1 DEF Text
          <5>7. From(Len(d), d) = <<CR>>
            BY <5>3, <5>4, <5>5, <5>6, SameText
          <5> QED BY <5>1, <5>2, <5>7
        <4>4. First(Len(d) - 1, d) \in Text /\ CR \in Alphabet
          BY <4>1, FirstIs DEF Alphabet
        <4>5. Append(First(Len(d) - 1, d), CR) = First(Len(d) - 1, d) \o <<CR>>
          BY <4>4, AppendIsConcat DEF Text
        <4> QED BY <4>2, <4>3, <4>5
      <3> QED BY <1>3, <1>4, <3>2, <3>3, <3>4 DEF Handed
    <2>3. CASE Len(x) = 1 /\ ~(Len(d) > 0 /\ d[Len(d)] = CR)
      <3>1. Len(c) > 1 => c[Len(c) - 1] = d[Len(d)]
        BY <1>0, <2>0, <2>3, LastOfJoin
      <3>2. StripLen(c) = Len(d) + n
        <4> HIDE DEF c
        <4> QED BY <1>0, <1>8, <2>0, <2>3, <3>1 DEF StripLen
      <3> QED BY <1>2, <1>3, <1>4, <3>2 DEF Handed
    <2>4. Len(x) > 1 \/ Len(x) = 1
      <3>1. Len(x) \in Nat /\ Len(x) # 0
        BY <1>0, <1>6, <1>8
      <3>2. \A m \in Nat : m # 0 => m > 1 \/ m = 1
        OBVIOUS
      <3> QED BY <3>1, <3>2
    <2> QED BY <2>1, <2>2, <2>3, <2>4, Zenon
  <1> QED BY <1>7, <1>8

-----------------------------------------------------------------------------
(* What is kept of a stream while the BEG marker is looked for.            *)

\* The rest of the stream behind a point before which no marker can begin.
Sought(b, s) == \E k \in 0..Len(s) : b = From(k + 1, s) /\ Barred(BegMarker, s, k)

\* No marker is the empty text.
LEMMA NoEmptyMarker ==
    BegMarker # <<>> /\ EndMarker # <<>> /\ <<NL>> # <<>>
  BY DEF BegMarker, EndMarker

\* The type and the length of such a rest.
LEMMA SoughtIs ==
    ASSUME NEW s \in Text, NEW k \in 0..Len(s)
    PROVE  /\ From(k + 1, s) \in Text /\ Len(From(k + 1, s)) = Len(s) - k
           /\ Len(s) \in Nat /\ k \in Nat /\ k + 1 \in 1..(Len(s) + 1)
  <1>0. Len(s) \in Nat /\ k \in Nat /\ k + 1 \in 1..(Len(s) + 1)
    BY DEF Text
  <1>1. From(k + 1, s) \in Text /\ Len(From(k + 1, s)) = Len(s) - (k + 1) + 1
    BY <1>0, FromIs
  <1>2. Len(s) - (k + 1) + 1 = Len(s) - k
    BY <1>0
  <1> QED BY <1>0, <1>1, <1>2

\* It grows with the stream.
LEMMA SoughtGrows ==
    ASSUME NEW s \in Text, NEW t \in Text, NEW b, Sought(b, s)
    PROVE  Sought(b \o t, s \o t)
  <1>1. PICK k \in 0..Len(s) : b = From(k + 1, s) /\ Barred(BegMarker, s, k)
    BY DEF Sought
  <1>2. k \in Nat /\ k + 1 \in 1..(Len(s) + 1)
    BY SoughtIs
  <1>3. From(k + 1, s \o t) = b \o t
    BY <1>1, <1>2, FromJoin
  <1>4. Barred(BegMarker, s \o t, k)
    BY <1>1, <1>2, Markers, BarredStays
  <1>5. k \in 0..Len(s \o t)
    BY <1>2, JoinIs
  <1> QED BY <1>3, <1>4, <1>5 DEF Sought

\* Without a marker only its possible beginning is kept, ...
LEMMA SoughtInVain ==
    ASSUME NEW s \in Text, NEW b, Sought(b, s), Find(BegMarker, b) = 0
    PROVE  LET q == LastBytes(Len(BegMarker) - 1, b)
           IN q \in Text /\ Sought(q, s) /\ Len(q) < 2 /\ RefBeg(s) = 0
  <1> DEFINE q == LastBytes(Len(BegMarker) - 1, b)
  <1>1. PICK k \in 0..Len(s) : b = From(k + 1, s) /\ Barred(BegMarker, s, k)
    BY DEF Sought
  <1>2. b \in Text /\ Len(b) = Len(s) - k /\ Len(s) \in Nat /\ k \in Nat
    BY <1>1, SoughtIs
  <1>3. BegMarker \in Text /\ BegMarker # <<>> /\ Len(BegMarker) = 2
    BY Markers, NoEmptyMarker
  <1>4. RefBeg(s) = 0
    BY <1>1, <1>3, FindInRest DEF RefBeg
  <1>5. CASE Len(b) > 1
    <2>1. Len(b) \in 1..(Len(b) + 1) /\ Len(b) \in 1..(Len(s) - (k + 1) + 2)
          /\ k + 1 \in 1..(Len(s) + 1) /\ (k + 1) + Len(b) - 1 = (Len(s) - 1) + 1
          /\ Len(s) - 1 \in 0..Len(s) /\ Len(s) - 1 \in Nat /\ (Len(s) - 1) + 2 - 1 <= Len(s)
      BY <1>2, <1>5
    <2>2. q = From(Len(b), b)
      <3>1. 2 - 1 = 1 /\ Len(b) - 1 + 1 = Len(b)
        BY <1>2
      <3> QED BY <1>3, <1>5, <3>1 DEF LastBytes
    <2>3. From(Len(b), b) = From((Len(s) - 1) + 1, s)
      <3>1. From(Len(b), From(k + 1, s)) = From((k + 1) + Len(b) - 1, s)
        BY <2>1, FromFrom
      <3> QED BY <1>1, <2>1, <3>1
    <2>4. Barred(BegMarker, s, Len(s) - 1)
      BY <1>3, <1>4, <2>1, BarredAll DEF RefBeg
    <2>5. q \in Text /\ Len(q) = Len(b) - Len(b) + 1
      <3>1. From(Len(b), b) \in Text /\ Len(From(Len(b), b)) = Len(b) - Len(b) + 1
        BY <1>2, <2>1, FromIs
      <3> QED BY <2>2, <3>1
    <2>6. Len(q) < 2
      <3>1. Len(b) \in Nat
        BY <1>2 DEF Text
      <3> HIDE DEF q
      <3> QED BY <2>5, <3>1
    <2>7. Sought(q, s)
      BY <2>1, <2>2, <2>3, <2>4 DEF Sought
    <2> QED BY <1>4, <2>5, <2>6, <2>7
  <1>6. CASE ~(Len(b) > 1)
    <2>1. q = b
      <3>1. q = From(1, b)
        BY <1>3, <1>6 DEF LastBytes
      <3> QED BY <1>2, <3>1, FirstAll
    <2>2. Len(b) < 2
      BY <1>2, <1>6
    <2> QED BY <1>2, <1>4, <2>1, <2>2
  <1> QED BY <1>5, <1>6

\* ... and with one, everything from it on.
LEMMA SoughtAndFound ==
    ASSUME NEW s \in Text, NEW b, Sought(b, s), Find(BegMarker, b) # 0
    PROVE  LET i == Find(BegMarker, b)
           IN /\ RefBeg(s) # 0
              /\ From(i + Len(BegMarker), b) = RefAfterBeg(s) /\ RefAfterBeg(s) \in Text
              /\ From(i, b) \in Text /\ Sought(From(i, b), s)
              /\ Find(BegMarker, From(i, b)) # 0
  <1> DEFINE i == Find(BegMarker, b)
  <1>1. PICK k \in 0..Len(s) : b = From(k + 1, s) /\ Barred(BegMarker, s, k)
    BY DEF Sought
  <1>2. b \in Text /\ Len(b) = Len(s) - k /\ Len(s) \in Nat /\ k \in Nat /\ k + 1 \in 1..(Len(s) + 1)
    BY <1>1, SoughtIs
  <1>3. BegMarker \in Text /\ BegMarker # <<>> /\ Len(BegMarker) = 2
    BY Markers, NoEmptyMarker
  <1>4. RefBeg(s) = k + i
    BY <1>1, <1>3, FindInRest DEF RefBeg
  <1>5. i \in 1..Len(b) /\ OccursAt(BegMarker, b, i)
    <2>1. i \in 0..Len(b) /\ i # 0 /\ OccursAt(BegMarker, b, i)
      BY <1>2, <1>3, FindIs
    <2> HIDE DEF i
    <2> QED BY <1>2, <2>1
  <1>6. i + 2 - 1 <= Len(b)
    BY <1>3, <1>5 DEF OccursAt
  <1>7. RefBeg(s) # 0
    <2> HIDE DEF i
    <2> QED BY <1>2, <1>4, <1>5
  <1>8. From(i + Len(BegMarker), b) = RefAfterBeg(s)
    <2>1. /\ i + 2 \in 1..(Len(s) - (k + 1) + 2)
          /\ (k + 1) + (i + 2) - 1 = k + i + 2
      <3> HIDE DEF i
      <3> QED BY <1>2, <1>5, <1>6
    <2>2. From(i + 2, b) = From(k + i + 2, s)
      BY <1>1, <1>2, <2>1, FromFrom
    <2> QED BY <1>3, <1>4, <2>2 DEF RefAfterBeg
  <1>9. RefAfterBeg(s) \in Text
    <2>1. <<>> \in Text
      BY EmptySeq DEF Text
    <2> QED BY <1>7, <2>1, BegGrows
  <1>10. From(i, b) \in Text /\ Sought(From(i, b), s)
    <2>1. /\ i \in 1..(Len(s) - (k + 1) + 2) /\ i \in 1..(Len(b) + 1)
          /\ (k + 1) + i - 1 = (k + i - 1) + 1 /\ k + i - 1 \in 0..Len(s)
      <3> HIDE DEF i
      <3> QED BY <1>2, <1>5, <1>6
    <2>2. From(i, b) = From((k + i - 1) + 1, s)
      BY <1>1, <1>2, <2>1, FromFrom
    <2>3. Barred(BegMarker, s, k + i - 1)
      <3>1. Barred(BegMarker, s, RefBeg(s) - 1)
        BY <1>3, <1>7, BarredBefore DEF RefBeg
      <3>2. RefBeg(s) - 1 = k + i - 1
        <4> HIDE DEF i
        <4> QED BY <1>2, <1>4, <1>5
      <3> QED BY <3>1, <3>2
    <2>4. From(i, b) \in Text
      BY <1>2, <2>1, FromIs
    <2> QED BY <2>1, <2>2, <2>3, <2>4 DEF Sought
  <1>11. Find(BegMarker, From(i, b)) # 0
    <2>1. PICK j \in 0..Len(s) : From(i, b) = From(j + 1, s) /\ Barred(BegMarker, s, j)
      BY <1>10 DEF Sought
    <2>2. Find(BegMarker, From(i, b)) = 0 => Find(BegMarker, s) = 0
      BY <1>3, <2>1, FindInRest
    <2> QED BY <1>7, <2>2 DEF RefBeg
  <1> QED BY <1>7, <1>8, <1>9, <1>10, <1>11

-----------------------------------------------------------------------------
(* What the stream says is made of texts.                                  *)

\* The parts the reference definitions cut a stream into, where they are defined.
LEMMA RefTexts ==
    ASSUME NEW s \in Text
    PROVE  /\ RefStarted(s) => RefBody(s) \in Text
           /\ RefEnded(s) => RefCaptured(s) \in Text /\ RefAfterEnd(s) \in Text
           /\ RefComplete(s) => RefCode(s) \in Text
  <1>0. <<>> \in Text
    BY EmptySeq DEF Text
  <1>1. RefStarted(s) => RefBody(s) \in Text
    BY <1>0, BodyGrows
  <1>2. RefEnded(s) => RefCaptured(s) \in Text /\ RefAfterEnd(s) \in Text
    BY <1>0, EndGrows
  <1>3. ASSUME RefComplete(s) PROVE RefCode(s) \in Text
    <2> DEFINE f == Find(<<NL>>, RefAfterEnd(s))
    <2>1. RefAfterEnd(s) \in Text /\ f # 0
      BY <1>2, <1>3 DEF RefComplete
    <2>2. f \in 0..Len(RefAfterEnd(s)) /\ Len(RefAfterEnd(s)) \in Nat
      BY <2>1, FirstNewline DEF Text
    <2>3. f - 1 \in 0..Len(RefAfterEnd(s))
      <3> HIDE DEF f
      <3> QED BY <2>1, <2>2
    <2> QED BY <2>1, <2>3, FirstIs DEF RefCode
  <1> QED BY <1>1, <1>2, <1>3

\* What RunFramed is to return: the output up to the line END is on, less the
\* wrapper's newline.
Printed(s) == StripNewline(First(ThroughLastNewline(RefCaptured(s)), RefCaptured(s)))

\* The same, computed from the body without END cut off: what Captured does.
LEMMA PrintedIs ==
    ASSUME NEW s \in Text, RefEnded(s)
    PROVE  LET b == RefBody(s)
               c == First(Find(EndMarker, b) - 1, b)
           IN /\ Printed(s) = StripNewline(First(ThroughLastNewline(c), b))
              /\ Printed(s) \in Text
  <1> DEFINE b == RefBody(s)
             f == Find(EndMarker, b)
             c == First(f - 1, b)
             n == ThroughLastNewline(c)
  <1>1. b \in Text /\ f # 0
    BY RefTexts DEF RefEnded
  <1>2. f - 1 \in 0..Len(b)
    <2>1. f \in 0..Len(b) /\ Len(b) \in Nat
      <3>1. EndMarker \in Text
        BY Markers
      <3> QED BY <1>1, <3>1, FindIs DEF Text
    <2> HIDE DEF f, b
    <2> QED BY <1>1, <2>1
  <1>3. c \in Text /\ Len(c) = f - 1
    BY <1>1, <1>2, FirstIs
  <1>4. n \in 0..(f - 1)
    BY <1>3, LastNewline
  <1>5. First(n, c) = First(n, b)
    BY <1>1, <1>2, <1>4, FirstFirst
  <1>6. First(n, c) \in Text
    BY <1>3, <1>4, FirstIs
  <1>7. c = RefCaptured(s)
    BY DEF RefCaptured
  <1>8. StripNewline(First(n, c)) \in Text
    BY <1>6, StripIs
  <1> QED BY <1>5, <1>7, <1>8 DEF Printed

-----------------------------------------------------------------------------
(* The parser of a RunFramed.                                              *)

\* The operators of SentinelParser and of StreamingParser are those of MarkerText.
LEMMA SameInRun ==
    /\ \A m, s : Buffering!Find(m, s) = Find(m, s)
    /\ \A i, s : Buffering!From(i, s) = From(i, s)
    /\ \A n, s : Buffering!First(n, s) = First(n, s)
    /\ \A n, s : Buffering!LastBytes(n, s) = LastBytes(n, s)
    /\ \A s : Buffering!ThroughLastNewline(s) = ThroughLastNewline(s)
    /\ \A s : Buffering!StripNewline(s) = StripNewline(s)
    /\ \A s : Buffering!TrimSpace(s) = TrimSpace(s)
    /\ \A s : Buffering!IsNumber(s) = IsNumber(s)
    /\ Buffering!BegMarker = BegMarker /\ Buffering!EndMarker = EndMarker /\ Buffering!NL = NL
  <1>1. \A m, s : Buffering!Find(m, s) = Find(m, s)
    BY DEF Buffering!Find, Find, Buffering!OccursAt, OccursAt, Buffering!Min, Min
  <1>2. \A i, s : Buffering!From(i, s) = From(i, s)
    BY DEF Buffering!From, From
  <1>3. \A n, s : Buffering!First(n, s) = First(n, s)
    BY DEF Buffering!First, First
  <1>4. \A n, s : Buffering!LastBytes(n, s) = LastBytes(n, s)
    BY <1>2 DEF Buffering!LastBytes, LastBytes
  <1>5. \A s : Buffering!ThroughLastNewline(s) = ThroughLastNewline(s)
    BY DEF Buffering!ThroughLastNewline, ThroughLastNewline, Buffering!SelectLastInSeq,
           SelectLastInSeq, Buffering!NL, NL, Buffering!Max, Max
  <1>6. \A s : Buffering!StripNewline(s) = StripNewline(s)
    BY DEF Buffering!StripNewline, StripNewline, Buffering!Last, Last, Buffering!Front, Front,
           Buffering!First, First, Buffering!NL, NL, Buffering!CR, CR
  <1>7. \A s : Buffering!TrimSpace(s) = TrimSpace(s)
    BY DEF Buffering!TrimSpace, TrimSpace, Buffering!Blanks, Blanks, Buffering!NL, NL, Buffering!CR, CR,
           Buffering!Min, Min, Buffering!Max, Max
  <1>8. \A s : Buffering!IsNumber(s) = IsNumber(s)
    BY <1>7 DEF Buffering!IsNumber, IsNumber, Buffering!Digit, Digit
  <1>9. Buffering!BegMarker = BegMarker /\ Buffering!EndMarker = EndMarker /\ Buffering!NL = NL
    BY DEF Buffering!BegMarker, BegMarker, Buffering!EndMarker, EndMarker, Buffering!NL, NL
  <1> QED BY <1>1, <1>2, <1>3, <1>4, <1>5, <1>6, <1>7, <1>8, <1>9

\* The number the parsers read off a line is the one that is there.
LEMMA TrimReads ==
    ASSUME NEW s \in Text
    PROVE  /\ IsNumber(s) =>
                  \E i, j \in DOMAIN s : RefNumberAt(s, i, j) /\ TrimSpace(s) = SubSeq(s, i, j)
           /\ RefHasNumber(s) => IsNumber(s)
  <1> DEFINE kept == {i \in DOMAIN s : s[i] \notin Blanks}
  <1>0. /\ Len(s) \in Nat /\ DOMAIN s = 1..Len(s) /\ kept \subseteq 1..Len(s) /\ kept \subseteq Nat
        /\ Digit \notin Blanks
    BY DEF Text, Digit, Blanks, NL, CR
  <1>1. CASE kept = {}
    <2>1. ~IsNumber(s)
      BY <1>1 DEF IsNumber, TrimSpace
    <2>2. ~RefHasNumber(s)
      <3> SUFFICES ASSUME NEW i \in DOMAIN s, NEW j \in DOMAIN s, RefNumberAt(s, i, j)
                   PROVE  FALSE
        BY DEF RefHasNumber
      <3>1. i \in i..j
        BY <1>0 DEF RefNumberAt
      <3>2. s[i] = Digit
        BY <3>1 DEF RefNumberAt
      <3> QED BY <1>0, <1>1, <3>2
    <2> QED BY <2>1, <2>2
  <1>2. CASE kept # {}
    <2> DEFINE a == Min(kept)
               b == Max(kept)
    <2>1. /\ a \in kept /\ b \in kept /\ a <= b
          /\ \A k \in kept : a <= k /\ k <= b
          /\ TrimSpace(s) = SubSeq(s, a, b)
      <3>1. a \in kept /\ \A k \in kept : a <= k
        BY <1>0, <1>2, MinIs
      <3>2. b \in kept /\ \A k \in kept : b >= k
        BY <1>0, <1>2, MaxIs
      <3>3. TrimSpace(s) = SubSeq(s, a, b)
        BY <1>2 DEF TrimSpace
      <3> QED BY <1>0, <3>1, <3>2, <3>3
    <2> HIDE DEF kept, a, b
    <2>2. /\ a \in DOMAIN s /\ b \in DOMAIN s /\ a \in 1..Len(s) /\ b \in 1..Len(s)
      BY <1>0, <2>1
    <2>3. /\ Len(TrimSpace(s)) = b - a + 1 /\ TrimSpace(s) \in Text
          /\ \A k \in 1..(b - a + 1) : TrimSpace(s)[k] = s[a + k - 1]
      <3>1. a \in Nat \ {0} /\ b \in Nat /\ b <= Len(s)
        BY <1>0, <2>2
      <3> QED BY <2>1, <3>1, Pieces
    <2>4. ASSUME IsNumber(s) PROVE RefNumberAt(s, a, b)
      <3>1. ASSUME NEW k \in DOMAIN s, k \in a..b PROVE s[k] = Digit
        <4>1. k - a + 1 \in 1..(b - a + 1) /\ a + (k - a + 1) - 1 = k
          BY <1>0, <2>2, <3>1
        <4>2. DOMAIN TrimSpace(s) = 1..(b - a + 1)
          BY <2>3 DEF Text
        <4>3. TrimSpace(s)[k - a + 1] = Digit
          BY <2>4, <4>1, <4>2 DEF IsNumber
        <4> QED BY <2>3, <4>1, <4>3
      <3>2. ASSUME NEW k \in DOMAIN s, k \notin a..b PROVE s[k] \in Blanks
        <4>1. k \notin kept
          BY <1>0, <2>1, <2>2, <3>2
        <4> QED BY <4>1 DEF kept
      <3> QED BY <2>1, <3>1, <3>2 DEF RefNumberAt
    <2>5. ASSUME NEW i \in DOMAIN s, NEW j \in DOMAIN s, RefNumberAt(s, i, j)
          PROVE  IsNumber(s)
      <3>1. i \in Nat /\ j \in Nat /\ i <= j
        BY <1>0, <2>5 DEF RefNumberAt
      <3>2. ASSUME NEW k \in kept PROVE k \in i..j
        <4>1. k \in DOMAIN s /\ s[k] \notin Blanks
          BY DEF kept
        <4> QED BY <2>5, <4>1 DEF RefNumberAt
      <3>3. a \in i..j /\ b \in i..j
        BY <2>1, <3>2
      <3>4. \A k \in 1..(b - a + 1) : TrimSpace(s)[k] = Digit
        <4> SUFFICES ASSUME NEW k \in 1..(b - a + 1) PROVE TrimSpace(s)[k] = Digit
          OBVIOUS
        <4>1. a + k - 1 \in DOMAIN s /\ a + k - 1 \in i..j
          BY <1>0, <2>2, <3>1, <3>3
        <4>2. s[a + k - 1] = Digit
          BY <2>5, <4>1 DEF RefNumberAt
        <4> QED BY <2>3, <4>2
      <3>5. DOMAIN TrimSpace(s) = 1..(b - a + 1) /\ Len(TrimSpace(s)) # 0
        BY <2>1, <2>2, <2>3 DEF Text
      <3>6. TrimSpace(s) # <<>>
        BY <3>5
      <3> QED BY <3>4, <3>5, <3>6 DEF IsNumber
    <2> QED BY <2>1, <2>2, <2>4, <2>5 DEF RefHasNumber
  <1> QED BY <1>1, <1>2

\* Values of exitCode.
Codes == {<<>>} \cup {TrimSpace(t) : t \in Text}
Runs ==
    [state : {"beforeBEG", "capturing", "readingExitCode", "done"}, buf : Text, output : Text,
     exitCode : Codes, err : {"none", "protocol"}, maxOutput : Nat]

\* What a parser of a RunFramed that was given all of s has made of it, ...
Read(p, s) ==
    /\ p.err = "none" /\ p.state = "beforeBEG" => Sought(p.buf, s) /\ p.output = <<>>
    /\ p.err = "none" /\ p.state = "capturing" =>
           RefStarted(s) /\ p.buf = RefBody(s) /\ p.output = <<>>
    /\ p.err = "none" /\ p.state = "readingExitCode" =>
           RefEnded(s) /\ p.buf = RefAfterEnd(s) /\ p.output = Printed(s)
    /\ p.state = "done" =>
           /\ RefComplete(s) /\ IsNumber(RefCode(s)) /\ p.err = "none"
           /\ p.output = Printed(s) /\ p.exitCode = TrimSpace(RefCode(s))
    /\ p.err = "protocol" /\ p.maxOutput = 0 => RefComplete(s) /\ ~IsNumber(RefCode(s))
\* ... and what holds when it can make no more of it.
AtRest(p, s) ==
    p.err = "none" =>
        /\ p.state = "beforeBEG" =>
               ~RefStarted(s) /\ (Find(BegMarker, p.buf) = 0 => Len(p.buf) < Len(BegMarker))
        /\ p.state = "capturing" =>
               ~RefEnded(s) /\ (p.maxOutput > 0 => Len(p.buf) <= p.maxOutput)
        /\ p.state = "readingExitCode" => ~RefComplete(s)
\* One advance goes one state further or comes to rest.
Advanced(p, q, s) ==
    q.err = "none" =>
        \/ q.state = p.state /\ AtRest(q, s)
        \/ p.state = "beforeBEG" /\ q.state = "capturing"
        \/ p.state = "capturing" /\ q.state = "readingExitCode"
        \/ p.state = "readingExitCode" /\ q.state = "done"

\* stateBeforeBEG, of a RunFramed: the BEG line.
LEMMA RunBeforeBEG ==
    ASSUME NEW s \in Text, NEW p \in Runs, Read(p, s), p.err = "none", p.state = "beforeBEG",
           NEW q, q = Buffering!BeforeBEG(p)
    PROVE  q \in Runs /\ Read(q, s) /\ Advanced(p, q, s)
  <1> DEFINE idx == Find(BegMarker, p.buf)
             rest == From(idx + Len(BegMarker), p.buf)
             nl == Find(<<NL>>, rest)
             kept == LastBytes(Len(BegMarker) - 1, p.buf)
             tail == From(idx, p.buf)
  <1>0. q = IF idx = 0 THEN [p EXCEPT !.buf = kept]
            ELSE IF nl = 0 THEN [p EXCEPT !.buf = tail]
            ELSE [p EXCEPT !.state = "capturing", !.buf = From(nl + 1, rest)]
    BY SameInRun DEF Buffering!BeforeBEG, Buffering!Keep
  <1>1. Sought(p.buf, s) /\ p.output = <<>> /\ p.buf \in Text
    BY DEF Read, Runs
  <1>2. CASE idx = 0
    <2>1. kept \in Text /\ Sought(kept, s) /\ Len(kept) < 2 /\ RefBeg(s) = 0
      BY <1>1, <1>2, SoughtInVain
    <2>2. ~RefStarted(s) /\ Len(BegMarker) = 2
      BY <2>1, Markers DEF RefStarted
    <2>3. q = [p EXCEPT !.buf = kept]
      BY <1>0, <1>2
    <2> HIDE DEF kept
    <2>4. q \in Runs
      BY <2>1, <2>3 DEF Runs
    <2>5. q.state = "beforeBEG" /\ q.err = "none" /\ q.buf = kept /\ q.output = <<>>
      BY <1>1, <2>3 DEF Runs
    <2> QED BY <2>1, <2>2, <2>4, <2>5 DEF Read, Advanced, AtRest
  <1>3. CASE idx # 0
    <2>1. RefBeg(s) # 0 /\ rest = RefAfterBeg(s) /\ rest \in Text
      BY <1>1, <1>3, SoughtAndFound
    <2>2. tail \in Text /\ Sought(tail, s) /\ Find(BegMarker, tail) # 0
      BY <1>1, <1>3, SoughtAndFound
    <2>3. CASE nl = 0
      <3>1. ~RefStarted(s)
        BY <2>1, <2>3 DEF RefStarted
      <3>2. q = [p EXCEPT !.buf = tail]
        BY <1>0, <1>3, <2>3
      <3> HIDE DEF tail
      <3>3. q \in Runs
        BY <2>2, <3>2 DEF Runs
      <3>4. q.state = "beforeBEG" /\ q.err = "none" /\ q.buf = tail /\ q.output = <<>>
        BY <1>1, <3>2 DEF Runs
      <3> QED BY <2>2, <3>1, <3>3, <3>4 DEF Read, Advanced, AtRest
    <2>4. CASE nl # 0
      <3>1. RefStarted(s) /\ From(nl + 1, rest) = RefBody(s)
        BY <2>1, <2>4 DEF RefStarted, RefBody
      <3>2. RefBody(s) \in Text
        BY <3>1, RefTexts
      <3>3. q = [p EXCEPT !.state = "capturing", !.buf = RefBody(s)]
        BY <1>0, <1>3, <2>4, <3>1
      <3>4. q \in Runs
        BY <3>2, <3>3 DEF Runs
      <3>5. q.state = "capturing" /\ q.err = "none" /\ q.buf = RefBody(s) /\ q.output = <<>>
        BY <1>1, <3>3 DEF Runs
      <3> QED BY <3>1, <3>4, <3>5 DEF Read, Advanced
    <2> QED BY <2>3, <2>4
  <1> QED BY <1>2, <1>3

\* stateCapturing: the cap, and the END marker.
LEMMA RunCapturing ==
    ASSUME NEW s \in Text, NEW p \in Runs, Read(p, s), p.err = "none", p.state = "capturing",
           NEW q, q = Buffering!Capturing(p)
    PROVE  q \in Runs /\ Read(q, s) /\ Advanced(p, q, s)
  <1> DEFINE idx == Find(EndMarker, p.buf)
             c == First(idx - 1, p.buf)
             captured == StripNewline(First(ThroughLastNewline(c), p.buf))
             out == p.output \o captured
             rest == From(idx + Len(EndMarker), p.buf)
  <1>0. q = IF p.maxOutput > 0 /\ Len(p.buf) > p.maxOutput THEN [p EXCEPT !.err = "protocol"]
            ELSE IF idx = 0 THEN p
            ELSE IF p.maxOutput > 0 /\ Len(out) > p.maxOutput THEN [p EXCEPT !.err = "protocol"]
            ELSE [p EXCEPT !.state = "readingExitCode", !.output = out, !.buf = rest]
    BY SameInRun DEF Buffering!Capturing, Buffering!Captured, Buffering!LineStart, Buffering!OverCap
  <1>1. RefStarted(s) /\ p.buf = RefBody(s) /\ p.output = <<>> /\ p.buf \in Text
        /\ Len(p.buf) \in Nat /\ p.maxOutput \in Nat
    BY DEF Read, Runs, Text
  <1>2. CASE q = [p EXCEPT !.err = "protocol"] /\ p.maxOutput > 0
    <2>1. q \in Runs
      BY <1>2 DEF Runs
    <2>2. q.err = "protocol" /\ q.state = "capturing" /\ q.maxOutput > 0
      BY <1>2 DEF Runs
    <2>3. q.maxOutput # 0
      BY <1>1, <1>2, <2>2 DEF Runs
    <2> QED BY <2>1, <2>2, <2>3 DEF Read, Advanced
  <1>3. CASE q = p /\ idx = 0 /\ ~(p.maxOutput > 0 /\ Len(p.buf) > p.maxOutput)
    <2>1. ~RefEnded(s)
      BY <1>1, <1>3 DEF RefEnded
    <2>2. p.maxOutput > 0 => Len(p.buf) <= p.maxOutput
      BY <1>1, <1>3
    <2> QED BY <1>3, <2>1, <2>2 DEF Advanced, AtRest
  <1>4. CASE idx # 0 /\ q = [p EXCEPT !.state = "readingExitCode", !.output = out, !.buf = rest]
    <2>1. RefEnded(s)
      BY <1>1, <1>4 DEF RefEnded
    <2>2. captured = Printed(s) /\ Printed(s) \in Text
      BY <1>1, <2>1, PrintedIs
    <2>3. out = Printed(s)
      BY <1>1, <2>2, ConcatEmptySeq DEF Text
    <2>4. rest = RefAfterEnd(s) /\ RefAfterEnd(s) \in Text
      BY <1>1, <2>1, RefTexts DEF RefAfterEnd
    <2>5. q = [p EXCEPT !.state = "readingExitCode", !.output = Printed(s), !.buf = RefAfterEnd(s)]
      BY <1>4, <2>3, <2>4
    <2>6. q \in Runs
      BY <2>2, <2>4, <2>5 DEF Runs
    <2>7. /\ q.state = "readingExitCode" /\ q.err = "none"
          /\ q.buf = RefAfterEnd(s) /\ q.output = Printed(s)
      BY <2>5 DEF Runs
    <2> QED BY <2>1, <2>6, <2>7 DEF Read, Advanced
  <1> QED BY <1>0, <1>2, <1>3, <1>4

\* stateReadingExitCode: the rest of the END line.
LEMMA RunReadingExitCode ==
    ASSUME NEW s \in Text, NEW p \in Runs, Read(p, s), p.err = "none",
           p.state = "readingExitCode", NEW q, q = Buffering!ReadingExitCode(p)
    PROVE  q \in Runs /\ Read(q, s) /\ Advanced(p, q, s)
  <1> DEFINE nl == Find(<<NL>>, p.buf)
             line == First(nl - 1, p.buf)
  <1>0. q = IF nl = 0 THEN p
            ELSE IF ~IsNumber(line) THEN [p EXCEPT !.err = "protocol"]
            ELSE [p EXCEPT !.state = "done", !.exitCode = TrimSpace(line), !.buf = <<>>]
    BY SameInRun DEF Buffering!ReadingExitCode
  <1>1. RefEnded(s) /\ p.buf = RefAfterEnd(s) /\ p.output = Printed(s)
    BY DEF Read
  <1>2. CASE nl = 0
    <2>1. ~RefComplete(s) /\ q = p
      BY <1>0, <1>1, <1>2 DEF RefComplete
    <2> QED BY <2>1 DEF Advanced, AtRest
  <1>3. CASE nl # 0
    <2>1. RefComplete(s) /\ line = RefCode(s) /\ RefCode(s) \in Text
      BY <1>1, <1>3, RefTexts DEF RefComplete, RefCode
    <2>2. CASE ~IsNumber(line)
      <3>1. q = [p EXCEPT !.err = "protocol"]
        BY <1>0, <1>3, <2>2
      <3>2. q \in Runs /\ q.err = "protocol" /\ q.state = "readingExitCode"
        BY <3>1 DEF Runs
      <3> QED BY <2>1, <2>2, <3>2 DEF Read, Advanced
    <2>3. CASE IsNumber(line)
      <3>1. q = [p EXCEPT !.state = "done", !.exitCode = TrimSpace(RefCode(s)), !.buf = <<>>]
        BY <1>0, <1>3, <2>1, <2>3
      <3>2. TrimSpace(RefCode(s)) \in Codes /\ <<>> \in Text
        BY <2>1, EmptySeq DEF Codes, Text
      <3>3. q \in Runs
        BY <3>1, <3>2 DEF Runs
      <3>4. /\ q.state = "done" /\ q.err = "none" /\ q.output = Printed(s)
            /\ q.exitCode = TrimSpace(RefCode(s))
        BY <1>1, <3>1 DEF Runs
      <3> QED BY <2>1, <2>3, <3>3, <3>4 DEF Read, Advanced
    <2> QED BY <2>2, <2>3
  <1> QED BY <1>2, <1>3

\* advance, in any state.
LEMMA RunAdvance ==
    ASSUME NEW s \in Text, NEW p \in Runs, Read(p, s)
    PROVE  LET q == Buffering!Advance(p)
           IN q \in Runs /\ Read(q, s) /\ Advanced(p, q, s)
  <1> DEFINE q == Buffering!Advance(p)
  <1>1. CASE p.err # "none"
    <2>1. q = p
      BY <1>1 DEF Buffering!Advance
    <2> QED BY <1>1, <2>1 DEF Advanced
  <1>2. CASE p.err = "none" /\ p.state = "done"
    <2>1. q = p
      BY <1>2 DEF Buffering!Advance
    <2> QED BY <1>2, <2>1 DEF Advanced, AtRest
  <1>3. CASE p.err = "none" /\ p.state = "beforeBEG"
    <2>1. q = Buffering!BeforeBEG(p)
      BY <1>3 DEF Buffering!Advance
    <2> QED BY <1>3, <2>1, RunBeforeBEG
  <1>4. CASE p.err = "none" /\ p.state = "capturing"
    <2>1. q = Buffering!Capturing(p)
      BY <1>4 DEF Buffering!Advance
    <2> QED BY <1>4, <2>1, RunCapturing
  <1>5. CASE p.err = "none" /\ p.state = "readingExitCode"
    <2>1. q = Buffering!ReadingExitCode(p)
      BY <1>5 DEF Buffering!Advance
    <2> QED BY <1>5, <2>1, RunReadingExitCode
  <1> QED BY <1>1, <1>2, <1>3, <1>4, <1>5 DEF Runs

\* What is at rest stays so.
LEMMA RestIsKept ==
    ASSUME NEW s \in Text, NEW p \in Runs, NEW q \in Runs, Read(q, s), AtRest(p, s),
           p.err = "none", q.err = "none", Advanced(p, q, s)
    PROVE  AtRest(q, s)
  BY DEF Read, AtRest, Advanced, RefEnded, RefComplete, Runs

\* feed: three rounds come to rest, since each goes one state further or rests.
LEMMA RunFed ==
    ASSUME NEW s \in Text, NEW t \in Text, NEW p \in Runs, Read(p, s),
           p.err = "none", p.state # "done"
    PROVE  LET q == Buffering!Fed(p, t)
           IN q \in Runs /\ Read(q, s \o t) /\ AtRest(q, s \o t)
  <1> DEFINE u == s \o t
             p0 == [p EXCEPT !.buf = @ \o t]
             p1 == Buffering!Advance(p0)
             p2 == Buffering!Advance(p1)
             p3 == Buffering!Advance(p2)
  <1>0. u \in Text /\ p.buf \in Text /\ p.buf \o t \in Text
    BY JoinIs DEF Runs
  <1>1. p0 \in Runs /\ Read(p0, u)
    <2>1. p0 \in Runs /\ p0.state = p.state /\ p0.err = "none" /\ p0.output = p.output
          /\ p0.buf = p.buf \o t
      BY <1>0 DEF Runs
    <2>2. CASE p.state = "beforeBEG"
      <3>1. Sought(p.buf \o t, u)
        BY <2>2, SoughtGrows DEF Read
      <3>2. p.output = <<>>
        BY <2>2 DEF Read
      <3> HIDE DEF p0, u
      <3> QED BY <2>1, <2>2, <3>1, <3>2 DEF Read
    <2>3. CASE p.state = "capturing"
      <3>1. RefStarted(s) /\ p.buf = RefBody(s) /\ p.output = <<>>
        BY <2>3 DEF Read
      <3>2. RefStarted(u) /\ RefBody(u) = p.buf \o t
        BY <3>1, BodyGrows
      <3> HIDE DEF p0, u
      <3> QED BY <2>1, <2>3, <3>1, <3>2 DEF Read
    <2>4. CASE p.state = "readingExitCode"
      <3>1. RefEnded(s) /\ p.buf = RefAfterEnd(s) /\ p.output = Printed(s)
        BY <2>4 DEF Read
      <3>2. RefEnded(u) /\ RefAfterEnd(u) = p.buf \o t /\ Printed(u) = Printed(s)
        BY <3>1, EndGrows DEF Printed
      <3> HIDE DEF p0, u
      <3> QED BY <2>1, <2>4, <3>1, <3>2 DEF Read
    <2> QED BY <2>1, <2>2, <2>3, <2>4 DEF Runs
  <1>2. p1 \in Runs /\ Read(p1, u) /\ Advanced(p0, p1, u)
    BY <1>0, <1>1, RunAdvance
  <1>3. p2 \in Runs /\ Read(p2, u) /\ Advanced(p1, p2, u)
    BY <1>0, <1>2, RunAdvance
  <1>4. p3 \in Runs /\ Read(p3, u) /\ Advanced(p2, p3, u)
    BY <1>0, <1>3, RunAdvance
  <1>5. (p1.err # "none" => p2 = p1) /\ (p2.err # "none" => p3 = p2)
    BY DEF Buffering!Advance
  <1>6. p3 = Buffering!Fed(p, t)
    BY DEF Buffering!Fed
  <1> HIDE DEF u, p0, p1, p2, p3
  <1>7. AtRest(p3, u)
    <2> SUFFICES ASSUME p3.err = "none" PROVE AtRest(p3, u)
      BY DEF AtRest
    <2>1. p2.err = "none" /\ p1.err = "none"
      BY <1>5
    <2>2. AtRest(p1, u) => AtRest(p2, u)
      BY <1>0, <1>2, <1>3, <2>1, RestIsKept
    <2>3. AtRest(p2, u) => AtRest(p3, u)
      BY <1>0, <1>3, <1>4, <2>1, RestIsKept
    <2>4. p3.state = "done" => AtRest(p3, u)
      BY DEF AtRest
    <2>5. \/ AtRest(p1, u) \/ AtRest(p2, u) \/ AtRest(p3, u) \/ p3.state = "done"
      BY <1>2, <1>3, <1>4, <2>1 DEF Advanced
    <2> QED BY <2>2, <2>3, <2>4, <2>5
  <1> QED BY <1>4, <1>6, <1>7 DEF u

\* A parser that has come to an end keeps what it has, whatever follows.
LEMMA EndIsKept ==
    ASSUME NEW s \in Text, NEW t \in Text, NEW p, Read(p, s), p.state = "done" \/ p.err # "none"
    PROVE  Read(p, s \o t)
  <1>1. RefComplete(s) =>
            /\ RefComplete(s \o t) /\ RefCode(s \o t) = RefCode(s)
            /\ Printed(s \o t) = Printed(s)
    BY CompleteGrows, EndGrows DEF RefComplete, Printed
  <1> QED BY <1>1 DEF Read

-----------------------------------------------------------------------------
(* The parser of a Pipe.                                                   *)

\* The operators of StreamingParser are those of MarkerText.
LEMMA SameInPipe ==
    /\ \A m, s : Flushing!Find(m, s) = Find(m, s)
    /\ \A i, s : Flushing!From(i, s) = From(i, s)
    /\ \A n, s : Flushing!First(n, s) = First(n, s)
    /\ \A n, s : Flushing!LastBytes(n, s) = LastBytes(n, s)
    /\ \A s : Flushing!ThroughLastNewline(s) = ThroughLastNewline(s)
    /\ \A s : Flushing!StripNewline(s) = StripNewline(s)
    /\ \A s : Flushing!TrimSpace(s) = TrimSpace(s)
    /\ \A s : Flushing!IsNumber(s) = IsNumber(s)
    /\ Flushing!BegMarker = BegMarker /\ Flushing!EndMarker = EndMarker /\ Flushing!NL = NL
  <1>1. \A m, s : Flushing!Find(m, s) = Find(m, s)
    BY DEF Flushing!Find, Find, Flushing!OccursAt, OccursAt, Flushing!Min, Min
  <1>2. \A i, s : Flushing!From(i, s) = From(i, s)
    BY DEF Flushing!From, From
  <1>3. \A n, s : Flushing!First(n, s) = First(n, s)
    BY DEF Flushing!First, First
  <1>4. \A n, s : Flushing!LastBytes(n, s) = LastBytes(n, s)
    BY <1>2 DEF Flushing!LastBytes, LastBytes
  <1>5. \A s : Flushing!ThroughLastNewline(s) = ThroughLastNewline(s)
    BY DEF Flushing!ThroughLastNewline, ThroughLastNewline, Flushing!SelectLastInSeq,
           SelectLastInSeq, Flushing!NL, NL, Flushing!Max, Max
  <1>6. \A s : Flushing!StripNewline(s) = StripNewline(s)
    BY DEF Flushing!StripNewline, StripNewline, Flushing!Last, Last, Flushing!Front, Front,
           Flushing!First, First, Flushing!NL, NL, Flushing!CR, CR
  <1>7. \A s : Flushing!TrimSpace(s) = TrimSpace(s)
    BY DEF Flushing!TrimSpace, TrimSpace, Flushing!Blanks, Blanks, Flushing!NL, NL, Flushing!CR, CR,
           Flushing!Min, Min, Flushing!Max, Max
  <1>8. \A s : Flushing!IsNumber(s) = IsNumber(s)
    BY <1>7 DEF Flushing!IsNumber, IsNumber, Flushing!Digit, Digit
  <1>9. Flushing!BegMarker = BegMarker /\ Flushing!EndMarker = EndMarker /\ Flushing!NL = NL
    BY DEF Flushing!BegMarker, BegMarker, Flushing!EndMarker, EndMarker, Flushing!NL, NL
  <1> QED BY <1>1, <1>2, <1>3, <1>4, <1>5, <1>6, <1>7, <1>8, <1>9

Pipes ==
    [state : {"beforeBEG", "streaming", "readingExitCode", "done"}, buf : Text,
     delivered : Text, exitCode : Codes, err : {"none", "protocol"}]

\* What a parser of a Pipe that was given all of s has made of it, ...
Piped(p, s) ==
    /\ p.err = "none" /\ p.state = "beforeBEG" => Sought(p.buf, s) /\ p.delivered = <<>>
    /\ p.err = "none" /\ p.state = "streaming" =>
           /\ RefStarted(s) /\ RefBody(s) = p.delivered \o p.buf
           /\ Barred(EndMarker, RefBody(s), Len(p.delivered))
    /\ p.err = "none" /\ p.state = "readingExitCode" => RefEnded(s) /\ p.buf = RefAfterEnd(s)
    /\ p.state = "done" =>
           /\ RefComplete(s) /\ IsNumber(RefCode(s)) /\ p.err = "none"
           /\ p.exitCode = TrimSpace(RefCode(s))
    /\ p.err = "protocol" =>
           p.state = "readingExitCode" /\ RefComplete(s) /\ ~IsNumber(RefCode(s))
    /\ p.state \in {"readingExitCode", "done"} => Handed(p.delivered, RefCaptured(s))
\* ... and what holds when it can make no more of it.
NoNewline(b, m) == \A i \in 1..m : b[i] # NL
PipeAtRest(p, s) ==
    p.err = "none" =>
        /\ p.state = "beforeBEG" => ~RefStarted(s)
        /\ p.state = "streaming" => ~RefEnded(s) /\ NoNewline(p.buf, Len(p.buf))
        /\ p.state = "readingExitCode" => ~RefComplete(s)
PipeAdvanced(p, q, s) ==
    q.err = "none" =>
        \/ q.state = p.state /\ PipeAtRest(q, s)
        \/ p.state = "beforeBEG" /\ q.state = "streaming" /\ q.buf = RefBody(s)
        \/ p.state = "streaming" /\ q.state = "readingExitCode"
        \/ p.state = "readingExitCode" /\ q.state = "done"
\* A round that comes to rest has kept at most the hard limit, or what follows
\* a beginning without a newline.
KeptLittle(b, c) ==
    \A m \in 0..Len(b) : NoNewline(b, m) => Len(c) <= HardLimit \/ Len(c) <= Len(b) - m

\* stateBeforeBEG, of a Pipe.
LEMMA PipeBeforeBEG ==
    ASSUME NEW s \in Text, NEW p \in Pipes, Piped(p, s), p.err = "none", p.state = "beforeBEG",
           NEW q, q = Flushing!BeforeBEG(p)
    PROVE  q \in Pipes /\ Piped(q, s) /\ PipeAdvanced(p, q, s)
  <1> DEFINE idx == Find(BegMarker, p.buf)
             rest == From(idx + Len(BegMarker), p.buf)
             nl == Find(<<NL>>, rest)
             kept == LastBytes(Len(BegMarker) - 1, p.buf)
             tail == From(idx, p.buf)
  <1>0. q = IF idx = 0 THEN [p EXCEPT !.buf = kept]
            ELSE IF nl = 0 THEN [p EXCEPT !.buf = tail]
            ELSE [p EXCEPT !.state = "streaming", !.buf = From(nl + 1, rest)]
    BY SameInPipe DEF Flushing!BeforeBEG
  <1>1. Sought(p.buf, s) /\ p.delivered = <<>> /\ p.buf \in Text
    BY DEF Piped, Pipes
  <1>2. CASE idx = 0
    <2>1. kept \in Text /\ Sought(kept, s) /\ RefBeg(s) = 0
      BY <1>1, <1>2, SoughtInVain
    <2>2. ~RefStarted(s)
      BY <2>1 DEF RefStarted
    <2>3. q = [p EXCEPT !.buf = kept]
      BY <1>0, <1>2
    <2> HIDE DEF kept
    <2>4. q \in Pipes
      BY <2>1, <2>3 DEF Pipes
    <2>5. q.state = "beforeBEG" /\ q.err = "none" /\ q.buf = kept /\ q.delivered = <<>>
      BY <1>1, <2>3 DEF Pipes
    <2> QED BY <2>1, <2>2, <2>4, <2>5 DEF Piped, PipeAdvanced, PipeAtRest
  <1>3. CASE idx # 0
    <2>1. RefBeg(s) # 0 /\ rest = RefAfterBeg(s) /\ rest \in Text
      BY <1>1, <1>3, SoughtAndFound
    <2>2. tail \in Text /\ Sought(tail, s)
      BY <1>1, <1>3, SoughtAndFound
    <2>3. CASE nl = 0
      <3>1. ~RefStarted(s)
        BY <2>1, <2>3 DEF RefStarted
      <3>2. q = [p EXCEPT !.buf = tail]
        BY <1>0, <1>3, <2>3
      <3> HIDE DEF tail
      <3>3. q \in Pipes
        BY <2>2, <3>2 DEF Pipes
      <3>4. q.state = "beforeBEG" /\ q.err = "none" /\ q.buf = tail /\ q.delivered = <<>>
        BY <1>1, <3>2 DEF Pipes
      <3> QED BY <2>2, <3>1, <3>3, <3>4 DEF Piped, PipeAdvanced, PipeAtRest
    <2>4. CASE nl # 0
      <3>1. RefStarted(s) /\ From(nl + 1, rest) = RefBody(s)
        BY <2>1, <2>4 DEF RefStarted, RefBody
      <3>2. RefBody(s) \in Text /\ <<>> \o RefBody(s) = RefBody(s)
        BY <3>1, RefTexts, ConcatEmptySeq DEF Text
      <3>3. q = [p EXCEPT !.state = "streaming", !.buf = RefBody(s)]
        BY <1>0, <1>3, <2>4, <3>1
      <3>4. q \in Pipes
        BY <3>2, <3>3 DEF Pipes
      <3>5. q.state = "streaming" /\ q.err = "none" /\ q.buf = RefBody(s) /\ q.delivered = <<>>
        BY <1>1, <3>3 DEF Pipes
      <3>6. Barred(EndMarker, RefBody(s), Len(<<>>))
        <4>1. Len(<<>>) = 0
          OBVIOUS
        <4> QED BY <4>1 DEF Barred
      <3> QED BY <3>1, <3>2, <3>4, <3>5, <3>6 DEF Piped, PipeAdvanced
    <2> QED BY <2>3, <2>4
  <1> QED BY <1>2, <1>3

\* What is written out of a buffer without an END marker, and what is kept.
LEMMA FlushIs ==
    ASSUME NEW b \in Text, NEW n, n = Flushing!FlushEnd(b)
    PROVE  /\ n \in 0..Len(b) /\ From(n + 1, b) \in Text /\ First(n, b) \in Text
           /\ Len(From(n + 1, b)) = Len(b) - n
           /\ NoNewline(From(n + 1, b), Len(From(n + 1, b)))
           /\ KeptLittle(b, From(n + 1, b))
           /\ n = 0 \/ b[n] = NL \/ n = Len(b) - 1
  <1> DEFINE k == ThroughLastNewline(b)
             r == From(n + 1, b)
  <1>0. Len(b) \in Nat /\ HardLimit \in Nat \ {0}
    BY LimitAssumption DEF Text
  <1>1. k \in 0..Len(b) /\ (k # 0 => b[k] = NL) /\ \A i \in 1..Len(b) : i > k => b[i] # NL
    BY LastNewline
  <1>2. n = IF k > 0 THEN k ELSE IF Len(b) > HardLimit THEN Len(b) - 1 ELSE 0
    <2>1. Len(Flushing!EndMarker) - 1 = 1
      <3>1. Flushing!EndMarker = EndMarker
        BY SameInPipe
      <3>2. Len(EndMarker) = 2
        BY Markers
      <3> QED BY <3>1, <3>2
    <2> QED BY <2>1, SameInPipe DEF Flushing!FlushEnd
  <1> HIDE DEF k
  <1>3. n \in 0..Len(b) /\ n >= k /\ (n = 0 \/ b[n] = NL \/ n = Len(b) - 1)
    BY <1>0, <1>1, <1>2
  <1>4. r \in Text /\ First(n, b) \in Text /\ Len(r) = Len(b) - n
        /\ \A i \in 1..Len(r) : r[i] = b[n + i]
    <2>1. n + 1 \in 1..(Len(b) + 1) /\ \A i : (n + 1) + i - 1 = n + 1 + i - 1
      BY <1>0, <1>3
    <2>2. /\ r \in Text /\ Len(r) = Len(b) - (n + 1) + 1
          /\ \A i \in 1..Len(r) : r[i] = b[(n + 1) + i - 1]
      BY <2>1, FromIs
    <2>3. Len(r) = Len(b) - n
      BY <1>0, <1>3, <2>2
    <2>4. \A i \in 1..Len(r) : (n + 1) + i - 1 = n + i
      <3> HIDE DEF r
      <3> QED BY <1>0, <1>3, <2>3
    <2>5. First(n, b) \in Text
      BY <1>3, FirstIs
    <2> QED BY <2>2, <2>3, <2>4, <2>5
  <1> HIDE DEF r
  <1>5. NoNewline(r, Len(r))
    <2> SUFFICES ASSUME NEW i \in 1..Len(r) PROVE r[i] # NL
      BY DEF NoNewline
    <2>1. n + i \in 1..Len(b) /\ n + i > k
      BY <1>0, <1>1, <1>3, <1>4
    <2> QED BY <1>1, <1>4, <2>1
  <1>6. KeptLittle(b, r)
    <2> SUFFICES ASSUME NEW m \in 0..Len(b), NoNewline(b, m)
                 PROVE  Len(r) <= HardLimit \/ Len(r) <= Len(b) - m
      BY DEF KeptLittle
    <2>1. CASE k > 0
      <3>1. k > m
        <4> SUFFICES ASSUME k <= m PROVE FALSE
          BY <1>0, <1>1
        <4>1. k \in 1..m /\ b[k] = NL
          BY <1>0, <1>1, <2>1
        <4> QED BY <4>1 DEF NoNewline
      <3> QED BY <1>0, <1>1, <1>2, <1>4, <2>1, <3>1
    <2>2. CASE ~(k > 0)
      BY <1>0, <1>2, <1>4, <2>2
    <2> QED BY <2>1, <2>2
  <1> QED BY <1>3, <1>4, <1>5, <1>6 DEF r

\* stateStreaming: what is flushed cannot hold a beginning of END, and what END
\* was found behind is handed over.
LEMMA PipeStreaming ==
    ASSUME NEW s \in Text, NEW p \in Pipes, Piped(p, s), p.err = "none", p.state = "streaming",
           NEW q, q = Flushing!Streaming(p)
    PROVE  /\ q \in Pipes /\ Piped(q, s) /\ PipeAdvanced(p, q, s)
           /\ q.state = "streaming" => KeptLittle(p.buf, q.buf)
  <1> DEFINE b == p.buf
             d == p.delivered
             body == RefBody(s)
             idx == Find(EndMarker, b)
             n == Flushing!FlushEnd(b)
             x == First(idx - 1, b)
             rest == From(idx + Len(EndMarker), b)
  <1>0. q = IF idx = 0
            THEN [p EXCEPT !.delivered = d \o First(n, b), !.buf = From(n + 1, b)]
            ELSE [p EXCEPT !.state = "readingExitCode", !.delivered = d \o StripNewline(x),
                           !.buf = rest]
    BY SameInPipe DEF Flushing!Streaming, Flushing!AfterFlush, Pipes
  <1>1. /\ RefStarted(s) /\ body = d \o b /\ Barred(EndMarker, body, Len(d))
        /\ b \in Text /\ d \in Text /\ body \in Text
    BY RefTexts DEF Piped, Pipes
  <1>2. Len(b) \in Nat /\ Len(d) \in Nat /\ Len(body) = Len(d) + Len(b)
        /\ Len(d) \in 0..Len(body) /\ From(Len(d) + 1, body) = b
    <2>1. Len(b) \in Nat /\ Len(d) \in Nat /\ Len(body) = Len(d) + Len(b)
      <3>1. Len(b) \in Nat /\ Len(d) \in Nat /\ Len(d \o b) = Len(d) + Len(b)
        BY <1>1, JoinIs
      <3> QED BY <1>1, <3>1
    <2>2. From(Len(d) + 1, body) = b
      BY <1>1, JoinSplit
    <2> HIDE DEF b, d, body
    <2> QED BY <2>1, <2>2
  <1>3. Find(EndMarker, body) = IF idx = 0 THEN 0 ELSE Len(d) + idx
    <2>1. EndMarker \in Text /\ EndMarker # <<>>
      BY Markers, NoEmptyMarker
    <2>2. idx = Find(EndMarker, From(Len(d) + 1, body))
      BY <1>2
    <2> HIDE DEF d, body, idx
    <2>3. Find(EndMarker, body) =
              IF Find(EndMarker, From(Len(d) + 1, body)) = 0 THEN 0
              ELSE Len(d) + Find(EndMarker, From(Len(d) + 1, body))
      BY <1>1, <1>2, <2>1, FindInRest
    <2> QED BY <2>2, <2>3
  <1>4. CASE idx = 0
    <2> DEFINE r == From(n + 1, b)
               f == First(n, b)
    <2>1. ~RefEnded(s)
      BY <1>3, <1>4 DEF RefEnded
    <2>2. /\ n \in 0..Len(b) /\ r \in Text /\ f \in Text /\ Len(r) = Len(b) - n
          /\ NoNewline(r, Len(r)) /\ KeptLittle(b, r)
          /\ n = 0 \/ b[n] = NL \/ n = Len(b) - 1
      <3> HIDE DEF b
      <3> QED BY <1>1, FlushIs
    <2>3. b = f \o r /\ Len(f) = n
      BY <1>1, <2>2, FirstAndRest, FirstIs
    <2>4. body = (d \o f) \o r /\ d \o f \in Text /\ Len(d \o f) = Len(d) + n
      <3>1. (d \o f) \o r = d \o (f \o r)
        BY <1>1, <2>2, JoinJoin
      <3>2. d \o f \in Text /\ Len(d \o f) = Len(d) + Len(f)
        BY <1>1, <2>2, JoinIs
      <3> QED BY <1>1, <2>3, <3>1, <3>2
    <2>5. Barred(EndMarker, body, Len(d) + n)
      <3>1. Find(EndMarker, body) = 0 /\ EndMarker \in Text /\ EndMarker # <<>> /\ Len(EndMarker) = 2
        BY <1>3, <1>4, Markers, NoEmptyMarker
      <3> HIDE DEF b, d, body, n, f, r
      <3>2. CASE n = 0
        BY <1>1, <1>2, <3>2
      <3>3. CASE n = Len(b) - 1
        <4>1. Len(d) + n \in Nat /\ Len(d) + n + Len(EndMarker) - 1 <= Len(body)
          BY <1>2, <2>2, <3>1, <3>3
        <4> QED BY <1>1, <3>1, <4>1, BarredAll
      <3>4. CASE b[n] = NL /\ n # 0
        <4>1. n \in 1..Len(b) /\ Len(d) + n \in 1..Len(body)
          BY <1>2, <2>2, <3>4
        <4>2. body[Len(d) + n] = NL
          BY <1>1, <3>4, <4>1, JoinIs
        <4>3. \A j \in 1..Len(EndMarker) : EndMarker[j] # NL
          <5>1. EndMarker[1] # NL /\ EndMarker[2] # NL
            BY Markers DEF NL
          <5> QED BY <3>1, <5>1
        <4> QED BY <1>1, <3>1, <4>1, <4>2, <4>3, BarredByByte
      <3> QED BY <2>2, <3>2, <3>3, <3>4
    <2>6. q = [p EXCEPT !.delivered = d \o f, !.buf = r]
      BY <1>0, <1>4
    <2> HIDE DEF f, r, n, body
    <2>7. q \in Pipes
      BY <2>2, <2>4, <2>6 DEF Pipes
    <2>8. q.state = "streaming" /\ q.err = "none" /\ q.delivered = d \o f /\ q.buf = r
      BY <2>6 DEF Pipes
    <2>9. Piped(q, s)
      BY <1>1, <2>4, <2>5, <2>8 DEF Piped, body
    <2>10. PipeAdvanced(p, q, s)
      BY <2>1, <2>2, <2>8 DEF PipeAdvanced, PipeAtRest
    <2> QED BY <2>2, <2>7, <2>8, <2>9, <2>10
  <1>5. CASE idx # 0
    <2>1. RefEnded(s) /\ RefCaptured(s) \in Text /\ RefAfterEnd(s) \in Text
      <3>1. RefEnded(s)
        <4>1. idx \in 0..Len(b)
          <5>1. EndMarker \in Text
            BY Markers
          <5> QED BY <1>1, <5>1, FindIs
        <4>2. Find(EndMarker, body) # 0
          <5> HIDE DEF idx, b, d, body
          <5> QED BY <1>2, <1>3, <1>5, <4>1
        <4> QED BY <1>1, <4>2 DEF RefEnded
      <3> QED BY <3>1, RefTexts
    <2>2. idx \in 1..Len(b) /\ idx + 2 - 1 <= Len(b)
      <3>1. EndMarker \in Text /\ Len(EndMarker) = 2
        BY Markers
      <3>2. idx \in 0..Len(b) /\ OccursAt(EndMarker, b, idx)
        BY <1>1, <1>5, <3>1, FindIs
      <3>3. idx + 2 - 1 <= Len(b)
        BY <3>1, <3>2 DEF OccursAt
      <3> HIDE DEF idx, b
      <3> QED BY <1>2, <1>5, <3>2, <3>3
    <2>3. RefCaptured(s) = d \o x /\ x \in Text
      <3>1. Len(d) + (idx - 1) = Len(d) + idx - 1 /\ idx - 1 \in 0..(Len(body) - Len(d))
            /\ idx - 1 \in 0..Len(b)
        <4> HIDE DEF idx, b, d, body
        <4> QED BY <1>2, <2>2
      <3>2. First(Len(d) + (idx - 1), body) = First(Len(d), body) \o First(idx - 1, From(Len(d) + 1, body))
        BY <1>1, <1>2, <3>1, FirstOfRest
      <3>3. First(Len(d), body) = d
        BY <1>1, JoinSplit
      <3>4. RefCaptured(s) = First(Len(d) + idx - 1, body)
        <4>1. Find(EndMarker, body) = Len(d) + idx
          BY <1>3, <1>5
        <4>2. RefCaptured(s) = First(Find(EndMarker, body) - 1, body)
          BY DEF RefCaptured
        <4> HIDE DEF idx, b, d, body
        <4>3. Find(EndMarker, body) - 1 = Len(d) + idx - 1
          BY <1>2, <2>2, <4>1
        <4> QED BY <4>2, <4>3
      <3>5. x \in Text
        BY <1>1, <3>1, FirstIs
      <3> HIDE DEF idx, b, d, body
      <3> QED BY <1>2, <3>1, <3>2, <3>3, <3>4, <3>5 DEF x
    <2>4. rest = RefAfterEnd(s)
      <3>1. idx + 2 \in 1..(Len(body) - (Len(d) + 1) + 2) /\ Len(d) + 1 \in 1..(Len(body) + 1)
            /\ (Len(d) + 1) + (idx + 2) - 1 = Len(d) + idx + 2
        <4> HIDE DEF idx, b, d, body
        <4> QED BY <1>2, <2>2
      <3>2. From(idx + 2, From(Len(d) + 1, body)) = From((Len(d) + 1) + (idx + 2) - 1, body)
        BY <1>1, <3>1, FromFrom
      <3>3. RefAfterEnd(s) = From(Len(d) + idx + 2, body) /\ Len(EndMarker) = 2
        BY <1>3, <1>5, Markers DEF RefAfterEnd
      <3> HIDE DEF idx, b, d, body
      <3> QED BY <1>2, <3>1, <3>2, <3>3
    <2>5. Handed(d \o StripNewline(x), RefCaptured(s)) /\ d \o StripNewline(x) \in Text
      <3>1. StripNewline(x) \in Text
        BY <2>3, StripIs
      <3> HIDE DEF d, x
      <3> QED BY <1>1, <2>3, <3>1, HandedOver, JoinIs
    <2>6. q = [p EXCEPT !.state = "readingExitCode", !.delivered = d \o StripNewline(x),
                        !.buf = RefAfterEnd(s)]
      BY <1>0, <1>5, <2>4
    <2> HIDE DEF x
    <2>7. q \in Pipes
      BY <2>1, <2>5, <2>6 DEF Pipes
    <2>8. /\ q.state = "readingExitCode" /\ q.err = "none"
          /\ q.delivered = d \o StripNewline(x) /\ q.buf = RefAfterEnd(s)
      BY <2>6 DEF Pipes
    <2> QED BY <2>1, <2>5, <2>7, <2>8 DEF Piped, PipeAdvanced
  <1> QED BY <1>4, <1>5

\* stateReadingExitCode, of a Pipe.
LEMMA PipeReadingExitCode ==
    ASSUME NEW s \in Text, NEW p \in Pipes, Piped(p, s), p.err = "none",
           p.state = "readingExitCode", NEW q, q = Flushing!ReadingExitCode(p)
    PROVE  q \in Pipes /\ Piped(q, s) /\ PipeAdvanced(p, q, s)
  <1> DEFINE nl == Find(<<NL>>, p.buf)
             line == First(nl - 1, p.buf)
  <1>0. q = IF nl = 0 THEN p
            ELSE IF ~IsNumber(line) THEN [p EXCEPT !.err = "protocol"]
            ELSE [p EXCEPT !.state = "done", !.exitCode = TrimSpace(line), !.buf = <<>>]
    BY SameInPipe DEF Flushing!ReadingExitCode
  <1>1. RefEnded(s) /\ p.buf = RefAfterEnd(s) /\ Handed(p.delivered, RefCaptured(s))
    BY DEF Piped
  <1>2. CASE nl = 0
    <2>1. ~RefComplete(s) /\ q = p
      BY <1>0, <1>1, <1>2 DEF RefComplete
    <2> QED BY <2>1 DEF PipeAdvanced, PipeAtRest
  <1>3. CASE nl # 0
    <2>1. RefComplete(s) /\ line = RefCode(s) /\ RefCode(s) \in Text
      BY <1>1, <1>3, RefTexts DEF RefComplete, RefCode
    <2>2. CASE ~IsNumber(line)
      <3>1. q = [p EXCEPT !.err = "protocol"]
        BY <1>0, <1>3, <2>2
      <3>2. /\ q \in Pipes /\ q.err = "protocol" /\ q.state = "readingExitCode"
            /\ q.delivered = p.delivered
        BY <3>1 DEF Pipes
      <3> QED BY <1>1, <2>1, <2>2, <3>2 DEF Piped, PipeAdvanced
    <2>3. CASE IsNumber(line)
      <3>1. q = [p EXCEPT !.state = "done", !.exitCode = TrimSpace(RefCode(s)), !.buf = <<>>]
        BY <1>0, <1>3, <2>1, <2>3
      <3>2. TrimSpace(RefCode(s)) \in Codes /\ <<>> \in Text
        BY <2>1, EmptySeq DEF Codes, Text
      <3>3. q \in Pipes
        BY <3>1, <3>2 DEF Pipes
      <3>4. /\ q.state = "done" /\ q.err = "none" /\ q.delivered = p.delivered
            /\ q.exitCode = TrimSpace(RefCode(s))
        BY <1>1, <3>1 DEF Pipes
      <3> QED BY <1>1, <2>1, <2>3, <3>3, <3>4 DEF Piped, PipeAdvanced
    <2> QED BY <2>2, <2>3
  <1> QED BY <1>2, <1>3

\* advance, in any state.
LEMMA PipeAdvance ==
    ASSUME NEW s \in Text, NEW p \in Pipes, Piped(p, s)
    PROVE  LET q == Flushing!Advance(p)
           IN /\ q \in Pipes /\ Piped(q, s) /\ PipeAdvanced(p, q, s)
              /\ p.state = "streaming" /\ q.state = "streaming" /\ q.err = "none" =>
                     KeptLittle(p.buf, q.buf)
  <1> DEFINE q == Flushing!Advance(p)
  <1>1. CASE p.err # "none"
    <2>1. q = p
      BY <1>1 DEF Flushing!Advance
    <2> QED BY <1>1, <2>1 DEF PipeAdvanced
  <1>2. CASE p.err = "none" /\ p.state = "done"
    <2>1. q = p
      BY <1>2 DEF Flushing!Advance
    <2> QED BY <1>2, <2>1 DEF PipeAdvanced, PipeAtRest
  <1>3. CASE p.err = "none" /\ p.state = "beforeBEG"
    <2>1. q = Flushing!BeforeBEG(p)
      BY <1>3 DEF Flushing!Advance
    <2> QED BY <1>3, <2>1, PipeBeforeBEG
  <1>4. CASE p.err = "none" /\ p.state = "streaming"
    <2>1. q = Flushing!Streaming(p)
      BY <1>4 DEF Flushing!Advance
    <2> QED BY <1>4, <2>1, PipeStreaming
  <1>5. CASE p.err = "none" /\ p.state = "readingExitCode"
    <2>1. q = Flushing!ReadingExitCode(p)
      BY <1>5 DEF Flushing!Advance
    <2> QED BY <1>5, <2>1, PipeReadingExitCode
  <1> QED BY <1>1, <1>2, <1>3, <1>4, <1>5 DEF Pipes

\* A chunk added to the buffer.
LEMMA PipeGrows ==
    ASSUME NEW s \in Text, NEW t \in Text, NEW p \in Pipes, Piped(p, s),
           p.err = "none", p.state # "done"
    PROVE  LET q == [p EXCEPT !.buf = @ \o t]
           IN /\ q \in Pipes /\ Piped(q, s \o t)
              /\ q.state = p.state /\ q.err = "none" /\ q.buf = p.buf \o t
  <1> DEFINE u == s \o t
             q == [p EXCEPT !.buf = @ \o t]
  <1>0. p.buf \in Text /\ p.delivered \in Text /\ p.buf \o t \in Text
    BY JoinIs DEF Pipes
  <1>1. /\ q \in Pipes /\ q.state = p.state /\ q.err = "none" /\ q.delivered = p.delivered
        /\ q.buf = p.buf \o t
    BY <1>0 DEF Pipes
  <1> HIDE DEF u, q
  <1>2. CASE p.state = "beforeBEG"
    <2>1. Sought(p.buf \o t, u)
      BY <1>2, SoughtGrows DEF Piped, u
    <2>2. p.delivered = <<>>
      BY <1>2 DEF Piped
    <2>3. Piped(q, u)
      BY <1>1, <1>2, <2>1, <2>2 DEF Piped
    <2> QED BY <1>1, <2>3 DEF q, u
  <1>3. CASE p.state = "streaming"
    <2>1. /\ RefStarted(s) /\ RefBody(s) = p.delivered \o p.buf
          /\ Barred(EndMarker, RefBody(s), Len(p.delivered))
      BY <1>3 DEF Piped
    <2>2. RefStarted(u) /\ RefBody(u) = RefBody(s) \o t /\ RefBody(s) \in Text
      BY <2>1, BodyGrows DEF u
    <2>3. RefBody(u) = p.delivered \o (p.buf \o t)
      <3>1. (p.delivered \o p.buf) \o t = p.delivered \o (p.buf \o t)
        BY <1>0, JoinJoin
      <3> QED BY <2>1, <2>2, <3>1
    <2>4. Barred(EndMarker, RefBody(u), Len(p.delivered))
      <3>1. EndMarker \in Text
        BY Markers
      <3>2. Len(p.delivered) \in Nat
        BY <1>0 DEF Text
      <3> QED BY <2>1, <2>2, <3>1, <3>2, BarredStays
    <2>5. Piped(q, u)
      BY <1>1, <1>3, <2>2, <2>3, <2>4 DEF Piped
    <2> QED BY <1>1, <2>5 DEF q, u
  <1>4. CASE p.state = "readingExitCode"
    <2>1. RefEnded(s) /\ p.buf = RefAfterEnd(s) /\ Handed(p.delivered, RefCaptured(s))
      BY <1>4 DEF Piped
    <2>2. RefEnded(u) /\ RefAfterEnd(u) = p.buf \o t /\ RefCaptured(u) = RefCaptured(s)
      BY <2>1, EndGrows DEF u
    <2>3. Piped(q, u)
      BY <1>1, <1>4, <2>1, <2>2 DEF Piped
    <2> QED BY <1>1, <2>3 DEF q, u
  <1> QED BY <1>1, <1>2, <1>3, <1>4 DEF Pipes

\* feed comes to rest, and has kept little: of a buffer in which the old bytes have no
\* newline, or of a body that this chunk has begun.
LEMMA PipeFed ==
    ASSUME NEW s \in Text, NEW t \in Text, NEW p \in Pipes, Piped(p, s), PipeAtRest(p, s),
           p.err = "none", p.state # "done"
    PROVE  LET q == Flushing!Fed(p, t)
           IN /\ q \in Pipes /\ Piped(q, s \o t) /\ PipeAtRest(q, s \o t)
              /\ q.state = "streaming" /\ q.err = "none" =>
                     Len(q.buf) <= HardLimit \/ Len(q.buf) <= Len(t)
  <1> DEFINE u == s \o t
             p0 == [p EXCEPT !.buf = @ \o t]
             p1 == Flushing!Advance(p0)
             p2 == IF p1.state = p0.state THEN p1 ELSE Flushing!Advance(p1)
             p3 == IF p2.state = p1.state THEN p2 ELSE Flushing!Advance(p2)
  <1>0. u \in Text /\ Len(t) \in Nat
    BY JoinIs
  <1>1. /\ p0 \in Pipes /\ Piped(p0, u) /\ p0.state = p.state /\ p0.err = "none"
        /\ p0.buf = p.buf \o t
    BY PipeGrows
  <1>2. /\ p1 \in Pipes /\ Piped(p1, u) /\ PipeAdvanced(p0, p1, u)
        /\ p0.state = "streaming" /\ p1.state = "streaming" /\ p1.err = "none" =>
               KeptLittle(p0.buf, p1.buf)
    <2> HIDE DEF u, p0
    <2> QED BY <1>0, <1>1, PipeAdvance
  <1>3. /\ p2 \in Pipes /\ Piped(p2, u)
        /\ p2 = p1 \/ PipeAdvanced(p1, p2, u)
        /\ p1.state # p0.state \/ p2 = p1
        /\ p1.state # p0.state /\ p1.state = "streaming" /\ p2.state = "streaming"
           /\ p2.err = "none" => KeptLittle(p1.buf, p2.buf)
    <2> HIDE DEF u, p0, p1
    <2> QED BY <1>0, <1>2, PipeAdvance
  <1>4. /\ p3 \in Pipes /\ Piped(p3, u)
        /\ p2.state = p1.state => p3 = p2
        /\ p2.state # p1.state => PipeAdvanced(p2, p3, u)
    <2> HIDE DEF u, p0, p1, p2
    <2> QED BY <1>0, <1>3, PipeAdvance
  <1>5. p1.state # p0.state => PipeAdvanced(p1, p2, u)
    <2> HIDE DEF u, p0, p1
    <2> QED BY <1>0, <1>2, PipeAdvance
  <1>6. (p1.err # "none" => p2 = p1) /\ (p2.err # "none" => p3 = p2)
    BY DEF Flushing!Advance
  <1>7. p3 = Flushing!Fed(p, t)
    BY DEF Flushing!Fed
  <1> HIDE DEF u, p0, p1, p2, p3
  <1>8. PipeAtRest(p3, u)
    <2> SUFFICES ASSUME p3.err = "none" PROVE PipeAtRest(p3, u)
      BY DEF PipeAtRest
    <2>1. p2.err = "none" /\ p1.err = "none"
      BY <1>6
    <2>2. p3.state = "done" => PipeAtRest(p3, u)
      BY DEF PipeAtRest
    <2>3. CASE p1.state = p0.state
      <3>1. PipeAtRest(p1, u)
        BY <1>1, <1>2, <2>1, <2>3 DEF PipeAdvanced, Pipes
      <3> QED BY <1>3, <1>4, <2>3, <3>1
    <2>4. CASE p1.state # p0.state /\ p2.state = p1.state
      <3>1. PipeAtRest(p2, u)
        BY <1>5, <2>1, <2>4 DEF PipeAdvanced
      <3> QED BY <1>4, <2>4, <3>1
    <2>5. CASE p1.state # p0.state /\ p2.state # p1.state
      BY <1>2, <1>4, <1>5, <2>1, <2>2, <2>5 DEF PipeAdvanced
    <2> QED BY <2>3, <2>4, <2>5
  <1>9. ASSUME p3.state = "streaming", p3.err = "none"
        PROVE  Len(p3.buf) <= HardLimit \/ Len(p3.buf) <= Len(t)
    <2>1. p2.err = "none" /\ p1.err = "none"
      BY <1>6, <1>9
    <2>2. CASE p0.state = "streaming"
      <3>1. p1.state = "streaming" /\ p2 = p1 /\ p3 = p1
        BY <1>2, <1>3, <1>4, <1>5, <1>9, <2>1, <2>2 DEF PipeAdvanced
      <3>2. KeptLittle(p.buf \o t, p3.buf)
        BY <1>1, <1>2, <1>9, <2>2, <3>1
      <3>3. NoNewline(p.buf, Len(p.buf)) /\ p.buf \in Text
        BY <1>1, <2>2 DEF PipeAtRest, Pipes
      <3>4. /\ Len(p.buf) \in Nat /\ Len(p.buf \o t) = Len(p.buf) + Len(t)
            /\ \A i \in 1..Len(p.buf) : (p.buf \o t)[i] = p.buf[i]
        BY <3>3, JoinIs
      <3>5. NoNewline(p.buf \o t, Len(p.buf))
        BY <3>3, <3>4 DEF NoNewline
      <3>6. Len(p.buf) \in 0..Len(p.buf \o t) /\ Len(p.buf \o t) - Len(p.buf) = Len(t)
        BY <1>0, <3>4
      <3>7. Len(p3.buf) <= HardLimit \/ Len(p3.buf) <= Len(p.buf \o t) - Len(p.buf)
        BY <3>2, <3>5, <3>6 DEF KeptLittle
      <3> QED BY <3>6, <3>7
    <2>3. CASE p0.state = "beforeBEG"
      <3>1. p1.state = "streaming" /\ p1.buf = RefBody(u) /\ p2.state = "streaming" /\ p3 = p2
        BY <1>2, <1>3, <1>4, <1>5, <1>9, <2>1, <2>3 DEF PipeAdvanced
      <3>2. KeptLittle(p1.buf, p3.buf)
        BY <1>3, <1>9, <2>3, <3>1
      <3>3. ~RefStarted(s) /\ RefStarted(u)
        BY <1>1, <1>2, <2>1, <2>3, <3>1 DEF PipeAtRest, Piped
      <3>4. Len(RefBody(u)) <= Len(t) /\ RefBody(u) \in Text
        BY <3>3, NewBody DEF u
      <3>5. Len(p1.buf) \in Nat /\ Len(p1.buf) <= Len(t)
        BY <3>1, <3>4 DEF Text
      <3>6. NoNewline(p1.buf, 0) /\ 0 \in 0..Len(p1.buf)
        BY <3>5 DEF NoNewline
      <3>7. Len(p3.buf) <= HardLimit \/ Len(p3.buf) <= Len(p1.buf) - 0
        BY <3>2, <3>6 DEF KeptLittle
      <3>8. Len(p3.buf) \in Nat
        BY <1>4 DEF Pipes, Text
      <3> QED BY <1>0, <3>5, <3>7, <3>8
    <2>4. CASE p0.state = "readingExitCode" \/ p0.state = "done"
      BY <1>2, <1>3, <1>4, <1>5, <1>9, <2>1, <2>4 DEF PipeAdvanced
    <2> QED BY <1>1, <2>2, <2>3, <2>4 DEF Pipes
  <1> QED BY <1>4, <1>7, <1>8, <1>9 DEF u

\* A parser of a Pipe that has come to an end keeps what it has, too.
LEMMA PipeEndIsKept ==
    ASSUME NEW s \in Text, NEW t \in Text, NEW p \in Pipes, Piped(p, s),
           p.state = "done" \/ p.err # "none"
    PROVE  Piped(p, s \o t)
  <1>1. RefComplete(s) =>
            /\ RefComplete(s \o t) /\ RefCode(s \o t) = RefCode(s)
            /\ RefCaptured(s \o t) = RefCaptured(s)
    BY CompleteGrows, EndGrows DEF RefComplete
  <1> QED BY <1>1 DEF Piped, Pipes

-----------------------------------------------------------------------------
(* The specification.                                                      *)

\* Each parser has made of the stream so far what there is to make of it.
ParsersInv ==
    /\ stream \in Text /\ pos \in 0..Len(stream)
    /\ run \in Runs /\ Read(run, Prefix) /\ AtRest(run, Prefix)
    /\ pipe \in Pipes /\ Piped(pipe, Prefix) /\ PipeAtRest(pipe, Prefix)

\* The stream so far is a text, and a chunk continues it.
LEMMA PrefixGrows ==
    ASSUME stream \in Text, pos \in 0..Len(stream), NEW n \in Nat \ {0}, pos + n <= Len(stream),
           stream' = stream, pos' = pos + n
    PROVE  /\ Prefix \in Text /\ SubSeq(stream, pos + 1, pos + n) \in Text
           /\ Len(SubSeq(stream, pos + 1, pos + n)) = n
           /\ Prefix' = Prefix \o SubSeq(stream, pos + 1, pos + n)
           /\ pos' \in 0..Len(stream)
  <1> DEFINE t == SubSeq(stream, pos + 1, pos + n)
  <1>0. Len(stream) \in Nat /\ pos \in Nat /\ n \in Nat
    BY DEF Text
  <1>1. Prefix \in Text
    BY FirstIs DEF Prefix
  <1>2. t \in Text /\ Len(t) = n
    <2>1. pos + 1 \in Nat \ {0} /\ pos + n \in Nat /\ pos + n - (pos + 1) + 1 = n /\ pos + 1 <= pos + n
      BY <1>0
    <2> QED BY <2>1, Pieces
  <1>3. SubSeq(stream, 1, pos) \o SubSeq(stream, pos + 1, pos + n) = SubSeq(stream, 1, pos + n)
    <2>1. /\ 1 \in 1..(Len(stream) + 1) /\ pos \in (1 - 1)..Len(stream) /\ pos + n \in pos..Len(stream)
          /\ stream \in Seq(Alphabet)
      BY <1>0 DEF Text
    <2> QED BY <2>1, ConcatAdjacentSubSeq
  <1>4. Prefix' = SubSeq(stream, 1, pos + n)
    BY DEF Prefix, First
  <1>5. Prefix = SubSeq(stream, 1, pos)
    BY DEF Prefix, First
  <1>6. pos' \in 0..Len(stream)
    BY <1>0
  <1> QED BY <1>1, <1>2, <1>3, <1>4, <1>5, <1>6

\* Nothing fed, nothing made of it.
LEMMA ParsersInit ==
    Init => ParsersInv
  <1> SUFFICES ASSUME Init PROVE ParsersInv
    OBVIOUS
  <1>0. <<>> \in Text /\ Len(<<>>) = 0
    BY EmptySeq DEF Text
  <1>1. stream \in Text /\ pos = 0 /\ pos \in 0..Len(stream)
    <2>1. stream \in Text /\ pos = 0
      BY StreamsAssumption DEF Init, Text
    <2> QED BY <2>1 DEF Text
  <1>2. Prefix = <<>>
    BY <1>1, SubSeqEmpty DEF Prefix, First
  <1>3. Sought(<<>>, <<>>)
    <2>1. From(0 + 1, <<>>) = <<>>
      BY <1>0, FirstAll
    <2>2. Barred(BegMarker, <<>>, 0)
      BY DEF Barred
    <2>3. 0 \in 0..Len(<<>>)
      BY <1>0
    <2> QED BY <2>1, <2>2, <2>3 DEF Sought
  <1>4. ~RefStarted(<<>>)
    <2>1. BegMarker \in Text
      BY Markers
    <2>2. Find(BegMarker, <<>>) \in 0..Len(<<>>)
      BY <1>0, <2>1, FindIs
    <2>3. Find(BegMarker, <<>>) = 0
      BY <1>0, <2>2
    <2> QED BY <2>3 DEF RefStarted, RefBeg
  <1>5. PICK m \in Caps : run = Buffering!NewParser(m)
    BY DEF Init
  <1>6. run \in Runs /\ run.state = "beforeBEG" /\ run.buf = <<>> /\ run.output = <<>>
        /\ run.err = "none"
    BY <1>0, <1>5, LimitAssumption DEF Buffering!NewParser, Runs, Codes
  <1>7. pipe \in Pipes /\ pipe.state = "beforeBEG" /\ pipe.buf = <<>> /\ pipe.delivered = <<>>
        /\ pipe.err = "none"
    BY <1>0 DEF Init, Flushing!NewParser, Pipes, Codes
  <1>8. Read(run, <<>>) /\ AtRest(run, <<>>)
    <2>1. Len(<<>>) < Len(BegMarker)
      <3>1. Len(BegMarker) = 2
        BY Markers
      <3> QED BY <1>0, <3>1
    <2> QED BY <1>3, <1>4, <1>6, <2>1 DEF Read, AtRest
  <1>9. Piped(pipe, <<>>) /\ PipeAtRest(pipe, <<>>)
    BY <1>3, <1>4, <1>7 DEF Piped, PipeAtRest
  <1> QED BY <1>1, <1>2, <1>6, <1>7, <1>8, <1>9 DEF ParsersInv

\* A chunk keeps the invariant, and leaves little in the buffer of a Pipe.
LEMMA ParsersStep ==
    ASSUME ParsersInv, [Next]_vars
    PROVE  /\ ParsersInv'
           /\ \/ UNCHANGED vars
              \/ pipe'.state = "streaming" /\ pipe'.err = "none" =>
                     /\ NoNewline(pipe'.buf, Len(pipe'.buf))
                     /\ Len(pipe'.buf) <= HardLimit \/ Len(pipe'.buf) <= pos' - pos
  <1>1. CASE UNCHANGED vars
    BY <1>1 DEF ParsersInv, vars, Prefix
  <1>2. ASSUME NEW n \in 1..(Len(stream) - pos), Feed(n)
        PROVE  /\ ParsersInv'
               /\ pipe'.state = "streaming" /\ pipe'.err = "none" =>
                      /\ NoNewline(pipe'.buf, Len(pipe'.buf))
                      /\ Len(pipe'.buf) <= HardLimit \/ Len(pipe'.buf) <= pos' - pos
    <2> DEFINE t == SubSeq(stream, pos + 1, pos + n)
               s == Prefix
    <2>0. /\ stream \in Text /\ pos \in 0..Len(stream) /\ n \in Nat \ {0}
          /\ pos + n <= Len(stream) /\ stream' = stream /\ pos' = pos + n
      <3>1. stream \in Text /\ pos \in 0..Len(stream) /\ Len(stream) \in Nat
        BY DEF ParsersInv, Text
      <3> QED BY <1>2, <3>1 DEF Feed
    <2>1. s \in Text /\ t \in Text /\ Len(t) = n /\ Prefix' = s \o t /\ pos' \in 0..Len(stream)
      BY <2>0, PrefixGrows
    <2>2. pos' - pos = n
      BY <2>0
    <2>3. /\ run \in Runs /\ Read(run, s) /\ AtRest(run, s)
          /\ pipe \in Pipes /\ Piped(pipe, s) /\ PipeAtRest(pipe, s)
      BY DEF ParsersInv
    <2>4. /\ run' = IF Running(run) THEN Buffering!Fed(run, t) ELSE run
          /\ pipe' = IF Running(pipe) THEN Flushing!Fed(pipe, t) ELSE pipe
      BY <1>2 DEF Feed
    <2> HIDE DEF s, t
    <2>5. run' \in Runs /\ Read(run', s \o t) /\ AtRest(run', s \o t)
      <3>1. CASE Running(run)
        BY <2>1, <2>3, <2>4, <3>1, RunFed DEF Running
      <3>2. CASE ~Running(run)
        <4>1. run' = run /\ (run.state = "done" \/ run.err # "none")
          BY <2>4, <3>2 DEF Running
        <4>2. Read(run, s \o t)
          BY <2>1, <2>3, <4>1, EndIsKept
        <4> QED BY <2>3, <4>1, <4>2 DEF AtRest
      <3> QED BY <3>1, <3>2
    <2>6. /\ pipe' \in Pipes /\ Piped(pipe', s \o t) /\ PipeAtRest(pipe', s \o t)
          /\ pipe'.state = "streaming" /\ pipe'.err = "none" =>
                 Len(pipe'.buf) <= HardLimit \/ Len(pipe'.buf) <= n
      <3>1. CASE Running(pipe)
        BY <2>1, <2>3, <2>4, <3>1, PipeFed DEF Running
      <3>2. CASE ~Running(pipe)
        <4>1. pipe' = pipe /\ (pipe.state = "done" \/ pipe.err # "none")
          BY <2>4, <3>2 DEF Running
        <4>2. Piped(pipe, s \o t)
          BY <2>1, <2>3, <4>1, PipeEndIsKept
        <4> QED BY <2>3, <4>1, <4>2 DEF PipeAtRest
      <3> QED BY <3>1, <3>2
    <2>7. ParsersInv'
      BY <2>0, <2>1, <2>5, <2>6 DEF ParsersInv
    <2>8. pipe'.state = "streaming" /\ pipe'.err = "none" => NoNewline(pipe'.buf, Len(pipe'.buf))
      BY <2>6 DEF PipeAtRest
    <2> QED BY <2>2, <2>6, <2>7, <2>8
  <1> QED BY <1>1, <1>2 DEF Next

\* So it always holds.
LEMMA ParsersInvariant ==
    Spec => []ParsersInv
  BY ParsersInit, ParsersStep, PTL DEF Spec

\* Whatever the stream and however it is cut into chunks, each parser is in the
\* state that the stream so far, read as a whole, calls for.
THEOREM StateFollowsStream ==
    Spec => []StateMatchesReference
  <1>1. ParsersInv => StateMatchesReference
    <2> SUFFICES ASSUME ParsersInv PROVE StateMatchesReference
      OBVIOUS
    <2>1. ASSUME run.err = "none", run.state # "done"
          PROVE  /\ run.state = "beforeBEG" <=> ~RefStarted(Prefix)
                 /\ run.state = "readingExitCode" <=> RefEnded(Prefix)
                 /\ ~RefComplete(Prefix)
      BY <2>1 DEF ParsersInv, Runs, Read, AtRest, RefEnded, RefComplete
    <2>2. ASSUME pipe.err = "none", pipe.state # "done"
          PROVE  /\ pipe.state = "beforeBEG" <=> ~RefStarted(Prefix)
                 /\ pipe.state = "readingExitCode" <=> RefEnded(Prefix)
                 /\ ~RefComplete(Prefix)
      BY <2>2 DEF ParsersInv, Pipes, Piped, PipeAtRest, RefEnded, RefComplete
    <2> QED BY <2>1, <2>2 DEF StateMatchesReference
  <1> QED BY <1>1, ParsersInvariant, PTL

\* A finished RunFramed returns what the stream says was printed and, like a
\* finished Pipe, the number on its END line; nothing but an END line without a
\* number fails an uncapped command.
THEOREM ResultFollowsStream ==
    Spec => []ResultMatchesReference
  <1>1. ParsersInv => ResultMatchesReference
    <2> SUFFICES ASSUME ParsersInv PROVE ResultMatchesReference
      OBVIOUS
    <2>1. Prefix \in Text /\ run \in Runs /\ Read(run, Prefix) /\ pipe \in Pipes /\ Piped(pipe, Prefix)
      BY FirstIs DEF ParsersInv, Prefix
    <2>2. ASSUME RefComplete(Prefix), IsNumber(RefCode(Prefix))
          PROVE  NumberOfEndLine(TrimSpace(RefCode(Prefix)))
      BY <2>1, <2>2, RefTexts, TrimReads DEF NumberOfEndLine
    <2>3. RefComplete(Prefix) /\ ~IsNumber(RefCode(Prefix)) => ~RefHasNumber(RefCode(Prefix))
      BY <2>1, RefTexts, TrimReads
    <2>4. run.state = "done" =>
              /\ run.output = Printed(Prefix)
              /\ RefComplete(Prefix) /\ NumberOfEndLine(run.exitCode)
      BY <2>1, <2>2 DEF Read
    <2>5. pipe.state = "done" => RefComplete(Prefix) /\ NumberOfEndLine(pipe.exitCode)
      BY <2>1, <2>2 DEF Piped
    <2>6. run.err = "protocol" /\ run.maxOutput = 0 =>
              RefComplete(Prefix) /\ ~RefHasNumber(RefCode(Prefix))
      BY <2>1, <2>3 DEF Read
    <2>7. pipe.err = "protocol" => RefComplete(Prefix) /\ ~RefHasNumber(RefCode(Prefix))
      BY <2>1, <2>3 DEF Piped
    <2> QED BY <2>4, <2>5, <2>6, <2>7 DEF ResultMatchesReference, Printed
  <1> QED BY <1>1, ParsersInvariant, PTL

\* The buffer of a RunFramed stays within the cap, and within a marker before
\* the BEG line.
THEOREM BufferStaysBounded ==
    Spec => []BufferBounded
  <1>1. ParsersInv => BufferBounded
    BY DEF ParsersInv, AtRest, BufferBounded
  <1> QED BY <1>1, ParsersInvariant, PTL

\* The reader of a Pipe has at any moment a beginning of the command's output,
\* and in the end the output but for the wrapper's line end.
THEOREM ReaderGetsOutput ==
    Spec => []DeliveredIsOutput
  <1>1. ParsersInv => DeliveredIsOutput
    <2> SUFFICES ASSUME ParsersInv PROVE DeliveredIsOutput
      OBVIOUS
    <2>0. Prefix \in Text /\ pipe \in Pipes /\ Piped(pipe, Prefix) /\ PipeAtRest(pipe, Prefix)
      BY FirstIs DEF ParsersInv, Prefix
    <2>1. CASE RefEnded(Prefix)
      <3>1. pipe.state \in {"readingExitCode", "done"}
        BY <2>0, <2>1 DEF Piped, PipeAtRest, Pipes, RefEnded
      <3>2. Handed(pipe.delivered, RefCaptured(Prefix))
        BY <2>0, <3>1 DEF Piped
      <3> QED BY <2>1, <3>2 DEF Handed, DeliveredIsOutput
    <2>2. CASE ~RefEnded(Prefix) /\ RefStarted(Prefix)
      <3>1. pipe.state = "streaming" /\ pipe.err = "none"
        BY <2>0, <2>2 DEF Piped, PipeAtRest, Pipes, RefComplete
      <3>2. RefBody(Prefix) = pipe.delivered \o pipe.buf /\ pipe.delivered \in Text /\ pipe.buf \in Text
        BY <2>0, <3>1 DEF Piped, Pipes
      <3>3. /\ RefBody(Prefix) \in Text /\ First(Len(pipe.delivered), RefBody(Prefix)) = pipe.delivered
            /\ Len(pipe.delivered) \in 0..Len(RefBody(Prefix))
        <4>1. Len(pipe.delivered \o pipe.buf) = Len(pipe.delivered) + Len(pipe.buf)
              /\ Len(pipe.delivered) \in Nat /\ Len(pipe.buf) \in Nat
              /\ pipe.delivered \o pipe.buf \in Text
          BY <3>2, JoinIs
        <4>2. First(Len(pipe.delivered), pipe.delivered \o pipe.buf) = pipe.delivered
          BY <3>2, JoinSplit
        <4>3. Len(pipe.delivered) \in 0..(Len(pipe.delivered) + Len(pipe.buf))
          <5>1. \A x, y \in Nat : x \in 0..(x + y)
            OBVIOUS
          <5> QED BY <4>1, <5>1
        <4> QED BY <3>2, <4>1, <4>2, <4>3
      <3>4. IsPrefix(pipe.delivered, RefBody(Prefix))
        BY <3>3, FirstIsPrefix
      <3> QED BY <2>2, <3>4 DEF DeliveredIsOutput
    <2>3. CASE ~RefEnded(Prefix) /\ ~RefStarted(Prefix)
      <3>1. pipe.delivered = <<>>
        BY <2>0, <2>3 DEF Piped, PipeAtRest, Pipes, RefComplete, RefEnded
      <3> QED BY <2>3, <3>1 DEF DeliveredIsOutput
    <2> QED BY <2>1, <2>2, <2>3
  <1> QED BY <1>1, ParsersInvariant, PTL

\* No complete line waits in the buffer of a Pipe, and the buffer grows beyond
\* the hard limit only by one unfinished line of the last chunk.
THEOREM PipeKeepsLittle ==
    Spec => StreamKeepsLittle
  <1>1. ASSUME ParsersInv, [Next]_vars
        PROVE  [pipe'.state = "streaming" /\ pipe'.err = "none" =>
                   /\ Find(<<NL>>, pipe'.buf) = 0
                   /\ Len(pipe'.buf) <= Max({HardLimit, pos' - pos})]_vars
    <2> SUFFICES ASSUME ~UNCHANGED vars, pipe'.state = "streaming", pipe'.err = "none"
                 PROVE  /\ Find(<<NL>>, pipe'.buf) = 0
                        /\ Len(pipe'.buf) <= Max({HardLimit, pos' - pos})
      OBVIOUS
    <2>1. /\ ParsersInv' /\ NoNewline(pipe'.buf, Len(pipe'.buf))
          /\ Len(pipe'.buf) <= HardLimit \/ Len(pipe'.buf) <= pos' - pos
      BY <1>1, ParsersStep
    <2>2. pipe'.buf \in Text /\ Len(pipe'.buf) \in Nat
      BY <2>1 DEF ParsersInv, Pipes, Text
    <2>3. Find(<<NL>>, pipe'.buf) = 0
      <3>1. Find(<<NL>>, pipe'.buf) # 0 => pipe'.buf[Find(<<NL>>, pipe'.buf)] = NL
        BY <2>2, FirstNewline
      <3>2. Find(<<NL>>, pipe'.buf) \in 0..Len(pipe'.buf)
        BY <2>2, FirstNewline
      <3> QED BY <2>1, <2>2, <3>1, <3>2 DEF NoNewline
    <2>4. Len(pipe'.buf) <= Max({HardLimit, pos' - pos})
      <3> DEFINE h == HardLimit
                 d == pos' - pos
      <3>1. h \in Nat \ {0} /\ d \in Int
        <4>1. pos \in Int /\ pos' \in Int
          BY <1>1, <2>1 DEF ParsersInv
        <4> QED BY <4>1, LimitAssumption
      <3> HIDE DEF h, d
      <3>2. Max({h, d}) \in {h, d} /\ \A y \in {h, d} : Max({h, d}) >= y
        <4>1. \E x \in {h, d} : \A y \in {h, d} : x >= y
          BY <3>1
        <4> QED BY <4>1 DEF Max
      <3>3. Len(pipe'.buf) <= Max({h, d})
        BY <2>1, <2>2, <3>1, <3>2 DEF h, d
      <3> QED BY <3>3 DEF h, d
    <2> QED BY <2>3, <2>4
  <1> QED BY <1>1, ParsersInvariant, PTL DEF Spec, StreamKeepsLittle
=============================================================================
