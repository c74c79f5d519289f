--------------------------- MODULE NameGenProofs ---------------------------
(***************************************************************************)
(* What the generator promises for every length a name may have, and       *)
(* whatever is drawn.                                                      *)
(*                                                                         *)
(* The argument is one of measure: the letters of the syllable in the      *)
(* making and those that are left for it add up to what the word misses    *)
(* (Measured).  A unit that breaks no rule fits into what is left, so what *)
(* is carried over fits, too, and so does what is held after an attempt    *)
(* that failed: of two units that are held the first is always placed.     *)
(* The vowels that were counted are in the syllable (VowelsAreThere), so   *)
(* that one remains when a syllable is cut before its last unit.           *)
(***************************************************************************)
EXTENDS NameGen, FiniteSetTheorems, SequenceTheorems, TLAPS

-----------------------------------------------------------------------------
(***************************************************************************)
(* The inductive invariant.                                                *)
(***************************************************************************)

\* How many units of s are in S.
Count(s, S) == Cardinality({i \in DOMAIN s : s[i] \in S})

Syllable == [units : Seq(Unit), vowels : Nat, left : Nat, forced : Seq(Unit)]

Types ==
  /\ status \in {"idle", "running", "done", "failed"}
  /\ length \in Lengths
  /\ word \in Seq(Unit) /\ starts \subseteq DOMAIN word
  /\ hold \in Seq(Unit) /\ Len(hold) <= 2
  /\ syl \in Syllable /\ Len(syl.forced) <= 1

\* What has been placed and what is left is what the word misses, and of what
\* is held, which fits, the first of two units has been placed.
Measured ==
  /\ Letters(syl.units) + syl.left = Missing
  /\ Letters(hold) <= Missing
  /\ Len(hold) = 2 => syl.units # <<>> /\ syl.units[1] = hold[1]
  /\ status = "running" => Missing > 0
  /\ status = "done" => Missing = 0

\* The vowels that were counted are units of the syllable.
VowelsAreThere == syl.vowels <= Count(syl.units, Vowel)

\* While the word is not complete, each of its syllables has a vowel.
VowelSoFar ==
  Missing > 0 => \A i \in starts : \E k \in i .. Len(word) : word[k] \in Vowel

IInv == Types /\ Measured /\ VowelsAreThere /\ VowelSoFar /\ VowelInSyllable

-----------------------------------------------------------------------------
(***************************************************************************)
(* Counting the units of a sequence.                                       *)
(***************************************************************************)

\* A count is a number, no more than the length, and zero if there is nothing to
\* count.
LEMMA CountType ==
  ASSUME NEW s \in Seq(Unit), NEW S
  PROVE  /\ IsFiniteSet({i \in DOMAIN s : s[i] \in S})
         /\ Count(s, S) \in Nat /\ Count(s, S) <= Len(s)
         /\ Count(s, S) > 0 <=> \E k \in 1 .. Len(s) : s[k] \in S
<1> DEFINE C == {i \in DOMAIN s : s[i] \in S}
<1>1. DOMAIN s = 1 .. Len(s) /\ Len(s) \in Nat
  BY LenProperties
<1>2. IsFiniteSet(1 .. Len(s)) /\ Cardinality(1 .. Len(s)) = Len(s)
  BY <1>1, FS_Interval
<1>3. C \in SUBSET (1 .. Len(s))
  BY <1>1
<1>4. IsFiniteSet(C) /\ Cardinality(C) <= Len(s)
  BY <1>2, <1>3, FS_Subset
<1>5. Cardinality(C) \in Nat
  BY <1>4, FS_CardinalityType
<1>6. Cardinality(C) = 0 <=> C = {}
  BY <1>4, FS_EmptySet, Zenon
<1> QED
  BY <1>1, <1>4, <1>5, <1>6 DEF Count

\* One more unit.
LEMMA CountAppend ==
  ASSUME NEW s \in Seq(Unit), NEW u \in Unit, NEW S
  PROVE  Count(Append(s, u), S) = IF u \in S THEN Count(s, S) + 1 ELSE Count(s, S)
<1> DEFINE C == {i \in DOMAIN s : s[i] \in S}
           D == {i \in DOMAIN Append(s, u) : Append(s, u)[i] \in S}
<1>1. /\ DOMAIN s = 1 .. Len(s) /\ Len(s) \in Nat
      /\ DOMAIN Append(s, u) = 1 .. Len(s) + 1
      /\ \A i \in 1 .. Len(s) : Append(s, u)[i] = s[i]
      /\ Append(s, u)[Len(s) + 1] = u
  BY LenProperties, AppendProperties
<1>2. D = IF u \in S THEN C \union {Len(s) + 1} ELSE C
  BY <1>1
<1>3. Len(s) + 1 \notin C
  BY <1>1
<1>4. IsFiniteSet(C)
  BY CountType
<1>5. Cardinality(C \union {Len(s) + 1}) = Cardinality(C) + 1
  BY <1>3, <1>4, FS_AddElement
<1> QED
  BY <1>2, <1>5 DEF Count

\* What one sequence counts and what the other does.
LEMMA CountConcat ==
  ASSUME NEW s \in Seq(Unit), NEW t \in Seq(Unit), NEW S
  PROVE  Count(s \o t, S) = Count(s, S) + Count(t, S)
<1> DEFINE C == {i \in DOMAIN s : s[i] \in S}
           D == {i \in DOMAIN t : t[i] \in S}
           E == {i \in DOMAIN (s \o t) : (s \o t)[i] \in S}
           F == {i \in Len(s) + 1 .. Len(s) + Len(t) : t[i - Len(s)] \in S}
           f == [i \in D |-> i + Len(s)]
<1>1. /\ DOMAIN s = 1 .. Len(s) /\ Len(s) \in Nat
      /\ DOMAIN t = 1 .. Len(t) /\ Len(t) \in Nat
  BY LenProperties
<1>2. /\ DOMAIN (s \o t) = 1 .. Len(s) + Len(t)
      /\ \A i \in 1 .. Len(s) + Len(t) :
           (s \o t)[i] = IF i <= Len(s) THEN s[i] ELSE t[i - Len(s)]
  BY ConcatProperties, LenProperties
<1>3. E = C \union F /\ C \intersect F = {}
  BY <1>1, <1>2
<1>4. f \in Bijection(D, F)
  <2>1. f \in [D -> F]
    BY <1>1
  <2>2. \A a, b \in D : f[a] = f[b] => a = b
    BY <1>1
  <2>3. \A y \in F : y - Len(s) \in D /\ f[y - Len(s)] = y
    BY <1>1
  <2> QED
    BY <2>1, <2>2, <2>3 DEF Bijection, Injection, Surjection, IsInjective
<1>5. IsFiniteSet(C) /\ IsFiniteSet(D)
  BY CountType
<1>6. IsFiniteSet(F) /\ Cardinality(F) = Cardinality(D)
  BY <1>4, <1>5, FS_Bijection DEF ExistsBijection
<1>7. Cardinality(E) = Cardinality(C) + Cardinality(F) - Cardinality({})
  BY <1>3, <1>5, <1>6, FS_Union
<1>8. Cardinality({}) = 0 /\ Cardinality(C) \in Nat /\ Cardinality(D) \in Nat
  BY <1>5, FS_EmptySet, FS_CardinalityType
<1>9. Cardinality(E) = Cardinality(C) + Cardinality(D)
  <2> HIDE DEF C, D, E, F
  <2> QED
    BY <1>6, <1>7, <1>8
<1> QED
  BY <1>9 DEF Count

-----------------------------------------------------------------------------
(***************************************************************************)
(* Their letters.                                                          *)
(***************************************************************************)

LEMMA LettersCount ==
  \A s : Letters(s) = Len(s) + Count(s, TwoLetters)
BY DEF Letters, Count

LEMMA SizeType == \A u : Size(u) \in {1, 2}
BY DEF Size

\* There are at least as many letters as units.
LEMMA LettersType ==
  ASSUME NEW s \in Seq(Unit)
  PROVE  /\ Len(s) \in Nat /\ Letters(s) \in Nat /\ Len(s) <= Letters(s)
         /\ Letters(s) = 0 => s = <<>>
<1>1. Count(s, TwoLetters) \in Nat /\ Len(s) \in Nat
  BY CountType, LenProperties
<1>2. s # <<>> => Len(s) > 0
  BY EmptySeq
<1> QED
  BY <1>1, <1>2, LettersCount

LEMMA LettersAppend ==
  ASSUME NEW s \in Seq(Unit), NEW u \in Unit
  PROVE  Letters(Append(s, u)) = Letters(s) + Size(u)
<1>1. Count(s, TwoLetters) \in Nat /\ Len(s) \in Nat
  BY CountType, LenProperties
<1>2. Len(Append(s, u)) = Len(s) + 1
  BY AppendProperties
<1>3. Count(Append(s, u), TwoLetters)
        = IF u \in TwoLetters THEN Count(s, TwoLetters) + 1 ELSE Count(s, TwoLetters)
  BY CountAppend
<1>4. Letters(s) = Len(s) + Count(s, TwoLetters)
  BY LettersCount
<1>5. Letters(Append(s, u)) = Len(Append(s, u)) + Count(Append(s, u), TwoLetters)
  BY LettersCount
<1> QED
  BY <1>1, <1>2, <1>3, <1>4, <1>5 DEF Size

LEMMA LettersConcat ==
  ASSUME NEW s \in Seq(Unit), NEW t \in Seq(Unit)
  PROVE  Letters(s \o t) = Letters(s) + Letters(t)
<1>1. Count(s, TwoLetters) \in Nat /\ Len(s) \in Nat
  BY CountType, LenProperties
<1>2. Count(t, TwoLetters) \in Nat /\ Len(t) \in Nat
  BY CountType, LenProperties
<1>3. Len(s \o t) = Len(s) + Len(t)
  BY ConcatProperties
<1>4. Count(s \o t, TwoLetters) = Count(s, TwoLetters) + Count(t, TwoLetters)
  BY CountConcat
<1>5. /\ Letters(s) = Len(s) + Count(s, TwoLetters)
      /\ Letters(t) = Len(t) + Count(t, TwoLetters)
  BY LettersCount
<1>6. Letters(s \o t) = Len(s \o t) + Count(s \o t, TwoLetters)
  BY LettersCount
<1> QED
  BY <1>1, <1>2, <1>3, <1>4, <1>5, <1>6

\* Of no units, of one and of two.
LEMMA LettersFew ==
  /\ Letters(<<>>) = 0
  /\ \A u \in Unit : Letters(<<u>>) = Size(u)
  /\ \A u, v \in Unit : Letters(<<u, v>>) = Size(u) + Size(v)
<1>1. Letters(<<>>) = 0
  <2>1. <<>> \in Seq(Unit) /\ Len(<<>>) = 0
    BY EmptySeq
  <2>2. Count(<<>>, TwoLetters) \in Nat /\ Count(<<>>, TwoLetters) <= Len(<<>>)
    BY <2>1, CountType, Zenon
  <2>3. Letters(<<>>) = Len(<<>>) + Count(<<>>, TwoLetters)
    BY LettersCount, Zenon
  <2> QED
    BY <2>1, <2>2, <2>3
<1>2. \A u \in Unit : Letters(<<u>>) = Size(u)
  <2> TAKE u \in Unit
  <2>1. <<>> \in Seq(Unit) /\ Append(<<>>, u) = <<u>>
    OBVIOUS
  <2>2. Size(u) \in {1, 2}
    BY SizeType
  <2>3. Letters(Append(<<>>, u)) = Letters(<<>>) + Size(u)
    BY <2>1, LettersAppend, Zenon
  <2> QED
    BY <1>1, <2>1, <2>2, <2>3
<1>3. \A u, v \in Unit : Letters(<<u, v>>) = Size(u) + Size(v)
  <2> TAKE u, v \in Unit
  <2>1. <<u>> \in Seq(Unit)
    OBVIOUS
  <2>2. Append(<<u>>, v) = <<u, v>>
    <3>1. /\ Append(<<u>>, v) \in Seq(Unit) /\ Len(Append(<<u>>, v)) = 2
          /\ Append(<<u>>, v)[1] = u /\ Append(<<u>>, v)[2] = v
      BY <2>1, AppendProperties
    <3>2. <<u, v>> \in Seq(Unit) /\ Len(<<u, v>>) = 2
      OBVIOUS
    <3>3. \A i \in 1 .. 2 : Append(<<u>>, v)[i] = <<u, v>>[i]
      BY <3>1
    <3> QED
      BY <3>1, <3>2, <3>3, SeqEqual, Zenon
  <2>3. Letters(Append(<<u>>, v)) = Letters(<<u>>) + Size(v)
    BY <2>1, LettersAppend, Zenon
  <2> QED
    BY <1>2, <2>2, <2>3
<1> QED
  BY <1>1, <1>2, <1>3

\* The first units of a sequence.
LEMMA Prefix ==
  ASSUME NEW s, NEW n \in Nat, \A i \in 1 .. n : s[i] \in Unit
  PROVE  SubSeq(s, 1, n) \in Seq(Unit) /\ Len(SubSeq(s, 1, n)) = n
<1>1. 1 \in Int /\ n \in Int
  OBVIOUS
<1>2. SubSeq(s, 1, n) \in Seq(Unit)
  BY <1>1, SubSeqProperties
<1>3. Len(SubSeq(s, 1, n)) = IF 1 <= n THEN n - 1 + 1 ELSE 0
  BY <1>1, SubSeqProperties
<1> QED
  BY <1>2, <1>3

\* A sequence without its last unit.
LEMMA AllButLast ==
  ASSUME NEW s \in Seq(Unit), s # <<>>
  PROVE  LET front == SubSeq(s, 1, Len(s) - 1) IN
         /\ front \in Seq(Unit) /\ Final(s) \in Unit /\ s = Append(front, Final(s))
         /\ Len(front) = Len(s) - 1
         /\ Letters(s) = Letters(front) + Size(Final(s))
         /\ Len(s) > 1 => front # <<>> /\ front[1] = s[1]
<1> DEFINE front == SubSeq(s, 1, Len(s) - 1)
<1>1. Len(s) \in Nat \ {0}
  BY EmptySeq
<1>2. Final(s) \in Unit
  BY <1>1, ElementOfSeq DEF Final
<1>3. front \in Seq(Unit) /\ Len(front) = Len(s) - 1
  <2>1. \A i \in 1 .. Len(s) - 1 : s[i] \in Unit
    BY <1>1, ElementOfSeq
  <2>2. Len(s) - 1 \in Nat
    BY <1>1
  <2> QED
    BY <2>1, <2>2, Prefix, Zenon
<1>4. \A i \in 1 .. Len(s) - 1 : front[i] = s[i]
  BY <1>1
<1> HIDE DEF front
<1>5. s = Append(front, Final(s))
  <2>1. Append(front, Final(s)) \in Seq(Unit) /\ Len(Append(front, Final(s))) = Len(s)
    BY <1>1, <1>2, <1>3, AppendProperties
  <2>2. \A i \in 1 .. Len(s) : Append(front, Final(s))[i] = s[i]
    BY <1>1, <1>2, <1>3, <1>4, AppendProperties DEF Final
  <2> QED
    BY <2>1, <2>2, SeqEqual
<1>6. Letters(s) = Letters(front) + Size(Final(s))
  BY <1>2, <1>3, <1>5, LettersAppend
<1>7. Len(s) > 1 => front # <<>> /\ front[1] = s[1]
  BY <1>1, <1>3, <1>4, EmptySeq
<1> QED
  BY <1>2, <1>3, <1>5, <1>6, <1>7 DEF front

LEMMA FirstUnit ==
  ASSUME NEW s \in Seq(Unit), s # <<>>
  PROVE  /\ s[1] \in Unit /\ Size(s[1]) <= Letters(s)
         /\ \A S : s[1] \in S => Count(s, S) > 0
<1>1. Len(s) \in Nat \ {0}
  BY EmptySeq
<1>2. s[1] \in Unit
  BY <1>1, ElementOfSeq
<1>3. ASSUME NEW S
      PROVE  Count(s, S) \in Nat /\ (s[1] \in S => Count(s, S) > 0)
  <2>1. 1 \in 1 .. Len(s)
    BY <1>1
  <2> QED
    BY <2>1, CountType, Zenon
<1>4. Letters(s) = Len(s) + Count(s, TwoLetters)
  BY LettersCount
<1> QED
  <2>1. Count(s, TwoLetters) \in Nat /\ (s[1] \in TwoLetters => Count(s, TwoLetters) > 0)
    BY <1>3, Zenon
  <2>2. Size(s[1]) <= Letters(s)
    BY <1>1, <1>4, <2>1 DEF Size
  <2> QED
    BY <1>2, <1>3, <2>2

-----------------------------------------------------------------------------
(***************************************************************************)
(* The syllable in the making.                                             *)
(***************************************************************************)

\* A syllable that begins has n letters, the first of two units that are held
\* among them.
LEMMA FreshFacts ==
  ASSUME NEW n \in Nat, NEW h \in Seq(Unit), Len(h) <= 2, Letters(h) <= n
  PROVE  LET s == Fresh(n, h) IN
         /\ s \in Syllable /\ Len(s.forced) <= 1
         /\ Letters(s.units) + s.left = n
         /\ s.vowels <= Count(s.units, Vowel)
         /\ Len(h) = 2 => s.units # <<>> /\ s.units[1] = h[1]
<1> DEFINE placed == SubSeq(h, 1, Len(h) - 1)
           forced == SubSeq(h, Len(placed) + 1, Len(h))
           vowels == IF placed # <<>> /\ h[1] \in Vowel THEN 1 ELSE 0
<1>1. Len(h) \in Nat /\ Letters(h) \in Nat
  BY LettersType
<1>2. /\ placed \in Seq(Unit) /\ Letters(placed) \in Nat /\ Letters(placed) <= Letters(h)
      /\ forced \in Seq(Unit) /\ Len(forced) <= 1
      /\ placed # <<>> => placed[1] = h[1]
      /\ Len(h) = 2 => placed # <<>>
  <2>1. CASE h = <<>>
    <3>1. Len(h) = 0
      BY <2>1, EmptySeq
    <3>2. placed = <<>>
      BY <3>1, SubSeqEmpty
    <3>3. Len(placed) = 0 /\ placed \in Seq(Unit)
      BY <3>2, EmptySeq
    <3>4. forced = <<>>
      BY <3>1, <3>3, SubSeqEmpty
    <3> HIDE DEF placed, forced
    <3>5. forced \in Seq(Unit) /\ Len(forced) = 0
      BY <3>4, EmptySeq
    <3>6. Letters(placed) = 0
      BY <3>2, LettersFew
    <3> QED
      BY <1>1, <3>1, <3>2, <3>3, <3>5, <3>6
  <2>2. CASE h # <<>>
    <3>1. /\ placed \in Seq(Unit) /\ Final(h) \in Unit
          /\ Len(placed) = Len(h) - 1
          /\ Letters(h) = Letters(placed) + Size(Final(h))
          /\ Len(h) > 1 => placed # <<>> /\ placed[1] = h[1]
      BY <2>2, AllButLast, Zenon
    <3>2. Letters(placed) \in Nat /\ Letters(placed) <= Letters(h)
      <4>1. Letters(placed) \in Nat
        BY <3>1, LettersType, Zenon
      <4>2. Size(Final(h)) \in {1, 2}
        BY SizeType, Zenon
      <4> HIDE DEF placed
      <4> QED
        BY <1>1, <3>1, <4>1, <4>2
    <3>3. Len(h) > 0 /\ Len(placed) + 1 = Len(h)
      BY <1>1, <2>2, <3>1, EmptySeq
    <3>4. forced \in Seq(Unit) /\ Len(forced) <= 1
      <4>1. \A i \in Len(h) .. Len(h) : h[i] \in Unit
        BY <1>1, <3>3, ElementOfSeq
      <4>2. SubSeq(h, Len(h), Len(h)) \in Seq(Unit) /\ Len(SubSeq(h, Len(h), Len(h))) = 1
        BY <1>1, <4>1, SubSeqProperties
      <4> QED
        BY <3>3, <4>2
    <3>5. placed # <<>> => Len(h) > 1
      BY <1>1, <3>1, <3>3, EmptySeq
    <3> HIDE DEF placed, forced
    <3> QED
      BY <1>1, <3>1, <3>2, <3>4, <3>5
  <2> QED
    BY <2>1, <2>2
<1> HIDE DEF placed, forced
<1>3. vowels \in Nat /\ vowels <= Count(placed, Vowel)
  <2>1. Count(placed, Vowel) \in Nat
    BY <1>2, CountType
  <2>2. ASSUME placed # <<>>, h[1] \in Vowel
        PROVE  Count(placed, Vowel) > 0
    <3>1. placed[1] \in Vowel
      BY <1>2, <2>2
    <3> QED
      BY <1>2, <2>2, <3>1, FirstUnit, Zenon
  <2> QED
    BY <2>1, <2>2
<1>4. Fresh(n, h) = [units |-> placed, vowels |-> vowels,
                     left |-> n - Letters(placed), forced |-> forced]
  BY DEF Fresh, placed, forced
<1>5. n - Letters(placed) \in Nat
  BY <1>1, <1>2
<1> HIDE DEF vowels
<1> QED
  BY <1>2, <1>3, <1>4, <1>5 DEF Syllable

LEMMA FieldTypes ==
  ASSUME NEW s \in Syllable
  PROVE  s.units \in Seq(Unit) /\ s.vowels \in Nat /\ s.left \in Nat /\ s.forced \in Seq(Unit)
BY DEF Syllable

LEMMA Fits ==
  ASSUME NEW s, NEW u, ~Broken(s, u), s.left \in Nat
  PROVE  Size(u) <= s.left
BY SizeType DEF Broken

\* A syllable goes on: nothing is lost, and the vowel is counted only if it is
\* there.
LEMMA ExtendedFacts ==
  ASSUME NEW s \in Syllable, NEW u \in Unit, ~Broken(s, u),
         s.vowels <= Count(s.units, Vowel)
  PROVE  LET e == Extended(s, u) IN
         /\ e \in Syllable /\ Len(e.forced) <= 1
         /\ Letters(e.units) + e.left = Letters(s.units) + s.left
         /\ e.vowels <= Count(e.units, Vowel)
         /\ s.units # <<>> => e.units # <<>> /\ e.units[1] = s.units[1]
<1> DEFINE units == Append(s.units, u)
           vowels == IF u \in Vowel /\ (s.units # <<>> \/ u \notin AlternateVowel)
                     THEN s.vowels + 1 ELSE s.vowels
<1>1. /\ s.units \in Seq(Unit) /\ s.vowels \in Nat /\ s.left \in Nat
      /\ Size(u) <= s.left /\ Size(u) \in {1, 2}
  BY FieldTypes, Fits, SizeType
<1>2. /\ units \in Seq(Unit) /\ units # <<>>
      /\ s.units # <<>> => units[1] = s.units[1]
  <2>1. s.units # <<>> => 1 \in 1 .. Len(s.units)
    BY <1>1, EmptySeq
  <2> QED
    BY <1>1, <2>1, AppendProperties
<1>3. Letters(units) = Letters(s.units) + Size(u) /\ Letters(s.units) \in Nat
  BY <1>1, LettersAppend, LettersType
<1>4. Count(s.units, Vowel) \in Nat
  BY <1>1, CountType
<1>5. vowels \in Nat /\ vowels <= Count(units, Vowel)
  <2>1. Count(units, Vowel) = IF u \in Vowel THEN Count(s.units, Vowel) + 1
                                            ELSE Count(s.units, Vowel)
    BY <1>1, CountAppend, Zenon
  <2> HIDE DEF units
  <2> QED
    BY <1>1, <1>4, <2>1
<1>6. Extended(s, u) = [units |-> units, vowels |-> vowels,
                        left |-> s.left - Size(u), forced |-> <<>>]
  BY DEF Extended
<1>7. s.left - Size(u) \in Nat /\ <<>> \in Seq(Unit) /\ Len(<<>>) = 0
  BY <1>1, EmptySeq
<1> HIDE DEF units, vowels
<1> QED
  BY <1>1, <1>2, <1>3, <1>5, <1>6, <1>7 DEF Syllable

\* What is carried over: nothing, the unit, or the unit and the one before it.
LEMMA CarriedFacts ==
  ASSUME NEW s \in Syllable, NEW u \in Unit
  PROVE  \/ /\ Carried(s, u) = <<>> /\ ~SplitsPair(s, u) /\ ~Splits(s, u) /\ ~Breaks(s, u)
            /\ Units(s, u) = Append(s.units, u)
         \/ /\ Carried(s, u) = <<u>> /\ ~SplitsPair(s, u) /\ (Splits(s, u) \/ Breaks(s, u))
            /\ Units(s, u) = s.units /\ s.units # <<>> /\ s.vowels > 0
         \/ /\ Carried(s, u) = <<Final(s.units), u>> /\ SplitsPair(s, u) /\ s.units # <<>>
            /\ Units(s, u) = SubSeq(s.units, 1, Len(s.units) - 1) /\ Len(s.units) > 1
<1>1. s.units \in Seq(Unit) /\ Len(<<>>) = 0
  BY FieldTypes, EmptySeq
<1>2. SplitsPair(s, u) => Len(s.units) > 1 /\ s.units # <<>>
  BY <1>1 DEF SplitsPair
<1>3. Splits(s, u) => s.units # <<>> /\ s.vowels > 0
  BY <1>1 DEF Splits, Divides
<1>4. Breaks(s, u) => s.units # <<>> /\ s.vowels > 0
  BY DEF Breaks
<1> QED
  BY <1>2, <1>3, <1>4, Zenon DEF Carried, Units

\* What ends and what is carried over is what there was and the unit.
LEMMA EndFacts ==
  ASSUME NEW s \in Syllable, NEW u \in Unit
  PROVE  /\ Units(s, u) \in Seq(Unit) /\ Units(s, u) # <<>>
         /\ Carried(s, u) \in Seq(Unit) /\ Len(Carried(s, u)) <= 2
         /\ Letters(Units(s, u)) + Letters(Carried(s, u)) = Letters(s.units) + Size(u)
<1>1. s.units \in Seq(Unit) /\ Letters(s.units) \in Nat /\ Size(u) \in {1, 2}
  BY FieldTypes, LettersType, SizeType
<1>2. CASE Carried(s, u) = <<>> /\ Units(s, u) = Append(s.units, u)
  <2>1. /\ Units(s, u) \in Seq(Unit) /\ Units(s, u) # <<>>
        /\ Letters(Units(s, u)) = Letters(s.units) + Size(u)
    BY <1>1, <1>2, AppendProperties, LettersAppend
  <2>2. Carried(s, u) \in Seq(Unit) /\ Len(Carried(s, u)) = 0 /\ Letters(Carried(s, u)) = 0
    BY <1>2, EmptySeq, LettersFew
  <2> QED
    BY <1>1, <2>1, <2>2
<1>3. CASE Carried(s, u) = <<u>> /\ Units(s, u) = s.units /\ s.units # <<>>
  <2>1. Carried(s, u) \in Seq(Unit) /\ Len(Carried(s, u)) = 1
    BY <1>3
  <2>2. Letters(Carried(s, u)) = Size(u)
    BY <1>3, LettersFew
  <2> QED
    BY <1>1, <1>3, <2>1, <2>2
<1>4. CASE /\ Carried(s, u) = <<Final(s.units), u>> /\ s.units # <<>>
           /\ Units(s, u) = SubSeq(s.units, 1, Len(s.units) - 1) /\ Len(s.units) > 1
  <2>1. /\ Units(s, u) \in Seq(Unit) /\ Units(s, u) # <<>> /\ Final(s.units) \in Unit
        /\ Letters(s.units) = Letters(Units(s, u)) + Size(Final(s.units))
    BY <1>1, <1>4, AllButLast, Zenon
  <2>2. Carried(s, u) \in Seq(Unit) /\ Len(Carried(s, u)) = 2
    BY <1>4, <2>1
  <2>3. Letters(Carried(s, u)) = Size(Final(s.units)) + Size(u)
    BY <1>4, <2>1, LettersFew
  <2>4. Letters(Units(s, u)) \in Nat /\ Size(Final(s.units)) \in {1, 2}
    BY <2>1, LettersType, SizeType
  <2> QED
    BY <1>1, <2>1, <2>2, <2>3, <2>4
<1> QED
  BY <1>2, <1>3, <1>4, CarriedFacts, Zenon

\* What is held after an attempt that failed fits, if what was held did: if there
\* were two units, the first has been placed in the syllable.
LEMMA HeldFacts ==
  ASSUME NEW s \in Syllable, NEW u \in Unit, ~Broken(s, u),
         NEW h \in Seq(Unit), Len(h) <= 2,
         NEW n \in Nat, Letters(h) <= n, Letters(s.units) + s.left = n,
         Len(h) = 2 => s.units # <<>> /\ s.units[1] = h[1]
  PROVE  LET k == HeldAfter(h, Carried(s, u)) IN
         k \in Seq(Unit) /\ Len(k) <= 2 /\ Letters(k) <= n
<1> DEFINE c == Carried(s, u)
<1>1. /\ s.units \in Seq(Unit) /\ Letters(s.units) \in Nat /\ s.left \in Nat
      /\ Size(u) <= s.left /\ Size(u) \in {1, 2}
  BY FieldTypes, LettersType, Fits, SizeType
<1>2. c = <<>> \/ c = <<u>> \/ c = <<Final(s.units), u>>
  BY CarriedFacts, Zenon
<1>3. CASE h = <<>> \/ c = <<>>
  <2>1. HeldAfter(h, c) = h
    BY <1>3, EmptySeq DEF HeldAfter
  <2> QED
    BY <2>1
<1>4. CASE h # <<>> /\ c # <<>> /\ Len(h) = 1
  <2>1. HeldAfter(h, c) = <<Final(c)>>
    BY <1>4 DEF HeldAfter
  <2> HIDE DEF c
  <2>2. Final(c) = u
    BY <1>4, <1>2 DEF Final
  <2>3. Letters(<<u>>) = Size(u)
    BY LettersFew
  <2> QED
    BY <1>1, <2>1, <2>2, <2>3 DEF c
<1>5. CASE h # <<>> /\ c # <<>> /\ Len(h) = 2 /\ Len(c) = 1
  <2>1. HeldAfter(h, c) = <<h[1], c[1]>>
    BY <1>5 DEF HeldAfter
  <2> HIDE DEF c
  <2>2. c[1] = u
    BY <1>5, <1>2
  <2>3. h[1] \in Unit /\ Size(h[1]) <= Letters(s.units)
    BY <1>1, <1>5, FirstUnit
  <2>4. Letters(<<h[1], u>>) = Size(h[1]) + Size(u) /\ Size(h[1]) \in {1, 2}
    BY <2>3, LettersFew, SizeType
  <2> QED
    BY <1>1, <2>1, <2>2, <2>3, <2>4 DEF c
<1>6. CASE h # <<>> /\ c # <<>> /\ Len(h) = 2 /\ Len(c) # 1
  <2>1. HeldAfter(h, c) = c
    BY <1>6 DEF HeldAfter
  <2>2. /\ c \in Seq(Unit) /\ Len(c) <= 2
        /\ Letters(Units(s, u)) + Letters(c) = Letters(s.units) + Size(u)
    BY EndFacts
  <2>3. Letters(Units(s, u)) \in Nat /\ Letters(c) \in Nat
    BY EndFacts, LettersType
  <2> HIDE DEF c
  <2> QED
    BY <1>1, <2>1, <2>2, <2>3 DEF c
<1>7. h # <<>> => Len(h) = 1 \/ Len(h) = 2
  <2>1. h # <<>> => Len(h) \in Nat \ {0}
    BY EmptySeq
  <2>2. \A k \in Nat \ {0} : k <= 2 => k = 1 \/ k = 2
    OBVIOUS
  <2> QED
    BY <2>1, <2>2, Zenon
<1> QED
  BY <1>3, <1>4, <1>5, <1>6, <1>7

\* A syllable that ends has a vowel, unless it ends with the last unit of the
\* word.
LEMMA VowelLeft ==
  ASSUME NEW s \in Syllable, NEW u \in Unit, ~Broken(s, u), Ends(s, u),
         s.vowels <= Count(s.units, Vowel)
  PROVE  \/ Carried(s, u) = <<>> /\ s.left = Size(u)
         \/ \E k \in 1 .. Len(Units(s, u)) : Units(s, u)[k] \in Vowel
<1>1. /\ s.units \in Seq(Unit) /\ s.vowels \in Nat
      /\ Count(s.units, Vowel) \in Nat
  BY FieldTypes, CountType
<1>2. CASE Units(s, u) = s.units /\ s.vowels > 0
  <2>1. Count(s.units, Vowel) > 0
    BY <1>1, <1>2
  <2> QED
    BY <1>1, <1>2, <2>1, CountType
<1>3. CASE /\ Carried(s, u) = <<>> /\ Units(s, u) = Append(s.units, u)
           /\ ~SplitsPair(s, u) /\ ~Splits(s, u) /\ ~Breaks(s, u)
  <2>1. s.left = Size(u) \/ (s.units # <<>> /\ "end" \in Digram[Final(s.units)][u])
    BY <1>3 DEF Ends, Stops
  <2>2. ASSUME s.units # <<>>, "end" \in Digram[Final(s.units)][u]
        PROVE  \E k \in 1 .. Len(Units(s, u)) : Units(s, u)[k] \in Vowel
    <3>1. s.vowels # 0 \/ u \in Vowel
      BY <2>2, Zenon DEF Broken, BrokenByPair
    <3>2. CASE u \in Vowel
      <4>1. /\ Units(s, u)[Len(s.units) + 1] = u
            /\ Len(Units(s, u)) = Len(s.units) + 1 /\ Len(s.units) \in Nat
        BY <1>1, <1>3, AppendProperties, LenProperties
      <4> QED
        BY <3>2, <4>1
    <3>3. CASE s.vowels # 0
      <4>1. Count(s.units, Vowel) > 0
        BY <1>1, <3>3
      <4>2. PICK k \in 1 .. Len(s.units) : s.units[k] \in Vowel
        BY <1>1, <4>1, CountType
      <4>3. /\ Units(s, u)[k] = s.units[k]
            /\ Len(Units(s, u)) = Len(s.units) + 1 /\ Len(s.units) \in Nat
        BY <1>1, <1>3, AppendProperties, LenProperties
      <4> QED
        BY <4>2, <4>3
    <3> QED
      BY <3>1, <3>2, <3>3
  <2> QED
    BY <1>3, <2>1, <2>2
<1>4. CASE /\ SplitsPair(s, u) /\ s.units # <<>>
           /\ Units(s, u) = SubSeq(s.units, 1, Len(s.units) - 1)
  <2>1. /\ Units(s, u) \in Seq(Unit) /\ Final(s.units) \in Unit
        /\ s.units = Append(Units(s, u), Final(s.units))
    BY <1>1, <1>4, AllButLast, Zenon
  <2>2. Count(s.units, Vowel) = IF Final(s.units) \in Vowel
                                THEN Count(Units(s, u), Vowel) + 1
                                ELSE Count(Units(s, u), Vowel)
    <3> DEFINE front == Units(s, u)
               last == Final(s.units)
    <3>1. front \in Seq(Unit) /\ last \in Unit
      BY <2>1
    <3> HIDE DEF front, last
    <3>2. Count(Append(front, last), Vowel)
            = IF last \in Vowel THEN Count(front, Vowel) + 1 ELSE Count(front, Vowel)
      BY <3>1, CountAppend
    <3> QED
      BY <2>1, <3>2 DEF front, last
  <2>3. Count(Units(s, u), Vowel) \in Nat
    BY <2>1, CountType
  <2>4. s.vowels > 0 /\ ~(s.vowels = 1 /\ Final(s.units) \in Vowel)
    BY <1>4 DEF SplitsPair
  <2>5. Count(Units(s, u), Vowel) > 0
    BY <1>1, <2>2, <2>3, <2>4
  <2> QED
    BY <2>1, <2>5, CountType, Zenon
<1> QED
  BY <1>2, <1>3, <1>4, CarriedFacts, Zenon

-----------------------------------------------------------------------------
(***************************************************************************)
(* The invariant.                                                          *)
(***************************************************************************)

LEMMA LengthIsNat == Lengths \subseteq Nat \ {0}
BY NameGenAssumption

\* A word of n letters begins.
LEMMA BeginFacts ==
  ASSUME NEW n \in Nat
  PROVE  /\ Fresh(n, <<>>) \in Syllable /\ Len(Fresh(n, <<>>).forced) <= 1
         /\ Letters(Fresh(n, <<>>).units) + Fresh(n, <<>>).left = n
         /\ Fresh(n, <<>>).vowels <= Count(Fresh(n, <<>>).units, Vowel)
         /\ <<>> \in Seq(Unit) /\ Len(<<>>) = 0 /\ Letters(<<>>) = 0
<1>1. <<>> \in Seq(Unit) /\ Len(<<>>) = 0 /\ Letters(<<>>) = 0
  BY EmptySeq, LettersFew
<1>2. Len(<<>>) <= 2 /\ Letters(<<>>) <= n
  BY <1>1
<1> QED
  BY <1>1, <1>2, FreshFacts, Zenon

LEMMA Initially == Init => IInv
<1> SUFFICES ASSUME Init PROVE IInv
  OBVIOUS
<1>1. length \in Nat \ {0} /\ length \in Lengths
  BY LengthIsNat DEF Init
<1>2. /\ syl \in Syllable /\ Len(syl.forced) <= 1
      /\ Letters(syl.units) + syl.left = length
      /\ syl.vowels <= Count(syl.units, Vowel)
      /\ <<>> \in Seq(Unit) /\ Len(<<>>) = 0 /\ Letters(<<>>) = 0
  BY <1>1, BeginFacts DEF Init
<1>3. Missing = length
  BY <1>1, <1>2 DEF Missing, Init
<1>4. Types
  BY <1>1, <1>2 DEF Types, Init
<1>5. Measured
  BY <1>1, <1>2, <1>3 DEF Measured, Init
<1>6. VowelsAreThere
  BY <1>2 DEF VowelsAreThere
<1>7. VowelSoFar /\ VowelInSyllable
  BY DEF VowelSoFar, VowelInSyllable, Init
<1> QED
  BY <1>4, <1>5, <1>6, <1>7 DEF IInv

\* Each attempt begins with what is held, and misses what the word misses.
LEMMA AgainFacts ==
  ASSUME Types, Measured, NEW h \in Seq(Unit), Len(h) <= 2, Letters(h) <= Missing,
         Again(h), UNCHANGED <<length, word, starts>>,
         status = "running", status' \in {"running", "failed"},
         VowelSoFar, VowelInSyllable
  PROVE  IInv'
<1>1. Missing \in Nat \ {0} /\ Missing' = Missing
  <2>1. Missing > 0
    BY DEF Measured
  <2>2. Letters(word) \in Nat /\ length \in Nat
    BY LettersType, LengthIsNat DEF Types
  <2> QED
    BY <2>1, <2>2 DEF Missing
<1>2. hold' = h /\ syl' = Fresh(Missing, h)
  BY DEF Again
<1>3. /\ syl' \in Syllable /\ Len(syl'.forced) <= 1
      /\ Letters(syl'.units) + syl'.left = Missing
      /\ syl'.vowels <= Count(syl'.units, Vowel)
      /\ Len(h) = 2 => syl'.units # <<>> /\ syl'.units[1] = h[1]
  <2>1. Missing \in Nat
    BY <1>1
  <2> QED
    BY <1>2, <2>1, FreshFacts, Zenon
<1>4. Types'
  BY <1>2, <1>3 DEF Types
<1>5. Measured'
  BY <1>1, <1>2, <1>3 DEF Measured
<1>6. VowelsAreThere'
  BY <1>3 DEF VowelsAreThere
<1>7. VowelSoFar' /\ VowelInSyllable'
  BY <1>1 DEF VowelSoFar, VowelInSyllable
<1> QED
  BY <1>4, <1>5, <1>6, <1>7 DEF IInv

LEMMA BeginKeeps ==
  ASSUME IInv, NEW n \in Lengths, Begin(n)
  PROVE  IInv'
<1>1. n \in Nat \ {0}
  BY LengthIsNat
<1>2. /\ status' = "running" /\ length' = n /\ word' = <<>> /\ starts' = {}
      /\ hold' = <<>> /\ syl' = Fresh(n, <<>>)
  BY DEF Begin
<1>3. /\ syl' \in Syllable /\ Len(syl'.forced) <= 1
      /\ Letters(syl'.units) + syl'.left = n
      /\ syl'.vowels <= Count(syl'.units, Vowel)
      /\ <<>> \in Seq(Unit) /\ Len(<<>>) = 0 /\ Letters(<<>>) = 0
  BY <1>1, <1>2, BeginFacts
<1>4. Missing' = n
  BY <1>1, <1>2, <1>3 DEF Missing
<1>5. Types'
  BY <1>1, <1>2, <1>3 DEF Types
<1>6. Measured'
  BY <1>1, <1>2, <1>3, <1>4 DEF Measured
<1>7. VowelsAreThere'
  BY <1>3 DEF VowelsAreThere
<1>8. VowelSoFar' /\ VowelInSyllable'
  BY <1>2 DEF VowelSoFar, VowelInSyllable
<1> QED
  BY <1>5, <1>6, <1>7, <1>8 DEF IInv

LEMMA RefuseKeeps ==
  ASSUME IInv, Refuse
  PROVE  IInv'
<1>1. /\ syl' = [syl EXCEPT !.forced = <<>>]
      /\ UNCHANGED <<status, length, word, starts, hold>>
  BY DEF Refuse
<1>2. /\ syl' \in Syllable /\ syl'.units = syl.units /\ syl'.vowels = syl.vowels
      /\ syl'.left = syl.left /\ syl'.forced = <<>>
  <2>1. syl \in Syllable /\ <<>> \in Seq(Unit)
    BY EmptySeq DEF IInv, Types
  <2> QED
    BY <1>1, <2>1 DEF Syllable
<1>3. Missing' = Missing
  BY <1>1 DEF Missing
<1>4. Types'
  BY <1>1, <1>2, EmptySeq DEF IInv, Types
<1>5. Measured'
  BY <1>1, <1>2, <1>3 DEF IInv, Measured
<1>6. VowelsAreThere'
  BY <1>2 DEF IInv, VowelsAreThere
<1>7. VowelSoFar' /\ VowelInSyllable'
  BY <1>1, <1>3 DEF IInv, VowelSoFar, VowelInSyllable
<1> QED
  BY <1>4, <1>5, <1>6, <1>7 DEF IInv

LEMMA ExtendKeeps ==
  ASSUME IInv, NEW u \in Unit, Extend(u)
  PROVE  IInv'
<1>1. /\ syl' = Extended(syl, u) /\ ~Broken(syl, u)
      /\ UNCHANGED <<status, length, word, starts, hold>>
  BY DEF Extend
<1>2. syl \in Syllable /\ syl.vowels <= Count(syl.units, Vowel)
  BY DEF IInv, Types, VowelsAreThere
<1>3. /\ syl' \in Syllable /\ Len(syl'.forced) <= 1
      /\ Letters(syl'.units) + syl'.left = Letters(syl.units) + syl.left
      /\ syl'.vowels <= Count(syl'.units, Vowel)
      /\ syl.units # <<>> => syl'.units # <<>> /\ syl'.units[1] = syl.units[1]
  BY <1>1, <1>2, ExtendedFacts, Zenon
<1>4. Missing' = Missing
  BY <1>1 DEF Missing
<1>5. Types'
  BY <1>1, <1>3 DEF IInv, Types
<1>6. Measured'
  BY <1>1, <1>3, <1>4 DEF IInv, Measured
<1>7. VowelsAreThere'
  BY <1>3 DEF VowelsAreThere
<1>8. VowelSoFar' /\ VowelInSyllable'
  BY <1>1, <1>4 DEF IInv, VowelSoFar, VowelInSyllable
<1> QED
  BY <1>5, <1>6, <1>7, <1>8 DEF IInv

\* What the attempt that fails leaves to be held fits.
LEMMA LeavesFitting ==
  ASSUME Types, Measured, NEW u \in Unit, ~Broken(syl, u)
  PROVE  /\ HeldAfter(hold, Carried(syl, u)) \in Seq(Unit)
         /\ Len(HeldAfter(hold, Carried(syl, u))) <= 2
         /\ Letters(HeldAfter(hold, Carried(syl, u))) <= Missing
         /\ Carried(syl, u) \in Seq(Unit) /\ Len(Carried(syl, u)) <= 2
         /\ Letters(Carried(syl, u)) <= Missing
<1>1. /\ syl \in Syllable /\ hold \in Seq(Unit) /\ Len(hold) <= 2
      /\ Letters(hold) <= Missing /\ Letters(syl.units) + syl.left = Missing
      /\ Len(hold) = 2 => syl.units # <<>> /\ syl.units[1] = hold[1]
  BY DEF Types, Measured
<1>2. syl.left \in Nat /\ Letters(syl.units) \in Nat
  BY <1>1, FieldTypes, LettersType
<1>3. Missing \in Nat
  BY <1>1, <1>2
<1>4. /\ HeldAfter(hold, Carried(syl, u)) \in Seq(Unit)
      /\ Len(HeldAfter(hold, Carried(syl, u))) <= 2
      /\ Letters(HeldAfter(hold, Carried(syl, u))) <= Missing
  BY <1>1, <1>3, HeldFacts, Zenon
<1>5. /\ Units(syl, u) \in Seq(Unit) /\ Carried(syl, u) \in Seq(Unit)
      /\ Len(Carried(syl, u)) <= 2
      /\ Letters(Units(syl, u)) + Letters(Carried(syl, u)) = Letters(syl.units) + Size(u)
  BY <1>1, EndFacts
<1>6. /\ Letters(Units(syl, u)) \in Nat /\ Letters(Carried(syl, u)) \in Nat
      /\ Size(u) \in {1, 2} /\ Size(u) <= syl.left
  BY <1>2, <1>5, LettersType, SizeType, Fits
<1>7. Letters(Carried(syl, u)) <= Missing
  BY <1>1, <1>2, <1>5, <1>6
<1> QED
  BY <1>4, <1>5, <1>7

LEMMA AbandonKeeps ==
  ASSUME IInv, NEW u \in Unit, Abandon(u)
  PROVE  IInv'
<1>1. /\ status = "running" /\ UNCHANGED <<status, length, word, starts>>
      /\ Again(IF Broken(syl, u) THEN hold ELSE HeldAfter(hold, Carried(syl, u)))
  BY DEF Abandon
<1>2. /\ Types /\ Measured /\ VowelSoFar /\ VowelInSyllable
      /\ hold \in Seq(Unit) /\ Len(hold) <= 2 /\ Letters(hold) <= Missing
  BY DEF IInv, Types, Measured
<1>3. CASE Broken(syl, u)
  BY <1>1, <1>2, <1>3, AgainFacts
<1>4. CASE ~Broken(syl, u)
  <2>1. /\ HeldAfter(hold, Carried(syl, u)) \in Seq(Unit)
        /\ Len(HeldAfter(hold, Carried(syl, u))) <= 2
        /\ Letters(HeldAfter(hold, Carried(syl, u))) <= Missing
    BY <1>2, <1>4, LeavesFitting
  <2> QED
    BY <1>1, <1>2, <1>4, <2>1, AgainFacts
<1> QED
  BY <1>3, <1>4

LEMMA MisplaceKeeps ==
  ASSUME IInv, NEW u \in Unit, Misplace(u)
  PROVE  IInv'
<1>1. /\ status = "running" /\ UNCHANGED <<status, length, word, starts>>
      /\ ~Broken(syl, u) /\ Again(HeldAfter(hold, Carried(syl, u)))
  BY DEF Misplace
<1>2. Types /\ Measured /\ VowelSoFar /\ VowelInSyllable
  BY DEF IInv
<1>3. /\ HeldAfter(hold, Carried(syl, u)) \in Seq(Unit)
      /\ Len(HeldAfter(hold, Carried(syl, u))) <= 2
      /\ Letters(HeldAfter(hold, Carried(syl, u))) <= Missing
  BY <1>1, <1>2, LeavesFitting
<1> QED
  BY <1>1, <1>2, <1>3, AgainFacts

LEMMA RejectKeeps ==
  ASSUME IInv, NEW u \in Unit, Reject(u)
  PROVE  IInv'
<1>1. /\ status = "running" /\ status' \in {"running", "failed"}
      /\ UNCHANGED <<length, word, starts>>
      /\ ~Broken(syl, u) /\ Again(Carried(syl, u))
  BY DEF Reject
<1>2. Types /\ Measured /\ VowelSoFar /\ VowelInSyllable
  BY DEF IInv
<1>3. /\ Carried(syl, u) \in Seq(Unit) /\ Len(Carried(syl, u)) <= 2
      /\ Letters(Carried(syl, u)) <= Missing
  BY <1>1, <1>2, LeavesFitting
<1> QED
  BY <1>1, <1>2, <1>3, AgainFacts

\* The word goes on by a syllable.  What it misses then is what is left when the
\* syllable and what it carried over are placed.
LEMMA JoinKeeps ==
  ASSUME IInv, NEW u \in Unit, Join(u)
  PROVE  IInv'
<1> DEFINE U == Units(syl, u)
           C == Carried(syl, u)
           m == Missing - Letters(U)
<1>1. /\ status = "running" /\ ~Broken(syl, u) /\ Ends(syl, u)
      /\ word' = word \o U /\ starts' = starts \union {Len(word) + 1}
      /\ hold' = C /\ syl' = Fresh(m, C) /\ length' = length
      /\ status' \in {IF m > 0 THEN "running" ELSE "done", "failed"}
  BY DEF Join
<1>2. /\ syl \in Syllable /\ word \in Seq(Unit) /\ starts \subseteq DOMAIN word
      /\ length \in Lengths /\ Missing > 0
      /\ Letters(syl.units) + syl.left = Missing
      /\ syl.vowels <= Count(syl.units, Vowel)
  BY <1>1 DEF IInv, Types, Measured, VowelsAreThere
<1>3. /\ U \in Seq(Unit) /\ U # <<>> /\ C \in Seq(Unit) /\ Len(C) <= 2
      /\ Letters(U) + Letters(C) = Letters(syl.units) + Size(u)
  BY <1>2, EndFacts
<1>4. \/ C = <<>> /\ syl.left = Size(u)
      \/ \E k \in 1 .. Len(U) : U[k] \in Vowel
  BY <1>1, <1>2, VowelLeft, Zenon
<1>5. /\ Len(word) \in Nat /\ DOMAIN word = 1 .. Len(word)
      /\ Len(U) \in Nat \ {0}
  BY <1>2, <1>3, LenProperties, EmptySeq
<1> HIDE DEF U, C
<1>6. /\ Letters(U) \in Nat /\ Letters(C) \in Nat /\ Letters(word) \in Nat
      /\ Letters(syl.units) \in Nat /\ syl.left \in Nat
      /\ Size(u) \in {1, 2} /\ Size(u) <= syl.left /\ length \in Nat
  BY <1>1, <1>2, <1>3, FieldTypes, LettersType, SizeType, Fits, LengthIsNat
<1>7. m \in Nat /\ Letters(C) <= m /\ (C = <<>> /\ syl.left = Size(u) => m = 0)
  BY <1>2, <1>3, <1>6, LettersFew
<1>8. Missing' = m
  <2>1. Letters(word') = Letters(word) + Letters(U)
    BY <1>1, <1>2, <1>3, LettersConcat
  <2> QED
    BY <1>1, <1>6, <2>1 DEF Missing
<1>9. /\ word' \in Seq(Unit) /\ Len(word') = Len(word) + Len(U)
      /\ DOMAIN word' = 1 .. Len(word) + Len(U)
      /\ \A k \in 1 .. Len(word) : word'[k] = word[k]
      /\ \A k \in 1 .. Len(U) : word'[Len(word) + k] = U[k]
  <2>1. /\ word' \in Seq(Unit) /\ Len(word') = Len(word) + Len(U)
        /\ \A k \in 1 .. Len(word) + Len(U) :
             word'[k] = IF k <= Len(word) THEN word[k] ELSE U[k - Len(word)]
    BY <1>1, <1>2, <1>3, ConcatProperties
  <2>2. DOMAIN word' = 1 .. Len(word) + Len(U)
    BY <2>1, LenProperties
  <2> QED
    BY <1>5, <2>1, <2>2
<1>10. /\ syl' \in Syllable /\ Len(syl'.forced) <= 1
       /\ Letters(syl'.units) + syl'.left = m
       /\ syl'.vowels <= Count(syl'.units, Vowel)
       /\ Len(C) = 2 => syl'.units # <<>> /\ syl'.units[1] = C[1]
  <2> HIDE DEF m
  <2> QED
    BY <1>1, <1>3, <1>7, FreshFacts, Zenon
<1>11. Types'
  <2>1. status' \in {"idle", "running", "done", "failed"}
    BY <1>1
  <2>2. starts' \subseteq DOMAIN word'
    BY <1>1, <1>2, <1>5, <1>9
  <2> HIDE DEF m
  <2> QED
    BY <1>1, <1>2, <1>3, <1>9, <1>10, <2>1, <2>2 DEF Types
<1>12. Measured'
  <2>1. (status' = "running" => m > 0) /\ (status' = "done" => m = 0)
    BY <1>1, <1>7
  <2> HIDE DEF m
  <2> QED
    BY <1>1, <1>7, <1>8, <1>10, <2>1 DEF Measured
<1>13. VowelsAreThere'
  BY <1>10 DEF VowelsAreThere
<1>14. \A i \in starts : \E k \in i .. Len(word) : word[k] \in Vowel
  BY <1>2 DEF IInv, VowelSoFar
<1>15. VowelSoFar'
  <2> SUFFICES ASSUME m > 0, NEW i \in starts'
               PROVE  \E k \in i .. Len(word') : word'[k] \in Vowel
    BY <1>8 DEF VowelSoFar
  <2>1. CASE i \in starts
    <3>1. PICK k \in i .. Len(word) : word[k] \in Vowel
      BY <1>14, <2>1
    <3>2. i \in 1 .. Len(word)
      BY <1>2, <1>5, <2>1
    <3>3. k \in 1 .. Len(word) /\ k \in i .. Len(word')
      BY <1>5, <1>9, <3>2
    <3> QED
      BY <1>9, <3>1, <3>3
  <2>2. CASE i = Len(word) + 1
    <3>1. PICK k \in 1 .. Len(U) : U[k] \in Vowel
      BY <1>4, <1>7
    <3>2. Len(word) + k \in i .. Len(word') /\ word'[Len(word) + k] \in Vowel
      BY <1>5, <1>9, <2>2, <3>1
    <3> QED
      BY <3>2
  <2> QED
    BY <1>1, <2>1, <2>2
<1>16. VowelInSyllable'
  <2> SUFFICES ASSUME NEW i \in starts', NEW j \in starts', i < j
               PROVE  \E k \in i .. j - 1 : word'[k] \in Vowel
    BY DEF VowelInSyllable
  <2>1. i \in starts /\ i \in 1 .. Len(word) /\ j \in 1 .. Len(word) + 1
    BY <1>1, <1>2, <1>5
  <2>2. CASE j \in starts
    <3>1. PICK k \in i .. j - 1 : word[k] \in Vowel
      BY <2>1, <2>2 DEF IInv, VowelInSyllable
    <3>2. j \in 1 .. Len(word)
      BY <1>2, <1>5, <2>2
    <3>3. k \in 1 .. Len(word)
      BY <1>5, <2>1, <3>2
    <3> QED
      BY <1>9, <3>1, <3>3
  <2>3. CASE j = Len(word) + 1
    <3>1. PICK k \in i .. Len(word) : word[k] \in Vowel
      BY <1>14, <2>1
    <3>2. k \in 1 .. Len(word) /\ k \in i .. j - 1
      BY <1>5, <2>1, <2>3
    <3> QED
      BY <1>9, <3>1, <3>2
  <2> QED
    BY <1>1, <2>2, <2>3
<1> QED
  BY <1>11, <1>12, <1>13, <1>15, <1>16 DEF IInv

\* Every unit that is tried is one.
LEMMA ChoicesAreUnits ==
  ASSUME Types
  PROVE  Choices(syl) \subseteq Unit
<1>1. CASE syl.forced # <<>>
  <2>1. syl.forced[1] \in Unit
    BY <1>1, FieldTypes, FirstUnit DEF Types
  <2> QED
    BY <1>1, <2>1 DEF Choices
<1>2. CASE syl.forced = <<>>
  BY <1>2, NameGenAssumption DEF Choices, Types
<1> QED
  BY <1>1, <1>2

LEMMA Inductive == IInv /\ [Next]_vars => IInv'
<1> SUFFICES ASSUME IInv, [Next]_vars PROVE IInv'
  OBVIOUS
<1>1. ASSUME NEW n \in Lengths, Begin(n) PROVE IInv'
  BY <1>1, BeginKeeps
<1>2. CASE Refuse
  BY <1>2, RefuseKeeps
<1>3. ASSUME NEW u \in Choices(syl), Draw(u) PROVE IInv'
  <2>1. u \in Unit
    BY ChoicesAreUnits DEF IInv
  <2>2. CASE Extend(u)
    BY <2>1, <2>2, ExtendKeeps
  <2>3. CASE Abandon(u)
    BY <2>1, <2>3, AbandonKeeps
  <2>4. CASE Misplace(u)
    BY <2>1, <2>4, MisplaceKeeps
  <2>5. CASE Reject(u)
    BY <2>1, <2>5, RejectKeeps
  <2>6. CASE Join(u)
    BY <2>1, <2>6, JoinKeeps
  <2> QED
    BY <1>3, <2>2, <2>3, <2>4, <2>5, <2>6 DEF Draw
<1>4. CASE UNCHANGED vars
  BY <1>4 DEF vars, IInv, Types, Measured, VowelsAreThere, VowelSoFar, VowelInSyllable, Missing
<1> QED
  BY <1>1, <1>2, <1>3, <1>4 DEF Next

LEMMA Invariance == Spec => []IInv
BY Initially, Inductive, PTL DEF Spec

-----------------------------------------------------------------------------
(***************************************************************************)
(* What it implies.                                                        *)
(***************************************************************************)

\* The slices of genWord and genSyllable are long enough: no word and no syllable
\* has more units than the word is to have letters, and no more than two units
\* are held.
THEOREM TypeCorrect == Spec => []TypeOK
<1>1. IInv => TypeOK
  <2> SUFFICES ASSUME IInv PROVE TypeOK
    OBVIOUS
  <2>1. Types /\ Measured /\ VowelsAreThere
    BY DEF IInv
  <2>2. /\ syl.units \in Seq(Unit) /\ syl.vowels \in Nat /\ syl.left \in Nat
        /\ syl.forced \in Seq(Unit) /\ length \in Nat
    BY <2>1, FieldTypes, LengthIsNat DEF Types
  <2>3. /\ Len(word) <= Letters(word) /\ Letters(word) \in Nat /\ Len(word) \in Nat
        /\ Len(syl.units) <= Letters(syl.units) /\ Letters(syl.units) \in Nat
        /\ Len(syl.units) \in Nat
    BY <2>1, <2>2, LettersType DEF Types
  <2>4. Count(syl.units, Vowel) \in Nat /\ Count(syl.units, Vowel) <= Len(syl.units)
    BY <2>2, CountType
  <2>5. Letters(syl.units) + syl.left = length - Letters(word)
    BY <2>1 DEF Measured, Missing
  <2>6. /\ Len(word) <= length + 1 /\ Len(syl.units) <= length + 1
        /\ syl.vowels \in 0 .. length /\ syl.left \in 0 .. length
    BY <2>1, <2>2, <2>3, <2>4, <2>5 DEF VowelsAreThere
  <2> QED
    BY <2>1, <2>2, <2>6 DEF TypeOK, Types
<1> QED
  BY <1>1, Invariance, PTL

\* For every length a name may be asked for and every sequence of draws: a word
\* that genWord returns has that many letters.
THEOREM WordsHaveTheirLength == Spec => []ExactLength
<1>1. IInv => ExactLength
  <2> SUFFICES ASSUME IInv, status = "done" PROVE Letters(word) = length
    BY DEF ExactLength
  <2>1. Missing = 0
    BY DEF IInv, Measured
  <2>2. length \in Nat /\ Letters(word) \in Nat
    BY LengthIsNat, LettersType DEF IInv, Types
  <2> QED
    BY <2>1, <2>2 DEF Missing
<1> QED
  BY <1>1, Invariance, PTL

\* An attempt never begins with units that are longer than what the word misses,
\* also when savedPair is the one of an attempt that failed.
THEOREM HeldUnitsFit == Spec => []HeldFits
<1>1. IInv => HeldFits
  BY DEF IInv, Measured, HeldFits
<1> QED
  BY <1>1, Invariance, PTL

\* Every syllable but the last has a vowel, whatever was drawn and wherever the
\* rules divide it.
THEOREM SyllablesHaveVowels == Spec => []VowelInSyllable
<1>1. IInv => VowelInSyllable
  BY DEF IInv
<1> QED
  BY <1>1, Invariance, PTL
=============================================================================
