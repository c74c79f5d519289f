------------------------------ MODULE NameGen ------------------------------
(***************************************************************************)
(* The generator of pronounceable names, a draw at a time.  Units are drawn *)
(* until they make a syllable, syllables until they make a word of the     *)
(* length asked for.  A syllable may end before the unit that was drawn,   *)
(* or before the one in front of it; such units are held for the next one. *)
(* The draws are random; the model has a behaviour for each of them.       *)
(***************************************************************************)
EXTENDS Phonetics, Sequences, FiniteSets

CONSTANTS
  Lengths,   \* the lengths that are asked for
  Drawn(_)   \* bound: the units drawn for words of a length

ASSUME NameGenAssumption ==
  Lengths \subseteq 1 .. 255 /\ \A n \in Lengths : Drawn(n) \subseteq Unit

VARIABLES
  status,  \* "idle", "running", "done", or "failed" for ErrMaxTriesReached
  length,  \* the length of the word
  word,    \* its units so far
  starts,  \* history: where its syllables begin
  hold,    \* the units the next syllable has to start with, two at most
  syl      \* the syllable in the making

vars == <<status, length, word, starts, hold, syl>>

Final(s) == s[Len(s)]
Penultimate(s) == s[Len(s) - 1]

\* len() of what the units spell.
Letters(s) == Len(s) + Cardinality({i \in DOMAIN s : s[i] \in TwoLetters})
Missing == length - Letters(word)

-----------------------------------------------------------------------------
\* A syllable of at most n letters to begin with.  Of two units that are held
\* the first is taken as it is, the second has to keep the rules.
Fresh(n, h) ==
  LET placed == SubSeq(h, 1, Len(h) - 1) IN
  [units  |-> placed,
   vowels |-> IF placed # <<>> /\ h[1] \in Vowel THEN 1 ELSE 0,
   left   |-> n - Letters(placed),
   forced |-> SubSeq(h, Len(placed) + 1, Len(h))]

Choices(s) == IF s.forced # <<>> THEN {s.forced[1]} ELSE Drawn(length)

\* A slip: one unit is never a syllable.
BrokenAlone(s, u) == u \in NotBeginSyllable \/ s.left = Size(u)

\* A unit that cannot be the first.
BrokenAtStart(s, u) ==
  u \in NotBeginSyllable \/ (s.left = Size(u) /\ u \notin Vowel)

\* A unit that cannot follow the last one.
BrokenByPair(s, u) ==
  LET flags == Digram[Final(s.units)][u] IN
  \/ "illegalPair" \in flags
  \/ "break" \in flags /\ s.vowels = 0
  \/ "end" \in flags /\ s.vowels = 0 /\ u \notin Vowel
  \/ "notBegin" \in flags /\ Len(s.units) = 1

\* A vowel at which a syllable may be divided.
Divides(s, u) ==
  /\ Len(s.units) > 1 /\ u \in Vowel
  /\ s.left > Size(u) \/ Final(s.units) \notin NoFinalSplit

\* A unit that cannot follow the last two.
BrokenByContext(s, u) ==
  LET last == Final(s.units)
      before == Penultimate(s.units)
      flags == Digram[last][u]
      lastPair == Digram[before][last]
  IN
  \/ Len(s.units) = 2 /\ "begin" \in flags /\ before \in AlternateVowel
  \/ "notEnd" \in flags /\ s.left = Size(u)
  \/ "break" \in flags /\ "notEnd" \in lastPair
  \/ "prefix" \in flags /\ before \notin Vowel
  \/ Divides(s, u) /\ s.vowels > 1 /\ last \in Vowel
  \/ Divides(s, u) /\ s.vowels > 0 /\ last \notin Vowel /\ "notEnd" \in lastPair

\* A slip: the length is not looked at.
BrokenUnmeasured(s, u) ==
  \/ s.units = <<>> /\ BrokenAtStart(s, u)
  \/ s.units # <<>> /\ BrokenByPair(s, u)
  \/ Len(s.units) > 1 /\ BrokenByContext(s, u)

\* ruleBroken
Broken(s, u) ==
  \/ s.left < Size(u)
  \/ s.units = <<>> /\ BrokenAtStart(s, u)
  \/ s.units # <<>> /\ BrokenByPair(s, u)
  \/ Len(s.units) > 1 /\ BrokenByContext(s, u)

-----------------------------------------------------------------------------
(***************************************************************************)
(* What becomes of a syllable with a unit that breaks no rule.             *)
(***************************************************************************)

\* The vowel after a consonant begins the next syllable.
Splits(s, u) == Divides(s, u) /\ s.vowels > 0 /\ Final(s.units) \notin Vowel

\* The unit is the last one.
Stops(s, u) ==
  ~Splits(s, u) /\ (s.left = Size(u) \/ (s.units # <<>> /\ "end" \in Digram[Final(s.units)][u]))

\* A slip: the one before it may be the only vowel.
SplitsAnyPair(s, u) ==
  /\ Len(s.units) > 1 /\ s.vowels > 0 /\ ~Splits(s, u) /\ ~Stops(s, u)
  /\ "begin" \in Digram[Final(s.units)][u]

\* The unit and the one before it begin the next syllable.
SplitsPair(s, u) ==
  /\ Len(s.units) > 1 /\ s.vowels > 0 /\ ~Splits(s, u) /\ ~Stops(s, u)
  /\ "begin" \in Digram[Final(s.units)][u]
  /\ ~(s.vowels = 1 /\ Final(s.units) \in Vowel)

\* A break before the unit.
Breaks(s, u) ==
  /\ s.units # <<>> /\ s.vowels > 0 /\ ~Splits(s, u) /\ ~Stops(s, u) /\ ~SplitsPair(s, u)
  /\ "break" \in Digram[Final(s.units)][u]

Ends(s, u) == Splits(s, u) \/ Stops(s, u) \/ SplitsPair(s, u) \/ Breaks(s, u)

\* savedUnit and savedPair
Carried(s, u) ==
  IF SplitsPair(s, u) THEN <<Final(s.units), u>>
  ELSE IF Splits(s, u) \/ Breaks(s, u) THEN <<u>> ELSE <<>>

\* The units of the syllable that ends.
Units(s, u) ==
  IF SplitsPair(s, u) THEN SubSeq(s.units, 1, Len(s.units) - 1)
  ELSE IF Splits(s, u) \/ Breaks(s, u) THEN s.units ELSE Append(s.units, u)

\* The syllable that goes on.
Extended(s, u) ==
  [units  |-> Append(s.units, u),
   vowels |-> IF u \in Vowel /\ (s.units # <<>> \/ u \notin AlternateVowel)
              THEN s.vowels + 1 ELSE s.vowels,
   left   |-> s.left - Size(u),
   forced |-> <<>>]

\* What is held when an attempt is repeated: as many units as before, but
\* savedPair is not restored and may be from the attempt that failed.
HeldAfter(h, c) ==
  CASE h = <<>> \/ c = <<>>  -> h
    [] Len(h) = 1 /\ c # <<>> -> <<Final(c)>>
    [] Len(h) = 2 /\ c # <<>> -> IF Len(c) = 1 THEN <<h[1], c[1]>> ELSE c

-----------------------------------------------------------------------------
VowelsBefore(s, i) == {j \in 1 .. i - 1 : s[j] \in Vowel}

illegalPlacement(s) ==
  \E i \in 2 .. Len(s) :
    \/ /\ s[i - 1] \notin Vowel /\ s[i] \in Vowel
       /\ ~(s[i] \in NoFinalSplit /\ i = Len(s))
       /\ VowelsBefore(s, i) \ {j \in {1} : s[j] \in AlternateVowel} # {}
    \/ i > 2 /\ {s[i - 2], s[i - 1], s[i]} \cap Vowel = {}
    \/ i > 2 /\ {s[i - 2], s[i - 1], s[i]} \subseteq Vowel /\ ~(s[1] \in AlternateVowel /\ i = 3)

improperWord(s) ==
  \/ \E i \in 2 .. Len(s) : "illegalPair" \in Digram[s[i - 1]][s[i]]
  \/ \E i \in 3 .. Len(s) :
       \/ {s[i - 2], s[i - 1], s[i]} \cap Vowel = {}
       \/ {s[i - 2], s[i - 1], s[i]} \subseteq Vowel /\ s[i - 2] \notin AlternateVowel

\* No vowel but a "y" at the start.
haveInitialY(s) == VowelsBefore(s, Len(s) + 1) \subseteq {j \in {1} : s[j] \in AlternateVowel}

haveFinalSplit(s) ==
  Cardinality(VowelsBefore(s, Len(s) + 1)) = 1 /\ Final(s) \in NoFinalSplit

\* Whether the word can go on with the syllable s.
Improper(s) ==
  \/ improperWord(word \o s)
  \/ word = <<>> /\ haveInitialY(s)
  \/ Letters(s) = Missing /\ haveFinalSplit(s)
-----------------------------------------------------------------------------
Init ==
  /\ status = "idle" /\ length \in Lengths /\ word = <<>> /\ starts = {}
  /\ hold = <<>> /\ syl = Fresh(length, <<>>)

\* A name of n letters is asked for.
Begin(n) ==
  /\ status # "running"
  /\ status' = "running" /\ length' = n /\ word' = <<>> /\ starts' = {}
  /\ hold' = <<>> /\ syl' = Fresh(n, <<>>)

\* The attempt starts again, holding h.
Again(h) == hold' = h /\ syl' = Fresh(Missing, h)

\* The unit that is held does not fit; the next one is drawn.  Without such a
\* unit a draw that breaks a rule changes nothing.
Refuse ==
  /\ status = "running" /\ syl.forced # <<>> /\ Broken(syl, syl.forced[1])
  /\ syl' = [syl EXCEPT !.forced = <<>>]
  /\ UNCHANGED <<status, length, word, starts, hold>>

\* The syllable goes on.
Extend(u) ==
  /\ status = "running" /\ ~Broken(syl, u) /\ ~Ends(syl, u)
  /\ syl' = Extended(syl, u)
  /\ UNCHANGED <<status, length, word, starts, hold>>

\* Too many tries: this draw does not count, whether it breaks a rule or not.
\* They are not counted here; a unit that is held is the first of them.
Abandon(u) ==
  /\ status = "running" /\ syl.forced = <<>>
  /\ Again(IF Broken(syl, u) THEN hold ELSE HeldAfter(hold, Carried(syl, u)))
  /\ UNCHANGED <<status, length, word, starts>>

\* The syllable has ended, and is no syllable.
Misplace(u) ==
  /\ status = "running" /\ ~Broken(syl, u) /\ Ends(syl, u)
  /\ illegalPlacement(Units(syl, u))
  /\ Again(HeldAfter(hold, Carried(syl, u)))
  /\ UNCHANGED <<status, length, word, starts>>

\* A syllable that the word cannot go on with.  What it carried over is held.
Reject(u) ==
  /\ status = "running" /\ ~Broken(syl, u) /\ Ends(syl, u)
  /\ ~illegalPlacement(Units(syl, u)) /\ Improper(Units(syl, u))
  /\ Again(Carried(syl, u))
  /\ status' \in {"running", "failed"}
  /\ UNCHANGED <<length, word, starts>>

\* The word goes on, and is complete or not; also then there may have been too
\* many tries.
Join(u) ==
  /\ status = "running" /\ ~Broken(syl, u) /\ Ends(syl, u)
  /\ ~illegalPlacement(Units(syl, u)) /\ ~Improper(Units(syl, u))
  /\ word' = word \o Units(syl, u)
  /\ starts' = starts \union {Len(word) + 1}
  /\ hold' = Carried(syl, u)
  /\ LET missing == Missing - Letters(Units(syl, u)) IN
     /\ syl' = Fresh(missing, hold')
     /\ status' \in {IF missing > 0 THEN "running" ELSE "done", "failed"}
  /\ UNCHANGED length

Draw(u) == Extend(u) \/ Abandon(u) \/ Misplace(u) \/ Reject(u) \/ Join(u)

Next ==
  \/ \E n \in Lengths : Begin(n)
  \/ Refuse
  \/ \E u \in Choices(syl) : Draw(u)

Spec == Init /\ [][Next]_vars
-----------------------------------------------------------------------------
(***************************************************************************)
(* Properties                                                              *)
(***************************************************************************)

\* The variables have their types; no index is outside of the slices, which
\* have length + 1 elements.
TypeOK ==
  /\ status \in {"idle", "running", "done", "failed"}
  /\ length \in Lengths
  /\ word \in Seq(Unit) /\ Len(word) <= length + 1
  /\ starts \subseteq DOMAIN word
  /\ hold \in Seq(Unit) /\ Len(hold) <= 2
  /\ syl.units \in Seq(Unit) /\ Len(syl.units) <= length + 1
  /\ syl.vowels \in 0 .. length /\ syl.left \in 0 .. length
  /\ syl.forced \in Seq(Unit) /\ Len(syl.forced) <= 1

\* A word that is returned has the length that was asked for, whatever was
\* carried from one syllable to the next, held through failed attempts, or
\* taken from a syllable that was rejected.
ExactLength == status = "done" => Letters(word) = length

\* What is held fits into what is missing.  Two units that do not would be tried
\* for ever, for every attempt begins with them.
HeldFits == status = "running" => Letters(hold) <= Missing

\* Every syllable of a word but the last has a vowel, although what was counted
\* while it was drawn is not what it consists of in the end.
VowelInSyllable ==
  \A i, j \in starts : i < j => \E k \in i .. j - 1 : word[k] \in Vowel
=============================================================================
