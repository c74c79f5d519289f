---------------------------- MODULE Replacement ----------------------------
(***************************************************************************)
(* filter.GetReplacement as operators on one replacement table, a function *)
(* from generated names (the keys) to the names they stand for.  Go visits *)
(* a map in no particular order, so each branch yields a set of possible   *)
(* answers.  The generator of package names is random: it is the choice of *)
(* any candidate of the requested length.                                  *)
(***************************************************************************)
EXTENDS Words

CONSTANTS
  Candidate,  \* the stems the generator can produce
  MinLength,  \* minNamelength (8 in the code)
  MaxLength,  \* the longest generated name (255 in the code)
  CaseClash   \* whether the generator may produce a name that differs from a
              \* key of the table only in case

ASSUME ReplacementAssumption ==
  /\ Candidate \subseteq Stem \ DottedStem
  /\ MinLength \in Nat /\ MaxLength \in Nat /\ MinLength <= MaxLength
  /\ \A c \in Candidate : Letters[c] = 1 .. Length[c]
  /\ CaseClash \in BOOLEAN

\* m[k] = v
Put(m, k, v) == [x \in DOMAIN m \union {k} |-> IF x = k THEN v ELSE m[x]]

PlainKeys(m) == {k \in DOMAIN m : ~HasDot(k)}

\* A slip: the table is read by key, not by value.
ExactByKey(m, original) == PlainKeys(m) \intersect {original}

\* Keys that stand for exactly this name.
Exact(m, original) == {k \in PlainKeys(m) : m[k] = original}

\* A slip: the second lookup compares the spelling again.
FoldedExactly(m, original) == {k \in PlainKeys(m) : m[k] = original}

\* Keys that stand for this name up to case.
Folded(m, original) == {k \in PlainKeys(m) : SameFold(m[k], original)}

\* max(len(original), minNamelength), capped
NameLength(n) ==
  LET atLeast == IF n >= MinLength THEN n ELSE MinLength
  IN  IF atLeast <= MaxLength THEN atLeast ELSE MaxLength

\* What the generator may return for original, cased like original.  Without
\* CaseClash it never returns a key's spelling in another case, which for
\* random names of eight letters or more is the overwhelmingly likely run.
Generated(m, original) ==
  {MatchCasing(original, Lower(c)) :
     c \in {c \in Candidate :
       /\ Length[c] = NameLength(Length[original.stem])
       /\ \/ CaseClash
          \/ MatchCasing(original, Lower(c)) \in DOMAIN m
          \/ \A k \in PlainKeys(m) : k.stem # c}}

\* A slip: the loop forgets to ask the table.
FreshFromInput(m, original, fullInput) ==
  {r \in Generated(m, original) : r \notin fullInput}

\* The generated names the loop accepts: not part of the input, not a key.
Fresh(m, original, fullInput) ==
  {r \in Generated(m, original) : r \notin fullInput /\ r \notin DOMAIN m}

\* A slip: no second lookup.
ReplacementsWithoutFold(m, original, fullInput) ==
  IF Exact(m, original) # {} THEN Exact(m, original) ELSE Fresh(m, original, fullInput)

\* A slip: no lookup at all.
ReplacementsWithoutLookup(m, original, fullInput) == Fresh(m, original, fullInput)

\* What GetReplacement may answer.
Replacements(m, original, fullInput) ==
  IF Exact(m, original) # {} THEN Exact(m, original)
  ELSE IF Folded(m, original) # {}
       THEN {MatchCasing(original, k) : k \in Folded(m, original)}
       ELSE Fresh(m, original, fullInput)

\* A slip: the key is written in lower case.
RecordedLower(m, original, r) ==
  IF Exact(m, original) # {} THEN m ELSE Put(m, Lower(r.stem), original)

\* The table after the answer r: unchanged on an exact hit.
Recorded(m, original, r) ==
  IF Exact(m, original) # {} THEN m ELSE Put(m, r, original)
=============================================================================
