------------------------------- MODULE Words -------------------------------
(***************************************************************************)
(* The names the filters pass around.  A name is kept as its spelling up   *)
(* to case (the stem), the positions of its capital letters and, for a     *)
(* label that carries a top level domain, that domain.                     *)
(*                                                                         *)
(* This is what the engine tells apart: strings.ToLower compares stems,    *)
(* == compares whole names, matchCasing moves capitals from one name to    *)
(* another, and strings.Contains(rep, ".") separates dotted from plain     *)
(* names.  Letters without case (and folds that change the letter) are     *)
(* outside the model.                                                      *)
(***************************************************************************)
EXTENDS Naturals

CONSTANTS
  Stem,       \* spellings up to case
  Length,     \* [Stem -> Nat], len() of a spelling
  Letters,    \* [Stem -> set of positions], the positions that hold a letter
  DottedStem, \* the spellings that contain a dot (FQDNs)
  Tld,        \* top level domains and their replacements
  NoTld       \* marks a name without a top level domain

ASSUME WordsAssumption ==
  /\ Length \in [Stem -> Nat]
  /\ Letters \in [Stem -> SUBSET Nat]
  /\ \A s \in Stem : Letters[s] \subseteq 1 .. Length[s]
  /\ DottedStem \subseteq Stem
  /\ NoTld \notin Tld

Word == {w \in [stem : Stem, caps : SUBSET Nat, tld : Tld \union {NoTld}] :
           w.caps \subseteq Letters[w.stem]}

Lower(s) == [stem |-> s, caps |-> {}, tld |-> NoTld]

HasDot(w) == w.tld # NoTld \/ w.stem \in DottedStem

\* strings.ToLower(v) == strings.ToLower(w)
SameFold(v, w) == v.stem = w.stem /\ v.tld = w.tld

WithTld(w, t) == [w EXCEPT !.tld = t]

\* The capitals of original moved onto replacement: all, none, or position by
\* position with the replacement's own case where original has no letter.
MatchCasing(original, replacement) ==
  LET from == Letters[original.stem]
      onto == Letters[replacement.stem]
      allUpper == from # {} /\ from \subseteq original.caps
      allLower == from # {} /\ from \intersect original.caps = {}
  IN  [replacement EXCEPT !.caps =
         {i \in onto : \/ allUpper
                       \/ ~allLower /\ i \in from /\ i \in original.caps
                       \/ ~allLower /\ i \notin from /\ i \in replacement.caps}]

\* replacement has a capital exactly where original has one, at every
\* position where original has a letter.
CasedLike(replacement, original) ==
  /\ Letters[original.stem] \subseteq Letters[replacement.stem]
  /\ replacement.caps \intersect Letters[original.stem] = original.caps
=============================================================================
