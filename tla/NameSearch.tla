----------------------------- MODULE NameSearch -----------------------------
(***************************************************************************)
(* What the regular expression of a list of names finds in a text.  Texts  *)
(* and names are sequences of pieces: runs of ASCII letters, digits and    *)
(* underscores, and, one by one, letters outside ASCII, dots, blanks and   *)
(* punctuation.                                                            *)
(* Names are compared without regard to case, so a piece is a spelling up  *)
(* to case, and the list is a set.                                         *)
(***************************************************************************)
EXTENDS Naturals, Sequences

CONSTANTS
  Width,  \* [piece -> Nat], its length in the regular expression
  Ascii,  \* the pieces that are runs of ASCII letters, digits and underscores
  Tiny,   \* the pieces that are a single byte
  Code    \* a replacement, whatever run of letters it is

ASSUME NameSearchAssumption ==
  /\ \A p \in DOMAIN Width : Width[p] \in Nat \ {0}
  /\ Ascii \subseteq DOMAIN Width /\ Tiny \subseteq DOMAIN Width
  /\ Code \in Ascii

Name == Seq(DOMAIN Width)

\* The names that are given to a list: a replacement is no part of them.
Listed == Seq(DOMAIN Width \ {Code})

\* A run goes as far as it can.
RunsApart(t) == \A k \in 1 .. Len(t) - 1 : ~(t[k] \in Ascii /\ t[k + 1] \in Ascii)

\* len(name) < 2
TooShort(n) == n = <<>> \/ (Len(n) = 1 /\ n[1] \in Tiny)

PatternWidth(n) ==
  LET upTo[k \in 0 .. Len(n)] == IF k = 0 THEN 0 ELSE upTo[k - 1] + Width[n[k]]
  IN  upTo[Len(n)]

StandsAt(n, t, k) ==
  k + Len(n) - 1 <= Len(t) /\ SubSeq(t, k, k + Len(n) - 1) = n

Occurs(n, t) == \E k \in 1 .. Len(t) : StandsAt(n, t, k)

\* \b after the first k pieces: ASCII on one side only.
Boundary(t, k) ==
  LET ascii(j) == j \in 1 .. Len(t) /\ t[j] \in Ascii
  IN  ascii(k) # ascii(k + 1)

\* The alternatives that match at k.
MatchesAt(names, t, k) ==
  {n \in names : /\ StandsAt(n, t, k)
                 /\ Boundary(t, k - 1) /\ Boundary(t, k + Len(n) - 1)}

\* A slip: the alternatives are in ascending order.
ShortestFirst(ns) == CHOOSE n \in ns : \A m \in ns : PatternWidth(n) <= PatternWidth(m)

\* The first alternative; two that are equally long cannot both match.
First(ns) == CHOOSE n \in ns : \A m \in ns : PatternWidth(n) >= PatternWidth(m)

\* The text with a replacement for every match, from left to right.
Redacted(names, t) ==
  LET from[k \in 1 .. Len(t) + 1] ==
        IF k > Len(t) THEN <<>>
        ELSE LET ns == MatchesAt(names, t, k)
             IN  IF ns = {} THEN <<t[k]>> \o from[k + 1]
                 ELSE <<Code>> \o from[k + Len(First(ns))]
  IN  from[1]

\* The names \b can find: those that begin and end with an ASCII letter or digit.
Findable(n) == n # <<>> /\ n[1] \in Ascii /\ n[Len(n)] \in Ascii
=============================================================================
