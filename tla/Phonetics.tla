----------------------------- MODULE Phonetics -----------------------------
(***************************************************************************)
(* The tables of the name generator: the units words are put together      *)
(* from, and what is known about each pair of units.                       *)
(***************************************************************************)
EXTENDS Naturals

\* Units of one letter and of two.
OneLetter == {"a", "b", "c", "d", "e", "f", "g", "h", "i", "j", "k", "l", "m", "n", "o",
              "p", "r", "s", "t", "u", "v", "w", "x", "y", "z"}
TwoLetters == {"ch", "gh", "ph", "rh", "sh", "th", "wh", "qu", "ck"}

Unit == OneLetter \union TwoLetters

Size(u) == IF u \in TwoLetters THEN 2 ELSE 1

\* Units with a flag in the rules.
Vowel == {"a", "e", "i", "o", "u", "y"}
AlternateVowel == {"y"}
NoFinalSplit == {"e"}
NotBeginSyllable == {"x", "ck"}

\* What a pair may be flagged with, and the two most frequent sets of flags.
Flag == {"begin", "notBegin", "break", "prefix", "illegalPair", "suffix", "end", "notEnd"}
Apart == {"notBegin", "break", "notEnd"}
Never == {"illegalPair"}

\* A row of the matrix from pairs of flags and the units that have them; all
\* other units have none.
Row(groups) == [v \in Unit |-> UNION {g[1] : g \in {h \in groups : v \in h[2]}}]

RowA == Row({
  <<Never, {"a", "e", "o", "gh", "rh", "wh"}>>,
  <<Apart, {"h"}>>,
  <<{"break", "notEnd"}, {"qu"}>>})

RowB == Row({
  <<Apart, {"b", "c", "d", "f", "g", "h", "j", "k", "m", "n", "p", "t", "v", "w", "z",
      "ch", "ph", "sh", "th", "qu"}>>,
  <<{"begin", "suffix", "notEnd"}, {"l"}>>,
  <<{"begin", "end"}, {"r"}>>,
  <<{"notBegin"}, {"s"}>>,
  <<Never, {"x", "gh", "rh", "wh", "ck"}>>})

RowC == Row({
  <<Apart, {"b", "c", "d", "f", "g", "h", "j", "k", "m", "n", "p", "v", "w", "z", "ph",
      "sh", "th"}>>,
  <<{"suffix", "notEnd"}, {"l"}>>,
  <<{"notEnd"}, {"r"}>>,
  <<{"notBegin", "end"}, {"s"}>>,
  <<{"notBegin", "prefix"}, {"t"}>>,
  <<Never, {"x", "ch", "gh", "rh", "wh", "ck"}>>,
  <<{"notBegin", "suffix", "notEnd"}, {"qu"}>>})

RowD == Row({
  <<Apart, {"b", "c", "f", "g", "h", "j", "k", "l", "m", "n", "p", "t", "v", "w", "z",
      "ch", "gh", "ph", "qu"}>>,
  <<{"notBegin"}, {"d"}>>,
  <<{"begin", "notEnd"}, {"r"}>>,
  <<{"notBegin", "end"}, {"s"}>>,
  <<Never, {"x", "rh", "wh", "ck"}>>,
  <<{"notBegin", "notEnd"}, {"sh"}>>,
  <<{"notBegin", "prefix"}, {"th"}>>})

RowE == Row({
  <<Apart, {"h", "gh"}>>,
  <<{"notEnd"}, {"i"}>>,
  <<{"break"}, {"o"}>>,
  <<Never, {"rh", "wh"}>>,
  <<{"break", "notEnd"}, {"qu"}>>})

RowF == Row({
  <<Apart, {"b", "c", "d", "g", "h", "j", "k", "m", "n", "p", "v", "w", "z", "ch", "gh",
      "ph", "sh", "th", "qu"}>>,
  <<{"notBegin"}, {"f", "s", "t", "y"}>>,
  <<{"begin", "suffix", "notEnd"}, {"l"}>>,
  <<{"begin", "notEnd"}, {"r"}>>,
  <<Never, {"x", "rh", "wh", "ck"}>>})

RowG == Row({
  <<Apart, {"b", "c", "d", "f", "h", "j", "m", "n", "p", "t", "v", "w", "z", "ch", "ph",
      "qu"}>>,
  <<{"notBegin"}, {"g", "y", "sh", "th"}>>,
  <<Never, {"k", "x", "gh", "rh", "wh", "ck"}>>,
  <<{"begin", "suffix", "notEnd"}, {"l"}>>,
  <<{"begin", "notEnd"}, {"r"}>>,
  <<{"notBegin", "end"}, {"s"}>>})

RowH == Row({
  <<Apart, {"b", "c", "d", "f", "g", "j", "k", "l", "m", "n", "p", "r", "s", "t", "v",
      "w", "z", "ch", "gh", "ph", "sh", "th", "qu"}>>,
  <<Never, {"h", "x", "rh", "wh", "ck"}>>})

RowI == Row({
  <<{"notBegin"}, {"e", "gh"}>>,
  <<Apart, {"h", "u", "w", "y"}>>,
  <<Never, {"i", "rh", "wh"}>>,
  <<{"break"}, {"o"}>>,
  <<{"break", "notEnd"}, {"qu"}>>})

RowJ == Row({
  <<Apart, {"b", "c", "d", "f", "h", "k", "l", "m", "n", "p", "r", "s", "t", "v", "w",
      "z", "ch", "gh", "ph", "sh", "th", "qu"}>>,
  <<Never, {"g", "j", "x", "rh", "wh", "ck"}>>,
  <<{"notBegin"}, {"y"}>>})

RowK == Row({
  <<Apart, {"b", "c", "d", "f", "g", "h", "j", "k", "m", "p", "t", "v", "w", "z", "ch",
      "gh", "th", "qu"}>>,
  <<{"suffix", "notEnd"}, {"l", "r"}>>,
  <<{"begin", "suffix", "notEnd"}, {"n"}>>,
  <<{"notBegin", "end"}, {"s"}>>,
  <<Never, {"x", "rh", "wh", "ck"}>>,
  <<{"notBegin"}, {"y", "sh"}>>,
  <<{"notBegin", "prefix"}, {"ph"}>>})

RowL == Row({
  <<{"notBegin", "prefix"}, {"b", "d", "f", "g", "j", "k", "l", "m", "p", "t", "v",
      "ch", "ph", "sh", "th"}>>,
  <<Apart, {"c", "h", "n", "r", "w", "z", "gh", "qu"}>>,
  <<{"notBegin"}, {"s"}>>,
  <<Never, {"x", "rh", "wh", "ck"}>>})

RowM == Row({
  <<Apart, {"b", "c", "d", "f", "g", "h", "j", "k", "l", "n", "r", "v", "w", "z", "gh",
      "qu"}>>,
  <<{"notBegin"}, {"m", "p", "s", "t", "ph", "sh", "th"}>>,
  <<Never, {"x", "rh", "wh", "ck"}>>,
  <<{"notBegin", "prefix"}, {"ch"}>>})

RowN == Row({
  <<Apart, {"b", "c", "f", "h", "j", "l", "m", "p", "r", "v", "w", "z", "gh", "qu"}>>,
  <<{"notBegin"}, {"d", "n", "s", "t", "y", "sh", "th"}>>,
  <<{"notBegin", "prefix"}, {"g", "k", "ch", "ph", "ck"}>>,
  <<Never, {"x", "rh", "wh"}>>})

RowO == Row({
  <<Never, {"e", "rh", "wh"}>>,
  <<Apart, {"h"}>>,
  <<{"notBegin"}, {"gh"}>>,
  <<{"break", "notEnd"}, {"qu"}>>})

RowP == Row({
  <<Apart, {"b", "c", "d", "f", "g", "h", "j", "k", "m", "n", "v", "w", "z", "ch", "gh",
      "ph", "sh", "th", "qu"}>>,
  <<{"suffix", "notEnd"}, {"l"}>>,
  <<{"notBegin", "prefix"}, {"p"}>>,
  <<{"notEnd"}, {"r"}>>,
  <<{"notBegin", "end"}, {"s", "t", "u"}>>,
  <<Never, {"x", "rh", "wh", "ck"}>>})

RowR == Row({
  <<{"notBegin", "prefix"}, {"b", "c", "d", "f", "g", "j", "k", "l", "m", "n", "p", "r",
      "s", "t", "v", "z", "ch", "ph", "sh", "th", "ck"}>>,
  <<Apart, {"h", "w", "gh"}>>,
  <<Never, {"x", "rh", "wh"}>>,
  <<{"notBegin", "prefix", "notEnd"}, {"qu"}>>})

RowS == Row({
  <<Apart, {"b", "d", "f", "g", "h", "j", "v", "z", "gh", "ph", "sh", "th"}>>,
  <<{"notEnd"}, {"c"}>>,
  <<{"begin", "suffix", "notEnd"}, {"l", "w", "ch"}>>,
  <<{"suffix", "notEnd"}, {"m", "qu"}>>,
  <<{"prefix", "suffix", "notEnd"}, {"n"}>>,
  <<{"notBegin", "notEnd"}, {"r"}>>,
  <<{"notBegin", "prefix"}, {"s"}>>,
  <<Never, {"x", "rh", "wh"}>>,
  <<{"notBegin"}, {"ck"}>>})

RowT == Row({
  <<Apart, {"b", "c", "d", "f", "g", "h", "j", "k", "l", "m", "n", "p", "v", "z", "gh",
      "th", "qu"}>>,
  <<{"notEnd"}, {"r"}>>,
  <<{"notBegin", "end"}, {"s", "ph", "sh"}>>,
  <<{"notBegin", "prefix"}, {"t"}>>,
  <<{"begin", "suffix", "notEnd"}, {"w"}>>,
  <<Never, {"x", "rh", "wh", "ck"}>>,
  <<{"notBegin"}, {"ch"}>>})

RowU == Row({
  <<Apart, {"a", "h", "i", "w", "y"}>>,
  <<{"notBegin"}, {"e"}>>,
  <<{"notBegin", "break"}, {"o"}>>,
  <<Never, {"u", "rh", "wh"}>>,
  <<{"notBegin", "prefix"}, {"gh"}>>,
  <<{"break", "notEnd"}, {"qu"}>>})

RowV == Row({
  <<Apart, {"b", "c", "d", "f", "g", "h", "j", "k", "l", "m", "n", "p", "r", "s", "t",
      "v", "w", "z", "ch", "gh", "ph", "sh", "th", "qu"}>>,
  <<Never, {"x", "rh", "wh", "ck"}>>,
  <<{"notBegin"}, {"y"}>>})

RowW == Row({
  <<{"notBegin", "prefix"}, {"b", "f", "k", "m", "n", "p", "s", "t", "v", "x", "z"}>>,
  <<Apart, {"c", "h", "j", "w", "gh", "qu"}>>,
  <<{"notBegin", "prefix", "end"}, {"d", "g"}>>,
  <<{"notBegin", "prefix", "suffix"}, {"l"}>>,
  <<{"begin", "suffix", "notEnd"}, {"r"}>>,
  <<{"notBegin"}, {"ch", "ph", "sh", "th", "ck"}>>,
  <<Never, {"rh", "wh"}>>})

RowX == Row({
  <<{"notBegin"}, {"a", "e", "i", "o", "u", "y"}>>,
  <<Apart, {"b", "c", "d", "f", "g", "h", "j", "k", "l", "m", "n", "p", "r", "s", "t",
      "v", "w", "z", "ch", "gh", "ph", "sh", "th", "qu"}>>,
  <<Never, {"x", "rh", "wh", "ck"}>>})

RowY == Row({
  <<{"notBegin"}, {"b", "d", "g", "k", "m", "n", "p", "s", "t", "x", "z"}>>,
  <<{"notBegin", "notEnd"}, {"c", "f", "j", "l", "v"}>>,
  <<Apart, {"h", "r", "w", "ch", "gh", "ph", "sh", "th", "qu"}>>,
  <<{"begin", "notEnd"}, {"i"}>>,
  <<Never, {"y", "rh", "wh", "ck"}>>})

RowZ == Row({
  <<Apart, {"b", "c", "d", "f", "g", "h", "j", "k", "l", "m", "n", "p", "s", "v", "ch",
      "gh", "ph", "sh", "th", "qu"}>>,
  <<{"notBegin", "notEnd"}, {"r"}>>,
  <<{"notBegin"}, {"t", "z"}>>,
  <<{"suffix", "notEnd"}, {"w"}>>,
  <<Never, {"x", "rh", "wh", "ck"}>>})

RowCh == Row({
  <<Apart, {"b", "c", "d", "f", "g", "h", "j", "k", "l", "m", "n", "p", "s", "t", "v",
      "z", "gh", "ph", "sh", "th", "qu"}>>,
  <<{"notEnd"}, {"r"}>>,
  <<{"notBegin", "notEnd"}, {"w"}>>,
  <<Never, {"x", "ch", "rh", "wh", "ck"}>>})

RowGh == Row({
  <<{"notBegin", "break", "prefix", "notEnd"}, {"b", "c", "d", "f", "g", "h", "j", "k",
      "l", "m", "n", "r", "u", "v", "w", "y", "z", "ch", "ph", "sh", "th", "qu"}>>,
  <<{"begin", "notEnd"}, {"i", "o"}>>,
  <<Apart, {"p"}>>,
  <<{"notBegin", "prefix"}, {"s", "t"}>>,
  <<Never, {"x", "gh", "rh", "wh", "ck"}>>})

RowPh == Row({
  <<Apart, {"b", "c", "d", "f", "g", "h", "j", "k", "m", "n", "p", "z", "ch", "gh",
      "sh", "th", "qu"}>>,
  <<{"begin", "suffix", "notEnd"}, {"l"}>>,
  <<{"notEnd"}, {"r"}>>,
  <<{"notBegin"}, {"s", "t", "y"}>>,
  <<{"notBegin", "notEnd"}, {"v", "w"}>>,
  <<Never, {"x", "ph", "rh", "wh", "ck"}>>})

RowRh == Row({
  <<{"begin", "notEnd"}, {"a", "e", "i", "o", "u", "y"}>>,
  <<Never, {"b", "c", "d", "f", "g", "h", "j", "k", "l", "m", "n", "p", "r", "s", "t",
      "v", "w", "x", "z", "ch", "gh", "ph", "rh", "sh", "th", "wh", "qu", "ck"}>>})

RowSh == Row({
  <<Apart, {"b", "c", "d", "f", "g", "j", "s", "v", "z", "ch", "gh", "ph", "th", "qu"}>>,
  <<Never, {"h", "x", "rh", "sh", "wh", "ck"}>>,
  <<{"notBegin"}, {"k", "p"}>>,
  <<{"begin", "suffix", "notEnd"}, {"l", "m", "n", "r"}>>,
  <<{"suffix"}, {"t"}>>,
  <<{"suffix", "notEnd"}, {"w"}>>})

RowTh == Row({
  <<Apart, {"b", "c", "d", "f", "g", "h", "j", "k", "l", "m", "n", "p", "t", "v", "z",
      "ch", "gh", "ph", "sh", "qu"}>>,
  <<{"notEnd"}, {"r"}>>,
  <<{"notBegin", "end"}, {"s"}>>,
  <<{"suffix", "notEnd"}, {"w"}>>,
  <<Never, {"x", "rh", "th", "wh", "ck"}>>})

RowWh == Row({
  <<{"begin", "notEnd"}, {"a", "e", "i", "o", "y"}>>,
  <<Never, {"b", "c", "d", "f", "g", "h", "j", "k", "l", "m", "n", "p", "r", "s", "t",
      "u", "v", "w", "x", "z", "ch", "gh", "ph", "rh", "sh", "th", "wh", "qu", "ck"}>>})

RowQu == Row({
  <<Never, {"b", "c", "d", "f", "g", "h", "j", "k", "l", "m", "n", "p", "r", "s", "t",
      "u", "v", "w", "x", "y", "z", "ch", "gh", "ph", "rh", "sh", "th", "wh", "qu", "ck"}>>})

RowCk == Row({
  <<Apart, {"a", "b", "c", "d", "e", "f", "g", "h", "i", "j", "k", "l", "m", "n", "o",
      "p", "r", "t", "u", "v", "w", "z", "ch", "gh", "ph", "sh", "th", "qu"}>>,
  <<{"notBegin"}, {"s", "y"}>>,
  <<Never, {"x", "rh", "wh", "ck"}>>})

\* The flags of a pair of units that follow each other.
Digram == [a |-> RowA, b |-> RowB, c |-> RowC, d |-> RowD, e |-> RowE, f |-> RowF,
           g |-> RowG, h |-> RowH, i |-> RowI, j |-> RowJ, k |-> RowK, l |-> RowL,
           m |-> RowM, n |-> RowN, o |-> RowO, p |-> RowP, r |-> RowR, s |-> RowS,
           t |-> RowT, u |-> RowU, v |-> RowV, w |-> RowW, x |-> RowX, y |-> RowY,
           z |-> RowZ, ch |-> RowCh, gh |-> RowGh, ph |-> RowPh, rh |-> RowRh,
           sh |-> RowSh, th |-> RowTh, wh |-> RowWh, qu |-> RowQu, ck |-> RowCk]
=============================================================================
