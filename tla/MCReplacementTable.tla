------------------------- MODULE MCReplacementTable -------------------------
(***************************************************************************)
(* A small instance of ReplacementTable.  The names are "ab", in every     *)
(* case, "c-d", which has a position without a letter, and a FQDN of four  *)
(* characters; the generator knows three words of three letters and one of *)
(* four.                                                                   *)
(***************************************************************************)
EXTENDS ReplacementTable, FiniteSets

CONSTANTS
  ab, cd, host,         \* stems of names, host being the FQDN
  x, y, z, long,        \* stems of generated words
  com, COM, org, inv, loc,
  MaxEntries            \* bound on the entries of the table

MCStem == {ab, cd, host, x, y, z, long}
MCLength == [s \in MCStem |-> CASE s = ab -> 2 [] s = host -> 4 [] s = long -> 4 [] OTHER -> 3]
MCLetters == [s \in MCStem |-> CASE s = cd -> {1, 3} [] s = host -> {1, 2, 4} [] OTHER -> 1 .. MCLength[s]]

W(s, capitals) == [stem |-> s, caps |-> capitals, tld |-> NoTld]

MCOriginal == {W(ab, {}), W(ab, {1}), W(ab, {1, 2}), W(cd, {}), W(cd, {3}),
               W(host, {})}
MCInputs == {MCOriginal, MCOriginal \union {W(x, {}), W(x, {1})}}

MCTld == {com, COM, org, inv, loc}
MCLowerTld == [t \in MCTld |-> IF t = COM THEN com ELSE t]

\* The tables to start with: none, one of an earlier run, a white list.
Empty == <<>>
Entry(k, v) == Put(Empty, k, v)
GoodPrefill == {Empty, Entry(W(y, {1}), W(ab, {1})), Entry(W(cd, {}), W(cd, {}))}

\* One suffix for every top level domain, as the documentation shows it.
OneSuffix == [t \in {AnyTld} |-> inv]

Bounded == Next /\ Cardinality(DOMAIN table') <= MaxEntries
MCSpec == Init /\ [][Bounded]_vars
=============================================================================
