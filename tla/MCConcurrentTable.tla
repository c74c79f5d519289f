------------------------- MODULE MCConcurrentTable -------------------------
(***************************************************************************)
(* A small instance of ConcurrentTable: a name in two casings and another  *)
(* one, generated words of two letters, one of which a text may contain.   *)
(***************************************************************************)
EXTENDS ConcurrentTable, TLC

CONSTANTS
  ab, cd,    \* stems of names
  x, y, z, u \* stems of generated words

MCStem == {ab, cd, x, y, z, u}
MCLength == [s \in MCStem |-> 2]
MCLetters == [s \in MCStem |-> {1, 2}]

W(s, capitals) == [stem |-> s, caps |-> capitals, tld |-> NoTld]

MCOriginal == {W(ab, {}), W(ab, {1}), W(cd, {})}
MCInputs == {MCOriginal, MCOriginal \union {W(x, {})}}
MCPrefill == {<<>>, Put(<<>>, W(y, {1}), W(ab, {1}))}
MCNoTlds == [t \in {} |-> t]

Symmetry == Permutations(Goroutine)

ASSUME InstanceIsIdeal == Table!Ideal
=============================================================================
