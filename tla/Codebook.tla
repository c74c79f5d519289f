------------------------------ MODULE Codebook ------------------------------
(***************************************************************************)
(* What the replacement table is for: a code book.  It hands out code      *)
(* words for names, one code word per name and one name per code word, and *)
(* what has been handed out stays valid for as long as the process lives.  *)
(* Every text that was ever redacted can then be read back, and the model  *)
(* sees one name as one name.                                              *)
(***************************************************************************)
EXTENDS Naturals

VARIABLE code  \* the pairs <<name, code word>> handed out so far

OneToOne(pairs) ==
  \A p, q \in pairs : p[1] = q[1] <=> p[2] = q[2]

Init == code = {}

Next == code \subseteq code' /\ OneToOne(code')

Spec == Init /\ [][Next]_code
=============================================================================
