---------------------------- MODULE MCAgentFlow ----------------------------
(***************************************************************************)
(* A small instance of AgentFlow: users write about a name they know and a *)
(* mail address, and tools answer with a name and an address.              *)
(***************************************************************************)
EXTENDS AgentFlow, TLC

CONSTANTS
  user, other,        \* stems of names
  a, b, c, d, e       \* stems of generated words

Generated5 == {a, b, c, d, e}
Symmetry == Permutations(Generated5)

MCStem == {user, other} \union Generated5
MCLength == [s \in MCStem |-> IF s \in Generated5 THEN 3 ELSE 2]
MCLetters == [s \in MCStem |-> 1 .. MCLength[s]]

T(k, s, capitals) ==
  [kind |-> k, word |-> [stem |-> s, caps |-> capitals, tld |-> NoTld], tld |-> NoTld]

MCUserTexts == {<<T("word", user, {})>>, <<T("local", other, {})>>}
MCToolTexts == {<<T("word", user, {1})>>, <<T("local", user, {})>>}

MCLowerTld == [t \in {} |-> t]
MCSuffix == <<>>

MCRegistrations ==
  {<<{"username", "email", "host"}>>, <<{"username", "email"}>>, <<{"email"}>>, <<{"username", "host"}>>,
   <<{"username"}, {"email"}, {"host"}>>, <<{"host"}, {"username"}>>}

ASSUME InstanceIsIdeal == Ideal
=============================================================================
