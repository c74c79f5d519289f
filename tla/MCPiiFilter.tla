---------------------------- MODULE MCPiiFilter ----------------------------
(***************************************************************************)
(* A small instance of PiiFilter: a user, a host and a name nobody knows.  *)
(***************************************************************************)
EXTENDS PiiFilter

CONSTANTS
  user, host, other,  \* stems of names
  a, b, c, d, e,      \* stems of generated words
  com, org, inv

MCStem == {user, host, other, a, b, c, d, e}
MCLength == [s \in MCStem |-> IF s \in {a, b, c, d, e} THEN 3 ELSE 2]
MCLetters == [s \in MCStem |-> 1 .. MCLength[s]]

T(k, s, capitals, t) ==
  [kind |-> k, word |-> [stem |-> s, caps |-> capitals, tld |-> NoTld], tld |-> t]

\* "User user@host", "host other@other.com", "other@host.other.org", and "User
\* user" with an ordinary word that the generator knows too.
MCTexts ==
  {<<T("word", user, {1}, NoTld), T("local", user, {}, NoTld), T("last", host, {}, NoTld)>>,
   <<T("word", host, {}, NoTld), T("local", other, {}, NoTld), T("last", other, {}, com)>>,
   <<T("local", other, {}, NoTld), T("domain", host, {}, NoTld), T("last", other, {}, org)>>,
   <<T("word", user, {1}, NoTld), T("word", user, {}, NoTld), T("word", a, {}, NoTld)>>}

MCTld == {com, org, inv}
MCLowerTld == [t \in MCTld |-> t]
MCSuffix == [t \in {com} |-> inv]

MCPrefill == {<<>>, Put(<<>>, Lower(host), Lower(host))}

ASSUME InstanceIsIdeal == Shared!Ideal
=============================================================================
