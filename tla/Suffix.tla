------------------------------- MODULE Suffix -------------------------------
(***************************************************************************)
(* The TLD suffix table of the mail filter (WithTLDSuffix): which top      *)
(* level domains are replaced, and by what.  The table is keyed by lower   *)
(* case names, and the key "*" stands for every domain it does not name.   *)
(***************************************************************************)
EXTENDS Words

CONSTANTS
  LowerTld,  \* [Tld -> Tld], strings.ToLower on a top level domain
  AnyTld,    \* the key "*"
  TldSuffix  \* the table: lower case domains and AnyTld to replacements

ASSUME SuffixAssumption ==
  /\ LowerTld \in [Tld -> Tld]
  /\ DOMAIN TldSuffix \subseteq Tld \union {AnyTld}
  /\ \A t \in DOMAIN TldSuffix : TldSuffix[t] \in Tld

HasSuffix(t) == {LowerTld[t], AnyTld} \intersect DOMAIN TldSuffix # {}

SuffixOf(t) ==
  TldSuffix[IF LowerTld[t] \in DOMAIN TldSuffix THEN LowerTld[t] ELSE AnyTld]
=============================================================================
