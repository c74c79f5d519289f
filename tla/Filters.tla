------------------------------ MODULE Filters ------------------------------
(***************************************************************************)
(* The filters as operators.  A text is a sequence of the words a filter   *)
(* may look at: ordinary words, and the labels of mail addresses, the last *)
(* of which may carry a top level domain.                                  *)
(***************************************************************************)
EXTENDS Replacement, Suffix, Sequences

CONSTANTS
  UserNames,  \* stems of the names the user name filter knows
  HostNames   \* stems of the names the host filter knows

ASSUME FiltersAssumption == UserNames \subseteq Stem /\ HostNames \subseteq Stem

AllFilters == {"username", "email", "host"}
Kinds == {"word", "local", "domain", "last"}
Token == [kind : Kinds, word : Word, tld : Tld \union {NoTld}]

\* A text of which the last label of a domain alone has a top level domain.
IsText(t) ==
  t \in Seq(Token) /\ \A i \in DOMAIN t :
    t[i].word.tld = NoTld /\ (t[i].kind # "last" => t[i].tld = NoTld)

\* The words generated names are checked against.
FullInput(t) == {t[i].word : i \in DOMAIN t}

\* What the regular expression of a filter finds.
Matches(f, token) ==
  CASE f = "username" -> token.word.stem \in UserNames
    [] f = "email"    -> token.kind # "word"
    [] f = "host"     -> token.word.stem \in HostNames

\* Whether the mail filter replaces the top level domain of this label.
TakesSuffix(f, token) == f = "email" /\ token.tld # NoTld /\ HasSuffix(token.tld)

\* A slip: the entry is forgotten.
EnteredLabelOnly(m, o, r, t) == m

\* The mail filter's own entry, label and top level domain together.
Entered(m, o, r, t) == Put(m, WithTld(r, SuffixOf(t)), WithTld(o, t))

\* A slip: the suffix is added to the label and to the address.
AddressedTwice(token, r) ==
  [token EXCEPT !.word = WithTld(r, SuffixOf(token.tld)), !.tld = SuffixOf(token.tld)]

\* The end of the redacted address.
Addressed(token, r) == [token EXCEPT !.word = r, !.tld = SuffixOf(token.tld)]

-----------------------------------------------------------------------------
\* UnredactText: the longest key that fits, so label and domain before label.
Restore(m, token) ==
  LET whole == WithTld(token.word, token.tld) IN
  IF token.tld # NoTld /\ whole \in DOMAIN m
  THEN [token EXCEPT !.word = WithTld(m[whole], NoTld), !.tld = m[whole].tld]
  ELSE IF token.word \in DOMAIN m
       THEN [token EXCEPT !.word = m[token.word]]
       ELSE token

UnredactText(m, t) == [i \in DOMAIN t |-> Restore(m, t[i])]

\* A slip: one pass over the shared table is thought to do.
UnredactOnce(m, fs, t) == UnredactText(m, t)

\* PiiFilter.Unredact with the filters fs: a pass for each, the last one first.
Unredact(m, fs, t) ==
  LET pass(f, s) == IF f \in fs THEN UnredactText(m, s) ELSE s
  IN  pass("username", pass("email", pass("host", t)))
=============================================================================
