-------------------------- MODULE ReplacementTable --------------------------
(***************************************************************************)
(* One replacement table in the hands of the filters that share it: the    *)
(* user name and host filters ask for the replacement of a name, the mail  *)
(* filter for the replacements of the labels of an address, the last label *)
(* of a domain together with its top level domain.  Requests arrive in any *)
(* order, with any of the full inputs the callers pass, from one goroutine.*)
(* A name that is requested may be a replacement already: the mail filter  *)
(* runs over the output of the user name filter, and text that stays in a  *)
(* session is redacted again.                                              *)
(***************************************************************************)
EXTENDS Replacement, Suffix

CONSTANTS
  Original,  \* the names the filters find in the texts
  Inputs,    \* the full inputs: each the set of the words of a text
  Prefill    \* the tables the filters may be started with

ASSUME TableAssumption ==
  /\ Original \subseteq {w \in Word : w.tld = NoTld}
  /\ \A full \in Inputs : full \subseteq Word
  /\ \A m \in Prefill : DOMAIN m \subseteq Word /\ \A k \in DOMAIN m : m[k] \in Word

VARIABLES
  table,  \* the shared map: replacement -> original
  handed  \* history: the pairs <<original, replacement>> put into texts

vars == <<table, handed>>

-----------------------------------------------------------------------------
Init == table \in Prefill /\ handed = {}

\* A filter replaces a name it found in a text.
RedactName(o, full, r) ==
  /\ r \in Replacements(table, o, full)
  /\ table' = Recorded(table, o, r)
  /\ handed' = handed \union {<<o, r>>}

\* The table gives an answer it gave before.
Reuse(o, full) ==
  \E r \in Exact(table, o) : RedactName(o, full, r)

\* The table knows the name in another case.
Recase(o, full) ==
  /\ Exact(table, o) = {}
  /\ \E r \in {MatchCasing(o, k) : k \in Folded(table, o)} : RedactName(o, full, r)

\* The table does not know the name.
Generate(o, full) ==
  /\ Folded(table, o) = {}
  /\ \E r \in Fresh(table, o, full) : RedactName(o, full, r)

\* A slip: the original is entered without its top level domain.
SuffixedWithoutTld(m, o, r, t) == Put(m, WithTld(r, SuffixOf(t)), o)

\* The mail filter enters label and domain together, so that both come back.
Suffixed(m, o, r, t) == Put(m, WithTld(r, SuffixOf(t)), WithTld(o, t))

\* The mail filter replaces the last label of a domain and the top level domain.
RedactWithTld(o, t, full) ==
  /\ HasSuffix(t)
  /\ \E r \in Replacements(table, o, full) :
       /\ table' = Suffixed(Recorded(table, o, r), o, r, t)
       /\ handed' = handed \union {<<o, r>>, <<WithTld(o, t), WithTld(r, SuffixOf(t))>>}

\* The full inputs a name may come with: a text that holds it, or, for what is
\* a replacement already, any text.
FullInputs(o) == {full \in Inputs : o \in full \/ o \in DOMAIN table}

Requests == Original \union PlainKeys(table)

Next ==
  \E o \in Requests : \E full \in FullInputs(o) :
    \/ Reuse(o, full)
    \/ Recase(o, full)
    \/ Generate(o, full)
    \/ \E t \in Tld : RedactWithTld(o, t, full)

Spec == Init /\ [][Next]_vars
-----------------------------------------------------------------------------
(***************************************************************************)
(* Properties                                                              *)
(***************************************************************************)

\* The table maps names to names, and only a key of the mail filter, which
\* carries a top level domain, stands for a name that carries one.
TypeOK ==
  /\ DOMAIN table \subseteq Word
  /\ \A k \in DOMAIN table : /\ table[k] \in Word
                            /\ k.tld = NoTld <=> table[k].tld = NoTld
  /\ handed \subseteq Word \X Word

\* A name has one replacement, however often and in whatever order its
\* spellings are asked for: the model recognises it (exact lookup first).
OneKeyPerOriginal ==
  \A k, l \in PlainKeys(table) : table[k] = table[l] => k = l

\* Every replacement that was put into a text still stands for the name it
\* was put there for, so every text that was redacted can be read back.
Decodable ==
  \A p \in handed : p[2] \in DOMAIN table /\ table[p[2]] = p[1]

\* No request changes what an entry of the table means: the lookup in another
\* case and the mail filter write without asking whether the key is taken.
NeverRebound ==
  [][\A k \in DOMAIN table : k \in DOMAIN table' /\ table'[k] = table[k]]_vars

\* The spellings of a name share a replacement up to case, no other name has
\* it, and a replacement has its capitals where the name has them.
CasePreserved ==
  /\ \A k, l \in PlainKeys(table) :
       SameFold(table[k], table[l]) <=> k.stem = l.stem
  /\ \A p \in handed : CasedLike(p[2], p[1])

\* A name that is entered as its own replacement is never replaced, in
\* whatever case it is written (the white list of the documentation).
WhitelistHonoured ==
  \A p \in handed : \A w \in DOMAIN table :
    table[w] = w /\ SameFold(w, p[1]) => p[2] = p[1]

\* The table is a code book.
Book == INSTANCE Codebook WITH code <- handed
BookSpec == Book!Spec

-----------------------------------------------------------------------------
(***************************************************************************)
(* The circumstances under which the properties hold.                      *)
(***************************************************************************)

\* What a table must be for the filters to start with: plain names for plain
\* names, replacements that cover the length and the letters of what they
\* stand for, one replacement for a name and one name for a replacement up to
\* case.  A table that a filter filled from nothing is of this kind.
WellFormed(m) ==
  /\ \A k \in DOMAIN m :
       /\ k \in Word /\ m[k] \in Word
       /\ ~HasDot(k) /\ m[k].tld = NoTld
       /\ Length[k.stem] <= MaxLength
       /\ CasedLike(k, m[k])
  /\ \A k, l \in DOMAIN m : m[k] = m[l] => k = l
  /\ \A k, l \in DOMAIN m : SameFold(m[k], m[l]) <=> k.stem = l.stem

\* No generated name differs from a key in case only, no two top level domains
\* that occur share a suffix, the prefilled tables are well formed, and no name
\* is longer than a generated name can be.
Ideal ==
  /\ ~CaseClash
  /\ \A t, u \in Tld : HasSuffix(t) /\ HasSuffix(u) /\ SuffixOf(t) = SuffixOf(u) => t = u
  /\ \A m \in Prefill : WellFormed(m)
  /\ \A o \in Original : Length[o.stem] <= MaxLength
=============================================================================
