-------------------------- MODULE ReplacementProofs --------------------------
(***************************************************************************)
(* Lemmas about names, about single steps on a replacement table, and      *)
(* about the tables that the filters keep in good order (GoodTable), for   *)
(* every module that works with a table.                                   *)
(***************************************************************************)
EXTENDS Replacement, Suffix, WellFoundedInduction, TLAPS

-----------------------------------------------------------------------------
(***************************************************************************)
(* Counting up to n.                                                       *)
(***************************************************************************)

\* Induction, for a set.
LEMMA UpTo ==
  ASSUME NEW n \in Nat, NEW T, 0 \in T, \A k \in 1 .. n : k - 1 \in T => k \in T
  PROVE  0 .. n \subseteq T
<1> DEFINE R == OpToRel(<, Nat)
           Missing == {k \in 0 .. n : k \notin T}
<1>1. IsWellFoundedOn(R, Nat)
  BY NatLessThanWellFounded
<1>2. \A x, y \in Nat : y < x => <<y, x>> \in R
  BY DEF OpToRel
<1> HIDE DEF R
<1> SUFFICES ASSUME Missing # {} PROVE FALSE
  OBVIOUS
<1>3. Missing \subseteq Nat
  OBVIOUS
<1> HIDE DEF Missing
<1>4. PICK x \in Missing : \A y \in Missing : ~ (<<y, x>> \in R)
  BY <1>1, <1>3, WFMin
<1> USE DEF Missing
<1>5. x \in 1 .. n /\ x \notin T
  OBVIOUS
<1>6. x - 1 \in Nat /\ x - 1 < x /\ x \in Nat /\ x - 1 \in 0 .. n
  BY <1>5
<1>7. x - 1 \notin Missing
  BY <1>2, <1>4, <1>6, Zenon
<1> QED BY <1>5, <1>6, <1>7

\* G[i] says what follows at i, U[i] where it leads.
Leads(n, U, G) == \A i \in 1 .. n : \A x \in U[i - 1] : G[i][x] \in U[i]
Follows(n, U, G, a, u) ==
  /\ u[0] = a /\ \A i \in 1 .. n : u[i] = G[i][u[i - 1]]
  /\ \A i \in 0 .. n : u[i] \in U[i]

\* A function may be defined step by step.
LEMMA Stepwise ==
  ASSUME NEW n \in Nat, NEW U, NEW G, NEW a \in U[0], Leads(n, U, G)
  PROVE  \E u : Follows(n, U, G, a, u)
<1> USE DEF Leads, Follows
<1> DEFINE Good(u, k) == Follows(k, U, G, a, u)
           T == {k \in 0 .. n : \E u : Good(u, k)}
<1>1. 0 \in T
  <2> DEFINE u == [i \in 0 .. 0 |-> a]
  <2>1. u[0] = a
    OBVIOUS
  <2> HIDE DEF u
  <2>2. Good(u, 0)
    BY <2>1
  <2> QED BY <2>2
<1>2. ASSUME NEW k \in 1 .. n, k - 1 \in T PROVE k \in T
  <2>1. PICK u : Good(u, k - 1)
    BY <1>2
  <2> DEFINE v == G[k][u[k - 1]]
             w == [i \in 0 .. k |-> IF i = k THEN v ELSE u[i]]
  <2> HIDE DEF v
  <2>2. w[k] = v /\ \A i \in 0 .. k - 1 : w[i] = u[i]
    OBVIOUS
  <2> HIDE DEF w
  <2>3. 0 \in 0 .. k - 1 /\ k - 1 \in 0 .. k - 1
    OBVIOUS
  <2>4. v \in U[k]
    BY <2>1, <2>3 DEF v
  <2>5. ASSUME NEW i \in 0 .. k PROVE w[i] \in U[i]
    BY <2>1, <2>2, <2>4
  <2>6. ASSUME NEW i \in 1 .. k PROVE w[i] = G[i][w[i - 1]]
    <3>1. i - 1 \in 0 .. k - 1
      OBVIOUS
    <3>2. w[i - 1] = u[i - 1]
      BY <2>2, <3>1
    <3>3. CASE i = k
      BY <2>2, <3>2, <3>3 DEF v
    <3>4. CASE i # k
      <4>1. i \in 1 .. k - 1 /\ i \in 0 .. k - 1
        BY <3>4
      <4>2. w[i] = u[i] /\ u[i] = G[i][u[i - 1]]
        BY <2>1, <2>2, <4>1
      <4> QED BY <3>2, <4>2
    <3> QED BY <3>3, <3>4
  <2>7. Good(w, k)
    BY <2>1, <2>2, <2>3, <2>5, <2>6
  <2> QED BY <2>7
<1> HIDE DEF T
<1>3. 0 .. n \subseteq T
  BY <1>1, <1>2, UpTo
<1>4. n \in T
  BY <1>3
<1> QED BY <1>4 DEF T

-----------------------------------------------------------------------------
\* Every key of m is a key of n and means the same there.
ExtendedBy(m, n) == \A k \in DOMAIN m : k \in DOMAIN n /\ n[k] = m[k]

-----------------------------------------------------------------------------
\* A name is its spelling, its capitals and its top level domain.
LEMMA WordEquality ==
  ASSUME NEW v \in Word, NEW w \in Word,
         v.stem = w.stem, v.caps = w.caps, v.tld = w.tld
  PROVE  v = w
BY DEF Word

\* WithTld changes the top level domain alone.
LEMMA WithTldFacts ==
  ASSUME NEW w \in Word, NEW t \in Tld \union {NoTld}
  PROVE  /\ WithTld(w, t) \in Word
         /\ WithTld(w, t).stem = w.stem
         /\ WithTld(w, t).caps = w.caps
         /\ WithTld(w, t).tld = t
BY DEF Word, WithTld

\* A name in lower case has no capitals and no top level domain.
LEMMA LowerFacts ==
  ASSUME NEW s \in Stem
  PROVE  /\ Lower(s) \in Word
         /\ Lower(s).stem = s
         /\ Lower(s).tld = NoTld
BY DEF Word, Lower

\* matchCasing changes capitals alone, and when the letters of original are
\* letters of replacement the result has the capitals of original.
LEMMA MatchCasingFacts ==
  ASSUME NEW original \in Word, NEW replacement \in Word
  PROVE  /\ MatchCasing(original, replacement) \in Word
         /\ MatchCasing(original, replacement).stem = replacement.stem
         /\ MatchCasing(original, replacement).tld = replacement.tld
         /\ Letters[original.stem] \subseteq Letters[replacement.stem]
              => CasedLike(MatchCasing(original, replacement), original)
<1> DEFINE from == Letters[original.stem]
           onto == Letters[replacement.stem]
           allUpper == from # {} /\ from \subseteq original.caps
           allLower == from # {} /\ from \intersect original.caps = {}
           caps == {i \in onto : \/ allUpper
                                 \/ ~allLower /\ i \in from /\ i \in original.caps
                                 \/ ~allLower /\ i \notin from /\ i \in replacement.caps}
           r == MatchCasing(original, replacement)
<1>1. r = [replacement EXCEPT !.caps = caps]
  BY DEF MatchCasing
<1>2. /\ replacement.stem \in Stem
      /\ onto \in SUBSET Nat
      /\ original.caps \subseteq from
  BY WordsAssumption DEF Word
<1>3. caps \in SUBSET Nat /\ caps \subseteq onto
  BY <1>2
<1>4. /\ r \in Word /\ r.stem = replacement.stem /\ r.tld = replacement.tld
      /\ r.caps = caps
  <2> HIDE DEF caps
  <2> QED BY <1>1, <1>2, <1>3 DEF Word
<1>5. ASSUME from \subseteq onto PROVE caps \intersect from = original.caps
  BY <1>2, <1>5
<1> QED BY <1>4, <1>5 DEF CasedLike

\* Two spellings of one name with capitals in the same places are the same.
LEMMA CaseDecides ==
  ASSUME NEW o \in Word, NEW p \in Word, NEW r,
         SameFold(o, p), CasedLike(r, o), CasedLike(r, p)
  PROVE  o = p
BY WordEquality DEF SameFold, CasedLike

\* Two replacements with one stem and the capitals of one name, letter by
\* letter, are the same when the name has all their letters.
LEMMA CaseFixes ==
  ASSUME NEW o \in Word, NEW r \in Word, r.stem = o.stem, r.tld = o.tld,
         CasedLike(r, o)
  PROVE  r = o
<1>1. r.caps \subseteq Letters[r.stem]
  BY DEF Word
<1> QED BY <1>1, WordEquality DEF CasedLike

\* A generated name covers every name the generator can be asked for.
LEMMA NameLengthFacts ==
  ASSUME NEW n \in Nat
  PROVE  /\ NameLength(n) \in Nat
         /\ NameLength(n) <= MaxLength
         /\ n <= MaxLength => n <= NameLength(n)
BY ReplacementAssumption DEF NameLength

\* What the generator returns: a plain word no longer than the limit, with the
\* capitals of the name when the name is not longer than the limit.
LEMMA GeneratedFacts ==
  ASSUME NEW m, NEW o \in Word, NEW r \in Generated(m, o)
  PROVE  /\ r \in Word /\ ~HasDot(r)
         /\ Length[r.stem] <= MaxLength
         /\ Length[o.stem] <= MaxLength => CasedLike(r, o)
         /\ ~CaseClash /\ r \notin DOMAIN m => \A k \in PlainKeys(m) : k.stem # r.stem
<1>1. PICK c \in Candidate :
        /\ r = MatchCasing(o, Lower(c))
        /\ Length[c] = NameLength(Length[o.stem])
        /\ CaseClash \/ r \in DOMAIN m \/ \A k \in PlainKeys(m) : k.stem # c
  BY DEF Generated
<1>2. c \in Stem /\ c \notin DottedStem /\ Letters[c] = 1 .. Length[c]
  BY ReplacementAssumption
<1>3. /\ o.stem \in Stem
      /\ Length[o.stem] \in Nat
      /\ Letters[o.stem] \subseteq 1 .. Length[o.stem]
  BY WordsAssumption DEF Word
<1>4. Lower(c) \in Word /\ Lower(c).stem = c /\ Lower(c).tld = NoTld
  BY <1>2, LowerFacts
<1>5. /\ r \in Word /\ r.stem = c /\ r.tld = NoTld
      /\ Letters[o.stem] \subseteq Letters[c] => CasedLike(r, o)
  BY <1>1, <1>4, MatchCasingFacts
<1>6. Length[c] <= MaxLength
  BY <1>1, <1>3, NameLengthFacts
<1>7. Length[o.stem] <= MaxLength => Letters[o.stem] \subseteq Letters[c]
  BY <1>1, <1>2, <1>3, NameLengthFacts
<1> QED BY <1>1, <1>2, <1>5, <1>6, <1>7 DEF HasDot

-----------------------------------------------------------------------------
(***************************************************************************)
(* Good tables.                                                            *)
(***************************************************************************)

\* A plain entry covers the name it stands for.
PlainEntries(m) ==
  \A k \in PlainKeys(m) :
    /\ k.tld = NoTld /\ m[k].tld = NoTld
    /\ Length[k.stem] <= MaxLength
    /\ CasedLike(k, m[k])

\* Names and replacements up to case are paired one to one.
Families(m) ==
  \A k, l \in PlainKeys(m) : SameFold(m[k], m[l]) <=> k.stem = l.stem

\* An entry with a top level domain is a plain entry and a suffix.
SuffixedEntries(m) ==
  \A k \in DOMAIN m : k.tld # NoTld =>
    /\ WithTld(k, NoTld) \in PlainKeys(m)
    /\ m[WithTld(k, NoTld)] = WithTld(m[k], NoTld)
    /\ m[k].tld \in Tld /\ HasSuffix(m[k].tld)
    /\ k.tld = SuffixOf(m[k].tld)

\* A spelling of a name has one replacement.  Families does not give this: the
\* capitals of a replacement past the end of the name are not determined.
Functional(m) == \A k, l \in PlainKeys(m) : m[k] = m[l] => k = l

GoodTable(m) ==
  /\ \A k \in DOMAIN m : k \in Word /\ m[k] \in Word /\ k.stem \notin DottedStem
  /\ PlainEntries(m)
  /\ Families(m)
  /\ Functional(m)
  /\ SuffixedEntries(m)

\* In a good table the keys without a top level domain are the plain keys.
LEMMA PlainKeysFact ==
  ASSUME NEW m, GoodTable(m)
  PROVE  PlainKeys(m) = {k \in DOMAIN m : k.tld = NoTld}
BY DEF GoodTable, PlainKeys, HasDot

\* Writing a plain entry for a name the table does not have keeps it good, when
\* the key is new, covers the name and belongs to the name's family.
LEMMA PutPlainIsGood ==
  ASSUME NEW m, GoodTable(m), NEW o \in Word, NEW r \in Word,
         o.tld = NoTld, r.tld = NoTld, r.stem \notin DottedStem,
         r \notin DOMAIN m, Exact(m, o) = {},
         Length[r.stem] <= MaxLength, CasedLike(r, o),
         \A k \in PlainKeys(m) : SameFold(m[k], o) <=> k.stem = r.stem
  PROVE  GoodTable(Put(m, r, o))
<1> DEFINE n == Put(m, r, o)
<1>1. /\ DOMAIN n = DOMAIN m \union {r}
      /\ n[r] = o
      /\ \A k \in DOMAIN m : n[k] = m[k]
  BY DEF Put
<1>2. /\ PlainKeys(m) \subseteq DOMAIN m
      /\ PlainKeys(n) = PlainKeys(m) \union {r}
      /\ \A k \in PlainKeys(m) : n[k] = m[k]
  BY <1>1 DEF PlainKeys, HasDot
<1>3. \A k \in DOMAIN n : k \in Word /\ n[k] \in Word /\ k.stem \notin DottedStem
  BY <1>1 DEF GoodTable
<1>4. PlainEntries(n)
  BY <1>1, <1>2 DEF GoodTable, PlainEntries
<1>5. Families(n)
  <2>1. \A k \in PlainKeys(m) : SameFold(n[k], n[r]) <=> k.stem = r.stem
    BY <1>1, <1>2
  <2>2. \A k \in PlainKeys(m) : SameFold(n[r], n[k]) <=> r.stem = k.stem
    BY <2>1 DEF SameFold
  <2>3. SameFold(n[r], n[r])
    BY DEF SameFold
  <2> QED BY <1>2, <2>1, <2>2, <2>3 DEF GoodTable, Families
<1>6. Functional(n)
  <2>1. \A k \in PlainKeys(m) : m[k] # o
    BY DEF Exact
  <2> QED BY <1>1, <1>2, <2>1 DEF GoodTable, Functional
<1>7. SuffixedEntries(n)
  BY <1>1, <1>2 DEF GoodTable, SuffixedEntries
<1> HIDE DEF n
<1>8. GoodTable(n)
  BY <1>3, <1>4, <1>5, <1>6, <1>7 DEF GoodTable
<1> QED BY <1>8 DEF n

\* The second lookup: a key that is not there.
LEMMA RecasedIsGood ==
  ASSUME NEW m, GoodTable(m), NEW o \in Word, o.tld = NoTld, Exact(m, o) = {},
         NEW k \in Folded(m, o)
  PROVE  /\ MatchCasing(o, k) \notin DOMAIN m
         /\ GoodTable(Put(m, MatchCasing(o, k), o))
<1> DEFINE r == MatchCasing(o, k)
<1>1. /\ k \in PlainKeys(m) /\ k \in DOMAIN m /\ k \in Word /\ k.tld = NoTld
      /\ k.stem \notin DottedStem
      /\ m[k] \in Word /\ SameFold(m[k], o)
      /\ CasedLike(k, m[k]) /\ Length[k.stem] <= MaxLength
  BY DEF Folded, PlainKeys, GoodTable, PlainEntries
<1>2. Letters[o.stem] \subseteq Letters[k.stem]
  BY <1>1 DEF CasedLike, SameFold
<1>3. /\ r \in Word /\ r.stem = k.stem /\ r.tld = NoTld /\ CasedLike(r, o)
  BY <1>1, <1>2, MatchCasingFacts
<1>4. \A l \in PlainKeys(m) : SameFold(m[l], o) <=> l.stem = r.stem
  <2>1. \A l \in PlainKeys(m) : SameFold(m[l], m[k]) <=> l.stem = k.stem
    BY <1>1 DEF GoodTable, Families
  <2> QED BY <1>1, <1>3, <2>1 DEF SameFold
<1>5. r \notin DOMAIN m
  <2> SUFFICES ASSUME r \in DOMAIN m PROVE FALSE
    OBVIOUS
  <2>1. r \in PlainKeys(m)
    BY <1>3, PlainKeysFact
  <2>2. m[r] \in Word /\ SameFold(m[r], o) /\ CasedLike(r, m[r])
    BY <1>3, <1>4, <2>1 DEF GoodTable, PlainEntries
  <2>3. m[r] = o
    BY <1>3, <2>2, CaseDecides
  <2> QED BY <2>1, <2>3 DEF Exact
<1> HIDE DEF r
<1>6. GoodTable(Put(m, r, o))
  BY <1>1, <1>3, <1>4, <1>5, PutPlainIsGood
<1> QED BY <1>5, <1>6 DEF r

\* The generator: a word no key has, in no case.
LEMMA GeneratedIsGood ==
  ASSUME NEW m, GoodTable(m), NEW o \in Word, o.tld = NoTld,
         ~CaseClash, Length[o.stem] <= MaxLength,
         Folded(m, o) = {}, NEW full, NEW r \in Fresh(m, o, full)
  PROVE  r \notin DOMAIN m /\ GoodTable(Put(m, r, o))
<1>1. r \notin DOMAIN m /\ r \in Generated(m, o)
  BY DEF Fresh
<1>2. /\ r \in Word /\ ~HasDot(r) /\ Length[r.stem] <= MaxLength /\ CasedLike(r, o)
      /\ \A k \in PlainKeys(m) : k.stem # r.stem
  BY <1>1, GeneratedFacts
<1>3. \A k \in PlainKeys(m) : ~SameFold(m[k], o)
  BY DEF Folded
<1>4. Exact(m, o) = {}
  BY <1>3 DEF Exact, SameFold
<1>5. r.tld = NoTld /\ r.stem \notin DottedStem
  BY <1>2 DEF HasDot
<1> QED BY <1>1, <1>2, <1>3, <1>4, <1>5, PutPlainIsGood

\* GetReplacement: the table stays good, keeps its entries and has the answer.
LEMMA GetReplacementIsGood ==
  ASSUME NEW m, GoodTable(m), NEW o \in Word, o.tld = NoTld,
         ~CaseClash, Length[o.stem] <= MaxLength,
         NEW full, NEW r \in Replacements(m, o, full)
  PROVE  /\ GoodTable(Recorded(m, o, r))
         /\ ExtendedBy(m, Recorded(m, o, r))
         /\ r \in PlainKeys(Recorded(m, o, r))
         /\ Recorded(m, o, r)[r] = o
<1>1. CASE Exact(m, o) # {}
  BY <1>1 DEF Replacements, Recorded, ExtendedBy, Exact
<1>2. CASE Exact(m, o) = {}
  <2>1. Recorded(m, o, r) = Put(m, r, o)
    BY <1>2 DEF Recorded
  <2>2. r \notin DOMAIN m /\ GoodTable(Put(m, r, o)) /\ ~HasDot(r)
    <3>1. CASE Folded(m, o) # {}
      <4>1. PICK k \in Folded(m, o) : r = MatchCasing(o, k)
        BY <1>2, <3>1 DEF Replacements
      <4>2. k \in Word /\ ~HasDot(k)
        BY DEF Folded, PlainKeys, GoodTable
      <4>3. ~HasDot(r)
        BY <4>1, <4>2, MatchCasingFacts DEF HasDot
      <4> QED BY <1>2, <4>1, <4>3, RecasedIsGood
    <3>2. CASE Folded(m, o) = {}
      <4>1. r \in Fresh(m, o, full)
        BY <1>2, <3>2 DEF Replacements
      <4>2. ~HasDot(r)
        BY <4>1, GeneratedFacts DEF Fresh
      <4> QED BY <3>2, <4>1, <4>2, GeneratedIsGood
    <3> QED BY <3>1, <3>2
  <2>3. /\ DOMAIN Put(m, r, o) = DOMAIN m \union {r}
        /\ Put(m, r, o)[r] = o
        /\ \A k \in DOMAIN m : k # r => Put(m, r, o)[k] = m[k]
    BY DEF Put
  <2> QED BY <2>1, <2>2, <2>3 DEF ExtendedBy, PlainKeys
<1> QED BY <1>1, <1>2

\* The mail filter's entry: a key that is not there, or that means the same.
LEMMA SuffixedIsGood ==
  ASSUME NEW m, GoodTable(m), NEW o \in Word, NEW r \in PlainKeys(m), m[r] = o,
         NEW t \in Tld, HasSuffix(t),
         \A u \in Tld : HasSuffix(u) /\ SuffixOf(t) = SuffixOf(u) => t = u
  PROVE  LET n == Put(m, WithTld(r, SuffixOf(t)), WithTld(o, t)) IN
         /\ GoodTable(n) /\ ExtendedBy(m, n)
         /\ WithTld(r, SuffixOf(t)) \in DOMAIN n
         /\ n[WithTld(r, SuffixOf(t))] = WithTld(o, t)
<1> DEFINE k == WithTld(r, SuffixOf(t))
           v == WithTld(o, t)
           n == Put(m, k, v)
<1>1. SuffixOf(t) \in Tld /\ SuffixOf(t) # NoTld /\ t # NoTld
  BY SuffixAssumption, WordsAssumption DEF SuffixOf, HasSuffix
<1>2. /\ r \in Word /\ r \in DOMAIN m /\ r.tld = NoTld /\ o.tld = NoTld
      /\ r.stem \notin DottedStem
  BY DEF GoodTable, PlainEntries, PlainKeys
<1>3. /\ k \in Word /\ k.stem = r.stem /\ k.caps = r.caps /\ k.tld = SuffixOf(t)
  BY <1>1, <1>2, WithTldFacts
<1>4. /\ v \in Word /\ v.stem = o.stem /\ v.caps = o.caps /\ v.tld = t
  BY <1>1, WithTldFacts
<1>5. WithTld(k, NoTld) = r
  <2>1. WithTld(k, NoTld) \in Word /\ WithTld(k, NoTld).tld = NoTld
        /\ WithTld(k, NoTld).stem = r.stem /\ WithTld(k, NoTld).caps = r.caps
    BY <1>3, WithTldFacts
  <2> QED BY <1>2, <2>1, WordEquality
<1>6. WithTld(v, NoTld) = o
  <2>1. WithTld(v, NoTld) \in Word /\ WithTld(v, NoTld).tld = NoTld
        /\ WithTld(v, NoTld).stem = o.stem /\ WithTld(v, NoTld).caps = o.caps
    BY <1>4, WithTldFacts
  <2> QED BY <1>2, <2>1, WordEquality
<1> HIDE DEF k, v
<1>7. /\ DOMAIN n = DOMAIN m \union {k}
      /\ n[k] = v
      /\ \A x \in DOMAIN m : x # k => n[x] = m[x]
  BY DEF Put
<1>8. k \in DOMAIN m => m[k] = v
  <2> SUFFICES ASSUME k \in DOMAIN m PROVE m[k] = v
    OBVIOUS
  <2>1. k.tld # NoTld
    BY <1>1, <1>3
  <2>2. /\ m[k] \in Word /\ m[k].tld \in Tld /\ HasSuffix(m[k].tld)
        /\ k.tld = SuffixOf(m[k].tld)
        /\ WithTld(m[k], NoTld) = o
    BY <1>5, <2>1 DEF GoodTable, SuffixedEntries
  <2>3. m[k].tld = t
    BY <1>3, <2>2
  <2>4. WithTld(m[k], NoTld).stem = m[k].stem /\ WithTld(m[k], NoTld).caps = m[k].caps
    BY <2>2, WithTldFacts
  <2> QED BY <1>4, <2>2, <2>3, <2>4, WordEquality
<1>9. \A x \in DOMAIN m : n[x] = m[x]
  BY <1>7, <1>8
<1> HIDE DEF n
<1>10. PlainKeys(n) = PlainKeys(m) /\ PlainKeys(m) \subseteq DOMAIN m
  BY <1>1, <1>3, <1>7 DEF PlainKeys, HasDot
<1>11. PlainEntries(n) /\ Families(n) /\ Functional(n)
  BY <1>9, <1>10 DEF GoodTable, PlainEntries, Families, Functional
<1>12. SuffixedEntries(n)
  <2> SUFFICES ASSUME NEW x \in DOMAIN n, x.tld # NoTld
               PROVE  /\ WithTld(x, NoTld) \in PlainKeys(n)
                      /\ n[WithTld(x, NoTld)] = WithTld(n[x], NoTld)
                      /\ n[x].tld \in Tld /\ HasSuffix(n[x].tld)
                      /\ x.tld = SuffixOf(n[x].tld)
    BY DEF SuffixedEntries
  <2>1. CASE x \in DOMAIN m
    BY <1>9, <1>10, <2>1 DEF GoodTable, SuffixedEntries
  <2>2. CASE x = k
    BY <1>2, <1>3, <1>4, <1>5, <1>6, <1>7, <1>9, <1>10, <2>2
  <2> QED BY <1>7, <2>1, <2>2
<1>13. GoodTable(n)
  BY <1>2, <1>3, <1>4, <1>7, <1>9, <1>11, <1>12 DEF GoodTable
<1> QED BY <1>7, <1>9, <1>13 DEF ExtendedBy, n, k, v
=============================================================================
