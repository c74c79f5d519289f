----------------------- MODULE ReplacementTableProofs -----------------------
(***************************************************************************)
(* What ReplacementTable promises, for every set of names, every generator *)
(* and every stream of requests, under the circumstances of Ideal.         *)
(*                                                                         *)
(* The argument: GoodTable (see ReplacementProofs) says that the plain     *)
(* entries pair the spellings of a name with the spellings of a            *)
(* replacement, capital by capital, and that every entry with a top level  *)
(* domain is made of a plain entry and a suffix.  A lookup in another case *)
(* then writes a key that is not there, and so does a generated name, so   *)
(* no entry ever changes its meaning.                                      *)
(***************************************************************************)
EXTENDS ReplacementTable, ReplacementProofs

-----------------------------------------------------------------------------
(***************************************************************************)
(* The inductive invariant.                                                *)
(***************************************************************************)

\* What was handed out is still in the table.
Inv ==
  /\ GoodTable(table)
  /\ handed \subseteq Word \X Word
  /\ Decodable

-----------------------------------------------------------------------------
(***************************************************************************)
(* The invariant is inductive.                                             *)
(***************************************************************************)

\* The tables the filters may start with are good.
LEMMA WellFormedIsGood ==
  ASSUME NEW m, WellFormed(m)
  PROVE  GoodTable(m)
BY DEF WellFormed, GoodTable, PlainEntries, Families, Functional, SuffixedEntries,
       PlainKeys, HasDot

\* What a filter may ask for is a plain name within the length limit.
LEMMA RequestFacts ==
  ASSUME Ideal, GoodTable(table), NEW o \in Requests
  PROVE  o \in Word /\ o.tld = NoTld /\ Length[o.stem] <= MaxLength
BY TableAssumption DEF Ideal, Requests, GoodTable, PlainEntries, PlainKeys

\* The invariant holds at the start.
LEMMA InvInit ==
  ASSUME Ideal, Init
  PROVE  Inv
BY WellFormedIsGood DEF Init, Ideal, Inv, Decodable

\* A step that replaces a name.
LEMMA RedactNameStep ==
  ASSUME Ideal, Inv, NEW o \in Requests, NEW full, NEW r, RedactName(o, full, r)
  PROVE  Inv' /\ ExtendedBy(table, table')
<1>1. o \in Word /\ o.tld = NoTld /\ Length[o.stem] <= MaxLength
  BY RequestFacts DEF Inv
<1>2. /\ GoodTable(table')
      /\ ExtendedBy(table, table')
      /\ r \in PlainKeys(table') /\ table'[r] = o
  BY <1>1, GetReplacementIsGood DEF Inv, Ideal, RedactName
<1>3. r \in DOMAIN table' /\ r \in Word
  BY <1>2 DEF PlainKeys, GoodTable
<1>4. handed' = handed \union {<<o, r>>}
  BY DEF RedactName
<1>5. Decodable'
  BY <1>2, <1>3, <1>4 DEF Inv, Decodable, ExtendedBy
<1> QED BY <1>1, <1>2, <1>3, <1>4, <1>5 DEF Inv

\* A step that replaces a label with its top level domain.
LEMMA RedactWithTldStep ==
  ASSUME Ideal, Inv, NEW o \in Requests, NEW t \in Tld, NEW full, RedactWithTld(o, t, full)
  PROVE  Inv' /\ ExtendedBy(table, table')
<1>1. o \in Word /\ o.tld = NoTld /\ Length[o.stem] <= MaxLength
  BY RequestFacts DEF Inv
<1>2. HasSuffix(t)
  BY DEF RedactWithTld
<1>3. PICK r \in Replacements(table, o, full) :
        /\ table' = Suffixed(Recorded(table, o, r), o, r, t)
        /\ handed' = handed \union {<<o, r>>, <<WithTld(o, t), WithTld(r, SuffixOf(t))>>}
  BY DEF RedactWithTld
<1> DEFINE m == Recorded(table, o, r)
           k == WithTld(r, SuffixOf(t))
           v == WithTld(o, t)
<1>4. GoodTable(m) /\ ExtendedBy(table, m) /\ r \in PlainKeys(m) /\ m[r] = o
  BY <1>1, GetReplacementIsGood DEF Inv, Ideal
<1>5. \A u \in Tld : HasSuffix(u) /\ SuffixOf(t) = SuffixOf(u) => t = u
  BY <1>2 DEF Ideal
<1> HIDE DEF m
<1>6. /\ GoodTable(table') /\ ExtendedBy(m, table')
      /\ k \in DOMAIN table' /\ table'[k] = v
  BY <1>1, <1>2, <1>3, <1>4, <1>5, SuffixedIsGood DEF m, Suffixed
<1>7. ExtendedBy(table, table')
  BY <1>4, <1>6 DEF ExtendedBy
<1>8. r \in DOMAIN table' /\ table'[r] = o
  BY <1>4, <1>6 DEF ExtendedBy, PlainKeys
<1>9. r \in Word /\ k \in Word /\ v \in Word
  BY <1>6, <1>8 DEF GoodTable
<1> HIDE DEF k, v
<1>10. handed' = handed \union {<<o, r>>, <<v, k>>}
  BY <1>3 DEF k, v
<1>11. Decodable'
  BY <1>6, <1>7, <1>8, <1>10 DEF Inv, Decodable, ExtendedBy
<1> QED BY <1>1, <1>6, <1>7, <1>9, <1>10, <1>11 DEF Inv

\* Every step keeps the invariant and every entry.
LEMMA InvNext ==
  ASSUME Ideal, Inv, [Next]_vars
  PROVE  Inv' /\ ExtendedBy(table, table')
<1>1. CASE UNCHANGED vars
  BY <1>1 DEF vars, Inv, Decodable, ExtendedBy
<1>2. ASSUME NEW o \in Requests, NEW full \in FullInputs(o), Reuse(o, full)
      PROVE  Inv' /\ ExtendedBy(table, table')
  BY <1>2, RedactNameStep DEF Reuse
<1>3. ASSUME NEW o \in Requests, NEW full \in FullInputs(o), Recase(o, full)
      PROVE  Inv' /\ ExtendedBy(table, table')
  BY <1>3, RedactNameStep DEF Recase
<1>4. ASSUME NEW o \in Requests, NEW full \in FullInputs(o), Generate(o, full)
      PROVE  Inv' /\ ExtendedBy(table, table')
  BY <1>4, RedactNameStep DEF Generate
<1>5. ASSUME NEW o \in Requests, NEW full \in FullInputs(o), NEW t \in Tld,
             RedactWithTld(o, t, full)
      PROVE  Inv' /\ ExtendedBy(table, table')
  BY <1>5, RedactWithTldStep
<1> QED BY <1>1, <1>2, <1>3, <1>4, <1>5 DEF Next

\* The invariant is an invariant.
THEOREM Invariance == ASSUME Ideal PROVE Spec => []Inv
<1>1. Init => Inv
  BY InvInit
<1>2. Inv /\ [Next]_vars => Inv'
  BY InvNext
<1> QED BY <1>1, <1>2, PTL DEF Spec

-----------------------------------------------------------------------------
(***************************************************************************)
(* The properties.                                                         *)
(***************************************************************************)

\* The table and the history have their types.
THEOREM TypeCorrect == ASSUME Ideal PROVE Spec => []TypeOK
<1>1. Inv => TypeOK
  <2> SUFFICES ASSUME Inv, NEW k \in DOMAIN table
               PROVE  k.tld = NoTld <=> table[k].tld = NoTld
    BY DEF TypeOK, Inv, GoodTable
  <2>1. CASE k.tld = NoTld
    BY <2>1, PlainKeysFact DEF Inv, GoodTable, PlainEntries
  <2>2. CASE k.tld # NoTld
    BY <2>2, WordsAssumption DEF Inv, GoodTable, SuffixedEntries
  <2> QED BY <2>1, <2>2
<1> QED BY <1>1, Invariance, PTL

\* A spelling of a name never has two replacements.
THEOREM SingleReplacement == ASSUME Ideal PROVE Spec => []OneKeyPerOriginal
<1>1. Inv => OneKeyPerOriginal
  BY DEF Inv, GoodTable, Functional, OneKeyPerOriginal
<1> QED BY <1>1, Invariance, PTL

\* Every replacement that was put into a text can be restored, at any time.
THEOREM AlwaysDecodable == ASSUME Ideal PROVE Spec => []Decodable
<1>1. Inv => Decodable
  BY DEF Inv
<1> QED BY <1>1, Invariance, PTL

\* No entry of the table is ever rewritten.
THEOREM EntriesArePermanent == ASSUME Ideal PROVE Spec => NeverRebound
<1>1. Inv /\ [Next]_vars =>
        [\A k \in DOMAIN table : k \in DOMAIN table' /\ table'[k] = table[k]]_vars
  BY InvNext DEF ExtendedBy
<1> QED BY <1>1, Invariance, PTL DEF Spec, NeverRebound

\* A pair that was handed out is paired as the plain entries are: the
\* replacement is cased like the name.
LEMMA HandedIsCased ==
  ASSUME Inv, NEW p \in handed
  PROVE  CasedLike(p[2], p[1])
<1>1. p[2] \in DOMAIN table /\ table[p[2]] = p[1] /\ p[1] \in Word /\ p[2] \in Word
  BY DEF Inv, Decodable
<1>2. CASE p[2].tld = NoTld
  BY <1>1, <1>2, PlainKeysFact DEF Inv, GoodTable, PlainEntries
<1>3. CASE p[2].tld # NoTld
  <2> DEFINE l == WithTld(p[2], NoTld)
  <2>1. l \in PlainKeys(table) /\ table[l] = WithTld(p[1], NoTld)
    BY <1>1, <1>3 DEF Inv, GoodTable, SuffixedEntries
  <2>2. CasedLike(l, WithTld(p[1], NoTld))
    BY <2>1 DEF Inv, GoodTable, PlainEntries
  <2>3. /\ l.stem = p[2].stem /\ l.caps = p[2].caps
        /\ WithTld(p[1], NoTld).stem = p[1].stem /\ WithTld(p[1], NoTld).caps = p[1].caps
    BY <1>1, WithTldFacts
  <2> QED BY <2>2, <2>3 DEF CasedLike
<1> QED BY <1>2, <1>3

\* The spellings of a name share a replacement up to case, and no other name
\* has it.
THEOREM CaseIsPreserved == ASSUME Ideal PROVE Spec => []CasePreserved
<1>1. Inv => CasePreserved
  BY HandedIsCased DEF Inv, GoodTable, Families, CasePreserved
<1> QED BY <1>1, Invariance, PTL

\* A name on the white list is never replaced.
THEOREM WhitelistIsHonoured == ASSUME Ideal PROVE Spec => []WhitelistHonoured
<1>1. Inv => WhitelistHonoured
  <2> SUFFICES ASSUME Inv, NEW p \in handed, NEW w \in DOMAIN table,
                      table[w] = w, SameFold(w, p[1])
               PROVE  p[2] = p[1]
    BY DEF WhitelistHonoured
  <2>1. p[2] \in DOMAIN table /\ table[p[2]] = p[1] /\ p[1] \in Word /\ p[2] \in Word
    BY DEF Inv, Decodable
  <2>2. w \in Word /\ w.stem = p[1].stem /\ w.tld = p[1].tld
    BY DEF Inv, GoodTable, SameFold
  <2>3. CasedLike(p[2], p[1])
    BY HandedIsCased
  <2>4. p[2].stem = p[1].stem /\ p[2].tld = p[1].tld
    <3>1. CASE w.tld = NoTld
      <4>1. p[2].tld = NoTld
        BY <2>1, <2>2, <3>1, WordsAssumption DEF Inv, GoodTable, SuffixedEntries
      <4>2. w \in PlainKeys(table) /\ p[2] \in PlainKeys(table)
        BY <2>1, <3>1, <4>1, PlainKeysFact DEF Inv
      <4>3. w.stem = p[2].stem
        BY <2>1, <4>2 DEF Inv, GoodTable, Families
      <4> QED BY <2>2, <3>1, <4>1, <4>3
    <3>2. CASE w.tld # NoTld
      <4> DEFINE l == WithTld(w, NoTld)
                 q == WithTld(p[2], NoTld)
      <4>1. p[2].tld # NoTld
        BY <2>1, <2>2, <3>2, PlainKeysFact DEF Inv, GoodTable, PlainEntries
      <4>2. /\ l \in PlainKeys(table) /\ table[l] = l /\ w.tld = SuffixOf(w.tld)
            /\ q \in PlainKeys(table) /\ table[q] = WithTld(p[1], NoTld)
            /\ p[2].tld = SuffixOf(p[1].tld)
        BY <2>1, <3>2, <4>1 DEF Inv, GoodTable, SuffixedEntries
      <4>3. /\ l.stem = w.stem /\ l.tld = NoTld /\ q.stem = p[2].stem
            /\ WithTld(p[1], NoTld).stem = p[1].stem /\ WithTld(p[1], NoTld).tld = NoTld
        BY <2>1, <2>2, WithTldFacts
      <4>4. SameFold(table[l], table[q])
        BY <2>2, <4>2, <4>3 DEF SameFold
      <4>5. l.stem = q.stem
        BY <4>2, <4>4 DEF Inv, GoodTable, Families
      <4> QED BY <2>2, <4>2, <4>3, <4>5
    <3> QED BY <3>1, <3>2
  <2> QED BY <2>1, <2>3, <2>4, CaseFixes
<1> QED BY <1>1, Invariance, PTL

-----------------------------------------------------------------------------
(***************************************************************************)
(* The refinement.                                                         *)
(***************************************************************************)

\* What was handed out is one to one.
LEMMA HandedIsOneToOne ==
  ASSUME Inv
  PROVE  Book!OneToOne(handed)
<1> SUFFICES ASSUME NEW p \in handed, NEW q \in handed
             PROVE  p[1] = q[1] <=> p[2] = q[2]
  BY DEF Book!OneToOne
<1>1. /\ p[2] \in DOMAIN table /\ table[p[2]] = p[1] /\ p[2] \in Word /\ p[1] \in Word
      /\ q[2] \in DOMAIN table /\ table[q[2]] = q[1] /\ q[2] \in Word /\ q[1] \in Word
  BY DEF Inv, Decodable
<1>2. ASSUME p[1] = q[1] PROVE p[2] = q[2]
  <2>1. \A k \in DOMAIN table : k.tld = NoTld <=> table[k].tld = NoTld
    BY PlainKeysFact, WordsAssumption DEF Inv, GoodTable, PlainEntries, SuffixedEntries
  <2>2. CASE p[1].tld = NoTld
    <3>1. p[2] \in PlainKeys(table) /\ q[2] \in PlainKeys(table)
      BY <1>1, <1>2, <2>1, <2>2, PlainKeysFact DEF Inv
    <3> QED BY <1>1, <1>2, <3>1 DEF Inv, GoodTable, Functional
  <2>3. CASE p[1].tld # NoTld
    <3> DEFINE k == WithTld(p[2], NoTld)
               l == WithTld(q[2], NoTld)
    <3>1. p[2].tld # NoTld /\ q[2].tld # NoTld
      BY <1>1, <1>2, <2>1, <2>3
    <3>2. /\ k \in PlainKeys(table) /\ table[k] = WithTld(p[1], NoTld)
          /\ l \in PlainKeys(table) /\ table[l] = WithTld(q[1], NoTld)
          /\ p[2].tld = SuffixOf(p[1].tld) /\ q[2].tld = SuffixOf(q[1].tld)
      BY <1>1, <3>1 DEF Inv, GoodTable, SuffixedEntries
    <3>3. k = l
      BY <1>2, <3>2 DEF Inv, GoodTable, Functional
    <3>4. /\ k.stem = p[2].stem /\ k.caps = p[2].caps
          /\ l.stem = q[2].stem /\ l.caps = q[2].caps
      BY <1>1, WithTldFacts
    <3> QED BY <1>1, <1>2, <3>2, <3>3, <3>4, WordEquality
  <2> QED BY <2>2, <2>3
<1> QED BY <1>1, <1>2

\* The history only grows.
LEMMA HistoryGrows ==
  ASSUME [Next]_vars
  PROVE  handed \subseteq handed'
BY DEF Next, vars, Reuse, Recase, Generate, RedactName, RedactWithTld

\* The table implements the code book.
THEOREM TableIsACodebook == ASSUME Ideal PROVE Spec => BookSpec
<1>1. Init => Book!Init
  BY DEF Init, Book!Init
<1>2. Inv /\ Inv' /\ [Next]_vars => [Book!Next]_handed
  <2> SUFFICES ASSUME Inv, Inv', [Next]_vars PROVE Book!Next
    OBVIOUS
  <2>1. Book!OneToOne(handed)'
    BY HandedIsOneToOne, PTL
  <2> QED BY <2>1, HistoryGrows DEF Book!Next
<1> QED BY <1>1, <1>2, Invariance, PTL DEF Spec, BookSpec, Book!Spec
=============================================================================
