-------------------------- MODULE PiiFilterProofs --------------------------
(***************************************************************************)
(* What the composite filter promises for every set of texts, whichever    *)
(* filters are enabled and whatever the generator draws.                   *)
(*                                                                         *)
(* The argument: a word is as it came in and unknown to the filters that   *)
(* have seen it, or it is a key of the table (Traced).  So what leaves is  *)
(* no name that was found, unless that name is a key itself, which can be  *)
(* the case only if it was one before (Unused).  And a key leads back to   *)
(* what the filter found, filter by filter (Traceable, below).             *)
(***************************************************************************)
EXTENDS PiiFilter, ReplacementProofs, SequenceTheorems

-----------------------------------------------------------------------------
(***************************************************************************)
(* The inductive invariant.                                                *)
(***************************************************************************)

\* The filters that have seen word i.
Passed(f, i) ==
  \/ stage = "done"
  \/ stage = "host" /\ f # "host"
  \/ stage = "email" /\ f = "username"
  \/ stage = f /\ i < pos

\* A word is as it came in, and no filter that has seen it matches it, or it is
\* a key of the table.
Traced ==
  \A i \in DOMAIN text :
    \/ text[i].word \in PlainKeys(table)
    \/ /\ text[i].word = plain[i].word
       /\ \A f \in enabled : Passed(f, i) => ~Matches(f, plain[i])

\* The words of the text that are keys have been keys before, unless the text
\* has words that are replacements in another case.
Unused == CaseApart => FullInput(plain) \intersect DOMAIN table \subseteq DOMAIN before

Inv ==
  /\ TypeOK
  /\ plain = <<>> \/ plain \in Texts
  /\ stage # "done" => plain \in Texts
  /\ Traced
  /\ Unused

-----------------------------------------------------------------------------
(***************************************************************************)
(* Lemmas about tables and tokens.                                         *)
(***************************************************************************)

\* What each filter matches.
LEMMA MatchesFacts ==
  ASSUME NEW token
  PROVE  /\ Matches("username", token) <=> token.word.stem \in UserNames
         /\ Matches("email", token) <=> token.kind # "word"
         /\ Matches("host", token) <=> token.word.stem \in HostNames
BY Zenon DEF Matches

LEMMA StageOrder ==
  /\ NextStage("username") = "email"
  /\ NextStage("email") = "host"
  /\ NextStage("host") = "done"
BY Zenon DEF NextStage

\* The words of a text carry no top level domain themselves.
LEMMA TextFacts ==
  ASSUME NEW t, t = <<>> \/ t \in Texts
  PROVE  /\ t \in Seq(Token) /\ Len(t) \in Nat /\ DOMAIN t = 1 .. Len(t)
         /\ \A i \in DOMAIN t : t[i] \in Token /\ t[i].word \in Word /\ t[i].word.tld = NoTld
         /\ FullInput(t) \subseteq {w \in Word : w.tld = NoTld}
<1>1. t \in Seq(Token) /\ \A i \in DOMAIN t : t[i].word.tld = NoTld
  <2>1. CASE t = <<>>
    <3>1. <<>> \in Seq(Token) /\ DOMAIN <<>> = {}
      OBVIOUS
    <3> QED BY <2>1, <3>1, Zenon
  <2>2. CASE t \in Texts
    <3>1. IsText(t)
      BY <2>2, PiiFilterAssumption
    <3> QED BY <3>1, Zenon DEF IsText
  <2> QED BY <2>1, <2>2
<1>2. Len(t) \in Nat /\ DOMAIN t = 1 .. Len(t)
  BY <1>1, LenProperties
<1>3. \A i \in DOMAIN t : t[i] \in Token
  BY <1>1, <1>2, ElementOfSeq, Zenon
<1>4. \A i \in DOMAIN t : t[i].word \in Word
  BY <1>3 DEF Token
<1> QED BY <1>1, <1>2, <1>3, <1>4 DEF FullInput

\* A table of words for words.
IsTable(m) == DOMAIN m \subseteq Word /\ \A k \in DOMAIN m : m[k] \in Word

\* GetReplacement's answer is a plain key afterwards.  It was a key before, or is
\* not part of the full input, or is a key in another case.
LEMMA AnswerFacts ==
  ASSUME NEW m, IsTable(m), NEW o \in Word, NEW full, NEW r \in Replacements(m, o, full)
  PROVE  /\ r \in Word /\ r.tld = NoTld
         /\ IsTable(Recorded(m, o, r)) /\ DOMAIN Recorded(m, o, r) = DOMAIN m \union {r}
         /\ PlainKeys(Recorded(m, o, r)) = PlainKeys(m) \union {r}
         /\ r \in DOMAIN m \/ r \notin full \/ \E k \in DOMAIN m : SameFold(k, r)
<1>1. CASE Exact(m, o) # {}
  <2>1. r \in PlainKeys(m) /\ Recorded(m, o, r) = m
    BY <1>1 DEF Replacements, Exact, Recorded
  <2> QED BY <2>1 DEF PlainKeys, HasDot, IsTable
<1>2. CASE Exact(m, o) = {}
  <2>1. /\ r \in Word /\ ~HasDot(r)
        /\ r \notin full \/ \E k \in DOMAIN m : SameFold(k, r)
    <3>1. CASE Folded(m, o) # {}
      <4>1. PICK k \in Folded(m, o) : r = MatchCasing(o, k)
        BY <1>2, <3>1 DEF Replacements
      <4>2. k \in DOMAIN m /\ k \in Word /\ ~HasDot(k)
        BY DEF Folded, PlainKeys, IsTable
      <4>3. r \in Word /\ r.stem = k.stem /\ r.tld = k.tld
        BY <4>1, <4>2, MatchCasingFacts
      <4> QED BY <4>2, <4>3 DEF HasDot, SameFold
    <3>2. CASE Folded(m, o) = {}
      <4>1. r \in Generated(m, o) /\ r \notin full
        BY <1>2, <3>2 DEF Replacements, Fresh
      <4> QED BY <4>1, GeneratedFacts
    <3> QED BY <3>1, <3>2
  <2>2. Recorded(m, o, r) = Put(m, r, o)
    BY <1>2 DEF Recorded
  <2>3. /\ DOMAIN Recorded(m, o, r) = DOMAIN m \union {r}
        /\ Recorded(m, o, r)[r] = o
        /\ \A k \in DOMAIN m : k # r => Recorded(m, o, r)[k] = m[k]
    BY <2>2 DEF Put
  <2> QED BY <2>1, <2>3 DEF IsTable, PlainKeys, HasDot
<1> QED BY <1>1, <1>2

\* The mail filter's own entry is no plain key.
LEMMA EnteredFacts ==
  ASSUME NEW m, IsTable(m), NEW o \in Word, NEW r \in Word, NEW t \in Tld, HasSuffix(t)
  PROVE  /\ SuffixOf(t) \in Tld
         /\ WithTld(o, t) \in Word /\ WithTld(r, SuffixOf(t)) \in Word
         /\ IsTable(Entered(m, o, r, t))
         /\ DOMAIN Entered(m, o, r, t) = DOMAIN m \union {WithTld(r, SuffixOf(t))}
         /\ WithTld(r, SuffixOf(t)).tld # NoTld
         /\ PlainKeys(Entered(m, o, r, t)) = PlainKeys(m)
<1> DEFINE k == WithTld(r, SuffixOf(t))
           v == WithTld(o, t)
<1>1. SuffixOf(t) \in Tld /\ SuffixOf(t) # NoTld /\ t # NoTld
  BY SuffixAssumption, WordsAssumption DEF SuffixOf, HasSuffix
<1>2. v \in Word /\ k \in Word /\ k.tld # NoTld
  BY <1>1, WithTldFacts
<1> HIDE DEF k, v
<1>3. Entered(m, o, r, t) = Put(m, k, v)
  BY DEF Entered, k, v
<1>4. /\ DOMAIN Entered(m, o, r, t) = DOMAIN m \union {k}
      /\ Entered(m, o, r, t)[k] = v
      /\ \A x \in DOMAIN m : x # k => Entered(m, o, r, t)[x] = m[x]
  BY <1>3 DEF Put
<1> QED BY <1>1, <1>2, <1>4 DEF IsTable, PlainKeys, HasDot, k, v

-----------------------------------------------------------------------------
(***************************************************************************)
(* The invariant is inductive.                                             *)
(***************************************************************************)

LEMMA InvInit ==
  ASSUME Init
  PROVE  Inv
<1>1. plain = <<>> /\ text = <<>> /\ Len(<<>>) = 0 /\ DOMAIN <<>> = {}
  BY DEF Init
<1>2. TypeOK
  BY <1>1, PiiFilterAssumption DEF Init, TypeOK, AllFilters
<1>3. Traced
  BY <1>1 DEF Traced
<1>4. Unused
  BY DEF Init, Unused
<1> QED BY <1>1, <1>2, <1>3, <1>4 DEF Init, Inv

\* What is known of a text while it is redacted.
LEMMA Known ==
  ASSUME Inv
  PROVE  /\ plain \in Seq(Token) /\ Len(plain) \in Nat
         /\ DOMAIN plain = 1 .. Len(plain) /\ DOMAIN text = 1 .. Len(plain)
         /\ FullInput(plain) \subseteq {w \in Word : w.tld = NoTld}
         /\ \A i \in DOMAIN text : text[i] \in Token /\ text[i].word \in Word
         /\ IsTable(table)
<1>1. plain = <<>> \/ plain \in Texts
  BY DEF Inv
<1>2. /\ plain \in Seq(Token) /\ Len(plain) \in Nat /\ DOMAIN plain = 1 .. Len(plain)
      /\ FullInput(plain) \subseteq {w \in Word : w.tld = NoTld}
  BY <1>1, TextFacts, Zenon
<1> QED BY <1>2 DEF Inv, TypeOK, IsTable, Token

\* A text comes in.
LEMMA ReceiveKeeps ==
  ASSUME Inv, NEW t \in Texts, Receive(t)
  PROVE  Inv'
<1>1. /\ stage' = "username" /\ pos' = 1 /\ text' = t /\ plain' = t /\ before' = table
      /\ UNCHANGED <<enabled, table, handed>>
  BY DEF Receive
<1>2. /\ t \in Seq(Token) /\ Len(t) \in Nat /\ DOMAIN t = 1 .. Len(t)
      /\ \A i \in DOMAIN t : t[i] \in Token /\ t[i].word \in Word /\ t[i].word.tld = NoTld
  BY TextFacts, Zenon
<1>3. TypeOK'
  BY <1>1, <1>2 DEF Inv, TypeOK, AllFilters
<1>4. Traced'
  <2>1. \A i \in DOMAIN t, f \in AllFilters : ~Passed(f, i)'
    BY <1>1, <1>2 DEF Passed, AllFilters
  <2>2. enabled' \subseteq AllFilters
    BY <1>1 DEF Inv, TypeOK
  <2> QED BY <1>1, <2>1, <2>2 DEF Traced
<1>5. Unused'
  BY <1>1 DEF Unused
<1> QED BY <1>1, <1>3, <1>4, <1>5 DEF Inv

\* A filter replaces the word it has come to by a key of the table.
LEMMA ReplacedKeeps ==
  ASSUME Inv, AtWord, NEW r \in Word, r.tld = NoTld,
         IsTable(table'), DOMAIN table \subseteq DOMAIN table',
         \A k \in DOMAIN table' : k \in DOMAIN table \/ k = r \/ k.tld # NoTld,
         PlainKeys(table) \union {r} \subseteq PlainKeys(table'),
         r \in DOMAIN table \/ r \notin FullInput(plain) \/ \E k \in DOMAIN table : SameFold(k, r),
         DOMAIN text' = DOMAIN text, \A i \in DOMAIN text : i # pos => text'[i] = text[i],
         text'[pos] \in Token, text'[pos].kind = text[pos].kind, text'[pos].word = r,
         handed' \subseteq Word \X Word, pos' = pos + 1,
         UNCHANGED <<enabled, stage, plain, before>>
  PROVE  Inv'
<1>1. /\ pos \in 1 .. Len(plain) /\ Len(plain) \in Nat /\ DOMAIN text = 1 .. Len(plain)
      /\ stage # "done" /\ FullInput(plain) \subseteq {w \in Word : w.tld = NoTld}
  BY Known DEF AtWord
<1>2. TypeOK'
  <2>1. pos' \in 1 .. Len(plain') + 1
    BY <1>1
  <2>2. /\ DOMAIN table' \subseteq Word /\ \A k \in DOMAIN table' : table'[k] \in Word
    BY DEF IsTable
  <2>3. \A i \in DOMAIN text' : /\ text'[i] \in Token
                                /\ text'[i].kind = plain'[i].kind
                                /\ text'[i].word.tld = NoTld
    BY <1>1 DEF Inv, TypeOK
  <2> QED BY <2>1, <2>2, <2>3 DEF Inv, TypeOK
<1>3. Traced'
  <2> SUFFICES ASSUME NEW i \in DOMAIN text
               PROVE  \/ text'[i].word \in PlainKeys(table')
                      \/ /\ text'[i].word = plain[i].word
                         /\ \A f \in enabled : Passed(f, i)' => ~Matches(f, plain[i])
    BY DEF Traced
  <2>1. CASE i = pos
    BY <2>1
  <2>2. CASE i # pos
    <3>1. text'[i] = text[i]
      BY <2>2
    <3>2. \A f \in enabled : Passed(f, i)' => Passed(f, i)
      BY <1>1, <2>2 DEF Passed
    <3> QED BY <3>1, <3>2 DEF Inv, Traced
  <2> QED BY <2>1, <2>2
<1>4. Unused'
  <2> SUFFICES ASSUME CaseApart', NEW w \in FullInput(plain), w \in DOMAIN table'
               PROVE  w \in DOMAIN before
    BY DEF Unused
  <2>1. CaseApart
    BY DEF CaseApart
  <2>2. w.tld = NoTld
    BY <1>1
  <2>3. w \in DOMAIN table
    <3>1. CASE w = r
      <4>1. ASSUME NEW k \in DOMAIN table, SameFold(k, r) PROVE k = r
        BY <3>1, <4>1 DEF CaseApart
      <4> QED BY <3>1, <4>1
    <3> QED BY <2>2, <3>1
  <2> QED BY <2>1, <2>3 DEF Inv, Unused
<1> QED BY <1>2, <1>3, <1>4 DEF Inv

LEMMA ReplaceNameKeeps ==
  ASSUME Inv, ReplaceName
  PROVE  Inv'
<1> DEFINE o == text[pos].word
<1>1. /\ AtWord /\ pos \in DOMAIN text /\ text[pos] \in Token /\ o \in Word /\ IsTable(table)
  BY Known DEF ReplaceName, AtWord
<1>2. PICK r \in Replacements(table, o, FullInput(plain)) :
        /\ table' = Recorded(table, o, r)
        /\ text' = [text EXCEPT ![pos].word = r]
        /\ handed' = handed \union {<<o, r>>}
  BY DEF ReplaceName
<1>3. pos' = pos + 1 /\ UNCHANGED <<enabled, stage, plain, before>>
  BY DEF ReplaceName
<1>4. /\ r \in Word /\ r.tld = NoTld
      /\ IsTable(table') /\ DOMAIN table' = DOMAIN table \union {r}
      /\ PlainKeys(table') = PlainKeys(table) \union {r}
      /\ r \in DOMAIN table \/ r \notin FullInput(plain) \/ \E k \in DOMAIN table : SameFold(k, r)
  <2>1. table' = Recorded(table, o, r)
    BY <1>2
  <2> HIDE DEF o
  <2>2. /\ r \in Word /\ r.tld = NoTld
        /\ IsTable(Recorded(table, o, r)) /\ DOMAIN Recorded(table, o, r) = DOMAIN table \union {r}
        /\ PlainKeys(Recorded(table, o, r)) = PlainKeys(table) \union {r}
        /\ r \in DOMAIN table \/ r \notin FullInput(plain) \/ \E k \in DOMAIN table : SameFold(k, r)
    BY <1>1, AnswerFacts
  <2> QED BY <2>1, <2>2
<1>5. /\ DOMAIN text' = DOMAIN text /\ \A i \in DOMAIN text : i # pos => text'[i] = text[i]
      /\ text'[pos] = [text[pos] EXCEPT !.word = r]
  BY <1>1, <1>2
<1>6. text'[pos] \in Token /\ text'[pos].kind = text[pos].kind /\ text'[pos].word = r
  BY <1>1, <1>4, <1>5 DEF Token
<1>7. handed' \subseteq Word \X Word
  BY <1>1, <1>2, <1>4 DEF Inv, TypeOK
<1> HIDE DEF o
<1> QED BY <1>1, <1>3, <1>4, <1>5, <1>6, <1>7, ReplacedKeeps

LEMMA ReplaceWithTldKeeps ==
  ASSUME Inv, ReplaceWithTld
  PROVE  Inv'
<1> DEFINE o == text[pos].word
           t == text[pos].tld
<1>1. /\ AtWord /\ pos \in DOMAIN text /\ text[pos] \in Token /\ o \in Word /\ IsTable(table)
      /\ t \in Tld /\ HasSuffix(t)
  BY Known DEF ReplaceWithTld, AtWord, TakesSuffix, Token
<1>2. PICK r \in Replacements(table, o, FullInput(plain)) :
        /\ table' = Entered(Recorded(table, o, r), o, r, t)
        /\ text' = [text EXCEPT ![pos] = Addressed(text[pos], r)]
        /\ handed' = handed \union {<<o, r>>, <<WithTld(o, t), WithTld(r, SuffixOf(t))>>}
  BY DEF ReplaceWithTld
<1>3. pos' = pos + 1 /\ UNCHANGED <<enabled, stage, plain, before>>
  BY DEF ReplaceWithTld
<1> DEFINE m == Recorded(table, o, r)
<1>4. /\ r \in Word /\ r.tld = NoTld
      /\ IsTable(m) /\ DOMAIN m = DOMAIN table \union {r}
      /\ PlainKeys(m) = PlainKeys(table) \union {r}
      /\ r \in DOMAIN table \/ r \notin FullInput(plain) \/ \E k \in DOMAIN table : SameFold(k, r)
  BY <1>1, <1>2, AnswerFacts, Zenon
<1>5. /\ SuffixOf(t) \in Tld
      /\ WithTld(o, t) \in Word /\ WithTld(r, SuffixOf(t)) \in Word
      /\ IsTable(table') /\ DOMAIN table' = DOMAIN m \union {WithTld(r, SuffixOf(t))}
      /\ WithTld(r, SuffixOf(t)).tld # NoTld
      /\ PlainKeys(table') = PlainKeys(m)
  <2>1. table' = Entered(m, o, r, t)
    BY <1>2
  <2> HIDE DEF m, o, t
  <2>2. /\ SuffixOf(t) \in Tld
        /\ WithTld(o, t) \in Word /\ WithTld(r, SuffixOf(t)) \in Word
        /\ IsTable(Entered(m, o, r, t))
        /\ DOMAIN Entered(m, o, r, t) = DOMAIN m \union {WithTld(r, SuffixOf(t))}
        /\ WithTld(r, SuffixOf(t)).tld # NoTld
        /\ PlainKeys(Entered(m, o, r, t)) = PlainKeys(m)
    BY <1>1, <1>4, EnteredFacts
  <2> QED BY <2>1, <2>2
<1>6. /\ DOMAIN text' = DOMAIN text /\ \A i \in DOMAIN text : i # pos => text'[i] = text[i]
      /\ text'[pos] = Addressed(text[pos], r)
  BY <1>1, <1>2
<1>7. text'[pos] \in Token /\ text'[pos].kind = text[pos].kind /\ text'[pos].word = r
  BY <1>1, <1>4, <1>5, <1>6 DEF Token, Addressed
<1>8. handed' \subseteq Word \X Word
  BY <1>1, <1>2, <1>4, <1>5 DEF Inv, TypeOK
<1> HIDE DEF o, t, m
<1> QED BY <1>1, <1>3, <1>4, <1>5, <1>6, <1>7, <1>8, ReplacedKeeps

\* A word that is passed stays as it is, and is none the filter matches.
LEMMA PassWordKeeps ==
  ASSUME Inv, PassWord
  PROVE  Inv'
<1>1. /\ pos \in 1 .. Len(plain) /\ Len(plain) \in Nat /\ DOMAIN text = 1 .. Len(plain)
      /\ stage # "done" /\ stage \in AllFilters /\ ~Matches(stage, text[pos])
      /\ pos' = pos + 1 /\ UNCHANGED <<enabled, table, stage, text, plain, before, handed>>
  BY Known DEF PassWord, AtWord, Inv, TypeOK
<1>2. TypeOK'
  BY <1>1 DEF Inv, TypeOK
<1>3. Traced'
  <2> SUFFICES ASSUME NEW i \in DOMAIN text, text[i].word \notin PlainKeys(table),
                      NEW f \in enabled, Passed(f, i)'
               PROVE  text[i].word = plain[i].word /\ ~Matches(f, plain[i])
    BY <1>1 DEF Inv, Traced
  <2>1. text[i].word = plain[i].word /\ (Passed(f, i) => ~Matches(f, plain[i]))
    BY DEF Inv, Traced
  <2>2. Passed(f, i) \/ (f = stage /\ i = pos)
    BY <1>1 DEF Passed
  <2>3. CASE f = stage /\ i = pos
    <3>1. text[i].kind = plain[i].kind
      BY DEF Inv, TypeOK
    <3>2. ~Matches(f, text[i])
      BY <1>1, <2>3
    <3>3. f = "username" \/ f = "email" \/ f = "host"
      BY <1>1, <2>3 DEF AllFilters
    <3> QED BY <2>1, <3>1, <3>2, <3>3, MatchesFacts
  <2> QED BY <2>1, <2>2, <2>3
<1>4. Unused'
  BY <1>1 DEF Inv, Unused, CaseApart
<1> QED BY <1>1, <1>2, <1>3, <1>4 DEF Inv

\* The next filter begins.
LEMMA PassFilterKeeps ==
  ASSUME Inv, PassFilter
  PROVE  Inv'
<1>1. /\ stage # "done" /\ stage \in AllFilters /\ stage' = NextStage(stage) /\ pos' = 1
      /\ stage \notin enabled \/ pos \notin DOMAIN text
      /\ UNCHANGED <<enabled, table, text, plain, before, handed>>
      /\ enabled \subseteq AllFilters
      /\ pos \in 1 .. Len(plain) + 1 /\ Len(plain) \in Nat /\ DOMAIN text = 1 .. Len(plain)
  BY Known DEF PassFilter, Inv, TypeOK
<1>2. \/ stage = "username" /\ stage' = "email"
      \/ stage = "email" /\ stage' = "host"
      \/ stage = "host" /\ stage' = "done"
  BY <1>1, StageOrder DEF AllFilters
<1>3. TypeOK'
  BY <1>1, <1>2 DEF Inv, TypeOK, AllFilters
<1>4. Traced'
  <2>1. ASSUME NEW i \in DOMAIN text, NEW f \in enabled, Passed(f, i)'
        PROVE  Passed(f, i)
    BY <1>1, <1>2, <2>1 DEF Passed, AllFilters
  <2> QED BY <1>1, <2>1 DEF Inv, Traced
<1>5. Unused'
  BY <1>1 DEF Inv, Unused, CaseApart
<1> QED BY <1>1, <1>2, <1>3, <1>4, <1>5 DEF Inv

LEMMA Inductive == Inv /\ [Next]_vars => Inv'
<1> SUFFICES ASSUME Inv, [Next]_vars PROVE Inv'
  OBVIOUS
<1>1. ASSUME NEW t \in Texts, Receive(t) PROVE Inv'
  BY <1>1, ReceiveKeeps
<1>2. CASE ReplaceName
  BY <1>2, ReplaceNameKeeps
<1>3. CASE ReplaceWithTld
  BY <1>3, ReplaceWithTldKeeps
<1>4. CASE PassWord
  BY <1>4, PassWordKeeps
<1>5. CASE PassFilter
  BY <1>5, PassFilterKeeps
<1>6. CASE UNCHANGED vars
  BY <1>6 DEF vars, Inv, TypeOK, Traced, Passed, Unused, CaseApart
<1> QED BY <1>1, <1>2, <1>3, <1>4, <1>5, <1>6 DEF Next

LEMMA Invariance == Spec => []Inv
<1>1. Init => Inv
  BY InvInit
<1> QED BY <1>1, Inductive, PTL DEF Spec

-----------------------------------------------------------------------------
(***************************************************************************)
(* What needs no assumption on the generator.                              *)
(***************************************************************************)

\* The variables keep their types and the text its shape: a filter replaces
\* names, and never adds, drops or moves a word.
THEOREM TypeCorrect == Spec => []TypeOK
<1>1. Inv => TypeOK
  BY DEF Inv
<1> QED BY <1>1, Invariance, PTL

\* A name that an enabled filter finds leaves in no spelling where a filter found
\* a name, whichever filters are enabled and in whatever order they replaced it,
\* though each filter sees what the others put in.
THEOREM FoundNamesDoNotLeave == Spec => []NoLeak
<1>1. ASSUME Inv PROVE NoLeak
  <2> SUFFICES ASSUME stage = "done", CaseApart, NEW i \in DOMAIN text, NEW j \in DOMAIN text,
                      Found(j), plain[i].word \notin DOMAIN before,
                      SameFold(text[j].word, plain[i].word)
               PROVE  FALSE
    BY DEF NoLeak
  <2>1. text[j].word \in PlainKeys(table)
    BY <1>1 DEF Inv, Traced, Passed, Found
  <2>2. plain[i].word \in FullInput(plain)
    BY <1>1 DEF Inv, TypeOK, FullInput
  <2>3. text[j].word = plain[i].word
    BY <2>1, <2>2 DEF CaseApart, PlainKeys
  <2> QED BY <1>1, <2>1, <2>2, <2>3 DEF Inv, Unused, PlainKeys
<1> QED BY <1>1, Invariance, PTL

-----------------------------------------------------------------------------
(***************************************************************************)
(* The filters implement ReplacementTable.                                 *)
(***************************************************************************)

\* The filters and the specification of the table mean the same by the operators
\* they share.
LEMMA SharedOperators ==
  ASSUME NEW m, NEW o, NEW full, NEW r, NEW t
  PROVE  /\ Shared!PlainKeys(m) = PlainKeys(m)
         /\ Shared!Exact(m, o) = Exact(m, o)
         /\ Shared!Folded(m, o) = Folded(m, o)
         /\ Shared!MatchCasing(o, r) = MatchCasing(o, r)
         /\ Shared!Fresh(m, o, full) = Fresh(m, o, full)
         /\ Shared!Replacements(m, o, full) = Replacements(m, o, full)
         /\ Shared!Recorded(m, o, r) = Recorded(m, o, r)
         /\ Shared!HasSuffix(t) = HasSuffix(t)
         /\ Shared!SuffixOf(t) = SuffixOf(t)
         /\ Shared!WithTld(o, t) = WithTld(o, t)
         /\ Shared!Suffixed(m, o, r, t) = Entered(m, o, r, t)
<1>1. Shared!PlainKeys(m) = PlainKeys(m)
  BY DEF Shared!PlainKeys, PlainKeys, Shared!HasDot, HasDot
<1>2. Shared!Exact(m, o) = Exact(m, o)
  BY <1>1 DEF Shared!Exact, Exact
<1>3. Shared!Folded(m, o) = Folded(m, o)
  BY <1>1 DEF Shared!Folded, Folded, Shared!SameFold, SameFold
<1>4. ASSUME NEW v, NEW w PROVE Shared!MatchCasing(v, w) = MatchCasing(v, w)
  BY DEF Shared!MatchCasing, MatchCasing
<1>5. Shared!Generated(m, o) = Generated(m, o)
  BY <1>1, <1>4 DEF Shared!Generated, Generated, Shared!Lower, Lower, Shared!NameLength, NameLength
<1>6. Shared!Fresh(m, o, full) = Fresh(m, o, full)
  BY <1>5 DEF Shared!Fresh, Fresh
<1>7. Shared!Replacements(m, o, full) = Replacements(m, o, full)
  BY <1>2, <1>3, <1>4, <1>6 DEF Shared!Replacements, Replacements
<1>8. Shared!Recorded(m, o, r) = Recorded(m, o, r)
  BY <1>2 DEF Shared!Recorded, Recorded, Shared!Put, Put
<1>9. Shared!HasSuffix(t) = HasSuffix(t) /\ Shared!SuffixOf(t) = SuffixOf(t)
  BY DEF Shared!HasSuffix, HasSuffix, Shared!SuffixOf, SuffixOf
<1>10. ASSUME NEW v, NEW u PROVE Shared!WithTld(v, u) = WithTld(v, u)
  BY DEF Shared!WithTld, WithTld
<1>11. Shared!Suffixed(m, o, r, t) = Entered(m, o, r, t)
  BY <1>9, <1>10 DEF Shared!Suffixed, Entered, Shared!Put, Put
<1> QED BY <1>1, <1>2, <1>3, <1>4, <1>6, <1>7, <1>8, <1>9, <1>10, <1>11

\* The word a filter has come to is one it may ask for, with this full input: it
\* is a word of the text, or what a filter before it put in.
LEMMA MayAsk ==
  ASSUME Inv, AtWord
  PROVE  /\ text[pos].word \in Shared!Requests
         /\ FullInput(plain) \in Shared!FullInputs(text[pos].word)
<1>1. plain \in Texts /\ pos \in DOMAIN text /\ pos \in DOMAIN plain
  BY DEF AtWord, Inv, TypeOK
<1>2. FullInput(plain) \in {FullInput(t) : t \in Texts}
  BY <1>1
<1>3. plain[pos].word \in FullInput(plain)
  BY <1>1 DEF FullInput
<1>4. plain[pos].word \in UNION {FullInput(t) : t \in Texts}
  BY <1>2, <1>3
<1>5. Shared!PlainKeys(table) = PlainKeys(table)
  BY SharedOperators
<1>6. CASE text[pos].word \in PlainKeys(table)
  <2>1. text[pos].word \in DOMAIN table
    BY <1>6 DEF PlainKeys
  <2> QED BY <1>2, <1>5, <1>6, <2>1 DEF Shared!Requests, Shared!FullInputs
<1>7. CASE text[pos].word = plain[pos].word
  BY <1>2, <1>3, <1>4, <1>7 DEF Shared!Requests, Shared!FullInputs
<1> QED BY <1>1, <1>6, <1>7 DEF Inv, Traced

LEMMA ReplaceNameIsShared ==
  ASSUME Inv, ReplaceName
  PROVE  Shared!Next
<1> DEFINE o == text[pos].word
           full == FullInput(plain)
<1>1. PICK r \in Replacements(table, o, full) :
        /\ table' = Recorded(table, o, r)
        /\ handed' = handed \union {<<o, r>>}
  BY DEF ReplaceName
<1>2. o \in Shared!Requests /\ full \in Shared!FullInputs(o)
  BY MayAsk DEF ReplaceName
<1> HIDE DEF o, full
<1>3. Shared!RedactName(o, full, r)
  BY <1>1, SharedOperators DEF Shared!RedactName
<1>4. Shared!Reuse(o, full) \/ Shared!Recase(o, full) \/ Shared!Generate(o, full)
  <2>1. CASE Exact(table, o) # {}
    <3>1. r \in Exact(table, o)
      BY <1>1, <2>1 DEF Replacements
    <3>2. r \in Shared!Exact(table, o)
      BY <3>1, SharedOperators
    <3> QED BY <1>3, <3>2 DEF Shared!Reuse
  <2>2. CASE Exact(table, o) = {} /\ Folded(table, o) # {}
    <3>1. r \in {MatchCasing(o, k) : k \in Folded(table, o)}
      BY <1>1, <2>2 DEF Replacements
    <3>2. Shared!Exact(table, o) = {} /\ r \in {Shared!MatchCasing(o, k) : k \in Shared!Folded(table, o)}
      BY <2>2, <3>1, SharedOperators
    <3> QED BY <1>3, <3>2 DEF Shared!Recase
  <2>3. CASE Exact(table, o) = {} /\ Folded(table, o) = {}
    <3>1. r \in Fresh(table, o, full)
      BY <1>1, <2>3 DEF Replacements
    <3>2. Shared!Folded(table, o) = {} /\ r \in Shared!Fresh(table, o, full)
      BY <2>3, <3>1, SharedOperators
    <3> QED BY <1>3, <3>2 DEF Shared!Generate
  <2> QED BY <2>1, <2>2, <2>3
<1> QED BY <1>2, <1>4 DEF Shared!Next

LEMMA ReplaceWithTldIsShared ==
  ASSUME Inv, ReplaceWithTld
  PROVE  Shared!Next
<1> DEFINE o == text[pos].word
           t == text[pos].tld
           full == FullInput(plain)
<1>1. PICK r \in Replacements(table, o, full) :
        /\ table' = Entered(Recorded(table, o, r), o, r, t)
        /\ handed' = handed \union {<<o, r>>, <<WithTld(o, t), WithTld(r, SuffixOf(t))>>}
  BY DEF ReplaceWithTld
<1>2. o \in Shared!Requests /\ full \in Shared!FullInputs(o)
  BY MayAsk DEF ReplaceWithTld
<1>3. t \in Tld /\ HasSuffix(t)
  <2>1. text[pos] \in Token
    BY Known DEF ReplaceWithTld, AtWord
  <2> QED BY <2>1 DEF ReplaceWithTld, TakesSuffix, Token
<1> HIDE DEF o, t, full
<1>4. /\ r \in Shared!Replacements(table, o, full)
      /\ Shared!HasSuffix(t)
      /\ table' = Shared!Suffixed(Shared!Recorded(table, o, r), o, r, t)
      /\ handed' = handed \union {<<o, r>>, <<Shared!WithTld(o, t), Shared!WithTld(r, Shared!SuffixOf(t))>>}
  BY <1>1, <1>3, SharedOperators
<1>5. Shared!RedactWithTld(o, t, full)
  BY <1>4 DEF Shared!RedactWithTld
<1> QED BY <1>2, <1>3, <1>5 DEF Shared!Next

\* Whatever the enabled filters do to the table they share is what one request
\* after the other may do to it: what ReplacementTable promises, such as that no
\* entry is rebound, holds of the composite filter.
THEOREM FiltersShareTheTable == Spec => SharedSpec
<1>1. Init => Shared!Init
  BY DEF Init, Shared!Init
<1>2. Inv /\ [Next]_vars => [Shared!Next]_Shared!vars
  <2> SUFFICES ASSUME Inv, [Next]_vars PROVE Shared!Next \/ UNCHANGED Shared!vars
    OBVIOUS
  <2>1. CASE ReplaceName
    BY <2>1, ReplaceNameIsShared
  <2>2. CASE ReplaceWithTld
    BY <2>2, ReplaceWithTldIsShared
  <2>3. ASSUME NEW t \in Texts, Receive(t) PROVE UNCHANGED Shared!vars
    BY <2>3 DEF Receive, Shared!vars
  <2>4. CASE PassWord
    BY <2>4 DEF PassWord, Shared!vars
  <2>5. CASE PassFilter
    BY <2>5 DEF PassFilter, Shared!vars
  <2>6. CASE UNCHANGED vars
    BY <2>6 DEF vars, Shared!vars
  <2> QED BY <2>1, <2>2, <2>3, <2>4, <2>5, <2>6 DEF Next
<1> QED BY <1>1, <1>2, Invariance, PTL DEF Spec, SharedSpec, Shared!Spec

-----------------------------------------------------------------------------
(***************************************************************************)
(* What Redact makes of a text, Unredact takes back, under the             *)
(* circumstances of ReplacementTable!Ideal.                                *)
(*                                                                         *)
(* Up to three filters replace a word, each what the one before it put in. *)
(* The invariant follows a word through them: the table has an entry from  *)
(* each filter that found a name to what it found, so that the passes of   *)
(* Unredact, of which there are as many, lead back step by step.           *)
(***************************************************************************)

\* What each filter looks for.
Finds(f, kind, w) ==
  \/ f = "username" /\ w.stem \in UserNames
  \/ f = "email" /\ kind # "word"
  \/ f = "host" /\ w.stem \in HostNames

\* An enabled filter has seen word i.
Seen(f, i) == f \in enabled /\ Passed(f, i)

\* The filter f, at word i, was given v and left w.
Mapped(f, i, v, w) ==
  \/ /\ Seen(f, i) /\ Finds(f, plain[i].kind, v)
     /\ w \in PlainKeys(table) /\ table[w] = v
  \/ ~(Seen(f, i) /\ Finds(f, plain[i].kind, v)) /\ w = v

\* The mail filter has replaced a top level domain at word i.
Suffixed(i) == Seen("email", i) /\ TakesSuffix("email", plain[i])

\* The mail filter, at word i, was given v and left w: the top level domain.
Ended(i, v, w) ==
  \/ /\ Suffixed(i)
     /\ text[i].tld = SuffixOf(plain[i].tld)
     /\ WithTld(w, SuffixOf(plain[i].tld)) \in DOMAIN table
     /\ table[WithTld(w, SuffixOf(plain[i].tld))] = WithTld(v, plain[i].tld)
  \/ ~Suffixed(i) /\ text[i].tld = plain[i].tld

\* Word i as the filters found it one after the other.
Traceable(i) ==
  \E v, w \in PlainKeys(table) \union {plain[i].word} :
    /\ Mapped("username", i, plain[i].word, v)
    /\ Mapped("email", i, v, w)
    /\ Mapped("host", i, w, text[i].word)
    /\ Ended(i, v, w)

Back ==
  /\ GoodTable(table)
  /\ \A i \in DOMAIN text : Traceable(i)

BackInv == Inv /\ Back /\ enabled # {}

-----------------------------------------------------------------------------
(***************************************************************************)
(* Lemmas.                                                                 *)
(***************************************************************************)

\* What Ideal says of the generator, of the texts and of the first tables.
LEMMA IdealFacts ==
  ASSUME Shared!Ideal
  PROVE  /\ ~CaseClash
         /\ \A t, u \in Tld : HasSuffix(t) /\ HasSuffix(u) /\ SuffixOf(t) = SuffixOf(u) => t = u
         /\ \A m \in Prefill : GoodTable(m)
         /\ \A t \in Texts : \A w \in FullInput(t) : Length[w.stem] <= MaxLength
<1>1. ASSUME NEW m \in Prefill PROVE GoodTable(m)
  <2>1. Shared!WellFormed(m)
    BY DEF Shared!Ideal
  <2>2. \A k \in DOMAIN m : k \in Word /\ m[k] \in Word
    BY PiiFilterAssumption
  <2> QED BY <2>1, <2>2 DEF Shared!WellFormed, Shared!HasDot, Shared!CasedLike, Shared!SameFold,
       GoodTable, PlainEntries, Families, Functional, SuffixedEntries, PlainKeys, HasDot,
       CasedLike, SameFold
<1>2. \A t, u \in Tld : HasSuffix(t) /\ HasSuffix(u) /\ SuffixOf(t) = SuffixOf(u) => t = u
  BY SharedOperators DEF Shared!Ideal
<1> QED BY <1>1, <1>2 DEF Shared!Ideal

\* Matches by the parts of the word.
LEMMA FindsFacts ==
  ASSUME NEW f \in AllFilters, NEW token
  PROVE  Matches(f, token) <=> Finds(f, token.kind, token.word)
<1>1. f = "username" \/ f = "email" \/ f = "host"
  BY DEF AllFilters
<1> QED BY <1>1, MatchesFacts DEF Finds

\* Only the last label of a domain has a top level domain.
LEMMA PlainFacts ==
  ASSUME Inv
  PROVE  \A i \in DOMAIN plain :
           /\ plain[i] \in Token /\ plain[i].word \in Word /\ plain[i].word.tld = NoTld
           /\ plain[i].tld \in Tld \union {NoTld}
           /\ plain[i].tld # NoTld => plain[i].kind = "last"
<1>1. \A i \in DOMAIN plain : plain[i] \in Token /\ plain[i].word \in Word /\ plain[i].word.tld = NoTld
  BY TextFacts DEF Inv
<1>2. \A i \in DOMAIN plain : plain[i].tld # NoTld => plain[i].kind = "last"
  <2>1. CASE plain = <<>>
    <3>1. DOMAIN <<>> = {}
      OBVIOUS
    <3> QED BY <2>1, <3>1
  <2>2. CASE plain \in Texts
    <3>1. IsText(plain)
      BY <2>2, PiiFilterAssumption
    <3> QED BY <3>1, Zenon DEF IsText
  <2> QED BY <2>1, <2>2 DEF Inv
<1> QED BY <1>1, <1>2 DEF Token

\* What may be asked for is a plain name within the length limit.
LEMMA AskedFacts ==
  ASSUME Shared!Ideal, BackInv, AtWord
  PROVE  /\ text[pos].word \in Word /\ text[pos].word.tld = NoTld
         /\ Length[text[pos].word.stem] <= MaxLength
<1>1. /\ plain \in Texts /\ pos \in DOMAIN text /\ pos \in DOMAIN plain
      /\ text[pos].word \in Word /\ text[pos].word.tld = NoTld
  BY Known DEF AtWord, BackInv, Inv, TypeOK
<1>2. CASE text[pos].word \in PlainKeys(table)
  BY <1>1, <1>2 DEF BackInv, Back, GoodTable, PlainEntries
<1>3. CASE text[pos].word = plain[pos].word
  BY <1>1, <1>3, IdealFacts DEF FullInput
<1> QED BY <1>1, <1>2, <1>3 DEF BackInv, Inv, Traced

\* What was done at a word stays done while the table grows.
LEMMA MappedKept ==
  ASSUME NEW f, NEW i, NEW v, NEW w, Mapped(f, i, v, w),
         Seen(f, i)' <=> Seen(f, i), ExtendedBy(table, table'), plain' = plain
  PROVE  Mapped(f, i, v, w)'
BY DEF Mapped, ExtendedBy, PlainKeys

LEMMA EndedKept ==
  ASSUME NEW i, NEW v, NEW w, Ended(i, v, w),
         Seen("email", i)' <=> Seen("email", i), ExtendedBy(table, table'),
         plain' = plain, text'[i].tld = text[i].tld
  PROVE  Ended(i, v, w)'
<1>1. Suffixed(i)' <=> Suffixed(i)
  BY DEF Suffixed
<1> QED BY <1>1 DEF Ended, ExtendedBy

LEMMA TraceableKept ==
  ASSUME NEW i, Traceable(i), ExtendedBy(table, table'), plain' = plain, text'[i] = text[i],
         \A f \in AllFilters : Seen(f, i)' <=> Seen(f, i)
  PROVE  Traceable(i)'
<1>1. PICK v \in PlainKeys(table) \union {plain[i].word},
           w \in PlainKeys(table) \union {plain[i].word} :
        /\ Mapped("username", i, plain[i].word, v)
        /\ Mapped("email", i, v, w)
        /\ Mapped("host", i, w, text[i].word)
        /\ Ended(i, v, w)
  BY DEF Traceable
<1>2. \A f \in {"username", "email", "host"} : Seen(f, i)' <=> Seen(f, i)
  BY DEF AllFilters
<1>3. /\ v \in PlainKeys(table') \union {plain'[i].word}
      /\ w \in PlainKeys(table') \union {plain'[i].word}
  BY DEF PlainKeys, ExtendedBy
<1>4. Mapped("username", i, plain[i].word, v)'
  BY <1>1, <1>2 DEF Mapped, ExtendedBy, PlainKeys
<1>5. Mapped("email", i, v, w)'
  BY <1>1, <1>2, MappedKept
<1>6. Mapped("host", i, w, text[i].word)'
  BY <1>1, <1>2 DEF Mapped, ExtendedBy, PlainKeys
<1>7. Ended(i, v, w)'
  BY <1>1, <1>2, EndedKept
<1> QED BY <1>3, <1>4, <1>5, <1>6, <1>7 DEF Traceable

-----------------------------------------------------------------------------
(***************************************************************************)
(* The invariant is inductive.                                             *)
(***************************************************************************)

LEMMA BackInit ==
  ASSUME Shared!Ideal, Init
  PROVE  Back
<1>1. text = <<>> /\ DOMAIN <<>> = {}
  BY DEF Init
<1> QED BY <1>1, IdealFacts DEF Init, Back

\* A text comes in: no filter has seen it.
LEMMA ReceiveBack ==
  ASSUME BackInv, NEW t \in Texts, Receive(t)
  PROVE  Back'
<1>1. /\ stage' = "username" /\ pos' = 1 /\ text' = t /\ plain' = t
      /\ table' = table /\ enabled' = enabled
  BY DEF Receive
<1>2. DOMAIN t = 1 .. Len(t) /\ Len(t) \in Nat
  BY TextFacts
<1>3. ASSUME NEW i \in DOMAIN t PROVE Traceable(i)'
  <2>1. \A f \in AllFilters : ~Seen(f, i)'
    BY <1>1, <1>2, <1>3 DEF Seen, Passed, AllFilters
  <2>2. ~Seen("username", i)' /\ ~Seen("email", i)' /\ ~Seen("host", i)'
    BY <2>1 DEF AllFilters
  <2> DEFINE v == t[i].word
  <2>3. /\ Mapped("username", i, plain[i].word, v)'
        /\ Mapped("email", i, v, v)'
        /\ Mapped("host", i, v, text[i].word)'
    BY <1>1, <2>2 DEF Mapped
  <2>4. Ended(i, v, v)'
    BY <1>1, <2>2 DEF Ended, Suffixed
  <2>5. v \in (PlainKeys(table) \union {plain[i].word})'
    BY <1>1
  <2> QED BY <2>3, <2>4, <2>5 DEF Traceable
<1> QED BY <1>1, <1>3 DEF BackInv, Back

\* The filters that have seen the word they have come to, before and after.
LEMMA SeenFacts ==
  ASSUME Inv, AtWord, NEW p, p = pos, stage \in enabled, pos' = pos + 1, enabled' = enabled, stage' = stage
  PROVE  /\ \A i \in DOMAIN text \ {p} : \A f \in AllFilters : Seen(f, i)' <=> Seen(f, i)
         /\ stage = "username" => /\ ~Seen("username", p) /\ Seen("username", p)'
                                  /\ ~Seen("email", p) /\ ~Seen("email", p)'
                                  /\ ~Seen("host", p) /\ ~Seen("host", p)'
         /\ stage = "email" => /\ Seen("username", p)' <=> Seen("username", p)
                               /\ ~Seen("email", p) /\ Seen("email", p)'
                               /\ ~Seen("host", p) /\ ~Seen("host", p)'
         /\ stage = "host" => /\ Seen("username", p)' <=> Seen("username", p)
                              /\ Seen("email", p)' <=> Seen("email", p)
                              /\ ~Seen("host", p) /\ Seen("host", p)'
<1>1. pos \in Nat /\ DOMAIN text \subseteq Nat /\ stage # "done"
  BY Known DEF AtWord
<1>2. ASSUME NEW i \in DOMAIN text \ {p}, NEW f PROVE Seen(f, i)' <=> Seen(f, i)
  BY <1>1 DEF Seen, Passed
<1>3. CASE stage = "username"
  BY <1>1, <1>2, <1>3 DEF Seen, Passed
<1>4. CASE stage = "email"
  <2>1. Seen("username", p)' <=> Seen("username", p)
    BY <1>1, <1>4 DEF Seen, Passed
  <2>2. ~Seen("email", p) /\ Seen("email", p)' /\ ~Seen("host", p) /\ ~Seen("host", p)'
    BY <1>1, <1>4 DEF Seen, Passed
  <2> QED BY <1>2, <1>4, <2>1, <2>2
<1>5. CASE stage = "host"
  <2>1. /\ Seen("username", p)' <=> Seen("username", p)
        /\ Seen("email", p)' <=> Seen("email", p)
    BY <1>1, <1>5 DEF Seen, Passed
  <2>2. ~Seen("host", p) /\ Seen("host", p)'
    BY <1>1, <1>5 DEF Seen, Passed
  <2> QED BY <1>2, <1>5, <2>1, <2>2
<1> QED BY <1>2, <1>3, <1>4, <1>5

\* The filter whose turn it is leaves the token u at the word it has come to.
LEMMA WordMoves ==
  ASSUME BackInv, AtWord, NEW p, p = pos, stage \in enabled, NEW u,
         GoodTable(table'), ExtendedBy(table, table'),
         DOMAIN text' = DOMAIN text, \A i \in DOMAIN text : i # p => text'[i] = text[i],
         text'[p] = u,
         NEW v, v = text[p].word, NEW r, r = u.word, NEW t, t = text[p].tld,
         \/ Finds(stage, plain[p].kind, v) /\ r \in PlainKeys(table') /\ table'[r] = v
         \/ ~Finds(stage, plain[p].kind, v) /\ r = v,
         \/ /\ TakesSuffix(stage, text[p])
            /\ u.tld = SuffixOf(t)
            /\ WithTld(r, SuffixOf(t)) \in DOMAIN table'
            /\ table'[WithTld(r, SuffixOf(t))] = WithTld(v, t)
         \/ ~TakesSuffix(stage, text[p]) /\ u.tld = t,
         pos' = pos + 1, enabled' = enabled, stage' = stage, plain' = plain
  PROVE  Back'
<1>1. Inv /\ p \in DOMAIN text /\ Traceable(p)
  BY DEF BackInv, AtWord, Back
<1>2. ASSUME NEW i \in DOMAIN text, i # p PROVE Traceable(i)'
  BY <1>1, <1>2, SeenFacts, TraceableKept DEF BackInv, Back
<1>3. PICK v1 \in PlainKeys(table) \union {plain[p].word},
           v2 \in PlainKeys(table) \union {plain[p].word} :
        /\ Mapped("username", p, plain[p].word, v1)
        /\ Mapped("email", p, v1, v2)
        /\ Mapped("host", p, v2, text[p].word)
        /\ Ended(p, v1, v2)
  BY <1>1 DEF Traceable
<1>4. PlainKeys(table) \subseteq PlainKeys(table')
  BY DEF PlainKeys, ExtendedBy
<1>5. r \in PlainKeys(table') \union {v}
  OBVIOUS
<1> DEFINE o == plain[p].word
<1>6. ASSUME stage = "username" PROVE Traceable(p)'
  <2>1. v = o
    BY <1>1, <1>3, <1>6, SeenFacts DEF Mapped
  <2>2. /\ Mapped("username", p, o, r)'
        /\ Mapped("email", p, r, r)'
        /\ Mapped("host", p, r, text[p].word)'
    BY <1>1, <1>6, <2>1, SeenFacts DEF Mapped
  <2>3. Ended(p, r, r)'
    BY <1>1, <1>3, <1>6, SeenFacts DEF Ended, Suffixed, TakesSuffix
  <2>4. r \in (PlainKeys(table) \union {o})'
    BY <1>5, <2>1
  <2> QED BY <2>2, <2>3, <2>4 DEF Traceable
<1>7. ASSUME stage = "email" PROVE Traceable(p)'
  <2>1. v = v1 /\ t = plain[p].tld
    BY <1>1, <1>3, <1>7, SeenFacts DEF Mapped, Ended, Suffixed
  <2>2. Mapped("username", p, o, v1)'
    BY <1>1, <1>3, <1>7, SeenFacts, <1>4 DEF Mapped, ExtendedBy, PlainKeys
  <2>3. Mapped("email", p, v1, r)' /\ Mapped("host", p, r, text[p].word)'
    BY <1>1, <1>7, <2>1, SeenFacts DEF Mapped
  <2>4. Ended(p, v1, r)'
    BY <1>1, <1>7, <2>1, SeenFacts DEF Ended, Suffixed, TakesSuffix
  <2>5. /\ r \in (PlainKeys(table) \union {o})'
        /\ v1 \in (PlainKeys(table) \union {o})'
    BY <1>1, <1>3, <1>4, <1>5, <2>1
  <2> QED BY <2>2, <2>3, <2>4, <2>5 DEF Traceable
<1>8. ASSUME stage = "host" PROVE Traceable(p)'
  <2>1. v = v2
    BY <1>1, <1>3, <1>8, SeenFacts DEF Mapped
  <2>2. Mapped("username", p, o, v1)'
    BY <1>1, <1>3, <1>8, SeenFacts, <1>4 DEF Mapped, ExtendedBy, PlainKeys
  <2>3. Mapped("email", p, v1, v2)'
    BY <1>1, <1>3, <1>8, SeenFacts, MappedKept
  <2>4. Mapped("host", p, v2, text[p].word)'
    BY <1>1, <1>8, <2>1, SeenFacts DEF Mapped
  <2>5. text'[p].tld = text[p].tld
    BY <1>8 DEF TakesSuffix
  <2>6. Ended(p, v1, v2)'
    BY <1>1, <1>3, <1>8, <2>5, SeenFacts, EndedKept
  <2>7. /\ v1 \in (PlainKeys(table) \union {o})'
        /\ v2 \in (PlainKeys(table) \union {o})'
    BY <1>1, <1>3, <1>4
  <2> QED BY <2>2, <2>3, <2>4, <2>6, <2>7 DEF Traceable
<1>9. stage = "username" \/ stage = "email" \/ stage = "host"
  BY <1>1 DEF Inv, TypeOK, AtWord, AllFilters
<1>10. Traceable(p)'
  BY <1>6, <1>7, <1>8, <1>9
<1> QED BY <1>2, <1>10 DEF Back

LEMMA ReplaceNameBack ==
  ASSUME Shared!Ideal, BackInv, ReplaceName
  PROVE  Back'
<1> DEFINE o == text[pos].word
           u == text'[pos]
<1>1. /\ AtWord /\ stage \in enabled /\ Matches(stage, text[pos]) /\ ~TakesSuffix(stage, text[pos])
      /\ pos' = pos + 1 /\ enabled' = enabled /\ stage' = stage /\ plain' = plain
      /\ pos \in DOMAIN text
  BY DEF ReplaceName, AtWord
<1>2. PICK r \in Replacements(table, o, FullInput(plain)) :
        /\ table' = Recorded(table, o, r)
        /\ text' = [text EXCEPT ![pos].word = r]
  BY DEF ReplaceName
<1>3. table' = Recorded(table, o, r)
  BY <1>2
<1>4. /\ DOMAIN text' = DOMAIN text /\ \A i \in DOMAIN text : i # pos => text'[i] = text[i]
      /\ u = [text[pos] EXCEPT !.word = r]
  BY <1>1, <1>2
<1>5. text[pos] \in Token
  BY <1>1, Known DEF BackInv
<1>6. u.word = r /\ u.tld = text[pos].tld
  BY <1>4, <1>5 DEF Token
<1>7. o \in Word /\ o.tld = NoTld /\ Length[o.stem] <= MaxLength
  BY <1>1, AskedFacts
<1>8. Finds(stage, plain[pos].kind, o)
  BY <1>1, FindsFacts DEF BackInv, Inv, TypeOK
<1> HIDE DEF o
<1>9. /\ GoodTable(Recorded(table, o, r)) /\ ExtendedBy(table, Recorded(table, o, r))
      /\ r \in PlainKeys(Recorded(table, o, r)) /\ Recorded(table, o, r)[r] = o
  BY <1>7, GetReplacementIsGood, IdealFacts DEF BackInv, Back
<1>10. /\ GoodTable(table') /\ ExtendedBy(table, table')
       /\ r \in PlainKeys(table') /\ table'[r] = o
  BY <1>3, <1>9
<1>11. DOMAIN text' = DOMAIN text /\ \A i \in DOMAIN text : i # pos => text'[i] = text[i]
  BY <1>4
<1>12. o = text[pos].word
  BY DEF o
<1> HIDE DEF u
<1>13. text'[pos] = u
  BY DEF u
<1> QED BY <1>1, <1>6, <1>8, <1>10, <1>11, <1>12, <1>13, WordMoves

LEMMA ReplaceWithTldBack ==
  ASSUME Shared!Ideal, BackInv, ReplaceWithTld
  PROVE  Back'
<1> DEFINE o == text[pos].word
           t == text[pos].tld
           u == text'[pos]
<1>1. /\ AtWord /\ stage \in enabled /\ Matches(stage, text[pos]) /\ TakesSuffix(stage, text[pos])
      /\ pos' = pos + 1 /\ enabled' = enabled /\ stage' = stage /\ plain' = plain
      /\ pos \in DOMAIN text
  BY DEF ReplaceWithTld, AtWord
<1>2. PICK r \in Replacements(table, o, FullInput(plain)) :
        /\ table' = Entered(Recorded(table, o, r), o, r, t)
        /\ text' = [text EXCEPT ![pos] = Addressed(text[pos], r)]
  BY DEF ReplaceWithTld
<1> DEFINE m == Recorded(table, o, r)
<1>3. table' = Put(m, WithTld(r, SuffixOf(t)), WithTld(o, t))
  BY <1>2 DEF Entered
<1>4. /\ DOMAIN text' = DOMAIN text /\ \A i \in DOMAIN text : i # pos => text'[i] = text[i]
      /\ u = Addressed(text[pos], r)
  BY <1>1, <1>2
<1>5. text[pos] \in Token
  BY <1>1, Known DEF BackInv
<1>6. u.word = r /\ u.tld = SuffixOf(t)
  BY <1>4, <1>5 DEF Token, Addressed
<1>7. o \in Word /\ o.tld = NoTld /\ Length[o.stem] <= MaxLength
  BY <1>1, AskedFacts
<1>8. t \in Tld /\ HasSuffix(t)
  BY <1>1, <1>5 DEF Token, TakesSuffix
<1>9. Finds(stage, plain[pos].kind, o)
  BY <1>1, FindsFacts DEF BackInv, Inv, TypeOK
<1>10. /\ GoodTable(m) /\ ExtendedBy(table, m)
       /\ r \in PlainKeys(m) /\ m[r] = o
  <2> HIDE DEF o
  <2> QED BY <1>7, GetReplacementIsGood, IdealFacts DEF BackInv, Back
<1>11. \A x \in Tld : HasSuffix(x) /\ SuffixOf(t) = SuffixOf(x) => t = x
  BY <1>8, IdealFacts
<1> HIDE DEF o, t, m
<1>12. /\ GoodTable(table') /\ ExtendedBy(m, table')
       /\ WithTld(r, SuffixOf(t)) \in DOMAIN table'
       /\ table'[WithTld(r, SuffixOf(t))] = WithTld(o, t)
  BY <1>3, <1>7, <1>8, <1>10, <1>11, SuffixedIsGood
<1>13. ExtendedBy(table, table') /\ r \in PlainKeys(table') /\ table'[r] = o
  BY <1>10, <1>12 DEF ExtendedBy, PlainKeys
<1>14. DOMAIN text' = DOMAIN text /\ \A i \in DOMAIN text : i # pos => text'[i] = text[i]
  BY <1>4
<1>15. o = text[pos].word /\ t = text[pos].tld
  BY DEF o, t
<1> HIDE DEF u
<1>16. text'[pos] = u
  BY DEF u
<1> QED BY <1>1, <1>6, <1>9, <1>12, <1>13, <1>14, <1>15, <1>16, WordMoves

LEMMA PassWordBack ==
  ASSUME BackInv, PassWord
  PROVE  Back'
<1>1. /\ AtWord /\ stage \in enabled /\ ~Matches(stage, text[pos]) /\ pos \in DOMAIN text
      /\ pos' = pos + 1 /\ enabled' = enabled /\ stage' = stage /\ plain' = plain
      /\ table' = table /\ text' = text
  BY DEF PassWord, AtWord
<1>2. stage \in AllFilters /\ text[pos].kind = plain[pos].kind
  BY <1>1 DEF BackInv, Inv, TypeOK
<1>3. ~Finds(stage, plain[pos].kind, text[pos].word)
  BY <1>1, <1>2, FindsFacts
<1>4. ~TakesSuffix(stage, text[pos])
  <2> SUFFICES ASSUME TakesSuffix(stage, text[pos]) PROVE FALSE
    OBVIOUS
  <2>1. stage = "email" /\ text[pos].tld # NoTld /\ plain[pos].kind = "word"
    BY <1>3 DEF TakesSuffix, Finds
  <2>2. Inv /\ pos \in DOMAIN plain /\ plain[pos].tld = NoTld
    BY <1>1, <2>1, PlainFacts DEF BackInv, Inv, TypeOK
  <2>3. PICK v, w : Ended(pos, v, w)
    BY <1>1 DEF BackInv, Back, Traceable
  <2>4. text[pos].tld = plain[pos].tld
    BY <2>2, <2>3 DEF Ended, Suffixed, TakesSuffix
  <2> QED BY <2>1, <2>2, <2>4
<1>5. GoodTable(table') /\ ExtendedBy(table, table')
  BY <1>1 DEF BackInv, Back, ExtendedBy
<1>6. /\ DOMAIN text' = DOMAIN text /\ \A i \in DOMAIN text : i # pos => text'[i] = text[i]
      /\ text'[pos] = text[pos]
  BY <1>1
<1> QED BY <1>1, <1>3, <1>4, <1>5, <1>6, WordMoves

LEMMA PassFilterBack ==
  ASSUME BackInv, PassFilter
  PROVE  Back'
<1>1. /\ stage # "done" /\ stage \in AllFilters /\ stage' = NextStage(stage) /\ pos' = 1
      /\ stage \notin enabled \/ pos \notin DOMAIN text
      /\ enabled' = enabled /\ table' = table /\ text' = text /\ plain' = plain
      /\ enabled \subseteq AllFilters
      /\ pos \in 1 .. Len(plain) + 1 /\ Len(plain) \in Nat /\ DOMAIN text = 1 .. Len(plain)
  BY Known DEF PassFilter, BackInv, Inv, TypeOK
<1>2. \/ stage = "username" /\ stage' = "email"
      \/ stage = "email" /\ stage' = "host"
      \/ stage = "host" /\ stage' = "done"
  BY <1>1, StageOrder DEF AllFilters
<1>3. ASSUME NEW i \in DOMAIN text, NEW f \in AllFilters PROVE Seen(f, i)' <=> Seen(f, i)
  BY <1>1, <1>2 DEF Seen, Passed, AllFilters
<1>4. ExtendedBy(table, table')
  BY <1>1 DEF ExtendedBy
<1>5. ASSUME NEW i \in DOMAIN text PROVE Traceable(i)'
  BY <1>1, <1>3, <1>4, TraceableKept DEF BackInv, Back
<1> QED BY <1>1, <1>5 DEF BackInv, Back

LEMMA BackStep == ASSUME Shared!Ideal, BackInv, [Next]_vars PROVE BackInv'
<1>1. Inv'
  BY Inductive DEF BackInv
<1>2. Back'
  <2>1. ASSUME NEW t \in Texts, Receive(t) PROVE Back'
    BY <2>1, ReceiveBack
  <2>2. CASE ReplaceName
    BY <2>2, ReplaceNameBack
  <2>3. CASE ReplaceWithTld
    BY <2>3, ReplaceWithTldBack
  <2>4. CASE PassWord
    BY <2>4, PassWordBack
  <2>5. CASE PassFilter
    BY <2>5, PassFilterBack
  <2>6. CASE UNCHANGED vars
    BY <2>6 DEF vars, BackInv, Back, Traceable, Mapped, Ended, Suffixed, Seen, Passed
  <2> QED BY <2>1, <2>2, <2>3, <2>4, <2>5, <2>6 DEF Next
<1>3. enabled' = enabled
  BY DEF Next, Receive, ReplaceName, ReplaceWithTld, PassWord, PassFilter, vars
<1> QED BY <1>1, <1>2, <1>3 DEF BackInv

LEMMA BackInvariance == ASSUME Shared!Ideal PROVE Spec => []BackInv
<1>1. ASSUME Init PROVE BackInv
  <2>1. Inv /\ Back
    BY <1>1, InvInit, BackInit
  <2>2. enabled # {}
    BY <1>1 DEF Init
  <2> QED BY <2>1, <2>2 DEF BackInv
<1>2. BackInv /\ [Next]_vars => BackInv'
  BY BackStep
<1> QED BY <1>1, <1>2, PTL DEF Spec

\* The model can follow a name through a text: however many filters a word went
\* through, equal words come out equal.
THEOREM NamesCanBeFollowed == ASSUME Shared!Ideal PROVE Spec => []Linkable
<1>1. ASSUME BackInv PROVE Linkable
  <2> SUFFICES ASSUME stage = "done", NEW i \in DOMAIN text, NEW j \in DOMAIN text,
                      plain[i].word = plain[j].word,
                      (plain[i].kind = "word") = (plain[j].kind = "word")
               PROVE  text[i].word = text[j].word
    BY DEF Linkable
  <2>1. \A f, v : Finds(f, plain[i].kind, v) <=> Finds(f, plain[j].kind, v)
    BY DEF Finds
  <2>2. ASSUME NEW f, NEW v, NEW w, NEW x, Mapped(f, i, v, w), Mapped(f, j, v, x)
        PROVE  w = x
    <3>1. Seen(f, i) <=> Seen(f, j)
      BY DEF Seen, Passed
    <3>2. \A k, l \in PlainKeys(table) : table[k] = table[l] => k = l
      BY <1>1 DEF BackInv, Back, GoodTable, Functional
    <3> QED BY <2>1, <2>2, <3>1, <3>2 DEF Mapped
  <2>3. PICK v, w : /\ Mapped("username", i, plain[i].word, v)
                    /\ Mapped("email", i, v, w)
                    /\ Mapped("host", i, w, text[i].word)
    BY <1>1 DEF BackInv, Back, Traceable
  <2>4. PICK x, y : /\ Mapped("username", j, plain[i].word, x)
                    /\ Mapped("email", j, x, y)
                    /\ Mapped("host", j, y, text[j].word)
    BY <1>1 DEF BackInv, Back, Traceable
  <2>5. v = x
    BY <2>2, <2>3, <2>4
  <2>6. w = y
    BY <2>2, <2>3, <2>4, <2>5
  <2> QED BY <2>2, <2>3, <2>4, <2>6
<1> QED BY <1>1, BackInvariance, PTL

-----------------------------------------------------------------------------
(***************************************************************************)
(* The passes of Unredact.                                                 *)
(***************************************************************************)

Tok(kind, w, t) == [kind |-> kind, word |-> w, tld |-> t]

\* What a pass makes of a word alone.
Meant(m, w) == IF w \in DOMAIN m THEN m[w] ELSE w

\* A word without its top level domain, when the two together are no key.
LEMMA RestoreWord ==
  ASSUME NEW m, NEW kind, NEW w, NEW t, t = NoTld \/ WithTld(w, t) \notin DOMAIN m
  PROVE  Restore(m, Tok(kind, w, t)) = Tok(kind, Meant(m, w), t)
BY DEF Restore, Tok, Meant

\* The two together: the word comes back as it would alone, and the top level
\* domain with it.
LEMMA RestoreWhole ==
  ASSUME NEW m, GoodTable(m), NEW kind, NEW w \in Word, w.tld = NoTld, NEW t \in Tld,
         WithTld(w, t) \in DOMAIN m
  PROVE  LET v == m[WithTld(w, t)] IN
         /\ Restore(m, Tok(kind, w, t)) = Tok(kind, Meant(m, w), v.tld)
         /\ v.tld \in Tld /\ HasSuffix(v.tld) /\ t = SuffixOf(v.tld)
<1> DEFINE k == WithTld(w, t)
           v == m[k]
<1>1. t # NoTld
  BY WordsAssumption
<1>2. /\ k \in Word /\ k.stem = w.stem /\ k.caps = w.caps /\ k.tld = t
  BY WithTldFacts
<1>3. WithTld(k, NoTld) = w
  <2>1. /\ WithTld(k, NoTld) \in Word /\ WithTld(k, NoTld).tld = NoTld
        /\ WithTld(k, NoTld).stem = w.stem /\ WithTld(k, NoTld).caps = w.caps
    BY <1>2, WithTldFacts
  <2> QED BY <2>1, WordEquality
<1>4. Restore(m, Tok(kind, w, t)) = Tok(kind, WithTld(v, NoTld), v.tld)
  BY <1>1 DEF Restore, Tok
<1> HIDE DEF k, v
<1>5. k \in DOMAIN m /\ v = m[k]
  BY DEF k, v
<1>6. /\ w \in PlainKeys(m) /\ m[w] = WithTld(v, NoTld)
      /\ v.tld \in Tld /\ HasSuffix(v.tld) /\ t = SuffixOf(v.tld)
  BY <1>1, <1>2, <1>3, <1>5 DEF GoodTable, SuffixedEntries
<1>7. Meant(m, w) = WithTld(v, NoTld)
  BY <1>6 DEF Meant, PlainKeys
<1> QED BY <1>4, <1>6, <1>7 DEF v, k

\* A pass, if the filter is enabled.
Pass(f, u) == IF f \in enabled THEN Restore(table, u) ELSE u

\* A pass over a word whose top level domain is the text's own.
LEMMA PassPlain ==
  ASSUME BackInv, ReadsPlain, NEW i \in DOMAIN plain, NEW f, NEW w \in Word, w.tld = NoTld
  PROVE  Pass(f, Tok(plain[i].kind, w, plain[i].tld))
           = Tok(plain[i].kind, IF f \in enabled THEN Meant(table, w) ELSE w, plain[i].tld)
<1> DEFINE t == plain[i].tld
<1>1. t \in Tld \union {NoTld} /\ (\A x \in Tld : HasSuffix(x) => t # SuffixOf(x))
  BY PlainFacts DEF BackInv, ReadsPlain
<1> HIDE DEF t
<1>2. t = NoTld \/ WithTld(w, t) \notin DOMAIN table
  <2> SUFFICES ASSUME t # NoTld, WithTld(w, t) \in DOMAIN table PROVE FALSE
    OBVIOUS
  <2>1. t \in Tld /\ GoodTable(table)
    BY <1>1 DEF BackInv, Back
  <2> QED BY <1>1, <2>1, RestoreWhole
<1>3. Restore(table, Tok(plain[i].kind, w, t)) = Tok(plain[i].kind, Meant(table, w), t)
  BY <1>2, RestoreWord
<1> QED BY <1>3 DEF Pass, t

\* The passes lead a word back through the filters.
LEMMA PassesBack ==
  ASSUME Shared!Ideal, BackInv, stage = "done", CaseApart, ReadsPlain, NEW i \in DOMAIN text
  PROVE  Pass("username", Pass("email", Pass("host", text[i]))) = plain[i]
<1> DEFINE kind == plain[i].kind
           o == plain[i].word
           t == plain[i].tld
           x == text[i].word
<1>1. /\ Inv /\ GoodTable(table) /\ i \in DOMAIN plain
      /\ o \in Word /\ o.tld = NoTld /\ x \in Word /\ x.tld = NoTld
      /\ text[i] \in Token /\ plain[i] \in Token /\ text[i].kind = kind
  BY Known, PlainFacts DEF BackInv, Back, Inv, TypeOK
<1>2. text[i] = Tok(kind, x, text[i].tld) /\ plain[i] = Tok(kind, o, t)
  BY <1>1 DEF Token, Tok
<1>3. PICK v \in PlainKeys(table) \union {o}, w \in PlainKeys(table) \union {o} :
        /\ Mapped("username", i, o, v)
        /\ Mapped("email", i, v, w)
        /\ Mapped("host", i, w, x)
        /\ Ended(i, v, w)
  BY DEF BackInv, Back, Traceable
<1>4. v \in Word /\ v.tld = NoTld /\ w \in Word /\ w.tld = NoTld
  BY <1>1, <1>3 DEF GoodTable, PlainEntries, PlainKeys
<1>5. \A f : Seen(f, i) <=> f \in enabled
  BY DEF Seen, Passed
<1>6. o \notin DOMAIN table
  BY <1>1 DEF Inv, Unused, ReadsPlain, FullInput
<1>7. PlainKeys(table) \subseteq DOMAIN table
  BY DEF PlainKeys
<1> HIDE DEF o, x
<1>8. Meant(table, o) = o
  BY <1>6 DEF Meant
<1>9. Meant(table, v) = o /\ ("username" \notin enabled => v = o)
  BY <1>3, <1>5, <1>7, <1>8 DEF Mapped, Meant
<1>10. Meant(table, w) \in {v, o} /\ ("email" \notin enabled => w = v)
  BY <1>3, <1>5, <1>7, <1>8, <1>9 DEF Mapped, Meant
<1>11. \/ x = w
       \/ "host" \in enabled /\ x \in PlainKeys(table) /\ Meant(table, x) = w
  BY <1>3, <1>5, <1>7 DEF Mapped, Meant
<1>12. x = w \/ "host" \in enabled
  BY <1>11
<1> DEFINE Own(words) == {Tok(kind, u, t) : u \in words}
\* After the mail filter's pass the top level domain is the text's own again.
<1>13. ASSUME NEW u \in Own({v, o}) PROVE Pass("username", u) = Tok(kind, o, t)
  <2>1. PICK y \in {v, o} : u = Tok(kind, y, t)
    BY <1>13
  <2>2. Pass("username", u) = Tok(kind, IF "username" \in enabled THEN Meant(table, y) ELSE y, t)
    BY <1>1, <1>4, <2>1, PassPlain
  <2>3. (IF "username" \in enabled THEN Meant(table, y) ELSE y) = o
    BY <1>8, <1>9
  <2> QED BY <2>2, <2>3
<1>14. ASSUME NEW u \in Own({w, v, o}) PROVE Pass("email", u) \in Own({v, o})
  <2>1. PICK y \in {w, v, o} : u = Tok(kind, y, t)
    BY <1>14
  <2>2. Pass("email", u) = Tok(kind, IF "email" \in enabled THEN Meant(table, y) ELSE y, t)
    BY <1>1, <1>4, <2>1, PassPlain
  <2>3. (IF "email" \in enabled THEN Meant(table, y) ELSE y) \in {v, o}
    BY <1>8, <1>9, <1>10
  <2> QED BY <2>2, <2>3
<1>15. Pass("email", Pass("host", text[i])) \in Own({v, o})
  <2>1. CASE ~Suffixed(i)
    <3>1. text[i] = Tok(kind, x, t)
      BY <1>2, <1>3, <2>1 DEF Ended
    <3>2. Pass("host", text[i]) = Tok(kind, IF "host" \in enabled THEN Meant(table, x) ELSE x, t)
      BY <1>1, <3>1, PassPlain DEF x
    <3>3. (IF "host" \in enabled THEN Meant(table, x) ELSE x) \in {w, v, o}
      BY <1>10, <1>11
    <3> QED BY <1>14, <3>2, <3>3
  <2>2. CASE Suffixed(i)
    <3> DEFINE s == SuffixOf(t)
    <3>1. /\ "email" \in enabled /\ t # NoTld /\ HasSuffix(t)
          /\ text[i].tld = s /\ WithTld(w, s) \in DOMAIN table
          /\ table[WithTld(w, s)] = WithTld(v, t)
      BY <1>3, <1>5, <2>2 DEF Ended, Suffixed, TakesSuffix
    <3>2. t \in Tld /\ s \in Tld
      BY <1>1, <3>1, SuffixAssumption DEF Token, SuffixOf, HasSuffix
    <3>3. \A y \in Tld : HasSuffix(y) /\ s = SuffixOf(y) => y = t
      BY <3>1, <3>2, IdealFacts
    <3> HIDE DEF s, t
    <3>4. ASSUME NEW y \in Word, y.tld = NoTld
          PROVE  Restore(table, Tok(kind, y, s)) =
                   Tok(kind, Meant(table, y), IF WithTld(y, s) \in DOMAIN table THEN t ELSE s)
      <4>1. CASE WithTld(y, s) \in DOMAIN table
        <5>1. table[WithTld(y, s)].tld = t
          BY <1>1, <3>2, <3>3, <3>4, <4>1, RestoreWhole
        <5>2. Restore(table, Tok(kind, y, s)) = Tok(kind, Meant(table, y), table[WithTld(y, s)].tld)
          BY <1>1, <3>2, <3>4, <4>1, RestoreWhole
        <5> QED BY <4>1, <5>1, <5>2
      <4>2. CASE WithTld(y, s) \notin DOMAIN table
        BY <4>2, RestoreWord
      <4> QED BY <4>1, <4>2
    <3>5. Restore(table, Tok(kind, w, s)) = Tok(kind, Meant(table, w), t)
      BY <1>4, <3>1, <3>4
    <3>6. CASE x = w
      <4>1. CASE "host" \in enabled
        <5>1. Pass("host", text[i]) = Tok(kind, Meant(table, w), t)
          BY <1>2, <3>1, <3>5, <3>6, <4>1 DEF Pass
        <5> QED BY <1>10, <1>14, <5>1 DEF t
      <4>2. CASE "host" \notin enabled
        <5>1. Pass("host", text[i]) = Tok(kind, w, s)
          BY <1>2, <3>1, <3>6, <4>2 DEF Pass
        <5>2. Pass("email", Tok(kind, w, s)) = Tok(kind, Meant(table, w), t)
          BY <3>1, <3>5 DEF Pass
        <5> QED BY <1>10, <5>1, <5>2 DEF t
      <4> QED BY <4>1, <4>2
    <3>7. CASE x # w
      <4>1. Pass("host", text[i]) = Tok(kind, w, IF WithTld(x, s) \in DOMAIN table THEN t ELSE s)
        BY <1>1, <1>2, <1>11, <3>1, <3>4, <3>7 DEF Pass, x
      <4>2. CASE WithTld(x, s) \in DOMAIN table
        <5>1. Pass("host", text[i]) = Tok(kind, w, t)
          BY <4>1, <4>2
        <5> QED BY <1>14, <5>1 DEF t
      <4>3. CASE WithTld(x, s) \notin DOMAIN table
        <5>1. Pass("host", text[i]) = Tok(kind, w, s)
          BY <4>1, <4>3
        <5>2. Pass("email", Tok(kind, w, s)) = Tok(kind, Meant(table, w), t)
          BY <3>1, <3>5 DEF Pass
        <5> QED BY <1>10, <5>1, <5>2 DEF t
      <4> QED BY <4>2, <4>3
    <3> QED BY <3>6, <3>7
  <2> QED BY <2>1, <2>2
<1> HIDE DEF Own
<1>16. Pass("username", Pass("email", Pass("host", text[i]))) = Tok(kind, o, t)
  BY <1>13, <1>15
<1> QED BY <1>2, <1>16 DEF o

\* What Redact makes of a text, Unredact takes back, whichever filters are
\* enabled, however often a word was replaced on the way and whatever the table
\* held before: the passes, last filter first, find an entry for each filter that
\* replaced the word, and stop at the text's own words.
THEOREM TextsComeBack == ASSUME Shared!Ideal PROVE Spec => []RoundTrip
<1>1. ASSUME BackInv PROVE RoundTrip
  <2> SUFFICES ASSUME stage = "done", CaseApart, ReadsPlain
               PROVE  Unredact(table, enabled, text) = plain
    BY DEF RoundTrip
  <2>1. DOMAIN text = DOMAIN plain /\ plain = [i \in DOMAIN plain |-> plain[i]]
    <3>1. plain \in Seq(Token) /\ DOMAIN plain = 1 .. Len(plain) /\ DOMAIN text = 1 .. Len(plain)
      BY <1>1, Known DEF BackInv
    <3>2. plain \in [1 .. Len(plain) -> Token]
      BY <3>1, LenProperties
    <3> QED BY <3>1, <3>2
  <2> DEFINE pass(f, s) == IF f \in enabled THEN UnredactText(table, s) ELSE s
             host == pass("host", text)
             mail == pass("email", host)
             user == pass("username", mail)
  <2>2. ASSUME NEW f, NEW s
        PROVE  /\ DOMAIN pass(f, s) = DOMAIN s
               /\ \A i \in DOMAIN s : pass(f, s)[i] = Pass(f, s[i])
    BY DEF UnredactText, Pass
  <2>3. user = [i \in DOMAIN user |-> user[i]]
    <3>1. ASSUME NEW f, NEW s, f \in enabled
          PROVE  pass(f, s) = [i \in DOMAIN pass(f, s) |-> pass(f, s)[i]]
      BY <3>1 DEF UnredactText
    <3>2. CASE "username" \in enabled
      BY <3>1, <3>2
    <3>3. CASE "username" \notin enabled /\ "email" \in enabled
      BY <3>1, <3>3
    <3>4. CASE "username" \notin enabled /\ "email" \notin enabled
      <4>1. "host" \in enabled
        BY <1>1, <3>4 DEF BackInv, Inv, TypeOK, AllFilters
      <4> QED BY <3>1, <3>4, <4>1
    <3> QED BY <3>2, <3>3, <3>4
  <2>4. Unredact(table, enabled, text) = user
    BY DEF Unredact
  <2> HIDE DEF pass
  <2>5. DOMAIN user = DOMAIN plain
    BY <2>1, <2>2
  <2>6. ASSUME NEW i \in DOMAIN plain PROVE user[i] = plain[i]
    <3>1. user[i] = Pass("username", Pass("email", Pass("host", text[i])))
      BY <2>1, <2>2
    <3> QED BY <1>1, <2>1, <3>1, PassesBack
  <2> HIDE DEF user
  <2> QED BY <2>1, <2>3, <2>4, <2>5, <2>6
<1> QED BY <1>1, BackInvariance, PTL
-----------------------------------------------------------------------------
(***************************************************************************)
(* One filter at a text, word by word.                                     *)
(***************************************************************************)

\* A filter at the next word of a text.
OneMore(f, token, full, done) ==
  UNION {{[table |-> q.table, text |-> Append(d.text, q.token)] :
            q \in RedactWord(f, d.table, token, full)} : d \in done}

\* u[i] is what the filter may have made of the first i words.
Goes(f, m, t, full, n, u) ==
  \A i \in 0 .. n : u[i] = IF i = 0 THEN {[table |-> m, text |-> <<>>]}
                           ELSE OneMore(f, t[i], full, u[i - 1])

\* RedactPass is defined.
LEMMA PassGoes ==
  ASSUME NEW f, NEW m, NEW t, Len(t) \in Nat, NEW full
  PROVE  \E u : Goes(f, m, t, full, Len(t), u) /\ RedactPass(f, m, t, full) = u[Len(t)]
<1> DEFINE n == Len(t)
           Is(u) == u = [i \in 0 .. n |-> IF i = 0 THEN {[table |-> m, text |-> <<>>]}
                                          ELSE OneMore(f, t[i], full, u[i - 1])]
           T == {k \in 0 .. n : \E u : Goes(f, m, t, full, k, u)}
<1>1. 0 \in T
  <2> DEFINE u == [i \in 0 .. 0 |-> {[table |-> m, text |-> <<>>]}]
  <2>1. Goes(f, m, t, full, 0, u)
    BY DEF Goes
  <2> HIDE DEF u
  <2> QED BY <2>1
<1>2. ASSUME NEW k \in 1 .. n, k - 1 \in T PROVE k \in T
  <2>1. PICK u : Goes(f, m, t, full, k - 1, u)
    BY <1>2
  <2> DEFINE v == OneMore(f, t[k], full, u[k - 1])
             w == [i \in 0 .. k |-> IF i = k THEN v ELSE u[i]]
  <2> HIDE DEF v
  <2>2. w[k] = v /\ \A i \in 0 .. k - 1 : w[i] = u[i]
    OBVIOUS
  <2> HIDE DEF w
  <2>3. ASSUME NEW i \in 0 .. k
        PROVE  w[i] = IF i = 0 THEN {[table |-> m, text |-> <<>>]}
                      ELSE OneMore(f, t[i], full, w[i - 1])
    <3>1. CASE i = k
      <4>1. k - 1 \in 0 .. k - 1
        OBVIOUS
      <4>2. w[i] = v /\ w[i - 1] = u[k - 1] /\ i # 0
        BY <2>2, <3>1, <4>1
      <4> QED BY <3>1, <4>2 DEF v
    <3>2. CASE i # k
      <4>1. i \in 0 .. k - 1 /\ (i # 0 => i - 1 \in 0 .. k - 1)
        BY <3>2
      <4>2. u[i] = IF i = 0 THEN {[table |-> m, text |-> <<>>]}
                   ELSE OneMore(f, t[i], full, u[i - 1])
        BY <2>1, <4>1, Zenon DEF Goes
      <4> QED BY <2>2, <4>1, <4>2
    <3> QED BY <3>1, <3>2
  <2>4. Goes(f, m, t, full, k, w)
    BY <2>3, Zenon DEF Goes
  <2> QED BY <2>4
<1>3. PICK u : Goes(f, m, t, full, n, u)
  <2> HIDE DEF T
  <2>1. 0 .. n \subseteq T
    BY <1>1, <1>2, UpTo
  <2>2. n \in T
    BY <2>1
  <2> QED BY <2>2 DEF T
<1>4. \E w : Is(w)
  <2> DEFINE w == [i \in 0 .. n |-> u[i]]
  <2>1. \A i \in 0 .. n : w[i] = u[i] /\ (i # 0 => i - 1 \in 0 .. n)
    OBVIOUS
  <2>2. ASSUME NEW i \in 0 .. n
        PROVE  w[i] = IF i = 0 THEN {[table |-> m, text |-> <<>>]}
                      ELSE OneMore(f, t[i], full, w[i - 1])
    <3> HIDE DEF w
    <3>1. u[i] = IF i = 0 THEN {[table |-> m, text |-> <<>>]}
                 ELSE OneMore(f, t[i], full, u[i - 1])
      BY <1>3, Zenon DEF Goes
    <3> QED BY <2>1, <3>1
  <2>3. w = [i \in 0 .. n |-> w[i]]
    OBVIOUS
  <2> HIDE DEF w
  <2>4. Is(w)
    BY <2>2, <2>3
  <2> QED BY <2>4
<1> DEFINE g == CHOOSE w : Is(w)
<1>5. Is(g)
  BY <1>4, Zenon
<1>6. RedactPass(f, m, t, full) = g[n]
  BY Zenon DEF RedactPass, OneMore
<1> HIDE DEF g
<1>7. Goes(f, m, t, full, n, g)
  BY <1>5 DEF Goes
<1> QED BY <1>6, <1>7

\* Two accounts of the same words agree.
LEMMA GoesAlike ==
  ASSUME NEW f, NEW m, NEW full, NEW n \in Nat, NEW s, NEW t, NEW u, NEW v,
         \A i \in 1 .. n : s[i] = t[i],
         Goes(f, m, s, full, n, u), Goes(f, m, t, full, n, v)
  PROVE  u[n] = v[n]
<1> DEFINE T == {k \in 0 .. n : u[k] = v[k]}
<1>1. 0 \in T
  <2>1. 0 \in 0 .. n
    OBVIOUS
  <2>2. u[0] = {[table |-> m, text |-> <<>>]} /\ v[0] = {[table |-> m, text |-> <<>>]}
    BY <2>1, Zenon DEF Goes
  <2> QED BY <2>1, <2>2
<1>2. ASSUME NEW k \in 1 .. n, k - 1 \in T PROVE k \in T
  BY <1>2 DEF Goes
<1> HIDE DEF T
<1>3. 0 .. n \subseteq T
  BY <1>1, <1>2, UpTo
<1>4. n \in T
  BY <1>3
<1> QED BY <1>4 DEF T

\* Nothing is made of no words, and of one word more what the filter makes of it.
LEMMA PassBegins ==
  ASSUME NEW f, NEW m, NEW full
  PROVE  RedactPass(f, m, <<>>, full) = {[table |-> m, text |-> <<>>]}
<1>1. Len(<<>>) = 0
  OBVIOUS
<1>2. PICK u : Goes(f, m, <<>>, full, 0, u) /\ RedactPass(f, m, <<>>, full) = u[0]
  BY <1>1, PassGoes
<1> QED BY <1>2 DEF Goes

LEMMA PassGoesOn ==
  ASSUME NEW f, NEW m, NEW full, NEW t \in Seq(Token), NEW token \in Token
  PROVE  RedactPass(f, m, Append(t, token), full)
           = OneMore(f, token, full, RedactPass(f, m, t, full))
<1> DEFINE s == Append(t, token)
           n == Len(t)
<1>1. /\ n \in Nat /\ Len(s) = n + 1 /\ s[n + 1] = token
      /\ \A i \in 1 .. n : s[i] = t[i]
  BY LenProperties, AppendProperties
<1> HIDE DEF s, n
<1>2. PICK u : Goes(f, m, t, full, n, u) /\ RedactPass(f, m, t, full) = u[n]
  BY <1>1, PassGoes DEF n
<1>3. PICK v : Goes(f, m, s, full, n + 1, v) /\ RedactPass(f, m, s, full) = v[n + 1]
  BY <1>1, PassGoes
<1>4. Goes(f, m, s, full, n, v)
  <2>1. \A i \in 0 .. n : i \in 0 .. n + 1
    BY <1>1
  <2> QED BY <1>3, <2>1, Zenon DEF Goes
<1>5. u[n] = v[n]
  BY <1>1, <1>2, <1>4, GoesAlike
<1>6. v[n + 1] = OneMore(f, s[n + 1], full, v[n])
  <2>1. n + 1 \in 0 .. n + 1 /\ n + 1 # 0 /\ (n + 1) - 1 = n
    BY <1>1
  <2> QED BY <1>3, <2>1 DEF Goes
<1> QED BY <1>1, <1>2, <1>3, <1>5, <1>6 DEF s

-----------------------------------------------------------------------------
(***************************************************************************)
(* Word by word the composite does what Redact does in one go.             *)
(*                                                                         *)
(* While a filter works, the words behind pos are what it may have made of *)
(* the words that came to it, and those from pos on are still as they were *)
(* (Midway).                                                               *)
(***************************************************************************)

Piped(f, done) ==
  IF f \in enabled
  THEN UNION {RedactPass(f, d.table, d.text, FullInput(plain)) : d \in done}
  ELSE done

AfterUsers == Piped("username", {[table |-> before, text |-> plain]})
AfterMails == Piped("email", AfterUsers)

\* The filter s may have been given d.
Given(s, d) ==
  \/ s = "username" /\ d = [table |-> before, text |-> plain]
  \/ s = "email" /\ d \in AfterUsers
  \/ s = "host" /\ d \in AfterMails

\* What is behind the filter of this stage came of d, what is ahead is d's.
Between(d) ==
  /\ d.text \in Seq(Token) /\ Len(d.text) = Len(text)
  /\ \A i \in pos .. Len(text) : text[i] = d.text[i]
  /\ stage \in enabled =>
       [table |-> table, text |-> SubSeq(text, 1, pos - 1)]
         \in RedactPass(stage, d.table, SubSeq(d.text, 1, pos - 1), FullInput(plain))
  /\ stage \notin enabled => d = [table |-> table, text |-> text]

Midway ==
  /\ text \in Seq(Token) /\ Len(text) = Len(plain)
  /\ stage # "done" => \E d : Given(stage, d) /\ Between(d)
  /\ EndsAsRedact

LEMMA RedactIsPiped ==
  Redact(before, enabled, plain, FullInput(plain)) = Piped("host", AfterMails)
BY DEF Redact, Piped, AfterMails, AfterUsers

\* The first words of a text, and one more.
LEMMA FirstWords ==
  ASSUME NEW s \in Seq(Token), NEW p \in 1 .. Len(s)
  PROVE  /\ SubSeq(s, 1, p - 1) \in Seq(Token)
         /\ SubSeq(s, 1, p) = Append(SubSeq(s, 1, p - 1), s[p])
<1> DEFINE a == SubSeq(s, 1, p - 1)
           b == SubSeq(s, 1, p)
<1>1. Len(s) \in Nat /\ \A i \in 1 .. Len(s) : s[i] \in Token
  BY LenProperties, ElementOfSeq
<1>2. /\ a \in Seq(Token) /\ Len(a) = p - 1
      /\ \A i \in 1 .. p - 1 : a[i] = s[i]
  BY <1>1, SubSeqProperties
<1>3. /\ b \in Seq(Token) /\ Len(b) = p
      /\ \A i \in 1 .. p : b[i] = s[i]
  BY <1>1, SubSeqProperties
<1> HIDE DEF a, b
<1>4. /\ Append(a, s[p]) \in Seq(Token) /\ Len(Append(a, s[p])) = p
      /\ \A i \in 1 .. p : Append(a, s[p])[i] = s[i]
  BY <1>1, <1>2, AppendProperties
<1>5. b = Append(a, s[p])
  BY <1>3, <1>4, SeqEqual
<1> QED BY <1>2, <1>5 DEF a, b

LEMMA WholeText ==
  ASSUME NEW s \in Seq(Token)
  PROVE  SubSeq(s, 1, Len(s)) = s /\ SubSeq(s, 1, 0) = <<>>
<1>1. Len(s) \in Nat /\ \A i \in 1 .. Len(s) : s[i] \in Token
  BY LenProperties, ElementOfSeq
<1>2. /\ SubSeq(s, 1, Len(s)) \in Seq(Token) /\ Len(SubSeq(s, 1, Len(s))) = Len(s)
      /\ \A i \in 1 .. Len(s) : SubSeq(s, 1, Len(s))[i] = s[i]
  BY <1>1, SubSeqProperties
<1>3. SubSeq(s, 1, Len(s)) = s
  BY <1>2, SeqEqual
<1>4. SubSeq(s, 1, 0) = <<>>
  OBVIOUS
<1> QED BY <1>3, <1>4

\* The filter has done what it does at a word.
LEMMA WordDone ==
  ASSUME Inv, Midway, AtWord, stage \in enabled,
         text' \in Seq(Token), Len(text') = Len(text),
         \A i \in 1 .. Len(text) : i # pos => text'[i] = text[i],
         [table |-> table', token |-> text'[pos]]
           \in RedactWord(stage, table, text[pos], FullInput(plain)),
         pos' = pos + 1, UNCHANGED <<enabled, stage, plain, before>>
  PROVE  Midway'
<1>1. /\ pos \in 1 .. Len(text) /\ Len(text) \in Nat /\ stage # "done"
      /\ text \in Seq(Token)
  BY Known, LenProperties DEF AtWord, Midway
<1>2. PICK d : Given(stage, d) /\ Between(d)
  BY <1>1 DEF Midway
<1> DEFINE full == FullInput(plain)
           t == d.text
           done == SubSeq(text, 1, pos - 1)
<1>3. /\ t \in Seq(Token) /\ Len(t) = Len(text) /\ text[pos] = t[pos]
      /\ \A i \in pos .. Len(text) : text[i] = t[i]
      /\ [table |-> table, text |-> done] \in RedactPass(stage, d.table, SubSeq(t, 1, pos - 1), full)
  BY <1>1, <1>2 DEF Between
<1>4. t[pos] \in Token
  BY <1>1, <1>3, ElementOfSeq
<1>5. /\ SubSeq(t, 1, pos - 1) \in Seq(Token)
      /\ SubSeq(t, 1, pos) = Append(SubSeq(t, 1, pos - 1), t[pos])
  BY <1>1, <1>3, FirstWords
<1>6. SubSeq(text', 1, pos) = Append(done, text'[pos])
  <2>1. SubSeq(text', 1, pos) = Append(SubSeq(text', 1, pos - 1), text'[pos])
    BY <1>1, FirstWords
  <2>2. SubSeq(text', 1, pos - 1) = done
    <3>1. /\ SubSeq(text', 1, pos - 1) \in Seq(Token) /\ Len(SubSeq(text', 1, pos - 1)) = pos - 1
          /\ \A i \in 1 .. pos - 1 : SubSeq(text', 1, pos - 1)[i] = text'[i]
      BY <1>1, SubSeqProperties, ElementOfSeq
    <3>2. /\ done \in Seq(Token) /\ Len(done) = pos - 1
          /\ \A i \in 1 .. pos - 1 : done[i] = text[i]
      BY <1>1, SubSeqProperties, ElementOfSeq
    <3>3. \A i \in 1 .. pos - 1 : text'[i] = text[i]
      BY <1>1
    <3> HIDE DEF done
    <3> QED BY <3>1, <3>2, <3>3, SeqEqual
  <2> QED BY <2>1, <2>2
<1> HIDE DEF full, t, done
<1>7. RedactPass(stage, d.table, SubSeq(t, 1, pos), full)
        = OneMore(stage, t[pos], full, RedactPass(stage, d.table, SubSeq(t, 1, pos - 1), full))
  BY <1>4, <1>5, PassGoesOn
<1>8. [table |-> table', text |-> Append(done, text'[pos])]
        \in OneMore(stage, t[pos], full, RedactPass(stage, d.table, SubSeq(t, 1, pos - 1), full))
  <2> DEFINE e == [table |-> table, text |-> done]
             q == [table |-> table', token |-> text'[pos]]
  <2>1. /\ e \in RedactPass(stage, d.table, SubSeq(t, 1, pos - 1), full)
        /\ q \in RedactWord(stage, e.table, t[pos], full)
    BY <1>3 DEF full
  <2>2. [table |-> table', text |-> Append(done, text'[pos])]
          = [table |-> q.table, text |-> Append(e.text, q.token)]
    OBVIOUS
  <2> DEFINE pass == RedactPass(stage, d.table, SubSeq(t, 1, pos - 1), full)
             more(c) == {[table |-> r.table, text |-> Append(c.text, r.token)] :
                           r \in RedactWord(stage, c.table, t[pos], full)}
  <2>3. [table |-> q.table, text |-> Append(e.text, q.token)] \in more(e)
    BY <2>1, Zenon
  <2> HIDE DEF e, q, more
  <2>4. [table |-> table', text |-> Append(done, text'[pos])] \in UNION {more(c) : c \in pass}
    BY <2>1, <2>2, <2>3
  <2> QED BY <2>4, Zenon DEF OneMore, more, pass
<1>9. Between(d)'
  <2>1. \A i \in pos' .. Len(text') : text'[i] = t[i]
    BY <1>1, <1>3
  <2>2. pos' - 1 = pos
    BY <1>1
  <2> QED BY <1>1, <1>3, <1>6, <1>7, <1>8, <2>1, <2>2 DEF Between, full, t
<1>10. Given(stage, d)'
  BY <1>2 DEF Given, AfterUsers, AfterMails, Piped
<1> QED BY <1>1, <1>9, <1>10 DEF Midway, EndsAsRedact

\* A filter that has just got its turn has done nothing yet.
LEMMA BetweenStarts ==
  ASSUME pos' = 1, text' \in Seq(Token),
         NEW d, d = [table |-> table', text |-> text']
  PROVE  Between(d)'
<1>1. d.text = text' /\ d.table = table'
  OBVIOUS
<1>2. pos' - 1 = 0
  OBVIOUS
<1>3. SubSeq(text', 1, 0) = <<>> /\ SubSeq(d.text, 1, 0) = <<>>
  BY <1>1, WholeText
<1> DEFINE e == [table |-> table', text |-> <<>>]
<1>4. RedactPass(stage', d.table, <<>>, FullInput(plain')) = {e}
  BY <1>1, PassBegins
<1> HIDE DEF e
<1>5. e \in RedactPass(stage', d.table, <<>>, FullInput(plain'))
  BY <1>4
<1>6. [table |-> table', text |-> SubSeq(text', 1, pos' - 1)]
        \in RedactPass(stage', d.table, SubSeq(d.text, 1, pos' - 1), FullInput(plain'))
  BY <1>2, <1>3, <1>5 DEF e
<1> QED BY <1>1, <1>6 DEF Between

LEMMA MidwayReceive ==
  ASSUME Inv, Midway, NEW s \in Texts, Receive(s)
  PROVE  Midway'
<1>1. /\ stage' = "username" /\ pos' = 1 /\ text' = s /\ plain' = s /\ before' = table
      /\ enabled' = enabled /\ table' = table
  BY DEF Receive
<1>2. s \in Seq(Token)
  BY TextFacts, Zenon
<1> DEFINE d == [table |-> table, text |-> s]
<1>3. Given(stage, d)'
  BY <1>1 DEF Given
<1>4. Between(d)'
  <2>1. d' = [table |-> table', text |-> text'] /\ d' = d
    BY <1>1
  <2>2. \A c : c = [table |-> table', text |-> text'] => Between(c)'
    BY <1>1, <1>2, BetweenStarts
  <2> HIDE DEF d
  <2> QED BY <2>1, <2>2
<1> HIDE DEF d
<1> QED BY <1>1, <1>2, <1>3, <1>4 DEF Midway, EndsAsRedact

LEMMA MidwayReplaceName ==
  ASSUME Inv, Midway, ReplaceName
  PROVE  Midway'
<1> DEFINE o == text[pos].word
<1>1. /\ AtWord /\ stage \in enabled /\ Matches(stage, text[pos])
      /\ ~TakesSuffix(stage, text[pos])
      /\ pos' = pos + 1 /\ UNCHANGED <<enabled, stage, plain, before>>
  BY DEF ReplaceName
<1>2. PICK r \in Replacements(table, o, FullInput(plain)) :
        /\ table' = Recorded(table, o, r)
        /\ text' = [text EXCEPT ![pos].word = r]
  BY DEF ReplaceName
<1>3. /\ text \in Seq(Token) /\ Len(text) \in Nat /\ DOMAIN text = 1 .. Len(text)
      /\ pos \in 1 .. Len(text) /\ text[pos] \in Token
  BY <1>1, LenProperties, ElementOfSeq DEF Midway, AtWord
<1>4. text'[pos] = [text[pos] EXCEPT !.word = r] /\ text'[pos] \in Token
  <2>1. r \in Word
    BY Known, <1>3, AnswerFacts DEF Token
  <2> QED BY <1>2, <1>3, <2>1 DEF Token
<1>5. /\ text' \in Seq(Token) /\ Len(text') = Len(text)
      /\ \A i \in 1 .. Len(text) : i # pos => text'[i] = text[i]
  BY <1>2, <1>3, <1>4
<1>6. [table |-> table', token |-> text'[pos]]
        \in RedactWord(stage, table, text[pos], FullInput(plain))
  BY <1>1, <1>2, <1>4 DEF RedactWord
<1> QED BY <1>1, <1>5, <1>6, WordDone

LEMMA MidwayReplaceWithTld ==
  ASSUME Inv, Midway, ReplaceWithTld
  PROVE  Midway'
<1> DEFINE o == text[pos].word
           t == text[pos].tld
<1>1. /\ AtWord /\ stage \in enabled /\ Matches(stage, text[pos])
      /\ TakesSuffix(stage, text[pos])
      /\ pos' = pos + 1 /\ UNCHANGED <<enabled, stage, plain, before>>
  BY DEF ReplaceWithTld
<1>2. PICK r \in Replacements(table, o, FullInput(plain)) :
        /\ table' = Entered(Recorded(table, o, r), o, r, t)
        /\ text' = [text EXCEPT ![pos] = Addressed(text[pos], r)]
  BY DEF ReplaceWithTld
<1>3. /\ text \in Seq(Token) /\ Len(text) \in Nat /\ DOMAIN text = 1 .. Len(text)
      /\ pos \in 1 .. Len(text) /\ text[pos] \in Token
  BY <1>1, LenProperties, ElementOfSeq DEF Midway, AtWord
<1>4. text'[pos] = Addressed(text[pos], r) /\ text'[pos] \in Token
  <2>1. text'[pos] = Addressed(text[pos], r)
    BY <1>2, <1>3
  <2>2. o \in Word /\ t \in Tld /\ HasSuffix(t) /\ IsTable(table)
    BY <1>1, <1>3, Known DEF TakesSuffix, Token
  <2>3. r \in Word
    BY <1>2, <2>2, AnswerFacts, Zenon
  <2>4. SuffixOf(t) \in Tld
    BY <2>2, <2>3, EnteredFacts, Zenon
  <2> QED BY <1>3, <2>1, <2>3, <2>4 DEF Token, Addressed
<1>5. /\ text' \in Seq(Token) /\ Len(text') = Len(text)
      /\ \A i \in 1 .. Len(text) : i # pos => text'[i] = text[i]
  BY <1>2, <1>3, <1>4
<1>6. [table |-> table', token |-> text'[pos]]
        \in RedactWord(stage, table, text[pos], FullInput(plain))
  BY <1>1, <1>2, <1>4 DEF RedactWord
<1> QED BY <1>1, <1>5, <1>6, WordDone

LEMMA MidwayPassWord ==
  ASSUME Inv, Midway, PassWord
  PROVE  Midway'
<1>1. /\ AtWord /\ stage \in enabled /\ ~Matches(stage, text[pos]) /\ pos' = pos + 1
      /\ UNCHANGED <<enabled, table, stage, text, plain, before>>
  BY DEF PassWord
<1>2. [table |-> table', token |-> text'[pos]]
        \in RedactWord(stage, table, text[pos], FullInput(plain))
  BY <1>1 DEF RedactWord
<1>3. text' \in Seq(Token) /\ text' = text
  BY <1>1 DEF Midway
<1> QED BY <1>1, <1>2, <1>3, WordDone

LEMMA MidwayPassFilter ==
  ASSUME Inv, Midway, PassFilter
  PROVE  Midway'
<1>1. /\ stage # "done" /\ stage' = NextStage(stage) /\ pos' = 1
      /\ stage \notin enabled \/ pos \notin DOMAIN text
      /\ UNCHANGED <<enabled, table, text, plain, before>>
  BY DEF PassFilter
<1>2. /\ text \in Seq(Token) /\ Len(text) = Len(plain) /\ Len(text) \in Nat
      /\ DOMAIN text = 1 .. Len(text) /\ pos \in 1 .. Len(text) + 1
  BY LenProperties DEF Inv, TypeOK, Midway
<1>3. PICK d : Given(stage, d) /\ Between(d)
  BY <1>1 DEF Midway
<1> DEFINE e == [table |-> table, text |-> text]
<1>4. stage \in enabled => e \in RedactPass(stage, d.table, d.text, FullInput(plain))
  <2> SUFFICES ASSUME stage \in enabled
               PROVE  e \in RedactPass(stage, d.table, d.text, FullInput(plain))
    OBVIOUS
  <2>1. pos - 1 = Len(text)
    BY <1>1, <1>2
  <2>2. /\ d.text \in Seq(Token) /\ Len(d.text) = Len(text)
        /\ [table |-> table, text |-> SubSeq(text, 1, pos - 1)]
             \in RedactPass(stage, d.table, SubSeq(d.text, 1, pos - 1), FullInput(plain))
    BY <1>3 DEF Between
  <2>3. SubSeq(text, 1, Len(text)) = text /\ SubSeq(d.text, 1, Len(text)) = d.text
    BY <1>2, <2>2, WholeText
  <2> QED BY <2>1, <2>2, <2>3
<1>5. stage \notin enabled => e = d
  BY <1>3 DEF Between
<1>6. ASSUME NEW done, d \in done PROVE e \in Piped(stage, done)
  BY <1>4, <1>5, <1>6 DEF Piped
<1> HIDE DEF e
<1>7. stage = "username" \/ stage = "email" \/ stage = "host"
  BY <1>1 DEF Inv, TypeOK, AllFilters
<1>8. /\ stage = "username" => e \in AfterUsers
      /\ stage = "email" => e \in AfterMails
      /\ stage = "host" => e \in Piped("host", AfterMails)
  BY <1>3, <1>6 DEF Given, AfterUsers, AfterMails
<1>9. CASE stage' = "done"
  <2>1. stage = "host"
    BY <1>1, <1>7, <1>9, StageOrder
  <2>2. e \in Redact(before, enabled, plain, FullInput(plain))
    BY <1>8, <2>1, RedactIsPiped
  <2> QED BY <1>1, <1>2, <1>9, <2>2 DEF Midway, EndsAsRedact, e
<1>10. CASE stage' # "done"
  <2>1. (stage = "username" /\ stage' = "email") \/ (stage = "email" /\ stage' = "host")
    BY <1>1, <1>7, <1>10, StageOrder
  <2>2. Given(stage, e)'
    <3>1. stage' = "email" => e \in AfterUsers
      BY <1>8, <2>1
    <3>2. stage' = "host" => e \in AfterMails
      BY <1>8, <2>1
    <3>3. e' = e /\ AfterUsers' = AfterUsers /\ AfterMails' = AfterMails
      BY <1>1 DEF AfterUsers, AfterMails, Piped, e
    <3> QED BY <2>1, <3>1, <3>2, <3>3 DEF Given
  <2>3. Between(e)'
    <3>1. e' = e /\ e = [table |-> table', text |-> text']
      BY <1>1 DEF e
    <3>2. \A c : c = [table |-> table', text |-> text'] => Between(c)'
      BY <1>1, <1>2, BetweenStarts
    <3> QED BY <3>1, <3>2
  <2> QED BY <1>1, <1>2, <1>10, <2>2, <2>3 DEF Midway, EndsAsRedact
<1> QED BY <1>9, <1>10

LEMMA MidwayInit ==
  ASSUME Init
  PROVE  Midway
<1>1. stage = "done" /\ text = <<>> /\ plain = <<>> /\ before = table
  BY DEF Init
<1>2. \A f : RedactPass(f, table, <<>>, FullInput(plain)) = {[table |-> table, text |-> <<>>]}
  BY PassBegins
<1> DEFINE e == [table |-> table, text |-> <<>>]
<1>3. \A f : Piped(f, {e}) = {e}
  BY <1>2 DEF Piped
<1> HIDE DEF e
<1>4. e \in Redact(before, enabled, plain, FullInput(plain))
  <2>1. AfterUsers = Piped("username", {e})
    BY <1>1 DEF AfterUsers, e
  <2> QED BY <1>3, <2>1, RedactIsPiped DEF AfterMails
<1> QED BY <1>1, <1>4 DEF Midway, EndsAsRedact, e

\* What the composite makes of a text word by word is one of the outcomes of
\* Redact, in which AgentFlow takes a call as a single step.
THEOREM RedactsInOneGo == Spec => []EndsAsRedact
<1>1. Init => Midway
  BY MidwayInit
<1>2. Inv /\ Midway /\ [Next]_vars => Midway'
  <2> SUFFICES ASSUME Inv, Midway, [Next]_vars PROVE Midway'
    OBVIOUS
  <2>1. ASSUME NEW s \in Texts, Receive(s) PROVE Midway'
    BY <2>1, MidwayReceive
  <2>2. CASE ReplaceName
    BY <2>2, MidwayReplaceName
  <2>3. CASE ReplaceWithTld
    BY <2>3, MidwayReplaceWithTld
  <2>4. CASE PassWord
    BY <2>4, MidwayPassWord
  <2>5. CASE PassFilter
    BY <2>5, MidwayPassFilter
  <2>6. CASE UNCHANGED vars
    <3>1. \A d : /\ Given(stage, d)' <=> Given(stage, d)
                 /\ Between(d)' <=> Between(d)
      BY <2>6 DEF vars, Given, Between, AfterUsers, AfterMails, Piped
    <3> QED BY <2>6, <3>1 DEF vars, Midway, EndsAsRedact
  <2> QED BY <2>1, <2>2, <2>3, <2>4, <2>5, <2>6 DEF Next
<1>3. Midway => EndsAsRedact
  BY DEF Midway
<1> QED BY <1>1, <1>2, <1>3, Invariance, PTL DEF Spec

=============================================================================
