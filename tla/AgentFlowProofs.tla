-------------------------- MODULE AgentFlowProofs --------------------------
(***************************************************************************)
(* What the plugins promise for every sequence of registered filters, every*)
(* text of users and tools, and a runner of either kind.                   *)
(*                                                                         *)
(* The argument: a filter leaves a text in which it finds generated names  *)
(* alone, and no filter after it makes that worse (CleanOf).  So a chain   *)
(* of plugins cleans the parts it looks at of all enabled filters, and the *)
(* payloads in a session are clean except for that of the call under way   *)
(* (Tidy).                                                                 *)
(*                                                                         *)
(* Under Ideal the way back is the table's: it keeps its entries and has   *)
(* one key for an original, so that it alone says what becomes of a text   *)
(* (Becomes, Through).  As long as nothing disturbs the session, every     *)
(* text of it is a bounded number of passes away from the words that were  *)
(* written (Within), never more than the plugins make on the way back.     *)
(***************************************************************************)
EXTENDS AgentFlow, ReplacementProofs, SequenceTheorems

-----------------------------------------------------------------------------
(***************************************************************************)
(* The table holds generated names only.                                   *)
(***************************************************************************)

Keys == {w \in Word : w.stem \in Candidate}
Tables == UNION {[D -> Word] : D \in SUBSET Keys}

LEMMA TableFacts ==
  ASSUME NEW m \in Tables
  PROVE  DOMAIN m \subseteq Keys /\ DOMAIN m \subseteq Word /\ \A k \in DOMAIN m : m[k] \in Word
BY DEF Tables, Keys

LEMMA NoTable == <<>> \in Tables
<1>1. <<>> \in [1 .. 0 -> Word]
  <2>1. <<>> \in Seq(Word) /\ Len(<<>>) = 0
    OBVIOUS
  <2> QED BY <2>1, LenProperties
<1>2. 1 .. 0 = {}
  OBVIOUS
<1>3. <<>> \in [{} -> Word]
  BY <1>1, <1>2
<1> QED BY <1>3 DEF Tables

LEMMA PutFacts ==
  ASSUME NEW m \in Tables, NEW k \in Keys, NEW v \in Word
  PROVE  Put(m, k, v) \in Tables
<1>1. DOMAIN m \union {k} \subseteq Keys
  BY TableFacts
<1>2. Put(m, k, v) \in [DOMAIN m \union {k} -> Word]
  BY TableFacts DEF Put
<1> HIDE DEF Keys
<1> QED BY <1>1, <1>2 DEF Tables

\* GetReplacement answers with a generated name.
LEMMA AnswerFacts ==
  ASSUME NEW m \in Tables, NEW o \in Word, NEW full, NEW r \in Replacements(m, o, full)
  PROVE  r \in Keys /\ Recorded(m, o, r) \in Tables
<1>1. r \in Keys
  <2>1. CASE Exact(m, o) # {}
    <3>1. r \in DOMAIN m
      BY <2>1 DEF Replacements, Exact, PlainKeys
    <3> QED BY <3>1, TableFacts
  <2>2. CASE Exact(m, o) = {} /\ Folded(m, o) # {}
    <3>1. PICK k \in Folded(m, o) : r = MatchCasing(o, k)
      BY <2>2 DEF Replacements
    <3>2. k \in Keys /\ k \in Word
      BY TableFacts DEF Folded, PlainKeys
    <3>3. r \in Word /\ r.stem = k.stem
      BY <3>1, <3>2, MatchCasingFacts
    <3> QED BY <3>2, <3>3 DEF Keys
  <2>3. CASE Exact(m, o) = {} /\ Folded(m, o) = {}
    <3>1. PICK c \in Candidate : r = MatchCasing(o, Lower(c))
      BY <2>3 DEF Replacements, Fresh, Generated
    <3>2. c \in Stem
      BY ReplacementAssumption
    <3>3. Lower(c) \in Word /\ Lower(c).stem = c
      BY <3>2, LowerFacts
    <3>4. r \in Word /\ r.stem = c
      BY <3>1, <3>3, MatchCasingFacts
    <3> QED BY <3>4 DEF Keys
  <2> QED BY <2>1, <2>2, <2>3
<1>2. CASE Exact(m, o) # {}
  BY <1>1, <1>2 DEF Recorded
<1>3. CASE Exact(m, o) = {}
  BY <1>1, <1>3, PutFacts DEF Recorded
<1> QED BY <1>1, <1>2, <1>3

LEMMA EnteredFacts ==
  ASSUME NEW m \in Tables, NEW o \in Word, NEW r \in Keys, NEW t \in Tld, HasSuffix(t)
  PROVE  SuffixOf(t) \in Tld /\ Entered(m, o, r, t) \in Tables
<1>1. SuffixOf(t) \in Tld
  BY SuffixAssumption DEF SuffixOf, HasSuffix
<1>2. WithTld(o, t) \in Word /\ r \in Word
  BY WithTldFacts DEF Keys
<1>3. WithTld(r, SuffixOf(t)) \in Keys
  BY <1>1, <1>2, WithTldFacts DEF Keys
<1> QED BY <1>1, <1>2, <1>3, PutFacts DEF Entered

-----------------------------------------------------------------------------
(***************************************************************************)
(* One filter at a text.                                                   *)
(***************************************************************************)

\* All that the filter finds here is a generated name.
Clean(f, token) == token.word.stem \in Candidate \/ ~Matches(f, token)

\* The filters of which a text is clean.
CleanOf(t) == {f \in AllFilters : \A i \in DOMAIN t : Clean(f, t[i])}

LEMMA WordFacts ==
  ASSUME NEW f, NEW m \in Tables, NEW token \in Token, NEW full,
         NEW q \in RedactWord(f, m, token, full)
  PROVE  /\ q.table \in Tables /\ q.token \in Token
         /\ Clean(f, q.token) /\ \A h : Clean(h, token) => Clean(h, q.token)
<1> DEFINE o == token.word
<1>1. CASE ~Matches(f, token)
  <2>1. q = [table |-> m, token |-> token]
    BY <1>1 DEF RedactWord
  <2>2. q.table = m /\ q.token = token
    BY <2>1
  <2> QED BY <1>1, <2>2 DEF Clean
<1>2. CASE Matches(f, token) /\ TakesSuffix(f, token)
  <2>1. PICK r \in Replacements(m, o, full) :
          q = [table |-> Entered(Recorded(m, o, r), o, r, token.tld),
               token |-> Addressed(token, r)]
    BY <1>2 DEF RedactWord
  <2>2. o \in Word /\ token.tld \in Tld /\ HasSuffix(token.tld)
    BY <1>2 DEF TakesSuffix, Token
  <2>3. r \in Keys /\ Recorded(m, o, r) \in Tables
    BY <2>2, AnswerFacts
  <2>4. /\ SuffixOf(token.tld) \in Tld
        /\ Entered(Recorded(m, o, r), o, r, token.tld) \in Tables
    <3> HIDE DEF o
    <3> QED BY <2>2, <2>3, EnteredFacts
  <2>5. q.table \in Tables /\ q.token = Addressed(token, r)
    BY <2>1, <2>4
  <2>6. q.token \in Token /\ q.token.word.stem \in Candidate
    BY <2>3, <2>4, <2>5 DEF Token, Addressed, Keys
  <2> QED BY <2>5, <2>6 DEF Clean
<1>3. CASE Matches(f, token) /\ ~TakesSuffix(f, token)
  <2>1. PICK r \in Replacements(m, o, full) :
          q = [table |-> Recorded(m, o, r), token |-> [token EXCEPT !.word = r]]
    BY <1>3 DEF RedactWord
  <2>2. o \in Word
    BY DEF Token
  <2>3. r \in Keys /\ Recorded(m, o, r) \in Tables
    BY <2>2, AnswerFacts
  <2>4. q.table \in Tables /\ q.token = [token EXCEPT !.word = r]
    BY <2>1, <2>3
  <2>5. q.token \in Token /\ q.token.word.stem \in Candidate
    BY <2>3, <2>4 DEF Token, Keys
  <2> QED BY <2>4, <2>5 DEF Clean
<1> QED BY <1>1, <1>2, <1>3

\* What a call may end with.
Outcomes == [table : Tables, text : Seq(Token)]

\* What the filter f makes of the first i words of t.
Partial(f, t, i) ==
  {d \in Outcomes : /\ Len(d.text) = i
                    /\ \A j \in 1 .. i : /\ Clean(f, d.text[j])
                                         /\ \A h : Clean(h, t[j]) => Clean(h, d.text[j])}

LEMMA PartialBegins ==
  ASSUME NEW f, NEW m \in Tables, NEW t
  PROVE  [table |-> m, text |-> <<>>] \in Partial(f, t, 0)
BY DEF Partial, Outcomes

LEMMA PartialGoesOn ==
  ASSUME NEW f, NEW t \in Seq(Token), NEW i \in 1 .. Len(t), NEW d \in Partial(f, t, i - 1),
         NEW full, NEW q \in RedactWord(f, d.table, t[i], full)
  PROVE  [table |-> q.table, text |-> Append(d.text, q.token)] \in Partial(f, t, i)
<1> DEFINE s == d.text
           e == [table |-> q.table, text |-> Append(s, q.token)]
<1>1. /\ d.table \in Tables /\ s \in Seq(Token) /\ Len(s) = i - 1 /\ i \in Nat
      /\ \A j \in 1 .. i - 1 : /\ Clean(f, s[j])
                               /\ \A h : Clean(h, t[j]) => Clean(h, s[j])
  BY LenProperties DEF Partial, Outcomes
<1>2. t[i] \in Token
  BY ElementOfSeq
<1>3. /\ q.table \in Tables /\ q.token \in Token
      /\ Clean(f, q.token) /\ \A h : Clean(h, t[i]) => Clean(h, q.token)
  BY <1>1, <1>2, WordFacts
<1> HIDE DEF s
<1>4. /\ Append(s, q.token) \in Seq(Token) /\ Len(Append(s, q.token)) = i
      /\ \A j \in 1 .. i - 1 : Append(s, q.token)[j] = s[j]
      /\ Append(s, q.token)[i] = q.token
  BY <1>1, <1>3, AppendProperties
<1>5. ASSUME NEW j \in 1 .. i
      PROVE  /\ Clean(f, Append(s, q.token)[j])
             /\ \A h : Clean(h, t[j]) => Clean(h, Append(s, q.token)[j])
  <2>1. CASE j = i
    BY <1>3, <1>4, <2>1
  <2>2. CASE j # i
    <3>1. j \in 1 .. i - 1
      BY <1>1, <2>2
    <3> QED BY <1>1, <1>4, <3>1
  <2> QED BY <2>1, <2>2
<1>6. e \in Outcomes /\ e.text = Append(s, q.token)
  BY <1>3, <1>4 DEF Outcomes
<1> HIDE DEF e
<1>7. e \in Partial(f, t, i)
  BY <1>4, <1>5, <1>6 DEF Partial
<1> QED BY <1>7 DEF e, s

\* The filter at one word more.
OneWord(f, token, full, X) ==
  UNION {{[table |-> q.table, text |-> Append(d.text, q.token)] :
            q \in RedactWord(f, d.table, token, full)} : d \in X}

LEMMA OneWordFacts ==
  ASSUME NEW f, NEW t \in Seq(Token), NEW i \in 1 .. Len(t), NEW full,
         NEW X \in SUBSET Partial(f, t, i - 1)
  PROVE  OneWord(f, t[i], full, X) \in SUBSET Partial(f, t, i)
<1> SUFFICES ASSUME NEW e \in OneWord(f, t[i], full, X) PROVE e \in Partial(f, t, i)
  OBVIOUS
<1> DEFINE more(d) == {[table |-> q.table, text |-> Append(d.text, q.token)] :
                         q \in RedactWord(f, d.table, t[i], full)}
<1>1. PICK d \in X : e \in more(d)
  <2> HIDE DEF more
  <2>1. OneWord(f, t[i], full, X) = UNION {more(d) : d \in X}
    BY Zenon DEF OneWord, more
  <2> QED BY <2>1
<1>2. PICK q \in RedactWord(f, d.table, t[i], full) :
        e = [table |-> q.table, text |-> Append(d.text, q.token)]
  BY <1>1
<1> QED BY <1>2, PartialGoesOn

\* Where the words of a text lead, one after the other, the whole pass leads.
PassLeads(f, t, full, U) ==
  \A i \in 1 .. Len(t) : \A x \in U[i - 1] : OneWord(f, t[i], full, x) \in U[i]

LEMMA PassInduction ==
  ASSUME NEW f, NEW m, NEW t, Len(t) \in Nat, NEW full, NEW U,
         {[table |-> m, text |-> <<>>]} \in U[0], PassLeads(f, t, full, U)
  PROVE  RedactPass(f, m, t, full) \in U[Len(t)]
<1> DEFINE n == Len(t)
           a == {[table |-> m, text |-> <<>>]}
           Is(u) == u = [i \in 0 .. n |-> IF i = 0 THEN a ELSE OneWord(f, t[i], full, u[i - 1])]
           G == [i \in 1 .. n |-> [x \in U[i - 1] |-> OneWord(f, t[i], full, x)]]
           g == CHOOSE u : Is(u)
<1>1. \A i \in 1 .. n : i \in 0 .. n /\ i - 1 \in 0 .. n /\ i # 0
  OBVIOUS
<1>2. RedactPass(f, m, t, full) = g[n]
  BY Zenon DEF RedactPass, OneWord
<1>3. ASSUME NEW i \in 1 .. n, NEW x \in U[i - 1]
      PROVE  OneWord(f, t[i], full, x) \in U[i] /\ G[i][x] = OneWord(f, t[i], full, x)
  BY DEF PassLeads
<1>4. n \in Nat
  OBVIOUS
<1> HIDE DEF n, G, a
<1>5. PICK u : Follows(n, U, G, a, u)
  <2>1. Leads(n, U, G)
    BY <1>3 DEF Leads
  <2>2. a \in U[0]
    BY DEF a
  <2> QED BY <1>4, <2>1, <2>2, Stepwise
<1>6. \E w : Is(w)
  <2> DEFINE w == [i \in 0 .. n |-> u[i]]
  <2>1. \A i \in 0 .. n : w[i] = u[i]
    OBVIOUS
  <2>2. ASSUME NEW i \in 0 .. n
        PROVE  w[i] = IF i = 0 THEN a ELSE OneWord(f, t[i], full, w[i - 1])
    <3> HIDE DEF w
    <3>1. CASE i = 0
      BY <1>5, <2>1, <3>1 DEF Follows
    <3>2. CASE i # 0
      <4>1. i \in 1 .. n /\ i - 1 \in 0 .. n
        BY <1>4, <3>2
      <4>2. u[i] = OneWord(f, t[i], full, u[i - 1])
        BY <1>3, <1>5, <4>1 DEF Follows
      <4> QED BY <2>1, <3>2, <4>1, <4>2
    <3> QED BY <3>1, <3>2
  <2>3. w = [i \in 0 .. n |-> w[i]]
    OBVIOUS
  <2> HIDE DEF w
  <2>4. Is(w)
    BY <2>2, <2>3
  <2> QED BY <2>4
<1>7. Is(g)
  BY <1>6, Zenon
<1> HIDE DEF g
<1> DEFINE T == {i \in 0 .. n : g[i] \in U[i]}
<1>8. 0 \in T
  BY <1>4, <1>7 DEF a
<1>9. ASSUME NEW i \in 1 .. n, i - 1 \in T PROVE i \in T
  BY <1>1, <1>3, <1>7, <1>9
<1> HIDE DEF T
<1>10. 0 .. n \subseteq T
  BY <1>4, <1>8, <1>9, UpTo
<1>11. n \in 0 .. n /\ n \in T
  BY <1>4, <1>10
<1> QED BY <1>2, <1>11 DEF T, n

LEMMA PassFacts ==
  ASSUME NEW f, NEW m \in Tables, NEW t \in Seq(Token), NEW full,
         NEW d \in RedactPass(f, m, t, full)
  PROVE  d \in Partial(f, t, Len(t))
<1> DEFINE U == [i \in 0 .. Len(t) |-> SUBSET Partial(f, t, i)]
<1>1. Len(t) \in Nat /\ \A i \in 1 .. Len(t) : i \in 0 .. Len(t) /\ i - 1 \in 0 .. Len(t)
  BY LenProperties
<1>2. \A i \in 0 .. Len(t) : U[i] = SUBSET Partial(f, t, i)
  OBVIOUS
<1> HIDE DEF U
<1>3. {[table |-> m, text |-> <<>>]} \in U[0]
  BY <1>1, <1>2, PartialBegins
<1>4. PassLeads(f, t, full, U)
  <2>1. ASSUME NEW i \in 1 .. Len(t), NEW x \in SUBSET Partial(f, t, i - 1)
        PROVE  OneWord(f, t[i], full, x) \in SUBSET Partial(f, t, i)
    BY OneWordFacts
  <2> QED BY <1>1, <1>2, <2>1 DEF PassLeads
<1>5. RedactPass(f, m, t, full) \in U[Len(t)]
  BY <1>1, <1>3, <1>4, PassInduction
<1> QED BY <1>1, <1>2, <1>5

-----------------------------------------------------------------------------
(***************************************************************************)
(* All filters of a plugin, and all plugins of a runner.                   *)
(***************************************************************************)

\* The outcomes that are clean of the filters S.
Cleaned(S) == {d \in Outcomes : S \subseteq CleanOf(d.text)}

LEMMA CleanOfFacts ==
  ASSUME NEW f \in AllFilters, NEW t \in Seq(Token), NEW d \in Partial(f, t, Len(t))
  PROVE  d \in Cleaned(CleanOf(t) \union {f})
<1>1. DOMAIN d.text = DOMAIN t /\ DOMAIN t = 1 .. Len(t) /\ d \in Outcomes
  BY LenProperties DEF Partial, Outcomes
<1>2. \A i \in DOMAIN t : /\ Clean(f, d.text[i])
                          /\ \A h : Clean(h, t[i]) => Clean(h, d.text[i])
  BY <1>1 DEF Partial
<1> QED BY <1>1, <1>2, Zenon DEF Cleaned, CleanOf

\* A filter's turn.
Piped(f, fs, full, X) ==
  IF f \in fs THEN UNION {RedactPass(f, d.table, d.text, full) : d \in X} ELSE X

LEMMA PipedFacts ==
  ASSUME NEW f \in AllFilters, NEW fs, NEW full, NEW S, NEW X \in SUBSET Cleaned(S)
  PROVE  Piped(f, fs, full, X) \in SUBSET Cleaned(S \union ({f} \intersect fs))
<1>1. CASE f \notin fs
  <2>1. S \union ({f} \intersect fs) = S
    BY <1>1
  <2> QED BY <1>1, <2>1 DEF Piped
<1>2. CASE f \in fs
  <2> SUFFICES ASSUME NEW e \in Piped(f, fs, full, X)
               PROVE  e \in Cleaned(S \union {f})
    BY <1>2
  <2>1. PICK d \in X : e \in RedactPass(f, d.table, d.text, full)
    BY <1>2 DEF Piped
  <2>2. d.table \in Tables /\ d.text \in Seq(Token) /\ S \subseteq CleanOf(d.text)
    BY DEF Cleaned, Outcomes
  <2>3. e \in Cleaned(CleanOf(d.text) \union {f})
    BY <2>1, <2>2, PassFacts, CleanOfFacts
  <2> QED BY <2>2, <2>3 DEF Cleaned
<1> QED BY <1>1, <1>2

LEMMA RedactFacts ==
  ASSUME NEW m \in Tables, NEW fs \in SUBSET AllFilters, NEW t \in Seq(Token), NEW full
  PROVE  Redact(m, fs, t, full) \in SUBSET Cleaned(CleanOf(t) \union fs)
<1> DEFINE X == {[table |-> m, text |-> t]}
           users == Piped("username", fs, full, X)
           mails == Piped("email", fs, full, users)
           S == CleanOf(t)
           S1 == S \union ({"username"} \intersect fs)
           S2 == S1 \union ({"email"} \intersect fs)
           S3 == S2 \union ({"host"} \intersect fs)
<1>1. X \in SUBSET Cleaned(S)
  BY DEF Cleaned, Outcomes
<1>2. Redact(m, fs, t, full) = Piped("host", fs, full, mails)
  BY Zenon DEF Redact, Piped
<1>3. S3 = S \union fs
  BY DEF AllFilters
<1>4. "username" \in AllFilters /\ "email" \in AllFilters /\ "host" \in AllFilters
  BY DEF AllFilters
<1> HIDE DEF X, S
<1>5. users \in SUBSET Cleaned(S1)
  BY <1>1, <1>4, PipedFacts
<1> HIDE DEF users, S1
<1>6. mails \in SUBSET Cleaned(S2)
  BY <1>4, <1>5, PipedFacts
<1> HIDE DEF mails, S2
<1>7. Piped("host", fs, full, mails) \in SUBSET Cleaned(S3)
  BY <1>4, <1>6, PipedFacts
<1> QED BY <1>2, <1>3, <1>7 DEF S

\* A plugin redacts the parts of the kinds it looks at and leaves the others as
\* they are.
Swept(S, froms, part, redacted) ==
  /\ redacted \in Part /\ redacted.from = part.from
  /\ part.from \in froms => S \subseteq CleanOf(redacted.text)
  /\ part.from \notin froms => redacted = part

LEMMA PartFacts ==
  ASSUME NEW m \in Tables, NEW fs \in SUBSET AllFilters, NEW part \in Part,
         NEW froms, NEW full, NEW q \in RedactPart(m, fs, part, froms, full),
         NEW S, part.from \in froms => S \subseteq CleanOf(part.text)
  PROVE  /\ q.table \in Tables
         /\ Swept(S \union fs, froms, part, [part EXCEPT !.text = q.text])
<1>1. part.text \in Seq(Token)
  BY DEF Part
<1>2. CASE part.from \in froms
  <2>1. q \in Cleaned(CleanOf(part.text) \union fs)
    BY <1>1, <1>2, RedactFacts DEF RedactPart
  <2>2. /\ q.table \in Tables /\ q.text \in Seq(Token)
        /\ CleanOf(part.text) \union fs \subseteq CleanOf(q.text)
    BY <2>1 DEF Cleaned, Outcomes
  <2> QED BY <1>2, <2>2 DEF Part, Swept
<1>3. CASE part.from \notin froms
  <2>1. q.table = m /\ q.text = part.text
    BY <1>3 DEF RedactPart
  <2>2. [part EXCEPT !.text = q.text] = part
    BY <2>1 DEF Part
  <2> QED BY <1>3, <2>1, <2>2 DEF Swept
<1> QED BY <1>2, <1>3

\* What a plugin makes of the first i parts.
Redone(S, froms, parts, i) ==
  {d \in [table : Tables, parts : Seq(Part)] :
     Len(d.parts) = i /\ \A j \in 1 .. i : Swept(S, froms, parts[j], d.parts[j])}

\* The plugin at one part more.
OnePart(fs, part, froms, full, X) ==
  UNION {{[table |-> q.table, parts |-> Append(d.parts, [part EXCEPT !.text = q.text])] :
            q \in RedactPart(d.table, fs, part, froms, full)} : d \in X}

LEMMA RedoneGoesOn ==
  ASSUME NEW S, NEW froms, NEW parts \in Seq(Part), NEW i \in 1 .. Len(parts),
         NEW d \in Redone(S, froms, parts, i - 1), NEW m \in Tables, NEW part \in Part,
         Swept(S, froms, parts[i], part)
  PROVE  [table |-> m, parts |-> Append(d.parts, part)] \in Redone(S, froms, parts, i)
<1> DEFINE s == d.parts
           e == [table |-> m, parts |-> Append(s, part)]
<1>1. /\ s \in Seq(Part) /\ Len(s) = i - 1 /\ i \in Nat
      /\ \A j \in 1 .. i - 1 : Swept(S, froms, parts[j], s[j])
  BY LenProperties DEF Redone
<1> HIDE DEF s
<1>2. /\ Append(s, part) \in Seq(Part) /\ Len(Append(s, part)) = i
      /\ \A j \in 1 .. i - 1 : Append(s, part)[j] = s[j]
      /\ Append(s, part)[i] = part
  BY <1>1, AppendProperties
<1>3. ASSUME NEW j \in 1 .. i
      PROVE  Swept(S, froms, parts[j], Append(s, part)[j])
  <2>1. CASE j = i
    BY <1>2, <2>1
  <2>2. CASE j # i
    <3>1. j \in 1 .. i - 1
      BY <1>1, <2>2
    <3> QED BY <1>1, <1>2, <3>1
  <2> QED BY <2>1, <2>2
<1>4. e.parts = Append(s, part) /\ e \in [table : Tables, parts : Seq(Part)]
  BY <1>2
<1> HIDE DEF e
<1>5. e \in Redone(S, froms, parts, i)
  BY <1>2, <1>3, <1>4 DEF Redone
<1> QED BY <1>5 DEF e, s

LEMMA OnePartFacts ==
  ASSUME NEW fs \in SUBSET AllFilters, NEW parts \in Seq(Part), NEW i \in 1 .. Len(parts),
         NEW froms, NEW full,
         NEW S, parts[i].from \in froms => S \subseteq CleanOf(parts[i].text),
         NEW X \in SUBSET Redone(S \union fs, froms, parts, i - 1)
  PROVE  OnePart(fs, parts[i], froms, full, X)
           \in SUBSET Redone(S \union fs, froms, parts, i)
<1> SUFFICES ASSUME NEW e \in OnePart(fs, parts[i], froms, full, X)
             PROVE  e \in Redone(S \union fs, froms, parts, i)
  OBVIOUS
<1> DEFINE more(d) == {[table |-> q.table,
                        parts |-> Append(d.parts, [parts[i] EXCEPT !.text = q.text])] :
                         q \in RedactPart(d.table, fs, parts[i], froms, full)}
<1>1. PICK d \in X : e \in more(d)
  <2> HIDE DEF more
  <2>1. OnePart(fs, parts[i], froms, full, X) = UNION {more(d) : d \in X}
    BY Zenon DEF OnePart, more
  <2> QED BY <2>1
<1>2. PICK q \in RedactPart(d.table, fs, parts[i], froms, full) :
        e = [table |-> q.table, parts |-> Append(d.parts, [parts[i] EXCEPT !.text = q.text])]
  BY <1>1
<1>3. d.table \in Tables /\ parts[i] \in Part
  BY ElementOfSeq DEF Redone
<1> DEFINE part == [parts[i] EXCEPT !.text = q.text]
           S1 == S \union fs
<1>4. q.table \in Tables /\ Swept(S1, froms, parts[i], part)
  BY <1>3, PartFacts
<1>5. part \in Part
  BY <1>4 DEF Swept
<1> HIDE DEF part, S1
<1>6. d \in Redone(S1, froms, parts, i - 1)
  BY DEF S1
<1>7. [table |-> q.table, parts |-> Append(d.parts, part)] \in Redone(S1, froms, parts, i)
  BY <1>4, <1>5, <1>6, RedoneGoesOn
<1> QED BY <1>2, <1>7 DEF part, S1

\* Where the parts lead, one after the other, the plugin leads.
PartsLead(fs, parts, froms, full, U) ==
  \A i \in 1 .. Len(parts) : \A x \in U[i - 1] :
    OnePart(fs, parts[i], froms, full, x) \in U[i]

LEMMA PartsInduction ==
  ASSUME NEW m, NEW fs, NEW parts, Len(parts) \in Nat, NEW froms, NEW full, NEW U,
         {[table |-> m, parts |-> <<>>]} \in U[0], PartsLead(fs, parts, froms, full, U)
  PROVE  RedactParts(m, fs, parts, froms, full) \in U[Len(parts)]
<1> DEFINE n == Len(parts)
           a == {[table |-> m, parts |-> <<>>]}
           Is(u) == u = [i \in 0 .. n |-> IF i = 0 THEN a ELSE OnePart(fs, parts[i], froms, full, u[i - 1])]
           G == [i \in 1 .. n |-> [x \in U[i - 1] |-> OnePart(fs, parts[i], froms, full, x)]]
           g == CHOOSE u : Is(u)
<1>1. \A i \in 1 .. n : i \in 0 .. n /\ i - 1 \in 0 .. n /\ i # 0
  OBVIOUS
<1>2. RedactParts(m, fs, parts, froms, full) = g[n]
  BY Zenon DEF RedactParts, OnePart
<1>3. ASSUME NEW i \in 1 .. n, NEW x \in U[i - 1]
      PROVE  OnePart(fs, parts[i], froms, full, x) \in U[i] /\ G[i][x] = OnePart(fs, parts[i], froms, full, x)
  BY DEF PartsLead
<1>4. n \in Nat
  OBVIOUS
<1> HIDE DEF n, G, a
<1>5. PICK u : Follows(n, U, G, a, u)
  <2>1. Leads(n, U, G)
    BY <1>3 DEF Leads
  <2>2. a \in U[0]
    BY DEF a
  <2> QED BY <1>4, <2>1, <2>2, Stepwise
<1>6. \E w : Is(w)
  <2> DEFINE w == [i \in 0 .. n |-> u[i]]
  <2>1. \A i \in 0 .. n : w[i] = u[i]
    OBVIOUS
  <2>2. ASSUME NEW i \in 0 .. n
        PROVE  w[i] = IF i = 0 THEN a ELSE OnePart(fs, parts[i], froms, full, w[i - 1])
    <3> HIDE DEF w
    <3>1. CASE i = 0
      BY <1>5, <2>1, <3>1 DEF Follows
    <3>2. CASE i # 0
      <4>1. i \in 1 .. n /\ i - 1 \in 0 .. n
        BY <1>4, <3>2
      <4>2. u[i] = OnePart(fs, parts[i], froms, full, u[i - 1])
        BY <1>3, <1>5, <4>1 DEF Follows
      <4> QED BY <2>1, <3>2, <4>1, <4>2
    <3> QED BY <3>1, <3>2
  <2>3. w = [i \in 0 .. n |-> w[i]]
    OBVIOUS
  <2> HIDE DEF w
  <2>4. Is(w)
    BY <2>2, <2>3
  <2> QED BY <2>4
<1>7. Is(g)
  BY <1>6, Zenon
<1> HIDE DEF g
<1> DEFINE T == {i \in 0 .. n : g[i] \in U[i]}
<1>8. 0 \in T
  BY <1>4, <1>7 DEF a
<1>9. ASSUME NEW i \in 1 .. n, i - 1 \in T PROVE i \in T
  BY <1>1, <1>3, <1>7, <1>9
<1> HIDE DEF T
<1>10. 0 .. n \subseteq T
  BY <1>4, <1>8, <1>9, UpTo
<1>11. n \in 0 .. n /\ n \in T
  BY <1>4, <1>10
<1> QED BY <1>2, <1>11 DEF T, n

LEMMA PartsFacts ==
  ASSUME NEW m \in Tables, NEW fs \in SUBSET AllFilters, NEW parts \in Seq(Part),
         NEW froms, NEW full,
         NEW S, \A j \in 1 .. Len(parts) : parts[j].from \in froms => S \subseteq CleanOf(parts[j].text),
         NEW d \in RedactParts(m, fs, parts, froms, full)
  PROVE  d \in Redone(S \union fs, froms, parts, Len(parts))
<1> DEFINE n == Len(parts)
           R(i) == Redone(S \union fs, froms, parts, i)
           U == [i \in 0 .. n |-> SUBSET R(i)]
<1>1. n \in Nat /\ \A i \in 1 .. n : i \in 0 .. n /\ i - 1 \in 0 .. n
  BY LenProperties
<1>2. [table |-> m, parts |-> <<>>] \in R(0)
  BY DEF Redone
<1>3. \A i \in 0 .. n : U[i] = SUBSET R(i)
  OBVIOUS
<1> HIDE DEF U
<1>4. ASSUME NEW i \in 1 .. n, NEW x \in SUBSET R(i - 1)
      PROVE  OnePart(fs, parts[i], froms, full, x) \in SUBSET R(i)
  BY OnePartFacts
<1> HIDE DEF R
<1>5. {[table |-> m, parts |-> <<>>]} \in U[0]
  BY <1>1, <1>2, <1>3
<1>6. PartsLead(fs, parts, froms, full, U)
  BY <1>1, <1>3, <1>4 DEF PartsLead
<1>7. RedactParts(m, fs, parts, froms, full) \in U[n]
  BY <1>1, <1>5, <1>6, PartsInduction
<1>8. n \in 0 .. n
  BY <1>1
<1> QED BY <1>3, <1>7, <1>8 DEF R

-----------------------------------------------------------------------------
(***************************************************************************)
(* The chain of plugins.                                                   *)
(***************************************************************************)

\* The filters of the first i plugins.
FirstOf(i) == UNION {plugins[k] : k \in 1 .. i}

\* One plugin more.
OnePlugin(fs, froms, X) ==
  UNION {RedactParts(d.table, fs, d.parts, froms, WordsOf(d.parts, froms)) : d \in X}

LEMMA SweptOnwards ==
  ASSUME NEW S, NEW R, NEW froms, NEW a, NEW b, NEW c,
         Swept(S, froms, a, b), Swept(R, froms, b, c)
  PROVE  Swept(R, froms, a, c)
BY DEF Swept

LEMMA OnePluginFacts ==
  ASSUME NEW fs \in SUBSET AllFilters, NEW parts \in Seq(Part), NEW froms, NEW S,
         NEW X \in SUBSET Redone(S, froms, parts, Len(parts))
  PROVE  OnePlugin(fs, froms, X) \in SUBSET Redone(S \union fs, froms, parts, Len(parts))
<1> SUFFICES ASSUME NEW e \in OnePlugin(fs, froms, X)
             PROVE  e \in Redone(S \union fs, froms, parts, Len(parts))
  OBVIOUS
<1>1. PICK d \in X : e \in RedactParts(d.table, fs, d.parts, froms, WordsOf(d.parts, froms))
  BY DEF OnePlugin
<1>2. /\ d.table \in Tables /\ d.parts \in Seq(Part) /\ Len(d.parts) = Len(parts)
      /\ \A j \in 1 .. Len(parts) : Swept(S, froms, parts[j], d.parts[j])
  BY DEF Redone
<1>3. \A j \in 1 .. Len(d.parts) :
        d.parts[j].from \in froms => S \subseteq CleanOf(d.parts[j].text)
  BY <1>2 DEF Swept
<1>4. e \in Redone(S \union fs, froms, d.parts, Len(d.parts))
  <2> DEFINE s == d.parts
             m == d.table
  <2>1. m \in Tables /\ s \in Seq(Part)
        /\ \A j \in 1 .. Len(s) : s[j].from \in froms => S \subseteq CleanOf(s[j].text)
    BY <1>2, <1>3
  <2>2. e \in RedactParts(m, fs, s, froms, WordsOf(s, froms))
    BY <1>1
  <2> HIDE DEF s, m
  <2>3. e \in Redone(S \union fs, froms, s, Len(s))
    BY <2>1, <2>2, PartsFacts
  <2> QED BY <2>3 DEF s
<1> DEFINE S1 == S \union fs
<1> HIDE DEF S1
<1>5. /\ e \in [table : Tables, parts : Seq(Part)] /\ Len(e.parts) = Len(parts)
      /\ \A j \in 1 .. Len(parts) : Swept(S1, froms, d.parts[j], e.parts[j])
  BY <1>2, <1>4 DEF Redone, S1
<1>6. \A j \in 1 .. Len(parts) : Swept(S1, froms, parts[j], e.parts[j])
  BY <1>2, <1>5, SweptOnwards
<1> QED BY <1>5, <1>6 DEF Redone, S1

\* Where the plugins lead, one after the other, the chain leads.
ChainLeads(froms, U) ==
  \A i \in 1 .. Len(plugins) : \A x \in U[i - 1] : OnePlugin(plugins[i], froms, x) \in U[i]

LEMMA ChainInduction ==
  ASSUME Len(plugins) \in Nat, NEW m, NEW parts, NEW froms, NEW U,
         {[table |-> m, parts |-> parts]} \in U[0], ChainLeads(froms, U)
  PROVE  Chain(m, parts, froms) \in U[Len(plugins)]
<1> DEFINE n == Len(plugins)
           a == {[table |-> m, parts |-> parts]}
           Is(u) == u = [i \in 0 .. n |-> IF i = 0 THEN a ELSE OnePlugin(plugins[i], froms, u[i - 1])]
           G == [i \in 1 .. n |-> [x \in U[i - 1] |-> OnePlugin(plugins[i], froms, x)]]
           g == CHOOSE u : Is(u)
<1>1. \A i \in 1 .. n : i \in 0 .. n /\ i - 1 \in 0 .. n /\ i # 0
  OBVIOUS
<1>2. Chain(m, parts, froms) = g[n]
  BY Zenon DEF Chain, OnePlugin
<1>3. ASSUME NEW i \in 1 .. n, NEW x \in U[i - 1]
      PROVE  OnePlugin(plugins[i], froms, x) \in U[i] /\ G[i][x] = OnePlugin(plugins[i], froms, x)
  BY DEF ChainLeads
<1>4. n \in Nat
  OBVIOUS
<1> HIDE DEF n, G, a
<1>5. PICK u : Follows(n, U, G, a, u)
  <2>1. Leads(n, U, G)
    BY <1>3 DEF Leads
  <2>2. a \in U[0]
    BY DEF a
  <2> QED BY <1>4, <2>1, <2>2, Stepwise
<1>6. \E w : Is(w)
  <2> DEFINE w == [i \in 0 .. n |-> u[i]]
  <2>1. \A i \in 0 .. n : w[i] = u[i]
    OBVIOUS
  <2>2. ASSUME NEW i \in 0 .. n
        PROVE  w[i] = IF i = 0 THEN a ELSE OnePlugin(plugins[i], froms, w[i - 1])
    <3> HIDE DEF w
    <3>1. CASE i = 0
      BY <1>5, <2>1, <3>1 DEF Follows
    <3>2. CASE i # 0
      <4>1. i \in 1 .. n /\ i - 1 \in 0 .. n
        BY <1>4, <3>2
      <4>2. u[i] = OnePlugin(plugins[i], froms, u[i - 1])
        BY <1>3, <1>5, <4>1 DEF Follows
      <4> QED BY <2>1, <3>2, <4>1, <4>2
    <3> QED BY <3>1, <3>2
  <2>3. w = [i \in 0 .. n |-> w[i]]
    OBVIOUS
  <2> HIDE DEF w
  <2>4. Is(w)
    BY <2>2, <2>3
  <2> QED BY <2>4
<1>7. Is(g)
  BY <1>6, Zenon
<1> HIDE DEF g
<1> DEFINE T == {i \in 0 .. n : g[i] \in U[i]}
<1>8. 0 \in T
  BY <1>4, <1>7 DEF a
<1>9. ASSUME NEW i \in 1 .. n, i - 1 \in T PROVE i \in T
  BY <1>1, <1>3, <1>7, <1>9
<1> HIDE DEF T
<1>10. 0 .. n \subseteq T
  BY <1>4, <1>8, <1>9, UpTo
<1>11. n \in 0 .. n /\ n \in T
  BY <1>4, <1>10
<1> QED BY <1>2, <1>11 DEF T, n

LEMMA ChainFacts ==
  ASSUME plugins \in Seq(SUBSET AllFilters), NEW m \in Tables, NEW parts \in Seq(Part), NEW froms,
         NEW d \in Chain(m, parts, froms)
  PROVE  d \in Redone(Enabled, froms, parts, Len(parts))
<1> DEFINE n == Len(plugins)
           R(i) == Redone(FirstOf(i), froms, parts, Len(parts))
           U == [i \in 0 .. n |-> SUBSET R(i)]
<1>1. n \in Nat /\ \A i \in 1 .. n : i \in 0 .. n /\ i - 1 \in 0 .. n
  BY LenProperties
<1>2. FirstOf(0) = {} /\ FirstOf(n) = Enabled
  <2>1. DOMAIN plugins = 1 .. n
    BY LenProperties
  <2> QED BY <2>1 DEF FirstOf, Enabled
<1>3. ASSUME NEW i \in 1 .. n
      PROVE  plugins[i] \in SUBSET AllFilters /\ FirstOf(i) = FirstOf(i - 1) \union plugins[i]
  <2>1. plugins[i] \in SUBSET AllFilters
    BY ElementOfSeq
  <2>2. 1 .. i = (1 .. i - 1) \union {i}
    BY <1>1
  <2>3. FirstOf(i) = FirstOf(i - 1) \union plugins[i]
    BY <2>2, Zenon DEF FirstOf
  <2> QED BY <2>1, <2>3
<1>4. [table |-> m, parts |-> parts] \in R(0)
  <2>1. \A j \in 1 .. Len(parts) : parts[j] \in Part
    BY ElementOfSeq
  <2> QED BY <1>2, <2>1 DEF Redone, Swept
<1>5. ASSUME NEW i \in 1 .. n, NEW x \in SUBSET R(i - 1)
      PROVE  OnePlugin(plugins[i], froms, x) \in SUBSET R(i)
  <2> DEFINE S == FirstOf(i - 1)
             fs == plugins[i]
  <2>1. fs \in SUBSET AllFilters /\ FirstOf(i) = S \union fs
    BY <1>3
  <2>2. x \in SUBSET Redone(S, froms, parts, Len(parts))
    OBVIOUS
  <2> HIDE DEF S, fs
  <2>3. OnePlugin(fs, froms, x) \in SUBSET Redone(S \union fs, froms, parts, Len(parts))
    BY <2>1, <2>2, OnePluginFacts
  <2> QED BY <2>1, <2>3 DEF fs
<1>6. \A i \in 0 .. n : U[i] = SUBSET R(i)
  OBVIOUS
<1> HIDE DEF U, R
<1>7. {[table |-> m, parts |-> parts]} \in U[0]
  BY <1>1, <1>4, <1>6
<1>8. ChainLeads(froms, U)
  BY <1>1, <1>5, <1>6 DEF ChainLeads
<1>9. Chain(m, parts, froms) \in U[n]
  BY <1>1, <1>7, <1>8, ChainInduction
<1>10. n \in 0 .. n
  BY <1>1
<1> QED BY <1>2, <1>6, <1>9, <1>10 DEF R

-----------------------------------------------------------------------------
(***************************************************************************)
(* The way back.                                                           *)
(***************************************************************************)

LEMMA RestoreFacts ==
  ASSUME NEW m \in Tables, NEW token \in Token
  PROVE  Restore(m, token) \in Token
<1> DEFINE whole == WithTld(token.word, token.tld)
<1>1. \A k \in DOMAIN m : m[k] \in Word
  BY TableFacts
<1>2. CASE token.tld # NoTld /\ whole \in DOMAIN m
  <2>1. WithTld(m[whole], NoTld) \in Word /\ m[whole].tld \in Tld \union {NoTld}
    BY <1>1, <1>2, WithTldFacts DEF Word
  <2>2. Restore(m, token)
          = [token EXCEPT !.word = WithTld(m[whole], NoTld), !.tld = m[whole].tld]
    BY <1>2 DEF Restore
  <2> HIDE DEF whole
  <2> QED BY <2>1, <2>2 DEF Token
<1>3. CASE ~(token.tld # NoTld /\ whole \in DOMAIN m) /\ token.word \in DOMAIN m
  BY <1>1, <1>3 DEF Restore, Token
<1>4. CASE ~(token.tld # NoTld /\ whole \in DOMAIN m) /\ token.word \notin DOMAIN m
  BY <1>4 DEF Restore
<1> QED BY <1>2, <1>3, <1>4

LEMMA UnredactFacts ==
  ASSUME NEW m \in Tables, NEW fs, NEW t \in Seq(Token)
  PROVE  Unredact(m, fs, t) \in Seq(Token)
<1>1. ASSUME NEW s \in Seq(Token) PROVE UnredactText(m, s) \in Seq(Token)
  <2>1. DOMAIN s = 1 .. Len(s) /\ Len(s) \in Nat
    BY LenProperties
  <2>2. \A i \in 1 .. Len(s) : Restore(m, s[i]) \in Token
    BY ElementOfSeq, RestoreFacts
  <2>3. UnredactText(m, s) \in [1 .. Len(s) -> Token]
    BY <2>1, <2>2 DEF UnredactText
  <2> QED BY <2>1, <2>3, SeqDef
<1> DEFINE pass(f, s) == IF f \in fs THEN UnredactText(m, s) ELSE s
<1>2. \A f : \A s \in Seq(Token) : pass(f, s) \in Seq(Token)
  BY <1>1
<1>3. Unredact(m, fs, t) = pass("username", pass("email", pass("host", t)))
  BY Zenon DEF Unredact
<1> HIDE DEF pass
<1> QED BY <1>2, <1>3

\* Where the plugins lead on the way back, one after the other, all of them lead.
WayBack(U) ==
  \A i \in 1 .. Len(plugins) : \A x \in U[i - 1] : Unredact(table, plugins[i], x) \in U[i]

LEMMA RestoredInduction ==
  ASSUME Len(plugins) \in Nat, NEW t, NEW U,
         t \in U[0], WayBack(U)
  PROVE  Restored(t) \in U[Len(plugins)]
<1> DEFINE n == Len(plugins)
           a == t
           Is(u) == u = [i \in 0 .. n |-> IF i = 0 THEN a ELSE Unredact(table, plugins[i], u[i - 1])]
           G == [i \in 1 .. n |-> [x \in U[i - 1] |-> Unredact(table, plugins[i], x)]]
           g == CHOOSE u : Is(u)
<1>1. \A i \in 1 .. n : i \in 0 .. n /\ i - 1 \in 0 .. n /\ i # 0
  OBVIOUS
<1>2. Restored(t) = g[n]
  BY Zenon DEF Restored
<1>3. ASSUME NEW i \in 1 .. n, NEW x \in U[i - 1]
      PROVE  Unredact(table, plugins[i], x) \in U[i] /\ G[i][x] = Unredact(table, plugins[i], x)
  BY DEF WayBack
<1>4. n \in Nat
  OBVIOUS
<1> HIDE DEF n, G, a
<1>5. PICK u : Follows(n, U, G, a, u)
  <2>1. Leads(n, U, G)
    BY <1>3 DEF Leads
  <2>2. a \in U[0]
    BY DEF a
  <2> QED BY <1>4, <2>1, <2>2, Stepwise
<1>6. \E w : Is(w)
  <2> DEFINE w == [i \in 0 .. n |-> u[i]]
  <2>1. \A i \in 0 .. n : w[i] = u[i]
    OBVIOUS
  <2>2. ASSUME NEW i \in 0 .. n
        PROVE  w[i] = IF i = 0 THEN a ELSE Unredact(table, plugins[i], w[i - 1])
    <3> HIDE DEF w
    <3>1. CASE i = 0
      BY <1>5, <2>1, <3>1 DEF Follows
    <3>2. CASE i # 0
      <4>1. i \in 1 .. n /\ i - 1 \in 0 .. n
        BY <1>4, <3>2
      <4>2. u[i] = Unredact(table, plugins[i], u[i - 1])
        BY <1>3, <1>5, <4>1 DEF Follows
      <4> QED BY <2>1, <3>2, <4>1, <4>2
    <3> QED BY <3>1, <3>2
  <2>3. w = [i \in 0 .. n |-> w[i]]
    OBVIOUS
  <2> HIDE DEF w
  <2>4. Is(w)
    BY <2>2, <2>3
  <2> QED BY <2>4
<1>7. Is(g)
  BY <1>6, Zenon
<1> HIDE DEF g
<1> DEFINE T == {i \in 0 .. n : g[i] \in U[i]}
<1>8. 0 \in T
  BY <1>4, <1>7 DEF a
<1>9. ASSUME NEW i \in 1 .. n, i - 1 \in T PROVE i \in T
  BY <1>1, <1>3, <1>7, <1>9
<1> HIDE DEF T
<1>10. 0 .. n \subseteq T
  BY <1>4, <1>8, <1>9, UpTo
<1>11. n \in 0 .. n /\ n \in T
  BY <1>4, <1>10
<1> QED BY <1>2, <1>11 DEF T, n

LEMMA RestoredFacts ==
  ASSUME plugins \in Seq(SUBSET AllFilters), table \in Tables, NEW t \in Seq(Token)
  PROVE  Restored(t) \in Seq(Token)
<1> DEFINE n == Len(plugins)
           U == [i \in 0 .. n |-> Seq(Token)]
<1>1. n \in Nat /\ \A i \in 1 .. n : i \in 0 .. n /\ i - 1 \in 0 .. n
  BY LenProperties
<1>2. \A i \in 0 .. n : U[i] = Seq(Token)
  OBVIOUS
<1> HIDE DEF U
<1>3. WayBack(U)
  BY <1>1, <1>2, UnredactFacts DEF WayBack
<1>4. t \in U[0]
  BY <1>1, <1>2
<1>5. Restored(t) \in U[n]
  BY <1>1, <1>3, <1>4, RestoredInduction
<1>6. n \in 0 .. n
  BY <1>1
<1> QED BY <1>2, <1>5, <1>6

-----------------------------------------------------------------------------
(***************************************************************************)
(* The inductive invariant.                                                *)
(***************************************************************************)

Payload == {"args", "result"}

\* A call is under way: its arguments end the session.
Calling == phase \in {"call", "run", "failed", "returned"}

Typed ==
  /\ plugins \in Registrations /\ runner \in Runners
  /\ table \in Tables
  /\ session \in Seq(Part) /\ request \in Seq(Part)
  /\ phase \in Phases
  /\ answer = <<>> \/ answer \in Part
  /\ out \in Seq(Token)
  /\ unswept \subseteq 1 .. Len(session)
  /\ {again, restarted} \subseteq BOOLEAN

\* What the answer is, where there is one.
Answered ==
  /\ phase = "answer" => answer \in Part /\ answer.from \in {"model", "args"}
  /\ phase \in {"failed", "returned"} => answer \in Part /\ answer.from = "result"
  /\ Calling => session # <<>> /\ Args.from = "args"

\* What the model says is clean while every request was.
Said == phase = "answer" /\ unswept = {} => Enabled \subseteq CleanOf(answer.text)

\* The payloads that are swept are clean, except for that of the call under way.
Tidy ==
  \A i \in 1 .. Len(session) : i \notin unswept /\ session[i].from \in Payload =>
    Enabled \subseteq CleanOf(session[i].text) \/ (Exposed /\ i = Len(session))

\* In the request the model has got, what is swept is clean.
Sent ==
  phase = "model" =>
    \A i \in 1 .. Len(request) : i \notin unswept => Enabled \subseteq CleanOf(request[i].text)

Inv == Typed /\ Answered /\ Said /\ Tidy /\ Sent

LEMMA PluginFacts ==
  ASSUME NEW p \in Registrations
  PROVE  p \in Seq(SUBSET AllFilters)
<1>1. p \in Seq((SUBSET AllFilters) \ {{}})
  BY AgentFlowAssumption
<1>2. (SUBSET AllFilters) \ {{}} \subseteq SUBSET AllFilters
  OBVIOUS
<1> QED BY <1>1, <1>2, SeqMonotonic

\* A part more, and no call under way before.
LEMMA AppendedFacts ==
  ASSUME session \in Seq(Part), NEW part \in Part, session' = Append(session, part)
  PROVE  /\ session' \in Seq(Part) /\ session' # <<>>
         /\ Len(session') = Len(session) + 1 /\ Len(session) \in Nat
         /\ \A i \in 1 .. Len(session) : session'[i] = session[i]
         /\ session'[Len(session')] = part
<1>1. /\ session' \in Seq(Part) /\ Len(session') = Len(session) + 1 /\ Len(session) \in Nat
      /\ \A i \in 1 .. Len(session) : session'[i] = session[i]
      /\ session'[Len(session')] = part
  BY AppendProperties, LenProperties
<1>2. session' # <<>>
  BY <1>1
<1> QED BY <1>1, <1>2

LEMMA InvInit == Init => Inv
<1> SUFFICES ASSUME Init PROVE Inv
  OBVIOUS
<1>1. Typed
  <2>1. table \in Tables
    BY NoTable DEF Init
  <2>2. session \in Seq(Part) /\ request \in Seq(Part) /\ out \in Seq(Token)
    BY DEF Init
  <2>3. plugins \in Registrations /\ runner \in Runners /\ phase \in Phases /\ answer = <<>>
    BY DEF Init, Phases
  <2>4. {again, restarted} \subseteq BOOLEAN
    BY Zenon DEF Init
  <2>5. unswept \subseteq 1 .. Len(session)
    BY Zenon DEF Init
  <2> QED BY <2>1, <2>2, <2>3, <2>4, <2>5 DEF Typed
<1>2. Len(session) = 0
  BY DEF Init
<1> QED BY <1>1, <1>2 DEF Init, Inv, Answered, Said, Tidy, Sent, Calling

LEMMA UserSaysKeeps ==
  ASSUME Inv, NEW t \in UserTexts, UserSays(t)
  PROVE  Inv'
<1> DEFINE part == [from |-> "user", text |-> t]
<1>1. /\ phase = "idle" /\ phase' = "request" /\ session' = Append(session, part)
      /\ UNCHANGED <<plugins, runner, table, request, answer, out, again, unswept, restarted>>
  BY DEF UserSays, registered, history
<1>2. t \in Seq(Token)
  BY AgentFlowAssumption DEF IsText
<1>3. part \in Part /\ part.from = "user"
  BY <1>2 DEF Part
<1> HIDE DEF part
<1>4. /\ session' \in Seq(Part) /\ Len(session') = Len(session) + 1 /\ Len(session) \in Nat
      /\ \A i \in 1 .. Len(session) : session'[i] = session[i]
      /\ session'[Len(session')] = part
  BY <1>1, <1>3, AppendedFacts DEF Inv, Typed
<1>5. Typed'
  BY <1>1, <1>4 DEF Inv, Typed, Phases
<1>6. Answered'
  BY <1>1 DEF Answered, Calling
<1>7. Tidy'
  <2> SUFFICES ASSUME NEW i \in 1 .. Len(session'), i \notin unswept, session'[i].from \in Payload
               PROVE  Enabled \subseteq CleanOf(session'[i].text)
    BY <1>1 DEF Tidy, Enabled
  <2>1. i \in 1 .. Len(session)
    BY <1>3, <1>4 DEF Payload
  <2> QED BY <1>1, <1>4, <2>1 DEF Inv, Tidy, Exposed
<1>8. Said' /\ Sent'
  BY <1>1 DEF Said, Sent
<1> QED BY <1>5, <1>6, <1>7, <1>8 DEF Inv

LEMMA BeforeModelKeeps ==
  ASSUME Inv, BeforeModel
  PROVE  Inv'
<1>1. PICK q \in RedactRequest(table, session) :
        /\ table' = q.table /\ request' = q.parts
        /\ session' = IF runner.aliased THEN q.parts ELSE session
  BY DEF BeforeModel
<1>2. /\ phase = "request" /\ phase' = "model"
      /\ again' = (again \/ (runner.aliased /\ Len(session) > 1))
      /\ UNCHANGED <<plugins, runner, answer, out, unswept, restarted>>
  BY DEF BeforeModel, registered
<1>3. q \in Redone(Enabled, TextParts, session, Len(session))
  <2>1. plugins \in Seq(SUBSET AllFilters)
    BY PluginFacts DEF Inv, Typed
  <2> QED BY <1>1, <2>1, ChainFacts DEF RedactRequest, Inv, Typed
<1>4. /\ q.table \in Tables /\ q.parts \in Seq(Part) /\ Len(q.parts) = Len(session)
      /\ \A i \in 1 .. Len(session) : Swept(Enabled, TextParts, session[i], q.parts[i])
  BY <1>3 DEF Redone
<1>5. Typed'
  BY <1>1, <1>2, <1>4 DEF Inv, Typed, Phases
<1>6. Answered'
  BY <1>2 DEF Answered, Calling
<1>7. ASSUME NEW i \in 1 .. Len(session), i \notin unswept
      PROVE  /\ session[i].from \in Payload => Enabled \subseteq CleanOf(session[i].text)
             /\ Enabled \subseteq CleanOf(q.parts[i].text)
             /\ q.parts[i].from = session[i].from
  <2>1. session[i].from \in Payload => Enabled \subseteq CleanOf(session[i].text)
    BY <1>2, <1>7 DEF Inv, Tidy, Exposed
  <2>2. session[i] \in Part
    BY ElementOfSeq DEF Inv, Typed
  <2>3. session[i].from \in Payload \/ session[i].from \in TextParts
    BY <2>2 DEF Part, Payload, TextParts
  <2> QED BY <1>4, <2>1, <2>3 DEF Swept
<1>8. Tidy'
  <2> SUFFICES ASSUME NEW i \in 1 .. Len(session'), i \notin unswept, session'[i].from \in Payload
               PROVE  Enabled \subseteq CleanOf(session'[i].text)
    BY <1>2 DEF Tidy, Enabled
  <2>1. i \in 1 .. Len(session)
    BY <1>1, <1>4
  <2> QED BY <1>1, <1>7, <2>1
<1>9. Sent'
  <2> SUFFICES ASSUME NEW i \in 1 .. Len(request'), i \notin unswept
               PROVE  Enabled \subseteq CleanOf(request'[i].text)
    BY <1>2 DEF Sent, Enabled
  <2>1. i \in 1 .. Len(session)
    BY <1>1, <1>4
  <2> QED BY <1>1, <1>7, <2>1
<1>10. Said'
  BY <1>2 DEF Said
<1> QED BY <1>5, <1>6, <1>8, <1>9, <1>10 DEF Inv

\* Plugins are sets of filters.
LEMMA EnabledFacts ==
  ASSUME Inv
  PROVE  Enabled \subseteq AllFilters
<1>1. \A i \in DOMAIN plugins : plugins[i] \in SUBSET AllFilters
  BY PluginFacts, LenProperties, ElementOfSeq DEF Inv, Typed
<1> QED BY <1>1 DEF Enabled

\* What the model takes up are tokens, and as clean as the request.
LEMMA EchoFacts ==
  ASSUME Inv, NEW token \in Echoes
  PROVE  /\ token \in Token
         /\ phase = "model" /\ unswept = {} => Enabled \subseteq CleanOf(<<token>>)
<1> DEFINE said == UNION {Range(p.text) : p \in Range(request)}
<1>1. /\ said \subseteq Token
      /\ phase = "model" /\ unswept = {} => \A t \in said, f \in Enabled : Clean(f, t)
  <2> SUFFICES ASSUME NEW p \in Range(request), NEW t \in Range(p.text)
               PROVE  /\ t \in Token
                      /\ phase = "model" /\ unswept = {} => \A f \in Enabled : Clean(f, t)
    OBVIOUS
  <2>1. PICK i \in DOMAIN request : p = request[i]
    BY DEF Range
  <2>2. p \in Part
    BY <2>1, LenProperties, ElementOfSeq DEF Inv, Typed
  <2>3. p.text \in Seq(Token)
    BY <2>2 DEF Part
  <2>4. PICK j \in DOMAIN p.text : t = p.text[j]
    BY DEF Range
  <2>5. t \in Token
    BY <2>3, <2>4, LenProperties, ElementOfSeq
  <2>6. phase = "model" /\ unswept = {} => Enabled \subseteq CleanOf(p.text)
    <3>1. i \in 1 .. Len(request)
      BY <2>1, LenProperties DEF Inv, Typed
    <3> QED BY <2>1, <3>1 DEF Inv, Sent
  <2> QED BY <2>4, <2>5, <2>6 DEF CleanOf
<1>2. token \in said \/ \E t \in said : token = [kind |-> "word", word |-> t.word, tld |-> NoTld]
  BY DEF Echoes
<1> HIDE DEF said
<1>3. token \in Token
  BY <1>1, <1>2 DEF Token, Kinds
<1>4. ASSUME phase = "model", unswept = {}, NEW f \in Enabled PROVE Clean(f, token)
  <2>1. \A t \in said : Clean(f, t)
    BY <1>1, <1>4
  <2>2. PICK t \in said : token = t \/ token = [kind |-> "word", word |-> t.word, tld |-> NoTld]
    BY <1>2
  <2>3. token.word = t.word /\ (token = t \/ token.kind = "word")
    BY <2>2
  <2>4. f \in AllFilters
    BY EnabledFacts
  <2>5. Matches(f, token) => Matches(f, t)
    <3>1. CASE f = "username"
      BY <2>3, <3>1 DEF Matches
    <3>2. CASE f = "email"
      BY <2>3, <3>2 DEF Matches
    <3>3. CASE f = "host"
      BY <2>3, <3>3 DEF Matches
    <3> QED BY <2>4, <3>1, <3>2, <3>3 DEF AllFilters
  <2> QED BY <2>1, <2>3, <2>5 DEF Clean
<1>5. ASSUME phase = "model", unswept = {} PROVE Enabled \subseteq CleanOf(<<token>>)
  <2>1. Enabled \subseteq AllFilters
    BY EnabledFacts
  <2>2. \A i \in DOMAIN <<token>> : <<token>>[i] = token
    OBVIOUS
  <2> QED BY <1>4, <1>5, <2>1, <2>2 DEF CleanOf
<1> QED BY <1>3, <1>5

LEMMA ModelRepliesKeeps ==
  ASSUME Inv, NEW from \in {"model", "args"}, NEW token \in Echoes, ModelReplies(from, token)
  PROVE  Inv'
<1>1. /\ phase = "model" /\ phase' = "answer" /\ answer' = [from |-> from, text |-> <<token>>]
      /\ UNCHANGED <<plugins, runner, table, session, request, out, again, unswept, restarted>>
  BY DEF ModelReplies, registered, history
<1>2. <<token>> \in Seq(Token)
  <2>1. token \in Token
    BY EchoFacts
  <2> QED BY <2>1
<1>3. answer' \in Part /\ answer'.from = from
  BY <1>1, <1>2 DEF Part
<1>4. Typed'
  BY <1>1, <1>3 DEF Inv, Typed, Phases
<1>5. Answered'
  BY <1>1, <1>3 DEF Answered, Calling
<1>6. Tidy'
  BY <1>1 DEF Inv, Tidy, Exposed, Enabled
<1>7. Sent'
  BY <1>1 DEF Sent
<1>8. Said'
  BY <1>1, EchoFacts DEF Said, Enabled
<1> QED BY <1>4, <1>5, <1>6, <1>7, <1>8 DEF Inv

LEMMA ModelFailsKeeps ==
  ASSUME Inv, ModelFails
  PROVE  Inv'
<1>1. /\ phase = "model" /\ phase' = "idle"
      /\ UNCHANGED <<plugins, runner, table, session, request, answer, out, again, unswept, restarted>>
  BY DEF ModelFails, registered, history
<1>2. Typed'
  BY <1>1 DEF Inv, Typed, Phases
<1>3. Answered' /\ Said' /\ Sent'
  BY <1>1 DEF Answered, Said, Sent, Calling
<1>4. Tidy'
  BY <1>1 DEF Inv, Tidy, Exposed, Enabled
<1> QED BY <1>2, <1>3, <1>4 DEF Inv

LEMMA AfterModelKeeps ==
  ASSUME Inv, AfterModel
  PROVE  Inv'
<1> DEFINE text == IF HasText(answer) THEN Restored(answer.text) ELSE answer.text
           part == [answer EXCEPT !.text = text]
<1>1. /\ phase = "answer" /\ phase' = IF HasText(answer) THEN "idle" ELSE "call"
      /\ session' = Append(session, part)
      /\ out' = IF HasText(answer) THEN text ELSE out
      /\ UNCHANGED <<plugins, runner, table, request, answer, again, unswept, restarted>>
  BY DEF AfterModel, registered
<1>2. answer \in Part /\ answer.from \in {"model", "args"} /\ answer.text \in Seq(Token)
  BY <1>1 DEF Inv, Answered, Part
<1>3. text \in Seq(Token)
  <2>1. plugins \in Seq(SUBSET AllFilters) /\ table \in Tables
    BY PluginFacts DEF Inv, Typed
  <2> QED BY <1>2, <2>1, RestoredFacts
<1> HIDE DEF text
<1>4. part \in Part /\ part.from = answer.from
  BY <1>2, <1>3 DEF Part
<1> HIDE DEF part
<1>5. /\ session' \in Seq(Part) /\ session' # <<>>
      /\ Len(session') = Len(session) + 1 /\ Len(session) \in Nat
      /\ \A i \in 1 .. Len(session) : session'[i] = session[i]
      /\ session'[Len(session')] = part
  BY <1>1, <1>4, AppendedFacts DEF Inv, Typed
<1>6. Typed'
  BY <1>1, <1>3, <1>5 DEF Inv, Typed, Phases
<1>7. Answered'
  <2>1. phase' = "call" => answer.from = "args"
    BY <1>1, <1>2 DEF HasText, TextParts
  <2>2. Args' = part
    BY <1>5 DEF Args, Last
  <2> QED BY <1>1, <1>4, <1>5, <2>1, <2>2 DEF Answered, Calling
<1>8. Tidy'
  <2> SUFFICES ASSUME NEW i \in 1 .. Len(session'), i \notin unswept, session'[i].from \in Payload
               PROVE  \/ Enabled \subseteq CleanOf(session'[i].text)
                      \/ Exposed' /\ i = Len(session')
    BY <1>1 DEF Tidy, Enabled
  <2>1. CASE i \in 1 .. Len(session)
    BY <1>1, <1>5, <2>1 DEF Inv, Tidy, Exposed
  <2>2. CASE i = Len(session')
    <3>1. answer.from = "args"
      BY <1>2, <1>4, <1>5, <2>2 DEF Payload
    <3>2. phase' = "call" /\ text = answer.text
      BY <1>1, <3>1 DEF HasText, TextParts, text
    <3>3. CASE unswept = {}
      <4>1. session'[i].text = answer.text
        BY <1>2, <1>5, <2>2, <3>2 DEF part, Part
      <4> QED BY <1>1, <3>3, <4>1 DEF Inv, Said
    <3>4. CASE unswept # {}
      BY <1>1, <2>2, <3>2, <3>4 DEF Exposed
    <3> QED BY <3>3, <3>4
  <2> QED BY <1>5, <2>1, <2>2
<1>9. Said' /\ Sent'
  BY <1>1 DEF Said, Sent
<1> QED BY <1>6, <1>7, <1>8, <1>9 DEF Inv

LEMMA BeforeToolKeeps ==
  ASSUME Inv, BeforeTool
  PROVE  Inv'
<1> DEFINE text == Restored(Args.text)
           n == Len(session)
<1>1. /\ phase = "call" /\ phase' = "run"
      /\ session' = [session EXCEPT ![n].text = text]
      /\ out' = text
      /\ UNCHANGED <<plugins, runner, table, request, answer, again, unswept, restarted>>
  BY DEF BeforeTool, registered
<1>2. session # <<>> /\ Args.from = "args" /\ Args = session[n]
  BY <1>1 DEF Inv, Answered, Calling, Args, Last
<1>3. session \in Seq(Part) /\ n \in 1 .. n /\ n \in Nat
  BY <1>2, EmptySeq DEF Inv, Typed
<1>4. Args \in Part /\ Args.text \in Seq(Token)
  <2>1. session[n] \in Part
    BY <1>3, ElementOfSeq
  <2> QED BY <1>2, <2>1 DEF Part
<1>5. text \in Seq(Token)
  <2>1. plugins \in Seq(SUBSET AllFilters) /\ table \in Tables
    BY PluginFacts DEF Inv, Typed
  <2> QED BY <1>4, <2>1, RestoredFacts
<1> HIDE DEF text
<1> DEFINE part == [Args EXCEPT !.text = text]
<1>6. part \in Part /\ part.from = "args"
  BY <1>2, <1>4, <1>5 DEF Part
<1>7. session' = [session EXCEPT ![n] = part]
  BY <1>1, <1>2
<1> HIDE DEF part, n
<1>8. /\ session' \in Seq(Part) /\ Len(session') = n
      /\ \A i \in 1 .. n : session'[i] = IF i = n THEN part ELSE session[i]
  BY <1>3, <1>6, <1>7, ExceptSeq DEF n
<1>9. Typed'
  BY <1>1, <1>5, <1>8 DEF Inv, Typed, Phases, n
<1>10. Answered'
  <2>1. Args' = part /\ session' # <<>>
    BY <1>3, <1>8 DEF Args, Last
  <2> QED BY <1>1, <1>6, <2>1 DEF Answered
<1>11. Tidy'
  <2> SUFFICES ASSUME NEW i \in 1 .. n, i # n, i \notin unswept, session'[i].from \in Payload
               PROVE  Enabled \subseteq CleanOf(session'[i].text)
    BY <1>1, <1>8 DEF Tidy, Exposed, Enabled
  <2> QED BY <1>8 DEF Inv, Tidy, n
<1>12. Said' /\ Sent'
  BY <1>1 DEF Said, Sent
<1> QED BY <1>9, <1>10, <1>11, <1>12 DEF Inv

LEMMA ToolEndsKeeps ==
  ASSUME Inv, NEW t \in ToolTexts \union {out}, NEW fails \in BOOLEAN, ToolEnds(t, fails)
  PROVE  Inv'
<1>1. /\ phase = "run" /\ phase' = IF fails THEN "failed" ELSE "returned"
      /\ answer' = [from |-> "result", text |-> t]
      /\ UNCHANGED <<plugins, runner, table, session, request, out, again, unswept, restarted>>
  BY DEF ToolEnds, registered, history
<1>2. t \in Seq(Token)
  <2>1. CASE t \in ToolTexts
    BY <2>1, AgentFlowAssumption DEF IsText
  <2>2. CASE t = out
    BY <2>2 DEF Inv, Typed
  <2> QED BY <2>1, <2>2
<1>3. answer' \in Part /\ answer'.from = "result"
  BY <1>1, <1>2 DEF Part
<1>4. phase' \in {"failed", "returned"}
  BY <1>1
<1>5. Typed'
  BY <1>1, <1>3, <1>4 DEF Inv, Typed, Phases
<1>6. Args' = Args
  BY <1>1 DEF Args
<1>7. Answered'
  BY <1>1, <1>3, <1>4, <1>6 DEF Inv, Answered, Calling
<1>8. Tidy'
  BY <1>1, <1>4 DEF Inv, Tidy, Exposed, Enabled
<1>9. Said' /\ Sent'
  BY <1>4 DEF Said, Sent
<1> QED BY <1>5, <1>7, <1>8, <1>9 DEF Inv

LEMMA OnToolErrorKeeps ==
  ASSUME Inv, OnToolError
  PROVE  Inv'
<1>1. PICK q \in RedactError(table, answer.text) :
        /\ table' = q.table
        /\ \/ /\ runner.afterError /\ answer' = ErrorResult(q.text)
              /\ phase' = "returned" /\ session' = session
           \/ /\ ~runner.afterError /\ session' = Append(session, ErrorResult(q.text))
              /\ phase' = "request" /\ answer' = answer
  BY DEF OnToolError
<1>2. /\ phase = "failed"
      /\ again' = (again \/ runner.afterError)
      /\ unswept' = IF runner.afterError THEN unswept ELSE unswept \union {Len(session)} \union ErrorLeft
      /\ UNCHANGED <<plugins, runner, request, out, restarted>>
  BY DEF OnToolError, registered
<1>3. answer \in Part /\ answer.text \in Seq(Token)
  BY <1>2 DEF Inv, Answered, Part
<1>4. plugins[1] \in SUBSET AllFilters
  <2>1. plugins \in Seq(SUBSET AllFilters) /\ plugins # <<>>
    BY PluginFacts, AgentFlowAssumption DEF Inv, Typed
  <2>2. 1 \in 1 .. Len(plugins)
    BY <2>1, EmptySeq
  <2> QED BY <2>1, <2>2, ElementOfSeq
<1>5. q.table \in Tables /\ q.text \in Seq(Token) /\ plugins[1] \subseteq CleanOf(q.text)
  <2>1. q \in Cleaned(CleanOf(answer.text) \union plugins[1])
    BY <1>1, <1>3, <1>4, RedactFacts DEF RedactError, Inv, Typed
  <2> QED BY <2>1 DEF Cleaned, Outcomes
<1> DEFINE result == ErrorResult(q.text)
<1>6. result \in Part /\ result.from = "result" /\ result.text = q.text
  BY <1>5 DEF Part, ErrorResult
<1> HIDE DEF result
<1>7. {again', restarted'} \subseteq BOOLEAN
  <2>1. again \in BOOLEAN /\ restarted \in BOOLEAN
    BY Zenon DEF Inv, Typed
  <2> QED BY <1>2, <2>1
<1>8. CASE runner.afterError
  <2>1. answer' = result /\ phase' = "returned" /\ session' = session /\ unswept' = unswept
    BY <1>1, <1>2, <1>8 DEF result
  <2>2. Typed'
    BY <1>1, <1>2, <1>5, <1>6, <1>7, <2>1 DEF Inv, Typed, Phases
  <2>3. Args' = Args
    BY <2>1 DEF Args
  <2>4. Answered'
    BY <1>2, <1>6, <2>1, <2>3 DEF Inv, Answered, Calling
  <2>5. Tidy'
    BY <1>2, <2>1 DEF Inv, Tidy, Exposed, Enabled
  <2>6. Said' /\ Sent'
    BY <2>1 DEF Said, Sent
  <2> QED BY <2>2, <2>4, <2>5, <2>6 DEF Inv
<1>9. CASE ~runner.afterError
  <2> DEFINE n == Len(session)
  <2>1. /\ answer' = answer /\ phase' = "request" /\ session' = Append(session, result)
        /\ unswept' = unswept \union {n} \union ErrorLeft
    BY <1>1, <1>2, <1>9 DEF result
  <2>2. /\ session' \in Seq(Part) /\ Len(session') = n + 1
        /\ \A i \in 1 .. n : session'[i] = session[i]
        /\ session'[n + 1] = result
    BY <1>6, <2>1, AppendedFacts DEF Inv, Typed
  <2>3. n \in Nat /\ n # 0
    BY <1>2, EmptySeq, LenProperties DEF Inv, Typed, Answered, Calling
  <2>4. ErrorLeft \subseteq {n + 1} /\ (n + 1 \notin ErrorLeft => Enabled \subseteq plugins[1])
    BY DEF ErrorLeft
  <2>5. unswept \subseteq 1 .. n
    BY DEF Inv, Typed
  <2> HIDE DEF n
  <2>6. unswept' \subseteq 1 .. Len(session')
    BY <2>1, <2>2, <2>3, <2>4, <2>5
  <2>7. Typed'
    BY <1>1, <1>2, <1>5, <1>7, <2>1, <2>2, <2>6 DEF Inv, Typed, Phases
  <2>8. Answered' /\ Said' /\ Sent'
    BY <2>1 DEF Answered, Said, Sent, Calling
  <2>9. Tidy'
    <3> SUFFICES ASSUME NEW i \in 1 .. Len(session'), i \notin unswept', session'[i].from \in Payload
                 PROVE  Enabled \subseteq CleanOf(session'[i].text)
      BY <1>2 DEF Tidy, Enabled
    <3>1. CASE i = n + 1
      BY <1>5, <1>6, <2>1, <2>2, <2>4, <3>1
    <3>2. CASE i # n + 1
      <4>1. i \in 1 .. n /\ i # n /\ i \notin unswept
        BY <2>1, <2>2, <2>3, <3>2
      <4> QED BY <2>2, <4>1 DEF Inv, Tidy, n
    <3> QED BY <3>1, <3>2
  <2> QED BY <2>7, <2>8, <2>9 DEF Inv
<1> QED BY <1>8, <1>9

\* The last part makes room for two.
LEMMA SpliceFacts ==
  ASSUME NEW s \in Seq(Part), s # <<>>, NEW back \in Seq(Part), Len(back) = 2
  PROVE  /\ Len(s) \in Nat /\ Len(s) # 0
         /\ Front(s) \o back \in Seq(Part) /\ Len(Front(s) \o back) = Len(s) + 1
         /\ \A i \in 1 .. Len(s) - 1 : (Front(s) \o back)[i] = s[i]
         /\ (Front(s) \o back)[Len(s)] = back[1] /\ (Front(s) \o back)[Len(s) + 1] = back[2]
<1> DEFINE r == Front(s) \o back
<1> SUFFICES /\ Len(s) \in Nat /\ Len(s) # 0 /\ r \in Seq(Part) /\ Len(r) = Len(s) + 1
             /\ \A i \in 1 .. Len(s) - 1 : r[i] = s[i]
             /\ r[Len(s)] = back[1] /\ r[Len(s) + 1] = back[2]
  OBVIOUS
<1> DEFINE n == Len(s)
           front == SubSeq(s, 1, n - 1)
<1>1. n \in 1 .. n /\ n \in Nat /\ n # 0
  BY EmptySeq
<1>2. Front(s) = front
  BY DEF Front
<1>3. \A i \in 1 .. n - 1 : s[i] \in Part
  BY <1>1, ElementOfSeq
<1> HIDE DEF n
<1>4. n - 1 \in Int
  BY <1>1
<1>5. /\ front \in Seq(Part) /\ Len(front) = IF 1 <= n - 1 THEN n - 1 - 1 + 1 ELSE 0
      /\ \A i \in 1 .. n - 1 - 1 + 1 : front[i] = s[1 + i - 1]
  BY <1>3, <1>4, SubSeqProperties
<1> HIDE DEF front
<1>6. Len(front) = n - 1 /\ \A i \in 1 .. n - 1 : front[i] = s[i]
  BY <1>1, <1>5
<1>7. /\ front \o back \in Seq(Part) /\ Len(front \o back) = Len(front) + Len(back)
      /\ \A i \in 1 .. Len(front) + Len(back) :
           (front \o back)[i] = IF i <= Len(front) THEN front[i] ELSE back[i - Len(front)]
  BY <1>5, ConcatProperties
<1> HIDE DEF r
<1>8. /\ r \in Seq(Part) /\ Len(r) = n + 1
      /\ \A i \in 1 .. n + 1 : r[i] = IF i <= n - 1 THEN front[i] ELSE back[i - (n - 1)]
  <2>1. r = front \o back
    BY <1>2 DEF r
  <2>2. (n - 1) + 2 = n + 1
    BY <1>1
  <2> QED BY <1>6, <1>7, <2>1, <2>2
<1>9. \A i \in 1 .. n - 1 : r[i] = s[i]
  BY <1>1, <1>6, <1>8
<1>10. r[n] = back[1] /\ r[n + 1] = back[2]
  BY <1>1, <1>8
<1> QED BY <1>1, <1>8, <1>9, <1>10 DEF n

LEMMA SplicedFacts ==
  ASSUME session \in Seq(Part), session # <<>>, NEW back \in Seq(Part), Len(back) = 2,
         session' = Front(session) \o back
  PROVE  LET n == Len(session) IN
         /\ n \in Nat /\ n # 0 /\ session' \in Seq(Part) /\ Len(session') = n + 1
         /\ \A i \in 1 .. n - 1 : session'[i] = session[i]
         /\ session'[n] = back[1] /\ session'[n + 1] = back[2]
<1>1. /\ Len(session) \in Nat /\ Len(session) # 0
      /\ Front(session) \o back \in Seq(Part)
      /\ Len(Front(session) \o back) = Len(session) + 1
      /\ \A i \in 1 .. Len(session) - 1 : (Front(session) \o back)[i] = session[i]
      /\ (Front(session) \o back)[Len(session)] = back[1]
      /\ (Front(session) \o back)[Len(session) + 1] = back[2]
  BY SpliceFacts, Zenon
<1> QED BY <1>1

LEMMA AfterToolKeeps ==
  ASSUME Inv, AfterTool
  PROVE  Inv'
<1>1. PICK q \in RedactPayload(table, Args, answer) :
        table' = q.table /\ session' = Front(session) \o q.parts
  BY DEF AfterTool
<1>2. /\ phase = "returned" /\ phase' = "request"
      /\ UNCHANGED <<plugins, runner, request, answer, out, again, unswept, restarted>>
  BY DEF AfterTool, registered, history
<1> DEFINE n == Len(session)
           parts == <<Args, answer>>
<1>3. /\ session \in Seq(Part) /\ session # <<>>
      /\ answer \in Part /\ answer.from = "result" /\ Args.from = "args"
  BY <1>2 DEF Inv, Typed, Answered, Calling
<1>4. n \in 1 .. n /\ n \in Nat /\ Args \in Part
  <2>1. n \in 1 .. n /\ n \in Nat
    BY <1>3, EmptySeq
  <2> QED BY <1>3, <2>1, ElementOfSeq DEF Args, Last
<1>5. parts \in Seq(Part) /\ Len(parts) = 2 /\ parts[1].from = "args" /\ parts[2].from = "result"
  BY <1>3, <1>4
<1> HIDE DEF parts
<1>6. q \in Redone(Enabled, Payload, parts, 2)
  <2>1. plugins \in Seq(SUBSET AllFilters)
    BY PluginFacts DEF Inv, Typed
  <2>2. q \in Chain(table, parts, Payload)
    BY <1>1 DEF RedactPayload, Payload, parts
  <2> QED BY <1>5, <2>1, <2>2, ChainFacts DEF Inv, Typed
<1>7. /\ q.table \in Tables /\ q.parts \in Seq(Part) /\ Len(q.parts) = 2
      /\ \A i \in 1 .. 2 : Enabled \subseteq CleanOf(q.parts[i].text)
  <2>1. \A i \in 1 .. 2 : parts[i].from \in Payload
    BY <1>5 DEF Payload
  <2> QED BY <1>6, <2>1 DEF Redone, Swept
<1>8. /\ n \in Nat /\ n # 0 /\ session' \in Seq(Part) /\ Len(session') = n + 1
      /\ \A i \in 1 .. n - 1 : session'[i] = session[i]
      /\ session'[n] = q.parts[1] /\ session'[n + 1] = q.parts[2]
  <2> DEFINE back == q.parts
  <2>1. /\ session \in Seq(Part) /\ session # <<>> /\ session' = Front(session) \o back
        /\ back \in Seq(Part) /\ Len(back) = 2
    BY <1>1, <1>3, <1>7
  <2> HIDE DEF back
  <2>2. /\ n \in Nat /\ n # 0 /\ session' \in Seq(Part) /\ Len(session') = n + 1
        /\ \A i \in 1 .. n - 1 : session'[i] = session[i]
        /\ session'[n] = back[1] /\ session'[n + 1] = back[2]
    BY <2>1, SplicedFacts
  <2> QED BY <2>2 DEF back
<1> HIDE DEF n
<1>9. /\ \A i \in 1 .. n - 1 : session'[i] = session[i]
      /\ \A i \in n .. n + 1 : \E j \in 1 .. 2 : session'[i] = q.parts[j]
  <2>1. \A i \in n .. n + 1 : i = n \/ i = n + 1
    BY <1>8
  <2> QED BY <1>8, <2>1
<1>10. Typed'
  BY <1>1, <1>2, <1>7, <1>8 DEF Inv, Typed, Phases, n
<1>11. Answered' /\ Said' /\ Sent'
  BY <1>2 DEF Answered, Said, Sent, Calling
<1>12. Tidy'
  <2> SUFFICES ASSUME NEW i \in 1 .. Len(session'), i \notin unswept, session'[i].from \in Payload
               PROVE  Enabled \subseteq CleanOf(session'[i].text)
    BY <1>2 DEF Tidy, Enabled
  <2>1. CASE i \in 1 .. n - 1
    <3>1. session'[i] = session[i] /\ i \in 1 .. n /\ i # n
      BY <1>8, <2>1
    <3> QED BY <3>1 DEF Inv, Tidy, n
  <2>2. CASE i \in n .. n + 1
    BY <1>7, <1>9, <2>2
  <2> QED BY <1>8, <2>1, <2>2
<1> QED BY <1>10, <1>11, <1>12 DEF Inv

LEMMA RestartKeeps ==
  ASSUME Inv, Restart
  PROVE  Inv'
<1>1. /\ session # <<>> /\ phase' = "idle" /\ table' = <<>> /\ request' = <<>>
      /\ answer' = <<>> /\ out' = <<>> /\ again' = FALSE /\ restarted' = TRUE
      /\ unswept' = IF Exposed THEN unswept \union {Len(session)} ELSE unswept
      /\ UNCHANGED <<plugins, runner, session>>
  BY DEF Restart, registered
<1>2. {again', restarted'} \subseteq BOOLEAN
  BY <1>1
<1>3. unswept' \subseteq 1 .. Len(session)
  <2>1. Len(session) \in 1 .. Len(session)
    BY <1>1, EmptySeq DEF Inv, Typed
  <2> QED BY <1>1, <2>1 DEF Inv, Typed
<1>4. request' \in Seq(Part) /\ out' \in Seq(Token)
  BY <1>1
<1>5. Typed'
  BY <1>1, <1>2, <1>3, <1>4, NoTable DEF Inv, Typed, Phases
<1>6. Answered' /\ Said' /\ Sent'
  BY <1>1 DEF Answered, Said, Sent, Calling
<1>7. Tidy'
  <2> SUFFICES ASSUME NEW i \in 1 .. Len(session), i \notin unswept', session[i].from \in Payload
               PROVE  Enabled \subseteq CleanOf(session[i].text)
    BY <1>1 DEF Tidy, Enabled
  <2> QED BY <1>1 DEF Inv, Tidy
<1> QED BY <1>5, <1>6, <1>7 DEF Inv

LEMMA StutterKeeps ==
  ASSUME Inv, UNCHANGED vars
  PROVE  Inv'
<1>1. /\ Typed' /\ Said' /\ Tidy' /\ Sent'
  BY DEF vars, Inv, Typed, Said, Tidy, Sent, Exposed, Enabled
<1>2. Answered'
  BY DEF vars, Inv, Answered, Calling, Args
<1> QED BY <1>1, <1>2 DEF Inv

LEMMA Inductive == Inv /\ [Next]_vars => Inv'
<1> SUFFICES ASSUME Inv, [Next]_vars PROVE Inv'
  OBVIOUS
<1>1. ASSUME NEW t \in UserTexts, UserSays(t) PROVE Inv'
  BY <1>1, UserSaysKeeps
<1>2. CASE BeforeModel
  BY <1>2, BeforeModelKeeps
<1>3. ASSUME NEW from \in {"model", "args"}, NEW token \in Echoes, ModelReplies(from, token)
      PROVE  Inv'
  BY <1>3, ModelRepliesKeeps
<1>4. CASE ModelFails
  BY <1>4, ModelFailsKeeps
<1>5. CASE AfterModel
  BY <1>5, AfterModelKeeps
<1>6. CASE BeforeTool
  BY <1>6, BeforeToolKeeps
<1>7. ASSUME NEW t \in ToolTexts \union {out}, NEW fails \in BOOLEAN, ToolEnds(t, fails)
      PROVE  Inv'
  BY <1>7, ToolEndsKeeps
<1>8. CASE OnToolError
  BY <1>8, OnToolErrorKeeps
<1>9. CASE AfterTool
  BY <1>9, AfterToolKeeps
<1>10. CASE Restart
  BY <1>10, RestartKeeps
<1>11. CASE UNCHANGED vars
  BY <1>11, StutterKeeps
<1> QED BY <1>1, <1>2, <1>3, <1>4, <1>5, <1>6, <1>7, <1>8, <1>9, <1>10, <1>11 DEF Next

LEMMA Invariance == Spec => []Inv
BY InvInit, Inductive, PTL DEF Spec

-----------------------------------------------------------------------------
\* The variables of the plugins and of the runner have their types: chains of
\* plugins keep the parts of a session in shape, and the table names alone.
THEOREM TypeCorrect == Spec => []TypeOK
<1>1. Inv => TypeOK
  BY TableFacts DEF Inv, Typed, TypeOK
<1> QED BY <1>1, Invariance, PTL

\* The model never gets a name the filters know, whatever the model, the tools
\* and the users say, through any number of turns, tool calls and restarts that
\* may come anywhere.  Only the parts of calls that AfterToolCallback did not
\* see are excepted, and nothing else is that comes in the same session.
THEOREM ModelGetsNoName == Spec => []Confidential
<1>1. Inv => Confidential
  <2> SUFFICES ASSUME Inv, phase = "model", NEW i \in DOMAIN request \ unswept,
                      NEW t \in Range(request[i].text)
               PROVE  ~Secret(t)
    BY DEF Confidential
  <2>1. i \in 1 .. Len(request)
    BY LenProperties DEF Inv, Typed
  <2>2. Enabled \subseteq CleanOf(request[i].text)
    BY <2>1 DEF Inv, Sent
  <2>3. PICK j \in DOMAIN request[i].text : t = request[i].text[j]
    BY DEF Range
  <2>4. \A f \in Enabled : Clean(f, t)
    BY <2>2, <2>3 DEF CleanOf
  <2> QED BY <2>4 DEF Clean, Secret
<1> QED BY <1>1, Invariance, PTL
-----------------------------------------------------------------------------
(***************************************************************************)
(* What becomes of a text, read off the table that keeps its entries.      *)
(***************************************************************************)

\* The tables of generated names whose entries stay.
Sound == {m \in Tables : GoodTable(m)}

\* The words the filters get to see.
PlainWord == {w \in Word : w.tld = NoTld /\ Length[w.stem] <= MaxLength}
PlainToken == {t \in Token : t.word \in PlainWord}

\* The filter f makes s of t, as the table knows.
Becomes(f, m, t, s) ==
  /\ s \in PlainToken
  /\ ~Matches(f, t) => s = t
  /\ Matches(f, t) =>
       /\ s.word \in PlainKeys(m) /\ m[s.word] = t.word
       /\ s = IF TakesSuffix(f, t) THEN Addressed(t, s.word) ELSE [t EXCEPT !.word = s.word]

LEMMA NoTableIsSound == <<>> \in Sound
<1>1. DOMAIN <<>> = {}
  OBVIOUS
<1>2. GoodTable(<<>>)
  BY <1>1 DEF GoodTable, PlainEntries, Families, Functional, SuffixedEntries, PlainKeys
<1> QED BY <1>2, NoTable DEF Sound

LEMMA ExtendedOnwards ==
  ASSUME NEW l, NEW m, NEW n, ExtendedBy(l, m), ExtendedBy(m, n)
  PROVE  ExtendedBy(l, n)
BY DEF ExtendedBy

LEMMA KeyFacts ==
  ASSUME NEW m \in Sound, NEW k \in PlainKeys(m)
  PROVE  k \in PlainWord /\ k \in DOMAIN m /\ k.stem \in Candidate
<1>1. k \in DOMAIN m /\ k \in Word /\ k.tld = NoTld /\ Length[k.stem] <= MaxLength
  BY DEF Sound, GoodTable, PlainEntries, PlainKeys
<1>2. k \in Keys
  BY <1>1, TableFacts DEF Sound
<1> QED BY <1>1, <1>2 DEF PlainWord, Keys

\* There is one s.
LEMMA BecomesOnce ==
  ASSUME NEW f, NEW m \in Sound, NEW t, NEW r, NEW s, Becomes(f, m, t, r), Becomes(f, m, t, s)
  PROVE  r = s
<1>1. CASE ~Matches(f, t)
  BY <1>1 DEF Becomes
<1>2. CASE Matches(f, t)
  <2>1. r.word = s.word
    BY <1>2 DEF Becomes, Sound, GoodTable, Functional
  <2> QED BY <1>2, <2>1 DEF Becomes
<1> QED BY <1>1, <1>2

\* And it remains the one.
LEMMA BecomesStays ==
  ASSUME NEW f, NEW m, NEW n, ExtendedBy(m, n), NEW t, NEW s, Becomes(f, m, t, s)
  PROVE  Becomes(f, n, t, s)
<1>1. \A k \in PlainKeys(m) : k \in PlainKeys(n) /\ n[k] = m[k]
  BY DEF PlainKeys, ExtendedBy
<1> QED BY <1>1 DEF Becomes

LEMMA WordBecomes ==
  ASSUME Ideal, NEW f, NEW m \in Sound, NEW token \in PlainToken, NEW full,
         NEW q \in RedactWord(f, m, token, full)
  PROVE  q.table \in Sound /\ ExtendedBy(m, q.table) /\ Becomes(f, q.table, token, q.token)
<1> DEFINE o == token.word
<1>1. token \in Token /\ o \in Word /\ o.tld = NoTld /\ Length[o.stem] <= MaxLength
  BY DEF PlainToken, PlainWord
<1>2. m \in Tables /\ GoodTable(m)
  BY DEF Sound
<1>3. q.table \in Tables /\ q.token \in Token
  BY <1>1, <1>2, WordFacts
<1>4. CASE ~Matches(f, token)
  <2>1. q = [table |-> m, token |-> token]
    BY <1>4 DEF RedactWord
  <2>2. q.table = m /\ q.token = token
    BY <2>1
  <2> QED BY <1>4, <2>2 DEF Becomes, ExtendedBy
<1>5. ASSUME NEW r \in Replacements(m, o, full)
      PROVE  LET n == Recorded(m, o, r) IN
             GoodTable(n) /\ ExtendedBy(m, n) /\ r \in PlainKeys(n) /\ n[r] = o
  <2>1. ~CaseClash
    BY DEF Ideal
  <2> HIDE DEF o
  <2> QED BY <1>1, <1>2, <2>1, GetReplacementIsGood
<1>6. ASSUME Matches(f, token), NEW r, GoodTable(q.table), ExtendedBy(m, q.table),
             r \in PlainKeys(q.table), q.table[r] = o,
             q.token = IF TakesSuffix(f, token) THEN Addressed(token, r)
                       ELSE [token EXCEPT !.word = r]
      PROVE  q.table \in Sound /\ ExtendedBy(m, q.table) /\ Becomes(f, q.table, token, q.token)
  <2>1. q.table \in Sound
    BY <1>3, <1>6 DEF Sound
  <2>2. r \in PlainWord
    BY <1>6, <2>1, KeyFacts
  <2>3. q.token.word = r
    BY <1>1, <1>6 DEF Addressed, Token
  <2> QED BY <1>3, <1>6, <2>1, <2>2, <2>3 DEF Becomes, PlainToken
<1>7. CASE Matches(f, token) /\ ~TakesSuffix(f, token)
  <2>1. PICK r \in Replacements(m, o, full) :
          q = [table |-> Recorded(m, o, r), token |-> [token EXCEPT !.word = r]]
    BY <1>7 DEF RedactWord
  <2>2. q.table = Recorded(m, o, r) /\ q.token = [token EXCEPT !.word = r]
    BY <2>1
  <2> HIDE DEF o
  <2> QED BY <1>5, <1>6, <1>7, <2>2
<1>8. CASE Matches(f, token) /\ TakesSuffix(f, token)
  <2>1. PICK r \in Replacements(m, o, full) :
          q = [table |-> Entered(Recorded(m, o, r), o, r, token.tld),
               token |-> Addressed(token, r)]
    BY <1>8 DEF RedactWord
  <2> DEFINE n == Recorded(m, o, r)
  <2>2. GoodTable(n) /\ ExtendedBy(m, n) /\ r \in PlainKeys(n) /\ n[r] = o
    BY <1>5
  <2>3. token.tld \in Tld /\ HasSuffix(token.tld)
    BY <1>1, <1>8 DEF TakesSuffix, Token
  <2>4. \A u \in Tld : HasSuffix(u) /\ SuffixOf(token.tld) = SuffixOf(u) => token.tld = u
    BY <2>3 DEF Ideal
  <2>5. q.table = Entered(n, o, r, token.tld) /\ q.token = Addressed(token, r)
    BY <2>1
  <2> HIDE DEF n, o
  <2> DEFINE t == token.tld
             e == Put(n, WithTld(r, SuffixOf(t)), WithTld(o, t))
  <2>6. GoodTable(e) /\ ExtendedBy(n, e)
    <3> HIDE DEF t
    <3> SUFFICES LET x == Put(n, WithTld(r, SuffixOf(t)), WithTld(o, t)) IN
                 /\ GoodTable(x) /\ ExtendedBy(n, x)
                 /\ WithTld(r, SuffixOf(t)) \in DOMAIN x
                 /\ x[WithTld(r, SuffixOf(t))] = WithTld(o, t)
      OBVIOUS
    <3>1. t \in Tld /\ HasSuffix(t) /\ \A u \in Tld : HasSuffix(u) /\ SuffixOf(t) = SuffixOf(u) => t = u
      BY <2>3, <2>4 DEF t
    <3> QED BY <1>1, <2>2, <3>1, SuffixedIsGood
  <2>7. q.table = e
    BY <2>5 DEF Entered
  <2>8. ExtendedBy(m, e)
    BY <2>2, <2>6, ExtendedOnwards
  <2>9. r \in PlainKeys(e) /\ e[r] = o
    BY <2>2, <2>6 DEF ExtendedBy, PlainKeys
  <2> HIDE DEF e
  <2> QED BY <1>6, <1>8, <2>5, <2>6, <2>7, <2>8, <2>9
<1> QED BY <1>4, <1>7, <1>8

-----------------------------------------------------------------------------
(***************************************************************************)
(* ... of a text, in the hands of a filter and of a plugin.                *)
(***************************************************************************)

PlainTexts == Seq(PlainToken)

BecomesText(f, m, t, s) ==
  Len(s) = Len(t) /\ \A i \in 1 .. Len(t) : Becomes(f, m, t[i], s[i])

\* What the filter makes of the first i words, starting with the table m.
Begun(f, m, t, i) ==
  {d \in [table : Sound, text : PlainTexts] :
     /\ ExtendedBy(m, d.table) /\ Len(d.text) = i
     /\ \A j \in 1 .. i : Becomes(f, d.table, t[j], d.text[j])}

LEMMA BegunGoesOn ==
  ASSUME Ideal, NEW f, NEW m, NEW t \in PlainTexts, NEW i \in 1 .. Len(t),
         NEW d \in Begun(f, m, t, i - 1), NEW full, NEW q \in RedactWord(f, d.table, t[i], full)
  PROVE  [table |-> q.table, text |-> Append(d.text, q.token)] \in Begun(f, m, t, i)
<1> DEFINE s == d.text
           l == d.table
           e == [table |-> q.table, text |-> Append(s, q.token)]
<1>1. /\ l \in Sound /\ s \in Seq(PlainToken) /\ Len(s) = i - 1 /\ i \in Nat
      /\ ExtendedBy(m, l) /\ \A j \in 1 .. i - 1 : Becomes(f, l, t[j], s[j])
  BY LenProperties DEF Begun, PlainTexts
<1>2. t[i] \in PlainToken
  BY ElementOfSeq DEF PlainTexts
<1>3. q.table \in Sound /\ ExtendedBy(l, q.table) /\ Becomes(f, q.table, t[i], q.token)
  BY <1>1, <1>2, WordBecomes
<1>4. q.token \in PlainToken
  BY <1>3 DEF Becomes
<1> HIDE DEF s, l
<1>5. /\ Append(s, q.token) \in Seq(PlainToken) /\ Len(Append(s, q.token)) = i
      /\ \A j \in 1 .. i - 1 : Append(s, q.token)[j] = s[j]
      /\ Append(s, q.token)[i] = q.token
  BY <1>1, <1>4, AppendProperties
<1>6. ASSUME NEW j \in 1 .. i PROVE Becomes(f, q.table, t[j], Append(s, q.token)[j])
  <2>1. CASE j = i
    BY <1>3, <1>5, <2>1
  <2>2. CASE j # i
    <3>1. j \in 1 .. i - 1
      BY <1>1, <2>2
    <3>2. Becomes(f, q.table, t[j], s[j])
      BY <1>1, <1>3, <3>1, BecomesStays
    <3> QED BY <1>5, <3>1, <3>2
  <2> QED BY <2>1, <2>2
<1>7. ExtendedBy(m, q.table)
  BY <1>1, <1>3, ExtendedOnwards
<1>8. e.text = Append(s, q.token) /\ e.table = q.table
      /\ e \in [table : Sound, text : PlainTexts]
  BY <1>3, <1>5 DEF PlainTexts
<1> HIDE DEF e
<1>9. e \in Begun(f, m, t, i)
  BY <1>5, <1>6, <1>7, <1>8 DEF Begun
<1> QED BY <1>9 DEF e, s

LEMMA PassBecomes ==
  ASSUME Ideal, NEW f, NEW m \in Sound, NEW t \in PlainTexts, NEW full,
         NEW d \in RedactPass(f, m, t, full)
  PROVE  /\ d.table \in Sound /\ ExtendedBy(m, d.table) /\ d.text \in PlainTexts
         /\ BecomesText(f, d.table, t, d.text)
<1> DEFINE U == [i \in 0 .. Len(t) |-> SUBSET Begun(f, m, t, i)]
<1>1. Len(t) \in Nat /\ \A i \in 1 .. Len(t) : i \in 0 .. Len(t) /\ i - 1 \in 0 .. Len(t)
  BY LenProperties DEF PlainTexts
<1>2. \A i \in 0 .. Len(t) : U[i] = SUBSET Begun(f, m, t, i)
  OBVIOUS
<1> HIDE DEF U
<1>3. {[table |-> m, text |-> <<>>]} \in U[0]
  <2>1. [table |-> m, text |-> <<>>] \in Begun(f, m, t, 0)
    BY DEF Begun, PlainTexts, ExtendedBy
  <2> QED BY <1>1, <1>2, <2>1
<1>4. PassLeads(f, t, full, U)
  <2>1. ASSUME NEW i \in 1 .. Len(t), NEW x \in SUBSET Begun(f, m, t, i - 1)
        PROVE  OneWord(f, t[i], full, x) \in SUBSET Begun(f, m, t, i)
    <3> SUFFICES ASSUME NEW e \in OneWord(f, t[i], full, x) PROVE e \in Begun(f, m, t, i)
      OBVIOUS
    <3> DEFINE more(c) == {[table |-> q.table, text |-> Append(c.text, q.token)] :
                             q \in RedactWord(f, c.table, t[i], full)}
    <3>1. PICK c \in x : e \in more(c)
      <4> HIDE DEF more
      <4>1. OneWord(f, t[i], full, x) = UNION {more(c) : c \in x}
        BY Zenon DEF OneWord, more
      <4> QED BY <4>1
    <3>2. PICK q \in RedactWord(f, c.table, t[i], full) :
            e = [table |-> q.table, text |-> Append(c.text, q.token)]
      BY <3>1
    <3> QED BY <3>2, BegunGoesOn
  <2> QED BY <1>1, <1>2, <2>1 DEF PassLeads
<1>5. RedactPass(f, m, t, full) \in U[Len(t)]
  BY <1>1, <1>3, <1>4, PassInduction
<1>6. d \in Begun(f, m, t, Len(t))
  BY <1>1, <1>2, <1>5
<1> QED BY <1>6 DEF Begun, BecomesText

\* The filter's turn, when it is enabled.
Turn(f, fs, m, t, s) == IF f \in fs THEN BecomesText(f, m, t, s) ELSE s = t

\* A plugin: one turn after the other.
Rewrites(fs, m, t, s) ==
  \E u, v \in PlainTexts :
    Turn("username", fs, m, t, u) /\ Turn("email", fs, m, u, v) /\ Turn("host", fs, m, v, s)

LEMMA TextBecomesOnce ==
  ASSUME NEW f, NEW m \in Sound, NEW t, NEW r \in PlainTexts, NEW s \in PlainTexts,
         BecomesText(f, m, t, r), BecomesText(f, m, t, s)
  PROVE  r = s
<1>1. Len(r) = Len(s) /\ \A i \in 1 .. Len(r) : r[i] = s[i]
  BY BecomesOnce DEF BecomesText
<1> QED BY <1>1, SeqEqual DEF PlainTexts

LEMMA RewritesOnce ==
  ASSUME NEW fs, NEW m \in Sound, NEW t, NEW r \in PlainTexts, NEW s \in PlainTexts,
         Rewrites(fs, m, t, r), Rewrites(fs, m, t, s)
  PROVE  r = s
<1>1. ASSUME NEW f, NEW x, NEW y \in PlainTexts, NEW z \in PlainTexts,
             Turn(f, fs, m, x, y), Turn(f, fs, m, x, z)
      PROVE  y = z
  BY <1>1, TextBecomesOnce DEF Turn
<1> QED BY <1>1 DEF Rewrites

LEMMA TurnStays ==
  ASSUME NEW f, NEW fs, NEW m, NEW n, ExtendedBy(m, n), NEW x, NEW y, Turn(f, fs, m, x, y)
  PROVE  Turn(f, fs, n, x, y)
BY BecomesStays DEF Turn, BecomesText

LEMMA RewritesStays ==
  ASSUME NEW fs, NEW m, NEW n, ExtendedBy(m, n), NEW t, NEW s, Rewrites(fs, m, t, s)
  PROVE  Rewrites(fs, n, t, s)
BY TurnStays DEF Rewrites

LEMMA PipedBecomes ==
  ASSUME Ideal, NEW f, NEW fs, NEW full, NEW X,
         \A d \in X : d.table \in Sound /\ d.text \in PlainTexts,
         NEW e \in Piped(f, fs, full, X)
  PROVE  \E d \in X : /\ e.table \in Sound /\ ExtendedBy(d.table, e.table)
                      /\ e.text \in PlainTexts /\ Turn(f, fs, e.table, d.text, e.text)
<1>1. CASE f \notin fs
  BY <1>1 DEF Piped, Turn, ExtendedBy
<1>2. CASE f \in fs
  <2>1. PICK d \in X : e \in RedactPass(f, d.table, d.text, full)
    BY <1>2 DEF Piped
  <2> QED BY <1>2, <2>1, PassBecomes DEF Turn
<1> QED BY <1>1, <1>2

LEMMA RedactBecomes ==
  ASSUME Ideal, NEW fs, NEW m \in Sound, NEW t \in PlainTexts, NEW full,
         NEW e \in Redact(m, fs, t, full)
  PROVE  /\ e.table \in Sound /\ ExtendedBy(m, e.table) /\ e.text \in PlainTexts
         /\ Rewrites(fs, e.table, t, e.text)
<1> DEFINE X == {[table |-> m, text |-> t]}
           users == Piped("username", fs, full, X)
           mails == Piped("email", fs, full, users)
<1>1. e \in Piped("host", fs, full, mails)
  BY Zenon DEF Redact, Piped
<1>2. \A d \in X : d.table = m /\ d.text = t
  OBVIOUS
<1> HIDE DEF X
<1>3. \A b \in users : /\ b.table \in Sound /\ ExtendedBy(m, b.table)
                       /\ b.text \in PlainTexts /\ Turn("username", fs, b.table, t, b.text)
  BY <1>2, PipedBecomes
<1> HIDE DEF users
<1>4. \A c \in mails : \E b \in users :
        /\ c.table \in Sound /\ ExtendedBy(b.table, c.table)
        /\ c.text \in PlainTexts /\ Turn("email", fs, c.table, b.text, c.text)
  BY <1>3, PipedBecomes
<1> HIDE DEF mails
<1>5. PICK c \in mails : /\ e.table \in Sound /\ ExtendedBy(c.table, e.table)
                         /\ e.text \in PlainTexts /\ Turn("host", fs, e.table, c.text, e.text)
  BY <1>1, <1>4, PipedBecomes
<1>6. PICK b \in users :
        /\ c.table \in Sound /\ ExtendedBy(b.table, c.table)
        /\ c.text \in PlainTexts /\ Turn("email", fs, c.table, b.text, c.text)
  BY <1>4
<1>7. ExtendedBy(b.table, e.table) /\ ExtendedBy(m, e.table)
  BY <1>3, <1>5, <1>6, ExtendedOnwards
<1>8. Turn("username", fs, e.table, t, b.text) /\ Turn("email", fs, e.table, b.text, c.text)
  BY <1>3, <1>5, <1>6, <1>7, TurnStays
<1> QED BY <1>3, <1>5, <1>6, <1>7, <1>8 DEF Rewrites

-----------------------------------------------------------------------------
(***************************************************************************)
(* ... of the parts of a session, in the hands of all plugins.             *)
(***************************************************************************)

PlainPart == {p \in Part : p.text \in PlainTexts}

\* The plugin fs, which looks at these kinds of parts, makes b of a.
RewritesPart(fs, froms, m, a, b) ==
  /\ b \in PlainPart /\ b.from = a.from
  /\ IF a.from \in froms THEN Rewrites(fs, m, a.text, b.text) ELSE b = a

\* What it makes of the first i parts, starting with the table m.
Worked(fs, froms, m, parts, i) ==
  {d \in [table : Sound, parts : Seq(PlainPart)] :
     /\ ExtendedBy(m, d.table) /\ Len(d.parts) = i
     /\ \A j \in 1 .. i : RewritesPart(fs, froms, d.table, parts[j], d.parts[j])}

LEMMA PartBecomes ==
  ASSUME Ideal, NEW fs, NEW froms, NEW m \in Sound, NEW part \in PlainPart, NEW full,
         NEW q \in RedactPart(m, fs, part, froms, full)
  PROVE  /\ q.table \in Sound /\ ExtendedBy(m, q.table)
         /\ RewritesPart(fs, froms, q.table, part, [part EXCEPT !.text = q.text])
<1>1. part \in Part /\ part.text \in PlainTexts
  BY DEF PlainPart
<1>2. CASE part.from \in froms
  <2>1. q \in Redact(m, fs, part.text, full)
    BY <1>2 DEF RedactPart
  <2>2. /\ q.table \in Sound /\ ExtendedBy(m, q.table) /\ q.text \in PlainTexts
        /\ Rewrites(fs, q.table, part.text, q.text)
    <3> DEFINE t == part.text
    <3>1. t \in PlainTexts /\ q \in Redact(m, fs, t, full)
      BY <1>1, <2>1
    <3> HIDE DEF t
    <3>2. /\ q.table \in Sound /\ ExtendedBy(m, q.table) /\ q.text \in PlainTexts
          /\ Rewrites(fs, q.table, t, q.text)
      BY <3>1, RedactBecomes
    <3> QED BY <3>2 DEF t
  <2>3. PlainTexts \subseteq Seq(Token)
    <3>1. PlainToken \subseteq Token
      BY DEF PlainToken
    <3> QED BY <3>1, SeqMonotonic DEF PlainTexts
  <2>4. /\ [part EXCEPT !.text = q.text] \in PlainPart
        /\ [part EXCEPT !.text = q.text].from = part.from
        /\ [part EXCEPT !.text = q.text].text = q.text
    BY <1>1, <2>2, <2>3 DEF Part, PlainPart
  <2> QED BY <1>2, <2>2, <2>4 DEF RewritesPart
<1>3. CASE part.from \notin froms
  <2>1. q.table = m /\ q.text = part.text
    BY <1>3 DEF RedactPart
  <2>2. [part EXCEPT !.text = q.text] = part
    BY <1>1, <2>1 DEF Part
  <2> QED BY <1>3, <2>1, <2>2 DEF RewritesPart, ExtendedBy
<1> QED BY <1>2, <1>3

LEMMA RewritesPartStays ==
  ASSUME NEW fs, NEW froms, NEW m, NEW n, ExtendedBy(m, n), NEW a, NEW b,
         RewritesPart(fs, froms, m, a, b)
  PROVE  RewritesPart(fs, froms, n, a, b)
BY RewritesStays DEF RewritesPart

LEMMA WorkedGoesOn ==
  ASSUME NEW fs, NEW froms, NEW m, NEW parts, NEW i \in Nat \ {0},
         NEW d \in Worked(fs, froms, m, parts, i - 1), NEW n \in Sound, ExtendedBy(d.table, n),
         NEW part, RewritesPart(fs, froms, n, parts[i], part)
  PROVE  [table |-> n, parts |-> Append(d.parts, part)] \in Worked(fs, froms, m, parts, i)
<1> DEFINE s == d.parts
           l == d.table
           e == [table |-> n, parts |-> Append(s, part)]
<1>1. /\ l \in Sound /\ s \in Seq(PlainPart) /\ Len(s) = i - 1 /\ ExtendedBy(m, l)
      /\ \A j \in 1 .. i - 1 : RewritesPart(fs, froms, l, parts[j], s[j])
  BY DEF Worked
<1>2. part \in PlainPart
  BY DEF RewritesPart
<1> HIDE DEF s, l
<1>3. /\ Append(s, part) \in Seq(PlainPart) /\ Len(Append(s, part)) = i
      /\ \A j \in 1 .. i - 1 : Append(s, part)[j] = s[j]
      /\ Append(s, part)[i] = part
  BY <1>1, <1>2, AppendProperties
<1>4. ExtendedBy(l, n)
  BY DEF l
<1>5. ASSUME NEW j \in 1 .. i PROVE RewritesPart(fs, froms, n, parts[j], Append(s, part)[j])
  <2>1. CASE j = i
    BY <1>3, <2>1
  <2>2. CASE j # i
    <3>1. j \in 1 .. i - 1
      BY <2>2
    <3>2. RewritesPart(fs, froms, n, parts[j], s[j])
      BY <1>1, <1>4, <3>1, RewritesPartStays
    <3> QED BY <1>3, <3>1, <3>2
  <2> QED BY <2>1, <2>2
<1>6. ExtendedBy(m, n)
  BY <1>1, <1>4, ExtendedOnwards
<1>7. e.table = n /\ e.parts = Append(s, part) /\ e \in [table : Sound, parts : Seq(PlainPart)]
  BY <1>3
<1> HIDE DEF e
<1>8. e \in Worked(fs, froms, m, parts, i)
  BY <1>3, <1>5, <1>6, <1>7 DEF Worked
<1> QED BY <1>8 DEF e, s

LEMMA PartsBecome ==
  ASSUME Ideal, NEW fs, NEW froms, NEW m \in Sound, NEW parts \in Seq(PlainPart), NEW full,
         NEW d \in RedactParts(m, fs, parts, froms, full)
  PROVE  d \in Worked(fs, froms, m, parts, Len(parts))
<1> DEFINE n == Len(parts)
           R(i) == Worked(fs, froms, m, parts, i)
           U == [i \in 0 .. n |-> SUBSET R(i)]
<1>1. n \in Nat /\ \A i \in 1 .. n : i \in 0 .. n /\ i - 1 \in 0 .. n
  BY LenProperties
<1>2. [table |-> m, parts |-> <<>>] \in R(0)
  BY DEF Worked, ExtendedBy
<1>3. \A i \in 0 .. n : U[i] = SUBSET R(i)
  OBVIOUS
<1> HIDE DEF U
<1>4. ASSUME NEW i \in 1 .. n, NEW x \in SUBSET R(i - 1)
      PROVE  OnePart(fs, parts[i], froms, full, x) \in SUBSET R(i)
  <2> SUFFICES ASSUME NEW e \in OnePart(fs, parts[i], froms, full, x) PROVE e \in R(i)
    OBVIOUS
  <2> DEFINE more(c) == {[table |-> q.table,
                          parts |-> Append(c.parts, [parts[i] EXCEPT !.text = q.text])] :
                           q \in RedactPart(c.table, fs, parts[i], froms, full)}
  <2>1. PICK c \in x : e \in more(c)
    <3> HIDE DEF more
    <3>1. OnePart(fs, parts[i], froms, full, x) = UNION {more(c) : c \in x}
      BY Zenon DEF OnePart, more
    <3> QED BY <3>1
  <2>2. PICK q \in RedactPart(c.table, fs, parts[i], froms, full) :
          e = [table |-> q.table, parts |-> Append(c.parts, [parts[i] EXCEPT !.text = q.text])]
    BY <2>1
  <2>3. c.table \in Sound /\ parts[i] \in PlainPart
    BY ElementOfSeq DEF Worked
  <2> DEFINE part == [parts[i] EXCEPT !.text = q.text]
  <2>4. /\ q.table \in Sound /\ ExtendedBy(c.table, q.table)
        /\ RewritesPart(fs, froms, q.table, parts[i], part)
    BY <2>3, PartBecomes
  <2> HIDE DEF part
  <2>5. c \in Worked(fs, froms, m, parts, i - 1) /\ i \in Nat \ {0}
    BY <1>1
  <2>6. [table |-> q.table, parts |-> Append(c.parts, part)] \in R(i)
    BY <2>4, <2>5, WorkedGoesOn
  <2> QED BY <2>2, <2>6 DEF part
<1> HIDE DEF R
<1>5. {[table |-> m, parts |-> <<>>]} \in U[0]
  BY <1>1, <1>2, <1>3
<1>6. PartsLead(fs, parts, froms, full, U)
  BY <1>1, <1>3, <1>4 DEF PartsLead
<1>7. RedactParts(m, fs, parts, froms, full) \in U[n]
  BY <1>1, <1>5, <1>6, PartsInduction
<1>8. n \in 0 .. n
  BY <1>1
<1> QED BY <1>3, <1>7, <1>8 DEF R

\* The first k plugins of p, one after the other, make s of t.
Through(p, k, m, t, s) ==
  \E w : /\ w[0] = t /\ w[k] = s
         /\ \A i \in 1 .. k : w[i] \in PlainTexts /\ Rewrites(p[i], m, w[i - 1], w[i])

LEMMA ThroughGoesOn ==
  ASSUME NEW p, NEW k \in Nat \ {0}, NEW m, NEW t, NEW s, NEW r \in PlainTexts,
         Through(p, k - 1, m, t, s), Rewrites(p[k], m, s, r)
  PROVE  Through(p, k, m, t, r)
<1>1. PICK v : /\ v[0] = t /\ v[k - 1] = s
               /\ \A i \in 1 .. k - 1 : v[i] \in PlainTexts /\ Rewrites(p[i], m, v[i - 1], v[i])
  BY DEF Through
<1> DEFINE w == [i \in 0 .. k |-> IF i = k THEN r ELSE v[i]]
<1>2. w[k] = r /\ \A i \in 0 .. k - 1 : w[i] = v[i]
  OBVIOUS
<1> HIDE DEF w
<1>3. w[0] = t /\ w[k - 1] = s
  BY <1>1, <1>2
<1>4. ASSUME NEW i \in 1 .. k PROVE w[i] \in PlainTexts /\ Rewrites(p[i], m, w[i - 1], w[i])
  <2>1. CASE i = k
    BY <1>2, <1>3, <2>1
  <2>2. CASE i # k
    <3>1. i \in 1 .. k - 1 /\ i \in 0 .. k - 1 /\ i - 1 \in 0 .. k - 1
      BY <2>2
    <3>2. w[i] = v[i] /\ w[i - 1] = v[i - 1]
      BY <1>2, <3>1
    <3> QED BY <1>1, <3>1, <3>2
  <2> QED BY <2>1, <2>2
<1> QED BY <1>2, <1>3, <1>4 DEF Through

LEMMA ThroughOnce ==
  ASSUME NEW p, NEW k \in Nat, NEW m \in Sound, NEW t, NEW r, NEW s,
         Through(p, k, m, t, r), Through(p, k, m, t, s)
  PROVE  r = s
<1>1. PICK v : /\ v[0] = t /\ v[k] = r
               /\ \A i \in 1 .. k : v[i] \in PlainTexts /\ Rewrites(p[i], m, v[i - 1], v[i])
  BY DEF Through
<1>2. PICK w : /\ w[0] = t /\ w[k] = s
               /\ \A i \in 1 .. k : w[i] \in PlainTexts /\ Rewrites(p[i], m, w[i - 1], w[i])
  BY DEF Through
<1> DEFINE T == {i \in 0 .. k : v[i] = w[i]}
<1>3. 0 \in T
  BY <1>1, <1>2
<1>4. ASSUME NEW i \in 1 .. k, i - 1 \in T PROVE i \in T
  <2>1. v[i - 1] = w[i - 1]
    BY <1>4
  <2>2. v[i] = w[i]
    BY <1>1, <1>2, <2>1, RewritesOnce
  <2> QED BY <2>2
<1> HIDE DEF T
<1>5. 0 .. k \subseteq T
  BY <1>3, <1>4, UpTo
<1>6. k \in T
  BY <1>5
<1> QED BY <1>1, <1>2, <1>6 DEF T

LEMMA ThroughStays ==
  ASSUME NEW p, NEW k, NEW m, NEW n, ExtendedBy(m, n), NEW t, NEW s, Through(p, k, m, t, s)
  PROVE  Through(p, k, n, t, s)
BY RewritesStays DEF Through

\* What they make of a part.
ThroughPart(p, k, froms, m, a, b) ==
  /\ b \in PlainPart /\ b.from = a.from
  /\ IF a.from \in froms THEN Through(p, k, m, a.text, b.text) ELSE b = a

LEMMA ThroughPartStays ==
  ASSUME NEW p, NEW k, NEW froms, NEW m, NEW n, ExtendedBy(m, n), NEW a, NEW b,
         ThroughPart(p, k, froms, m, a, b)
  PROVE  ThroughPart(p, k, froms, n, a, b)
BY ThroughStays DEF ThroughPart

LEMMA ThroughPartGoesOn ==
  ASSUME NEW p, NEW k \in Nat \ {0}, NEW froms, NEW m, NEW a, NEW b, NEW c,
         ThroughPart(p, k - 1, froms, m, a, b), RewritesPart(p[k], froms, m, b, c)
  PROVE  ThroughPart(p, k, froms, m, a, c)
<1>1. c \in PlainPart /\ c.text \in PlainTexts /\ c.from = b.from /\ b.from = a.from
  BY DEF ThroughPart, RewritesPart, PlainPart
<1>2. CASE a.from \in froms
  BY <1>1, <1>2, ThroughGoesOn DEF ThroughPart, RewritesPart
<1>3. CASE a.from \notin froms
  BY <1>1, <1>3 DEF ThroughPart, RewritesPart
<1> QED BY <1>2, <1>3

\* What the first k plugins make of the parts, starting with the table m.
Chained(k, froms, m, parts) ==
  {d \in [table : Sound, parts : Seq(PlainPart)] :
     /\ ExtendedBy(m, d.table) /\ Len(d.parts) = Len(parts)
     /\ \A j \in 1 .. Len(parts) : ThroughPart(plugins, k, froms, d.table, parts[j], d.parts[j])}

LEMMA ChainedGoesOn ==
  ASSUME Ideal, NEW k \in 1 .. Len(plugins), NEW froms, NEW m, NEW parts,
         NEW X \in SUBSET Chained(k - 1, froms, m, parts),
         NEW e \in OnePlugin(plugins[k], froms, X)
  PROVE  e \in Chained(k, froms, m, parts)
<1>1. PICK d \in X :
        e \in RedactParts(d.table, plugins[k], d.parts, froms, WordsOf(d.parts, froms))
  BY DEF OnePlugin
<1> DEFINE fs == plugins[k]
           s == d.parts
           l == d.table
<1>2. /\ l \in Sound /\ s \in Seq(PlainPart) /\ ExtendedBy(m, l) /\ Len(s) = Len(parts)
      /\ \A j \in 1 .. Len(parts) : ThroughPart(plugins, k - 1, froms, l, parts[j], s[j])
  BY DEF Chained
<1>3. e \in RedactParts(l, fs, s, froms, WordsOf(s, froms))
  BY <1>1
<1> HIDE DEF fs, s, l
<1>4. e \in Worked(fs, froms, l, s, Len(s))
  BY <1>2, <1>3, PartsBecome
<1>5. /\ e \in [table : Sound, parts : Seq(PlainPart)] /\ e.table \in Sound
      /\ ExtendedBy(l, e.table) /\ Len(e.parts) = Len(parts)
      /\ \A j \in 1 .. Len(parts) : RewritesPart(fs, froms, e.table, s[j], e.parts[j])
  BY <1>2, <1>4 DEF Worked
<1>6. ASSUME NEW j \in 1 .. Len(parts)
      PROVE  ThroughPart(plugins, k, froms, e.table, parts[j], e.parts[j])
  <2>1. ThroughPart(plugins, k - 1, froms, e.table, parts[j], s[j])
    BY <1>2, <1>5, ThroughPartStays
  <2>2. RewritesPart(plugins[k], froms, e.table, s[j], e.parts[j])
    BY <1>5 DEF fs
  <2>3. k \in Nat \ {0}
    OBVIOUS
  <2> QED BY <2>1, <2>2, <2>3, ThroughPartGoesOn
<1>7. ExtendedBy(m, e.table)
  BY <1>2, <1>5, ExtendedOnwards
<1> QED BY <1>5, <1>6, <1>7 DEF Chained

LEMMA ChainBecomes ==
  ASSUME Ideal, plugins \in Seq(SUBSET AllFilters), NEW m \in Sound,
         NEW parts \in Seq(PlainPart), NEW froms, NEW d \in Chain(m, parts, froms)
  PROVE  d \in Chained(Len(plugins), froms, m, parts)
<1> DEFINE n == Len(plugins)
           R(i) == Chained(i, froms, m, parts)
           U == [i \in 0 .. n |-> SUBSET R(i)]
<1>1. n \in Nat /\ \A i \in 1 .. n : i \in 0 .. n /\ i - 1 \in 0 .. n
  BY LenProperties
<1>2. [table |-> m, parts |-> parts] \in R(0)
  <2>1. ASSUME NEW j \in 1 .. Len(parts)
        PROVE  ThroughPart(plugins, 0, froms, m, parts[j], parts[j])
    <3>1. parts[j] \in PlainPart
      BY ElementOfSeq
    <3>2. Through(plugins, 0, m, parts[j].text, parts[j].text)
      <4> DEFINE t == parts[j].text
                 w == [i \in 0 .. 0 |-> t]
      <4>1. w[0] = t
        OBVIOUS
      <4>2. \A i \in 1 .. 0 : FALSE
        OBVIOUS
      <4> HIDE DEF w, t
      <4>3. Through(plugins, 0, m, t, t)
        BY <4>1, <4>2 DEF Through
      <4> QED BY <4>3 DEF t
    <3> QED BY <3>1, <3>2 DEF ThroughPart
  <2> QED BY <2>1 DEF Chained, ExtendedBy
<1>3. \A i \in 0 .. n : U[i] = SUBSET R(i)
  OBVIOUS
<1> HIDE DEF U
<1>4. ASSUME NEW i \in 1 .. n, NEW x \in SUBSET R(i - 1)
      PROVE  OnePlugin(plugins[i], froms, x) \in SUBSET R(i)
  BY ChainedGoesOn
<1> HIDE DEF R
<1>5. {[table |-> m, parts |-> parts]} \in U[0]
  BY <1>1, <1>2, <1>3
<1>6. ChainLeads(froms, U)
  BY <1>1, <1>3, <1>4 DEF ChainLeads
<1>7. Chain(m, parts, froms) \in U[n]
  BY <1>1, <1>5, <1>6, ChainInduction
<1>8. n \in 0 .. n
  BY <1>1
<1> QED BY <1>3, <1>7, <1>8 DEF R

-----------------------------------------------------------------------------
(***************************************************************************)
(* How many passes it takes back.                                          *)
(***************************************************************************)

\* What one pass of Unredact makes of a word: an entry back, or nothing.
Back(m, v, w) == IF v.stem \in Candidate THEN v \in DOMAIN m /\ w = m[v] ELSE w = v

\* The words that n passes take back to one that was not generated.
Within(m, n) ==
  {v \in PlainWord : \E c : /\ c[0] = v /\ c[n].stem \notin Candidate
                            /\ \A i \in 1 .. n : c[i] \in PlainWord /\ Back(m, c[i - 1], c[i])}

LEMMA WithinNone ==
  ASSUME NEW m, NEW v \in PlainWord
  PROVE  v \in Within(m, 0) <=> v.stem \notin Candidate
<1>1. ASSUME v.stem \notin Candidate PROVE v \in Within(m, 0)
  <2> DEFINE c == [i \in 0 .. 0 |-> v]
  <2>1. c[0] = v /\ \A i \in 1 .. 0 : FALSE
    OBVIOUS
  <2> HIDE DEF c
  <2> QED BY <1>1, <2>1 DEF Within
<1> QED BY <1>1 DEF Within

LEMMA WithinMore ==
  ASSUME NEW m, NEW n \in Nat, NEW v \in Within(m, n)
  PROVE  v \in Within(m, n + 1)
<1>1. PICK c : /\ c[0] = v /\ c[n].stem \notin Candidate
               /\ \A i \in 1 .. n : c[i] \in PlainWord /\ Back(m, c[i - 1], c[i])
  BY DEF Within
<1> DEFINE d == [i \in 0 .. n + 1 |-> IF i = n + 1 THEN c[n] ELSE c[i]]
<1>2. d[n + 1] = c[n] /\ \A i \in 0 .. n : d[i] = c[i]
  OBVIOUS
<1> HIDE DEF d
<1>3. d[0] = v /\ d[n] = c[n] /\ v \in PlainWord
  BY <1>1, <1>2 DEF Within
<1>4. c[n] \in PlainWord
  <2>1. n = 0 \/ n \in 1 .. n
    OBVIOUS
  <2> QED BY <1>1, <1>3, <2>1
<1>5. ASSUME NEW i \in 1 .. n + 1 PROVE d[i] \in PlainWord /\ Back(m, d[i - 1], d[i])
  <2>1. CASE i = n + 1
    BY <1>1, <1>2, <1>3, <1>4, <2>1 DEF Back
  <2>2. CASE i # n + 1
    <3>1. i \in 1 .. n /\ i \in 0 .. n /\ i - 1 \in 0 .. n
      BY <2>2
    <3> QED BY <1>1, <1>2, <3>1
  <2> QED BY <2>1, <2>2
<1> QED BY <1>1, <1>2, <1>3, <1>5 DEF Within

LEMMA WithinMost ==
  ASSUME NEW m, NEW n \in Nat, NEW k \in Nat, n <= k, NEW v \in Within(m, n)
  PROVE  v \in Within(m, k)
<1> DEFINE T == {i \in 0 .. k - n : v \in Within(m, n + i)}
<1>1. 0 \in T
  OBVIOUS
<1>2. ASSUME NEW i \in 1 .. k - n, i - 1 \in T PROVE i \in T
  <2>1. n + (i - 1) \in Nat /\ (n + (i - 1)) + 1 = n + i
    OBVIOUS
  <2>2. v \in Within(m, n + (i - 1))
    BY <1>2
  <2>3. v \in Within(m, n + i)
    BY <2>1, <2>2, WithinMore
  <2> QED BY <2>3
<1>3. k - n \in Nat /\ n + (k - n) = k
  OBVIOUS
<1> HIDE DEF T
<1>4. 0 .. k - n \subseteq T
  BY <1>1, <1>2, <1>3, UpTo
<1>5. k - n \in T
  BY <1>3, <1>4
<1> QED BY <1>3, <1>5 DEF T

\* A key takes a pass more than its entry.
LEMMA WithinKey ==
  ASSUME NEW m, NEW n \in Nat, NEW k \in PlainWord, k.stem \in Candidate, k \in DOMAIN m,
         m[k] \in Within(m, n)
  PROVE  k \in Within(m, n + 1)
<1>1. PICK c : /\ c[0] = m[k] /\ c[n].stem \notin Candidate
               /\ \A i \in 1 .. n : c[i] \in PlainWord /\ Back(m, c[i - 1], c[i])
  BY DEF Within
<1> DEFINE d == [i \in 0 .. n + 1 |-> IF i = 0 THEN k ELSE c[i - 1]]
<1>2. d[0] = k /\ \A i \in 1 .. n + 1 : d[i] = c[i - 1]
  OBVIOUS
<1> HIDE DEF d
<1>3. d[n + 1] = c[n]
  <2>1. n + 1 \in 1 .. n + 1 /\ (n + 1) - 1 = n
    OBVIOUS
  <2> QED BY <1>2, <2>1
<1>4. ASSUME NEW i \in 1 .. n + 1 PROVE d[i] \in PlainWord /\ Back(m, d[i - 1], d[i])
  <2>1. CASE i = 1
    <3>1. d[1] = c[0] /\ i - 1 = 0
      BY <1>2, <2>1
    <3>2. m[k] \in PlainWord
      BY DEF Within
    <3> QED BY <1>1, <1>2, <2>1, <3>1, <3>2 DEF Back
  <2>2. CASE i # 1
    <3>1. i - 1 \in 1 .. n /\ i - 1 \in 1 .. n + 1
      BY <2>2
    <3>2. d[i] = c[i - 1] /\ d[i - 1] = c[(i - 1) - 1]
      BY <1>2, <3>1
    <3> QED BY <1>1, <3>1, <3>2
  <2> QED BY <2>1, <2>2
<1> QED BY <1>1, <1>2, <1>3, <1>4 DEF Within

\* And its entry one less.
LEMMA WithinBack ==
  ASSUME NEW m, NEW n \in Nat, NEW k \in Within(m, n + 1), k.stem \in Candidate
  PROVE  k \in DOMAIN m /\ m[k] \in Within(m, n)
<1>1. PICK c : /\ c[0] = k /\ c[n + 1].stem \notin Candidate
               /\ \A i \in 1 .. n + 1 : c[i] \in PlainWord /\ Back(m, c[i - 1], c[i])
  BY DEF Within
<1> DEFINE d == [i \in 0 .. n |-> c[i + 1]]
<1>2. \A i \in 0 .. n : d[i] = c[i + 1]
  OBVIOUS
<1> HIDE DEF d
<1>3. 0 \in 0 .. n /\ n \in 0 .. n /\ 1 \in 1 .. n + 1 /\ 0 + 1 = 1 /\ 1 - 1 = 0
  OBVIOUS
<1>4. c[1] \in PlainWord /\ k \in DOMAIN m /\ c[1] = m[k]
  BY <1>1, <1>3 DEF Back
<1>5. d[0] = m[k] /\ d[n] = c[n + 1]
  BY <1>2, <1>3, <1>4
<1>6. ASSUME NEW i \in 1 .. n PROVE d[i] \in PlainWord /\ Back(m, d[i - 1], d[i])
  <2>1. /\ i \in 0 .. n /\ i - 1 \in 0 .. n /\ i + 1 \in 1 .. n + 1
        /\ (i - 1) + 1 = i /\ (i + 1) - 1 = i
    OBVIOUS
  <2>2. d[i] = c[i + 1] /\ d[i - 1] = c[i]
    BY <1>2, <2>1
  <2> QED BY <1>1, <2>1, <2>2
<1> QED BY <1>1, <1>4, <1>5, <1>6 DEF Within

LEMMA WithinStays ==
  ASSUME NEW m, NEW l, ExtendedBy(m, l), NEW n, NEW v \in Within(m, n)
  PROVE  v \in Within(l, n)
<1>1. \A x, y : Back(m, x, y) => Back(l, x, y)
  BY DEF Back, ExtendedBy
<1> QED BY <1>1 DEF Within

TextWithin(m, n, t) == t \in Seq(Token) /\ \A i \in 1 .. Len(t) : t[i].word \in Within(m, n)

LEMMA TextWithinFacts ==
  ASSUME NEW m, NEW n, NEW t, TextWithin(m, n, t)
  PROVE  t \in PlainTexts
<1>1. \A i \in 1 .. Len(t) : t[i] \in PlainToken
  BY ElementOfSeq DEF TextWithin, Within, PlainToken
<1>2. t \in [1 .. Len(t) -> PlainToken] /\ Len(t) \in Nat
  <2>1. Len(t) \in Nat /\ t \in [1 .. Len(t) -> Token]
    BY LenProperties DEF TextWithin
  <2> QED BY <1>1, <2>1
<1> QED BY <1>2, SeqDef DEF PlainTexts

LEMMA TextWithinStays ==
  ASSUME NEW m, NEW l, ExtendedBy(m, l), NEW n, NEW t, TextWithin(m, n, t)
  PROVE  TextWithin(l, n, t)
BY WithinStays DEF TextWithin

LEMMA TextWithinMost ==
  ASSUME NEW m, NEW n \in Nat, NEW k \in Nat, n <= k, NEW t, TextWithin(m, n, t)
  PROVE  TextWithin(m, k, t)
BY WithinMost DEF TextWithin

-----------------------------------------------------------------------------
(***************************************************************************)
(* A filter adds a pass, and so does its turn on the way back.             *)
(***************************************************************************)

One(f, fs) == IF f \in fs THEN 1 ELSE 0
Passes(fs) == One("username", fs) + One("email", fs) + One("host", fs)

LEMMA PassesFacts ==
  ASSUME NEW fs \in SUBSET AllFilters
  PROVE  /\ Passes(fs) \in Nat
         /\ fs # {} => Passes(fs) >= 1
<1>1. \A f : One(f, fs) \in Nat /\ (f \in fs => One(f, fs) = 1)
  BY DEF One
<1> DEFINE a == One("username", fs)
           b == One("email", fs)
           c == One("host", fs)
<1>2. fs # {} => a = 1 \/ b = 1 \/ c = 1
  BY <1>1 DEF AllFilters
<1>3. Passes(fs) = a + b + c /\ a \in Nat /\ b \in Nat /\ c \in Nat
  BY <1>1 DEF Passes
<1> HIDE DEF a, b, c
<1> QED BY <1>2, <1>3

LEMMA PlainTextsFacts ==
  ASSUME NEW t \in PlainTexts
  PROVE  t \in Seq(Token) /\ \A i \in 1 .. Len(t) : t[i].word \in PlainWord
<1>1. PlainToken \subseteq Token
  BY DEF PlainToken
<1>2. t \in Seq(Token)
  BY <1>1, SeqMonotonic DEF PlainTexts
<1>3. \A i \in 1 .. Len(t) : t[i] \in PlainToken
  BY ElementOfSeq DEF PlainTexts
<1> QED BY <1>2, <1>3 DEF PlainToken

LEMMA BecomesRises ==
  ASSUME NEW f, NEW m \in Sound, NEW n \in Nat, NEW t, NEW s, Becomes(f, m, t, s),
         t.word \in Within(m, n)
  PROVE  s.word \in Within(m, n + 1)
<1>1. CASE ~Matches(f, t)
  BY <1>1, WithinMore DEF Becomes
<1>2. CASE Matches(f, t)
  <2>1. s.word \in PlainKeys(m) /\ m[s.word] = t.word
    BY <1>2 DEF Becomes
  <2>2. s.word \in PlainWord /\ s.word \in DOMAIN m /\ s.word.stem \in Candidate
    BY <2>1, KeyFacts
  <2> QED BY <2>1, <2>2, WithinKey
<1> QED BY <1>1, <1>2

\* The user name and the host filter find no generated names.
LEMMA BecomesOne ==
  ASSUME Ideal, NEW f \in {"username", "host"}, NEW m \in Sound, NEW t, NEW s,
         Becomes(f, m, t, s), t.word \in Within(m, 1)
  PROVE  s.word \in Within(m, 1)
<1>1. CASE ~Matches(f, t)
  BY <1>1 DEF Becomes
<1>2. CASE Matches(f, t)
  <2>1. t.word.stem \notin Candidate
    BY <1>2 DEF Matches, Ideal
  <2>2. t.word \in Within(m, 0)
    BY <2>1, WithinNone DEF Within
  <2>3. s.word \in Within(m, 0 + 1)
    BY <2>2, BecomesRises
  <2> QED BY <2>3
<1> QED BY <1>1, <1>2

LEMMA TurnRises ==
  ASSUME NEW f, NEW fs \in SUBSET AllFilters, NEW m \in Sound, NEW n \in Nat,
         NEW t, TextWithin(m, n, t), NEW s \in PlainTexts, Turn(f, fs, m, t, s)
  PROVE  TextWithin(m, n + One(f, fs), s)
<1>1. CASE f \in fs
  <2>1. \A i \in 1 .. Len(s) : s[i].word \in Within(m, n + 1)
    BY <1>1, BecomesRises DEF Turn, BecomesText, TextWithin
  <2> QED BY <1>1, <2>1, PlainTextsFacts DEF TextWithin, One
<1>2. CASE f \notin fs
  BY <1>2 DEF Turn, One
<1> QED BY <1>1, <1>2

LEMMA RewritesRises ==
  ASSUME NEW fs \in SUBSET AllFilters, NEW m \in Sound, NEW n \in Nat,
         NEW t, TextWithin(m, n, t), NEW s \in PlainTexts, Rewrites(fs, m, t, s)
  PROVE  TextWithin(m, n + Passes(fs), s)
<1>1. PICK u \in PlainTexts, v \in PlainTexts :
        Turn("username", fs, m, t, u) /\ Turn("email", fs, m, u, v) /\ Turn("host", fs, m, v, s)
  BY DEF Rewrites
<1> DEFINE a == One("username", fs)
           b == One("email", fs)
           c == One("host", fs)
<1>2. a \in Nat /\ b \in Nat /\ c \in Nat
  BY DEF One
<1>3. TextWithin(m, n + a, u)
  BY <1>1, TurnRises
<1>4. TextWithin(m, (n + a) + b, v)
  <2> HIDE DEF a
  <2>1. n + a \in Nat
    BY <1>2
  <2> QED BY <1>1, <1>3, <2>1, TurnRises
<1>5. TextWithin(m, ((n + a) + b) + c, s)
  <2> HIDE DEF a, b
  <2>1. (n + a) + b \in Nat
    BY <1>2
  <2> QED BY <1>1, <1>4, <2>1, TurnRises
<1>6. ((n + a) + b) + c = n + Passes(fs)
  <2>1. Passes(fs) = a + b + c
    BY DEF Passes
  <2> HIDE DEF a, b, c
  <2> QED BY <1>2, <2>1
<1> QED BY <1>5, <1>6

LEMMA RewritesOne ==
  ASSUME Ideal, NEW fs, "email" \notin fs, NEW m \in Sound,
         NEW t, TextWithin(m, 1, t), NEW s \in PlainTexts, Rewrites(fs, m, t, s)
  PROVE  TextWithin(m, 1, s)
<1>1. PICK u \in PlainTexts, v \in PlainTexts :
        Turn("username", fs, m, t, u) /\ Turn("email", fs, m, u, v) /\ Turn("host", fs, m, v, s)
  BY DEF Rewrites
<1>2. ASSUME NEW f \in {"username", "host"}, NEW x, NEW y \in PlainTexts,
             TextWithin(m, 1, x), Turn(f, fs, m, x, y)
      PROVE  TextWithin(m, 1, y)
  <2>1. CASE f \in fs
    <3>1. \A i \in 1 .. Len(y) : y[i].word \in Within(m, 1)
      BY <1>2, <2>1, BecomesOne DEF Turn, BecomesText, TextWithin
    <3> QED BY <3>1, PlainTextsFacts DEF TextWithin
  <2>2. CASE f \notin fs
    BY <1>2, <2>2 DEF Turn
  <2> QED BY <2>1, <2>2
<1>3. TextWithin(m, 1, u)
  BY <1>1, <1>2
<1>4. v = u
  BY <1>1 DEF Turn
<1> QED BY <1>1, <1>2, <1>3, <1>4

\* The passes of the first i plugins.
Sums(p, u) ==
  u[0] = 0 /\ \A i \in 1 .. Len(p) : u[i] = u[i - 1] + Passes(p[i])
Sum(p) == CHOOSE u : Sums(p, u)
Total(p) == Sum(p)[Len(p)]

LEMMA SumFacts ==
  ASSUME NEW p \in Seq(SUBSET AllFilters)
  PROVE  Sums(p, Sum(p)) /\ \A i \in 0 .. Len(p) : Sum(p)[i] \in Nat
<1> DEFINE n == Len(p)
           U == [i \in 0 .. n |-> Nat]
           G == [i \in 1 .. n |-> [x \in Nat |-> x + Passes(p[i])]]
<1>1. n \in Nat /\ \A i \in 1 .. n : i \in 0 .. n /\ i - 1 \in 0 .. n
  BY LenProperties
<1>2. \A i \in 1 .. n : Passes(p[i]) \in Nat
  <2>1. \A i \in 1 .. n : p[i] \in SUBSET AllFilters
    BY ElementOfSeq
  <2> QED BY <2>1, PassesFacts
<1>3. /\ \A i \in 0 .. n : U[i] = Nat
      /\ \A i \in 1 .. n : \A x \in Nat : G[i][x] = x + Passes(p[i])
  OBVIOUS
<1> HIDE DEF U, G
<1>4. Leads(n, U, G)
  <2> SUFFICES ASSUME NEW i \in 1 .. n, NEW x \in U[i - 1] PROVE G[i][x] \in U[i]
    BY DEF Leads
  <2>1. x \in Nat /\ Passes(p[i]) \in Nat /\ G[i][x] = x + Passes(p[i]) /\ U[i] = Nat
    BY <1>1, <1>2, <1>3
  <2> QED BY <2>1
<1>5. 0 \in U[0]
  BY <1>1, <1>3
<1> HIDE DEF n
<1>6. PICK u : Follows(n, U, G, 0, u)
  BY <1>1, <1>4, <1>5, Stepwise
<1>7. Sums(p, u)
  <2>1. u[0] = 0 /\ \A i \in 1 .. n : u[i] = G[i][u[i - 1]]
    BY <1>6 DEF Follows
  <2>2. \A i \in 1 .. n : u[i - 1] \in Nat
    BY <1>1, <1>3, <1>6 DEF Follows
  <2>3. \A i \in 1 .. n : u[i] = u[i - 1] + Passes(p[i])
    BY <1>3, <2>1, <2>2
  <2> QED BY <2>1, <2>3 DEF Sums, n
<1>8. Sums(p, Sum(p))
  BY <1>7, Zenon DEF Sum
<1> DEFINE g == Sum(p)
           T == {i \in 0 .. n : g[i] \in Nat}
<1> HIDE DEF g
<1>9. 0 \in T
  BY <1>1, <1>8 DEF Sums, g
<1>10. ASSUME NEW i \in 1 .. n, i - 1 \in T PROVE i \in T
  <2>1. g[i] = g[i - 1] + Passes(p[i])
    BY <1>8 DEF Sums, g, n
  <2> QED BY <1>1, <1>2, <1>10, <2>1
<1> HIDE DEF T
<1>11. 0 .. n \subseteq T
  BY <1>1, <1>9, <1>10, UpTo
<1> QED BY <1>8, <1>11 DEF T, g, n

LEMMA SumGrows ==
  ASSUME NEW p \in Seq(SUBSET AllFilters), NEW k \in 0 .. Len(p)
  PROVE  Sum(p)[k] <= Total(p) /\ Sum(p)[k] \in Nat /\ Total(p) \in Nat
<1> DEFINE n == Len(p)
           u == Sum(p)
           T == {i \in 0 .. n - k : u[k] <= u[k + i]}
<1>1. n \in Nat /\ k \in Nat /\ n - k \in Nat /\ k + (n - k) = n
  BY LenProperties
<1>2. \A i \in 0 .. n : u[i] \in Nat
  BY SumFacts
<1>3. \A i \in 1 .. n : u[i] = u[i - 1] + Passes(p[i])
  BY SumFacts DEF Sums
<1>4. \A i \in 1 .. n : Passes(p[i]) \in Nat
  <2>1. \A i \in 1 .. n : p[i] \in SUBSET AllFilters
    BY ElementOfSeq
  <2> QED BY <2>1, PassesFacts
<1>5. Total(p) = u[n]
  BY DEF Total
<1>6. k \in 0 .. n
  OBVIOUS
<1> HIDE DEF n, u
<1>7. 0 \in T
  BY <1>1, <1>2, <1>6
<1>8. ASSUME NEW i \in 1 .. n - k, i - 1 \in T PROVE i \in T
  <2>1. k + i \in 1 .. n /\ k + (i - 1) \in 0 .. n /\ (k + i) - 1 = k + (i - 1) /\ i \in 0 .. n - k
    BY <1>1
  <2>2. u[k + i] = u[k + (i - 1)] + Passes(p[k + i]) /\ Passes(p[k + i]) \in Nat
    BY <1>3, <1>4, <2>1
  <2>3. u[k] \in Nat /\ u[k + (i - 1)] \in Nat /\ u[k] <= u[k + (i - 1)]
    BY <1>2, <1>6, <1>8, <2>1
  <2>4. u[k] <= u[k + i]
    BY <2>2, <2>3
  <2> QED BY <2>1, <2>4
<1> HIDE DEF T
<1>9. 0 .. n - k \subseteq T
  BY <1>1, <1>7, <1>8, UpTo
<1>10. n - k \in T
  BY <1>1, <1>9
<1>11. u[k] <= u[n]
  BY <1>1, <1>10 DEF T
<1>12. n \in 0 .. n
  BY <1>1
<1> QED BY <1>2, <1>5, <1>6, <1>11, <1>12 DEF u

\* How many passes a text that was redacted once, or again without the mail
\* filter, takes back after the first i plugins.
Level(i) == IF "email" \in Enabled THEN Sum(plugins)[i] ELSE 1

LEMMA LevelFacts ==
  ASSUME NEW i \in 0 .. Len(plugins), plugins \in Registrations
  PROVE  Level(i) \in Nat /\ Total(plugins) \in Nat /\ Level(i) <= Total(plugins)
<1>1. plugins \in Seq(SUBSET AllFilters) /\ plugins # <<>>
  BY PluginFacts, AgentFlowAssumption
<1>2. Sum(plugins)[i] <= Total(plugins) /\ Sum(plugins)[i] \in Nat /\ Total(plugins) \in Nat
  BY <1>1, SumGrows
<1>3. 1 <= Total(plugins)
  <2>1. Len(plugins) \in Nat /\ 1 \in 0 .. Len(plugins) /\ 1 \in 1 .. Len(plugins)
    BY <1>1, EmptySeq
  <2>2. plugins[1] \in SUBSET AllFilters /\ plugins[1] # {}
    <3>1. plugins \in Seq((SUBSET AllFilters) \ {{}})
      BY AgentFlowAssumption
    <3>2. plugins[1] \in (SUBSET AllFilters) \ {{}}
      BY <2>1, <3>1, ElementOfSeq
    <3> QED BY <3>2
  <2>3. Passes(plugins[1]) >= 1 /\ Passes(plugins[1]) \in Nat
    BY <2>2, PassesFacts
  <2>4. Sum(plugins)[1] = 0 + Passes(plugins[1])
    <3>1. Sums(plugins, Sum(plugins))
      BY <1>1, SumFacts
    <3> DEFINE u == Sum(plugins)
    <3>2. u[0] = 0 /\ u[1] = u[1 - 1] + Passes(plugins[1])
      BY <2>1, <3>1 DEF Sums
    <3> HIDE DEF u
    <3>3. u[1] = 0 + Passes(plugins[1])
      BY <3>2
    <3> QED BY <3>3 DEF u
  <2>5. Sum(plugins)[1] <= Total(plugins) /\ Sum(plugins)[1] \in Nat
    BY <1>1, <2>1, SumGrows
  <2> QED BY <1>2, <2>3, <2>4, <2>5
<1> QED BY <1>2, <1>3 DEF Level

LEMMA RewritesLevel ==
  ASSUME Ideal, plugins \in Registrations, NEW i \in 1 .. Len(plugins), NEW m \in Sound,
         NEW t, TextWithin(m, Level(i - 1), t), NEW s \in PlainTexts, Rewrites(plugins[i], m, t, s)
  PROVE  TextWithin(m, Level(i), s)
<1>1. plugins \in Seq(SUBSET AllFilters) /\ Len(plugins) \in Nat
  BY PluginFacts, LenProperties
<1>2. plugins[i] \in SUBSET AllFilters /\ plugins[i] \subseteq Enabled
  <2>1. DOMAIN plugins = 1 .. Len(plugins)
    BY <1>1, LenProperties
  <2> QED BY <1>1, <2>1, ElementOfSeq DEF Enabled
<1>3. i - 1 \in 0 .. Len(plugins)
  BY <1>1
<1>4. CASE "email" \in Enabled
  <2> DEFINE n == Sum(plugins)[i - 1]
  <2>1. Level(i - 1) = n /\ n \in Nat
    BY <1>1, <1>3, <1>4, SumGrows DEF Level
  <2>2. Level(i) = n + Passes(plugins[i])
    BY <1>1, <1>4, SumFacts DEF Level, Sums
  <2> HIDE DEF n
  <2> QED BY <1>2, <2>1, <2>2, RewritesRises
<1>5. CASE "email" \notin Enabled
  <2>1. "email" \notin plugins[i] /\ Level(i - 1) = 1 /\ Level(i) = 1
    BY <1>2, <1>5 DEF Level
  <2> QED BY <2>1, RewritesOne
<1> QED BY <1>4, <1>5

LEMMA ThroughLevel ==
  ASSUME Ideal, plugins \in Registrations, NEW m \in Sound,
         NEW t, TextWithin(m, Level(0), t), NEW s, Through(plugins, Len(plugins), m, t, s)
  PROVE  TextWithin(m, Level(Len(plugins)), s) /\ TextWithin(m, Total(plugins), s)
<1> DEFINE n == Len(plugins)
<1>1. plugins \in Seq(SUBSET AllFilters) /\ n \in Nat
  BY PluginFacts, LenProperties
<1>2. PICK w : /\ w[0] = t /\ w[n] = s
               /\ \A i \in 1 .. n : w[i] \in PlainTexts /\ Rewrites(plugins[i], m, w[i - 1], w[i])
  BY DEF Through
<1> DEFINE T == {i \in 0 .. n : TextWithin(m, Level(i), w[i])}
<1>3. 0 \in T
  BY <1>1, <1>2
<1>4. ASSUME NEW i \in 1 .. n, i - 1 \in T PROVE i \in T
  <2>1. TextWithin(m, Level(i - 1), w[i - 1])
    BY <1>4
  <2>2. TextWithin(m, Level(i), w[i])
    BY <1>2, <2>1, RewritesLevel
  <2> QED BY <1>1, <2>2
<1> HIDE DEF T
<1>5. 0 .. n \subseteq T
  BY <1>1, <1>3, <1>4, UpTo
<1>6. n \in 0 .. n
  BY <1>1
<1>7. TextWithin(m, Level(n), s)
  BY <1>2, <1>5, <1>6 DEF T
<1>8. Level(n) \in Nat /\ Total(plugins) \in Nat /\ Level(n) <= Total(plugins)
  BY <1>6, LevelFacts
<1> QED BY <1>7, <1>8, TextWithinMost

Less(n, k) == IF k <= n THEN n - k ELSE 0

LEMMA RestoreBack ==
  ASSUME NEW m \in Sound, NEW n \in Nat, NEW token \in Token, token.word \in Within(m, n)
  PROVE  Restore(m, token) \in Token /\ Restore(m, token).word \in Within(m, Less(n, 1))
<1> DEFINE v == token.word
           whole == WithTld(v, token.tld)
           r == Restore(m, token)
<1>1. /\ m \in Tables /\ GoodTable(m) /\ v \in PlainWord /\ v \in Word /\ v.tld = NoTld
      /\ token.tld \in Tld \union {NoTld}
  BY DEF Sound, Within, PlainWord, Token
<1>2. r \in Token
  BY <1>1, RestoreFacts
<1>3. ASSUME v \in DOMAIN m PROVE m[v] \in Within(m, Less(n, 1))
  <2>1. v.stem \in Candidate
    BY <1>1, <1>3, TableFacts DEF Keys
  <2>2. n # 0
    BY <1>1, <2>1, WithinNone
  <2>3. n - 1 \in Nat /\ (n - 1) + 1 = n /\ Less(n, 1) = n - 1
    BY <2>2 DEF Less
  <2> HIDE DEF v
  <2> DEFINE k == n - 1
  <2> HIDE DEF k
  <2>4. k \in Nat /\ v \in Within(m, k + 1)
    BY <2>3 DEF k, v
  <2>5. m[v] \in Within(m, k)
    BY <2>1, <2>4, WithinBack
  <2> QED BY <2>3, <2>5 DEF k
<1>4. CASE token.tld # NoTld /\ whole \in DOMAIN m
  <2>1. whole \in Word /\ whole.stem = v.stem /\ whole.caps = v.caps /\ whole.tld = token.tld
    BY <1>1, WithTldFacts
  <2>2. /\ WithTld(whole, NoTld) \in Word /\ WithTld(whole, NoTld).stem = v.stem
        /\ WithTld(whole, NoTld).caps = v.caps /\ WithTld(whole, NoTld).tld = NoTld
    BY <2>1, WithTldFacts
  <2>3. WithTld(whole, NoTld) = v
    BY <1>1, <2>2, WordEquality
  <2>4. v \in PlainKeys(m) /\ m[v] = WithTld(m[whole], NoTld)
    BY <1>1, <1>4, <2>1, <2>3 DEF GoodTable, SuffixedEntries
  <2>5. v \in DOMAIN m
    BY <2>4 DEF PlainKeys
  <2>6. r.word = m[v]
    <3>1. r = [token EXCEPT !.word = WithTld(m[whole], NoTld), !.tld = m[whole].tld]
      BY <1>4 DEF Restore
    <3>2. r.word = WithTld(m[whole], NoTld)
      BY <3>1 DEF Token
    <3> QED BY <2>4, <3>2
  <2> QED BY <1>2, <1>3, <2>5, <2>6
<1>5. CASE ~(token.tld # NoTld /\ whole \in DOMAIN m) /\ v \in DOMAIN m
  <2>1. r = [token EXCEPT !.word = m[v]]
    BY <1>5 DEF Restore
  <2>2. r.word = m[v]
    BY <2>1 DEF Token
  <2> QED BY <1>2, <1>3, <1>5, <2>2
<1>6. CASE ~(token.tld # NoTld /\ whole \in DOMAIN m) /\ v \notin DOMAIN m
  <2>1. r = token
    BY <1>6 DEF Restore
  <2>2. CASE n = 0
    BY <1>2, <2>1, <2>2 DEF Less
  <2>3. CASE n # 0
    <3>1. n - 1 \in Nat /\ (n - 1) + 1 = n /\ Less(n, 1) = n - 1
      BY <2>3 DEF Less
    <3>2. v.stem \notin Candidate
      <4> DEFINE k == n - 1
      <4>1. k \in Nat /\ v \in Within(m, k + 1)
        BY <3>1
      <4> HIDE DEF k, v
      <4> QED BY <1>6, <4>1, WithinBack
    <3>3. v \in Within(m, 0) /\ 0 <= n - 1
      BY <1>1, <3>1, <3>2, WithinNone
    <3> QED BY <1>2, <2>1, <3>1, <3>3, WithinMost
  <2> QED BY <2>2, <2>3
<1> QED BY <1>4, <1>5, <1>6

LEMMA UnredactTextBack ==
  ASSUME NEW m \in Sound, NEW n \in Nat, NEW t, TextWithin(m, n, t)
  PROVE  TextWithin(m, Less(n, 1), UnredactText(m, t))
<1>1. t \in Seq(Token) /\ DOMAIN t = 1 .. Len(t) /\ Len(t) \in Nat
  BY LenProperties DEF TextWithin
<1>2. \A i \in 1 .. Len(t) :
        Restore(m, t[i]) \in Token /\ Restore(m, t[i]).word \in Within(m, Less(n, 1))
  BY <1>1, ElementOfSeq, RestoreBack DEF TextWithin
<1> DEFINE s == UnredactText(m, t)
<1>3. s \in [1 .. Len(t) -> Token] /\ \A i \in 1 .. Len(t) : s[i] = Restore(m, t[i])
  BY <1>1, <1>2 DEF UnredactText
<1> HIDE DEF s
<1>4. s \in Seq(Token)
  BY <1>1, <1>3, SeqDef
<1>5. Len(s) = Len(t)
  BY <1>1, <1>3, <1>4, LenProperties
<1>6. TextWithin(m, Less(n, 1), s)
  BY <1>2, <1>3, <1>4, <1>5 DEF TextWithin
<1> QED BY <1>6 DEF s

LEMMA LessFacts ==
  ASSUME NEW n \in Nat, NEW k \in Nat, NEW l \in Nat
  PROVE  Less(n, k) \in Nat /\ Less(Less(n, k), l) = Less(n, k + l) /\ Less(n, 0) = n
BY DEF Less

LEMMA UnredactBack ==
  ASSUME NEW m \in Sound, NEW fs \in SUBSET AllFilters, NEW n \in Nat, NEW t, TextWithin(m, n, t)
  PROVE  TextWithin(m, Less(n, Passes(fs)), Unredact(m, fs, t))
<1> DEFINE pass(f, s) == IF f \in fs THEN UnredactText(m, s) ELSE s
           a == One("host", fs)
           b == One("email", fs)
           c == One("username", fs)
<1>1. ASSUME NEW f, NEW k \in Nat, NEW s, TextWithin(m, k, s)
      PROVE  TextWithin(m, Less(k, One(f, fs)), pass(f, s))
  BY <1>1, UnredactTextBack, LessFacts DEF One
<1>2. Unredact(m, fs, t) = pass("username", pass("email", pass("host", t)))
  BY Zenon DEF Unredact
<1>3. a \in Nat /\ b \in Nat /\ c \in Nat /\ Passes(fs) = c + b + a
  BY DEF One, Passes
<1> HIDE DEF pass
<1>4. TextWithin(m, Less(n, a), pass("host", t))
  BY <1>1
<1>5. TextWithin(m, Less(Less(n, a), b), pass("email", pass("host", t)))
  <2> HIDE DEF a
  <2>1. Less(n, a) \in Nat
    BY <1>3, LessFacts
  <2> QED BY <1>1, <1>4, <2>1
<1>6. TextWithin(m, Less(Less(Less(n, a), b), c), pass("username", pass("email", pass("host", t))))
  <2> HIDE DEF a, b
  <2>1. Less(n, a) \in Nat /\ Less(Less(n, a), b) \in Nat
    BY <1>3, LessFacts
  <2> QED BY <1>1, <1>5, <2>1
<1>7. Less(Less(Less(n, a), b), c) = Less(n, Passes(fs))
  <2> HIDE DEF a, b, c
  <2>1. a + b \in Nat /\ Less(Less(n, a), b) = Less(n, a + b) /\ (a + b) + c = c + b + a
    BY <1>3, LessFacts
  <2>2. Less(Less(n, a + b), c) = Less(n, (a + b) + c)
    BY <1>3, <2>1, LessFacts
  <2> QED BY <1>3, <2>1, <2>2
<1> QED BY <1>2, <1>6, <1>7

\* The way back through all plugins.
LEMMA RestoredBack ==
  ASSUME plugins \in Registrations, table \in Sound,
         NEW t, TextWithin(table, Total(plugins), t)
  PROVE  TextWithin(table, 0, Restored(t))
<1> DEFINE n == Len(plugins)
           all == Total(plugins)
           u == Sum(plugins)
           U == [i \in 0 .. n |-> {s \in Seq(Token) : TextWithin(table, Less(all, u[i]), s)}]
<1>1. plugins \in Seq(SUBSET AllFilters) /\ n \in Nat
  BY PluginFacts, LenProperties
<1>2. \A i \in 1 .. n : i \in 0 .. n /\ i - 1 \in 0 .. n
  BY <1>1
<1>3. all \in Nat /\ u[n] = all /\ u[0] = 0
  <2>1. n \in 0 .. n
    BY <1>1
  <2> QED BY <1>1, <2>1, SumGrows, SumFacts DEF Sums, Total
<1>4. \A i \in 0 .. n : u[i] \in Nat
  BY <1>1, SumFacts
<1>5. \A i \in 0 .. n : U[i] = {s \in Seq(Token) : TextWithin(table, Less(all, u[i]), s)}
  OBVIOUS
<1>6. ASSUME NEW i \in 1 .. n
      PROVE  /\ plugins[i] \in SUBSET AllFilters /\ Passes(plugins[i]) \in Nat
             /\ u[i] = u[i - 1] + Passes(plugins[i])
  <2>1. plugins[i] \in SUBSET AllFilters
    BY <1>1, ElementOfSeq
  <2> QED BY <1>1, <2>1, PassesFacts, SumFacts DEF Sums
<1> HIDE DEF U, u, all
<1>7. WayBack(U)
  <2> SUFFICES ASSUME NEW i \in 1 .. n, NEW x \in U[i - 1]
               PROVE  Unredact(table, plugins[i], x) \in U[i]
    BY DEF WayBack
  <2> DEFINE k == u[i - 1]
             p == Passes(plugins[i])
  <2>1. TextWithin(table, Less(all, k), x)
    BY <1>2, <1>5
  <2>2. k \in Nat /\ p \in Nat /\ u[i] = k + p /\ plugins[i] \in SUBSET AllFilters
    BY <1>2, <1>4, <1>6
  <2> HIDE DEF k
  <2>3. Less(all, k) \in Nat /\ Less(Less(all, k), p) = Less(all, k + p)
    <3> HIDE DEF p
    <3>1. all \in Nat /\ k \in Nat /\ p \in Nat
      BY <1>3, <2>2
    <3> QED BY <3>1 DEF Less
  <2>4. TextWithin(table, Less(Less(all, k), p), Unredact(table, plugins[i], x))
    BY <2>1, <2>2, <2>3, UnredactBack
  <2> HIDE DEF p
  <2>5. TextWithin(table, Less(all, u[i]), Unredact(table, plugins[i], x))
    BY <2>2, <2>3, <2>4
  <2> QED BY <1>2, <1>5, <2>5 DEF TextWithin
<1>8. t \in U[0]
  <2>1. 0 \in 0 .. n /\ Less(all, 0) = all
    BY <1>1, <1>3, LessFacts
  <2> QED BY <1>3, <1>5, <2>1 DEF TextWithin, all
<1>9. Restored(t) \in U[n]
  BY <1>1, <1>7, <1>8, RestoredInduction
<1>10. n \in 0 .. n /\ Less(all, all) = 0
  BY <1>1, <1>3 DEF Less
<1> QED BY <1>3, <1>5, <1>9, <1>10

-----------------------------------------------------------------------------
(***************************************************************************)
(* The session, as long as nothing disturbs it.                            *)
(***************************************************************************)

Undisturbed == ~restarted /\ ("email" \notin Enabled \/ ~again)

\* A request is as long as the session was, and a part more is on its way.
Counted ==
  /\ Len(request) <= Len(session)
  /\ phase = "request" \/ Calling => Len(request) < Len(session)

\* Whether every text of the session waits for its first pass, or may be
\* redacted again: not where a request is redacted in the session itself.
Waits == ~runner.aliased \/ "email" \notin Enabled \/ (phase = "request" /\ Len(session) = 1)

\* The way back is never longer than the passes of the plugins.
PartsReturn(m, parts, waiting) ==
  /\ \A i \in 1 .. Len(parts) : TextWithin(m, Total(plugins), parts[i].text)
  /\ waiting => \A i \in 1 .. Len(parts) :
                  parts[i].from \in TextParts => TextWithin(m, Level(0), parts[i].text)

Returning(m, parts, waiting, ph, sent, reply, shown) ==
  /\ m \in Sound
  /\ PartsReturn(m, parts, waiting)
  /\ ph = "model" => \A i \in 1 .. Len(sent) : TextWithin(m, Total(plugins), sent[i].text)
  /\ ph = "answer" => TextWithin(m, Total(plugins), reply.text)
  /\ ph \in {"run", "failed", "returned"} => TextWithin(m, Level(0), Last(parts).text)
  /\ ph \in {"failed", "returned"} => TextWithin(m, Level(0), reply.text)
  /\ TextWithin(m, 0, shown)

Returns == Undisturbed => Returning(table, session, Waits, phase, request, answer, out)

\* The parts of the last request are what the plugins make of the session's.
Steady ==
  Undisturbed /\ (~runner.aliased \/ "email" \notin Enabled) =>
    \A i \in 1 .. Len(request) :
      ThroughPart(plugins, Len(plugins), TextParts, table, session[i], request[i])

\* Counted tells the parts a step adds or rewrites from those of the last
\* request; Returns gives Steady a table that takes and keeps entries.
Kept == Counted /\ Returns /\ Steady

LEMMA LevelOnwards ==
  ASSUME plugins \in Registrations, NEW m, NEW t, TextWithin(m, 0, t)
  PROVE  TextWithin(m, Level(0), t) /\ TextWithin(m, Total(plugins), t)
<1>1. plugins \in Seq(SUBSET AllFilters)
  BY PluginFacts
<1>2. 0 \in 0 .. Len(plugins)
  BY <1>1, LenProperties
<1>3. Level(0) \in Nat /\ Total(plugins) \in Nat /\ 0 <= Level(0) /\ 0 <= Total(plugins)
  BY <1>2, LevelFacts
<1> QED BY <1>3, TextWithinMost

LEMMA LevelMost ==
  ASSUME plugins \in Registrations, NEW m, NEW t, TextWithin(m, Level(0), t)
  PROVE  TextWithin(m, Total(plugins), t)
<1>1. plugins \in Seq(SUBSET AllFilters)
  BY PluginFacts
<1>2. 0 \in 0 .. Len(plugins)
  BY <1>1, LenProperties
<1>3. Level(0) \in Nat /\ Total(plugins) \in Nat /\ Level(0) <= Total(plugins)
  BY <1>2, LevelFacts
<1> QED BY <1>3, TextWithinMost

LEMMA WrittenFacts ==
  ASSUME Ideal, NEW t \in UserTexts \union ToolTexts, NEW m
  PROVE  TextWithin(m, 0, t)
<1>1. t \in Seq(Token) /\ \A i \in DOMAIN t : t[i].word.tld = NoTld
  BY AgentFlowAssumption DEF IsText
<1>2. DOMAIN t = 1 .. Len(t)
  BY <1>1, LenProperties
<1>3. ASSUME NEW i \in 1 .. Len(t) PROVE t[i].word \in Within(m, 0)
  <2>1. t[i] \in Token /\ t[i].word \in Word
    <3>1. t[i] \in Token
      BY <1>1, ElementOfSeq
    <3> QED BY <3>1 DEF Token
  <2>2. t[i].word \in FullInput(t)
    BY <1>2 DEF FullInput
  <2>3. t[i].word.stem \notin Candidate /\ Length[t[i].word.stem] <= MaxLength
    BY <2>2 DEF Ideal
  <2>4. t[i].word \in PlainWord
    BY <1>1, <1>2, <2>1, <2>3 DEF PlainWord
  <2> QED BY <2>3, <2>4, WithinNone
<1> QED BY <1>1, <1>3 DEF TextWithin

\* The plugins are registered once and for all.
LEMMA SamePlugins ==
  ASSUME plugins' = plugins
  PROVE  /\ Enabled' = Enabled /\ Level(0)' = Level(0)
         /\ Total(plugins') = Total(plugins) /\ Len(plugins') = Len(plugins)
BY DEF Enabled, Level

LEMMA ReturnsNext ==
  ASSUME plugins' = plugins,
         Undisturbed' => Returning(table', session', Waits', phase', request', answer', out')
  PROVE  Returns'
BY SamePlugins DEF Returns, Returning, PartsReturn

\* A part more.
LEMMA PartsReturnMore ==
  ASSUME NEW m, NEW parts \in Seq(Part), NEW w \in BOOLEAN, PartsReturn(m, parts, w),
         NEW more, NEW v \in BOOLEAN, v => w \/ Len(parts) = 0,
         Len(more) = Len(parts) + 1, \A i \in 1 .. Len(parts) : more[i] = parts[i],
         TextWithin(m, Total(plugins), more[Len(more)].text),
         more[Len(more)].from \in TextParts => TextWithin(m, Level(0), more[Len(more)].text)
  PROVE  PartsReturn(m, more, v)
<1>1. Len(parts) \in Nat
  BY LenProperties
<1>2. \A i \in 1 .. Len(more) : i = Len(more) \/ (i \in 1 .. Len(parts) /\ Len(parts) # 0)
  BY <1>1
<1> QED BY <1>2 DEF PartsReturn

LEMMA PlainParts ==
  ASSUME NEW parts \in Seq(Part), NEW m, NEW n,
         \A i \in 1 .. Len(parts) : TextWithin(m, n, parts[i].text)
  PROVE  parts \in Seq(PlainPart)
<1>1. \A i \in 1 .. Len(parts) : parts[i] \in PlainPart
  BY ElementOfSeq, TextWithinFacts DEF PlainPart
<1>2. Len(parts) \in Nat /\ parts \in [1 .. Len(parts) -> Part]
  BY LenProperties
<1>3. parts \in [1 .. Len(parts) -> PlainPart]
  BY <1>1, <1>2
<1> QED BY <1>2, <1>3, SeqDef

\* Without the mail filter, what the plugins have redacted they leave alone.
LEMMA CleanThrough ==
  ASSUME Ideal, plugins \in Registrations, "email" \notin Enabled, NEW m,
         NEW t \in PlainTexts, Enabled \subseteq CleanOf(t)
  PROVE  Through(plugins, Len(plugins), m, t, t)
<1>1. plugins \in Seq(SUBSET AllFilters) /\ Len(plugins) \in Nat /\ DOMAIN plugins = 1 .. Len(plugins)
  BY PluginFacts, LenProperties
<1>2. DOMAIN t = 1 .. Len(t) /\ \A i \in 1 .. Len(t) : t[i] \in PlainToken
  BY LenProperties, ElementOfSeq DEF PlainTexts
<1>3. ASSUME NEW f \in Enabled PROVE BecomesText(f, m, t, t)
  <2>1. f \in AllFilters /\ f # "email"
    BY <1>3 DEF CleanOf
  <2>2. f \in {"username", "host"}
    BY <2>1 DEF AllFilters
  <2>3. ASSUME NEW i \in 1 .. Len(t) PROVE ~Matches(f, t[i])
    <3>1. Clean(f, t[i])
      BY <1>2, <1>3 DEF CleanOf
    <3> QED BY <2>2, <3>1 DEF Clean, Matches, Ideal
  <2> QED BY <1>2, <2>3 DEF BecomesText, Becomes
<1>4. ASSUME NEW i \in 1 .. Len(plugins) PROVE Rewrites(plugins[i], m, t, t)
  <2>1. plugins[i] \subseteq Enabled
    BY <1>1 DEF Enabled
  <2>2. \A f : Turn(f, plugins[i], m, t, t)
    BY <1>3, <2>1 DEF Turn
  <2> QED BY <2>2 DEF Rewrites
<1> DEFINE w == [i \in 0 .. Len(plugins) |-> t]
<1>5. w[0] = t /\ w[Len(plugins)] = t /\ \A i \in 1 .. Len(plugins) : w[i] = t /\ w[i - 1] = t
  BY <1>1
<1> HIDE DEF w
<1> QED BY <1>4, <1>5 DEF Through

LEMMA KeptInit == Init => Kept
<1> SUFFICES ASSUME Init PROVE Kept
  OBVIOUS
<1>1. /\ Len(session) = 0 /\ Len(request) = 0 /\ phase = "idle"
      /\ table = <<>> /\ out = <<>>
  BY DEF Init
<1>2. table \in Sound
  BY <1>1, NoTableIsSound
<1>3. TextWithin(table, 0, out)
  BY <1>1 DEF TextWithin
<1>4. Counted /\ Steady
  BY <1>1 DEF Counted, Steady, Calling
<1>5. Returns
  BY <1>1, <1>2, <1>3 DEF Returns, Returning, PartsReturn
<1> QED BY <1>4, <1>5 DEF Kept

LEMMA UserSaysReturns ==
  ASSUME Ideal, Inv, Kept, NEW t \in UserTexts, UserSays(t)
  PROVE  Kept'
<1> DEFINE part == [from |-> "user", text |-> t]
<1>1. /\ phase = "idle" /\ phase' = "request" /\ session' = Append(session, part)
      /\ UNCHANGED <<plugins, runner, table, request, answer, out, again, unswept, restarted>>
  BY DEF UserSays, registered, history
<1>2. \A m : TextWithin(m, 0, t)
  BY WrittenFacts
<1>3. part \in Part /\ part.text = t
  BY <1>2 DEF Part, TextWithin
<1> HIDE DEF part
<1>4. /\ session' \in Seq(Part) /\ Len(session') = Len(session) + 1 /\ Len(session) \in Nat
      /\ \A i \in 1 .. Len(session) : session'[i] = session[i]
      /\ session'[Len(session')] = part
  BY <1>1, <1>3, AppendedFacts DEF Inv, Typed
<1>5. Len(request) \in Nat
  BY LenProperties DEF Inv, Typed
<1>6. Counted'
  BY <1>1, <1>4, <1>5 DEF Kept, Counted, Calling
<1>7. plugins \in Registrations /\ Enabled' = Enabled
  BY <1>1 DEF Inv, Typed, Enabled
<1>8. ASSUME Undisturbed' PROVE Undisturbed
  BY <1>1, <1>7, <1>8 DEF Undisturbed
<1>9. Returns'
  <2> SUFFICES ASSUME Undisturbed'
               PROVE  Returning(table', session', Waits', phase', request', answer', out')
    BY <1>1, ReturnsNext
  <2>1. Returning(table, session, Waits, phase, request, answer, out)
    BY <1>8 DEF Kept, Returns
  <2>2. TextWithin(table, Total(plugins), t) /\ TextWithin(table, Level(0), t)
    BY <1>2, <1>7, LevelOnwards
  <2>3. Waits' => Waits \/ Len(session) = 0
    BY <1>1, <1>4, <1>7 DEF Waits
  <2>4. Waits \in BOOLEAN /\ Waits' \in BOOLEAN
    BY DEF Waits
  <2>5. PartsReturn(table, session', Waits')
    BY <1>3, <1>4, <2>1, <2>2, <2>3, <2>4, PartsReturnMore DEF Returning, Inv, Typed
  <2> QED BY <1>1, <2>1, <2>5 DEF Returning
<1>10. Steady'
  <2> SUFFICES ASSUME Undisturbed', ~runner.aliased \/ "email" \notin Enabled,
                      NEW i \in 1 .. Len(request)
               PROVE  ThroughPart(plugins, Len(plugins), TextParts, table, session'[i], request[i])
    BY <1>1, <1>7 DEF Steady
  <2>1. i \in 1 .. Len(session)
    BY <1>4, <1>5 DEF Kept, Counted
  <2> QED BY <1>4, <1>8, <2>1 DEF Kept, Steady
<1> QED BY <1>6, <1>9, <1>10 DEF Kept
LEMMA BeforeModelReturns ==
  ASSUME Ideal, Inv, Kept, BeforeModel
  PROVE  /\ Kept'
         /\ Undisturbed' => \A i \in DOMAIN request : i \in DOMAIN request' /\ request'[i] = request[i]
<1>1. PICK q \in RedactRequest(table, session) :
        /\ table' = q.table /\ request' = q.parts
        /\ session' = IF runner.aliased THEN q.parts ELSE session
  BY DEF BeforeModel
<1>2. /\ phase = "request" /\ phase' = "model"
      /\ again' = (again \/ (runner.aliased /\ Len(session) > 1))
      /\ UNCHANGED <<plugins, runner, answer, out, unswept, restarted>>
  BY DEF BeforeModel, registered
<1>3. /\ plugins \in Registrations /\ plugins \in Seq(SUBSET AllFilters)
      /\ session \in Seq(Part) /\ Len(session) \in Nat /\ Len(request) \in Nat
      /\ request \in Seq(Part) /\ DOMAIN request = 1 .. Len(request)
  BY PluginFacts, LenProperties DEF Inv, Typed
<1>4. q \in Redone(Enabled, TextParts, session, Len(session))
  BY <1>1, <1>3, ChainFacts DEF RedactRequest, Inv, Typed
<1>5. /\ q.parts \in Seq(Part) /\ Len(q.parts) = Len(session)
      /\ \A i \in 1 .. Len(session) : Swept(Enabled, TextParts, session[i], q.parts[i])
  BY <1>4 DEF Redone
<1>6. Len(request) < Len(session)
  BY <1>2 DEF Kept, Counted
<1>7. Counted'
  BY <1>1, <1>2, <1>3, <1>5 DEF Counted, Calling
<1>8. Enabled' = Enabled /\ Level(0)' = Level(0) /\ Total(plugins') = Total(plugins)
  BY <1>2, SamePlugins
<1>9. ASSUME Undisturbed'
      PROVE  /\ Undisturbed
             /\ "email" \notin Enabled \/ ~(runner.aliased /\ Len(session) > 1)
  BY <1>2, <1>8, <1>9, Zenon DEF Undisturbed
<1>10. ASSUME Undisturbed', NEW i \in 1 .. Len(session), session[i].from \in TextParts
       PROVE  TextWithin(table, Level(0), session[i].text)
  <2>1. ~runner.aliased \/ "email" \notin Enabled \/ Len(session) = 1
    <3> DEFINE n == Len(session)
               l == Len(request)
    <3>1. n \in Nat /\ l \in Nat /\ l < n
      BY <1>3, <1>6
    <3> HIDE DEF n, l
    <3>2. n > 1 \/ n = 1
      BY <3>1
    <3> QED BY <1>9, <1>10, <3>2 DEF n
  <2>2. Waits
    BY <1>2, <2>1 DEF Waits
  <2> QED BY <1>9, <1>10, <2>2 DEF Kept, Returns, Returning, PartsReturn
<1>11. ASSUME Undisturbed'
       PROVE  /\ q.table \in Sound /\ ExtendedBy(table, q.table) /\ table \in Sound
              /\ q.parts \in Seq(PlainPart)
              /\ \A i \in 1 .. Len(session) :
                   ThroughPart(plugins, Len(plugins), TextParts, q.table, session[i], q.parts[i])
  <2>1. /\ table \in Sound
        /\ \A i \in 1 .. Len(session) : TextWithin(table, Total(plugins), session[i].text)
    BY <1>9, <1>11 DEF Kept, Returns, Returning, PartsReturn
  <2>2. session \in Seq(PlainPart)
    BY <1>3, <2>1, PlainParts
  <2>3. q \in Chained(Len(plugins), TextParts, table, session)
    BY <1>1, <1>3, <2>1, <2>2, ChainBecomes DEF RedactRequest
  <2> QED BY <2>1, <2>3 DEF Chained
<1>12. ASSUME Undisturbed', NEW i \in 1 .. Len(session)
       PROVE  /\ TextWithin(q.table, Total(plugins), session[i].text)
              /\ TextWithin(q.table, Total(plugins), q.parts[i].text)
              /\ session[i].from \in TextParts =>
                   /\ TextWithin(q.table, Level(0), session[i].text)
                   /\ TextWithin(q.table, Level(Len(plugins)), q.parts[i].text)
  <2>1. TextWithin(q.table, Total(plugins), session[i].text)
    BY <1>9, <1>11, <1>12, TextWithinStays DEF Kept, Returns, Returning, PartsReturn
  <2>2. q.table \in Sound
        /\ ThroughPart(plugins, Len(plugins), TextParts, q.table, session[i], q.parts[i])
    BY <1>11, <1>12
  <2>3. CASE session[i].from \in TextParts
    <3>1. TextWithin(q.table, Level(0), session[i].text)
      BY <1>10, <1>11, <1>12, <2>3, TextWithinStays
    <3>2. Through(plugins, Len(plugins), q.table, session[i].text, q.parts[i].text)
      BY <2>2, <2>3 DEF ThroughPart
    <3> DEFINE a == session[i].text
               b == q.parts[i].text
               m == q.table
    <3>3. m \in Sound /\ TextWithin(m, Level(0), a) /\ Through(plugins, Len(plugins), m, a, b)
      BY <2>2, <3>1, <3>2
    <3> HIDE DEF a, b, m
    <3>4. TextWithin(m, Level(Len(plugins)), b) /\ TextWithin(m, Total(plugins), b)
      BY <1>3, <3>3, ThroughLevel
    <3> QED BY <2>1, <3>1, <3>4 DEF b, m
  <2>4. CASE session[i].from \notin TextParts
    <3>1. q.parts[i] = session[i]
      BY <2>2, <2>4 DEF ThroughPart
    <3> QED BY <2>1, <2>4, <3>1
  <2> QED BY <2>3, <2>4
<1>13. Returns'
  <2> SUFFICES ASSUME Undisturbed'
               PROVE  Returning(q.table, session', Waits', "model", q.parts, answer, out)
    BY <1>1, <1>2, ReturnsNext
  <2>1. q.table \in Sound /\ TextWithin(q.table, 0, out)
    BY <1>9, <1>11, TextWithinStays DEF Kept, Returns, Returning
  <2>2. CASE ~runner.aliased
    <3>1. session' = session
      BY <1>1, <2>2
    <3>2. PartsReturn(q.table, session', Waits')
      BY <1>12, <3>1 DEF PartsReturn
    <3> QED BY <1>5, <1>12, <2>1, <3>2 DEF Returning
  <2>3. CASE runner.aliased
    <3>1. session' = q.parts
      BY <1>1, <2>3
    <3>2. ASSUME Waits', NEW i \in 1 .. Len(session), q.parts[i].from \in TextParts
          PROVE  TextWithin(q.table, Level(0), q.parts[i].text)
      <4>1. "email" \notin Enabled
        BY <1>2, <1>8, <2>3, <3>2 DEF Waits
      <4>2. session[i].from \in TextParts
        BY <1>5, <3>2 DEF Swept
      <4>3. Level(0) = 1 /\ Level(Len(plugins)) = 1
        BY <4>1 DEF Level
      <4> QED BY <1>12, <4>2, <4>3
    <3>3. PartsReturn(q.table, session', Waits')
      BY <1>5, <1>12, <3>1, <3>2 DEF PartsReturn
    <3> QED BY <1>5, <1>12, <2>1, <3>3 DEF Returning
  <2> QED BY <2>2, <2>3
<1>14. Steady'
  <2> SUFFICES ASSUME Undisturbed', ~runner.aliased \/ "email" \notin Enabled,
                      NEW i \in 1 .. Len(session)
               PROVE  ThroughPart(plugins, Len(plugins), TextParts, q.table, session'[i], q.parts[i])
    BY <1>1, <1>2, <1>5, <1>8 DEF Steady
  <2>1. CASE ~runner.aliased
    BY <1>1, <1>11, <2>1
  <2>2. CASE runner.aliased
    <3>1. session'[i] = q.parts[i] /\ "email" \notin Enabled /\ q.parts[i] \in PlainPart
      BY <1>1, <1>5, <1>11, <2>2, ElementOfSeq
    <3>2. q.parts[i].from \in TextParts => Enabled \subseteq CleanOf(q.parts[i].text)
      BY <1>5 DEF Swept
    <3>3. q.parts[i].text \in PlainTexts
      BY <3>1 DEF PlainPart
    <3>4. q.parts[i].from \in TextParts =>
            Through(plugins, Len(plugins), q.table, q.parts[i].text, q.parts[i].text)
      BY <1>3, <3>1, <3>2, <3>3, CleanThrough
    <3> QED BY <3>1, <3>4 DEF ThroughPart
  <2> QED BY <2>1, <2>2
<1>15. ASSUME Undisturbed', NEW i \in DOMAIN request
       PROVE  i \in DOMAIN request' /\ request'[i] = request[i]
  <2>1. i \in 1 .. Len(request) /\ i \in 1 .. Len(session) /\ Len(session) > 1
    BY <1>3, <1>6
  <2>2. ~runner.aliased \/ "email" \notin Enabled
    BY <1>9, <1>15, <2>1
  <2>3. ThroughPart(plugins, Len(plugins), TextParts, table, session[i], request[i])
    BY <1>9, <1>15, <2>1, <2>2 DEF Kept, Steady
  <2>4. ThroughPart(plugins, Len(plugins), TextParts, q.table, session[i], request[i])
    BY <1>11, <1>15, <2>3, ThroughPartStays
  <2>5. ThroughPart(plugins, Len(plugins), TextParts, q.table, session[i], q.parts[i])
    BY <1>11, <1>15, <2>1
  <2>6. q.parts[i] = request[i]
    <3>1. CASE session[i].from \in TextParts
      <4>1. q.parts[i].text = request[i].text
        <5> DEFINE a == session[i].text
                   b == q.parts[i].text
                   c == request[i].text
                   m == q.table
        <5>1. /\ Through(plugins, Len(plugins), m, a, b) /\ Through(plugins, Len(plugins), m, a, c)
              /\ m \in Sound /\ Len(plugins) \in Nat
          BY <1>3, <1>11, <1>15, <2>4, <2>5, <3>1, LenProperties DEF ThroughPart
        <5> HIDE DEF a, b, c, m
        <5>2. b = c
          BY <5>1, ThroughOnce
        <5> QED BY <5>2 DEF b, c
      <4>2. q.parts[i] \in Part /\ request[i] \in Part /\ q.parts[i].from = request[i].from
        BY <2>4, <2>5 DEF ThroughPart, PlainPart
      <4> QED BY <4>1, <4>2 DEF Part
    <3>2. CASE session[i].from \notin TextParts
      BY <2>4, <2>5, <3>2 DEF ThroughPart
    <3> QED BY <3>1, <3>2
  <2>7. i \in DOMAIN request'
    BY <1>1, <1>5, <2>1, LenProperties
  <2> QED BY <1>1, <2>6, <2>7
<1> QED BY <1>7, <1>13, <1>14, <1>15 DEF Kept

\* What the session held, it holds still, and the table has grown at most.
LEMMA SteadyOnwards ==
  ASSUME Kept, plugins' = plugins, runner' = runner, request' = request,
         \A i \in 1 .. Len(request) : session'[i] = session[i],
         Undisturbed' => Undisturbed /\ ExtendedBy(table, table')
  PROVE  Steady'
<1>1. Enabled' = Enabled
  BY SamePlugins
<1> SUFFICES ASSUME Undisturbed', ~runner.aliased \/ "email" \notin Enabled,
                    NEW i \in 1 .. Len(request)
             PROVE  ThroughPart(plugins, Len(plugins), TextParts, table', session[i], request[i])
  BY <1>1 DEF Steady
<1>2. ThroughPart(plugins, Len(plugins), TextParts, table, session[i], request[i])
  BY DEF Kept, Steady
<1> QED BY <1>2, ThroughPartStays

LEMMA EchoReturns ==
  ASSUME Inv, NEW m, NEW n, \A i \in 1 .. Len(request) : TextWithin(m, n, request[i].text),
         NEW token \in Echoes
  PROVE  TextWithin(m, n, <<token>>)
<1> DEFINE said == UNION {Range(p.text) : p \in Range(request)}
<1>1. ASSUME NEW s \in said PROVE s.word \in Within(m, n)
  <2>1. PICK p \in Range(request) : s \in Range(p.text)
    OBVIOUS
  <2>2. PICK i \in DOMAIN request : p = request[i]
    BY DEF Range
  <2>3. TextWithin(m, n, p.text)
    BY <2>2, LenProperties DEF Inv, Typed
  <2>4. PICK j \in DOMAIN p.text : s = p.text[j]
    BY <2>1 DEF Range
  <2> QED BY <2>3, <2>4, LenProperties DEF TextWithin
<1>2. token \in said \/ \E s \in said : token = [kind |-> "word", word |-> s.word, tld |-> NoTld]
  BY DEF Echoes
<1> HIDE DEF said
<1>3. token.word \in Within(m, n)
  BY <1>1, <1>2
<1>4. token \in Token
  BY EchoFacts
<1> QED BY <1>3, <1>4 DEF TextWithin

LEMMA ModelRepliesReturns ==
  ASSUME Inv, Kept, NEW from \in {"model", "args"}, NEW token \in Echoes, ModelReplies(from, token)
  PROVE  Kept'
<1>1. /\ phase = "model" /\ phase' = "answer" /\ answer' = [from |-> from, text |-> <<token>>]
      /\ UNCHANGED <<plugins, runner, table, session, request, out, again, unswept, restarted>>
  BY DEF ModelReplies, registered, history
<1>2. Enabled' = Enabled
  BY <1>1, SamePlugins
<1>3. ASSUME Undisturbed' PROVE Undisturbed
  BY <1>1, <1>2, <1>3 DEF Undisturbed
<1>4. Counted'
  BY <1>1 DEF Kept, Counted, Calling
<1>5. Returns'
  <2> SUFFICES ASSUME Undisturbed'
               PROVE  Returning(table', session', Waits', phase', request', answer', out')
    BY <1>1, ReturnsNext
  <2>1. Returning(table, session, Waits, phase, request, answer, out)
    BY <1>3 DEF Kept, Returns
  <2>2. TextWithin(table, Total(plugins), answer'.text)
    BY <1>1, <2>1, EchoReturns DEF Returning
  <2>3. Waits' => Waits
    BY <1>1, <1>2 DEF Waits
  <2> QED BY <1>1, <2>1, <2>2, <2>3 DEF Returning, PartsReturn
<1>6. Steady'
  BY <1>1, <1>3, SteadyOnwards DEF ExtendedBy
<1> QED BY <1>4, <1>5, <1>6 DEF Kept

LEMMA ModelFailsReturns ==
  ASSUME Kept, ModelFails
  PROVE  Kept'
<1>1. /\ phase = "model" /\ phase' = "idle"
      /\ UNCHANGED <<plugins, runner, table, session, request, answer, out, again, unswept, restarted>>
  BY DEF ModelFails, registered, history
<1>2. Enabled' = Enabled
  BY <1>1, SamePlugins
<1>3. ASSUME Undisturbed' PROVE Undisturbed
  BY <1>1, <1>2, <1>3 DEF Undisturbed
<1>4. Counted'
  BY <1>1 DEF Kept, Counted, Calling
<1>5. Returns'
  <2> SUFFICES ASSUME Undisturbed'
               PROVE  Returning(table', session', Waits', phase', request', answer', out')
    BY <1>1, ReturnsNext
  <2>1. Returning(table, session, Waits, phase, request, answer, out)
    BY <1>3 DEF Kept, Returns
  <2>2. Waits' => Waits
    BY <1>1, <1>2 DEF Waits
  <2> QED BY <1>1, <2>1, <2>2 DEF Returning, PartsReturn
<1>6. Steady'
  BY <1>1, <1>3, SteadyOnwards DEF ExtendedBy
<1> QED BY <1>4, <1>5, <1>6 DEF Kept

LEMMA AfterModelReturns ==
  ASSUME Inv, Kept, AfterModel
  PROVE  Kept'
<1> DEFINE text == IF HasText(answer) THEN Restored(answer.text) ELSE answer.text
           part == [answer EXCEPT !.text = text]
<1>1. /\ phase = "answer" /\ phase' = IF HasText(answer) THEN "idle" ELSE "call"
      /\ session' = Append(session, part)
      /\ out' = IF HasText(answer) THEN text ELSE out
      /\ UNCHANGED <<plugins, runner, table, request, answer, again, unswept, restarted>>
  BY DEF AfterModel, registered
<1>2. /\ answer \in Part /\ answer.text \in Seq(Token)
      /\ plugins \in Registrations /\ plugins \in Seq(SUBSET AllFilters)
      /\ session \in Seq(Part) /\ Len(request) \in Nat
  BY <1>1, PluginFacts, LenProperties DEF Inv, Typed, Answered, Part
<1>3. text \in Seq(Token)
  BY <1>2, RestoredFacts DEF Inv, Typed
<1>4. ~HasText(answer) => text = answer.text
  OBVIOUS
<1>5. HasText(answer) => text = Restored(answer.text)
  OBVIOUS
<1> HIDE DEF text
<1>6. part \in Part /\ part.from = answer.from /\ part.text = text
  BY <1>2, <1>3 DEF Part
<1> HIDE DEF part
<1>7. /\ Len(session') = Len(session) + 1 /\ Len(session) \in Nat
      /\ \A i \in 1 .. Len(session) : session'[i] = session[i]
      /\ session'[Len(session')] = part
  BY <1>1, <1>2, <1>6, AppendedFacts
<1>8. Enabled' = Enabled
  BY <1>1, SamePlugins
<1>9. ASSUME Undisturbed' PROVE Undisturbed
  BY <1>1, <1>8, <1>9 DEF Undisturbed
<1>10. Counted'
  BY <1>1, <1>2, <1>7 DEF Kept, Counted, Calling
<1>11. Returns'
  <2> SUFFICES ASSUME Undisturbed'
               PROVE  Returning(table', session', Waits', phase', request', answer', out')
    BY <1>1, ReturnsNext
  <2>1. Returning(table, session, Waits, phase, request, answer, out)
    BY <1>9 DEF Kept, Returns
  <2>2. TextWithin(table, Total(plugins), answer.text)
    BY <1>1, <2>1 DEF Returning
  <2>3. ASSUME HasText(answer)
        PROVE  /\ TextWithin(table, 0, text)
               /\ TextWithin(table, Level(0), text) /\ TextWithin(table, Total(plugins), text)
    BY <1>2, <1>5, <2>1, <2>2, <2>3, RestoredBack, LevelOnwards DEF Returning
  <2>4. /\ TextWithin(table, Total(plugins), part.text)
        /\ part.from \in TextParts => TextWithin(table, Level(0), part.text)
    BY <1>4, <1>6, <2>2, <2>3 DEF HasText
  <2>5. Waits \in BOOLEAN /\ Waits' \in BOOLEAN /\ (Waits' => Waits)
    BY <1>1, <1>8 DEF Waits
  <2>6. PartsReturn(table, session', Waits')
    BY <1>2, <1>7, <2>1, <2>4, <2>5, PartsReturnMore DEF Returning
  <2>7. TextWithin(table, 0, out')
    BY <1>1, <2>1, <2>3 DEF Returning
  <2> QED BY <1>1, <2>1, <2>6, <2>7 DEF Returning
<1>12. Steady'
  <2>1. \A i \in 1 .. Len(request) : i \in 1 .. Len(session)
    BY <1>2, <1>7 DEF Kept, Counted
  <2> QED BY <1>1, <1>7, <1>9, <2>1, SteadyOnwards DEF ExtendedBy
<1> QED BY <1>10, <1>11, <1>12 DEF Kept

LEMMA BeforeToolReturns ==
  ASSUME Inv, Kept, BeforeTool
  PROVE  Kept'
<1> DEFINE text == Restored(Args.text)
           n == Len(session)
           part == [Args EXCEPT !.text = text]
<1>1. /\ phase = "call" /\ phase' = "run"
      /\ session' = [session EXCEPT ![n].text = text]
      /\ out' = text
      /\ UNCHANGED <<plugins, runner, table, request, answer, again, unswept, restarted>>
  BY DEF BeforeTool, registered
<1>2. session # <<>> /\ Args.from = "args" /\ Args = session[n]
  BY <1>1 DEF Inv, Answered, Calling, Args, Last
<1>3. session \in Seq(Part) /\ n \in 1 .. n /\ n \in Nat /\ Len(request) \in Nat
  BY <1>2, EmptySeq, LenProperties DEF Inv, Typed
<1>4. Args \in Part /\ Args.text \in Seq(Token)
  <2>1. session[n] \in Part
    BY <1>3, ElementOfSeq
  <2> QED BY <1>2, <2>1 DEF Part
<1>5. plugins \in Registrations /\ plugins \in Seq(SUBSET AllFilters) /\ text \in Seq(Token)
  BY <1>4, PluginFacts, RestoredFacts DEF Inv, Typed
<1>6. text = Restored(Args.text)
  OBVIOUS
<1> HIDE DEF text
<1>7. part \in Part /\ part.from = "args" /\ part.text = text
  BY <1>2, <1>4, <1>5 DEF Part
<1>8. session' = [session EXCEPT ![n] = part]
  BY <1>1, <1>2
<1> HIDE DEF part, n
<1>9. /\ session' \in Seq(Part) /\ Len(session') = n
      /\ \A i \in 1 .. n : session'[i] = IF i = n THEN part ELSE session[i]
  BY <1>3, <1>7, <1>8, ExceptSeq DEF n
<1>10. Enabled' = Enabled
  BY <1>1, SamePlugins
<1>11. ASSUME Undisturbed' PROVE Undisturbed
  BY <1>1, <1>10, <1>11 DEF Undisturbed
<1>12. Len(request) < n
  BY <1>1 DEF Kept, Counted, Calling, n
<1>13. Counted'
  BY <1>1, <1>3, <1>9, <1>12 DEF Counted
<1>14. Returns'
  <2> SUFFICES ASSUME Undisturbed'
               PROVE  Returning(table', session', Waits', phase', request', answer', out')
    BY <1>1, ReturnsNext
  <2>1. Returning(table, session, Waits, phase, request, answer, out)
    BY <1>11 DEF Kept, Returns
  <2>2. TextWithin(table, Total(plugins), Args.text)
    BY <1>2, <1>3, <2>1 DEF Returning, PartsReturn, n
  <2>3. TextWithin(table, 0, text)
    BY <1>5, <1>6, <2>1, <2>2, RestoredBack DEF Returning
  <2>4. TextWithin(table, Level(0), text) /\ TextWithin(table, Total(plugins), text)
    BY <1>5, <2>3, LevelOnwards
  <2>5. Waits' => Waits
    BY <1>1, <1>10 DEF Waits
  <2>6. PartsReturn(table, session', Waits')
    BY <1>7, <1>9, <2>1, <2>4, <2>5 DEF Returning, PartsReturn, TextParts, n
  <2>7. Last(session').text = text
    BY <1>3, <1>7, <1>9 DEF Last
  <2> QED BY <1>1, <2>1, <2>3, <2>4, <2>6, <2>7 DEF Returning
<1>15. Steady'
  <2>1. \A i \in 1 .. Len(request) : i \in 1 .. n /\ i # n
    BY <1>3, <1>12
  <2> QED BY <1>1, <1>9, <1>11, <2>1, SteadyOnwards DEF ExtendedBy
<1> QED BY <1>13, <1>14, <1>15 DEF Kept

LEMMA ToolEndsReturns ==
  ASSUME Ideal, Inv, Kept,
         NEW t \in ToolTexts \union {out}, NEW fails \in BOOLEAN, ToolEnds(t, fails)
  PROVE  Kept'
<1>1. /\ phase = "run" /\ phase' \in {"failed", "returned"}
      /\ answer' = [from |-> "result", text |-> t]
      /\ UNCHANGED <<plugins, runner, table, session, request, out, again, unswept, restarted>>
  BY DEF ToolEnds, registered, history
<1>2. Enabled' = Enabled
  BY <1>1, SamePlugins
<1>3. ASSUME Undisturbed' PROVE Undisturbed
  BY <1>1, <1>2, <1>3 DEF Undisturbed
<1>4. Counted'
  BY <1>1 DEF Kept, Counted, Calling
<1>5. Returns'
  <2> SUFFICES ASSUME Undisturbed'
               PROVE  Returning(table', session', Waits', phase', request', answer', out')
    BY <1>1, ReturnsNext
  <2>1. Returning(table, session, Waits, phase, request, answer, out)
    BY <1>3 DEF Kept, Returns
  <2>2. TextWithin(table, 0, t)
    BY <2>1, WrittenFacts DEF Returning
  <2>3. TextWithin(table, Level(0), answer'.text)
    BY <1>1, <2>2, LevelOnwards DEF Inv, Typed
  <2>4. Waits' => Waits
    BY <1>1, <1>2 DEF Waits
  <2> QED BY <1>1, <2>1, <2>3, <2>4 DEF Returning, PartsReturn
<1>6. Steady'
  BY <1>1, <1>3, SteadyOnwards DEF ExtendedBy
<1> QED BY <1>4, <1>5, <1>6 DEF Kept

LEMMA OnToolErrorReturns ==
  ASSUME Ideal, Inv, Kept, OnToolError
  PROVE  Kept'
<1>1. PICK q \in RedactError(table, answer.text) :
        /\ table' = q.table
        /\ \/ /\ runner.afterError /\ answer' = ErrorResult(q.text)
              /\ phase' = "returned" /\ session' = session
           \/ /\ ~runner.afterError /\ session' = Append(session, ErrorResult(q.text))
              /\ phase' = "request" /\ answer' = answer
  BY DEF OnToolError
<1>2. /\ phase = "failed" /\ again' = (again \/ runner.afterError)
      /\ UNCHANGED <<plugins, runner, request, out, restarted>>
  BY DEF OnToolError, registered
<1>3. /\ plugins \in Registrations /\ Len(plugins) \in Nat /\ 1 \in 1 .. Len(plugins)
      /\ plugins[1] \subseteq Enabled
  <2>1. plugins \in Seq(SUBSET AllFilters) /\ plugins # <<>>
    BY PluginFacts, AgentFlowAssumption DEF Inv, Typed
  <2>2. 1 \in 1 .. Len(plugins) /\ Len(plugins) \in Nat /\ DOMAIN plugins = 1 .. Len(plugins)
    BY <2>1, EmptySeq, LenProperties
  <2> QED BY <2>2 DEF Enabled, Inv, Typed
<1>4. answer \in Part /\ answer.text \in Seq(Token) /\ session # <<>> /\ session \in Seq(Part)
  BY <1>2 DEF Inv, Typed, Answered, Calling, Part
<1>5. Len(session) \in Nat \ {0} /\ Len(request) \in Nat /\ Len(request) < Len(session)
  BY <1>2, <1>4, EmptySeq, LenProperties DEF Kept, Counted, Calling, Inv, Typed
<1>6. Enabled' = Enabled
  BY <1>2, SamePlugins
<1>7. ASSUME Undisturbed'
      PROVE  Undisturbed /\ ("email" \notin Enabled \/ ~runner.afterError)
  BY <1>2, <1>6, <1>7, Zenon DEF Undisturbed
<1> DEFINE result == ErrorResult(q.text)
<1>8. result.from = "result" /\ result.text = q.text
  BY DEF ErrorResult
<1>9. ~runner.afterError => answer' = answer /\ phase' = "request" /\ session' = Append(session, result)
  BY <1>1
<1>10. runner.afterError => answer' = result /\ phase' = "returned" /\ session' = session
  BY <1>1
<1>11. q.text \in Seq(Token)
  <2>1. plugins[1] \in SUBSET AllFilters
    BY <1>3, PluginFacts, ElementOfSeq
  <2>2. q \in Cleaned(CleanOf(answer.text) \union plugins[1])
    BY <1>1, <1>4, <2>1, RedactFacts DEF RedactError, Inv, Typed
  <2> QED BY <2>2 DEF Cleaned, Outcomes
<1>12. result \in Part
  BY <1>11 DEF Part, ErrorResult
<1> HIDE DEF result
<1>13. ~runner.afterError =>
         /\ Len(session') = Len(session) + 1
         /\ \A i \in 1 .. Len(session) : session'[i] = session[i]
         /\ session'[Len(session')] = result
  BY <1>4, <1>9, <1>12, AppendedFacts
<1>14. Counted'
  <2>1. CASE runner.afterError
    BY <1>2, <1>5, <1>10, <2>1 DEF Counted
  <2>2. CASE ~runner.afterError
    BY <1>2, <1>5, <1>13, <2>2 DEF Counted
  <2> QED BY <2>1, <2>2
<1>15. ASSUME Undisturbed'
       PROVE  /\ q.table \in Sound /\ ExtendedBy(table, q.table)
              /\ TextWithin(q.table, Total(plugins), q.text)
              /\ "email" \notin Enabled => TextWithin(q.table, Level(0), q.text)
  <2>1. table \in Sound /\ TextWithin(table, Level(0), answer.text)
    BY <1>2, <1>7, <1>15 DEF Kept, Returns, Returning
  <2>2. answer.text \in PlainTexts
    BY <2>1, TextWithinFacts
  <2>3. /\ q.table \in Sound /\ ExtendedBy(table, q.table) /\ q.text \in PlainTexts
        /\ Rewrites(plugins[1], q.table, answer.text, q.text)
    BY <1>1, <2>1, <2>2, RedactBecomes DEF RedactError
  <2>4. TextWithin(q.table, Level(0), answer.text)
    BY <2>1, <2>3, TextWithinStays
  <2>5. TextWithin(q.table, Level(1), q.text)
    <3> DEFINE m == q.table
               a == answer.text
               b == q.text
    <3>1. m \in Sound /\ TextWithin(m, Level(1 - 1), a) /\ b \in PlainTexts /\ Rewrites(plugins[1], m, a, b)
      BY <2>3, <2>4
    <3> HIDE DEF m, a, b
    <3>2. TextWithin(m, Level(1), b)
      BY <1>3, <3>1, RewritesLevel
    <3> QED BY <3>2 DEF m, b
  <2>6. Level(1) \in Nat /\ Total(plugins) \in Nat /\ Level(1) <= Total(plugins)
    BY <1>3, LevelFacts
  <2>7. "email" \notin Enabled => Level(1) = Level(0)
    BY DEF Level
  <2> QED BY <2>3, <2>5, <2>6, <2>7, TextWithinMost
<1>16. Returns'
  <2> SUFFICES ASSUME Undisturbed'
               PROVE  Returning(q.table, session', Waits', phase', request, answer', out)
    BY <1>1, <1>2, ReturnsNext
  <2>1. Returning(table, session, Waits, phase, request, answer, out)
    BY <1>7 DEF Kept, Returns
  <2>2. q.table \in Sound /\ TextWithin(q.table, 0, out)
    BY <1>15, <2>1, TextWithinStays DEF Returning
  <2>3. PartsReturn(q.table, session, Waits)
    BY <1>15, <2>1, TextWithinStays DEF Returning, PartsReturn
  <2>4. CASE runner.afterError
    <3>1. Waits' => Waits
      BY <1>2, <1>6, <1>10, <2>4 DEF Waits
    <3>2. PartsReturn(q.table, session', Waits')
      BY <1>10, <2>3, <2>4, <3>1 DEF PartsReturn
    <3>3. TextWithin(q.table, Level(0), answer'.text)
      BY <1>7, <1>8, <1>10, <1>15, <2>4
    <3>4. TextWithin(q.table, Level(0), Last(session').text)
      BY <1>2, <1>10, <1>15, <2>1, <2>4, TextWithinStays DEF Returning
    <3> QED BY <1>10, <2>2, <2>4, <3>2, <3>3, <3>4 DEF Returning
  <2>5. CASE ~runner.afterError
    <3>1. Waits' => Waits
      BY <1>2, <1>5, <1>6, <1>13, <2>5 DEF Waits
    <3>2. Waits \in BOOLEAN /\ Waits' \in BOOLEAN
      BY DEF Waits
    <3>3. TextWithin(q.table, Total(plugins), result.text) /\ result.from \notin TextParts
      BY <1>8, <1>15 DEF TextParts
    <3>4. PartsReturn(q.table, session', Waits')
      <4> DEFINE m == q.table
      <4>1. PartsReturn(m, session, Waits) /\ TextWithin(m, Total(plugins), result.text)
        BY <2>3, <3>3
      <4> HIDE DEF m
      <4>2. PartsReturn(m, session', Waits')
        BY <1>4, <1>13, <2>5, <3>1, <3>2, <3>3, <4>1, PartsReturnMore
      <4> QED BY <4>2 DEF m
    <3> QED BY <1>9, <2>2, <2>5, <3>4 DEF Returning
  <2> QED BY <2>4, <2>5
<1>17. Steady'
  <2>1. \A i \in 1 .. Len(request) : i \in 1 .. Len(session)
    BY <1>5
  <2>2. \A i \in 1 .. Len(request) : session'[i] = session[i]
    BY <1>10, <1>13, <2>1
  <2> QED BY <1>1, <1>2, <1>7, <1>15, <2>2, SteadyOnwards
<1> QED BY <1>14, <1>16, <1>17 DEF Kept

LEMMA AfterToolReturns ==
  ASSUME Ideal, Inv, Kept, AfterTool
  PROVE  Kept'
<1>1. PICK q \in RedactPayload(table, Args, answer) :
        table' = q.table /\ session' = Front(session) \o q.parts
  BY DEF AfterTool
<1>2. /\ phase = "returned" /\ phase' = "request"
      /\ UNCHANGED <<plugins, runner, request, answer, out, again, unswept, restarted>>
  BY DEF AfterTool, registered, history
<1> DEFINE n == Len(session)
           parts == <<Args, answer>>
<1>3. /\ session \in Seq(Part) /\ session # <<>> /\ plugins \in Registrations
      /\ plugins \in Seq(SUBSET AllFilters)
      /\ answer \in Part /\ answer.from = "result" /\ Args.from = "args"
  BY <1>2, PluginFacts DEF Inv, Typed, Answered, Calling
<1>4. n \in 1 .. n /\ n \in Nat /\ Args \in Part
  <2>1. n \in 1 .. n /\ n \in Nat
    BY <1>3, EmptySeq
  <2> QED BY <1>3, <2>1, ElementOfSeq DEF Args, Last
<1>5. /\ parts \in Seq(Part) /\ Len(parts) = 2
      /\ parts[1] = Args /\ parts[2] = answer
  BY <1>3, <1>4
<1> HIDE DEF parts
<1>6. q \in Chain(table, parts, Payload)
  BY <1>1 DEF RedactPayload, Payload, parts
<1>7. q.parts \in Seq(Part) /\ Len(q.parts) = 2
  <2>1. q \in Redone(Enabled, Payload, parts, 2)
    BY <1>3, <1>5, <1>6, ChainFacts DEF Inv, Typed
  <2> QED BY <2>1 DEF Redone
<1>8. /\ n \in Nat /\ n # 0 /\ session' \in Seq(Part) /\ Len(session') = n + 1
      /\ \A i \in 1 .. n - 1 : session'[i] = session[i]
      /\ session'[n] = q.parts[1] /\ session'[n + 1] = q.parts[2]
  <2> DEFINE back == q.parts
  <2>1. /\ session \in Seq(Part) /\ session # <<>> /\ session' = Front(session) \o back
        /\ back \in Seq(Part) /\ Len(back) = 2
    BY <1>1, <1>3, <1>7
  <2> HIDE DEF back
  <2>2. /\ n \in Nat /\ n # 0 /\ session' \in Seq(Part) /\ Len(session') = n + 1
        /\ \A i \in 1 .. n - 1 : session'[i] = session[i]
        /\ session'[n] = back[1] /\ session'[n + 1] = back[2]
    BY <2>1, SplicedFacts
  <2> QED BY <2>2 DEF back
<1>9. Len(request) \in Nat /\ Len(request) < n
  BY <1>2, LenProperties DEF Kept, Counted, Calling, Inv, Typed
<1> HIDE DEF n
<1>10. Counted'
  BY <1>2, <1>8, <1>9 DEF Counted
<1>11. Enabled' = Enabled
  BY <1>2, SamePlugins
<1>12. ASSUME Undisturbed' PROVE Undisturbed
  BY <1>2, <1>11, <1>12 DEF Undisturbed
<1>13. ASSUME Undisturbed'
       PROVE  /\ q.table \in Sound /\ ExtendedBy(table, q.table)
              /\ \A i \in 1 .. 2 : /\ q.parts[i].from = parts[i].from
                                   /\ TextWithin(q.table, Total(plugins), q.parts[i].text)
  <2>1. /\ table \in Sound
        /\ \A i \in 1 .. 2 : TextWithin(table, Level(0), parts[i].text)
    BY <1>2, <1>5, <1>12, <1>13 DEF Kept, Returns, Returning, Args
  <2>2. parts \in Seq(PlainPart)
    BY <1>5, <2>1, PlainParts
  <2>3. q \in Chained(Len(plugins), Payload, table, parts)
    BY <1>3, <1>6, <2>1, <2>2, ChainBecomes
  <2>4. /\ q.table \in Sound /\ ExtendedBy(table, q.table)
        /\ \A i \in 1 .. 2 : ThroughPart(plugins, Len(plugins), Payload, q.table, parts[i], q.parts[i])
    BY <1>5, <2>3 DEF Chained
  <2>5. ASSUME NEW i \in 1 .. 2
        PROVE  /\ q.parts[i].from = parts[i].from
               /\ TextWithin(q.table, Total(plugins), q.parts[i].text)
    <3> DEFINE a == parts[i].text
               b == q.parts[i].text
               m == q.table
    <3>1. parts[i].from \in Payload
      BY <1>3, <1>5 DEF Payload
    <3>2. q.parts[i].from = parts[i].from /\ Through(plugins, Len(plugins), m, a, b)
      BY <2>4, <3>1 DEF ThroughPart
    <3>3. m \in Sound /\ TextWithin(m, Level(0), a)
      BY <2>1, <2>4, TextWithinStays
    <3> HIDE DEF a, b, m
    <3>4. TextWithin(m, Total(plugins), b)
      BY <1>3, <3>2, <3>3, ThroughLevel
    <3> QED BY <3>2, <3>4 DEF b, m
  <2> QED BY <2>4, <2>5
<1>14. \A i \in 1 .. Len(session') :
         i \in 1 .. n - 1 \/ i = n \/ i = n + 1
  BY <1>8
<1>15. \A i \in 1 .. n - 1 : i \in 1 .. n
  BY <1>8
<1>16. Returns'
  <2> SUFFICES ASSUME Undisturbed'
               PROVE  Returning(q.table, session', Waits', "request", request, answer, out)
    BY <1>1, <1>2, ReturnsNext
  <2>1. Returning(table, session, Waits, phase, request, answer, out)
    BY <1>12 DEF Kept, Returns
  <2>2. q.table \in Sound /\ TextWithin(q.table, 0, out)
    BY <1>13, <2>1, TextWithinStays DEF Returning
  <2>3. PartsReturn(q.table, session, Waits)
    BY <1>13, <2>1, TextWithinStays DEF Returning, PartsReturn
  <2>4. Waits' => Waits
    BY <1>2, <1>8, <1>11 DEF Waits
  <2>5. ASSUME NEW i \in 1 .. Len(session')
        PROVE  /\ TextWithin(q.table, Total(plugins), session'[i].text)
               /\ Waits' /\ session'[i].from \in TextParts =>
                    TextWithin(q.table, Level(0), session'[i].text)
    <3>1. CASE i \in 1 .. n - 1
      BY <1>8, <1>15, <2>3, <2>4, <3>1 DEF PartsReturn, n
    <3>2. CASE i = n
      <4>1. session'[i] = q.parts[1] /\ q.parts[1].from = "args"
        BY <1>3, <1>5, <1>8, <1>13, <3>2
      <4> QED BY <1>13, <4>1 DEF TextParts
    <3>3. CASE i = n + 1
      <4>1. session'[i] = q.parts[2] /\ q.parts[2].from = "result"
        BY <1>3, <1>5, <1>8, <1>13, <3>3
      <4> QED BY <1>13, <4>1 DEF TextParts
    <3> QED BY <1>14, <3>1, <3>2, <3>3
  <2>6. PartsReturn(q.table, session', Waits')
    BY <2>5 DEF PartsReturn
  <2> QED BY <2>2, <2>6 DEF Returning
<1>17. Steady'
  <2>1. \A i \in 1 .. Len(request) : i \in 1 .. n - 1
    BY <1>8, <1>9
  <2> QED BY <1>1, <1>2, <1>8, <1>12, <1>13, <2>1, SteadyOnwards
<1> QED BY <1>10, <1>16, <1>17 DEF Kept

LEMMA RestartReturns ==
  ASSUME Inv, Kept, Restart
  PROVE  Kept'
<1>1. phase' = "idle" /\ request' = <<>> /\ restarted' = TRUE /\ session' = session
  BY DEF Restart
<1>2. ~Undisturbed'
  BY <1>1, Zenon DEF Undisturbed
<1>3. Counted'
  <2>1. Len(session) \in Nat
    BY LenProperties DEF Inv, Typed
  <2> QED BY <1>1, <2>1 DEF Counted, Calling
<1> QED BY <1>2, <1>3 DEF Kept, Returns, Steady

LEMMA StutterReturns ==
  ASSUME Kept, UNCHANGED vars
  PROVE  Kept'
<1>1. UNCHANGED <<plugins, runner, table, session, phase, request, answer, out, again, restarted>>
  BY DEF vars
<1>2. Enabled' = Enabled /\ Waits' = Waits
  BY <1>1 DEF Enabled, Waits
<1>3. ASSUME Undisturbed' PROVE Undisturbed
  BY <1>1, <1>2, <1>3 DEF Undisturbed
<1>4. Counted'
  BY <1>1 DEF Kept, Counted, Calling
<1>5. Returns'
  <2> SUFFICES ASSUME Undisturbed'
               PROVE  Returning(table', session', Waits', phase', request', answer', out')
    BY <1>1, ReturnsNext
  <2> QED BY <1>1, <1>2, <1>3 DEF Kept, Returns
<1>6. Steady'
  BY <1>1, <1>3, SteadyOnwards DEF ExtendedBy
<1> QED BY <1>4, <1>5, <1>6 DEF Kept

LEMMA KeptInductive == Ideal /\ Inv /\ Kept /\ [Next]_vars => Kept'
<1> SUFFICES ASSUME Ideal, Inv, Kept, [Next]_vars PROVE Kept'
  OBVIOUS
<1>1. ASSUME NEW t \in UserTexts, UserSays(t) PROVE Kept'
  BY <1>1, UserSaysReturns
<1>2. CASE BeforeModel
  BY <1>2, BeforeModelReturns
<1>3. ASSUME NEW from \in {"model", "args"}, NEW token \in Echoes, ModelReplies(from, token)
      PROVE  Kept'
  BY <1>3, ModelRepliesReturns
<1>4. CASE ModelFails
  BY <1>4, ModelFailsReturns
<1>5. CASE AfterModel
  BY <1>5, AfterModelReturns
<1>6. CASE BeforeTool
  BY <1>6, BeforeToolReturns
<1>7. ASSUME NEW t \in ToolTexts \union {out}, NEW fails \in BOOLEAN, ToolEnds(t, fails)
      PROVE  Kept'
  BY <1>7, ToolEndsReturns
<1>8. CASE OnToolError
  BY <1>8, OnToolErrorReturns
<1>9. CASE AfterTool
  BY <1>9, AfterToolReturns
<1>10. CASE Restart
  BY <1>10, RestartReturns
<1>11. CASE UNCHANGED vars
  BY <1>11, StutterReturns
<1> QED BY <1>1, <1>2, <1>3, <1>4, <1>5, <1>6, <1>7, <1>8, <1>9, <1>10, <1>11 DEF Next

LEMMA KeptInvariance == ASSUME Ideal PROVE Spec => [](Inv /\ Kept)
<1>1. Init => Inv /\ Kept
  BY InvInit, KeptInit
<1>2. Inv /\ Kept /\ [Next]_vars => (Inv /\ Kept)'
  BY Inductive, KeptInductive
<1> QED BY <1>1, <1>2, PTL DEF Spec

-----------------------------------------------------------------------------
\* Users and tools never get a generated name: whatever the model echoes, in
\* the words of a request or in a word without its top level domain, and however
\* often a text went through the plugins, AfterModelCallback and
\* BeforeToolCallback make at least as many passes back.
THEOREM WordsComeBack == ASSUME Ideal PROVE Spec => []ComesBack
<1>1. ASSUME Kept PROVE ComesBack
  <2> SUFFICES ASSUME Undisturbed, NEW t \in Range(out)
               PROVE  t.word.stem \notin Candidate
    BY DEF ComesBack, Undisturbed
  <2>1. TextWithin(table, 0, out)
    BY <1>1 DEF Kept, Returns, Returning
  <2>2. PICK i \in DOMAIN out : t = out[i]
    BY DEF Range
  <2>3. i \in 1 .. Len(out)
    BY <2>1, <2>2, LenProperties DEF TextWithin
  <2>4. t.word \in Within(table, 0) /\ t.word \in PlainWord
    BY <2>1, <2>2, <2>3 DEF TextWithin, Within
  <2> DEFINE v == t.word
  <2>5. v \in Within(table, 0) /\ v \in PlainWord
    BY <2>4
  <2> HIDE DEF v
  <2>6. v.stem \notin Candidate
    BY <2>5, WithinNone
  <2> QED BY <2>6 DEF v
<1> QED BY <1>1, KeptInvariance, PTL

\* What the model has been sent it is sent again in the same words: a text is
\* redacted anew for every request, but the table, which only grows, leaves no
\* choice for the names it knows.
THEOREM RequestsAreStable == ASSUME Ideal PROVE Spec => StableRequests
<1> DEFINE Same == \A i \in DOMAIN request : i \in DOMAIN request' /\ request'[i] = request[i]
<1>1. ASSUME Inv, Kept, Next, ~restarted', "email" \notin Enabled \/ ~again'
      PROVE  Same
  <2>1. CASE BeforeModel
    <3>1. plugins' = plugins
      BY <2>1 DEF BeforeModel, registered
    <3>2. Undisturbed'
      BY <1>1, <3>1, SamePlugins DEF Undisturbed
    <3> QED BY <1>1, <2>1, <3>2, BeforeModelReturns
  <2>2. CASE ~BeforeModel
    <3>1. ~Restart
      BY <1>1, Zenon DEF Restart
    <3>2. request' = request
      BY <1>1, <2>2, <3>1 DEF Next, UserSays, ModelReplies, ModelFails, AfterModel, BeforeTool,
                              ToolEnds, OnToolError, AfterTool
    <3> QED BY <3>2
  <2> QED BY <2>1, <2>2
<1>2. Inv /\ Kept /\ [Next]_vars =>
        [~restarted' /\ ("email" \notin Enabled \/ ~again') => Same]_vars
  BY <1>1
<1> QED BY <1>2, KeptInvariance, PTL DEF Spec, StableRequests
=============================================================================
