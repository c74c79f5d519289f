----------------------- MODULE ConcurrentTableProofs -----------------------
(***************************************************************************)
(* What is left of the promises of the replacement table when goroutines   *)
(* share it without a lock, for any number of them.                        *)
(*                                                                         *)
(* The argument: while callers take turns, the one that is active knows    *)
(* what it has found (Alone), since nobody else writes, and its last step  *)
(* is the step of ReplacementTable.  When they do not, a word on its way   *)
(* into the table is a fresh one or belongs to the family of the name      *)
(* (Granted), and spellings stay paired with names (OneFamily), until two  *)
(* goroutines draw one word.  So no entry is rebound before that, and what *)
(* was known stays known (Kept).                                           *)
(***************************************************************************)
EXTENDS ConcurrentTable, ReplacementProofs, FiniteSetTheorems

-----------------------------------------------------------------------------
(***************************************************************************)
(* The inductive invariants.                                               *)
(***************************************************************************)

Stages(g, stages) == call[g].stage \in stages

Replacing == {"exact", "folded", "draw", "check", "write"}

\* What the lookups of g found holds.
Found(g) ==
  LET o == call[g].name IN
  /\ Stages(g, Replacing) => o \in Original /\ call[g].full \in Table!FullInputs(o)
  /\ At(g, "folded") => Exact(table, o) = {}
  /\ At(g, "draw") => Folded(table, o) = {}
  /\ At(g, "check") => Folded(table, o) = {} /\ call[g].word \in Generated(table, o)
  /\ At(g, "write") => /\ Exact(table, o) = {}
                       /\ call[g].word \in Replacements(table, o, call[g].full)

\* Those who take turns are alone, and what they found still holds.
Alone ==
  turns =>
    /\ \A g, h \in Goroutine : g # h => At(g, "idle") \/ At(h, "idle")
    /\ \A g \in Goroutine : Found(g)

\* An entry is a plain name that covers a plain name.
Covered(m) ==
  \A k \in DOMAIN m : ~HasDot(k) /\ m[k].tld = NoTld /\ CasedLike(k, m[k])

\* Replacements with one spelling stand for one name up to case.
OneFamily(m) == \A k, l \in DOMAIN m : k.stem = l.stem => SameFold(m[k], m[l])

\* The names asked for are those the filters find, and a word on its way into
\* the table covers the name.
Asked ==
  \A g \in Goroutine :
    /\ Stages(g, Replacing) => call[g].name \in Original
    /\ Stages(g, {"check", "write"}) =>
         ~HasDot(call[g].word) /\ CasedLike(call[g].word, call[g].name)

\* A word that was not fresh when it was drawn is refused, and one that is
\* written is fresh or belongs to the family of the name.
Granted ==
  \A g \in Goroutine :
    /\ At(g, "check") => call[g].fresh \/ call[g].word \in DOMAIN table
    /\ At(g, "write") =>
         \/ clashed \/ call[g].fresh
         \/ \E k \in DOMAIN table :
              k.stem = call[g].word.stem /\ SameFold(table[k], call[g].name)

Paired == Covered(table) /\ (clashed \/ OneFamily(table)) /\ Asked /\ Granted

\* What was handed out, what is to be restored and what was known when a call
\* began is still in the table.
Kept ==
  clashed \/
    /\ \A p \in handed : p[2] \in DOMAIN table /\ table[p[2]] = p[1]
    /\ \A g \in Goroutine :
         /\ Stages(g, {"collect", "restore"}) =>
              call[g].word \in DOMAIN table /\ table[call[g].word] = call[g].name
         /\ At(g, "restore") => call[g].word \in call[g].keys
         /\ At(g, "exact") /\ call[g].known => KeysFor(call[g].name) # {}
         /\ Stages(g, {"folded", "draw", "check", "write"}) => ~call[g].known

\* The goroutines that have looked for a replacement of o and found none.
Late(o) ==
  {g \in Goroutine : Stages(g, {"folded", "draw", "check", "write"}) /\ call[g].name = o}

\* Who has found none may add one.
Counted ==
  \A o \in Original :
    /\ IsFiniteSet(KeysFor(o))
    /\ Cardinality(KeysFor(o)) + Cardinality(Late(o)) <= Cardinality(Goroutine)

-----------------------------------------------------------------------------
(***************************************************************************)
(* Lemmas about calls and about single writes.                             *)
(***************************************************************************)

\* The stage of a call says what it holds.
LEMMA StageFacts ==
  ASSUME TypeOK, NEW g \in Goroutine
  PROVE  /\ At(g, "idle") => call[g] = Idle
         /\ Stages(g, {"exact", "folded", "draw"}) => call[g] \in Lookups
         /\ Stages(g, {"check", "write"}) => call[g] \in Writes
         /\ Stages(g, {"collect", "restore"}) => call[g] \in Unredacts
         /\ call[g].stage \in Replacing \union {"idle", "collect", "restore"}
BY DEF TypeOK, Call, At, Stages, Idle, Lookups, Writes, Unredacts, Replacing

\* A write enters one name under one word, and changes no other entry.
LEMMA WriteFacts ==
  ASSUME TypeOK, NEW g \in Goroutine, Write(g)
  PROVE  /\ call[g] \in Writes /\ call[g].name \in Word /\ call[g].word \in Word
         /\ DOMAIN table' = DOMAIN table \union {call[g].word}
         /\ table'[call[g].word] = call[g].name
         /\ \A k \in DOMAIN table : k # call[g].word => table'[k] = table[k]
<1>1. call[g] \in Writes
  BY StageFacts DEF Write, At, Stages
<1>2. table' = Put(table, call[g].word, call[g].name)
  BY DEF Write
<1> QED BY <1>1, <1>2 DEF Writes, Put

\* The request itself stays what it was.
SameRequest(g) ==
  /\ call'[g].name = call[g].name
  /\ call'[g].full = call[g].full
  /\ call'[g].known <=> call[g].known

\* What each step does to the call of the goroutine that takes it.
LEMMA CallFacts ==
  ASSUME TypeOK, NEW g \in Goroutine, NEW o, NEW full, CallGetReplacement(g, o, full)
  PROVE  /\ call'[g].stage = "exact" /\ call'[g].name = o /\ call'[g].full = full
         /\ call'[g].known <=> KeysFor(o) # {}
BY DEF CallGetReplacement, TypeOK

LEMMA LookupExactFacts ==
  ASSUME TypeOK, NEW g \in Goroutine, LookupExact(g)
  PROVE  /\ call[g] \in Lookups /\ At(g, "exact")
         /\ \/ /\ Exact(table, call[g].name) = {} /\ handed' = handed
               /\ call'[g].stage = "folded" /\ SameRequest(g)
            \/ /\ call'[g] = Idle
               /\ \E r \in Exact(table, call[g].name) :
                    handed' = handed \union {<<call[g].name, r>>}
<1>1. call[g] \in Lookups /\ At(g, "exact")
  BY StageFacts DEF LookupExact, At, Stages
<1>2. CASE Exact(table, call[g].name) = {} /\ Goto(g, "folded") /\ UNCHANGED handed
  <2>1. call'[g] = [call[g] EXCEPT !.stage = "folded"]
    BY <1>2 DEF Goto, TypeOK
  <2> QED BY <1>1, <1>2, <2>1 DEF Lookups, SameRequest
<1>3. CASE Return(g) /\ \E r \in Exact(table, call[g].name) :
                          handed' = handed \union {<<call[g].name, r>>}
  BY <1>1, <1>3 DEF Return, TypeOK
<1> QED BY <1>2, <1>3 DEF LookupExact

LEMMA LookupFoldedFacts ==
  ASSUME TypeOK, NEW g \in Goroutine, LookupFolded(g)
  PROVE  /\ call[g] \in Lookups /\ At(g, "folded") /\ SameRequest(g)
         /\ \/ Folded(table, call[g].name) = {} /\ call'[g].stage = "draw"
            \/ /\ call'[g].stage = "write" /\ ~call'[g].fresh
               /\ \E k \in Folded(table, call[g].name) :
                    call'[g].word = MatchCasing(call[g].name, k)
<1>1. call[g] \in Lookups /\ At(g, "folded")
  BY StageFacts DEF LookupFolded, At, Stages
<1>2. CASE Folded(table, call[g].name) = {} /\ Goto(g, "draw")
  <2>1. call'[g] = [call[g] EXCEPT !.stage = "draw"]
    BY <1>2 DEF Goto, TypeOK
  <2> QED BY <1>1, <1>2, <2>1 DEF Lookups, SameRequest
<1>3. CASE \E k \in Folded(table, call[g].name) :
             call' = [call EXCEPT ![g] = [stage |-> "write", name |-> call[g].name,
               full |-> call[g].full, known |-> call[g].known,
               word |-> MatchCasing(call[g].name, k), fresh |-> FALSE]]
  BY <1>1, <1>3 DEF TypeOK, SameRequest
<1> QED BY <1>2, <1>3 DEF LookupFolded

LEMMA DrawFacts ==
  ASSUME TypeOK, NEW g \in Goroutine, Draw(g)
  PROVE  /\ call[g] \in Lookups /\ At(g, "draw") /\ SameRequest(g)
         /\ call'[g].stage = "check"
         /\ call'[g].word \in Generated(table, call[g].name)
         /\ call'[g].fresh <=> \A k \in PlainKeys(table) : k.stem # call'[g].word.stem
<1>1. call[g] \in Lookups /\ At(g, "draw")
  BY StageFacts DEF Draw, At, Stages
<1>2. PICK r \in Generated(table, call[g].name) :
        call' = [call EXCEPT ![g] = [stage |-> "check", name |-> call[g].name,
          full |-> call[g].full, known |-> call[g].known, word |-> r,
          fresh |-> \A k \in PlainKeys(table) : k.stem # r.stem]]
  BY DEF Draw
<1> QED BY <1>1, <1>2 DEF TypeOK, SameRequest

LEMMA CheckFacts ==
  ASSUME TypeOK, NEW g \in Goroutine, Check(g)
  PROVE  /\ call[g] \in Writes /\ At(g, "check") /\ SameRequest(g)
         /\ \/ /\ Acceptable(g) /\ call'[g].stage = "write"
               /\ call'[g].word = call[g].word /\ (call'[g].fresh <=> call[g].fresh)
            \/ call'[g].stage = "draw"
<1>1. call[g] \in Writes /\ At(g, "check")
  BY StageFacts DEF Check, At, Stages
<1>2. CASE Acceptable(g) /\ Goto(g, "write")
  <2>1. call'[g] = [call[g] EXCEPT !.stage = "write"]
    BY <1>2 DEF Goto, TypeOK
  <2> QED BY <1>1, <1>2, <2>1 DEF Writes, SameRequest
<1>3. CASE call' = [call EXCEPT ![g] = [stage |-> "draw", name |-> call[g].name,
                      full |-> call[g].full, known |-> call[g].known]]
  BY <1>1, <1>3 DEF TypeOK, SameRequest
<1> QED BY <1>2, <1>3 DEF Check

LEMMA UnredactFacts ==
  ASSUME TypeOK, NEW g \in Goroutine, UnredactText(g)
  PROVE  /\ call'[g].stage \in {"collect", "restore", "idle"}
         /\ call'[g].stage = "collect" => <<call'[g].name, call'[g].word>> \in handed
         /\ call'[g].stage = "restore" =>
              /\ call[g] \in Unredacts /\ At(g, "collect")
              /\ call'[g].name = call[g].name /\ call'[g].word = call[g].word
              /\ call'[g].keys = DOMAIN table
<1>1. ASSUME NEW pair \in handed, CallUnredactText(g, pair)
      PROVE  call'[g].stage = "collect" /\ <<call'[g].name, call'[g].word>> \in handed
  BY <1>1 DEF CallUnredactText, TypeOK
<1>2. CASE Collect(g)
  <2>1. call[g] \in Unredacts /\ At(g, "collect")
    BY <1>2, StageFacts DEF Collect, At, Stages
  <2>2. call'[g] = [call[g] EXCEPT !.stage = "restore", !.keys = DOMAIN table]
    BY <1>2 DEF Collect, KeysOf, TypeOK
  <2> QED BY <2>1, <2>2 DEF Unredacts
<1>3. CASE RestoreText(g)
  <2>1. call'[g].stage = "idle"
    BY <1>3 DEF RestoreText, Return, TypeOK, Idle
  <2> QED BY <2>1
<1> QED BY <1>1, <1>2, <1>3 DEF UnredactText

\* The other goroutines are where they were, and only Write writes.
LEMMA Others ==
  ASSUME TypeOK, NEW g \in Goroutine, GetReplacement(g) \/ UnredactText(g)
  PROVE  /\ \A h \in Goroutine \ {g} : call'[h] = call[h]
         /\ turns' = turns
         /\ Write(g) \/ UNCHANGED <<table, clashed>>
         /\ Write(g) \/ LookupExact(g) \/ UNCHANGED handed
<1> USE DEF CallGetReplacement, LookupExact, LookupFolded, Draw, Check, Write, Goto, Return,
            CallUnredactText, Collect, RestoreText, TypeOK
<1>1. CASE GetReplacement(g)
  BY <1>1 DEF GetReplacement
<1>2. CASE UnredactText(g)
  BY <1>2 DEF UnredactText
<1> QED BY <1>1, <1>2

\* A generated word is a word.
LEMMA GeneratedIsWord ==
  ASSUME NEW m, NEW o \in Word, NEW r \in Generated(m, o)
  PROVE  r \in Word
BY GeneratedFacts

-----------------------------------------------------------------------------
(***************************************************************************)
(* Types.                                                                  *)
(***************************************************************************)

LEMMA TypesInitially == Init => TypeOK
BY ConcurrentAssumption DEF Init, TypeOK, Call

\* A step of one goroutine leaves the calls of the others alone, and gives its
\* own what the next stage needs.
LEMMA TypesStep ==
  ASSUME TypeOK, Next
  PROVE  TypeOK'
<1> USE DEF TypeOK
<1>1. ASSUME NEW g \in Goroutine, GetReplacement(g) PROVE TypeOK'
  <2>1. ASSUME NEW o \in Original, NEW full \in Table!FullInputs(o),
               CallGetReplacement(g, o, full)
        PROVE  TypeOK'
    <3>1. [stage |-> "exact", name |-> o, full |-> full, known |-> KeysFor(o) # {}] \in Call
      BY ConcurrentAssumption DEF Call, Lookups, Table!FullInputs
    <3> QED BY <2>1, <3>1 DEF CallGetReplacement
  <2>2. CASE LookupExact(g)
    <3>1. call[g] \in Lookups
      BY <2>2, StageFacts DEF LookupExact, At, Stages
    <3>2. [call[g] EXCEPT !.stage = "folded"] \in Call
      BY <3>1 DEF Call, Lookups
    <3>3. Idle \in Call
      BY DEF Call
    <3>4. call' \in [Goroutine -> Call]
      BY <2>2, <3>2, <3>3 DEF LookupExact, Goto, Return
    <3>5. \A r \in Exact(table, call[g].name) : <<call[g].name, r>> \in Word \X Word
      BY <3>1 DEF Lookups, Exact, PlainKeys
    <3> QED BY <2>2, <3>4, <3>5 DEF LookupExact
  <2>3. CASE LookupFolded(g)
    <3>1. call[g] \in Lookups
      BY <2>3, StageFacts DEF LookupFolded, At, Stages
    <3>2. [call[g] EXCEPT !.stage = "draw"] \in Call
      BY <3>1 DEF Call, Lookups
    <3>3. ASSUME NEW k \in Folded(table, call[g].name)
          PROVE  [stage |-> "write", name |-> call[g].name, full |-> call[g].full,
                  known |-> call[g].known, word |-> MatchCasing(call[g].name, k),
                  fresh |-> FALSE] \in Call
      <4>1. MatchCasing(call[g].name, k) \in Word
        BY <3>1, MatchCasingFacts DEF Lookups, Folded, PlainKeys
      <4> QED BY <3>1, <4>1 DEF Call, Lookups, Writes
    <3>4. call' \in [Goroutine -> Call]
      BY <2>3, <3>2, <3>3 DEF LookupFolded, Goto
    <3> QED BY <2>3, <3>4 DEF LookupFolded
  <2>4. CASE Draw(g)
    <3>1. call[g] \in Lookups
      BY <2>4, StageFacts DEF Draw, At, Stages
    <3>2. ASSUME NEW r \in Generated(table, call[g].name)
          PROVE  [stage |-> "check", name |-> call[g].name, full |-> call[g].full,
                  known |-> call[g].known, word |-> r,
                  fresh |-> \A k \in PlainKeys(table) : k.stem # r.stem] \in Call
      <4>1. r \in Word
        BY <3>1, GeneratedIsWord DEF Lookups
      <4> QED BY <3>1, <4>1 DEF Call, Lookups, Writes
    <3>3. call' \in [Goroutine -> Call]
      BY <2>4, <3>2 DEF Draw
    <3> QED BY <2>4, <3>3 DEF Draw
  <2>5. CASE Check(g)
    <3>1. call[g] \in Writes
      BY <2>5, StageFacts DEF Check, At, Stages
    <3>2. [call[g] EXCEPT !.stage = "write"] \in Call
      BY <3>1 DEF Call, Writes
    <3>3. [stage |-> "draw", name |-> call[g].name, full |-> call[g].full,
           known |-> call[g].known] \in Call
      BY <3>1 DEF Call, Lookups, Writes
    <3>4. call' \in [Goroutine -> Call]
      BY <2>5, <3>2, <3>3 DEF Check, Goto
    <3> QED BY <2>5, <3>4 DEF Check
  <2>6. CASE Write(g)
    <3>1. call[g].name \in Word /\ call[g].word \in Word
      BY <2>6, WriteFacts
    <3>2. DOMAIN table' \subseteq Word /\ \A k \in DOMAIN table' : table'[k] \in Word
      BY <2>6, <3>1, WriteFacts
    <3>3. handed' \subseteq Word \X Word
      BY <2>6, <3>1 DEF Write
    <3>4. call' \in [Goroutine -> Call]
      BY <2>6 DEF Write, Return, Call
    <3>5. clashed' \in BOOLEAN
      BY <2>6 DEF Write
    <3> QED BY <2>6, <3>2, <3>3, <3>4, <3>5 DEF Write
  <2> QED BY <1>1, <2>1, <2>2, <2>3, <2>4, <2>5, <2>6 DEF GetReplacement
<1>2. ASSUME NEW g \in Goroutine, UnredactText(g) PROVE TypeOK'
  <2>1. ASSUME NEW pair \in handed, CallUnredactText(g, pair) PROVE TypeOK'
    <3>1. [stage |-> "collect", name |-> pair[1], word |-> pair[2], keys |-> {}] \in Call
      BY DEF Call, Unredacts
    <3> QED BY <2>1, <3>1 DEF CallUnredactText
  <2>2. CASE Collect(g)
    <3>1. call[g] \in Unredacts
      BY <2>2, StageFacts DEF Collect, At, Stages
    <3>2. [call[g] EXCEPT !.stage = "restore", !.keys = KeysOf] \in Call
      BY <3>1 DEF Call, Unredacts, KeysOf
    <3>3. call' \in [Goroutine -> Call]
      BY <2>2, <3>2 DEF Collect
    <3> QED BY <2>2, <3>3 DEF Collect
  <2>3. CASE RestoreText(g)
    BY <2>3 DEF RestoreText, Return, Call
  <2> QED BY <1>2, <2>1, <2>2, <2>3 DEF UnredactText
<1>3. CASE Fatal
  BY <1>3, ConcurrentAssumption DEF Fatal, Call
<1> QED BY <1>1, <1>2, <1>3 DEF Next

-----------------------------------------------------------------------------
(***************************************************************************)
(* Callers that take turns.                                                *)
(***************************************************************************)

LEMMA AloneInitially == Init => Alone
BY DEF Init, Alone, Found, At, Stages, Idle, Replacing

\* What the first lookup finds the second one finds as well.
LEMMA ExactIsFolded ==
  ASSUME NEW m, NEW o
  PROVE  Exact(m, o) \subseteq Folded(m, o)
BY DEF Exact, Folded, SameFold

\* Who takes a step while callers take turns is the only one inside.
LEMMA OthersIdle ==
  ASSUME TypeOK, Alone, turns,
         NEW g \in Goroutine, GetReplacement(g) \/ UnredactText(g)
  PROVE  \A h \in Goroutine \ {g} : At(h, "idle") /\ call'[h] = call[h]
<1>1. MayCall(g) \/ ~At(g, "idle")
  BY DEF GetReplacement, CallGetReplacement, LookupExact, LookupFolded, Draw, Check, Write,
         UnredactText, CallUnredactText, Collect, RestoreText, At
<1> QED BY <1>1, Others DEF Alone, MayCall

\* A step of the goroutine that is inside leads from what it has found to what
\* it finds, on a table that nobody else changes.
LEMMA FoundStep ==
  ASSUME TypeOK, Alone, turns, NEW g \in Goroutine, GetReplacement(g) \/ UnredactText(g)
  PROVE  Found(g)'
<1> USE DEF At, Stages, Replacing
<1>1. Found(g)
  BY DEF Alone
<1>2. ASSUME NEW o \in Original, NEW full \in Table!FullInputs(o),
             CallGetReplacement(g, o, full)
      PROVE  Found(g)'
  BY <1>2, CallFacts DEF CallGetReplacement, Found, Table!FullInputs
<1>3. CASE LookupExact(g)
  BY <1>1, <1>3, LookupExactFacts DEF LookupExact, SameRequest, Found, Idle, Table!FullInputs
<1>4. CASE LookupFolded(g)
  <2>1. table' = table
    BY <1>4 DEF LookupFolded
  <2>2. Exact(table, call[g].name) = {}
    BY <1>1, <1>4, LookupFoldedFacts DEF Found
  <2>3. \A k \in Folded(table, call[g].name) :
          MatchCasing(call[g].name, k) \in Replacements(table, call[g].name, call[g].full)
    BY <2>2 DEF Replacements
  <2> QED BY <1>1, <1>4, <2>1, <2>2, <2>3, LookupFoldedFacts
          DEF SameRequest, Found, Table!FullInputs
<1>5. CASE Draw(g)
  BY <1>1, <1>5, DrawFacts DEF Draw, SameRequest, Found, Table!FullInputs
<1>6. CASE Check(g)
  <2>1. table' = table
    BY <1>6 DEF Check
  <2>2. Folded(table, call[g].name) = {} /\ Exact(table, call[g].name) = {}
    BY <1>1, <1>6, CheckFacts, ExactIsFolded DEF Found
  <2>3. Acceptable(g) => call[g].word \in Replacements(table, call[g].name, call[g].full)
    BY <1>1, <1>6, <2>2, CheckFacts DEF Found, Acceptable, Replacements, Fresh
  <2> QED BY <1>1, <1>6, <2>1, <2>2, <2>3, CheckFacts DEF SameRequest, Found, Table!FullInputs
<1>7. CASE Write(g)
  BY <1>7 DEF Write, Return, Idle, TypeOK, Found
<1>8. CASE UnredactText(g)
  BY <1>8, UnredactFacts DEF Found
<1> QED BY <1>2, <1>3, <1>4, <1>5, <1>6, <1>7, <1>8 DEF GetReplacement

\* Callers that take turns stay alone.
LEMMA AloneStep ==
  ASSUME TypeOK, Alone, Next
  PROVE  Alone'
<1> SUFFICES ASSUME turns' PROVE Alone'
  BY DEF Alone
<1>1. ASSUME NEW g \in Goroutine, GetReplacement(g) \/ UnredactText(g) PROVE Alone'
  <2>1. turns
    BY <1>1, Others
  <2>2. \A h \in Goroutine \ {g} : At(h, "idle") /\ call'[h] = call[h]
    BY <1>1, <2>1, OthersIdle
  <2>3. \A h \in Goroutine \ {g} : At(h, "idle")' /\ Found(h)'
    BY <2>2 DEF At, Found, Stages, Replacing
  <2>4. Found(g)'
    BY <1>1, <2>1, FoundStep
  <2> QED BY <2>3, <2>4 DEF Alone
<1>2. CASE Fatal
  BY <1>2 DEF Fatal, Alone, Found, At, Stages, Replacing, Idle
<1> QED BY <1>1, <1>2 DEF Next

\* The table and its specification mean the same by the operators they share.
LEMMA SharedOperators ==
  ASSUME NEW m, NEW o, NEW full, NEW r
  PROVE  /\ Table!PlainKeys(m) = PlainKeys(m)
         /\ Table!Exact(m, o) = Exact(m, o)
         /\ Table!Folded(m, o) = Folded(m, o)
         /\ Table!MatchCasing(o, r) = MatchCasing(o, r)
         /\ Table!Generated(m, o) = Generated(m, o)
         /\ Table!Fresh(m, o, full) = Fresh(m, o, full)
         /\ Table!Replacements(m, o, full) = Replacements(m, o, full)
         /\ Table!Recorded(m, o, r) = Recorded(m, o, r)
<1>1. Table!PlainKeys(m) = PlainKeys(m)
  BY DEF Table!PlainKeys, PlainKeys, Table!HasDot, HasDot
<1>2. Table!Exact(m, o) = Exact(m, o)
  BY <1>1 DEF Table!Exact, Exact
<1>3. Table!Folded(m, o) = Folded(m, o)
  BY <1>1 DEF Table!Folded, Folded, Table!SameFold, SameFold
<1>4. ASSUME NEW v, NEW w PROVE Table!MatchCasing(v, w) = MatchCasing(v, w)
  BY DEF Table!MatchCasing, MatchCasing
<1>5. Table!Generated(m, o) = Generated(m, o)
  BY <1>1, <1>4 DEF Table!Generated, Generated, Table!Lower, Lower, Table!NameLength, NameLength
<1>6. Table!Fresh(m, o, full) = Fresh(m, o, full)
  BY <1>5 DEF Table!Fresh, Fresh
<1>7. Table!Replacements(m, o, full) = Replacements(m, o, full)
  BY <1>2, <1>3, <1>4, <1>6 DEF Table!Replacements, Replacements
<1>8. Table!Recorded(m, o, r) = Recorded(m, o, r)
  BY <1>2 DEF Table!Recorded, Recorded, Table!Put, Put
<1> QED BY <1>1, <1>2, <1>3, <1>4, <1>5, <1>6, <1>7, <1>8

\* The first lookup finds the name: a step of Reuse.
LEMMA HitIsReuse ==
  ASSUME TypeOK, Alone, turns, NEW g \in Goroutine, LookupExact(g), ~UNCHANGED handed
  PROVE  Table!Next
<1> DEFINE o == call[g].name
           full == call[g].full
<1>1. PICK r \in Exact(table, o) : handed' = handed \union {<<o, r>>}
  BY DEF LookupExact
<1>2. o \in Table!Requests /\ full \in Table!FullInputs(o)
  BY DEF Alone, Found, At, Stages, Replacing, LookupExact, Table!Requests
<1>3. r \in Replacements(table, o, full) /\ Recorded(table, o, r) = table
  BY <1>1 DEF Replacements, Recorded
<1>4. Table!RedactName(o, full, r)
  BY <1>1, <1>3, SharedOperators DEF Table!RedactName, LookupExact
<1>5. Table!Reuse(o, full)
  BY <1>1, <1>4, SharedOperators DEF Table!Reuse
<1> QED BY <1>2, <1>5 DEF Table!Next

\* The word is written: a step of Recase when the second lookup found the name,
\* and of Generate when it did not.
LEMMA WriteIsStep ==
  ASSUME TypeOK, Alone, turns, NEW g \in Goroutine, Write(g)
  PROVE  Table!Next
<1> DEFINE o == call[g].name
           full == call[g].full
           r == call[g].word
<1>1. /\ o \in Original /\ full \in Table!FullInputs(o)
      /\ Exact(table, o) = {} /\ r \in Replacements(table, o, full)
  BY DEF Alone, Found, At, Stages, Replacing, Write
<1>2. table' = Recorded(table, o, r)
  BY <1>1 DEF Write, Recorded
<1>3. Table!RedactName(o, full, r)
  BY <1>1, <1>2, SharedOperators DEF Table!RedactName, Write
<1>4. CASE Folded(table, o) = {}
  <2>1. r \in Fresh(table, o, full)
    BY <1>1, <1>4 DEF Replacements
  <2>2. Table!Generate(o, full)
    BY <1>3, <1>4, <2>1, SharedOperators DEF Table!Generate
  <2> QED BY <1>1, <2>2 DEF Table!Next, Table!Requests
<1>5. CASE Folded(table, o) # {}
  <2>1. r \in {MatchCasing(o, k) : k \in Folded(table, o)}
    BY <1>1, <1>5 DEF Replacements
  <2>2. Table!Recase(o, full)
    BY <1>1, <1>3, <2>1, SharedOperators DEF Table!Recase
  <2> QED BY <1>1, <2>2 DEF Table!Next, Table!Requests
<1> QED BY <1>4, <1>5

-----------------------------------------------------------------------------
(***************************************************************************)
(* The theorems that need no more than types.                              *)
(***************************************************************************)

LEMMA AloneInvariance == Spec => [](TypeOK /\ Alone)
<1>1. Init => TypeOK /\ Alone
  BY TypesInitially, AloneInitially
<1>2. TypeOK /\ Alone /\ [Next]_vars => (TypeOK /\ Alone)'
  <2> SUFFICES ASSUME TypeOK, Alone, [Next]_vars PROVE (TypeOK /\ Alone)'
    OBVIOUS
  <2>1. CASE Next
    BY <2>1, TypesStep, AloneStep
  <2>2. CASE UNCHANGED vars
    BY <2>2 DEF vars, TypeOK, Alone, Found, At, Stages, KeysFor, Table!FullInputs
  <2> QED BY <2>1, <2>2
<1> QED BY <1>1, <1>2, PTL DEF Spec

\* The table maps names to names, and a call holds what its stage needs,
\* however the goroutines interleave.
THEOREM TypeCorrect == Spec => []TypeOK
BY AloneInvariance, PTL

\* GetReplacement, step by step, is one request to the table as a whole, when
\* the callers wait for one another: the goroutine that is inside finds in its
\* second step what held in its first.
THEOREM TurnsImplement == Spec => TurnsImplementTable
<1>1. TypeOK /\ Alone /\ [Next]_vars =>
        [turns => Table!Next \/ UNCHANGED Table!vars]_vars
  <2> SUFFICES ASSUME TypeOK, Alone, Next, turns, ~UNCHANGED Table!vars PROVE Table!Next
    BY DEF vars
  <2>1. ~Fatal
    BY DEF Fatal, Alone, Accesses, At
  <2>2. PICK g \in Goroutine : (LookupExact(g) /\ ~UNCHANGED handed) \/ Write(g)
    BY <2>1 DEF Next, GetReplacement, UnredactText, CallGetReplacement, LookupExact,
       LookupFolded, Draw, Check, CallUnredactText, Collect, RestoreText, Table!vars
  <2> QED BY <2>2, HitIsReuse, WriteIsStep
<1> QED BY AloneInvariance, <1>1, PTL DEF Spec, TurnsImplementTable

-----------------------------------------------------------------------------
(***************************************************************************)
(* Callers that do not wait, as long as no two goroutines draw one word.   *)
(***************************************************************************)

\* What Ideal says of the generator, of the names and of the first tables.
LEMMA IdealFacts ==
  ASSUME Table!Ideal
  PROVE  /\ ~CaseClash
         /\ \A o \in Original : o \in Word /\ o.tld = NoTld /\ Length[o.stem] <= MaxLength
         /\ \A m \in Prefill : /\ Covered(m) /\ OneFamily(m)
                               /\ \A k, l \in DOMAIN m : m[k] = m[l] => k = l
<1>1. \A o \in Original : o \in Word /\ o.tld = NoTld /\ Length[o.stem] <= MaxLength
  BY ConcurrentAssumption DEF Table!Ideal
<1>2. ASSUME NEW m \in Prefill PROVE Covered(m) /\ OneFamily(m)
  BY DEF Table!Ideal, Table!WellFormed, Table!HasDot, Table!CasedLike, Table!SameFold,
         Covered, OneFamily, HasDot, CasedLike, SameFold
<1> QED BY <1>1, <1>2 DEF Table!Ideal, Table!WellFormed

\* Between the lookups and the write the word belongs to the family of the
\* name, or nobody has its spelling: an entry that has it stands for the name.
LEMMA FamilyOfWord ==
  ASSUME TypeOK, Paired, NEW g \in Goroutine, Write(g), ~clashed',
         NEW k \in DOMAIN table, k.stem = call[g].word.stem
  PROVE  SameFold(table[k], call[g].name)
<1>1. ~clashed /\ ~Clashes(g) /\ OneFamily(table) /\ k \in PlainKeys(table)
  BY DEF Write, Paired, Covered, PlainKeys
<1>2. CASE call[g].fresh
  BY <1>1, <1>2 DEF Clashes
<1>3. CASE ~call[g].fresh
  BY <1>1, <1>3 DEF Paired, Granted, OneFamily, Write, SameFold
<1> QED BY <1>2, <1>3

\* A write keeps every entry: the word is not there, or it stands for the name,
\* in the same capitals.
LEMMA WriteKeeps ==
  ASSUME TypeOK, Paired, NEW g \in Goroutine, Write(g), ~clashed'
  PROVE  ExtendedBy(table, table')
<1> DEFINE o == call[g].name
           r == call[g].word
<1>1. o \in Word /\ CasedLike(r, o)
  BY WriteFacts DEF Paired, Asked, At, Stages, Write
<1>2. ASSUME r \in DOMAIN table PROVE table[r] = o
  <2>1. table[r] \in Word /\ CasedLike(r, table[r])
    BY <1>2 DEF TypeOK, Paired, Covered
  <2>2. SameFold(table[r], o)
    BY <1>2, FamilyOfWord
  <2> QED BY <1>1, <2>1, <2>2, CaseDecides
<1> QED BY <1>2, WriteFacts DEF ExtendedBy

LEMMA PairedInitially ==
  ASSUME Table!Ideal, Init
  PROVE  Paired
<1>1. Covered(table) /\ OneFamily(table)
  BY IdealFacts DEF Init
<1> QED BY <1>1 DEF Init, Paired, Asked, Granted, At, Stages, Idle, Replacing

\* What a goroutine asks for and carries stays as Asked has it.
LEMMA AskedStep ==
  ASSUME Table!Ideal, TypeOK, Paired,
         NEW g \in Goroutine, GetReplacement(g) \/ UnredactText(g)
  PROVE  Asked'
<1> USE DEF At, Stages, Replacing
<1> DEFINE Good(h) ==
      /\ Stages(h, Replacing) => call[h].name \in Original
      /\ Stages(h, {"check", "write"}) =>
           ~HasDot(call[h].word) /\ CasedLike(call[h].word, call[h].name)
<1>1. \A h \in Goroutine : Good(h)
  BY DEF Paired, Asked
<1>2. \A h \in Goroutine \ {g} : Good(h)'
  BY <1>1, Others
<1>3. Good(g)'
  <2>1. ASSUME NEW o \in Original, NEW full, CallGetReplacement(g, o, full) PROVE Good(g)'
    BY <2>1, CallFacts
  <2>2. CASE LookupExact(g)
    BY <1>1, <2>2, LookupExactFacts DEF SameRequest, Idle
  <2>3. CASE LookupFolded(g)
    <3>1. ASSUME NEW k \in Folded(table, call[g].name)
          PROVE  /\ ~HasDot(MatchCasing(call[g].name, k))
                 /\ CasedLike(MatchCasing(call[g].name, k), call[g].name)
      <4>1. call[g].name \in Word /\ k \in Word /\ table[k] \in Word
        BY <2>3, LookupFoldedFacts DEF Lookups, TypeOK, Folded, PlainKeys
      <4>2. ~HasDot(k) /\ CasedLike(k, table[k]) /\ SameFold(table[k], call[g].name)
        BY DEF Paired, Covered, Folded, PlainKeys
      <4>3. Letters[call[g].name.stem] \subseteq Letters[k.stem]
        BY <4>2 DEF CasedLike, SameFold
      <4> QED BY <4>1, <4>2, <4>3, MatchCasingFacts DEF HasDot
    <3> QED BY <1>1, <2>3, <3>1, LookupFoldedFacts DEF SameRequest
  <2>4. CASE Draw(g)
    <3>1. call[g].name \in Original
      BY <1>1, <2>4, DrawFacts
    <3>2. call[g].name \in Word /\ Length[call[g].name.stem] <= MaxLength
      BY <3>1, IdealFacts
    <3>3. \A r \in Generated(table, call[g].name) :
            ~HasDot(r) /\ CasedLike(r, call[g].name)
      BY <3>2, GeneratedFacts
    <3> QED BY <2>4, <3>1, <3>3, DrawFacts DEF SameRequest
  <2>5. CASE Check(g)
    BY <1>1, <2>5, CheckFacts DEF SameRequest
  <2>6. CASE Write(g)
    BY <2>6 DEF Write, Return, Idle, TypeOK
  <2>7. CASE UnredactText(g)
    BY <2>7, UnredactFacts
  <2> QED BY <2>1, <2>2, <2>3, <2>4, <2>5, <2>6, <2>7 DEF GetReplacement
<1> QED BY <1>2, <1>3 DEF Asked

\* A goroutine carries a word on to the write only if it may, and a write of
\* another one does not take that from it.
LEMMA GrantedStep ==
  ASSUME Table!Ideal, TypeOK, Paired,
         NEW g \in Goroutine, GetReplacement(g) \/ UnredactText(g)
  PROVE  Granted'
<1> USE DEF At, Stages
<1> DEFINE Family(h) == \E k \in DOMAIN table :
             k.stem = call[h].word.stem /\ SameFold(table[k], call[h].name)
<1>1. ASSUME NEW h \in Goroutine
      PROVE  /\ At(h, "check") => call[h].fresh \/ call[h].word \in DOMAIN table
             /\ At(h, "write") => clashed \/ call[h].fresh \/ Family(h)
  BY DEF Paired, Granted
<1>2. ASSUME ~clashed' PROVE ~clashed /\ ExtendedBy(table, table')
  BY <1>2, Others, WriteKeeps DEF Write, ExtendedBy
<1>3. DOMAIN table \subseteq DOMAIN table'
  BY Others, WriteFacts
<1>4. ASSUME NEW h \in Goroutine \ {g}
      PROVE  /\ At(h, "check")' => call'[h].fresh \/ call'[h].word \in DOMAIN table'
             /\ At(h, "write")' => clashed' \/ call'[h].fresh \/ Family(h)'
  <2>1. call'[h] = call[h]
    BY Others
  <2>2. ~clashed' /\ Family(h) => Family(h)'
    BY <1>2, <2>1 DEF ExtendedBy
  <2> QED BY <1>1, <1>2, <1>3, <2>1, <2>2
<1>5. /\ At(g, "check")' => call'[g].fresh \/ call'[g].word \in DOMAIN table'
      /\ At(g, "write")' => clashed' \/ call'[g].fresh \/ Family(g)'
  <2>1. ASSUME NEW o, NEW full, CallGetReplacement(g, o, full)
        PROVE  call'[g].stage = "exact"
    BY <2>1, CallFacts
  <2>2. CASE LookupExact(g)
    BY <2>2, LookupExactFacts DEF Idle
  <2>3. CASE LookupFolded(g)
    <3>1. ASSUME NEW k \in Folded(table, call[g].name)
          PROVE  /\ MatchCasing(call[g].name, k).stem = k.stem
                 /\ k \in DOMAIN table /\ SameFold(table[k], call[g].name)
      <4>1. call[g].name \in Word /\ k \in Word /\ k \in DOMAIN table
        BY <2>3, LookupFoldedFacts DEF Lookups, TypeOK, Folded, PlainKeys
      <4> QED BY <4>1, MatchCasingFacts DEF Folded
    <3>2. table' = table
      BY <2>3 DEF LookupFolded
    <3>3. CASE call'[g].stage = "write"
      <4>1. Family(g)'
        BY <2>3, <3>1, <3>2, <3>3, LookupFoldedFacts DEF SameRequest
      <4> QED BY <3>3, <4>1
    <3> QED BY <2>3, <3>3, LookupFoldedFacts
  <2>4. CASE Draw(g)
    <3>1. call[g].name \in Word
      BY <2>4, DrawFacts DEF Lookups
    <3>2. call'[g].word \notin DOMAIN table => \A k \in PlainKeys(table) : k.stem # call'[g].word.stem
      BY <2>4, <3>1, DrawFacts, IdealFacts, GeneratedFacts
    <3>3. table' = table
      BY <2>4 DEF Draw
    <3> QED BY <2>4, <3>2, <3>3, DrawFacts
  <2>5. CASE Check(g)
    BY <1>1, <2>5, CheckFacts DEF Acceptable
  <2>6. CASE Write(g)
    BY <2>6 DEF Write, Return, Idle, TypeOK
  <2>7. CASE UnredactText(g)
    BY <2>7, UnredactFacts
  <2> QED BY <2>1, <2>2, <2>3, <2>4, <2>5, <2>6, <2>7 DEF GetReplacement
<1> QED BY <1>4, <1>5 DEF Granted

\* Spellings stay paired with names, until goroutines clash.
LEMMA PairedStep ==
  ASSUME Table!Ideal, TypeOK, Paired, Next
  PROVE  Paired'
<1>1. ASSUME NEW g \in Goroutine, GetReplacement(g) \/ UnredactText(g) PROVE Paired'
  <2>1. Asked' /\ Granted'
    BY <1>1, AskedStep, GrantedStep
  <2>2. CASE UNCHANGED <<table, clashed>>
    BY <2>1, <2>2 DEF Paired
  <2>3. CASE Write(g)
    <3> DEFINE o == call[g].name
               r == call[g].word
    <3>1. ~HasDot(r) /\ CasedLike(r, o) /\ o.tld = NoTld
      BY <2>3, IdealFacts DEF Paired, Asked, At, Stages, Replacing, Write
    <3>2. Covered(table')
      <4>1. /\ DOMAIN table' = DOMAIN table \union {r} /\ table'[r] = o
            /\ \A k \in DOMAIN table : k # r => table'[k] = table[k]
        BY <2>3, WriteFacts
      <4> QED BY <3>1, <4>1 DEF Paired, Covered
    <3>3. ASSUME ~clashed' PROVE OneFamily(table')
      <4>1. ~clashed /\ OneFamily(table)
        BY <2>3, <3>3 DEF Paired, Write
      <4>2. \A k \in DOMAIN table : k.stem = r.stem => SameFold(table[k], o)
        BY <2>3, <3>3, FamilyOfWord
      <4>3. DOMAIN table' = DOMAIN table \union {r} /\ table'[r] = o
        BY <2>3, WriteFacts
      <4>4. \A k \in DOMAIN table : table'[k] = table[k]
        BY <2>3, <3>3, WriteKeeps DEF ExtendedBy
      <4> QED BY <4>1, <4>2, <4>3, <4>4 DEF OneFamily, SameFold
    <3> QED BY <2>1, <3>2, <3>3 DEF Paired
  <2> QED BY <1>1, <2>2, <2>3, Others
<1>2. CASE Fatal
  <2>1. Covered(table') /\ OneFamily(table')
    BY <1>2, IdealFacts DEF Fatal
  <2> QED BY <1>2, <2>1 DEF Fatal, Paired, Asked, Granted, At, Stages, Idle, Replacing
<1> QED BY <1>1, <1>2 DEF Next

\* What was handed out, asked back or known is not lost by a write that keeps
\* the entries.
LEMMA KeptStep ==
  ASSUME Table!Ideal, TypeOK, Paired, Kept, Next
  PROVE  Kept'
<1> SUFFICES ASSUME ~clashed' PROVE Kept'
  BY DEF Kept
<1> USE DEF At, Stages
<1>1. ASSUME NEW g \in Goroutine, GetReplacement(g) \/ UnredactText(g) PROVE Kept'
  <2> DEFINE Safe(h) ==
        /\ Stages(h, {"collect", "restore"}) =>
             call[h].word \in DOMAIN table /\ table[call[h].word] = call[h].name
        /\ At(h, "restore") => call[h].word \in call[h].keys
        /\ At(h, "exact") /\ call[h].known => KeysFor(call[h].name) # {}
        /\ Stages(h, {"folded", "draw", "check", "write"}) => ~call[h].known
  <2>1. ~clashed /\ ExtendedBy(table, table')
    BY <1>1, Others, WriteKeeps DEF Write, ExtendedBy
  <2>2. /\ \A p \in handed : p[2] \in DOMAIN table /\ table[p[2]] = p[1]
        /\ \A h \in Goroutine : Safe(h)
    BY <2>1 DEF Kept
  <2>3. \A p \in handed' : p[2] \in DOMAIN table' /\ table'[p[2]] = p[1]
    <3>1. CASE UNCHANGED handed
      BY <2>1, <2>2, <3>1 DEF ExtendedBy
    <3>2. CASE LookupExact(g)
      <4>1. ASSUME NEW r \in Exact(table, call[g].name)
            PROVE  r \in DOMAIN table /\ table[r] = call[g].name
        BY DEF Exact, PlainKeys
      <4>2. table' = table
        BY <3>2 DEF LookupExact
      <4> QED BY <2>2, <3>2, <4>1, <4>2 DEF LookupExact
    <3>3. CASE Write(g)
      <4>1. /\ call[g].word \in DOMAIN table' /\ table'[call[g].word] = call[g].name
            /\ handed' = handed \union {<<call[g].name, call[g].word>>}
        BY <3>3, WriteFacts DEF Write
      <4> QED BY <2>1, <2>2, <4>1 DEF ExtendedBy
    <3> QED BY <1>1, <3>1, <3>2, <3>3, Others
  <2>4. ASSUME NEW h \in Goroutine \ {g} PROVE Safe(h)'
    <3>1. call'[h] = call[h] /\ Safe(h)
      BY <1>1, <2>2, Others
    <3>2. ASSUME NEW o PROVE KeysFor(o) \subseteq KeysFor(o)'
      BY <2>1 DEF ExtendedBy, KeysFor, PlainKeys
    <3> QED BY <2>1, <3>1, <3>2 DEF ExtendedBy
  <2>5. Safe(g)'
    <3>1. ASSUME NEW o, NEW full, CallGetReplacement(g, o, full) PROVE Safe(g)'
      <4>1. table' = table
        BY <3>1 DEF CallGetReplacement
      <4> QED BY <3>1, <4>1, CallFacts DEF KeysFor
    <3>2. CASE LookupExact(g)
      BY <2>2, <3>2, LookupExactFacts DEF SameRequest, Idle, Exact, KeysFor
    <3>3. CASE LookupFolded(g)
      BY <2>2, <3>3, LookupFoldedFacts DEF SameRequest
    <3>4. CASE Draw(g)
      BY <2>2, <3>4, DrawFacts DEF SameRequest
    <3>5. CASE Check(g)
      BY <2>2, <3>5, CheckFacts DEF SameRequest
    <3>6. CASE Write(g)
      <4>1. call'[g].stage = "idle"
        BY <3>6 DEF Write, Return, Idle, TypeOK
      <4> QED BY <4>1
    <3>7. CASE UnredactText(g)
      <4>1. table' = table
        BY <3>7 DEF UnredactText, CallUnredactText, Collect, RestoreText
      <4> QED BY <2>2, <3>7, <4>1, UnredactFacts
    <3> QED BY <1>1, <3>1, <3>2, <3>3, <3>4, <3>5, <3>6, <3>7 DEF GetReplacement
  <2> QED BY <2>3, <2>4, <2>5 DEF Kept
<1>2. CASE Fatal
  BY <1>2 DEF Fatal, Kept, Idle
<1> QED BY <1>1, <1>2 DEF Next

\* The invariant of callers that do not wait.
LEMMA SharedInvariance == ASSUME Table!Ideal PROVE Spec => [](TypeOK /\ Paired /\ Kept)
<1>1. Init => TypeOK /\ Paired /\ Kept
  <2> SUFFICES ASSUME Init PROVE TypeOK /\ Paired /\ Kept
    OBVIOUS
  <2>1. Kept
    BY DEF Init, Kept, At, Stages, Idle
  <2> QED BY <2>1, TypesInitially, PairedInitially
<1>2. TypeOK /\ Paired /\ Kept /\ [Next]_vars => (TypeOK /\ Paired /\ Kept)'
  <2> SUFFICES ASSUME TypeOK, Paired, Kept, [Next]_vars PROVE (TypeOK /\ Paired /\ Kept)'
    OBVIOUS
  <2>1. CASE Next
    BY <2>1, TypesStep, PairedStep, KeptStep
  <2>2. CASE UNCHANGED vars
    BY <2>2 DEF vars, TypeOK, Paired, Asked, Granted, Kept, At, Stages, KeysFor
  <2> QED BY <2>1, <2>2
<1> QED BY <1>1, <1>2, PTL DEF Spec

\* GetReplacement gives a name the replacement it had when the call began,
\* whatever is written between the lookups, unless two goroutines drew one word.
THEOREM KnownNamesAreReused == ASSUME Table!Ideal PROVE Spec => []KnownIsReused
<1>1. TypeOK /\ Kept => KnownIsReused
  <2> SUFFICES ASSUME TypeOK, Kept, NEW g \in Goroutine, ~At(g, "idle"),
                      "known" \in DOMAIN call[g], call[g].known, ~clashed
               PROVE  At(g, "exact")
    BY DEF KnownIsReused
  <2>1. call[g] \in Lookups \union Writes
    BY StageFacts DEF At, Stages, Replacing, Unredacts
  <2> QED BY <2>1 DEF Kept, At, Stages, Lookups, Writes
<1> QED BY <1>1, SharedInvariance, PTL

\* UnredactText gives back the name a word was put there for, though the table
\* may have grown since it collected the keys.
THEOREM TextsAreReadBack == ASSUME Table!Ideal PROVE Spec => []ReadBack
<1>1. Kept => ReadBack
  BY DEF Kept, ReadBack, Restored, At, Stages
<1> QED BY <1>1, SharedInvariance, PTL

\* An entry of the shared map changes its meaning only when two goroutines drew
\* one word between the check of GetReplacement and its write.
THEOREM OnlyClashesRebind == ASSUME Table!Ideal PROVE Spec => OnlyClashRebinds
<1>1. TypeOK /\ Paired /\ [Next]_vars =>
        [\/ clashed'
         \/ Fatal
         \/ \A k \in DOMAIN table : k \in DOMAIN table' /\ table'[k] = table[k]]_vars
  <2> SUFFICES ASSUME TypeOK, Paired, Next, ~clashed', ~Fatal
               PROVE  ExtendedBy(table, table')
    BY DEF ExtendedBy
  <2>1. PICK g \in Goroutine : GetReplacement(g) \/ UnredactText(g)
    BY DEF Next
  <2> QED BY <2>1, Others, WriteKeeps DEF ExtendedBy
<1> QED BY <1>1, SharedInvariance, PTL DEF Spec, OnlyClashRebinds

-----------------------------------------------------------------------------
(***************************************************************************)
(* The number of replacements.                                             *)
(***************************************************************************)

\* The goroutines that look for a name are finitely many.
LEMMA LateFacts ==
  ASSUME NEW o
  PROVE  /\ IsFiniteSet(Late(o)) /\ Cardinality(Late(o)) \in Nat
         /\ Cardinality(Late(o)) <= Cardinality(Goroutine)
<1>1. Late(o) \subseteq Goroutine /\ IsFiniteSet(Goroutine)
  BY ConcurrentAssumption DEF Late
<1> QED BY <1>1, FS_Subset, FS_CardinalityType

\* A set that another one covers, but for one element at most, is no larger
\* than that one and the element.
LEMMA AtMostOneMore ==
  ASSUME NEW S, NEW T, NEW x, IsFiniteSet(S), T \subseteq S \union {x}
  PROVE  /\ IsFiniteSet(T) /\ Cardinality(T) \in Nat /\ Cardinality(S) \in Nat
         /\ Cardinality(T) <= Cardinality(S) + 1
<1>1. /\ IsFiniteSet(S \union {x})
      /\ Cardinality(S \union {x}) \in Nat /\ Cardinality(S) \in Nat
      /\ Cardinality(S \union {x}) <= Cardinality(S) + 1
  BY FS_AddElement, FS_CardinalityType
<1>2. /\ IsFiniteSet(T) /\ Cardinality(T) \in Nat
      /\ Cardinality(T) <= Cardinality(S \union {x})
  BY <1>1, FS_Subset, FS_CardinalityType
<1> QED BY <1>1, <1>2

\* A table the filters start with has one replacement for a name.
LEMMA OneInPrefill ==
  ASSUME Table!Ideal, table \in Prefill, NEW o
  PROVE  IsFiniteSet(KeysFor(o)) /\ Cardinality(KeysFor(o)) <= 1
<1>1. \A k, l \in KeysFor(o) : k = l
  BY IdealFacts DEF KeysFor, PlainKeys
<1>2. CASE KeysFor(o) = {}
  BY <1>2, FS_EmptySet
<1>3. CASE KeysFor(o) # {}
  <2>1. PICK k \in KeysFor(o) : KeysFor(o) = {k}
    BY <1>1, <1>3
  <2> QED BY <2>1, FS_Singleton
<1> QED BY <1>2, <1>3

\* Nobody is in a call, and the table is one of those to start with.
NobodyYet == table \in Prefill /\ \A g \in Goroutine : call[g].stage = "idle"

\* Before anybody has asked there is room for one replacement.
LEMMA CountedAtFirst ==
  ASSUME Table!Ideal, NobodyYet
  PROVE  Counted
<1> SUFFICES ASSUME NEW o \in Original
             PROVE  /\ IsFiniteSet(KeysFor(o))
                    /\ Cardinality(KeysFor(o)) + Cardinality(Late(o)) <= Cardinality(Goroutine)
  BY DEF Counted
<1>1. Late(o) = {} /\ Cardinality(Late(o)) = 0
  BY FS_EmptySet DEF NobodyYet, Late, Stages
<1>2. IsFiniteSet(KeysFor(o)) /\ Cardinality(KeysFor(o)) <= 1 /\ Cardinality(KeysFor(o)) \in Nat
  BY OneInPrefill, FS_CardinalityType DEF NobodyYet
<1>3. Cardinality(Goroutine) \in Nat /\ Cardinality(Goroutine) # 0
  BY ConcurrentAssumption, FS_EmptySet, FS_CardinalityType
<1> QED BY <1>1, <1>2, <1>3

\* Who finds a replacement adds none; who finds none may add one, and is then
\* no longer one of those who may.
LEMMA CountedStep ==
  ASSUME Table!Ideal, TypeOK, Counted, Next
  PROVE  Counted'
<1> USE DEF At, Stages
<1>1. ASSUME NEW g \in Goroutine, GetReplacement(g) \/ UnredactText(g), NEW o \in Original
      PROVE  /\ IsFiniteSet(KeysFor(o)')
             /\ Cardinality(KeysFor(o)') + Cardinality(Late(o)') <= Cardinality(Goroutine)
  <2>1. /\ IsFiniteSet(KeysFor(o)) /\ Cardinality(KeysFor(o)) \in Nat
        /\ IsFiniteSet(Late(o)) /\ Cardinality(Late(o)) \in Nat
        /\ Cardinality(KeysFor(o)) + Cardinality(Late(o)) <= Cardinality(Goroutine)
        /\ Cardinality(Goroutine) \in Nat
    BY LateFacts, FS_CardinalityType, ConcurrentAssumption DEF Counted
  <2>2. CASE LookupExact(g) /\ KeysFor(o) = {}
    <3>1. KeysFor(o)' = {}
      BY <2>2 DEF LookupExact, KeysFor
    <3>2. Cardinality(Late(o)') <= Cardinality(Goroutine) /\ Cardinality(Late(o)') \in Nat
      <4>1. Late(o)' \subseteq Goroutine
        BY DEF Late
      <4> QED BY <4>1, ConcurrentAssumption, FS_Subset, FS_CardinalityType
    <3> QED BY <3>1, <3>2, FS_EmptySet
  <2>3. CASE Write(g) /\ call[g].name = o
    <3>1. IsFiniteSet(KeysFor(o)') /\ Cardinality(KeysFor(o)') \in Nat
          /\ Cardinality(KeysFor(o)') <= Cardinality(KeysFor(o)) + 1
      <4>1. KeysFor(o)' \subseteq KeysFor(o) \union {call[g].word}
        BY <2>3, WriteFacts DEF KeysFor, PlainKeys
      <4> QED BY <2>1, <4>1, AtMostOneMore
    <3>2. Late(o)' \subseteq Late(o) \ {g} /\ g \in Late(o)
      BY <1>1, <2>3, Others DEF Late, Write, Return, Idle, TypeOK
    <3>3. Cardinality(Late(o)') \in Nat /\ Cardinality(Late(o)') <= Cardinality(Late(o)) - 1
      <4>1. IsFiniteSet(Late(o) \ {g}) /\ Cardinality(Late(o) \ {g}) = Cardinality(Late(o)) - 1
        BY <2>1, <3>2, FS_RemoveElement
      <4> QED BY <3>2, <4>1, FS_Subset, FS_CardinalityType
    <3> QED BY <2>1, <3>1, <3>3
  <2>4. CASE ~(LookupExact(g) /\ KeysFor(o) = {}) /\ ~(Write(g) /\ call[g].name = o)
    <3>1. KeysFor(o)' \subseteq KeysFor(o)
      <4>1. CASE Write(g)
        BY <2>4, <4>1, WriteFacts DEF KeysFor, PlainKeys
      <4>2. CASE ~Write(g)
        BY <1>1, <4>2, Others DEF KeysFor, PlainKeys
      <4> QED BY <4>1, <4>2
    <3>2. Late(o)' \subseteq Late(o)
      <4>1. \A h \in Goroutine \ {g} : h \in Late(o)' => h \in Late(o)
        BY <1>1, Others DEF Late
      <4>2. g \in Late(o)' => g \in Late(o)
        <5>1. ASSUME NEW p, NEW full, CallGetReplacement(g, p, full) PROVE g \notin Late(o)'
          BY <5>1, CallFacts DEF Late
        <5>2. CASE LookupExact(g)
          BY <2>4, <5>2, LookupExactFacts DEF Late, SameRequest, Idle, KeysFor, Exact
        <5>3. CASE LookupFolded(g)
          BY <5>3, LookupFoldedFacts DEF Late, SameRequest
        <5>4. CASE Draw(g)
          BY <5>4, DrawFacts DEF Late, SameRequest
        <5>5. CASE Check(g)
          BY <5>5, CheckFacts DEF Late, SameRequest
        <5>6. CASE Write(g)
          BY <5>6 DEF Write, Return, Idle, TypeOK, Late
        <5>7. CASE UnredactText(g)
          BY <5>7, UnredactFacts DEF Late
        <5> QED BY <1>1, <5>1, <5>2, <5>3, <5>4, <5>5, <5>6, <5>7 DEF GetReplacement
      <4> QED BY <4>1, <4>2 DEF Late
    <3>3. /\ IsFiniteSet(KeysFor(o)') /\ Cardinality(KeysFor(o)') \in Nat
          /\ Cardinality(KeysFor(o)') <= Cardinality(KeysFor(o))
      BY <2>1, <3>1, FS_Subset, FS_CardinalityType
    <3>4. Cardinality(Late(o)') \in Nat /\ Cardinality(Late(o)') <= Cardinality(Late(o))
      BY <2>1, <3>2, FS_Subset, FS_CardinalityType
    <3> QED BY <2>1, <3>3, <3>4
  <2> QED BY <2>2, <2>3, <2>4
<1>2. CASE Fatal
  <2>1. NobodyYet'
    BY <1>2 DEF Fatal, NobodyYet, Idle
  <2> QED BY <2>1, CountedAtFirst, PTL
<1> QED BY <1>1, <1>2 DEF Next, Counted

\* However the goroutines interleave in GetReplacement, a name gets no more
\* replacements than there are goroutines, even when words clash.
THEOREM ReplacementsAreFew == ASSUME Table!Ideal PROVE Spec => []FewReplacements
<1>1. Init => Counted
  BY CountedAtFirst DEF Init, NobodyYet, Idle
<1>2. TypeOK /\ Counted /\ [Next]_vars => Counted'
  <2>1. ASSUME UNCHANGED vars, Counted PROVE Counted'
    BY <2>1 DEF vars, Counted, KeysFor, Late, Stages
  <2> QED BY <2>1, CountedStep
<1>3. Counted => FewReplacements
  <2> SUFFICES ASSUME Counted, NEW o \in Original
               PROVE  Cardinality(KeysFor(o)) <= Cardinality(Goroutine)
    BY DEF FewReplacements
  <2>1. /\ Cardinality(KeysFor(o)) \in Nat /\ Cardinality(Late(o)) \in Nat
        /\ Cardinality(Goroutine) \in Nat
        /\ Cardinality(KeysFor(o)) + Cardinality(Late(o)) <= Cardinality(Goroutine)
    BY LateFacts, FS_CardinalityType, ConcurrentAssumption DEF Counted
  <2> QED BY <2>1
<1> QED BY <1>1, <1>2, <1>3, TypeCorrect, PTL DEF Spec
=============================================================================
