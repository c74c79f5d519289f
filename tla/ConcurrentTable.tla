-------------------------- MODULE ConcurrentTable --------------------------
(***************************************************************************)
(* The replacement table in the hands of several goroutines, as when an    *)
(* agent serves sessions at the same time: filter.GetReplacement and       *)
(* filter.UnredactText access by access, on a map without a lock.          *)
(*                                                                         *)
(* An iteration over the map that another goroutine writes to meets the    *)
(* new entry or misses it, as if it had come before or after the write.    *)
(* Where two accesses overlap and one is a write, Go's run time may also   *)
(* end the process; the next one starts from its table.                    *)
(***************************************************************************)
EXTENDS Replacement, Suffix, FiniteSets

CONSTANTS
  Goroutine,
  Original, Inputs, Prefill  \* as in ReplacementTable

ASSUME ConcurrentAssumption ==
  /\ IsFiniteSet(Goroutine) /\ Goroutine # {}
  /\ Original \subseteq {w \in Word : w.tld = NoTld}
  /\ \A full \in Inputs : full \subseteq Word
  /\ \A m \in Prefill : DOMAIN m \subseteq Word /\ \A k \in DOMAIN m : m[k] \in Word

VARIABLES
  table,    \* the shared map: replacement -> original
  handed,   \* history: the pairs <<original, replacement>> put into texts
  call,     \* [Goroutine -> Call]
  turns,    \* whether the callers see to it that calls do not overlap
  clashed   \* history: two goroutines drew one word for two names

vars == <<table, handed, call, turns, clashed>>

Table == INSTANCE ReplacementTable

\* stage  what the goroutine does next
\* name   the name to replace (for UnredactText: what its word was put for)
\* full   the full input
\* word   the generated or re-cased word (for UnredactText: the word to restore)
\* keys   the keys UnredactText has collected
\* known  history: whether the table had a replacement when the call began
\* fresh  history: whether no key was spelt like the word when it was drawn
Idle == [stage |-> "idle"]
Lookups == [stage : {"exact", "folded", "draw"}, name : Word, full : Inputs, known : BOOLEAN]
Writes == [stage : {"check", "write"}, name : Word, full : Inputs, known : BOOLEAN,
           word : Word, fresh : BOOLEAN]
Unredacts == [stage : {"collect", "restore"}, name : Word, word : Word, keys : SUBSET Word]
Call == {Idle} \union Lookups \union Writes \union Unredacts

Init ==
  /\ table \in Prefill
  /\ handed = {}
  /\ call = [g \in Goroutine |-> Idle]
  /\ turns \in BOOLEAN
  /\ clashed = FALSE

-----------------------------------------------------------------------------
At(g, stage) == call[g].stage = stage

\* A slip: the callers only mind calls of their own kind.
MayCallBeside(g) == At(g, "idle")

MayCall(g) == At(g, "idle") /\ (turns => \A h \in Goroutine : At(h, "idle"))

Goto(g, stage) == call' = [call EXCEPT ![g].stage = stage]

Return(g) == call' = [call EXCEPT ![g] = Idle]

\* What a name has been replaced by.
KeysFor(o) == {k \in PlainKeys(table) : table[k] = o}

CallGetReplacement(g, o, full) ==
  /\ MayCall(g)
  /\ call' = [call EXCEPT ![g] = [stage |-> "exact", name |-> o, full |-> full,
                                  known |-> KeysFor(o) # {}]]
  /\ UNCHANGED <<table, handed, turns, clashed>>

\* A slip: the table is not searched.
SkipLookups(g) == At(g, "exact") /\ Goto(g, "draw") /\ UNCHANGED <<table, handed, turns, clashed>>

\* The first loop over the map.
LookupExact(g) ==
  LET o == call[g].name IN
  /\ At(g, "exact")
  /\ \/ /\ Exact(table, o) = {}
        /\ Goto(g, "folded")
        /\ UNCHANGED handed
     \/ \E r \in Exact(table, o) :
          /\ handed' = handed \union {<<o, r>>}
          /\ Return(g)
  /\ UNCHANGED <<table, turns, clashed>>

\* The second loop, up to the write.
LookupFolded(g) ==
  LET o == call[g].name IN
  /\ At(g, "folded")
  /\ \/ Folded(table, o) = {} /\ Goto(g, "draw")
     \/ \E k \in Folded(table, o) :
          call' = [call EXCEPT ![g] = [stage |-> "write", name |-> o, full |-> call[g].full,
                     known |-> call[g].known, word |-> MatchCasing(o, k), fresh |-> FALSE]]
  /\ UNCHANGED <<table, handed, turns, clashed>>

\* A word is generated.
Draw(g) ==
  LET o == call[g].name IN
  /\ At(g, "draw")
  /\ \E r \in Generated(table, o) :
       call' = [call EXCEPT ![g] = [stage |-> "check", name |-> o, full |-> call[g].full,
                  known |-> call[g].known, word |-> r,
                  fresh |-> \A k \in PlainKeys(table) : k.stem # r.stem]]
  /\ UNCHANGED <<table, handed, turns, clashed>>

\* A slip: the word is compared with the input only.
NotInInput(g) == call[g].word \notin call[g].full

Acceptable(g) == call[g].word \notin call[g].full /\ call[g].word \notin DOMAIN table

\* A slip: the word that was refused is kept.
CheckAndKeep(g) ==
  /\ At(g, "check")
  /\ Goto(g, IF Acceptable(g) THEN "write" ELSE "draw")
  /\ UNCHANGED <<table, handed, turns, clashed>>

\* The word is taken, or the loop begins anew.
Check(g) ==
  /\ At(g, "check")
  /\ IF Acceptable(g)
     THEN Goto(g, "write")
     ELSE call' = [call EXCEPT ![g] = [stage |-> "draw", name |-> call[g].name,
                     full |-> call[g].full, known |-> call[g].known]]
  /\ UNCHANGED <<table, handed, turns, clashed>>

\* Another goroutine has drawn a word of this spelling since, for another name.
Clashes(g) ==
  /\ call[g].fresh
  /\ \E k \in PlainKeys(table) :
       k.stem = call[g].word.stem /\ ~SameFold(table[k], call[g].name)

\* The entry is written.
Write(g) ==
  LET o == call[g].name
      r == call[g].word
  IN  /\ At(g, "write")
      /\ table' = Put(table, r, o)
      /\ handed' = handed \union {<<o, r>>}
      /\ clashed' = (clashed \/ Clashes(g))
      /\ Return(g)
      /\ UNCHANGED turns

-----------------------------------------------------------------------------
\* A text with a word that was put there for a name comes back.
CallUnredactText(g, pair) ==
  /\ MayCall(g)
  /\ call' = [call EXCEPT ![g] = [stage |-> "collect", name |-> pair[1], word |-> pair[2],
                                  keys |-> {}]]
  /\ UNCHANGED <<table, handed, turns, clashed>>

\* A slip: only keys in lower case are collected.
LowerKeys == {k \in DOMAIN table : k.caps = {}}

KeysOf == DOMAIN table

\* The keys are collected for the regular expression.
Collect(g) ==
  /\ At(g, "collect")
  /\ call' = [call EXCEPT ![g].stage = "restore", ![g].keys = KeysOf]
  /\ UNCHANGED <<table, handed, turns, clashed>>

\* What a match of the expression is replaced by: the map is asked again.
Restored(g) ==
  IF call[g].word \in call[g].keys THEN table[call[g].word] ELSE call[g].word

RestoreText(g) ==
  /\ At(g, "restore")
  /\ Return(g)
  /\ UNCHANGED <<table, handed, turns, clashed>>

-----------------------------------------------------------------------------
Accesses(g) == ~At(g, "idle") /\ ~At(g, "draw")

\* "concurrent map writes", "concurrent map iteration and map write"
Fatal ==
  /\ \E g, h \in Goroutine : g # h /\ At(g, "write") /\ Accesses(h)
  /\ table' \in Prefill
  /\ handed' = {}
  /\ call' = [g \in Goroutine |-> Idle]
  /\ clashed' = FALSE
  /\ UNCHANGED turns

GetReplacement(g) ==
  \/ \E o \in Original : \E full \in Table!FullInputs(o) : CallGetReplacement(g, o, full)
  \/ LookupExact(g) \/ LookupFolded(g) \/ Draw(g) \/ Check(g) \/ Write(g)

UnredactText(g) ==
  \/ \E pair \in handed : CallUnredactText(g, pair)
  \/ Collect(g) \/ RestoreText(g)

Next == (\E g \in Goroutine : GetReplacement(g) \/ UnredactText(g)) \/ Fatal

Spec == Init /\ [][Next]_vars

-----------------------------------------------------------------------------
(***************************************************************************)
(* Properties                                                              *)
(***************************************************************************)

\* The table maps names to names, and a call holds what its stage needs.
TypeOK ==
  /\ DOMAIN table \subseteq Word /\ \A k \in DOMAIN table : table[k] \in Word
  /\ handed \subseteq Word \X Word
  /\ call \in [Goroutine -> Call]
  /\ turns \in BOOLEAN /\ clashed \in BOOLEAN

\* If the callers take turns, the steps of a call add up to one step of
\* ReplacementTable, whose properties then hold, and the process lives on.
TurnsImplementTable ==
  [][turns => Table!Next \/ UNCHANGED Table!vars]_vars

\* Without a lock a name can get several replacements, but not more than there
\* are goroutines: each adds at most one, before it sees the first.
FewReplacements ==
  \A o \in Original : Cardinality(KeysFor(o)) <= Cardinality(Goroutine)

\* A name that has a replacement when the call begins gets no other one,
\* whatever the other goroutines do.
KnownIsReused ==
  \A g \in Goroutine :
    ~At(g, "idle") /\ "known" \in DOMAIN call[g] /\ call[g].known => At(g, "exact") \/ clashed

\* An entry changes its meaning only where two goroutines drew one word
\* between the check and the write; a word that is re-cased never does it.
OnlyClashRebinds ==
  [][\/ clashed'
     \/ Fatal
     \/ \A k \in DOMAIN table : k \in DOMAIN table' /\ table'[k] = table[k]]_vars

\* A text that was redacted before the call comes back with the name it had,
\* though keys are collected and looked up at different times.
ReadBack ==
  \A g \in Goroutine : At(g, "restore") => clashed \/ Restored(g) = call[g].name
=============================================================================
