----------------------------- MODULE FileStore -----------------------------
(***************************************************************************)
(* A Store in the hands of several goroutines: MapStore, which is gone     *)
(* with the process, or FileStore, which writes its whole map to a file    *)
(* with every Set and reads it when it is opened.  The process may die at  *)
(* any time, also between the truncation of the file and the end of the    *)
(* writing, and creating and writing the file may fail.                    *)
(***************************************************************************)
EXTENDS RWMutex, Naturals, Functions

CONSTANTS Thread, Key, Value,
  MaxSets   \* bound on the calls of Set

ASSUME FileStoreAssumption == NoThread \notin Thread /\ MaxSets \in Nat

VARIABLES
  kind,    \* "map" for MapStore, "file" for FileStore
  up,      \* the store is open
  data,    \* its map: replacement -> original
  file,    \* what is on the disk
  lock,    \* mu
  pc,      \* where each goroutine is
  call,    \* the key and the value of its call of Set
  seen,    \* the pairs its callback has been given
  failed,  \* history: the last save failed
  done,    \* history: the mappings of the calls of Set that have returned and
           \* whose save did not fail
  past,    \* history: the maps that have been in memory
  sets     \* the number of calls of Set

vars == <<kind, up, data, file, lock, pc, call, seen, failed, done, past, sets>>
history == <<failed, done, past>>

Table == UNION {[K -> Value] : K \in SUBSET Key}
NoTable == << >>

NoCall == <<>>

\* No file, an empty one, one that ends too early, and a table.
File == [state : {"none", "empty"}] \union [state : {"torn", "whole"}, table : Table]
Is(state) == [state |-> state]
Whole(m) == [state |-> "whole", table |-> m]
Torn(m) == {[state |-> "torn", table |-> Restrict(m, K)] : K \in SUBSET DOMAIN m}

\* A slip: a torn file is read as far as it goes.
LoadAsFar(f) == {IF f.state \in {"torn", "whole"} THEN f.table ELSE NoTable}

\* A slip: the map is made anew after it was loaded.
LoadNothing(f) == {NoTable}

\* os.Open and Decode: no file and an empty file are no errors, a torn one is,
\* and then there is no map.
Load(f) ==
  CASE f.state = "whole" -> {f.table}
    [] f.state = "torn"  -> {}
    [] OTHER             -> {NoTable}

\* A slip: key and value are mixed up.
AssignedSwapped(m, k, v) == [x \in DOMAIN m \union {v} |-> IF x = v THEN k ELSE m[x]]

Assigned(m, k, v) == [x \in DOMAIN m \union {k} |-> IF x = k THEN v ELSE m[x]]

-----------------------------------------------------------------------------
Init ==
  /\ kind \in {"map", "file"}
  /\ up = FALSE /\ data = NoTable /\ file = Is("none") /\ lock = Unlocked
  /\ pc = [t \in Thread |-> "idle"]
  /\ call = [t \in Thread |-> NoCall]
  /\ seen = [t \in Thread |-> {}]
  /\ failed = FALSE /\ done = NoTable /\ past = {NoTable} /\ sets = 0

Goto(t, there) == pc' = [pc EXCEPT ![t] = there]

\* NewMapStore, NewFileStore.  Without a store nobody calls it.
Open ==
  /\ ~up /\ up' = TRUE
  /\ data' \in IF kind = "file" THEN Load(file) ELSE {NoTable}
  /\ UNCHANGED <<kind, file, lock, pc, call, seen, history, sets>>

\* A file that cannot be read is taken away (external).
Discard ==
  /\ ~up /\ Load(file) = {}
  /\ file' = Is("none")
  /\ UNCHANGED <<kind, up, data, lock, pc, call, seen, history, sets>>

-----------------------------------------------------------------------------
\* Get and Iterate take the lock for reading.
CallGet(t) ==
  /\ up /\ pc[t] = "idle"
  /\ lock' = RLock(lock, t)
  /\ Goto(t, "get")
  /\ UNCHANGED <<kind, up, data, file, call, seen, history, sets>>

CallIterate(t) ==
  /\ up /\ pc[t] = "idle"
  /\ lock' = RLock(lock, t)
  /\ Goto(t, "iterate")
  /\ UNCHANGED <<kind, up, data, file, call, seen, history, sets>>

\* Get returns data[replacement].
ReturnGet(t) ==
  /\ pc[t] = "get" /\ MayRead(lock, t)
  /\ lock' = RUnlock(lock, t)
  /\ Goto(t, "idle")
  /\ UNCHANGED <<kind, up, data, file, call, seen, history, sets>>

\* The callback is given the next pair.
Visit(t, k) ==
  /\ pc[t] = "iterate" /\ MayRead(lock, t)
  /\ k \in DOMAIN data /\ k \notin {p[1] : p \in seen[t]}
  /\ seen' = [seen EXCEPT ![t] = @ \union {<<k, data[k]>>}]
  /\ UNCHANGED <<kind, up, data, file, lock, pc, call, history, sets>>

\* All pairs were visited, or the callback returned false after one.
ReturnIterate(t) ==
  /\ pc[t] = "iterate" /\ MayRead(lock, t)
  /\ seen[t] # {} \/ data = NoTable
  /\ lock' = RUnlock(lock, t)
  /\ Goto(t, "idle")
  /\ seen' = [seen EXCEPT ![t] = {}]
  /\ UNCHANGED <<kind, up, data, file, call, history, sets>>

-----------------------------------------------------------------------------
\* Set takes the lock: it announces itself when no other writer is there.
CallSet(t, k, v) ==
  /\ up /\ pc[t] = "idle" /\ sets < MaxSets
  /\ call' = [call EXCEPT ![t] = <<k, v>>]
  /\ sets' = sets + 1
  /\ Goto(t, "set")
  /\ UNCHANGED <<kind, up, data, file, lock, seen, history>>

AnnounceSet(t) ==
  /\ pc[t] = "set" /\ lock.writer = NoThread
  /\ lock' = Announce(lock, t)
  /\ Goto(t, "assign")
  /\ UNCHANGED <<kind, up, data, file, call, seen, history, sets>>

\* s.data[replacement] = original
Assign(t) ==
  /\ pc[t] = "assign" /\ MayWrite(lock, t)
  /\ data' = Assigned(data, call[t][1], call[t][2])
  /\ past' = past \union {data'}
  /\ Goto(t, IF kind = "file" THEN "create" ELSE "unlock")
  /\ UNCHANGED <<kind, up, file, lock, call, seen, failed, done, sets>>

\* os.Create truncates the file, or fails.
Create(t) ==
  /\ pc[t] = "create"
  /\ \/ file' = Is("empty") /\ Goto(t, "encode") /\ UNCHANGED failed
     \/ failed' = TRUE /\ Goto(t, "unlock") /\ UNCHANGED file
  /\ UNCHANGED <<kind, up, data, lock, call, seen, done, past, sets>>

\* Encode writes the whole table, or fails before or within.
Encode(t) ==
  /\ pc[t] = "encode"
  /\ \/ file' = Whole(data) /\ failed' = FALSE
     \/ file' \in {file} \union Torn(data) /\ failed' = TRUE
  /\ Goto(t, "unlock")
  /\ UNCHANGED <<kind, up, data, lock, call, seen, done, past, sets>>

\* Set returns, whatever became of the file.
ReturnSet(t) ==
  /\ pc[t] = "unlock"
  /\ lock' = Unlock(lock)
  /\ done' = IF failed THEN done ELSE Assigned(done, call[t][1], call[t][2])
  /\ Goto(t, "idle")
  /\ call' = [call EXCEPT ![t] = NoCall]
  /\ UNCHANGED <<kind, up, data, file, seen, failed, past, sets>>

\* The process dies.  What was being written may be there, in part or not at all.
Crash ==
  /\ up
  /\ file' \in IF \E t \in Thread : pc[t] = "encode"
               THEN {file, Whole(data)} \union Torn(data) ELSE {file}
  /\ up' = FALSE /\ data' = NoTable /\ lock' = Unlocked
  /\ pc' = [t \in Thread |-> "idle"]
  /\ seen' = [t \in Thread |-> {}]
  /\ call' = [t \in Thread |-> NoCall]
  /\ failed' = FALSE
  /\ UNCHANGED <<kind, done, past, sets>>

Get(t) == CallGet(t) \/ ReturnGet(t)
Iterate(t) == CallIterate(t) \/ (\E k \in Key : Visit(t, k)) \/ ReturnIterate(t)
Set(t) ==
  \/ \E k \in Key, v \in Value : CallSet(t, k, v)
  \/ AnnounceSet(t) \/ Assign(t) \/ Create(t) \/ Encode(t) \/ ReturnSet(t)

Next ==
  \/ Open \/ Discard \/ Crash
  \/ \E t \in Thread : Get(t) \/ Iterate(t) \/ Set(t)

Spec == Init /\ [][Next]_vars

\* A goroutine inside a call goes on when it can, and Go's mutex hands itself to
\* the writer that has waited longest.
Inside(t) ==
  \/ ReturnGet(t) \/ (\E k \in Key : Visit(t, k)) \/ ReturnIterate(t)
  \/ Assign(t) \/ Create(t) \/ Encode(t) \/ ReturnSet(t)

Fairness == \A t \in Thread : WF_vars(Inside(t)) /\ SF_vars(AnnounceSet(t))

FairSpec == Spec /\ Fairness
-----------------------------------------------------------------------------
(***************************************************************************)
(* Properties                                                              *)
(***************************************************************************)

\* The variables have their types; in particular an open store has a map.
TypeOK ==
  /\ kind \in {"map", "file"} /\ up \in BOOLEAN
  /\ data \in Table /\ done \in Table /\ past \subseteq Table
  /\ file \in File
  /\ lock \in Lock(Thread)
  /\ pc \in [Thread -> {"idle", "get", "iterate", "set", "assign", "create", "encode", "unlock"}]
  /\ call \in [Thread -> (Key \X Value) \union {NoCall}]
  /\ \A t \in Thread : seen[t] \subseteq Key \X Value
  /\ failed \in BOOLEAN /\ sets \in 0 .. MaxSets

\* What a store has after it was opened is a map that was in memory once, as a
\* whole, through any number of crashes and failed saves: no mixture of two
\* maps and no part of one.
AllOrNothing == up => data \in past

\* When nobody is in Set and the last save did not fail, a store opened now
\* would have the same map.
FileAgrees ==
  kind = "file" /\ up /\ lock.writer = NoThread /\ ~failed =>
    Load(file) = {data}

\* A callback is given pairs of one map: none of them is changed or taken away
\* before the iteration ends.
SeenTogether ==
  \A t \in Thread : \A p \in seen[t] : p[1] \in DOMAIN data /\ data[p[1]] = p[2]

\* Every call returns, unless the process dies.
CallsReturn == \A t \in Thread : pc[t] # "idle" ~> pc[t] = "idle"

\* Set persists a mapping to disk (its comment): an open store has every
\* mapping of a call of Set that returned after it was saved, once all is quiet.
SetPersists ==
  kind = "file" /\ up /\ (\A t \in Thread : pc[t] = "idle") =>
    \A k \in DOMAIN done : k \in DOMAIN data /\ data[k] = done[k]
=============================================================================
