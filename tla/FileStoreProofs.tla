-------------------------- MODULE FileStoreProofs --------------------------
(***************************************************************************)
(* What a store promises to any number of goroutines, for every set of     *)
(* keys and values and every sequence of crashes and failed saves.         *)
(*                                                                         *)
(* The argument: Discipline says who holds the lock where in its call, so  *)
(* that nobody is within an iteration when the map changes; Memory says    *)
(* that whatever is in memory or whole on the disk was in memory once; and *)
(* Disk says that the file is the map except while it is being written and *)
(* after a save that failed.  Each needs the one before it.                *)
(***************************************************************************)
EXTENDS FileStore, TLAPS

-----------------------------------------------------------------------------
(***************************************************************************)
(* The inductive invariant.                                                *)
(***************************************************************************)

Writing == {"assign", "create", "encode", "unlock"}

\* The type invariant, and that seen is a function.
Types == TypeOK /\ seen \in [Thread -> SUBSET (Key \X Value)]

\* Who has announced itself is the one goroutine between Lock and Unlock, it
\* knows what it is there to set, who has been given a pair is a reader inside,
\* and without a process nobody is anywhere.
Discipline ==
  /\ \A t \in Thread : pc[t] \in Writing <=> lock.writer = t
  /\ \A t \in Thread : pc[t] \in Writing \union {"set"} => call[t] \in Key \X Value
  /\ \A t \in Thread : seen[t] # {} => t \in lock.readers /\ pc[t] = "iterate"
  /\ ~up => /\ lock = Unlocked /\ ~failed
            /\ \A t \in Thread : pc[t] = "idle" /\ seen[t] = {}

\* What is in memory, and what is whole on the disk, was in memory once.
Memory ==
  /\ NoTable \in past
  /\ up => data \in past
  /\ file.state = "whole" => file.table \in past

\* The file is the map, unless it is being written or the last save failed.
Disk ==
  kind = "file" /\ up /\ ~failed /\ (\A t \in Thread : pc[t] \notin {"create", "encode"}) =>
    Load(file) = {data}

IInv == Types /\ Discipline /\ Memory /\ Disk /\ SeenTogether

-----------------------------------------------------------------------------
(***************************************************************************)
(* Lemmas about maps and files.                                            *)
(***************************************************************************)

\* A function from some keys to values is a map.
LEMMA TableIntro ==
  ASSUME NEW K \in SUBSET Key, NEW m \in [K -> Value]
  PROVE  m \in Table
BY DEF Table

\* A map is a function from the keys it has to values.
LEMMA TableElim ==
  ASSUME NEW m \in Table
  PROVE  /\ DOMAIN m \in SUBSET Key
         /\ m \in [DOMAIN m -> Value]
BY DEF Table

\* The map of a new store is a map without keys.
LEMMA NoTableFact == NoTable \in Table /\ DOMAIN NoTable = {}
<1>1. NoTable \in [{} -> Value] /\ DOMAIN NoTable = {}
  BY DEF NoTable
<1> QED BY <1>1, TableIntro

\* data[k] = v on a map gives a map with k, which keeps the other entries.
LEMMA AssignedFact ==
  ASSUME NEW m \in Table, NEW k \in Key, NEW v \in Value
  PROVE  Assigned(m, k, v) \in Table
<1>1. Assigned(m, k, v) \in [DOMAIN m \union {k} -> Value]
  BY TableElim DEF Assigned
<1>2. DOMAIN m \union {k} \in SUBSET Key
  BY TableElim
<1> QED BY <1>1, <1>2, TableIntro

\* What is on the disk is a whole table, which is read, a torn one, which cannot
\* be, or nothing.
LEMMA LoadCases ==
  ASSUME NEW f
  PROVE  /\ f.state = "whole" => Load(f) = {f.table}
         /\ f.state = "torn" => Load(f) = {}
         /\ f.state \notin {"whole", "torn"} => Load(f) = {NoTable}
BY Zenon DEF Load

\* A file that was written as a whole is read as what was written.
LEMMA WholeFact ==
  ASSUME NEW m \in Table
  PROVE  /\ Whole(m) \in File
         /\ Whole(m).state = "whole" /\ Whole(m).table = m
         /\ Load(Whole(m)) = {m}
BY LoadCases DEF Whole, File

\* A file that was cut off cannot be read.
LEMMA TornFact ==
  ASSUME NEW m \in Table, NEW f \in Torn(m)
  PROVE  f \in File /\ f.state = "torn" /\ Load(f) = {}
<1>1. PICK K \in SUBSET DOMAIN m : f = [state |-> "torn", table |-> Restrict(m, K)]
  BY DEF Torn
<1>2. K \in SUBSET Key /\ Restrict(m, K) \in [K -> Value]
  BY TableElim DEF Restrict
<1>3. Restrict(m, K) \in Table
  BY <1>2, TableIntro
<1> QED BY <1>1, <1>3, LoadCases DEF File

\* A file without contents is read as no map.
LEMMA IsFact ==
  ASSUME NEW s \in {"none", "empty"}
  PROVE  Is(s) \in File /\ Is(s).state = s /\ Load(Is(s)) = {NoTable}
BY LoadCases DEF Is, File

\* What is read from a file is the one map it can be read as: the map that was
\* written, or none.
LEMMA LoadFact ==
  ASSUME NEW f \in File, NEW m \in Load(f)
  PROVE  /\ m \in Table
         /\ Load(f) = {m}
         /\ m = NoTable \/ (f.state = "whole" /\ m = f.table)
BY NoTableFact, LoadCases DEF File

-----------------------------------------------------------------------------
(***************************************************************************)
(* The invariant is inductive: one lemma for each part.                    *)
(***************************************************************************)

LEMMA Initially == Init => IInv
<1> SUFFICES ASSUME Init PROVE IInv
  OBVIOUS
<1>1. file \in File /\ file.state = "none"
  BY IsFact DEF Init
<1>2. Types
  <2>1. lock \in Lock(Thread)
    BY DEF Init, Lock, Unlocked
  <2>2. sets \in 0 .. MaxSets
    BY FileStoreAssumption DEF Init
  <2>3. past \subseteq Table
    BY NoTableFact DEF Init
  <2> QED BY <1>1, <2>1, <2>2, <2>3, NoTableFact DEF Init, Types, TypeOK
<1>3. Discipline
  BY FileStoreAssumption DEF Init, Discipline, Writing, Unlocked
<1>4. Memory /\ Disk /\ SeenTogether
  BY <1>1 DEF Init, Memory, Disk, SeenTogether
<1> QED BY <1>2, <1>3, <1>4 DEF IInv

\* Every step leaves the variables with their types: what is read from a file
\* is a map, and what is written to one is a file.
LEMMA TypesStep ==
  ASSUME Types, Discipline, Next
  PROVE  Types'
<1> USE DEF Types, TypeOK, Goto, history
<1>1. CASE Open
  BY <1>1, LoadFact, NoTableFact DEF Open
<1>2. CASE Discard
  BY <1>2, IsFact DEF Discard
<1>3. CASE Crash
  <2>1. file' \in File
    <3>1. Torn(data) \subseteq File /\ Whole(data) \in File
      BY TornFact, WholeFact
    <3> QED BY <1>3, <3>1 DEF Crash
  <2> QED BY <1>3, <2>1, NoTableFact DEF Crash, Lock, Unlocked
<1>4. ASSUME NEW t \in Thread, Get(t) \/ Iterate(t) PROVE Types'
  <2>1. RLock(lock, t) \in Lock(Thread) /\ RUnlock(lock, t) \in Lock(Thread)
    BY DEF Lock, RLock, RUnlock
  <2>2. CASE CallGet(t) \/ CallIterate(t)
    BY <2>1, <2>2 DEF CallGet, CallIterate
  <2>3. CASE ReturnGet(t)
    BY <2>1, <2>3 DEF ReturnGet
  <2>4. ASSUME NEW k \in Key, Visit(t, k) PROVE Types'
    <3>1. <<k, data[k]>> \in Key \X Value
      BY <2>4, TableElim DEF Visit
    <3> QED BY <2>4, <3>1 DEF Visit
  <2>5. CASE ReturnIterate(t)
    BY <2>1, <2>5 DEF ReturnIterate
  <2> QED BY <1>4, <2>2, <2>3, <2>4, <2>5 DEF Get, Iterate
<1>5. ASSUME NEW t \in Thread, Set(t) PROVE Types'
  <2>1. ASSUME NEW k \in Key, NEW v \in Value, CallSet(t, k, v) PROVE Types'
    BY <2>1, FileStoreAssumption DEF CallSet
  <2>2. CASE AnnounceSet(t)
    BY <2>2 DEF AnnounceSet, Announce, Lock
  <2>3. CASE Assign(t)
    <3>1. Assigned(data, call[t][1], call[t][2]) \in Table
      BY <2>3, AssignedFact DEF Assign, Discipline, Writing
    <3> QED BY <2>3, <3>1 DEF Assign
  <2>4. CASE Create(t)
    BY <2>4, IsFact DEF Create
  <2>5. CASE Encode(t)
    <3>1. Torn(data) \subseteq File /\ Whole(data) \in File
      BY TornFact, WholeFact
    <3> QED BY <2>5, <3>1 DEF Encode
  <2>6. CASE ReturnSet(t)
    <3>1. Assigned(done, call[t][1], call[t][2]) \in Table
      BY <2>6, AssignedFact DEF ReturnSet, Discipline, Writing
    <3>2. Unlock(lock) \in Lock(Thread)
      BY DEF Unlock, Unlocked, Lock
    <3> QED BY <2>6, <3>1, <3>2 DEF ReturnSet
  <2> QED BY <1>5, <2>1, <2>2, <2>3, <2>4, <2>5, <2>6 DEF Set
<1> QED BY <1>1, <1>2, <1>3, <1>4, <1>5 DEF Next

\* What the operations of the mutex do to who is inside and who has announced
\* itself.
LEMMA LockFacts ==
  ASSUME NEW l \in Lock(Thread), NEW t \in Thread
  PROVE  /\ RLock(l, t).writer = l.writer
         /\ l.readers \subseteq RLock(l, t).readers
         /\ RUnlock(l, t).writer = l.writer
         /\ RUnlock(l, t).readers = l.readers \ {t}
         /\ Announce(l, t).writer = t
         /\ Announce(l, t).readers = l.readers
         /\ Unlock(l).writer = NoThread
         /\ l.readers \subseteq Unlock(l).readers
BY DEF Lock, RLock, RUnlock, Announce, Unlock, Unlocked

\* The lock is where the program counters say it is: a writer is let in only
\* when there is none, and only Unlock and the end of the process let it out.
LEMMA DisciplineStep ==
  ASSUME Types, Discipline, Next
  PROVE  Discipline'
<1> USE FileStoreAssumption DEF Types, TypeOK, Discipline, Writing, Goto, history
<1>1. CASE Open
  BY <1>1 DEF Open
<1>2. CASE Discard
  BY <1>2 DEF Discard
<1>3. CASE Crash
  BY <1>3 DEF Crash, Unlocked
<1>4. ASSUME NEW t \in Thread, Get(t) \/ Iterate(t) PROVE Discipline'
  <2>1. CASE CallGet(t) \/ CallIterate(t)
    BY <2>1, LockFacts DEF CallGet, CallIterate
  <2>2. CASE ReturnGet(t)
    BY <2>2, LockFacts DEF ReturnGet
  <2>3. ASSUME NEW k \in Key, Visit(t, k) PROVE Discipline'
    BY <2>3 DEF Visit, MayRead
  <2>4. CASE ReturnIterate(t)
    BY <2>4, LockFacts DEF ReturnIterate
  <2> QED BY <1>4, <2>1, <2>2, <2>3, <2>4 DEF Get, Iterate
<1>5. ASSUME NEW t \in Thread, Set(t) PROVE Discipline'
  <2>1. ASSUME NEW k \in Key, NEW v \in Value, CallSet(t, k, v) PROVE Discipline'
    BY <2>1 DEF CallSet
  <2>2. CASE AnnounceSet(t)
    BY <2>2, LockFacts DEF AnnounceSet
  <2>3. CASE Assign(t)
    BY <2>3 DEF Assign
  <2>4. CASE Create(t)
    BY <2>4 DEF Create
  <2>5. CASE Encode(t)
    BY <2>5 DEF Encode
  <2>6. CASE ReturnSet(t)
    BY <2>6, LockFacts DEF ReturnSet
  <2> QED BY <1>5, <2>1, <2>2, <2>3, <2>4, <2>5, <2>6 DEF Set
<1> QED BY <1>1, <1>2, <1>3, <1>4, <1>5 DEF Next

\* A map comes into memory by Set, which past records, or from a file, which
\* has only what was in memory.
LEMMA MemoryStep ==
  ASSUME Types, Discipline, Memory, Next
  PROVE  Memory'
<1> USE DEF Memory, history
<1>1. CASE Open
  <2>1. data' \in past
    BY <1>1, LoadFact DEF Open, Types, TypeOK
  <2> QED BY <1>1, <2>1 DEF Open
<1>2. CASE Discard
  BY <1>2, IsFact DEF Discard
<1>3. CASE Crash
  <2>1. file'.state = "whole" => file'.table \in past
    BY <1>3, TornFact, WholeFact DEF Crash, Types, TypeOK
  <2> QED BY <1>3, <2>1 DEF Crash
<1>4. ASSUME NEW t \in Thread, Get(t) \/ Iterate(t) PROVE Memory'
  BY <1>4 DEF Get, Iterate, CallGet, CallIterate, ReturnGet, Visit, ReturnIterate
<1>5. ASSUME NEW t \in Thread, Set(t) PROVE Memory'
  <2>1. CASE (\E k \in Key, v \in Value : CallSet(t, k, v)) \/ AnnounceSet(t) \/ ReturnSet(t)
    BY <2>1 DEF CallSet, AnnounceSet, ReturnSet
  <2>2. CASE Assign(t)
    BY <2>2 DEF Assign
  <2>3. CASE Create(t)
    BY <2>3, IsFact DEF Create
  <2>4. CASE Encode(t)
    <3>1. up
      BY <2>4 DEF Encode, Discipline
    <3>2. file'.state = "whole" => file'.table \in past
      BY <2>4, <3>1, TornFact, WholeFact DEF Encode, Types, TypeOK
    <3> QED BY <2>4, <3>2 DEF Encode
  <2> QED BY <1>5, <2>1, <2>2, <2>3, <2>4 DEF Set
<1> QED BY <1>1, <1>2, <1>3, <1>4, <1>5 DEF Next

\* The map changes on the way to the file, which is then written, or the save
\* is known to have failed.
LEMMA DiskStep ==
  ASSUME Types, Discipline, Disk, Next
  PROVE  Disk'
<1> USE DEF Types, TypeOK, Disk, Goto, history
<1>1. CASE Open
  BY <1>1, LoadFact DEF Open
<1>2. CASE Discard \/ Crash
  BY <1>2 DEF Discard, Crash
<1>3. ASSUME NEW t \in Thread, Get(t) \/ Iterate(t) PROVE Disk'
  <2>1. \A u \in Thread : pc'[u] \in {"create", "encode"} <=> pc[u] \in {"create", "encode"}
    BY <1>3 DEF Get, Iterate, CallGet, CallIterate, ReturnGet, Visit, ReturnIterate
  <2>2. UNCHANGED <<kind, up, failed, file, data>>
    BY <1>3 DEF Get, Iterate, CallGet, CallIterate, ReturnGet, Visit, ReturnIterate
  <2> QED BY <2>1, <2>2
<1>4. ASSUME NEW t \in Thread, Set(t) PROVE Disk'
  <2>1. CASE (\E k \in Key, v \in Value : CallSet(t, k, v)) \/ AnnounceSet(t) \/ ReturnSet(t)
    <3>1. \A u \in Thread : pc'[u] \in {"create", "encode"} <=> pc[u] \in {"create", "encode"}
      BY <2>1 DEF CallSet, AnnounceSet, ReturnSet
    <3>2. UNCHANGED <<kind, up, failed, file, data>>
      BY <2>1 DEF CallSet, AnnounceSet, ReturnSet
    <3> QED BY <3>1, <3>2
  <2>2. CASE Assign(t)
    BY <2>2 DEF Assign
  <2>3. CASE Create(t)
    BY <2>3 DEF Create
  <2>4. CASE Encode(t)
    BY <2>4, WholeFact DEF Encode
  <2> QED BY <1>4, <2>1, <2>2, <2>3, <2>4 DEF Set
<1> QED BY <1>1, <1>2, <1>3, <1>4 DEF Next

\* The map changes only when no reader is inside, and then no callback has
\* been given anything.
LEMMA SeenStep ==
  ASSUME Types, Discipline, SeenTogether, Next
  PROVE  SeenTogether'
<1> USE DEF Types, TypeOK, SeenTogether, Goto, history
<1>1. CASE Open
  BY <1>1 DEF Open, Discipline
<1>2. CASE Discard \/ Crash
  BY <1>2 DEF Discard, Crash
<1>3. ASSUME NEW t \in Thread, Get(t) \/ Iterate(t) PROVE SeenTogether'
  <2>1. CASE CallGet(t) \/ CallIterate(t) \/ ReturnGet(t) \/ ReturnIterate(t)
    BY <2>1 DEF CallGet, CallIterate, ReturnGet, ReturnIterate
  <2>2. ASSUME NEW k \in Key, Visit(t, k) PROVE SeenTogether'
    BY <2>2 DEF Visit
  <2> QED BY <1>3, <2>1, <2>2 DEF Get, Iterate
<1>4. ASSUME NEW t \in Thread, Set(t) PROVE SeenTogether'
  <2>1. CASE Assign(t)
    <3>1. \A u \in Thread : seen[u] = {}
      BY <2>1 DEF Assign, MayWrite, Discipline
    <3> QED BY <2>1, <3>1 DEF Assign
  <2>2. CASE ~Assign(t)
    BY <1>4, <2>2 DEF Set, CallSet, AnnounceSet, Create, Encode, ReturnSet
  <2> QED BY <2>1, <2>2
<1> QED BY <1>1, <1>2, <1>3, <1>4 DEF Next

\* The inductive invariant, taken together.
LEMMA Invariance == Spec => []IInv
<1>1. IInv /\ [Next]_vars => IInv'
  <2> SUFFICES ASSUME IInv, [Next]_vars PROVE IInv'
    OBVIOUS
  <2>1. CASE Next
    BY <2>1, TypesStep, DisciplineStep, MemoryStep, DiskStep, SeenStep DEF IInv
  <2>2. CASE UNCHANGED vars
    BY <2>2 DEF vars, IInv, Types, TypeOK, Discipline, Memory, Disk, SeenTogether
  <2> QED BY <2>1, <2>2
<1> QED BY Initially, <1>1, PTL DEF Spec

-----------------------------------------------------------------------------
(***************************************************************************)
(* The theorems.                                                           *)
(***************************************************************************)

\* The variables of the store keep their types, whatever the goroutines do and
\* wherever the process dies; an open store always has a map.
THEOREM TypeCorrect == Spec => []TypeOK
<1>1. IInv => TypeOK
  BY DEF IInv, Types
<1> QED BY Invariance, <1>1, PTL

\* What NewFileStore reads is a map that Set had built, as a whole, however
\* often the process died between os.Create and the end of Encode.
THEOREM AllOrNothingHolds == Spec => []AllOrNothing
<1>1. IInv => AllOrNothing
  BY DEF IInv, Memory, AllOrNothing
<1> QED BY Invariance, <1>1, PTL

\* When nobody is in Set and the last save did not fail, the file holds the map
\* that is in memory.
THEOREM FileAgreesHolds == Spec => []FileAgrees
<1>1. IInv => FileAgrees
  <2> SUFFICES ASSUME IInv, kind = "file", up, lock.writer = NoThread, ~failed
               PROVE  Load(file) = {data}
    BY DEF FileAgrees
  <2>1. \A t \in Thread : pc[t] \notin {"create", "encode"}
    BY FileStoreAssumption DEF IInv, Discipline, Writing
  <2> QED BY <2>1 DEF IInv, Disk
<1> QED BY Invariance, <1>1, PTL

\* Iterate shows its callback the entries of one map: Set waits in mu.Lock
\* until the iteration has ended.
THEOREM SeenTogetherHolds == Spec => []SeenTogether
<1>1. IInv => SeenTogether
  BY DEF IInv
<1> QED BY Invariance, <1>1, PTL
=============================================================================
