------------------------------ MODULE RWMutex ------------------------------
(***************************************************************************)
(* sync.RWMutex (external) as operators on a lock.  A writer announces     *)
(* itself first: it then waits for the readers that are inside, and        *)
(* readers that come later wait for it.  When it leaves, they go first.    *)
(***************************************************************************)
CONSTANT NoThread

Unlocked == [writer |-> NoThread, readers |-> {}, waiting |-> {}]

Lock(T) == [writer : T \union {NoThread}, readers : SUBSET T, waiting : SUBSET T]

RLock(l, t) ==
  IF l.writer = NoThread
  THEN [l EXCEPT !.readers = l.readers \union {t}]
  ELSE [l EXCEPT !.waiting = l.waiting \union {t}]

RUnlock(l, t) == [l EXCEPT !.readers = l.readers \ {t}]

Announce(l, t) == [l EXCEPT !.writer = t]

\* A slip: the waiting readers are forgotten.
UnlockForWriters(l) == [l EXCEPT !.writer = NoThread]

Unlock(l) == [Unlocked EXCEPT !.readers = l.readers \union l.waiting]

MayRead(l, t) == t \in l.readers

\* A slip: the writer does not wait for the readers inside.
MayWriteAtOnce(l, t) == l.writer = t

MayWrite(l, t) == l.writer = t /\ l.readers = {}
=============================================================================
