------------------------------ MODULE UserList ------------------------------
(***************************************************************************)
(* The name list of the user name filter.  NewUsernameFilter chooses a     *)
(* source, reads the user database through it and keeps the login names    *)
(* and the full names of regular users.                                    *)
(*                                                                         *)
(* getpwent keeps its place in the database, and the entry it returns, in  *)
(* static memory of the C library.  A goroutine that builds another filter *)
(* at the same time moves the one and overwrites the other.                *)
(***************************************************************************)
EXTENDS NameSearch, Integers

CONSTANTS
  Databases,  \* the user databases: sequences of Entry
  Trimmed,    \* the pieces that are stripped off the ends of a full name
  Garbled,    \* marks a user id that is not a number
  FirstUid,   \* the lowest id of a regular user (1000 in the code)
  MaxOthers   \* bound on the calls of getpwent that other goroutines make

\* fields  the number of fields of the line
\* gecos   the sub-fields of the GECOS field, each a sequence of names
Entry == [fields : Nat, login : Listed, uid : Int \union {Garbled}, gecos : Seq(Seq(Listed))]

ASSUME UserListAssumption ==
  /\ \A db \in Databases : db \in Seq(Entry)
  /\ Trimmed \subseteq DOMAIN Width
  /\ FirstUid \in Nat /\ MaxOthers \in Nat

VARIABLES
  db,       \* the lines of the user database
  cgo,      \* whether the program was built with cgo
  reading,  \* what NewUsernameFilter does next
  place,    \* the C library's place in the database: the line it reads next
  static,   \* the C library's last entry
  entries,  \* the entries read so far
  others,   \* how often another goroutine has called getpwent
  cut,      \* history: getpwent reported an error
  users     \* the list: the names in the filter's regular expression

userVars == <<db, cgo, reading, place, static, entries, others, cut, users>>

UserInit ==
  /\ db \in Databases
  /\ cgo \in BOOLEAN
  /\ reading = "idle"
  /\ place = 1 /\ static = <<>> /\ entries = <<>>
  /\ others = 0 /\ cut = FALSE
  /\ users = {}

-----------------------------------------------------------------------------
\* strings.Trim: punctuation at both ends goes.
Trim(n) ==
  LET kept == {k \in DOMAIN n : n[k] \notin Trimmed}
  IN  IF kept = {} THEN <<>>
      ELSE SubSeq(n, CHOOSE k \in kept : \A j \in kept : k <= j,
                     CHOOSE k \in kept : \A j \in kept : k >= j)

IsSystemUser(id) == id < FirstUid

FullName(e) ==
  IF e.gecos = <<>> THEN {} ELSE {Trim(e.gecos[1][k]) : k \in DOMAIN e.gecos[1]}

Regular(e) == e.fields >= 5 /\ e.uid # Garbled /\ ~IsSystemUser(e.uid)

\* The login names and full names of the regular users.
NamesOf(es) ==
  UNION {{e.login} \union FullName(e) : e \in {es[k] : k \in {j \in DOMAIN es : Regular(es[j])}}}

\* A slip: what is left of an initial, or of a dash, is a name.
NamesOfAnyLength(es) == NamesOf(es)

\* The names of all entries; spellings up to case are in the list once.
ParsePasswdEntries(es) == {n \in NamesOf(es) : ~TooShort(n)}

\* The source that is read; an unknown one counts as "auto".
Resolved(source) ==
  CASE source = "cgo" -> IF cgo THEN "cgo" ELSE "none"
    [] source = "getent" -> "getent"
    [] OTHER -> IF cgo THEN "cgo" ELSE "getent"

-----------------------------------------------------------------------------
\* NewUsernameFilter is called.
ChooseSource(source) ==
  /\ reading = "idle"
  /\ reading' = CASE Resolved(source) = "cgo" -> "setpwent"
                  [] Resolved(source) = "getent" -> "getent"
                  [] OTHER -> "failed"
  /\ UNCHANGED <<db, cgo, place, static, entries, others, cut, users>>

\* The filter is built from what was read.
Build(es) ==
  /\ reading' = "ready"
  /\ users' = ParsePasswdEntries(es)
  /\ entries' = <<>>

\* The command prints the database, or fails, or is not there.
RunGetent ==
  /\ reading = "getent"
  /\ \/ Build(db)
     \/ reading' = "failed" /\ UNCHANGED <<entries, users>>
  /\ UNCHANGED <<db, cgo, place, static, others, cut>>

\* The command waits for a service, and is not given a time limit.
GetentHangs ==
  /\ reading = "getent"
  /\ reading' = "hung"
  /\ UNCHANGED <<db, cgo, place, static, entries, others, cut, users>>

Setpwent ==
  /\ reading = "setpwent"
  /\ place' = 1
  /\ reading' = "getpwent"
  /\ UNCHANGED <<db, cgo, static, entries, others, cut, users>>

\* The lines that getpwent passes over are no entries.
Valid(e) == e.fields >= 5 /\ e.uid # Garbled

\* The lines that getpwent has not come to, or passed over, yet.
Ahead == {k \in DOMAIN db : Valid(db[k]) /\ k >= place}

\* The next entry is in static memory then.
NextEntry ==
  \E k \in Ahead : /\ \A j \in Ahead : k <= j
                   /\ static' = db[k]
                   /\ place' = k + 1

Getpwent ==
  /\ reading = "getpwent"
  /\ \/ NextEntry /\ reading' = "copy"
     \/ Ahead = {} /\ reading' = "endpwent" /\ UNCHANGED <<place, static>>
  /\ UNCHANGED <<db, cgo, entries, others, cut, users>>

\* The result is nil for an error, too.
GetpwentFails ==
  /\ reading = "getpwent"
  /\ reading' = "endpwent"
  /\ cut' = TRUE
  /\ UNCHANGED <<db, cgo, place, static, entries, others, users>>

\* A slip: the entry is not added to what was read.
CopyLast ==
  /\ reading = "copy"
  /\ entries' = <<static>>
  /\ reading' = "getpwent"
  /\ UNCHANGED <<db, cgo, place, static, others, cut, users>>

Copy ==
  /\ reading = "copy"
  /\ entries' = Append(entries, static)
  /\ reading' = "getpwent"
  /\ UNCHANGED <<db, cgo, place, static, others, cut, users>>

Endpwent ==
  /\ reading = "endpwent"
  /\ place' = 1 /\ static' = <<>>
  /\ Build(entries)
  /\ UNCHANGED <<db, cgo, others, cut>>

\* Another goroutine is between its own setpwent and endpwent.
OtherGoroutine ==
  /\ reading \in {"getpwent", "copy", "endpwent"}
  /\ others < MaxOthers
  /\ others' = others + 1
  /\ \/ place' = 1 /\ UNCHANGED static
     \/ NextEntry
  /\ UNCHANGED <<db, cgo, reading, entries, cut, users>>

\* One step of NewUsernameFilter, once it is called.
ReadUsers == RunGetent \/ Setpwent \/ Getpwent \/ Copy \/ Endpwent

\* How a source may fail, other than by an error.
UserFaults == GetentHangs \/ GetpwentFails

UserTypeOK ==
  /\ db \in Databases /\ cgo \in BOOLEAN
  /\ reading \in {"idle", "ready", "failed", "hung", "getent", "setpwent", "getpwent", "copy", "endpwent"}
  /\ place \in 1 .. Len(db) + 1
  /\ static \in {<<>>} \union {db[k] : k \in DOMAIN db}
  /\ \A k \in DOMAIN entries : entries[k] \in {db[j] : j \in DOMAIN db}
  /\ others \in 0 .. MaxOthers /\ cut \in BOOLEAN
  /\ \A n \in users : n \in Name /\ ~TooShort(n)
=============================================================================
