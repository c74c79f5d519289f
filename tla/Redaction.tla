----------------------------- MODULE Redaction -----------------------------
(***************************************************************************)
(* PiiFilter.Redact in one go: every pair of a table and a text that a     *)
(* call may end with.  PiiFilter, which takes a word at a time, shows that *)
(* its steps end in one of them.                                           *)
(***************************************************************************)
EXTENDS Filters

\* A filter at one word of a text.
RedactWord(f, m, token, full) ==
  LET o == token.word IN
  IF ~Matches(f, token) THEN {[table |-> m, token |-> token]}
  ELSE {IF TakesSuffix(f, token)
        THEN [table |-> Entered(Recorded(m, o, r), o, r, token.tld),
              token |-> Addressed(token, r)]
        ELSE [table |-> Recorded(m, o, r), token |-> [token EXCEPT !.word = r]] :
        r \in Replacements(m, o, full)}

\* A filter at a text, from left to right.
RedactPass(f, m, t, full) ==
  LET upTo[i \in 0 .. Len(t)] ==
        IF i = 0 THEN {[table |-> m, text |-> <<>>]}
        ELSE UNION {{[table |-> q.table, text |-> Append(d.text, q.token)] :
                       q \in RedactWord(f, d.table, t[i], full)} : d \in upTo[i - 1]}
  IN  upTo[Len(t)]

\* A slip: the host filter goes before the mail filter.
RedactHostFirst(m, fs, t, full) ==
  LET pass(f, done) == IF f \in fs
                       THEN UNION {RedactPass(f, d.table, d.text, full) : d \in done}
                       ELSE done
  IN  pass("email", pass("host", pass("username", {[table |-> m, text |-> t]})))

\* The filters fs, one after the other.
Redact(m, fs, t, full) ==
  LET pass(f, done) == IF f \in fs
                       THEN UNION {RedactPass(f, d.table, d.text, full) : d \in done}
                       ELSE done
  IN  pass("host", pass("email", pass("username", {[table |-> m, text |-> t]})))
=============================================================================
