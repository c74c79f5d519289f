----------------------------- MODULE AgentFlow -----------------------------
(***************************************************************************)
(* The ADK plugins in an agent's loop.  The runner (external) collects a   *)
(* session: texts of the user and the model, and the arguments and results *)
(* of tool calls.  All of it is sent with every request.  The callbacks    *)
(* redact what leaves the machine and restore what comes back; tool        *)
(* arguments and results are rewritten in the session itself.              *)
(***************************************************************************)
EXTENDS Redaction, SequencesExt

CONSTANTS
  Registrations,  \* the sequences of plugins, each a set of filters
  Runners,        \* what the runner may do, see Runner
  UserTexts,      \* what users write
  ToolTexts,      \* what tools answer, or report as an error
  MaxParts        \* bound on the parts of a session

\* aliased: the parts of a request are those of the session.
\* afterError: AfterToolCallback is called after OnToolErrorCallback, too.
Runner == [aliased : BOOLEAN, afterError : BOOLEAN]

ASSUME AgentFlowAssumption ==
  /\ Registrations \subseteq Seq((SUBSET AllFilters) \ {{}}) \ {<<>>}
  /\ Runners \subseteq Runner
  /\ \A t \in UserTexts \union ToolTexts : IsText(t)
  /\ MaxParts \in Nat

\* Only text parts have a Text; the payload of a tool call has none.
Part == [from : {"user", "model", "args", "result"}, text : Seq(Token)]
TextParts == {"user", "model"}
HasText(part) == part.from \in TextParts

Phases == {"idle", "request", "model", "answer", "call", "run", "failed", "returned"}

VARIABLES
  plugins,    \* the registered plugins, in the order of their registration
  runner,     \* how this runner behaves
  table,      \* the replacement table the plugins share
  session,    \* the parts of the session
  phase,      \* where the loop is
  request,    \* the parts of the last request, as the model got them
  answer,     \* the model's answer, then the tool's
  out,        \* history: the last text that reached the user or a tool
  again,      \* history: a text that was redacted has been redacted again
  unswept,    \* history: the parts of calls that nothing redacts any more
  restarted   \* history: the process was started anew

vars == <<plugins, runner, table, session, phase, request, answer, out, again,
          unswept, restarted>>
registered == <<plugins, runner>>
history == <<out, again, unswept, restarted>>

Enabled == UNION {plugins[i] : i \in DOMAIN plugins}
-----------------------------------------------------------------------------
\* The words of the parts of these kinds (fullInputText, ToolValuesText).
WordsOf(parts, froms) ==
  UNION {FullInput(p.text) : p \in {q \in Range(parts) : q.from \in froms}}

\* One plugin at one part.
RedactPart(m, fs, part, froms, full) ==
  IF part.from \in froms THEN Redact(m, fs, part.text, full)
  ELSE {[table |-> m, text |-> part.text]}

\* One plugin: the parts of these kinds are redacted, one after the other.
RedactParts(m, fs, parts, froms, full) ==
  LET upTo[i \in 0 .. Len(parts)] ==
        IF i = 0 THEN {[table |-> m, parts |-> <<>>]}
        ELSE UNION {{[table |-> q.table,
                      parts |-> Append(d.parts, [parts[i] EXCEPT !.text = q.text])] :
                       q \in RedactPart(d.table, fs, parts[i], froms, full)} : d \in upTo[i - 1]}
  IN  upTo[Len(parts)]

\* All plugins, in the order of their registration.  A callback that returns
\* nothing and rewrites in place lets the next plugin see the same parts.
Chain(m, parts, froms) ==
  LET upTo[i \in 0 .. Len(plugins)] ==
        IF i = 0 THEN {[table |-> m, parts |-> parts]}
        ELSE UNION {RedactParts(d.table, plugins[i], d.parts, froms, WordsOf(d.parts, froms)) :
                      d \in upTo[i - 1]}
  IN  upTo[Len(plugins)]

\* BeforeModelCallback: every part that has a text.
RedactRequest(m, parts) == Chain(m, parts, TextParts)

\* A slip: the arguments are taken to be redacted still.
RedactResult(m, args, result) == Chain(m, <<args, result>>, {"result"})

\* AfterToolCallback: arguments and result.
RedactPayload(m, args, result) == Chain(m, <<args, result>>, {"args", "result"})

\* A slip: the result is named for what it is.
NamedError(text) == [from |-> "error", text |-> text]

\* The result of a call that failed.
ErrorResult(text) == [from |-> "result", text |-> text]

\* OnToolErrorCallback: the first plugin's answer ends the chain.
RedactError(m, message) == Redact(m, plugins[1], message, FullInput(message))

\* A slip: one plugin's answer ends the chain.
RestoredByFirst(text) == Unredact(table, plugins[1], text)

\* AfterModelCallback and BeforeToolCallback: one plugin after the other.
Restored(text) ==
  LET upTo[i \in 0 .. Len(plugins)] ==
        IF i = 0 THEN text ELSE Unredact(table, plugins[i], upTo[i - 1])
  IN  upTo[Len(plugins)]
-----------------------------------------------------------------------------
Init ==
  /\ plugins \in Registrations /\ runner \in Runners
  /\ table = <<>> /\ session = <<>> /\ phase = "idle"
  /\ request = <<>> /\ answer = <<>> /\ out = <<>>
  /\ again = FALSE /\ unswept = {} /\ restarted = FALSE

\* The user writes something.
UserSays(t) ==
  /\ phase = "idle" /\ Len(session) < MaxParts
  /\ session' = Append(session, [from |-> "user", text |-> t])
  /\ phase' = "request"
  /\ UNCHANGED <<registered, table, request, answer, history>>

\* The runner builds a request from the session.
BeforeModel ==
  /\ phase = "request"
  /\ \E q \in RedactRequest(table, session) :
       /\ table' = q.table /\ request' = q.parts
       /\ session' = IF runner.aliased THEN q.parts ELSE session
  /\ again' = (again \/ (runner.aliased /\ Len(session) > 1))
  /\ phase' = "model"
  /\ UNCHANGED <<registered, answer, out, unswept, restarted>>

\* What the model may take up from a request: a word, with its top level
\* domain or on its own.
Echoes ==
  LET said == UNION {Range(p.text) : p \in Range(request)}
  IN  said \union {[kind |-> "word", word |-> t.word, tld |-> NoTld] : t \in said}

\* The model answers, or calls a tool.
ModelReplies(from, token) ==
  /\ phase = "model" /\ Len(session) < MaxParts
  /\ answer' = [from |-> from, text |-> <<token>>]
  /\ phase' = "answer"
  /\ UNCHANGED <<registered, table, session, request, history>>

\* OnModelErrorCallback lets the error pass.
ModelFails ==
  /\ phase = "model"
  /\ phase' = "idle"
  /\ UNCHANGED <<registered, table, session, request, answer, history>>

\* AfterModelCallback: the text of the answer is restored, a call is not.
AfterModel ==
  /\ phase = "answer"
  /\ LET text == IF HasText(answer) THEN Restored(answer.text) ELSE answer.text IN
     /\ session' = Append(session, [answer EXCEPT !.text = text])
     /\ out' = IF HasText(answer) THEN text ELSE out
  /\ phase' = IF HasText(answer) THEN "idle" ELSE "call"
  /\ UNCHANGED <<registered, table, request, answer, again, unswept, restarted>>

\* The arguments of the call, which stay in the session.
Args == Last(session)

\* BeforeToolCallback: the arguments are restored where they are.
BeforeTool ==
  /\ phase = "call"
  /\ LET text == Restored(Args.text) IN
     /\ session' = [session EXCEPT ![Len(session)].text = text]
     /\ out' = text
  /\ phase' = "run"
  /\ UNCHANGED <<registered, table, request, answer, again, unswept, restarted>>

\* The tool returns a result, or an error.
ToolEnds(t, fails) ==
  /\ phase = "run"
  /\ answer' = [from |-> "result", text |-> t]
  /\ phase' = IF fails THEN "failed" ELSE "returned"
  /\ UNCHANGED <<registered, table, session, request, history>>

\* Where the message goes that only the first plugin has redacted.
ErrorLeft == IF Enabled \subseteq plugins[1] THEN {} ELSE {Len(session) + 1}

\* OnToolErrorCallback: the message becomes the result.
OnToolError ==
  /\ phase = "failed"
  /\ \E q \in RedactError(table, answer.text) :
       LET result == ErrorResult(q.text) IN
       /\ table' = q.table
       /\ IF runner.afterError
          THEN answer' = result /\ phase' = "returned" /\ UNCHANGED session
          ELSE session' = Append(session, result) /\ phase' = "request" /\ UNCHANGED answer
  /\ again' = (again \/ runner.afterError)
  /\ unswept' = IF runner.afterError THEN unswept ELSE unswept \union {Len(session)} \union ErrorLeft
  /\ UNCHANGED <<registered, request, out, restarted>>

\* AfterToolCallback: arguments and result are redacted where they are.
AfterTool ==
  /\ phase = "returned"
  /\ \E q \in RedactPayload(table, Args, answer) :
       /\ table' = q.table
       /\ session' = Front(session) \o q.parts
  /\ phase' = "request"
  /\ UNCHANGED <<registered, request, answer, history>>

\* The arguments that end the session may be in plain: they were restored for
\* the tool, or repeat what an earlier request gave away.
Exposed ==
  \/ phase \in {"run", "failed", "returned"}
  \/ phase = "call" /\ unswept # {}

\* The process ends, wherever it is, and starts again.  The session is kept as
\* it is, with arguments that were restored for a tool; the table is not.
Restart ==
  /\ session # <<>>
  /\ phase' = "idle" /\ table' = <<>> /\ request' = <<>> /\ answer' = <<>> /\ out' = <<>>
  /\ unswept' = IF Exposed THEN unswept \union {Len(session)} ELSE unswept
  /\ again' = FALSE /\ restarted' = TRUE
  /\ UNCHANGED <<registered, session>>

Next ==
  \/ \E t \in UserTexts : UserSays(t)
  \/ BeforeModel
  \/ \E from \in {"model", "args"}, token \in Echoes : ModelReplies(from, token)
  \/ ModelFails
  \/ AfterModel
  \/ BeforeTool
  \/ \E t \in ToolTexts \union {out}, fails \in BOOLEAN : ToolEnds(t, fails)
  \/ OnToolError
  \/ AfterTool
  \/ Restart

Spec == Init /\ [][Next]_vars
-----------------------------------------------------------------------------
(***************************************************************************)
(* Properties                                                              *)
(***************************************************************************)

\* The variables have their types.
TypeOK ==
  /\ plugins \in Registrations /\ runner \in Runners
  /\ DOMAIN table \subseteq Word /\ \A k \in DOMAIN table : table[k] \in Word
  /\ session \in Seq(Part) /\ request \in Seq(Part)
  /\ phase \in Phases
  /\ answer = <<>> \/ answer \in Part
  /\ out \in Seq(Token)
  /\ unswept \subseteq 1 .. Len(session)
  /\ {again, restarted} \subseteq BOOLEAN

\* A word that one of the filters finds and that is no generated name.
Secret(token) ==
  token.word.stem \notin Candidate /\ \E f \in Enabled : Matches(f, token)

\* The model never gets a name the filters know, in whichever turn it entered
\* and whatever became of it, after any number of restarts, and also where it
\* was restored for a tool that has ended.  Excepted are the parts of a call that
\* AfterToolCallback does not see, because it failed or the process ended before:
\* these the code does send in plain.  The rest of such a session is not excepted.
Confidential ==
  phase = "model" =>
    \A i \in DOMAIN request \ unswept : \A t \in Range(request[i].text) : ~Secret(t)

\* Users and tools never get a generated name: as long as the process lives, a
\* word the model takes up comes back as what it stood for.  The mail filter
\* replaces what is replaced already, so texts that are redacted twice are left
\* out when it is enabled.
ComesBack ==
  ~restarted /\ ("email" \notin Enabled \/ ~again) =>
    \A t \in Range(out) : t.word.stem \notin Candidate

\* What the model has been sent it is sent again in the same words, turn after
\* turn: texts are redacted anew for every request, payloads only once, and the
\* model can rely on both to name the same things alike.
StableRequests ==
  [][~restarted' /\ ("email" \notin Enabled \/ ~again') =>
       \A i \in DOMAIN request : i \in DOMAIN request' /\ request'[i] = request[i]]_vars

\* The circumstances under which words come back: no generated name differs
\* from a key in case only, no two top level domains share a suffix, nobody
\* writes a word that could have been generated, nor one that is longer than
\* any of those, and the filters look for none.
Ideal ==
  /\ ~CaseClash
  /\ \A t, u \in Tld : HasSuffix(t) /\ HasSuffix(u) /\ SuffixOf(t) = SuffixOf(u) => t = u
  /\ \A t \in UserTexts \union ToolTexts : \A w \in FullInput(t) :
       w.stem \notin Candidate /\ Length[w.stem] <= MaxLength
  /\ (UserNames \union HostNames) \intersect Candidate = {}
=============================================================================
