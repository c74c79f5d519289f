----------------------------- MODULE MCStartup -----------------------------
(***************************************************************************)
(* A small instance of Startup: two user databases, with a system user, a  *)
(* broken line, a double name, an initial and a name with an accent; two   *)
(* host names and a file of hosts; command lines of up to three arguments. *)
(***************************************************************************)
EXTENDS Startup

AsciiRun == {"geeko", "anna", "maria", "ren", "rdupont", "root", "j", "earth", "sun", "example",
             "com", "code"}
MCWidth ==
  [p \in AsciiRun \union {"e'", ".", "-", ",", " ", "#", "ip"} |->
     CASE p \in {"j", "-", ",", " ", "#"} -> 1
       [] p \in {"e'", ".", "ip"} -> 2
       [] p \in {"com", "ren", "sun"} -> 3
       [] OTHER -> 5]

\* Users
MinusOne == -1  \* stands for what is no number
User(n, id, fullName) ==
  [fields |-> 7, login |-> <<n>>, uid |-> id, gecos |-> <<fullName, <<<<"com">>>>>>]
Root == User("root", 0, <<<<"root">>>>)
Geeko == User("geeko", 1000, <<<<"anna", "-", "maria", ",">>, <<"j", ".">>, <<"anna">>>>)
Ren == User("rdupont", 1001, <<<<"ren", "e'">>>>)
NoNumber == [Ren EXCEPT !.uid = MinusOne]
TooFewFields == [Ren EXCEPT !.fields = 4]

MCDatabases == {<<Root, Geeko>>, <<Geeko, NoNumber, TooFewFields, Ren>>}

\* Hosts
Earth == <<"earth", ".", "example", ".", "com">>
MCHostnames == {<<>>, <<"earth">>, Earth}
MCDomains == {<<>>, <<"sun", ".", "com">>}
MCHostsFiles ==
  {{}, {<<<<"ip">>, <<"sun", ".", "example">>, <<"sun">>>>, <<<<"#", "ip">>, <<"root">>>>}}
MCAddresses == {<<"ip">>}
MCAnswers == {{Earth}, {<<"ip">>}}

MCTexts ==
  {<<"geeko", " ", "anna", "-", "maria", " ", "rdupont">>,
   <<"anna", ".", "anna">>,
   <<"ren", "e'", " ", "geeko">>,
   <<"geeko", ".", "earth", ".", "example", ".", "com">>,
   <<"sun", " ", "earth", " ", "sun", ".", "com">>}

\* Arguments
Plain(s) == [dashes |-> 0, text |-> s, attached |-> FALSE, value |-> ""]
Flag(d, s) == [dashes |-> d, text |-> s, attached |-> FALSE, value |-> ""]
Attached(s, v) == [dashes |-> 2, text |-> s, attached |-> TRUE, value |-> v]

MCArguments ==
  {Plain("console"), Plain("getent"), Flag(1, "p"), Flag(2, "username_source"), Flag(2, "port"),
   Attached("disable-username-plugin", "false"), Attached("prompt", "console"),
   Attached("username-source", "cgo")}

ASSUME InstanceMatchesWholeRuns == UsersMatchWholeRuns

MCCommandLines == UNION {[1 .. n -> MCArguments] : n \in 0 .. 3}
=============================================================================
