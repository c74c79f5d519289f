------------------------------ MODULE Startup ------------------------------
(***************************************************************************)
(* From the start of a program to the point where its filters work on      *)
(* texts.  There are three programs.  The demo agent splits its command    *)
(* line and builds a plugin with the user name filter, or none.  Another   *)
(* one calls NewPiiFilter, which builds the filters that are not disabled  *)
(* and drops the errors of their constructors.  The third calls            *)
(* NewHostFilter, and may know the domain.                                 *)
(***************************************************************************)
EXTENDS Flags, UserList, HostList

CONSTANTS
  CommandLines,  \* the command lines of the demo agent
  Sources,       \* the sources a caller of NewPiiFilter may ask for
  Texts          \* texts the filters meet

ASSUME StartupAssumption ==
  /\ \A line \in CommandLines : line \in Seq(Arguments)
  /\ \A t \in Texts : t \in Name /\ RunsApart(t)

VARIABLES
  program,  \* "agent", "composite" or "host"
  off,      \* the filters the options of NewPiiFilter disable
  phase     \* what the program does

vars == <<program, off, phase, flagVars, userVars, hostVars>>

\* The agent's loop or its single answer, its other ends, and the filters.
Talking == phase \in {"console", "answer"}
Started == Talking \/ phase \in {"usage", "fatal", "filter"}

\* There is no command line.
NoFlags == args = <<>> /\ next = 1 /\ disabled = FALSE /\ prompt = Empty /\ rest = <<>>

Init ==
  /\ UserInit
  /\ \/ /\ program = "agent" /\ phase = "flags" /\ off = {}
        /\ FlagsInit(CommandLines)
        /\ HostInit({<<>>}, {{}}, {<<>>})  \* the agent has no host filter
     \/ /\ program = "composite" /\ phase = "users" /\ off \in SUBSET {"username", "host"}
        /\ NoFlags /\ source \in Sources
        /\ HostInit(Hostnames, HostsFiles, {<<>>})
     \/ /\ program = "host" /\ phase = "hosts" /\ off = {"username"}
        /\ NoFlags /\ source = Empty
        /\ HostInit(Hostnames, HostsFiles, Domains)

Goto(ph) ==
  /\ phase' = ph
  /\ UNCHANGED <<program, off, flagVars, userVars, hostVars>>

-----------------------------------------------------------------------------
ParseFlag ==
  /\ phase = "flags" /\ SplitOwnFlags
  /\ UNCHANGED <<program, off, phase, userVars, hostVars>>

\* What the agent does when its plugins are built.
Launch == IF prompt # Empty THEN "answer" ELSE IF rest = <<>> THEN "usage" ELSE "console"

\* The agent builds no plugin.
RunUnfiltered == phase = "flags" /\ Split /\ disabled /\ Goto(Launch)

\* The agent builds the user name plugin, unless it does not know the source.
BuildPlugin ==
  /\ phase = "flags" /\ Split /\ ~disabled
  /\ Goto(IF source \in {Empty, "auto", "cgo", "getent"} THEN "users" ELSE "fatal")

\* A step of NewUsernameFilter.
UserStep(step) ==
  /\ phase = "users" /\ "username" \notin off
  /\ step
  /\ UNCHANGED <<program, off, phase, flagVars, hostVars>>

\* A slip: the agent drops the error, too.
AfterUsersAnyway == IF program = "agent" THEN Launch ELSE "hosts"

\* The agent ends where the filter could not be built, the composite goes on.
AfterUsers ==
  IF program = "agent"
  THEN IF reading = "failed" THEN "fatal" ELSE Launch
  ELSE "hosts"

UsersDone ==
  /\ phase = "users"
  /\ reading \in {"ready", "failed"} \/ "username" \in off
  /\ Goto(AfterUsers)

\* Another filter is built at the same time; the agent builds only one.
Beside == program = "composite" /\ UserStep(OtherGoroutine)

\* A step of NewHostFilter.
HostStep(step) ==
  /\ phase = "hosts" /\ "host" \notin off
  /\ step
  /\ UNCHANGED <<program, off, phase, flagVars, userVars>>

HostsDone ==
  /\ phase = "hosts"
  /\ looking = "ready" \/ "host" \in off
  /\ Goto("filter")

\* getent does not come back.
Hung == reading = "hung"

\* The program has started, or waits for the command.
Rest == (Started \/ Hung) /\ UNCHANGED vars

\* The steps that need nothing but the program to run.
Progress ==
  \/ ParseFlag \/ RunUnfiltered \/ BuildPlugin
  \/ UserStep(ChooseSource(source)) \/ UserStep(ReadUsers) \/ UsersDone
  \/ HostStep(AskHostname) \/ HostStep(GiveUp) \/ HostStep(Assemble) \/ HostsDone

Next ==
  \/ Progress
  \/ UserStep(UserFaults) \/ Beside
  \/ HostStep(Answer) \/ HostStep(Expire)
  \/ Rest

Spec == Init /\ [][Next]_vars

\* The program is scheduled, and the timer of a deadline goes off.  That the
\* resolver answers is not assumed.
FairSpec == Spec /\ WF_vars(Progress) /\ WF_vars(HostStep(Expire))

-----------------------------------------------------------------------------
(***************************************************************************)
(* Properties                                                              *)
(***************************************************************************)

\* Flags, sources, lists and phases have their types.
TypeOK ==
  /\ program \in {"agent", "composite", "host"} /\ off \subseteq {"username", "host"}
  /\ Started \/ phase \in {"flags", "users", "hosts"}
  /\ source \in FlagValue \union Sources
  /\ FlagsTypeOK /\ UserTypeOK /\ HostTypeOK

\* The agent's command line, split as its arguments are meant.
CommandLineSplit == program = "agent" => SplitAsMeant

\* The agent does not talk to a model without its filter unless the command
\* line says so: not for a missing source, a failing one or an unknown one.
UnfilteredOnlyIfAsked ==
  Talking /\ reading # "ready" => \E k \in DOMAIN args : Is(args[k], BoolFlag)

\* What the filters make of a text, a filter that is missing leaving it alone.
Filtered(t) == Redacted(hosts, Redacted(users, t))

\* From the database to the text: where the user name filter came up, no name
\* of a regular user is left in any text, unless it has a single letter, its
\* ends are no ASCII letters, or the C library failed or was shared.
UsersHidden ==
  Started /\ reading = "ready" /\ ~cut /\ others = 0 =>
    \A t \in Texts : \A n \in NamesOf(db) :
      Findable(n) /\ ~TooShort(n) => ~Occurs(n, Redacted(users, t))

\* The names the host filter has to know even if no lookup succeeds: the
\* host's, the domain and those of /etc/hosts, with first labels and domains,
\* but no addresses.
OwnHostNames ==
  LET given == {hostname, domain} \union
               UNION {{line[k] : k \in 2 .. Len(line)} : line \in {l \in etcHosts : l[1][1] # Hash}}
      dotted == {n \in given \ Addresses : Dots(n) # {}}
  IN  (given \union {Before(n) : n \in dotted} \union {After(n) : n \in dotted}) \ Addresses

\* Wherever a user name matches in a text, it has ASCII letters or digits at its
\* ends.  Where a name that begins with another letter is replaced right after a
\* run, the replacement makes that run longer, and no host name is found in it.
UsersMatchWholeRuns ==
  \A es \in Databases, t \in Texts : \A k \in 1 .. Len(t) :
    \A n \in MatchesAt(ParsePasswdEntries(es), t, k) : Findable(n)

\* Where the host filter came up, these are left in no text, after whatever
\* the resolver did and whenever a deadline passed.
HostsHidden ==
  Started /\ looking = "ready" =>
    \A t \in Texts : \A n \in OwnHostNames :
      Findable(n) /\ ~TooShort(n) => ~Occurs(n, Filtered(t))

\* A name is replaced as a whole where a part of it, at its beginning, is in
\* the list as well.
LongerNamesFirst ==
  Started =>
    /\ \A n \in users : Findable(n) => Redacted(users, n) = <<Code>>
    /\ \A n \in hosts : Findable(n) => Redacted(hosts, n) = <<Code>>

\* The program starts up, even with a resolver that never answers, unless
\* getent, which has no time limit, does not come back.
StartsUp == <>(Started \/ Hung)

-----------------------------------------------------------------------------
\* "All three filters": every filter that is not disabled is there.
EnabledFiltersUp ==
  phase = "filter" =>
    /\ "username" \notin off => reading = "ready"
    /\ "host" \notin off => looking = "ready"

\* The user name filter recognises login names and the names in the GECOS
\* field, whatever letters they are written in.
NamesAreFound ==
  Started /\ reading = "ready" /\ ~cut /\ others = 0 =>
    \A t \in Texts : \A n \in NamesOf(db) : ~TooShort(n) => ~Occurs(n, Redacted(users, t))
=============================================================================
