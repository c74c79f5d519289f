# A TLA+ model of piiplugin

`piiplugin` keeps personal data out of what an agent sends to a language model.
It replaces user names, host names and mail addresses in requests by generated
names, and puts the originals back into responses and tool calls. This
directory holds TLA+ modules for the parts of the program whose correctness is
not obvious, TLC configurations that check them on small instances, and proofs
checked by TLAPS.

## Inventory

| Part | State | Operations | Properties that make it correct |
|---|---|---|---|
| Replacement table, `filter/replace.go` | the map replacement -> original, shared by the filters | `GetReplacement`, `matchCasing`, `UnredactText` | one replacement per spelling; an entry never changes its meaning; whatever was put into a text can be taken back; capitals survive; a whitelisted name stays |
| Mail filter, `filter/email` | TLD suffix table; writes combined entries into the shared map | `Redact`, `Unredact` | the same; addresses with different top level domains stay apart |
| Name filters, `filter/unique_names.go` | the regular expression over the known names | `Redact`, `Unredact` | every known name is found as a whole word |
| User name list, `filter/username` | the list collected at startup; the C library's place in the user database | choice of the source, `getpwent`, `getent`, `parsePasswdEntries` | every name of a regular user is in the list and found in texts; a failing source is not taken for an empty one |
| Host name list, `filter/host` | the list collected at startup | `os.Hostname`, DNS under two second deadlines, `/etc/hosts`, `cleanHostAndDomainNames` | what is known locally is in the list whatever the resolver does; building it ends |
| Composite filter, `piiplugin/plugin.go` | three filters, nil when disabled or failed | setters, `NewPiiFilter`, `Redact`, `Unredact` | `Unredact` undoes `Redact` for every combination of filters; nothing the enabled filters know gets out; names stay linkable |
| ADK plugin, `piiplugin/adk` | none of its own; rewrites requests, responses, tool arguments and results in place | six callbacks | the model sees no original, tools and users see no replacement |
| Structured values, `filter/values.go` | none | walk over tool arguments and results | every string is visited, shape and keys are kept |
| Stores, `filter/store.go` | map under a read-write lock, file | `Get`, `Set`, `Iterate`, load, save | what `Set` reported done survives a restart |
| Name generator, `names/namegen.go` | the unit tables; state of one word | `GeneratePronounceableName`, `GenerateRandomString`, `GenerateName` | a word of the requested length, and an answer at all |
| Flags, `utils/flags.go` | none | `SplitOwnFlags` | own flags and the launcher's arguments are told apart |
| Demo agent, `examples/agent` | terminal, session database, model client | `main` from the command line to the launcher | it does not run without its filter unless it is told to |
| Generator command, `names/cmd` | none | a command line around the generator | outside the plugin's logic |

The filters interact through one object, the table: the composite gives the
same map to all three constructors. The user name filter runs first, its output
is the mail filter's input, and that filter's output goes to the host filter.
The callbacks call the composite on every text of a request, a response or a
tool call. The map has no lock.

What is hard to test in this code: the order in which spellings of a name
arrive and in which Go visits the map; entries that are written without asking
whether the key is taken; a filter reading the previous filter's output; text
that is redacted again because it stayed in a session; goroutines that share
the map, the C library or a store; sources of names that fail, answer late or
not at all; a crash between truncating and writing the store's file; a
generator that keeps half of its state when an attempt fails. PROJECT.json lists
these with their lines.

## Modules

```
Words ── Replacement ─┬─ ReplacementTable ── MCReplacementTable ── MCTableIdeal
      └─ Suffix ──────┤        │  └─ refines Codebook
                      │        └─ refined by ConcurrentTable ── MCConcurrentTable
                      └─ Filters ─┬─ PiiFilter ─┬─ MCPiiFilter
                                  │   └─ refines ReplacementTable
                                  └─ Redaction ─┴─ AgentFlow ── MCAgentFlow
RWMutex ── FileStore
Phonetics ── NameGen ── MCNameGen
NameSearch ─┬─ UserList ─┐
            └─ HostList ─┼─ Startup ── MCStartup
                  Flags ─┘

ReplacementProofs ─┬─ ReplacementTableProofs   (of ReplacementTable)
                   ├─ ConcurrentTableProofs    (of ConcurrentTable)
                   ├─ PiiFilterProofs          (of PiiFilter, Redaction)
                   └─ AgentFlowProofs          (of AgentFlow, Redaction)
StartupProofs                                  (of Startup, UserList, HostList, Flags, NameSearch)
FileStoreProofs, NameGenProofs
```

**Words.** A name is a stem, the set of positions that hold a capital, and the
top level domain it is written with, if any. `Lower`, `SameFold`
(`strings.ToLower` on both sides) and `MatchCasing` work on this form.
`MatchCasing` follows `matchCasing`: a positional mask when the original has
capitals and small letters, upper case when all its letters are capitals, lower
case otherwise. Names whose letters have no case behave as names in lower case.

**Replacement.** `GetReplacement` as operators on one table. `Exact` is the
first lookup, `Folded` the second, `Fresh` the loop around the generator,
`Replacements` the order of the three, `Recorded` the write. Go visits a map in
no fixed order, so each lookup yields a set of answers. Keys with a dot are
passed over, as `PlainKeys` says. The generator is a choice of any candidate
of the length that `NameLength` computes. The write in the second branch does
not ask whether the key is taken, here as in the code.

**Suffix.** `WithTLDSuffix` and the lookup of a top level domain, the key `*`
included.

**Codebook.** What a table promises: a relation between names and replacements
to which pairs are added, and in which a replacement never stands for two
names and a name never has two replacements.

**ReplacementTable.** One table in the hands of the filters. `Reuse`, `Recase`
and `Generate` are the three ways a request for a name is served;
`RedactWithTld` is the mail filter's request for the last label of a domain
with its top level domain, which writes a second entry. A request may be for a
name that is a replacement already. `handed` is a history variable: the pairs
that were put into texts.

**ConcurrentTable.** The table without a lock, as several sessions use it:
`GetReplacement` and `UnredactText` with an action for each access to the map.
`LookupExact` and `LookupFolded` are the two loops, `Draw` and `Check` the
loop around the generator, `Write` the assignment of either branch, `Collect` and
`RestoreText` the two accesses of `UnredactText`. Go answers overlapping
accesses by ending the process, if it notices: `Fatal` does that, and the next
process has a new table. `turns` says whether the callers see to it that calls
do not overlap. If they do, a call adds up to one step of `ReplacementTable`,
which is checked as a refinement; so the properties proved of that module carry
over to callers with a lock. `clashed` records that two goroutines drew one word
for two names between the check and the write.

**Filters.** A text is a sequence of the words filters may look at, and a word
of an address knows whether it is the local part, an inner label or the last
one. `Matches` is what a filter finds, `UnredactText` one pass over a text, the
longest key first, and `Unredact` the passes of `PiiFilter.Unredact`.

**PiiFilter.** The composite at work, one word at a time. `Receive` is a call
of `Redact`; `ReplaceName` and `ReplaceWithTld` are a match of the filter whose
turn it is; `PassWord` is a word the filter does not match; `PassFilter` hands
the text to the next filter and steps over a nil one.

**Redaction.** A call of `PiiFilter.Redact` in one go: all pairs of a table
and a text it may end with. `PiiFilter` is checked, and proved, to end in one of
them, so `AgentFlow` can use calls as single steps.

**AgentFlow.** The six callbacks around a session. `BeforeModel`, `AfterModel`,
`ModelFails`, `BeforeTool`, `OnToolError` and `AfterTool` are a callback each,
run through all registered plugins: `plugins` holds a set of filters per
plugin, one set for `NewPiiPlugin`, several for the plugins that have one filter
each. Users, the model, the tools and the process are external. The model may
take up any word it was sent; a tool may answer with what it was given. The
runner is the ADK's, which is not part of the repository, so what is not known
of it is a parameter that takes both values: `aliased`, whether the parts of a
request are those of the session, and `afterError`, whether
`AfterToolCallback` is called after `OnToolErrorCallback`. `Restart` may come at
any point and any number of times, also while a tool runs: it keeps the session
as it is, with the arguments that were restored in it, and loses the table and
whatever was under way. The process is started with the same filters and lists
again. `unswept` holds the positions of the parts no callback will look at
any more: the arguments of a call that was cut short or failed without
`AfterToolCallback`, and the message of an error that the first plugin only has
redacted, where that has not all filters (`ErrorLeft`). Arguments count as
`Exposed` from `BeforeTool` on; before, they are the model's own words, which
hold no name unless an earlier request gave one away.

**RWMutex, FileStore.** The lock of Go's library with its order of waiting, and
a store used by several goroutines. Each method is an action for every step
between which another goroutine or a crash may come in: `Set` is `CallSet`,
`AnnounceSet`, `Assign`, `Create` (the truncation), `Encode` and `ReturnSet`.
`Create` and `Encode` may fail, and `Set` ignores it. `Crash` may come at any
time; `Open` loads what is there. `kind` chooses `MapStore` or `FileStore`.

**Phonetics, NameGen.** The tables of the generator in full, a row of the
34 x 34 matrix being a definition, and the generator draw by draw. `Broken` is
`ruleBroken`; `Splits`, `Stops`, `SplitsPair` and `Breaks` are the ways a
syllable ends, with the units that `Carried` takes to the next one. `hold` is
`savedUnit` with the live part of `savedPair`, in the order of use. `Extend`,
`Misplace`, `Abandon` and `Refuse` are what one draw may do to a syllable,
`Join` and `Reject` what `genWord` does with one that is complete.
`HeldAfter` is the state a failed attempt leaves: `savedUnit` is restored,
`savedPair` is not. `wantVowel` is absent: the code sets it where the loop that
reads it has ended, and clears it before it is read again.

**NameSearch.** What the regular expression of a list of names finds. A text is
a sequence of pieces, runs of ASCII letters and single other characters, so that
a name can be a part of another one, and `\b` (`Boundary`) has the meaning Go
gives it. `MatchesAt` are the alternatives that match at a place, `First` is the
one that is taken, and `Redacted` the text with all matches replaced.

**UserList.** `NewUsernameFilter`. `ChooseSource` is `resolvedGetpasswd`;
`RunGetent` succeeds or fails, and `GetentHangs` since it has no time limit;
`Setpwent`, `Getpwent`, `Copy` and `Endpwent` are the calls to the C library in
their order, `GetpwentFails` an error that looks like the end, and
`OtherGoroutine` the same calls made elsewhere, which move the place in the
database and overwrite the entry. `place` is the line that is read next;
`NextEntry` goes over lines the C library cannot make an entry of. `ParsePasswdEntries` makes the list.

**HostList.** `NewHostFilter`. `AskHostname` takes the domain from an option or
the host's name, or goes on to `LookupCNAME`; `LookupNS`, `LookupMX` and
`LookupAddr` share the second deadline. `Answer` is a lookup that returns in
time, with names or with an error; after `Expire` a lookup can only `GiveUp`.
`Assemble` adds the host's name, the domain and `/etc/hosts`, and
`CleanHostAndDomainNames` makes the list.

**Flags.** `SplitOwnFlags`, an argument per step: `TakeBool`, `TakeAttached`,
`TakeSeparate`, `DropFlag` or `PassOn`. `SplitAsMeant` is the reference: what
each flag is worth and what is passed on, as sets of positions.

**Startup.** The three composed. `program` is the demo agent, a caller of
`NewPiiFilter` or one of `NewHostFilter`. The agent goes through `ParseFlag`,
then `RunUnfiltered` or `BuildPlugin`, and ends, talks or prints its usage; the
composite builds its filters one after the other and goes on where a
constructor failed. `Filtered` is what the filters that came up make of a text.

Operators whose comment starts with "A slip:" are not part of a model. Each is
a definition with a plausible mistake in it, a dropped guard or a swapped
order. Putting one in the place of the correct definition makes TLC
report the property that guards against the mistake.

## Runs

| Run | Instance | Shows |
|---|---|---|
| `table_ideal` | a name in three casings, one with a position that is no letter, an FQDN; generated words of three and four letters; three tables to start with; at most 5 entries | the table stays a code book; no entry changes; casing and white list hold |
| `table_tld_suffix` | one suffix for every top level domain | violates `Decodable`, see below |
| `piifilter` | four texts in any order, seven combinations of filters, with and without a whitelisted host | redaction can be undone (`CaseApart` and `ReadsPlain` say for which texts), leaks nothing the filters know, keeps names linkable, uses the table as `ReplacementTable` describes, and ends as `Redaction` says |
| `piifilter_mail_reuse` | the same | violates `MailReusesNames` |
| `agentflow` | six registrations of plugins, four runners, two user texts, two tool answers, sessions of up to 4 parts, restarts at any point | no part of a request holds a name the filters know, but for the parts of a call that failed or was cut short before `AfterToolCallback`; users and tools get no replacement; the same is sent in the same words again |
| `file_store` | three goroutines, two keys, two values, two calls of `Set` | an opened store has a map that was in memory once; file and memory agree; an iteration sees one map; every call returns |
| `file_store_persists` | one goroutine | violates `SetPersists` |
| `namegen` | lengths 1 to 3 with all 34 units, 4 to 6 with seven | words have the length asked for, syllables but the last have a vowel, what is held fits, no syllable is tried for ever |
| `concurrent_table` | two goroutines, a name in two casings and another one, four generated words, with and without an entry to start with | calls that take turns are steps of `ReplacementTable`; without turns a name has at most as many replacements as there are goroutines, even after a clash, a known name is reused, a text that was redacted before comes back, and only a clash rebinds an entry |
| `startup` | all command lines of up to three arguments out of eight; two user databases; three host names, two files of hosts, two answers, two local addresses, a domain that is set; sources and options in every combination | the command line is split as it is meant; the agent runs unfiltered only if asked to; names of users, and those of the host that are known locally, are left in no text; longer names go first; the program starts up |
| `startup_failed_source` | the same | violates `EnabledFiltersUp` |
| `startup_non_ascii` | the same | violates `NamesAreFound` |

Bounds. A violation of a table property needs two spellings of a name, or two
names, and one replacement between them; three casings, a second name and a
third word that a text contains already give every such pair, from a table that
is empty, prefilled or white listing; `MaxEntries` bounds it. The four texts of
`PiiFilter` hold a name as a word and in an address, a name as the last label
and as an inner one, a top level domain with a suffix and one without, and, beside a
name in two casings, an ordinary word the generator knows; a user name is replaced three times on its
way, which is as often as there are filters. `MaxParts` = 4 is a question, a
call, its result and an answer, or two turns of two, so that text is redacted
again, restored and redacted once more, with restarts in between, or a question,
a call that is cut short, and another question with its request; the five
generated words are interchangeable, and are a symmetry set since the checked
properties are safety properties that do not name one. Plugins with the mail filter
that redact the session itself again and again use the five up, and a request
that finds no word left is not sent; the proofs have no such bound. `MaxSets` = 2 lets a
`Set` be cut short after another one was saved, and three goroutines are what
a writer, a reader inside and a reader that waits need. Seven units, with two
vowels that differ in their rules, "y", "ck", and a pair of consonants that may
begin a syllable, give every way a syllable can end and every way units are
held; six letters leave room for three syllables with units held between them,
and words of up to three letters are checked with every unit.

Two goroutines are what every overlap of two accesses needs; of the four words
one may be in the input, one is in a table to start with, and two can be drawn,
so draws are refused by either test and both goroutines can draw the same. Three
arguments are a flag, its value or what is taken for it, and one more; the eight
arguments are a boolean flag with a value, string flags with an attached value,
with one dash and with two, a flag of somebody else, and two plain words of
which one is also a valid source. The user databases hold a system user, a
double name, an initial, a comma, a number that is none, a line that is too
short and a name with an accent; the host names are dotted, plain and missing,
and a line of `/etc/hosts` has a name that another one begins with.
`MaxOthers` = 1 is enough for another goroutine to skip or overwrite an entry.

Deadlock is checked in every passing run. In `agentflow` a restart is always
possible once a session has begun, so there it says little.

`Startup` has a step of its own, `Rest`, for a program that has started or waits
for `getent`, so that it is stuck nowhere else.

Fairness. `FairSpec` of `FileStore`: a goroutine inside a call is scheduled again (`WF` on `Inside`), and one that
waits to write gets the lock in spite of other writers (`SF` on
`AnnounceSet`), because `sync.Mutex`, under which writers queue, hands itself to
the one that has waited longest after a millisecond. Nobody is made to begin a
call, to open a store or to crash. The loop of `genSyllable` ends for a
different reason: draws are random, so it ends with probability one if every
attempt can succeed. That is the invariant `NeverStuck`; no fairness is needed
for it. `FairSpec` of `Startup`: the program is scheduled (`WF` on `Progress`),
and the timer of a context goes off (`WF` on `Expire`), which Go's run time sees
to. Neither the resolver nor `getent` is assumed to answer, and other goroutines
need not run; so `StartsUp` has one exception, a program that waits for
`getent`.

## What the runs found

* **Combined entries overwrite one another** (`email.go:140`). With
  `WithTLDSuffix({"*": "invalid"})` two addresses that differ in the top level
  domain only get one key. The second entry replaces the first and the first
  address comes back with the wrong domain.
* **Mail addresses do not reuse names** (`email.go:95`). The mail filter gets
  the user name filter's output and replaces that.
* **A save destroys what was saved** (`store.go:131`). The file is truncated
  before it is written, and the error of writing is ignored. A crash or a full
  disk in between loses every mapping.
* **A filter that fails is left out** (`plugin.go:91`). `NewPiiFilter` drops the
  error of the user name filter's constructor; where the user database cannot be
  read, user names are sent as they are. The demo agent ends instead.
* **Names with letters outside ASCII at an end are not found**
  (`unique_names.go:47`). Go's `\b` knows ASCII words only, and the names of a
  user database need not be.

Seen while modelling, without a run of their own: an FQDN on the white list is replaced,
as the lookup passes over keys with a dot (`replace.go:97`); a replacement is
compared with the text at hand only, so that a later text may contain it
(`replace.go:135`); a label of an address that the
model uses as a plain word is restored, and goes out in plain with the next
request (`adk/redactor.go:101`); `notEnd` is looked at from the third unit of a
syllable on (`namegen.go:1491`); words after a `#` within a line of `/etc/hosts`
become names (`host.go:172`); a part of a dotted name that is an IP address is
dropped like any other address (`host.go:190`), which the proof of
`HostsAreHidden` brought up; a name that begins with a letter outside ASCII is
found right after a run of ASCII letters, and its replacement makes that run
longer, so that the host filter does not find a name in it (`UsersMatchWholeRuns`
excludes such texts).

The comment of `GetReplacement` (`replace.go:87`) says that a generated
replacement is not in the input. That is true of a word the generator has just
drawn. A name that is known in another case gets the old word in a new spelling,
and that is written without a look at the input (`replace.go:106`). If the input
has that very word, it is restored to the name although nobody replaced it, and
where the word is itself a name it stands there in plain. `RoundTrip` and
`NoLeak` therefore ask for `CaseApart`: no word of the text is a replacement in
another case. `RoundTrip` also asks for `ReadsPlain`: the text has no word that
is in the table from an earlier text, which no check could exclude, and no top
level domain that stands for another one, which would be read as the other one
(`email.go:130`). The first version of these properties did without
`CaseApart`, and TLC agreed, as no text of the instance had a name in two
casings beside an ordinary word; the proof did not go through. The fourth text
has both, and TLC then finds that `RoundTrip` needs the exception.

`Ideal`, which `table_ideal` and the proofs assume, excludes combined entries that
overwrite one another, an FQDN on the white list, and a prefilled replacement
shorter than its name (`replace.go:106`). Capitals are moved by position, past the end of the
replacement they are lost, and two spellings share a key. `Ideal` also assumes
that no generated name equals a key in all but case, because `replace.go:138`
compares with case and the lookup at line 104 without; for random names of eight
or more letters this is very unlikely, but the code does not exclude it.
In `AgentFlow`, whose table is empty at first, `Ideal` asks the same of the generator
and of the top level domains. Of users and tools it asks that they write no word
that could have been generated, which would be restored to a name it never stood for,
and none longer than a generated name can be; and no such name is on a list.

Three properties of `AgentFlow` have an exception, and TLC shows that each is
needed. What a tool gets in plain stays in the session in plain until
`AfterToolCallback` (`adk/redactor.go:118`), and `BeforeModelCallback` redacts
texts only. So if the runner does not call `AfterToolCallback` after an error, or
if the process ends after `BeforeToolCallback` (`adk/redactor.go:113`) and its
session is kept, the restored arguments go out in plain with every later
request. `Confidential` excepts these parts (`unswept`), in whichever session
they are, and no other part: what comes before and after them is as clean as ever. Whether
a runner does so, and whether a session service keeps the arguments as they were
at that moment, is decided outside the repository, so this is no run of its own.
If `AfterToolCallback` is called after an error, the message is redacted twice,
as it is when requests alias the session (`again`); the mail filter replaces
replacements, the passes of `Unredact` do not suffice, and `ComesBack` and
`StableRequests` fail. With copies of the session, no failing tools, and no end
of the process within a call there is no exception. After a restart `ComesBack`
and `StableRequests` promise nothing, as the table is lost (`restarted`).

`UsersHidden` is about readings that were neither cut short (`cut`) nor disturbed
by another goroutine (`others`), and about names `\b` can find. Without each of
these TLC finds a user that is left in a text. In `ConcurrentTable`,
`KnownIsReused`, `ReadBack` and `OnlyClashRebinds` except a clash, the moment in
which two goroutines write one word: then the first name cannot be restored any
more. For random words of eight letters this is unlikely; the second replacement
that `FewReplacements` allows is not.

## What is proved

Every safety property and every refinement that a passing run checks is also
proved, except `NeverStuck`. The theorems hold for all values of the constants that satisfy the assumptions of
the modules: any number of goroutines, any user database, texts of any length.

| Module | Theorems | Assumption |
|---|---|---|
| `ReplacementTableProofs` | `TypeCorrect`, `SingleReplacement`, `AlwaysDecodable`, `EntriesArePermanent`, `CaseIsPreserved`, `WhitelistIsHonoured`; `TableIsACodebook`: the table implements `Codebook` | `Ideal` |
| `ConcurrentTableProofs` | `TypeCorrect`; `TurnsImplement`: calls that take turns implement `ReplacementTable` | none |
| | `KnownNamesAreReused`, `TextsAreReadBack`, `OnlyClashesRebind`, `ReplacementsAreFew` | `Ideal` |
| `PiiFilterProofs` | `TypeCorrect`, `FoundNamesDoNotLeave`; `FiltersShareTheTable`: the filters implement `ReplacementTable`; `RedactsInOneGo`: word by word they do what `Redaction` says | none |
| | `NamesCanBeFollowed`, `TextsComeBack` | `Ideal` |
| `AgentFlowProofs` | `TypeCorrect`; `ModelGetsNoName`, for any plugins in any order and either kind of runner | none |
| | `WordsComeBack`, `RequestsAreStable` | `Ideal` of `AgentFlow` |
| `FileStoreProofs` | `TypeCorrect`, `AllOrNothingHolds`, `FileAgreesHolds`, `SeenTogetherHolds` | none |
| `NameGenProofs` | `TypeCorrect`, `WordsHaveTheirLength`, `HeldUnitsFit`, `SyllablesHaveVowels` | none |
| `StartupProofs` | `TypeCorrect`, `CommandLinesAreSplit`, `FilterUnlessAsked`, `NamesAreReplacedWhole`, `UsersAreHidden` | none |
| | `HostsAreHidden` | `UsersMatchWholeRuns` |

`Ideal` and `UsersMatchWholeRuns` are described above. They are no axioms:
a theorem that needs one has it as a hypothesis, and the MC modules assert that
the checked instances satisfy it (`MCTableIdeal`, `MCConcurrentTable`,
`MCPiiFilter`, `MCAgentFlow`, `MCStartup`), so that each hypothesis has a model in which the
interesting cases happen.

**The table.** That a name has one replacement is not inductive, because the
answer in another case is computed from a key and not from the name.
The invariant, `GoodTable` in `ReplacementProofs`, therefore relates whole
families of spellings. `Families` says that two originals agree up to case
exactly when their keys do, and
`PlainEntries` that a key covers the length of its original and has capitals
where it has them. From the two follows that a spelling determines its key.
`Functional` says that no two keys have one original; it does not follow, as
a capital beyond the letters of a name is not determined by it.
`SuffixedEntries` says that a combined entry consists of a plain entry and a
top level domain with its suffix, so a second write of the same key writes the
same value. `ReplacementProofs` also has the lemmas about `MatchCasing`, lengths
and the three branches; every proof about code that works with a table uses them.

**Goroutines at the table.** `Alone`: while callers take turns, the one that is
active knows what its lookups found (`Found`), as nobody else writes; so its
last access is the step of `ReplacementTable`, and the others are stutters.
Without turns what a lookup found may be out of date. `Granted` says what is
left: a word on its way into the table is fresh, or belongs to the family of the
name. `OneFamily` keeps spellings paired with names until two goroutines draw
one word, so nothing is rebound before that, and `Kept` that what was known when
a call began stays known. For `FewReplacements` the goroutines that may still
add a replacement for a name are counted beside those it has.

**The filters.** `Traced`: a word of the text is as it came in, and no filter
that has seen it matches it, or it is a plain key. So a name that was found
can leave only as a key, and `Unused` says that then it was one before. For
`RoundTrip`, `Traceable` follows a word through the filters: there is an
entry from what each filter left to what it was given. Each pass of `Unredact`
goes one entry back, and a word that has no entry any more stays. That filters
implement `ReplacementTable` needs no assumption: each match is one of its
steps, and all others are stutters. For `EndsAsRedact`, `Midway` says what holds
between two words: what is behind `pos` is one of the things the filter may make
of the words that came to it, and what is ahead is still as it came. A word more
on one side is a word more in the recursion of `RedactPass` (`PassGoesOn`).

**The plugins.** A text is clean of a filter (`CleanOf`) if all the filter finds
in it are generated names. The table has no other keys (`Tables`), so a filter
leaves a text clean of itself, and whatever it puts in is clean of every other
filter: no plugin undoes what one before it did, in whichever order they were
registered. So a chain cleans the parts it looks at of all filters and leaves the
others as they are (`ChainFacts`). `Tidy` carries this through a session: the
payloads in it are clean, but for those in `unswept` and that of the call under
way, which ends the session until `AfterToolCallback` has redacted it. A request is then clean in its
texts, since they were just redacted, and in its payloads, since they were
before (`Sent`), so that the model's own arguments are clean, too, while nothing
is in `unswept` (`Said`). It does not matter what the table knows, so a restart,
which loses it, can only leave behind the arguments that are exposed at that
moment, and they are in `unswept` from then on. That the four nested recursions (words, parts, plugins,
and plugins on the way back) are defined, and where they lead, follows from one
lemma, `Stepwise`, proved in `ReplacementProofs` by induction for a set (`UpTo`).

**Words that come back.** `ComesBack` and `StableRequests` speak of what a table
does over many turns. Under `Ideal` it keeps its entries and has one key for an
original (`Sound`), so although a filter draws its replacements at random, the
table it leaves determines what it has made of a text: `Becomes` for a word,
`Rewrites` for a plugin, `Through` for all of them, each unique (`ThroughOnce`)
and still true of a table that has grown (`ThroughStays`). `Within(m, n)` are the
words that n passes take back to one that was not generated; a filter that
replaces adds one (`BecomesRises`), and a pass of `UnredactText` takes one away
(`RestoreBack`). Both are counted: `Passes` is the number of filters of a plugin,
`Total` that of all plugins, which is what `Restored` makes.
A text that was only written is at level 0. Without the mail filter a filter
leaves generated names alone, so one pass always suffices, and texts may be redacted
again and again; the mail filter replaces what is replaced already, so with
it a text must not go through the plugins twice. `Level` says both.

The invariant is `Kept`, on top of the one for `Confidential`. `Returns` holds for as
long as `ComesBack` speaks (`Undisturbed`): every part of the session is within
`Total`, those that will be redacted once more are within the level from which this
is safe (`Waits`), and so are the answer and the arguments of the call under way.
`Steady` says that the last request is still what the plugins make of the session, so
that the next `BeforeModel`, which sees a table that has grown, has no choice but to
make the same of it; what was redacted in the session itself it leaves alone
(`CleanThrough`). `Counted` says that the parts which a tool call rewrites come
after those of the last request. TLC checked `Kept` on the instance of `agentflow`
before it was proved.

**The store.** `Discipline` says who holds the lock where in its call, so that
nobody is within an iteration when the map changes; `Memory`, that whatever is
in memory or whole on the disk was in memory once; `Disk`, that the file is the
map except while it is written and after a save that failed.

**The generator.** `Measured`: the letters of the syllable and those left for it
add up to what the word misses. A unit that breaks no rule fits into what is
left; so what is carried over fits, and what is held after a failed attempt does
too, since of two held units the first was placed. The vowels that were counted
are in the syllable, so that one remains when it is cut before its last unit.

**Startup.** For the command line, what was split is compared with
`SplitAsMeant` up to the position of the loop. For the user names, what was
read is what stands before `place` in the database, unless somebody moved it. For
the host names, the names known locally do not depend on a lookup. Both lists
are then complete, and the first part of the module, about `NameSearch`, shows
that no name of a list is left in a text: what is left was passed over because nothing matches there, and a name
has no replacement in it, so it would have matched where it begins. That a
redacted text keeps its runs apart is what makes the host filter work on the
user name filter's output; this is where `UsersMatchWholeRuns` is needed.
`Redacted` and `PatternWidth` are recursive functions; that they exist on a text
of any length, and what they are, is proved from least counterexamples, since
the library's induction theorems cannot be used with these provers.

Model-checked only:

* `NeverStuck`, a recursive search in `MCNameGen`: that every syllable the generator begins
  can be ended is a fact about the tables of its units, which are data.
* `CallsReturn` and `StartsUp`: liveness and `ENABLED` are beyond the prover.

## Abstractions

* Texts are sequences of words. How a regular expression finds words, and that
  `UnredactText` also finds a key inside a longer word, are left out. The
  check of a generated name against the input is likewise by word.
* An address is its labels in order. That a host filter without a mail filter
  in front may see an FQDN inside an address is left out.
* The payload of a tool call is the sequence of its words. Keys, which the code
  leaves as they are, and nesting are left out, as is the order in which Go
  visits a map inside a payload.
* Answers are whole. A streamed answer in chunks, of which a replacement may
  span two, is left out.
* Plugins that are registered one by one are taken to share a table.
* Callbacks of `Iterate` do not call the store, which `sync.RWMutex` forbids.
* The generator's tries are not counted: an attempt may be abandoned and a word
  given up whenever the code's counters could have reached their limits, and
  earlier. How often a unit is drawn is left out.
* `UseMock`, a test option that reverses names instead of generating them, is
  left out.
* `ConcurrentTable` alone has several goroutines at the table. There an access
  to the map is one step, or the end of the process; what a torn access might
  read is left out.
* A piece of a name stands for its spellings in every case. A replacement,
  `Code`, is any run of letters, and no name of a list has it as a piece: that a
  generated name is one of the names on a list is left to `PiiFilter`, whose
  words may be generated and listed. A run of letters goes as far as it can
  (`RunsApart`), so that `\b` is where two pieces meet. A dot at the end
  of a DNS name, which the code strips, is left out, as are `WithGetpasswdFunc`,
  `WithIsSystemUserFunc` and `WithLookupFunc`, which put code of the caller in
  the place of what is modelled.
* The lines of `/etc/hosts` are split at blanks already, and a file that cannot
  be read is an empty one, as in the code.

## Not modelled

* The generator command: a command line around `names`.
* Of the demo agent, the process tool, the model's client, sessions and the
  launcher: input and output without logic of the plugin.
* Streamed answers, keys and nesting of payloads, and two stores on one file,
  as said above. The code has no handling of these cases whose order could be
  wrong; PROJECT.json lists them as hazards.

## Plan

Everything planned is done: the modules above, and the proofs listed under "What is
proved". When the code changes, the first places to look at are:

1. `Ideal`. If the generator avoided names that differ from a key in case only, or
   combined entries told apart the top level domains that share a suffix
   (`table_tld_suffix`), the theorems would need less.
2. `AgentFlow`, once streamed answers are restored across chunks or keys of payloads
   are redacted: both are hazards without a property now.
3. A lock around `GetReplacement`: `ConcurrentTable` says what it would give.
