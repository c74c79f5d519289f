-------------------------------- MODULE Flags --------------------------------
(***************************************************************************)
(* SplitOwnFlags: the demo agent's own flags are taken out of the command  *)
(* line, argument by argument; the others belong to the launcher.          *)
(***************************************************************************)
EXTENDS Naturals, Sequences, FiniteSets

CONSTANTS
  Arguments, \* the arguments that occur
  Empty      \* the empty string

\* dashes    how many dashes the argument begins with, 2 for more
\* text      what follows them, up to "="
\* attached  whether there is a "="
\* value     what follows it
ASSUME FlagsAssumption ==
  \A a \in Arguments :
    /\ a.dashes \in 0 .. 2 /\ a.attached \in BOOLEAN
    /\ a.dashes = 0 => ~a.attached

VARIABLES
  args,      \* the command line
  next,      \* the argument that is looked at next
  disabled,  \* --disable-username-plugin
  prompt,    \* --prompt
  source,    \* --username-source
  rest       \* the arguments for the launcher

flagVars == <<args, next, disabled, prompt, source, rest>>

BoolFlag == {"disable-username-plugin", "disable_username_plugin"}
PromptFlag == {"prompt", "prompt_text", "p"}
SourceFlag == {"username-source", "username_source"}
StringFlag == PromptFlag \union SourceFlag

FlagsInit(commandLines) ==
  /\ args \in commandLines
  /\ next = 1
  /\ disabled = FALSE /\ prompt = Empty /\ source = Empty
  /\ rest = <<>>

-----------------------------------------------------------------------------
Is(a, names) == a.dashes # 0 /\ a.text \in names

\* The next argument can be the value of the flag before it.
HasValue(k) == k < Len(args) /\ args[k + 1].dashes = 0

Set(a, v) ==
  /\ prompt' = IF a.text \in PromptFlag THEN v ELSE prompt
  /\ source' = IF a.text \in SourceFlag THEN v ELSE source
  /\ UNCHANGED <<args, disabled, rest>>

TakeBool ==
  /\ Is(args[next], BoolFlag)
  /\ disabled' = TRUE
  /\ next' = next + 1
  /\ UNCHANGED <<args, prompt, source, rest>>

\* --flag=value
TakeAttached ==
  /\ Is(args[next], StringFlag) /\ args[next].attached
  /\ Set(args[next], args[next].value)
  /\ next' = next + 1

\* A slip: the value is looked at again as an argument.
TakeSeparateOnce ==
  /\ Is(args[next], StringFlag) /\ ~args[next].attached /\ HasValue(next)
  /\ Set(args[next], args[next + 1].text)
  /\ next' = next + 1

\* --flag value
TakeSeparate ==
  /\ Is(args[next], StringFlag) /\ ~args[next].attached /\ HasValue(next)
  /\ Set(args[next], args[next + 1].text)
  /\ next' = next + 2

\* A flag whose value is missing, or begins with a dash, is dropped.
DropFlag ==
  /\ Is(args[next], StringFlag) /\ ~args[next].attached /\ ~HasValue(next)
  /\ next' = next + 1
  /\ UNCHANGED <<args, disabled, prompt, source, rest>>

PassOn ==
  /\ ~Is(args[next], BoolFlag \union StringFlag)
  /\ rest' = Append(rest, args[next])
  /\ next' = next + 1
  /\ UNCHANGED <<args, disabled, prompt, source>>

Split == next > Len(args)

SplitOwnFlags ==
  ~Split /\ (TakeBool \/ TakeAttached \/ TakeSeparate \/ DropFlag \/ PassOn)

FlagValue ==
  {Empty} \union {a.value : a \in {b \in Arguments : b.attached}}
          \union {a.text : a \in {b \in Arguments : b.dashes = 0}}

FlagsTypeOK ==
  /\ \A k \in DOMAIN args : args[k] \in Arguments
  /\ next \in 1 .. Len(args) + 1
  /\ disabled \in BOOLEAN
  /\ prompt \in FlagValue
  /\ \A k \in DOMAIN rest : rest[k] \in Arguments

-----------------------------------------------------------------------------
(***************************************************************************)
(* What the split means, position by position.                             *)
(***************************************************************************)

\* Argument k is the value of a flag.
IsValue(k) ==
  /\ k > 1 /\ args[k].dashes = 0
  /\ Is(args[k - 1], StringFlag) /\ ~args[k - 1].attached

\* The positions before next at which one of the flags gets a value.
Given(names) ==
  {k \in 1 .. next - 1 : Is(args[k], names) /\ (args[k].attached \/ HasValue(k))}

\* The value of a flag: the last one it gets, if any.
IsLastGiven(names, v) ==
  \/ Given(names) = {} /\ v = Empty
  \/ \E k \in Given(names) :
       /\ \A j \in Given(names) : j <= k
       /\ v = IF args[k].attached THEN args[k].value ELSE args[k + 1].text

PassedOn ==
  {k \in 1 .. next - 1 : ~IsValue(k) /\ ~Is(args[k], BoolFlag \union StringFlag)}

\* At every moment the loop has split what it has seen as the meaning of the
\* arguments says: a flag counts wherever it stands, the last value wins, a
\* value is never taken for a flag or passed on, and the launcher gets the
\* others in their order.
SplitAsMeant ==
  /\ disabled <=> \E k \in 1 .. next - 1 : Is(args[k], BoolFlag)
  /\ IsLastGiven(PromptFlag, prompt)
  /\ IsLastGiven(SourceFlag, source)
  /\ Len(rest) = Cardinality(PassedOn)
  /\ \A k \in PassedOn : rest[Cardinality(PassedOn \intersect 1 .. k)] = args[k]
=============================================================================
