----------------------------- MODULE PiiFilter -----------------------------
(***************************************************************************)
(* The composite filter at work on a text.  Redact sends the text through  *)
(* the enabled filters in the order user name, mail, host; each goes over  *)
(* it once, from left to right, and what it puts in is not looked at again *)
(* by itself but is by the filters after it.                               *)
(***************************************************************************)
EXTENDS Redaction

CONSTANTS
  Texts,   \* the texts that come in
  Prefill  \* the tables the filters may be started with

ASSUME PiiFilterAssumption ==
  /\ \A t \in Texts : IsText(t)
  /\ \A m \in Prefill : DOMAIN m \subseteq Word /\ \A k \in DOMAIN m : m[k] \in Word

VARIABLES
  enabled,  \* the filters that are not nil
  table,    \* Replacements, the table they share
  stage,    \* the filter whose turn it is, "done" between two texts
  pos,      \* the word it has come to
  text,     \* the text so far
  plain,    \* history: the text as it came in
  before,   \* history: the table at that moment
  handed    \* history: the pairs <<original, replacement>> put into texts

vars == <<enabled, table, stage, pos, text, plain, before, handed>>

-----------------------------------------------------------------------------
\* A slip: the mail filter gets no turn.
NextStageWithoutMail(f) == IF f = "username" THEN "host" ELSE "done"

NextStage(f) ==
  CASE f = "username" -> "email"
    [] f = "email"    -> "host"
    [] f = "host"     -> "done"

-----------------------------------------------------------------------------
Init ==
  /\ enabled \in (SUBSET AllFilters) \ {{}}
  /\ table \in Prefill
  /\ stage = "done" /\ pos = 1
  /\ text = <<>> /\ plain = <<>> /\ before = table
  /\ handed = {}

\* Redact is called.
Receive(t) ==
  /\ stage = "done"
  /\ stage' = "username" /\ pos' = 1
  /\ text' = t /\ plain' = t
  /\ before' = table
  /\ UNCHANGED <<enabled, table, handed>>

AtWord == stage # "done" /\ pos \in DOMAIN text

\* The filter has found a name and replaces it.
ReplaceName ==
  /\ AtWord /\ stage \in enabled /\ Matches(stage, text[pos])
  /\ ~TakesSuffix(stage, text[pos])
  /\ LET o == text[pos].word IN
     \E r \in Replacements(table, o, FullInput(plain)) :
       /\ table' = Recorded(table, o, r)
       /\ text' = [text EXCEPT ![pos].word = r]
       /\ handed' = handed \union {<<o, r>>}
  /\ pos' = pos + 1
  /\ UNCHANGED <<enabled, stage, plain, before>>

\* The mail filter replaces the last label and the top level domain, and
\* enters the two together.
ReplaceWithTld ==
  /\ AtWord /\ stage \in enabled /\ Matches(stage, text[pos])
  /\ TakesSuffix(stage, text[pos])
  /\ LET o == text[pos].word
         t == text[pos].tld IN
     \E r \in Replacements(table, o, FullInput(plain)) :
       /\ table' = Entered(Recorded(table, o, r), o, r, t)
       /\ text' = [text EXCEPT ![pos] = Addressed(text[pos], r)]
       /\ handed' = handed \union {<<o, r>>, <<WithTld(o, t), WithTld(r, SuffixOf(t))>>}
  /\ pos' = pos + 1
  /\ UNCHANGED <<enabled, stage, plain, before>>

\* The word is none of the filter's.
PassWord ==
  /\ AtWord /\ stage \in enabled /\ ~Matches(stage, text[pos])
  /\ pos' = pos + 1
  /\ UNCHANGED <<enabled, table, stage, text, plain, before, handed>>

\* The filter is through with the text, or nil.
PassFilter ==
  /\ stage # "done"
  /\ stage \notin enabled \/ pos \notin DOMAIN text
  /\ stage' = NextStage(stage) /\ pos' = 1
  /\ UNCHANGED <<enabled, table, text, plain, before, handed>>

Next ==
  \/ \E t \in Texts : Receive(t)
  \/ ReplaceName
  \/ ReplaceWithTld
  \/ PassWord
  \/ PassFilter

Spec == Init /\ [][Next]_vars

-----------------------------------------------------------------------------
(***************************************************************************)
(* Properties                                                              *)
(***************************************************************************)

\* The variables have their types, and the text keeps its shape.
TypeOK ==
  /\ enabled \subseteq AllFilters
  /\ stage \in AllFilters \union {"done"}
  /\ pos \in 1 .. Len(plain) + 1
  /\ DOMAIN table \subseteq Word /\ \A k \in DOMAIN table : table[k] \in Word
  /\ handed \subseteq Word \X Word
  /\ DOMAIN text = DOMAIN plain
  /\ \A i \in DOMAIN text : /\ text[i] \in Token
                            /\ text[i].kind = plain[i].kind
                            /\ text[i].word.tld = NoTld

\* No word of the text is a replacement in another case.  A generated name is
\* compared with the text exactly, and one that is known in another case is not
\* compared with it at all.
CaseApart ==
  \A w \in FullInput(plain) : \A k \in DOMAIN table : SameFold(k, w) => k = w

\* The text has no word that stood for a name before, and no top level domain
\* that stands for another one.
ReadsPlain ==
  /\ FullInput(plain) \intersect DOMAIN before = {}
  /\ \A i \in DOMAIN plain : \A t \in Tld : HasSuffix(t) => plain[i].tld # SuffixOf(t)

\* What Redact makes of a text, Unredact takes back, whichever filters are
\* enabled and however often a word was replaced on the way.
RoundTrip ==
  stage = "done" /\ CaseApart /\ ReadsPlain => Unredact(table, enabled, text) = plain

\* A name that an enabled filter finds does not leave in any spelling, neither
\* in its own place nor in that of another name a filter found, unless it stood
\* for a name before, as those of the white list stand for themselves.
Found(i) == \E f \in enabled : Matches(f, plain[i])
NoLeak ==
  stage = "done" /\ CaseApart => \A i, j \in DOMAIN text :
    Found(i) /\ Found(j) /\ plain[i].word \notin DOMAIN before
      => ~SameFold(text[j].word, plain[i].word)

\* The model can follow a name through a text: wherever it stands as a word, or
\* as a label of an address, it has been replaced by the same name.
Linkable ==
  stage = "done" => \A i, j \in DOMAIN text :
    plain[i].word = plain[j].word /\ ((plain[i].kind = "word") = (plain[j].kind = "word"))
      => text[i].word = text[j].word

\* Word by word, a text comes to an end that Redact has for the text as a whole.
EndsAsRedact ==
  stage = "done" =>
    [table |-> table, text |-> text] \in Redact(before, enabled, plain, FullInput(plain))

\* The filters use the table as ReplacementTable describes.
Shared == INSTANCE ReplacementTable WITH
  Original <- UNION {FullInput(t) : t \in Texts},
  Inputs <- {FullInput(t) : t \in Texts}
SharedSpec == Shared!Spec

\* The README: mail addresses reuse the replacements the user name filter has
\* already chosen.
MailReusesNames ==
  stage = "done" /\ {"username", "email"} \subseteq enabled => \A i \in DOMAIN text :
    plain[i].kind # "word" /\ plain[i].word.stem \in UserNames
      => text[i].word \in Exact(table, plain[i].word)
=============================================================================
