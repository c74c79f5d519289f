----------------------------- MODULE MCNameGen -----------------------------
(***************************************************************************)
(* A small instance of NameGen: every unit for words of three letters,     *)
(* some of them for longer ones.                                           *)
(***************************************************************************)
EXTENDS NameGen

MCDrawn(n) == IF n < 4 THEN Unit ELSE {"a", "e", "i", "y", "b", "l", "ck"}

\* Some sequence of draws makes s a syllable.
RECURSIVE CanEnd(_)
CanEnd(s) ==
  \/ s.forced # <<>> /\ Broken(s, s.forced[1]) /\ CanEnd([s EXCEPT !.forced = <<>>])
  \/ \E u \in Choices(s) :
       /\ ~Broken(s, u)
       /\ IF Ends(s, u) THEN ~illegalPlacement(Units(s, u)) ELSE CanEnd(Extended(s, u))

\* The loop in genSyllable has no bound: an attempt that no draws can bring to an
\* end would be repeated for ever.  Every attempt can succeed, so one does with
\* probability one.
NeverStuck == status = "running" => CanEnd(Fresh(Missing, hold))
=============================================================================
