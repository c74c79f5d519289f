---------------------------- MODULE StartupProofs ----------------------------
(***************************************************************************)
(* Proofs about Startup: what holds from the start of a program to the     *)
(* point where its filters work, for all command lines, databases, files   *)
(* of hosts and texts.                                                     *)
(*                                                                         *)
(* The argument: Redacted is a walk over a text.  A piece that is left was *)
(* passed over because no name matches there (WhatIsLeft), and a name that *)
(* occurs in the result is made of such pieces in a row, as no name has a  *)
(* replacement in it; it would have matched where it begins.  So no name   *)
(* of a list is left (NoListedNameIsLeft).  The lists are complete: what   *)
(* was read of the user database is what stands before the place, unless   *)
(* somebody moved it, and the host's own names do not depend on a lookup.  *)
(* The loop over the command line has split it as far as it has come.      *)
(***************************************************************************)
EXTENDS Startup, FiniteSetTheorems, SequenceTheorems, WellFoundedInduction, TLAPS

-----------------------------------------------------------------------------
(***************************************************************************)
(* Sets of numbers.                                                        *)
(***************************************************************************)

LEMMA LeastOf ==
  ASSUME NEW T, T \subseteq Nat, T # {}
  PROVE  \E x \in T : \A y \in T : x <= y
<1> DEFINE R == OpToRel(<, Nat)
<1>1. IsWellFoundedOn(R, Nat)
  BY NatLessThanWellFounded
<1>2. \A x, y \in Nat : y < x => <<y, x>> \in R
  BY DEF OpToRel
<1> HIDE DEF R
<1>3. PICK x \in T : \A y \in T : ~ (<<y, x>> \in R)
  BY <1>1, WFMin
<1>4. ASSUME NEW y \in T PROVE ~(y < x)
  BY <1>2, <1>3, Zenon
<1> QED BY <1>4

LEMMA GreatestOf ==
  ASSUME NEW b \in Nat, NEW T, T \subseteq 0 .. b, T # {}
  PROVE  \E x \in T : \A y \in T : x >= y
<1> DEFINE U == {b - y : y \in T}
<1>1. U \subseteq Nat /\ U # {}
  <2>1. \A y \in T : b - y \in Nat
    OBVIOUS
  <2>2. PICK y \in T : TRUE
    OBVIOUS
  <2>3. b - y \in U
    OBVIOUS
  <2> QED BY <2>1, <2>3
<1> HIDE DEF U
<1>2. PICK u \in U : \A v \in U : u <= v
  BY <1>1, LeastOf
<1> USE DEF U
<1>3. PICK x \in T : u = b - x
  OBVIOUS
<1>4. ASSUME NEW y \in T PROVE x >= y
  <2>1. b - y \in U
    OBVIOUS
  <2> HIDE DEF U
  <2>2. b - x <= b - y
    BY <1>2, <1>3, <2>1
  <2> QED BY <2>2
<1> QED BY <1>4

-----------------------------------------------------------------------------
(***************************************************************************)
(* Walks over a text.                                                      *)
(***************************************************************************)

\* At each of L pieces a walk puts head[k] out and goes on step[k] pieces further.
IsWalk(f, L, head, step) ==
  f = [k \in 1 .. L + 1 |-> IF k > L THEN <<>> ELSE head[k] \o f[k + step[k]]]

LEMMA WalkExists ==
  ASSUME NEW L \in Nat, NEW head, NEW step,
         \A k \in 1 .. L : step[k] \in Nat \ {0} /\ k + step[k] <= L + 1
  PROVE  \E f : IsWalk(f, L, head, step)
<1> DEFINE From(m, f) == \A k \in m .. L + 1 : f[k] = IF k > L THEN <<>> ELSE head[k] \o f[k + step[k]]
           T == {m \in 1 .. L + 1 : \E f : From(m, f)}
<1>1. L + 1 \in T
  <2> DEFINE f == [k \in {L + 1} |-> <<>>]
  <2>1. \A k \in L + 1 .. L + 1 : k = L + 1 /\ k > L
    OBVIOUS
  <2>2. f[L + 1] = <<>>
    OBVIOUS
  <2> HIDE DEF f
  <2>3. From(L + 1, f)
    BY <2>1, <2>2
  <2> HIDE DEF From
  <2> QED BY <2>3
<1> HIDE DEF T, From
<1>2. T \subseteq Nat /\ T # {}
  BY <1>1 DEF T
<1>3. PICK m \in T : \A n \in T : m <= n
  BY <1>2, LeastOf
<1>4. m \in 1 .. L + 1
  BY DEF T
<1>5. PICK f : From(m, f)
  BY DEF T
<1> USE DEF From
<1>6. m = 1
  <2> SUFFICES ASSUME m > 1 PROVE FALSE
    BY <1>4
  <2>1. m - 1 \in 1 .. L
    BY <1>4
  <2> DEFINE v == head[m - 1] \o f[m - 1 + step[m - 1]]
             g == [k \in m - 1 .. L + 1 |-> IF k = m - 1 THEN v ELSE f[k]]
  <2>2. g[m - 1] = v /\ \A k \in m .. L + 1 : g[k] = f[k]
    <3> HIDE DEF v
    <3>1. m - 1 \in m - 1 .. L + 1 /\ \A k \in m .. L + 1 : k \in m - 1 .. L + 1 /\ k # m - 1
      BY <1>4
    <3> QED BY <3>1
  <2>3. \A k \in m - 1 .. L : k + step[k] \in m .. L + 1
    BY <1>4, <2>1
  <2> HIDE DEF g
  <2>4. ASSUME NEW k \in m - 1 .. L + 1
        PROVE  g[k] = IF k > L THEN <<>> ELSE head[k] \o g[k + step[k]]
    <3>1. CASE k = m - 1
      <4>1. k <= L /\ g[k + step[k]] = f[k + step[k]]
        BY <1>4, <2>1, <2>2, <2>3, <3>1
      <4>2. g[k] = head[k] \o f[k + step[k]]
        BY <2>2, <3>1
      <4>3. ~(k > L)
        BY <4>1
      <4> QED BY <4>1, <4>2, <4>3
    <3>2. CASE k # m - 1 /\ k <= L
      <4>1. k \in m .. L + 1 /\ g[k + step[k]] = f[k + step[k]] /\ g[k] = f[k]
        BY <1>4, <2>1, <2>2, <2>3, <3>2
      <4> QED BY <1>5, <3>2, <4>1
    <3>3. CASE k > L
      <4>1. k = L + 1 /\ k \in m .. L + 1
        BY <1>4, <3>3
      <4> QED BY <1>5, <2>2, <3>3, <4>1
    <3> QED BY <1>4, <3>1, <3>2, <3>3
  <2>5. From(m - 1, g)
    BY <2>4
  <2>6. m - 1 \in T
    BY <1>4, <2>1, <2>5 DEF T
  <2> QED BY <1>3, <1>4, <2>6
<1> DEFINE h == [k \in 1 .. L + 1 |-> f[k]]
<1>7. \A k \in 1 .. L : k + step[k] \in 1 .. L + 1
  OBVIOUS
<1>8. \A k \in 1 .. L + 1 : h[k] = IF k > L THEN <<>> ELSE head[k] \o h[k + step[k]]
  BY <1>5, <1>6, <1>7
<1>9. h = [k \in 1 .. L + 1 |-> h[k]]
  OBVIOUS
<1> HIDE DEF h
<1>10. IsWalk(h, L, head, step)
  BY <1>8, <1>9 DEF IsWalk
<1> QED BY <1>10

-----------------------------------------------------------------------------
(***************************************************************************)
(* Names, and where they stand in a text.                                  *)
(***************************************************************************)

LEMMA NameFacts ==
  ASSUME NEW n \in Name
  PROVE  /\ Len(n) \in Nat /\ DOMAIN n = 1 .. Len(n)
         /\ \A k \in 1 .. Len(n) : n[k] \in DOMAIN Width /\ Width[n[k]] \in Nat \ {0}
         /\ n # <<>> => Len(n) >= 1
<1>1. n \in Seq(DOMAIN Width)
  BY DEF Name
<1>2. /\ Len(n) \in Nat /\ DOMAIN n = 1 .. Len(n)
      /\ \A k \in 1 .. Len(n) : n[k] \in DOMAIN Width
  BY <1>1, LenProperties, ElementOfSeq
<1>3. n # <<>> => Len(n) >= 1
  BY <1>1, <1>2, EmptySeq
<1> QED BY <1>2, <1>3, NameSearchAssumption

\* Two sequences with the same members are the same.
LEMMA SeqEquality ==
  ASSUME NEW m \in Name, NEW n \in Name, Len(m) = Len(n),
         \A k \in 1 .. Len(m) : m[k] = n[k]
  PROVE  m = n
<1>1. m \in Seq(DOMAIN Width) /\ n \in Seq(DOMAIN Width)
  BY DEF Name
<1> QED BY <1>1, SeqEqual

\* A name stands where each of its pieces stands.
LEMMA StandsFacts ==
  ASSUME NEW n \in Name, NEW t \in Name, NEW k \in Nat \ {0}
  PROVE  StandsAt(n, t, k) <=> /\ k + Len(n) - 1 <= Len(t)
                               /\ \A i \in 1 .. Len(n) : t[k + i - 1] = n[i]
<1>1. Len(n) \in Nat /\ Len(t) \in Nat /\ \A j \in 1 .. Len(t) : t[j] \in DOMAIN Width
  BY NameFacts
<1> DEFINE last == k + Len(n) - 1
           sub == SubSeq(t, k, last)
<1> SUFFICES ASSUME last <= Len(t)
             PROVE  sub = n <=> \A i \in 1 .. Len(n) : t[k + i - 1] = n[i]
  BY DEF StandsAt
<1>2. last \in Int /\ k \in Int /\ \A i \in k .. last : t[i] \in DOMAIN Width
  BY <1>1
<1>3. last - k + 1 = Len(n) /\ (IF k <= last THEN last - k + 1 ELSE 0) = Len(n)
  BY <1>1
<1> HIDE DEF last
<1>4. /\ sub \in Name
      /\ Len(sub) = IF k <= last THEN last - k + 1 ELSE 0
      /\ \A i \in 1 .. last - k + 1 : sub[i] = t[k + i - 1]
  <2> DEFINE S == DOMAIN Width
  <2>1. \A i \in k .. last : t[i] \in S
    BY <1>2
  <2> HIDE DEF S
  <2>2. /\ SubSeq(t, k, last) \in Seq(S)
        /\ Len(SubSeq(t, k, last)) = IF k <= last THEN last - k + 1 ELSE 0
        /\ \A i \in 1 .. last - k + 1 : SubSeq(t, k, last)[i] = t[k + i - 1]
    BY <1>2, <2>1, SubSeqProperties
  <2> QED BY <2>2 DEF S, Name
<1> HIDE DEF sub
<1>5. Len(sub) = Len(n) /\ \A i \in 1 .. Len(n) : sub[i] = t[k + i - 1]
  BY <1>3, <1>4
<1>6. (\A i \in 1 .. Len(n) : sub[i] = n[i]) => sub = n
  BY <1>4, <1>5, SeqEquality
<1> QED BY <1>5, <1>6

-----------------------------------------------------------------------------
(***************************************************************************)
(* The order of the alternatives.                                          *)
(***************************************************************************)

\* The width of the first k pieces of n, for each k.
Widths(n, f) ==
  f = [k \in 0 .. Len(n) |-> IF k = 0 THEN 0 ELSE f[k - 1] + Width[n[k]]]

LEMMA WidthsExist ==
  ASSUME NEW n \in Name
  PROVE  \E f : Widths(n, f)
<1> DEFINE Upto(m, f) == \A k \in 0 .. m : f[k] = IF k = 0 THEN 0 ELSE f[k - 1] + Width[n[k]]
           T == {m \in 0 .. Len(n) : \E f : Upto(m, f)}
<1>1. Len(n) \in Nat
  BY NameFacts
<1>2. 0 \in T
  <2> DEFINE f == [k \in {0} |-> 0]
  <2>1. f[0] = 0 /\ \A k \in 0 .. 0 : k = 0
    OBVIOUS
  <2> HIDE DEF f
  <2>2. Upto(0, f)
    BY <2>1
  <2>3. 0 \in 0 .. Len(n)
    BY <1>1
  <2> HIDE DEF Upto
  <2> QED BY <2>2, <2>3
<1> HIDE DEF T, Upto
<1>3. T \subseteq 0 .. Len(n) /\ T # {}
  BY <1>2 DEF T
<1>4. PICK m \in T : \A j \in T : m >= j
  BY <1>1, <1>3, GreatestOf
<1>5. PICK f : Upto(m, f)
  BY DEF T
<1>6. m \in 0 .. Len(n)
  BY <1>3
<1> USE DEF Upto
<1>7. m = Len(n)
  <2> SUFFICES ASSUME m < Len(n) PROVE FALSE
    BY <1>1, <1>6
  <2> DEFINE v == f[m] + Width[n[m + 1]]
             g == [k \in 0 .. m + 1 |-> IF k = m + 1 THEN v ELSE f[k]]
  <2>1. g[m + 1] = v /\ \A k \in 0 .. m : g[k] = f[k]
    <3> HIDE DEF v
    <3>1. m + 1 \in 0 .. m + 1 /\ \A k \in 0 .. m : k \in 0 .. m + 1 /\ k # m + 1
      BY <1>6
    <3> QED BY <3>1
  <2> HIDE DEF g
  <2>2. ASSUME NEW k \in 0 .. m + 1
        PROVE  g[k] = IF k = 0 THEN 0 ELSE g[k - 1] + Width[n[k]]
    <3>1. CASE k = m + 1
      <4>1. k # 0 /\ k - 1 = m /\ m \in 0 .. m
        BY <1>6, <3>1
      <4> QED BY <2>1, <3>1, <4>1
    <3>2. CASE k # m + 1
      <4>1. k \in 0 .. m /\ (k # 0 => k - 1 \in 0 .. m)
        BY <1>6, <3>2
      <4> QED BY <1>5, <2>1, <4>1
    <3> QED BY <3>1, <3>2
  <2>3. Upto(m + 1, g)
    BY <2>2
  <2>4. m + 1 \in 0 .. Len(n) /\ ~(m >= m + 1)
    BY <1>6
  <2> HIDE DEF Upto
  <2>5. m + 1 \in T
    BY <2>3, <2>4 DEF T
  <2> QED BY <1>4, <2>4, <2>5
<1> DEFINE h == [k \in 0 .. Len(n) |-> f[k]]
<1>8. \A k \in 0 .. Len(n) : k # 0 => k - 1 \in 0 .. Len(n)
  BY <1>1
<1>9. \A k \in 0 .. Len(n) : h[k] = IF k = 0 THEN 0 ELSE h[k - 1] + Width[n[k]]
  BY <1>5, <1>7, <1>8
<1>10. h = [k \in 0 .. Len(n) |-> h[k]]
  OBVIOUS
<1> HIDE DEF h
<1>11. Widths(n, h)
  BY <1>9, <1>10 DEF Widths
<1> QED BY <1>11

\* The width of a name, piece by piece.
LEMMA PatternWidthFacts ==
  ASSUME NEW n \in Name
  PROVE  \E f : /\ PatternWidth(n) = f[Len(n)]
                /\ f[0] = 0
                /\ \A k \in 1 .. Len(n) : f[k] = f[k - 1] + Width[n[k]]
                /\ \A k \in 0 .. Len(n) : f[k] \in Nat
<1> DEFINE f == CHOOSE g : Widths(n, g)
<1>1. PatternWidth(n) = f[Len(n)]
  BY Zenon DEF PatternWidth, Widths
<1>2. Widths(n, f)
  BY WidthsExist, Zenon
<1> HIDE DEF f
<1>3. Len(n) \in Nat /\ \A k \in 1 .. Len(n) : Width[n[k]] \in Nat
  BY NameFacts
<1>4. \A k \in 0 .. Len(n) : f[k] = IF k = 0 THEN 0 ELSE f[k - 1] + Width[n[k]]
  BY <1>2, Zenon DEF Widths
<1>5. f[0] = 0 /\ \A k \in 1 .. Len(n) : f[k] = f[k - 1] + Width[n[k]]
  <2>1. 0 \in 0 .. Len(n) /\ \A k \in 1 .. Len(n) : k \in 0 .. Len(n) /\ k # 0
    BY <1>3
  <2> QED BY <1>4, <2>1
<1>6. \A k \in 0 .. Len(n) : f[k] \in Nat
  <2> DEFINE T == {k \in 0 .. Len(n) : f[k] \notin Nat}
  <2> SUFFICES ASSUME T # {} PROVE FALSE
    OBVIOUS
  <2>1. T \subseteq Nat
    BY <1>3
  <2> HIDE DEF T
  <2>2. PICK k \in T : \A j \in T : k <= j
    BY <2>1, LeastOf
  <2> USE DEF T
  <2>3. k \in 0 .. Len(n) /\ f[k] \notin Nat
    OBVIOUS
  <2>4. k \in 1 .. Len(n)
    BY <1>3, <1>5, <2>3
  <2>5. k - 1 \in 0 .. Len(n) /\ k - 1 \notin T
    <3> HIDE DEF T
    <3>1. k - 1 \in 0 .. Len(n) /\ ~(k <= k - 1)
      BY <1>3, <2>4
    <3> QED BY <2>2, <3>1
  <2>6. f[k - 1] \in Nat
    BY <2>5
  <2> QED BY <1>3, <1>5, <2>3, <2>4, <2>6
<1> QED BY <1>1, <1>5, <1>6

\* A name that begins another one comes after it in the expression.
LEMMA LongerIsWider ==
  ASSUME NEW m \in Name, NEW n \in Name, Len(m) < Len(n),
         \A k \in 1 .. Len(m) : m[k] = n[k]
  PROVE  /\ PatternWidth(m) \in Nat /\ PatternWidth(n) \in Nat
         /\ PatternWidth(m) < PatternWidth(n)
<1>1. /\ Len(m) \in Nat /\ Len(n) \in Nat
      /\ \A k \in 1 .. Len(n) : Width[n[k]] \in Nat \ {0}
  BY NameFacts
<1>2. PICK f : /\ PatternWidth(m) = f[Len(m)] /\ f[0] = 0
               /\ \A k \in 1 .. Len(m) : f[k] = f[k - 1] + Width[m[k]]
               /\ \A k \in 0 .. Len(m) : f[k] \in Nat
  BY PatternWidthFacts
<1>3. PICK g : /\ PatternWidth(n) = g[Len(n)] /\ g[0] = 0
               /\ \A k \in 1 .. Len(n) : g[k] = g[k - 1] + Width[n[k]]
               /\ \A k \in 0 .. Len(n) : g[k] \in Nat
  BY PatternWidthFacts
<1>4. \A k \in 0 .. Len(m) : f[k] = g[k]
  <2> DEFINE T == {k \in 0 .. Len(m) : f[k] # g[k]}
  <2> SUFFICES ASSUME T # {} PROVE FALSE
    OBVIOUS
  <2>1. T \subseteq Nat
    BY <1>1
  <2> HIDE DEF T
  <2>2. PICK k \in T : \A j \in T : k <= j
    BY <2>1, LeastOf
  <2>3. k \in 0 .. Len(m) /\ f[k] # g[k]
    BY DEF T
  <2>4. k \in 1 .. Len(m) /\ k \in 1 .. Len(n)
    BY <1>1, <1>2, <1>3, <2>3
  <2>5. k - 1 \in 0 .. Len(m) /\ ~(k <= k - 1)
    BY <1>1, <2>4
  <2>6. f[k - 1] = g[k - 1]
    BY <2>2, <2>5 DEF T
  <2>7. m[k] = n[k] /\ f[k] = f[k - 1] + Width[m[k]] /\ g[k] = g[k - 1] + Width[n[k]]
    BY <1>2, <1>3, <2>4
  <2> QED BY <2>3, <2>6, <2>7
<1>5. \A k \in Len(m) + 1 .. Len(n) : g[k] > g[Len(m)]
  <2> DEFINE T == {k \in Len(m) + 1 .. Len(n) : ~(g[k] > g[Len(m)])}
  <2> SUFFICES ASSUME T # {} PROVE FALSE
    OBVIOUS
  <2>1. T \subseteq Nat
    BY <1>1
  <2> HIDE DEF T
  <2>2. PICK k \in T : \A j \in T : k <= j
    BY <2>1, LeastOf
  <2>3. k \in Len(m) + 1 .. Len(n) /\ ~(g[k] > g[Len(m)])
    BY DEF T
  <2>4. /\ k \in 1 .. Len(n) /\ k - 1 \in 0 .. Len(n) /\ ~(k <= k - 1)
        /\ k - 1 = Len(m) \/ k - 1 \in Len(m) + 1 .. Len(n)
        /\ k \in 0 .. Len(n) /\ Len(m) \in 0 .. Len(n)
    BY <1>1, <2>3
  <2>5. k - 1 = Len(m) \/ g[k - 1] > g[Len(m)]
    BY <2>2, <2>4 DEF T
  <2>6. g[k] = g[k - 1] + Width[n[k]] /\ Width[n[k]] \in Nat \ {0}
        /\ g[k] \in Nat /\ g[k - 1] \in Nat /\ g[Len(m)] \in Nat
    BY <1>1, <1>3, <2>4
  <2> QED BY <2>3, <2>5, <2>6
<1>6. Len(m) \in 0 .. Len(m) /\ Len(n) \in Len(m) + 1 .. Len(n) /\ Len(n) \in 0 .. Len(n)
  BY <1>1
<1> QED BY <1>2, <1>3, <1>4, <1>5, <1>6

\* Of two alternatives that match at one place the longer one is the wider.
LEMMA MatchesOrder ==
  ASSUME NEW names, names \subseteq Name, NEW t \in Name, NEW k \in 1 .. Len(t),
         NEW m \in MatchesAt(names, t, k), NEW n \in MatchesAt(names, t, k)
  PROVE  /\ Len(m) = Len(n) => m = n
         /\ Len(m) < Len(n) => /\ PatternWidth(m) \in Nat /\ PatternWidth(n) \in Nat
                               /\ PatternWidth(m) < PatternWidth(n)
<1>1. m \in Name /\ n \in Name /\ StandsAt(m, t, k) /\ StandsAt(n, t, k)
  BY DEF MatchesAt
<1>2. Len(m) \in Nat /\ Len(n) \in Nat /\ Len(t) \in Nat /\ k \in Nat \ {0}
  BY <1>1, NameFacts
<1>3. /\ \A i \in 1 .. Len(m) : t[k + i - 1] = m[i]
      /\ \A i \in 1 .. Len(n) : t[k + i - 1] = n[i]
  BY <1>1, <1>2, StandsFacts
<1>4. ASSUME Len(m) <= Len(n) PROVE \A i \in 1 .. Len(m) : m[i] = n[i]
  BY <1>2, <1>3, <1>4
<1>5. Len(m) = Len(n) => m = n
  BY <1>1, <1>2, <1>4, SeqEquality
<1>6. ASSUME Len(m) < Len(n)
      PROVE  /\ PatternWidth(m) \in Nat /\ PatternWidth(n) \in Nat
             /\ PatternWidth(m) < PatternWidth(n)
  BY <1>1, <1>2, <1>4, <1>6, LongerIsWider
<1> QED BY <1>5, <1>6

\* The first alternative that matches is the longest.
LEMMA FirstFacts ==
  ASSUME NEW names, names \subseteq Name, NEW t \in Name, NEW k \in 1 .. Len(t),
         MatchesAt(names, t, k) # {}
  PROVE  /\ First(MatchesAt(names, t, k)) \in MatchesAt(names, t, k)
         /\ \A m \in MatchesAt(names, t, k) : Len(m) <= Len(First(MatchesAt(names, t, k)))
<1> DEFINE ns == MatchesAt(names, t, k)
           lengths == {Len(n) : n \in ns}
           Widest(n) == \A m \in ns : PatternWidth(n) >= PatternWidth(m)
<1>1. Len(t) \in Nat /\ k \in Nat \ {0}
  BY NameFacts
<1>2. ASSUME NEW n \in ns PROVE n \in Name /\ Len(n) \in 0 .. Len(t) /\ PatternWidth(n) \in Nat
  <2>1. n \in Name /\ StandsAt(n, t, k)
    BY <1>2 DEF MatchesAt
  <2>2. Len(n) \in Nat /\ k + Len(n) - 1 <= Len(t)
    BY <1>1, <2>1, NameFacts, StandsFacts
  <2>3. PatternWidth(n) \in Nat
    <3>1. Len(n) \in 0 .. Len(n)
      BY <2>2
    <3> QED BY <2>1, <3>1, PatternWidthFacts
  <2> QED BY <1>1, <2>1, <2>2, <2>3
<1>3. \A m, n \in ns : /\ Len(m) = Len(n) => m = n
                       /\ Len(m) < Len(n) => PatternWidth(m) < PatternWidth(n)
  BY MatchesOrder
<1> HIDE DEF ns
<1>4. lengths \subseteq 0 .. Len(t) /\ lengths # {}
  BY <1>2 DEF ns
<1> HIDE DEF lengths
<1>5. PICK l \in lengths : \A j \in lengths : l >= j
  BY <1>1, <1>4, GreatestOf
<1>6. PICK n \in ns : Len(n) = l
  BY DEF lengths
<1>7. ASSUME NEW m \in ns PROVE PatternWidth(n) >= PatternWidth(m)
  <2>1. Len(m) <= Len(n)
    BY <1>5, <1>6 DEF lengths
  <2>2. /\ Len(m) \in Nat /\ Len(n) \in Nat
        /\ PatternWidth(m) \in Nat /\ PatternWidth(n) \in Nat
    BY <1>2, <1>6
  <2>3. /\ Len(m) = Len(n) => m = n
        /\ Len(m) < Len(n) => PatternWidth(m) < PatternWidth(n)
    BY <1>3, <1>6
  <2> QED BY <2>1, <2>2, <2>3
<1>8. Widest(n)
  BY <1>7
<1> HIDE DEF Widest
<1>9. First(ns) \in ns /\ Widest(First(ns))
  <2>1. First(ns) = CHOOSE x \in ns : Widest(x)
    BY DEF First, Widest
  <2> QED BY <1>6, <1>8, <2>1, Zenon
<1> DEFINE first == First(ns)
<1> HIDE DEF first
<1>10. first \in ns /\ \A m \in ns : PatternWidth(first) >= PatternWidth(m)
  BY <1>9 DEF Widest, first
<1>11. ASSUME NEW m \in ns PROVE Len(m) <= Len(first)
  <2>1. /\ Len(m) \in Nat /\ Len(first) \in Nat
        /\ PatternWidth(m) \in Nat /\ PatternWidth(first) \in Nat
    BY <1>2, <1>10
  <2> SUFFICES ASSUME Len(first) < Len(m) PROVE FALSE
    BY <2>1
  <2>2. PatternWidth(first) < PatternWidth(m) /\ PatternWidth(first) >= PatternWidth(m)
    BY <1>3, <1>10
  <2> QED BY <2>1, <2>2
<1> QED BY <1>10, <1>11 DEF first, ns

-----------------------------------------------------------------------------
(***************************************************************************)
(* The text with replacements.                                             *)
(***************************************************************************)

\* A piece put before a text.
LEMMA PutBefore ==
  ASSUME NEW s \in Name, NEW x \in DOMAIN Width
  PROVE  /\ <<x>> \o s \in Name
         /\ Len(<<x>> \o s) = Len(s) + 1
         /\ (<<x>> \o s)[1] = x
         /\ \A i \in 1 .. Len(s) : (<<x>> \o s)[i + 1] = s[i]
<1>1. /\ <<x>> \in Seq(DOMAIN Width) /\ Len(<<x>>) = 1 /\ <<x>>[1] = x
      /\ s \in Seq(DOMAIN Width) /\ Len(s) \in Nat
  BY NameFacts DEF Name
<1> DEFINE u == <<x>>
<1> HIDE DEF u
<1>2. u \in Seq(DOMAIN Width) /\ Len(u) = 1 /\ u[1] = x
  BY <1>1 DEF u
<1>3. /\ u \o s \in Seq(DOMAIN Width)
      /\ Len(u \o s) = Len(u) + Len(s)
      /\ \A i \in 1 .. Len(u) + Len(s) : (u \o s)[i] = IF i <= Len(u) THEN u[i] ELSE s[i - Len(u)]
  BY <1>1, <1>2, ConcatProperties
<1> DEFINE v == u \o s
<1>4. v \in Name /\ v = <<x>> \o s
  BY <1>3 DEF u, Name
<1> HIDE DEF v
<1>5. /\ Len(v) = Len(s) + 1 /\ v[1] = x
      /\ \A i \in 1 .. Len(s) : v[i + 1] = s[i]
  <2>1. /\ Len(v) = 1 + Len(s)
        /\ \A i \in 1 .. 1 + Len(s) : v[i] = IF i <= 1 THEN u[i] ELSE s[i - 1]
    BY <1>2, <1>3 DEF v
  <2> QED BY <1>1, <1>2, <2>1
<1> QED BY <1>4, <1>5

\* How the replacing goes on at piece k: a match is replaced as a whole, and
\* another piece stays.
LEMMA RedactedFacts ==
  ASSUME NEW names, names \subseteq Name \ {<<>>}, NEW t \in Name
  PROVE  \E f :
           /\ Redacted(names, t) = f[1]
           /\ f[Len(t) + 1] = <<>>
           /\ \A k \in 1 .. Len(t) :
                LET ns == MatchesAt(names, t, k) IN
                /\ ns = {} => f[k] = <<t[k]>> \o f[k + 1]
                /\ ns # {} => /\ k + Len(First(ns)) \in k + 1 .. Len(t) + 1
                              /\ f[k] = <<Code>> \o f[k + Len(First(ns))]
           /\ \A k \in 1 .. Len(t) + 1 : f[k] \in Name
<1> DEFINE L == Len(t)
           ms(k) == MatchesAt(names, t, k)
           head == [k \in 1 .. L |-> IF ms(k) = {} THEN <<t[k]>> ELSE <<Code>>]
           step == [k \in 1 .. L |-> IF ms(k) = {} THEN 1 ELSE Len(First(ms(k)))]
           IsFrom(f) == f = [k \in 1 .. L + 1 |->
                               IF k > L THEN <<>>
                               ELSE LET ns == ms(k)
                                    IN  IF ns = {} THEN <<t[k]>> \o f[k + 1]
                                        ELSE <<Code>> \o f[k + Len(First(ns))]]
           from == CHOOSE f : IsFrom(f)
<1>1. L \in Nat /\ \A k \in 1 .. L : t[k] \in DOMAIN Width
  BY NameFacts
<1>2. Redacted(names, t) = from[1]
  BY Zenon DEF Redacted
<1>3. ASSUME NEW k \in 1 .. L, ms(k) # {}
      PROVE  Len(First(ms(k))) \in Nat \ {0} /\ k + Len(First(ms(k))) <= L + 1
  <2> DEFINE n == First(ms(k))
  <2>1. n \in ms(k)
    BY <1>3, FirstFacts
  <2> HIDE DEF n
  <2>2. n \in Name /\ n # <<>> /\ StandsAt(n, t, k)
    BY <2>1 DEF MatchesAt
  <2>3. Len(n) \in Nat /\ Len(n) >= 1 /\ k \in Nat \ {0}
    BY <1>1, <2>2, NameFacts
  <2>4. k + Len(n) - 1 <= Len(t)
    BY <2>2, <2>3, StandsFacts
  <2> QED BY <1>1, <2>3, <2>4 DEF n
<1> HIDE DEF ms
<1>4. \A k \in 1 .. L : step[k] \in Nat \ {0} /\ k + step[k] <= L + 1
  BY <1>1, <1>3
<1>5. ASSUME NEW f PROVE IsFrom(f) <=> IsWalk(f, L, head, step)
  <2>1. ASSUME NEW k \in 1 .. L + 1
        PROVE  (IF k > L THEN <<>>
                ELSE LET ns == ms(k)
                     IN  IF ns = {} THEN <<t[k]>> \o f[k + 1]
                         ELSE <<Code>> \o f[k + Len(First(ns))])
               = IF k > L THEN <<>> ELSE head[k] \o f[k + step[k]]
    <3>1. CASE k > L
      BY <3>1
    <3>2. CASE ~(k > L)
      <4>1. k \in 1 .. L
        BY <1>1, <3>2
      <4>2. CASE ms(k) = {}
        <5>1. head[k] = <<t[k]>> /\ step[k] = 1
          BY <4>1, <4>2
        <5> HIDE DEF head, step
        <5> QED BY <3>2, <4>2, <5>1
      <4>3. CASE ms(k) # {}
        <5>1. head[k] = <<Code>> /\ step[k] = Len(First(ms(k)))
          BY <4>1, <4>3
        <5> HIDE DEF head, step
        <5> QED BY <3>2, <4>3, <5>1
      <4> QED BY <4>2, <4>3
    <3> QED BY <3>1, <3>2
  <2> HIDE DEF head, step
  <2> QED BY <2>1 DEF IsWalk
<1>6. \E f : IsFrom(f)
  <2> HIDE DEF L, head, step, IsFrom
  <2> QED BY <1>1, <1>4, <1>5, WalkExists
<1>7. IsFrom(from)
  <2> HIDE DEF IsFrom
  <2> QED BY <1>6, Zenon
<1> HIDE DEF from
<1>8. IsWalk(from, L, head, step)
  BY <1>5, <1>7
<1> HIDE DEF IsFrom
<1>9. \A k \in 1 .. L + 1 : from[k] = IF k > L THEN <<>> ELSE head[k] \o from[k + step[k]]
  <2> HIDE DEF head, step
  <2> QED BY <1>8, Zenon DEF IsWalk
<1>10. from[L + 1] = <<>> /\ \A k \in 1 .. L : from[k] = head[k] \o from[k + step[k]]
  <2> HIDE DEF head, step
  <2>1. L + 1 \in 1 .. L + 1 /\ L + 1 > L /\ \A k \in 1 .. L : k \in 1 .. L + 1 /\ ~(k > L)
    BY <1>1
  <2> QED BY <1>9, <2>1
<1>11. ASSUME NEW k \in 1 .. L
       PROVE  /\ ms(k) = {} => from[k] = <<t[k]>> \o from[k + 1]
              /\ ms(k) # {} => /\ k + Len(First(ms(k))) \in k + 1 .. L + 1
                               /\ from[k] = <<Code>> \o from[k + Len(First(ms(k)))]
  <2>1. /\ head[k] = IF ms(k) = {} THEN <<t[k]>> ELSE <<Code>>
        /\ step[k] = IF ms(k) = {} THEN 1 ELSE Len(First(ms(k)))
    OBVIOUS
  <2>2. from[k] = head[k] \o from[k + step[k]]
    <3> HIDE DEF head, step
    <3> QED BY <1>10
  <2> HIDE DEF head, step
  <2>3. ASSUME ms(k) = {} PROVE from[k] = <<t[k]>> \o from[k + 1]
    <3>1. head[k] = <<t[k]>> /\ step[k] = 1
      BY <2>1, <2>3
    <3> QED BY <2>2, <3>1
  <2>4. ASSUME ms(k) # {} PROVE from[k] = <<Code>> \o from[k + Len(First(ms(k)))]
    <3>1. head[k] = <<Code>> /\ step[k] = Len(First(ms(k)))
      BY <2>1, <2>4
    <3> QED BY <2>2, <3>1
  <2>5. ASSUME ms(k) # {} PROVE k + Len(First(ms(k))) \in k + 1 .. L + 1
    <3>1. Len(First(ms(k))) \in Nat \ {0} /\ k + Len(First(ms(k))) <= L + 1
      BY <1>3, <2>5
    <3> QED BY <1>1, <3>1
  <2> QED BY <2>3, <2>4, <2>5
<1>12. \A k \in 1 .. L + 1 : from[k] \in Name
  <2> DEFINE T == {l \in 0 .. L : from[L + 1 - l] \notin Name}
  <2>1. T = {}
    <3> SUFFICES ASSUME T # {} PROVE FALSE
      OBVIOUS
    <3>1. T \subseteq Nat
      BY <1>1
    <3> HIDE DEF T
    <3>2. PICK l \in T : \A j \in T : l <= j
      BY <3>1, LeastOf
    <3>3. l \in 0 .. L /\ from[L + 1 - l] \notin Name
      BY DEF T
    <3>4. l # 0
      <4>1. <<>> \in Name
        BY DEF Name
      <4> QED BY <1>1, <1>10, <3>3, <4>1
    <3> DEFINE k == L + 1 - l
               goesTo == k + step[k]
    <3>5. k \in 1 .. L /\ from[k] \notin Name /\ from[k] = head[k] \o from[goesTo]
      <4>1. k \in 1 .. L
        BY <1>1, <3>3, <3>4
      <4>2. from[k] \notin Name
        BY <3>3
      <4> HIDE DEF head, step, k
      <4> QED BY <1>10, <4>1, <4>2
    <3>6. goesTo \in k + 1 .. L + 1
      <4> HIDE DEF step
      <4>1. step[k] \in Nat \ {0} /\ k + step[k] <= L + 1
        BY <1>4, <3>5
      <4> QED BY <1>1, <3>5, <4>1
    <3> HIDE DEF goesTo
    <3>7. from[goesTo] \in Name
      <4>1. L + 1 - goesTo \in 0 .. L /\ ~(l <= L + 1 - goesTo) /\ L + 1 - (L + 1 - goesTo) = goesTo
        BY <1>1, <3>3, <3>6
      <4> QED BY <3>2, <4>1 DEF T
    <3>8. \E x \in DOMAIN Width : head[k] = <<x>>
      <4> HIDE DEF k
      <4> QED BY <1>1, <3>5, NameSearchAssumption
    <3> HIDE DEF head
    <3> QED BY <3>5, <3>7, <3>8, PutBefore
  <2> SUFFICES ASSUME NEW k \in 1 .. L + 1 PROVE from[k] \in Name
    OBVIOUS
  <2>2. L + 1 - k \in 0 .. L /\ L + 1 - (L + 1 - k) = k
    BY <1>1
  <2> QED BY <2>1, <2>2
<1> QED BY <1>2, <1>10, <1>11, <1>12 DEF ms

\* The same, piece by piece.
LEMMA RedactedPieces ==
  ASSUME NEW names, names \subseteq Name \ {<<>>}, NEW t \in Name
  PROVE  \E f :
           /\ Redacted(names, t) = f[1]
           /\ \A k \in 1 .. Len(t) + 1 : f[k] \in Name
           /\ Len(f[Len(t) + 1]) = 0
           /\ \A k \in 1 .. Len(t) : \E goes \in k + 1 .. Len(t) + 1 :
                /\ Len(f[k]) = Len(f[goes]) + 1
                /\ \A i \in 1 .. Len(f[goes]) : f[k][i + 1] = f[goes][i]
                /\ \/ MatchesAt(names, t, k) = {} /\ goes = k + 1 /\ f[k][1] = t[k]
                   \/ /\ MatchesAt(names, t, k) # {} /\ f[k][1] = Code
                      /\ goes = k + Len(First(MatchesAt(names, t, k)))
<1> DEFINE L == Len(t)
           ms(k) == MatchesAt(names, t, k)
<1>1. L \in Nat /\ \A k \in 1 .. L : t[k] \in DOMAIN Width
  BY NameFacts
<1>2. PICK f :
        /\ Redacted(names, t) = f[1]
        /\ f[L + 1] = <<>>
        /\ \A k \in 1 .. L :
             /\ ms(k) = {} => f[k] = <<t[k]>> \o f[k + 1]
             /\ ms(k) # {} => /\ k + Len(First(ms(k))) \in k + 1 .. L + 1
                              /\ f[k] = <<Code>> \o f[k + Len(First(ms(k)))]
        /\ \A k \in 1 .. L + 1 : f[k] \in Name
  BY RedactedFacts
<1>3. Len(f[L + 1]) = 0
  BY <1>2
<1> HIDE DEF ms
<1>4. ASSUME NEW k \in 1 .. L
      PROVE  \E goes \in k + 1 .. L + 1 :
               /\ Len(f[k]) = Len(f[goes]) + 1
               /\ \A i \in 1 .. Len(f[goes]) : f[k][i + 1] = f[goes][i]
               /\ \/ ms(k) = {} /\ goes = k + 1 /\ f[k][1] = t[k]
                  \/ ms(k) # {} /\ f[k][1] = Code /\ goes = k + Len(First(ms(k)))
  <2>1. ASSUME NEW goes \in k + 1 .. L + 1, NEW x \in DOMAIN Width, f[k] = <<x>> \o f[goes]
        PROVE  /\ Len(f[k]) = Len(f[goes]) + 1
               /\ \A i \in 1 .. Len(f[goes]) : f[k][i + 1] = f[goes][i]
               /\ f[k][1] = x
    <3>1. f[goes] \in Name
      BY <1>1, <1>2
    <3> QED BY <2>1, <3>1, PutBefore
  <2>2. ASSUME ms(k) = {}
        PROVE  /\ k + 1 \in k + 1 .. L + 1 /\ t[k] \in DOMAIN Width
               /\ f[k] = <<t[k]>> \o f[k + 1]
    BY <1>1, <1>2, <2>2
  <2>3. ASSUME ms(k) # {}
        PROVE  /\ k + Len(First(ms(k))) \in k + 1 .. L + 1 /\ Code \in DOMAIN Width
               /\ f[k] = <<Code>> \o f[k + Len(First(ms(k)))]
    BY <1>2, <2>3, NameSearchAssumption
  <2>4. CASE ms(k) = {}
    BY <2>1, <2>2, <2>4
  <2>5. CASE ms(k) # {}
    BY <2>1, <2>3, <2>5
  <2> QED BY <2>4, <2>5
<1> QED BY <1>2, <1>3, <1>4 DEF ms

\* What a name of the redacted text is made of: where it holds no replacement
\* it stood in the text before, at a place where nothing matched.
LEMMA WhatIsLeft ==
  ASSUME NEW names, names \subseteq Name \ {<<>>}, NEW t \in Name,
         NEW n \in Name, n # <<>>, \A i \in 1 .. Len(n) : n[i] # Code,
         Occurs(n, Redacted(names, t))
  PROVE  \E k \in 1 .. Len(t) : StandsAt(n, t, k) /\ MatchesAt(names, t, k) = {}
<1> DEFINE L == Len(t)
           Plain(k) == MatchesAt(names, t, k) = {}
<1>1. PICK f :
        /\ Redacted(names, t) = f[1]
        /\ \A k \in 1 .. L + 1 : f[k] \in Name
        /\ Len(f[L + 1]) = 0
        /\ \A k \in 1 .. L : \E goes \in k + 1 .. L + 1 :
             /\ Len(f[k]) = Len(f[goes]) + 1
             /\ \A i \in 1 .. Len(f[goes]) : f[k][i + 1] = f[goes][i]
             /\ \/ Plain(k) /\ goes = k + 1 /\ f[k][1] = t[k]
                \/ ~Plain(k) /\ f[k][1] = Code
  <2>1. PICK f :
        /\ Redacted(names, t) = f[1]
        /\ \A k \in 1 .. L + 1 : f[k] \in Name
        /\ Len(f[L + 1]) = 0
        /\ \A k \in 1 .. L : \E goes \in k + 1 .. L + 1 :
             /\ Len(f[k]) = Len(f[goes]) + 1
             /\ \A i \in 1 .. Len(f[goes]) : f[k][i + 1] = f[goes][i]
             /\ \/ Plain(k) /\ goes = k + 1 /\ f[k][1] = t[k]
                \/ ~Plain(k) /\ f[k][1] = Code /\ goes = k + Len(First(MatchesAt(names, t, k)))
    BY RedactedPieces
  <2> HIDE DEF Plain
  <2> QED BY <2>1
<1> HIDE DEF Plain
<1>2. L \in Nat /\ Len(n) \in Nat /\ Len(n) >= 1 /\ \A k \in 1 .. L + 1 : Len(f[k]) \in Nat
  <2>1. \A k \in 1 .. L + 1 : Len(f[k]) \in Nat
    BY <1>1, NameFacts
  <2> QED BY <2>1, NameFacts
<1>3. ASSUME NEW k \in 1 .. L + 1, NEW l \in 0 .. Len(f[k]),
             \A i \in 1 .. l : f[k][i] # Code
      PROVE  /\ k + l - 1 <= L
             /\ \A i \in 1 .. l : f[k][i] = t[k + i - 1]
             /\ l >= 1 => Plain(k)
  <2> DEFINE Fits(j, m) == /\ j + m - 1 <= L
                           /\ \A i \in 1 .. m : f[j][i] = t[j + i - 1]
                           /\ m >= 1 => Plain(j)
             Bad(m) == \E j \in 1 .. L + 1 : /\ m <= Len(f[j])
                                             /\ \A i \in 1 .. m : f[j][i] # Code
                                             /\ ~Fits(j, m)
             T == {m \in Nat : Bad(m)}
  <2>1. T = {}
    <3> SUFFICES ASSUME T # {} PROVE FALSE
      OBVIOUS
    <3> HIDE DEF Bad
    <3>1. T \subseteq Nat
      OBVIOUS
    <3> HIDE DEF T
    <3>2. PICK m \in T : \A o \in T : m <= o
      BY <3>1, LeastOf
    <3>3. m \in Nat /\ Bad(m)
      BY DEF T
    <3> HIDE DEF Fits
    <3>4. PICK j \in 1 .. L + 1 : /\ m <= Len(f[j])
                                  /\ \A i \in 1 .. m : f[j][i] # Code
                                  /\ ~Fits(j, m)
      BY <3>3 DEF Bad
    <3>5. m >= 1
      <4>1. m = 0 => Fits(j, m)
        BY <1>2 DEF Fits
      <4> QED BY <3>3, <3>4, <4>1
    <3>6. j \in 1 .. L
      BY <1>1, <1>2, <3>3, <3>4, <3>5
    <3>7. PICK goes \in j + 1 .. L + 1 :
             /\ Len(f[j]) = Len(f[goes]) + 1
             /\ \A i \in 1 .. Len(f[goes]) : f[j][i + 1] = f[goes][i]
             /\ \/ Plain(j) /\ goes = j + 1 /\ f[j][1] = t[j]
                \/ ~Plain(j) /\ f[j][1] = Code
      BY <1>1, <3>6
    <3>8. Plain(j) /\ goes = j + 1 /\ f[j][1] = t[j]
      <4>1. 1 \in 1 .. m
        BY <3>3, <3>5
      <4> QED BY <3>4, <3>7, <4>1
    <3>9. Len(f[goes]) \in Nat /\ goes \in 1 .. L + 1
      BY <1>2, <3>6
    <3>10. /\ m - 1 \in Nat /\ m - 1 <= Len(f[goes]) /\ ~(m <= m - 1)
           /\ \A i \in 1 .. m - 1 : i \in 1 .. Len(f[goes]) /\ i + 1 \in 1 .. m
      BY <3>3, <3>4, <3>5, <3>7, <3>9
    <3>11. \A i \in 1 .. m - 1 : f[goes][i] # Code
      BY <3>4, <3>7, <3>10
    <3>12. Fits(goes, m - 1)
      <4>1. ~Bad(m - 1)
        BY <3>2, <3>10 DEF T
      <4> QED BY <3>9, <3>10, <3>11, <4>1 DEF Bad
    <3>13. \A i \in 1 .. m : f[j][i] = t[j + i - 1]
      <4> SUFFICES ASSUME NEW i \in 1 .. m PROVE f[j][i] = t[j + i - 1]
        OBVIOUS
      <4>1. CASE i = 1
        <5>1. j + i - 1 = j
          BY <3>6, <4>1
        <5> QED BY <3>8, <4>1, <5>1
      <4>2. CASE i # 1
        <5>1. i - 1 \in 1 .. m - 1 /\ (i - 1) + 1 = i
          BY <3>3, <4>2
        <5>2. goes + (i - 1) - 1 = j + i - 1
          BY <3>3, <3>6, <3>8
        <5>3. f[goes][i - 1] = t[goes + (i - 1) - 1]
          BY <3>12, <5>1 DEF Fits
        <5>4. f[j][(i - 1) + 1] = f[goes][i - 1]
          BY <3>7, <3>10, <5>1
        <5> QED BY <5>1, <5>2, <5>3, <5>4
      <4> QED BY <4>1, <4>2
    <3>14. j + m - 1 <= L
      BY <1>2, <3>3, <3>6, <3>8, <3>12 DEF Fits
    <3> QED BY <3>4, <3>8, <3>13, <3>14 DEF Fits
  <2>2. l \in Nat /\ l <= Len(f[k])
    BY <1>2
  <2>3. Fits(k, l)
    <3> HIDE DEF Fits
    <3> QED BY <1>3, <2>1, <2>2
  <2> QED BY <2>3
<1>4. ASSUME NEW p \in Nat \ {0}, p <= Len(f[1])
      PROVE  \E k \in 1 .. L : /\ Len(f[1]) - p + 1 = Len(f[k])
                               /\ \A i \in 1 .. Len(f[k]) : f[k][i] = f[1][p + i - 1]
  <2> DEFINE LeftOver(j, q, k) == /\ Len(f[j]) - q + 1 = Len(f[k])
                                  /\ \A i \in 1 .. Len(f[k]) : f[k][i] = f[j][q + i - 1]
             Bad(q) == \E j \in 1 .. L + 1 : /\ q <= Len(f[j])
                                             /\ \A k \in 1 .. L : ~LeftOver(j, q, k)
             T == {q \in Nat \ {0} : Bad(q)}
  <2>1. T = {}
    <3> SUFFICES ASSUME T # {} PROVE FALSE
      OBVIOUS
    <3> HIDE DEF Bad
    <3>1. T \subseteq Nat
      OBVIOUS
    <3> HIDE DEF T
    <3>2. PICK q \in T : \A o \in T : q <= o
      BY <3>1, LeastOf
    <3>3. q \in Nat \ {0} /\ Bad(q)
      BY DEF T
    <3> HIDE DEF LeftOver
    <3>4. PICK j \in 1 .. L + 1 : q <= Len(f[j]) /\ \A k \in 1 .. L : ~LeftOver(j, q, k)
      BY <3>3 DEF Bad
    <3>5. j \in 1 .. L
      BY <1>1, <1>2, <3>3, <3>4
    <3>6. q # 1
      <4>1. q = 1 => LeftOver(j, q, j)
        BY <1>2, <3>5 DEF LeftOver
      <4> QED BY <3>4, <3>5, <4>1
    <3>7. PICK goes \in j + 1 .. L + 1 :
             /\ Len(f[j]) = Len(f[goes]) + 1
             /\ \A i \in 1 .. Len(f[goes]) : f[j][i + 1] = f[goes][i]
      BY <1>1, <3>5
    <3>8. Len(f[goes]) \in Nat /\ goes \in 1 .. L + 1
      BY <1>2, <3>5
    <3>9. q - 1 \in Nat \ {0} /\ q - 1 <= Len(f[goes]) /\ ~(q <= q - 1)
      BY <3>3, <3>4, <3>6, <3>7, <3>8
    <3>10. PICK k \in 1 .. L : LeftOver(goes, q - 1, k)
      <4>1. ~Bad(q - 1)
        BY <3>2, <3>9 DEF T
      <4> QED BY <3>8, <3>9, <4>1 DEF Bad
    <3>11. Len(f[k]) \in Nat
      BY <1>2
    <3>12. Len(f[j]) - q + 1 = Len(f[k])
      BY <3>3, <3>7, <3>8, <3>10, <3>11 DEF LeftOver
    <3>13. ASSUME NEW i \in 1 .. Len(f[k]) PROVE f[k][i] = f[j][q + i - 1]
      <4>1. f[k][i] = f[goes][q - 1 + i - 1]
        BY <3>10 DEF LeftOver
      <4>2. q - 1 + i - 1 \in 1 .. Len(f[goes]) /\ (q - 1 + i - 1) + 1 = q + i - 1
        BY <3>3, <3>6, <3>7, <3>8, <3>11, <3>12
      <4> QED BY <3>7, <4>1, <4>2
    <3> QED BY <3>4, <3>12, <3>13 DEF LeftOver
  <2>2. 1 \in 1 .. L + 1
    BY <1>2
  <2>3. \E k \in 1 .. L : LeftOver(1, p, k)
    <3> HIDE DEF LeftOver
    <3> QED BY <1>4, <2>1, <2>2
  <2> QED BY <2>3
<1>5. f[1] \in Name /\ Len(f[1]) \in Nat
  BY <1>1, <1>2
<1>6. PICK p \in 1 .. Len(f[1]) : StandsAt(n, f[1], p)
  BY <1>1 DEF Occurs
<1>7. /\ p \in Nat \ {0} /\ p + Len(n) - 1 <= Len(f[1])
      /\ \A i \in 1 .. Len(n) : f[1][p + i - 1] = n[i]
  <2>1. p \in Nat \ {0}
    BY <1>5
  <2> QED BY <1>5, <1>6, <2>1, StandsFacts
<1>8. PICK k \in 1 .. L : /\ Len(f[1]) - p + 1 = Len(f[k])
                          /\ \A i \in 1 .. Len(f[k]) : f[k][i] = f[1][p + i - 1]
  <2>1. p <= Len(f[1])
    BY <1>5
  <2> QED BY <1>4, <1>7, <2>1, Zenon
<1>9. Len(f[k]) \in Nat /\ k \in 1 .. L + 1 /\ k \in Nat \ {0}
  BY <1>2
<1>10. Len(n) \in 0 .. Len(f[k]) /\ \A i \in 1 .. Len(n) : i \in 1 .. Len(f[k])
  BY <1>2, <1>5, <1>7, <1>8, <1>9
<1>11. \A i \in 1 .. Len(n) : f[k][i] = n[i]
  BY <1>7, <1>8, <1>10
<1>12. /\ k + Len(n) - 1 <= L
       /\ \A i \in 1 .. Len(n) : f[k][i] = t[k + i - 1]
       /\ Plain(k)
  BY <1>2, <1>3, <1>9, <1>10, <1>11
<1>13. StandsAt(n, t, k)
  BY <1>9, <1>11, <1>12, StandsFacts
<1> QED BY <1>12, <1>13 DEF Plain

-----------------------------------------------------------------------------
(***************************************************************************)
(* What is found.                                                          *)
(***************************************************************************)

LEMMA ListedFacts ==
  ASSUME NEW n \in Listed
  PROVE  n \in Name /\ \A i \in 1 .. Len(n) : n[i] # Code
<1>1. n \in Seq(DOMAIN Width \ {Code})
  BY DEF Listed
<1>2. \A i \in 1 .. Len(n) : n[i] \in DOMAIN Width \ {Code}
  BY <1>1, ElementOfSeq
<1>3. n \in Seq(DOMAIN Width)
  BY <1>1
<1> QED BY <1>2, <1>3 DEF Name

\* A name with ASCII ends matches wherever it stands between other pieces than runs.
LEMMA WhereItMatches ==
  ASSUME NEW names, names \subseteq Name, NEW n \in names, Findable(n),
         NEW t \in Name, NEW k \in 1 .. Len(t), StandsAt(n, t, k),
         k > 1 => t[k - 1] \notin Ascii,
         k + Len(n) <= Len(t) => t[k + Len(n)] \notin Ascii
  PROVE  n \in MatchesAt(names, t, k)
<1>1. n \in Name /\ n # <<>> /\ n[1] \in Ascii /\ n[Len(n)] \in Ascii
  BY DEF Findable
<1>2. Len(n) \in Nat /\ Len(n) >= 1 /\ Len(t) \in Nat /\ k \in Nat \ {0}
  BY <1>1, NameFacts
<1>3. k + Len(n) - 1 <= Len(t) /\ \A i \in 1 .. Len(n) : t[k + i - 1] = n[i]
  BY <1>1, <1>2, StandsFacts
<1>4. t[k] \in Ascii /\ t[k + Len(n) - 1] \in Ascii
  <2>1. 1 \in 1 .. Len(n) /\ Len(n) \in 1 .. Len(n) /\ k + 1 - 1 = k
    BY <1>2
  <2> QED BY <1>1, <1>3, <2>1
<1> DEFINE last == k + Len(n) - 1
<1>5. last \in 1 .. Len(t) /\ last + 1 = k + Len(n) /\ (k - 1) + 1 = k
  BY <1>2, <1>3
<1>6. Boundary(t, k - 1)
  <2>1. k - 1 \in 1 .. Len(t) => t[k - 1] \notin Ascii
    BY <1>2
  <2> QED BY <1>4, <1>5, <2>1 DEF Boundary
<1>7. Boundary(t, last)
  <2>1. last + 1 \in 1 .. Len(t) => t[last + 1] \notin Ascii
    BY <1>2, <1>5
  <2>2. t[last] \in Ascii
    BY <1>4
  <2> HIDE DEF last
  <2> QED BY <1>5, <2>1, <2>2 DEF Boundary
<1> QED BY <1>6, <1>7 DEF MatchesAt

\* No listed name with ASCII ends is left in a text.
LEMMA NoListedNameIsLeft ==
  ASSUME NEW names, names \subseteq Name \ {<<>>},
         NEW n \in names, n \in Listed, Findable(n),
         NEW t \in Name, RunsApart(t)
  PROVE  ~Occurs(n, Redacted(names, t))
<1> SUFFICES ASSUME Occurs(n, Redacted(names, t)) PROVE FALSE
  OBVIOUS
<1>1. n \in Name /\ n # <<>> /\ \A i \in 1 .. Len(n) : n[i] # Code
  BY ListedFacts
<1>2. PICK k \in 1 .. Len(t) : StandsAt(n, t, k) /\ MatchesAt(names, t, k) = {}
  BY <1>1, WhatIsLeft
<1>3. Len(n) \in Nat /\ Len(n) >= 1 /\ Len(t) \in Nat /\ k \in Nat \ {0}
  BY <1>1, NameFacts
<1>4. k + Len(n) - 1 <= Len(t) /\ \A i \in 1 .. Len(n) : t[k + i - 1] = n[i]
  BY <1>1, <1>2, <1>3, StandsFacts
<1>5. t[k] \in Ascii /\ t[k + Len(n) - 1] \in Ascii
  <2>1. 1 \in 1 .. Len(n) /\ Len(n) \in 1 .. Len(n) /\ k + 1 - 1 = k
    BY <1>3
  <2> QED BY <1>4, <2>1 DEF Findable
<1>6. k > 1 => t[k - 1] \notin Ascii
  <2>1. k > 1 => k - 1 \in 1 .. Len(t) - 1 /\ (k - 1) + 1 = k
    BY <1>3
  <2> QED BY <1>5, <2>1 DEF RunsApart
<1>7. k + Len(n) <= Len(t) => t[k + Len(n)] \notin Ascii
  <2>1. k + Len(n) <= Len(t) =>
          k + Len(n) - 1 \in 1 .. Len(t) - 1 /\ (k + Len(n) - 1) + 1 = k + Len(n)
    BY <1>3
  <2> QED BY <1>5, <2>1 DEF RunsApart
<1>8. n \in MatchesAt(names, t, k)
  BY <1>2, <1>6, <1>7, WhereItMatches
<1> QED BY <1>2, <1>8

\* A listed name, by itself, is replaced as a whole.
LEMMA ReplacedAsAWhole ==
  ASSUME NEW names, names \subseteq Name \ {<<>>}, NEW n \in names, Findable(n)
  PROVE  Redacted(names, n) = <<Code>>
<1> DEFINE first == First(MatchesAt(names, n, 1))
<1>1. n \in Name /\ Len(n) \in Nat /\ Len(n) >= 1 /\ 1 \in 1 .. Len(n)
  BY NameFacts
<1>2. StandsAt(n, n, 1)
  BY <1>1, StandsFacts
<1>3. n \in MatchesAt(names, n, 1)
  <2>1. ~(1 > 1) /\ ~(1 + Len(n) <= Len(n))
    BY <1>1
  <2> QED BY <1>1, <1>2, <2>1, WhereItMatches
<1>4. first \in MatchesAt(names, n, 1) /\ Len(n) <= Len(first)
  BY <1>1, <1>3, FirstFacts
<1> HIDE DEF first
<1>5. first \in Name /\ StandsAt(first, n, 1)
  BY <1>4 DEF MatchesAt
<1>6. Len(first) = Len(n)
  <2>1. Len(first) \in Nat /\ 1 + Len(first) - 1 <= Len(n)
    BY <1>1, <1>5, NameFacts, StandsFacts
  <2> QED BY <1>1, <1>4, <2>1
<1>7. PICK f :
        /\ Redacted(names, n) = f[1]
        /\ f[Len(n) + 1] = <<>>
        /\ f[1] = <<Code>> \o f[1 + Len(first)]
  <2>1. PICK f :
           /\ Redacted(names, n) = f[1]
           /\ f[Len(n) + 1] = <<>>
           /\ \A k \in 1 .. Len(n) :
                LET ns == MatchesAt(names, n, k) IN
                /\ ns = {} => f[k] = <<n[k]>> \o f[k + 1]
                /\ ns # {} => /\ k + Len(First(ns)) \in k + 1 .. Len(n) + 1
                              /\ f[k] = <<Code>> \o f[k + Len(First(ns))]
           /\ \A k \in 1 .. Len(n) + 1 : f[k] \in Name
    BY <1>1, RedactedFacts
  <2>2. f[1] = <<Code>> \o f[1 + Len(first)]
    BY <1>1, <1>3, <2>1 DEF first
  <2> QED BY <2>1, <2>2
<1>8. 1 + Len(first) = Len(n) + 1
  BY <1>1, <1>6
<1>9. Redacted(names, n) = <<Code>> \o <<>>
  BY <1>7, <1>8
<1> QED BY <1>9

\* Replacing names that have ASCII ends, where they match, keeps runs apart.
LEMMA ReplacingKeepsRunsApart ==
  ASSUME NEW names, names \subseteq Name \ {<<>>}, NEW t \in Name, RunsApart(t),
         \A k \in 1 .. Len(t) : \A n \in MatchesAt(names, t, k) : Findable(n)
  PROVE  Redacted(names, t) \in Name /\ RunsApart(Redacted(names, t))
<1> DEFINE L == Len(t)
           first(k) == First(MatchesAt(names, t, k))
           Plain(k) == MatchesAt(names, t, k) = {}
<1>1. L \in Nat
  BY NameFacts
<1>2. PICK f :
        /\ Redacted(names, t) = f[1]
        /\ \A k \in 1 .. L + 1 : f[k] \in Name
        /\ Len(f[L + 1]) = 0
        /\ \A k \in 1 .. L : \E goes \in k + 1 .. L + 1 :
             /\ Len(f[k]) = Len(f[goes]) + 1
             /\ \A i \in 1 .. Len(f[goes]) : f[k][i + 1] = f[goes][i]
             /\ \/ Plain(k) /\ goes = k + 1 /\ f[k][1] = t[k]
                \/ ~Plain(k) /\ f[k][1] = Code /\ goes = k + Len(first(k))
  BY RedactedPieces
<1>3. ASSUME NEW k \in 1 .. L, ~Plain(k)
      PROVE  Len(first(k)) \in Nat /\ t[k] \in Ascii /\ t[k + Len(first(k)) - 1] \in Ascii
  <2> DEFINE n == first(k)
  <2>1. n \in MatchesAt(names, t, k)
    BY <1>3, FirstFacts
  <2> HIDE DEF n
  <2>2. n \in Name /\ StandsAt(n, t, k) /\ n # <<>> /\ n[1] \in Ascii /\ n[Len(n)] \in Ascii
    BY <2>1 DEF MatchesAt, Findable
  <2>3. Len(n) \in Nat /\ Len(n) >= 1 /\ k \in Nat \ {0}
    BY <1>1, <2>2, NameFacts
  <2>4. \A i \in 1 .. Len(n) : t[k + i - 1] = n[i]
    BY <2>2, <2>3, StandsFacts
  <2>5. 1 \in 1 .. Len(n) /\ Len(n) \in 1 .. Len(n) /\ k + 1 - 1 = k
    BY <2>3
  <2>6. t[k] \in Ascii /\ t[k + Len(n) - 1] \in Ascii
    BY <2>2, <2>4, <2>5
  <2> QED BY <2>3, <2>6 DEF n
<1> HIDE DEF first, Plain
<1>4. \A k \in 1 .. L + 1 : Len(f[k]) \in Nat
  BY <1>2, NameFacts
<1> DEFINE Begins(k) == Len(f[k]) # 0 /\ f[k][1] \in Ascii => k \in 1 .. L /\ t[k] \in Ascii
<1>5. ASSUME NEW k \in 1 .. L + 1 PROVE Begins(k)
  <2>1. CASE k = L + 1
    BY <1>2, <2>1
  <2>2. CASE k # L + 1
    <3>1. k \in 1 .. L
      BY <1>1, <2>2
    <3>2. f[k][1] = t[k] \/ ~Plain(k)
      BY <1>2, <3>1
    <3> QED BY <1>3, <3>1, <3>2
  <2> QED BY <2>1, <2>2
<1> DEFINE T == {l \in 0 .. L : ~RunsApart(f[L + 1 - l])}
<1>6. T = {}
  <2> SUFFICES ASSUME T # {} PROVE FALSE
    OBVIOUS
  <2>1. T \subseteq Nat
    BY <1>1
  <2> HIDE DEF T, Begins
  <2>2. PICK l \in T : \A j \in T : l <= j
    BY <2>1, LeastOf
  <2>3. l \in 0 .. L /\ ~RunsApart(f[L + 1 - l])
    BY DEF T
  <2> DEFINE k == L + 1 - l
  <2>4. k \in 1 .. L + 1 /\ ~RunsApart(f[k])
    BY <1>1, <2>3
  <2>5. k # L + 1
    <3>1. RunsApart(f[L + 1])
      BY <1>2 DEF RunsApart
    <3> QED BY <2>4, <3>1
  <2> HIDE DEF k
  <2>6. k \in 1 .. L
    BY <1>1, <2>4, <2>5
  <2>7. PICK goes \in k + 1 .. L + 1 :
          /\ Len(f[k]) = Len(f[goes]) + 1
          /\ \A i \in 1 .. Len(f[goes]) : f[k][i + 1] = f[goes][i]
          /\ \/ Plain(k) /\ goes = k + 1 /\ f[k][1] = t[k]
             \/ ~Plain(k) /\ f[k][1] = Code /\ goes = k + Len(first(k))
    BY <1>2, <2>6
  <2>8. Len(f[goes]) \in Nat /\ goes \in 1 .. L + 1
    BY <1>4, <2>6
  <2>9. RunsApart(f[goes])
    <3>1. L + 1 - goes \in 0 .. L /\ ~(l <= L + 1 - goes) /\ L + 1 - (L + 1 - goes) = goes
      BY <1>1, <2>3, <2>6 DEF k
    <3> QED BY <2>2, <3>1 DEF T
  <2>10. t[goes - 1] \in Ascii \/ f[k][1] \notin Ascii
    <3>1. CASE Plain(k) /\ goes = k + 1 /\ f[k][1] = t[k]
      <4>1. goes - 1 = k
        BY <2>6, <3>1
      <4> QED BY <3>1, <4>1
    <3>2. CASE ~Plain(k) /\ f[k][1] = Code /\ goes = k + Len(first(k))
      BY <1>3, <2>6, <3>2
    <3> QED BY <2>7, <3>1, <3>2
  <2>11. PICK i \in 1 .. Len(f[k]) - 1 : f[k][i] \in Ascii /\ f[k][i + 1] \in Ascii
    BY <2>4 DEF RunsApart
  <2>12. CASE i = 1
    <3>1. Len(f[goes]) # 0 /\ f[goes][1] \in Ascii
      <4>1. 1 \in 1 .. Len(f[goes])
        BY <2>7, <2>8
      <4> QED BY <2>7, <2>8, <2>11, <2>12, <4>1
    <3>2. goes \in 1 .. L /\ t[goes] \in Ascii
      BY <1>5, <2>8, <3>1 DEF Begins
    <3>3. goes - 1 \in 1 .. L - 1 /\ (goes - 1) + 1 = goes
      BY <1>1, <2>6, <3>2
    <3>4. t[goes - 1] \in Ascii
      BY <2>10, <2>11, <2>12
    <3> QED BY <3>2, <3>3, <3>4 DEF RunsApart
  <2>13. CASE i # 1
    <3>1. /\ i - 1 \in 1 .. Len(f[goes]) - 1 /\ i - 1 \in 1 .. Len(f[goes])
          /\ i \in 1 .. Len(f[goes]) /\ (i - 1) + 1 = i
      BY <2>7, <2>8, <2>13
    <3>2. f[goes][i - 1] = f[k][i] /\ f[goes][i] = f[k][i + 1]
      BY <2>7, <3>1
    <3> QED BY <2>9, <2>11, <3>1, <3>2 DEF RunsApart
  <2> QED BY <2>12, <2>13
<1>7. RunsApart(f[1])
  <2>1. L \in 0 .. L /\ L + 1 - L = 1
    BY <1>1
  <2> QED BY <1>6, <2>1
<1>8. f[1] \in Name
  BY <1>1, <1>2
<1> QED BY <1>2, <1>7, <1>8

-----------------------------------------------------------------------------
(***************************************************************************)
(* The command line.                                                       *)
(***************************************************************************)

FlagsTyped ==
  /\ args \in Seq(Arguments) /\ rest \in Seq(Arguments)
  /\ next \in 1 .. Len(args) + 1
  /\ disabled \in BOOLEAN /\ prompt \in FlagValue /\ source \in FlagValue \union Sources

\* The next argument is not the value of the flag before it.
AtFlag == next <= Len(args) => ~IsValue(next)

\* What the loop has seen when it is at position next.
Seen(names) == \E k \in 1 .. next - 1 : Is(args[k], names)

\* Going on over one argument, or over a flag and its value.
GoesOn ==
  /\ args' = args /\ next \in 1 .. Len(args)
  /\ \/ next' = next + 1
     \/ /\ next' = next + 2 /\ HasValue(next)
        /\ Is(args[next], StringFlag) /\ ~args[next].attached

LEMMA SequenceFacts ==
  ASSUME NEW S, NEW s \in Seq(S)
  PROVE  Len(s) \in Nat /\ DOMAIN s = 1 .. Len(s) /\ \A k \in 1 .. Len(s) : s[k] \in S
BY LenProperties, ElementOfSeq

\* The positions that come into view when the loop goes on.
LEMMA NewPositions ==
  ASSUME FlagsTyped, GoesOn
  PROVE  /\ next' \in Nat
         /\ \A k : k \in 1 .. next' - 1 <=> \/ k \in 1 .. next - 1 \/ k = next
                                            \/ k = next + 1 /\ next' = next + 2
         /\ next' = next + 2 => /\ next + 1 <= Len(args) /\ args[next + 1].dashes = 0
                                /\ IsValue(next + 1)
<1>1. Len(args) \in Nat /\ next \in 1 .. Len(args)
  BY SequenceFacts DEF FlagsTyped, GoesOn
<1>2. next' = next + 1 \/ next' = next + 2
  BY DEF GoesOn
<1>3. \A k : k \in 1 .. next' - 1 <=> \/ k \in 1 .. next - 1 \/ k = next
                                      \/ k = next + 1 /\ next' = next + 2
  BY <1>1, <1>2
<1>4. ASSUME next' = next + 2
      PROVE  /\ next + 1 <= Len(args) /\ args[next + 1].dashes = 0
             /\ IsValue(next + 1)
  <2>1. HasValue(next) /\ Is(args[next], StringFlag) /\ ~args[next].attached
    BY <1>1, <1>4 DEF GoesOn
  <2>2. next + 1 <= Len(args) /\ next + 1 > 1 /\ (next + 1) - 1 = next
    BY <1>1, <2>1 DEF HasValue
  <2>3. args[next + 1].dashes = 0
    BY <2>1 DEF HasValue
  <2> QED BY <2>1, <2>2, <2>3 DEF IsValue
<1> QED BY <1>1, <1>2, <1>3, <1>4

LEMMA SeenGoesOn ==
  ASSUME FlagsTyped, GoesOn, NEW names
  PROVE  Seen(names)' <=> Seen(names) \/ Is(args[next], names)
<1>1. ASSUME next' = next + 2 PROVE ~Is(args[next + 1], names)
  BY <1>1, NewPositions DEF Is
<1>2. args' = args
  BY DEF GoesOn
<1>3. Seen(names)' <=> \E k \in 1 .. next' - 1 : Is(args[k], names)
  BY <1>2 DEF Seen, Is
<1> HIDE DEF Is
<1> QED BY <1>1, <1>3, NewPositions DEF Seen

LEMMA GivenGoesOn ==
  ASSUME FlagsTyped, GoesOn, NEW names
  PROVE  \A k : k \in Given(names)' <=>
           \/ k \in Given(names)
           \/ k = next /\ Is(args[next], names) /\ (args[next].attached \/ HasValue(next))
<1>1. ASSUME next' = next + 2 PROVE ~Is(args[next + 1], names)
  BY <1>1, NewPositions DEF Is
<1>2. args' = args
  BY DEF GoesOn
<1>3. \A k : k \in Given(names)' <=>
        k \in 1 .. next' - 1 /\ Is(args[k], names) /\ (args[k].attached \/ HasValue(k))
  BY <1>2 DEF Given, Is, HasValue
<1>4. \A k : k \in Given(names) <=>
        k \in 1 .. next - 1 /\ Is(args[k], names) /\ (args[k].attached \/ HasValue(k))
  BY DEF Given
<1> HIDE DEF Is, HasValue, Given
<1> QED BY <1>1, <1>3, <1>4, NewPositions

LEMMA PassedOnGoesOn ==
  ASSUME FlagsTyped, GoesOn
  PROVE  \A k : k \in PassedOn' <=>
           \/ k \in PassedOn
           \/ k = next /\ ~IsValue(next) /\ ~Is(args[next], BoolFlag \union StringFlag)
<1>1. args' = args
  BY DEF GoesOn
<1>2. \A k : k \in PassedOn' <=>
        k \in 1 .. next' - 1 /\ ~IsValue(k) /\ ~Is(args[k], BoolFlag \union StringFlag)
  BY <1>1 DEF PassedOn, IsValue, Is
<1>3. \A k : k \in PassedOn <=>
        k \in 1 .. next - 1 /\ ~IsValue(k) /\ ~Is(args[k], BoolFlag \union StringFlag)
  BY DEF PassedOn
<1> QED BY <1>2, <1>3, NewPositions

\* The value is the last one that is given when the loop has gone on.
IsLastGivenNext(names, v) ==
  \/ Given(names)' = {} /\ v = Empty
  \/ \E k \in Given(names)' :
       /\ \A j \in Given(names)' : j <= k
       /\ v = IF args[k].attached THEN args[k].value ELSE args[k + 1].text

LEMMA NoValueGiven ==
  ASSUME FlagsTyped, GoesOn, NEW names, NEW v, IsLastGiven(names, v),
         ~(Is(args[next], names) /\ (args[next].attached \/ HasValue(next)))
  PROVE  IsLastGivenNext(names, v)
<1>1. \A k : k \in Given(names)' <=> k \in Given(names)
  BY GivenGoesOn
<1>2. Given(names)' = Given(names)
  BY <1>1
<1> QED BY <1>2 DEF IsLastGiven, IsLastGivenNext

LEMMA ValueGiven ==
  ASSUME FlagsTyped, GoesOn, NEW names, NEW v,
         Is(args[next], names), args[next].attached \/ HasValue(next),
         v = IF args[next].attached THEN args[next].value ELSE args[next + 1].text
  PROVE  IsLastGivenNext(names, v)
<1>1. \A k : k \in Given(names)' <=> k \in Given(names) \/ k = next
  BY GivenGoesOn
<1>2. next \in Nat /\ \A k \in Given(names) : k \in 1 .. next - 1
  BY DEF FlagsTyped, Given
<1>3. next \in Given(names)' /\ \A j \in Given(names)' : j <= next
  BY <1>1, <1>2
<1> QED BY <1>3 DEF IsLastGivenNext

\* What the launcher gets, next to what it has to get.
RestFits == /\ Len(rest) = Cardinality(PassedOn)
            /\ \A k \in PassedOn : rest[Cardinality(PassedOn \intersect 1 .. k)] = args[k]

LEMMA PassedOnFacts ==
  ASSUME FlagsTyped
  PROVE  /\ IsFiniteSet(PassedOn) /\ Cardinality(PassedOn) \in Nat
         /\ \A k \in PassedOn :
              /\ k \in 1 .. next - 1
              /\ Cardinality(PassedOn \intersect 1 .. k) \in 1 .. Cardinality(PassedOn)
<1>1. next - 1 \in Int /\ PassedOn \in SUBSET (1 .. next - 1)
  BY DEF FlagsTyped, PassedOn
<1>2. IsFiniteSet(PassedOn)
  <2>1. IsFiniteSet(1 .. next - 1)
    BY <1>1, FS_Interval
  <2> QED BY <1>1, <2>1, FS_Subset
<1>3. Cardinality(PassedOn) \in Nat
  BY <1>2, FS_CardinalityType
<1>4. ASSUME NEW k \in PassedOn
      PROVE  /\ k \in 1 .. next - 1
             /\ Cardinality(PassedOn \intersect 1 .. k) \in 1 .. Cardinality(PassedOn)
  <2> DEFINE before == PassedOn \intersect 1 .. k
  <2>1. k \in 1 .. next - 1
    BY <1>1
  <2>2. before \in SUBSET PassedOn /\ k \in before
    BY <2>1
  <2> HIDE DEF before
  <2>3. IsFiniteSet(before) /\ Cardinality(before) <= Cardinality(PassedOn)
    BY <1>2, <2>2, FS_Subset
  <2>4. Cardinality(before) \in Nat /\ Cardinality(before) # 0
    BY <2>2, <2>3, FS_CardinalityType, FS_EmptySet
  <2>5. Cardinality(before) \in 1 .. Cardinality(PassedOn)
    BY <1>3, <2>3, <2>4
  <2> QED BY <2>1, <2>5 DEF before
<1> QED BY <1>2, <1>3, <1>4

LEMMA NothingPassedOn ==
  ASSUME FlagsTyped, GoesOn, RestFits, rest' = rest,
         IsValue(next) \/ Is(args[next], BoolFlag \union StringFlag)
  PROVE  RestFits'
<1>1. \A k : k \in PassedOn' <=> k \in PassedOn
  BY PassedOnGoesOn
<1>2. PassedOn' = PassedOn
  BY <1>1
<1>3. args' = args
  BY DEF GoesOn
<1> QED BY <1>2, <1>3 DEF RestFits

LEMMA OnePassedOn ==
  ASSUME FlagsTyped, FlagsTyped', GoesOn, RestFits,
         rest' = Append(rest, args[next]),
         ~IsValue(next), ~Is(args[next], BoolFlag \union StringFlag)
  PROVE  RestFits'
<1>1. \A k : k \in PassedOn' <=> k \in PassedOn \/ k = next
  BY PassedOnGoesOn
<1>2. PassedOn' = PassedOn \union {next}
  BY <1>1
<1>3. next \in Nat \ {0} /\ next \notin PassedOn /\ args[next] \in Arguments /\ args' = args
  <2>1. next \in 1 .. Len(args) /\ args' = args
    BY DEF GoesOn
  <2>2. Len(args) \in Nat /\ args[next] \in Arguments
    BY <2>1, SequenceFacts DEF FlagsTyped
  <2>3. next \notin PassedOn
    BY <2>1, <2>2 DEF PassedOn
  <2> QED BY <2>1, <2>2, <2>3
<1> DEFINE r == rest'
           c == Cardinality(PassedOn)
<1>4. /\ Len(r) = Len(rest) + 1 /\ r[Len(rest) + 1] = args[next]
      /\ \A i \in 1 .. Len(rest) : r[i] = rest[i]
  BY <1>3, AppendProperties DEF FlagsTyped
<1>5. IsFiniteSet(PassedOn) /\ c \in Nat
  BY PassedOnFacts
<1>6. Cardinality(PassedOn') = c + 1
  BY <1>2, <1>3, <1>5, FS_AddElement
<1>7. Len(rest) = c
  BY DEF RestFits
<1>8. ASSUME NEW k \in PassedOn'
      PROVE  r[Cardinality(PassedOn' \intersect 1 .. k)] = args[k]
  <2>1. CASE k = next
    <3>1. PassedOn' \intersect 1 .. k = PassedOn'
      <4>1. \A j \in PassedOn : j \in 1 .. next - 1
        BY PassedOnFacts
      <4>2. \A j \in PassedOn' : j \in 1 .. k
        BY <1>1, <1>3, <2>1, <4>1
      <4> QED BY <4>2
    <3> QED BY <1>4, <1>6, <1>7, <2>1, <3>1
  <2>2. CASE k # next
    <3>1. k \in PassedOn
      BY <1>1, <2>2
    <3>2. k \in 1 .. next - 1 /\ Cardinality(PassedOn \intersect 1 .. k) \in 1 .. c
      BY <3>1, PassedOnFacts
    <3>3. PassedOn' \intersect 1 .. k = PassedOn \intersect 1 .. k
      BY <1>2, <1>3, <3>2
    <3>4. rest[Cardinality(PassedOn \intersect 1 .. k)] = args[k]
      BY <3>1 DEF RestFits
    <3> HIDE DEF r
    <3> QED BY <1>4, <1>7, <3>2, <3>3, <3>4
  <2> QED BY <2>1, <2>2
<1>9. Len(r) = c + 1
  BY <1>4, <1>7
<1> QED BY <1>3, <1>6, <1>8, <1>9 DEF RestFits

\* No name is one of two flags.
LEMMA FlagNames ==
  /\ BoolFlag \intersect StringFlag = {}
  /\ PromptFlag \intersect SourceFlag = {}
  /\ StringFlag = PromptFlag \union SourceFlag
BY DEF BoolFlag, StringFlag, PromptFlag, SourceFlag

LEMMA IsFacts ==
  ASSUME NEW a
  PROVE  /\ Is(a, BoolFlag) => ~Is(a, StringFlag)
         /\ Is(a, PromptFlag) => ~Is(a, SourceFlag)
         /\ Is(a, StringFlag) <=> Is(a, PromptFlag) \/ Is(a, SourceFlag)
         /\ Is(a, BoolFlag \union StringFlag) <=> Is(a, BoolFlag) \/ Is(a, StringFlag)
         /\ Is(a, StringFlag) => /\ Is(a, PromptFlag) <=> a.text \in PromptFlag
                                 /\ Is(a, SourceFlag) <=> a.text \in SourceFlag
BY FlagNames DEF Is

\* The parts of SplitAsMeant.
LEMMA SplitParts ==
  SplitAsMeant <=> /\ disabled <=> Seen(BoolFlag)
                   /\ IsLastGiven(PromptFlag, prompt)
                   /\ IsLastGiven(SourceFlag, source)
                   /\ RestFits
BY DEF SplitAsMeant, Seen, RestFits

LEMMA SplitPartsNext ==
  ASSUME args' = args,
         disabled' <=> Seen(BoolFlag)',
         IsLastGivenNext(PromptFlag, prompt'), IsLastGivenNext(SourceFlag, source'), RestFits'
  PROVE  SplitAsMeant'
<1>1. IsLastGiven(PromptFlag, prompt)'
  BY DEF IsLastGiven, IsLastGivenNext
<1>2. IsLastGiven(SourceFlag, source)'
  BY DEF IsLastGiven, IsLastGivenNext
<1> QED BY <1>1, <1>2 DEF SplitAsMeant, Seen, RestFits

\* One turn of the loop.
LEMMA SplitTurn ==
  ASSUME FlagsTyped, AtFlag, SplitOwnFlags
  PROVE  FlagsTyped' /\ AtFlag' /\ GoesOn
<1> DEFINE a == args[next]
<1>1. next \in 1 .. Len(args) /\ Len(args) \in Nat
  BY SequenceFacts DEF FlagsTyped, SplitOwnFlags, Split
<1>2. /\ a \in Arguments
      /\ HasValue(next) => /\ next + 1 \in 1 .. Len(args) /\ args[next + 1] \in Arguments
                           /\ args[next + 1].dashes = 0
  <2>1. \A k \in 1 .. Len(args) : args[k] \in Arguments
    BY SequenceFacts DEF FlagsTyped
  <2> QED BY <1>1, <2>1 DEF HasValue
<1>3. /\ a.attached => a.value \in FlagValue
      /\ HasValue(next) => args[next + 1].text \in FlagValue
  <2>1. a.attached => a.value \in FlagValue
    BY <1>2 DEF FlagValue
  <2>2. HasValue(next) => args[next + 1].text \in FlagValue
    BY <1>2 DEF FlagValue
  <2> QED BY <2>1, <2>2
<1>4. ASSUME NEW v \in FlagValue, Set(a, v)
      PROVE  /\ args' = args /\ rest' = rest /\ disabled' = disabled
             /\ prompt' \in FlagValue /\ source' \in FlagValue \union Sources
  BY <1>4 DEF Set, FlagsTyped
<1>5. /\ args' = args /\ rest' \in Seq(Arguments) /\ disabled' \in BOOLEAN
      /\ prompt' \in FlagValue /\ source' \in FlagValue \union Sources
  <2>1. CASE TakeBool
    BY <2>1 DEF TakeBool, FlagsTyped
  <2>2. CASE TakeAttached
    BY <1>3, <1>4, <2>2 DEF TakeAttached, FlagsTyped
  <2>3. CASE TakeSeparate
    BY <1>3, <1>4, <2>3 DEF TakeSeparate, FlagsTyped
  <2>4. CASE DropFlag
    BY <2>4 DEF DropFlag, FlagsTyped
  <2>5. CASE PassOn
    <3>1. rest' \in Seq(Arguments)
      BY <1>2, <2>5, AppendProperties DEF PassOn, FlagsTyped
    <3> QED BY <2>5, <3>1 DEF PassOn, FlagsTyped
  <2> QED BY <2>1, <2>2, <2>3, <2>4, <2>5 DEF SplitOwnFlags
<1>6. \/ TakeSeparate /\ next' = next + 2
      \/ ~TakeSeparate /\ next' = next + 1 /\ (Is(a, StringFlag) => a.attached \/ ~HasValue(next))
  <2>1. CASE TakeBool
    BY <2>1, IsFacts DEF TakeBool, TakeSeparate
  <2>2. CASE TakeAttached
    BY <2>2 DEF TakeAttached, TakeSeparate
  <2>3. CASE TakeSeparate
    BY <2>3 DEF TakeSeparate
  <2>4. CASE DropFlag
    BY <2>4 DEF DropFlag, TakeSeparate
  <2>5. CASE PassOn
    BY <2>5, IsFacts DEF PassOn, TakeSeparate
  <2> QED BY <2>1, <2>2, <2>3, <2>4, <2>5 DEF SplitOwnFlags
<1>7. GoesOn
  BY <1>1, <1>5, <1>6 DEF GoesOn, TakeSeparate
<1>8. next' \in 1 .. Len(args) + 1
  BY <1>1, <1>2, <1>6 DEF TakeSeparate
<1>9. AtFlag'
  <2> SUFFICES ASSUME next' <= Len(args), args[next'].dashes = 0,
                      Is(args[next' - 1], StringFlag), ~args[next' - 1].attached
               PROVE  FALSE
    BY <1>5 DEF AtFlag, IsValue, Is
  <2>1. CASE next' = next + 2
    <3>1. next' - 1 = next + 1
      BY <1>1, <2>1
    <3>2. args[next + 1].dashes = 0
      BY <1>1, <1>2, <1>6, <2>1 DEF TakeSeparate
    <3> QED BY <3>1, <3>2 DEF Is
  <2>2. CASE next' = next + 1
    <3>1. next' - 1 = next /\ next < Len(args)
      BY <1>1, <2>2
    <3>2. HasValue(next)
      BY <2>2, <3>1 DEF HasValue
    <3> QED BY <1>1, <1>6, <2>2, <3>1, <3>2
  <2> QED BY <1>6, <2>1, <2>2
<1> QED BY <1>5, <1>7, <1>8, <1>9 DEF FlagsTyped

\* A turn of the loop splits as the arguments mean.
LEMMA SplitGoesOn ==
  ASSUME FlagsTyped, AtFlag, SplitAsMeant, SplitOwnFlags
  PROVE  SplitAsMeant'
<1> DEFINE a == args[next]
           Takes(names) == Is(a, names) /\ (a.attached \/ HasValue(next))
           Value == IF a.attached THEN a.value ELSE args[next + 1].text
<1>1. GoesOn /\ FlagsTyped' /\ args' = args
  BY SplitTurn DEF GoesOn
<1>2. /\ disabled <=> Seen(BoolFlag)
      /\ IsLastGiven(PromptFlag, prompt)
      /\ IsLastGiven(SourceFlag, source)
      /\ RestFits
  BY SplitParts
<1>3. ~IsValue(next)
  BY DEF AtFlag, SplitOwnFlags, Split, FlagsTyped
<1>4. Seen(BoolFlag)' <=> Seen(BoolFlag) \/ Is(a, BoolFlag)
  BY <1>1, SeenGoesOn
<1>5. ASSUME NEW names, NEW v, IsLastGiven(names, v), ~Takes(names) PROVE IsLastGivenNext(names, v)
  BY <1>1, <1>5, NoValueGiven
<1>6. ASSUME NEW names, Takes(names) PROVE IsLastGivenNext(names, Value)
  BY <1>1, <1>6, ValueGiven
<1>7. Is(a, BoolFlag \union StringFlag) /\ rest' = rest => RestFits'
  BY <1>1, <1>2, NothingPassedOn
<1>8. ASSUME Is(a, StringFlag), a.attached \/ HasValue(next), Set(a, Value)
      PROVE  SplitAsMeant'
  <2>1. ~Is(a, BoolFlag) /\ disabled' = disabled /\ rest' = rest
    BY <1>8, IsFacts DEF Set
  <2>2. IsLastGivenNext(PromptFlag, prompt')
    <3>1. CASE Is(a, PromptFlag)
      <4>1. prompt' = Value
        BY <3>1 , <1>8 DEF Set, Is
      <4> HIDE DEF Value
      <4> QED BY <1>6, <1>8, <3>1, <4>1
    <3>2. CASE ~Is(a, PromptFlag)
      <4>1. prompt' = prompt
        BY <3>2, <1>8, IsFacts DEF Set
      <4> QED BY <1>2, <1>5, <3>2, <4>1
    <3> QED BY <3>1, <3>2
  <2>3. IsLastGivenNext(SourceFlag, source')
    <3>1. CASE Is(a, SourceFlag)
      <4>1. source' = Value
        BY <3>1 , <1>8 DEF Set, Is
      <4> HIDE DEF Value
      <4> QED BY <1>6, <1>8, <3>1, <4>1
    <3>2. CASE ~Is(a, SourceFlag)
      <4>1. source' = source
        BY <3>2, <1>8, IsFacts DEF Set
      <4> QED BY <1>2, <1>5, <3>2, <4>1
    <3> QED BY <3>1, <3>2
  <2>4. RestFits'
    BY <1>7, <1>8, <2>1, IsFacts
  <2> QED BY <1>1, <1>2, <1>4, <2>1, <2>2, <2>3, <2>4, SplitPartsNext
<1>9. CASE TakeBool
  <2>1. /\ Is(a, BoolFlag) /\ disabled' = TRUE
        /\ prompt' = prompt /\ source' = source /\ rest' = rest
    BY <1>9 DEF TakeBool
  <2>2. ~Takes(PromptFlag) /\ ~Takes(SourceFlag) /\ Is(a, BoolFlag \union StringFlag)
    BY <2>1, IsFacts
  <2>3. IsLastGivenNext(PromptFlag, prompt')
    BY <1>2, <1>5, <2>1, <2>2
  <2>4. IsLastGivenNext(SourceFlag, source')
    BY <1>2, <1>5, <2>1, <2>2
  <2> QED BY <1>1, <1>4, <1>7, <2>1, <2>2, <2>3, <2>4, SplitPartsNext
<1>10. CASE TakeAttached
  <2>1. Is(a, StringFlag) /\ a.attached /\ Set(a, a.value)
    BY <1>10 DEF TakeAttached
  <2>2. Value = a.value
    BY <2>1
  <2> QED BY <1>8, <2>1, <2>2
<1>11. CASE TakeSeparate
  <2>1. Is(a, StringFlag) /\ ~a.attached /\ HasValue(next) /\ Set(a, args[next + 1].text)
    BY <1>11 DEF TakeSeparate
  <2>2. Value = args[next + 1].text
    BY <2>1
  <2> QED BY <1>8, <2>1, <2>2
<1>12. CASE DropFlag
  <2>1. /\ Is(a, StringFlag) /\ ~a.attached /\ ~HasValue(next)
        /\ disabled' = disabled /\ prompt' = prompt /\ source' = source /\ rest' = rest
    BY <1>12 DEF DropFlag
  <2>2. /\ ~Takes(PromptFlag) /\ ~Takes(SourceFlag)
        /\ Is(a, BoolFlag \union StringFlag) /\ ~Is(a, BoolFlag)
    BY <2>1, IsFacts
  <2>3. IsLastGivenNext(PromptFlag, prompt')
    BY <1>2, <1>5, <2>1, <2>2
  <2>4. IsLastGivenNext(SourceFlag, source')
    BY <1>2, <1>5, <2>1, <2>2
  <2> QED BY <1>1, <1>2, <1>4, <1>7, <2>1, <2>2, <2>3, <2>4, SplitPartsNext
<1>13. CASE PassOn
  <2>1. /\ ~Is(a, BoolFlag \union StringFlag) /\ rest' = Append(rest, a)
        /\ disabled' = disabled /\ prompt' = prompt /\ source' = source
    BY <1>13 DEF PassOn
  <2>2. ~Takes(PromptFlag) /\ ~Takes(SourceFlag) /\ ~Is(a, BoolFlag)
    BY <2>1, IsFacts
  <2>3. IsLastGivenNext(PromptFlag, prompt')
    BY <1>2, <1>5, <2>1, <2>2
  <2>4. IsLastGivenNext(SourceFlag, source')
    BY <1>2, <1>5, <2>1, <2>2
  <2>5. RestFits'
    BY <1>1, <1>2, <1>3, <2>1, OnePassedOn
  <2> QED BY <1>1, <1>2, <1>4, <2>1, <2>2, <2>3, <2>4, <2>5, SplitPartsNext
<1> QED BY <1>9, <1>10, <1>11, <1>12, <1>13 DEF SplitOwnFlags

-----------------------------------------------------------------------------
(***************************************************************************)
(* The name list of the user name filter.                                  *)
(***************************************************************************)

LEMMA PartOfListed ==
  ASSUME NEW n \in Listed, NEW i \in 1 .. Len(n) + 1, NEW j \in 0 .. Len(n)
  PROVE  SubSeq(n, i, j) \in Listed
<1> DEFINE S == DOMAIN Width \ {Code}
<1>1. n \in Seq(S)
  BY DEF Listed
<1> HIDE DEF S
<1>2. Len(n) \in Nat /\ \A k \in 1 .. Len(n) : n[k] \in S
  BY <1>1, SequenceFacts
<1>3. \A k \in i .. j : n[k] \in S
  BY <1>2
<1>4. i \in Int /\ j \in Int
  BY <1>2
<1>5. SubSeq(n, i, j) \in Seq(S)
  BY <1>3, <1>4, SubSeqProperties
<1> QED BY <1>5 DEF S, Listed

LEMMA TrimFacts ==
  ASSUME NEW n \in Listed
  PROVE  Trim(n) \in Listed
<1> DEFINE kept == {k \in DOMAIN n : n[k] \notin Trimmed}
           low == CHOOSE k \in kept : \A j \in kept : k <= j
           high == CHOOSE k \in kept : \A j \in kept : k >= j
<1>1. Len(n) \in Nat /\ kept \subseteq 1 .. Len(n)
  BY SequenceFacts DEF Listed
<1>2. Trim(n) = IF kept = {} THEN <<>> ELSE SubSeq(n, low, high)
  BY DEF Trim
<1> HIDE DEF kept
<1>3. ASSUME kept # {} PROVE low \in kept /\ high \in kept
  <2>1. kept \subseteq Nat /\ kept \subseteq 0 .. Len(n)
    BY <1>1
  <2>2. \E k \in kept : \A j \in kept : k <= j
    BY <1>3, <2>1, LeastOf
  <2>3. \E k \in kept : \A j \in kept : k >= j
    BY <1>1, <1>3, <2>1, GreatestOf
  <2>4. low \in kept
    BY <2>2
  <2>5. high \in kept
    BY <2>3
  <2> QED BY <2>4, <2>5
<1> HIDE DEF low, high
<1>4. <<>> \in Listed
  BY DEF Listed
<1>5. ASSUME kept # {} PROVE SubSeq(n, low, high) \in Listed
  <2>1. low \in 1 .. Len(n) /\ high \in 1 .. Len(n)
    BY <1>1, <1>3, <1>5, Zenon
  <2>2. low \in 1 .. Len(n) + 1 /\ high \in 0 .. Len(n)
    BY <1>1, <2>1
  <2> QED BY <2>2, PartOfListed
<1> QED BY <1>2, <1>4, <1>5

LEMMA FullNameFacts ==
  ASSUME NEW e \in Entry
  PROVE  e.login \in Listed /\ FullName(e) \subseteq Listed
<1>1. e.login \in Listed /\ e.gecos \in Seq(Seq(Listed))
  BY DEF Entry
<1>2. ASSUME e.gecos # <<>>, NEW k \in DOMAIN e.gecos[1] PROVE Trim(e.gecos[1][k]) \in Listed
  <2>1. 1 \in 1 .. Len(e.gecos)
    BY <1>1, <1>2, SequenceFacts, EmptySeq
  <2>2. e.gecos[1] \in Seq(Listed)
    BY <1>1, <2>1, SequenceFacts
  <2>3. e.gecos[1][k] \in Listed
    BY <1>2, <2>2, SequenceFacts
  <2> QED BY <2>3, TrimFacts
<1> QED BY <1>1, <1>2 DEF FullName

LEMMA NamesOfFacts ==
  ASSUME NEW es, NEW n
  PROVE  n \in NamesOf(es) <=>
           \E k \in DOMAIN es : Regular(es[k]) /\ (n = es[k].login \/ n \in FullName(es[k]))
<1> HIDE DEF FullName, Regular
<1> QED BY DEF NamesOf

\* Where every regular entry of one database is in another, so are the names.
LEMMA NamesOfMonotone ==
  ASSUME NEW es, NEW fs,
         \A k \in DOMAIN es : Regular(es[k]) => \E j \in DOMAIN fs : fs[j] = es[k]
  PROVE  NamesOf(es) \subseteq NamesOf(fs) /\ ParsePasswdEntries(es) \subseteq ParsePasswdEntries(fs)
<1>1. ASSUME NEW n \in NamesOf(es) PROVE n \in NamesOf(fs)
  <2>1. PICK k \in DOMAIN es : Regular(es[k]) /\ (n = es[k].login \/ n \in FullName(es[k]))
    BY NamesOfFacts
  <2>2. PICK j \in DOMAIN fs : fs[j] = es[k]
    BY <2>1
  <2>3. Regular(fs[j]) /\ (n = fs[j].login \/ n \in FullName(fs[j]))
    BY <2>1, <2>2
  <2> QED BY <2>3, NamesOfFacts
<1> QED BY <1>1 DEF ParsePasswdEntries

LEMMA NamesAreListed ==
  ASSUME NEW es \in Seq(Entry)
  PROVE  NamesOf(es) \subseteq Listed
<1> SUFFICES ASSUME NEW n \in NamesOf(es) PROVE n \in Listed
  OBVIOUS
<1>1. PICK k \in DOMAIN es : Regular(es[k]) /\ (n = es[k].login \/ n \in FullName(es[k]))
  BY NamesOfFacts
<1>2. es[k] \in Entry
  BY SequenceFacts
<1> DEFINE e == es[k]
<1>3. e \in Entry /\ (n = e.login \/ n \in FullName(e))
  BY <1>1, <1>2
<1> HIDE DEF e
<1> QED BY <1>3, FullNameFacts

\* The entries read so far hold every valid line before line m.
ReadUpTo(m) ==
  \A k \in DOMAIN db : Valid(db[k]) /\ k < m => \E j \in DOMAIN entries : entries[j] = db[k]

UsersTyped ==
  /\ UserTypeOK
  /\ entries \in Seq(Entry)
  /\ reading = "copy" => static \in {db[k] : k \in DOMAIN db}
  /\ users \subseteq ParsePasswdEntries(db)

\* The list is complete where nothing failed and nobody shared the C library.
UsersComplete ==
  ~cut /\ others = 0 =>
    /\ reading = "getpwent" => ReadUpTo(place)
    /\ reading = "copy" => \E k \in DOMAIN db : place = k + 1 /\ static = db[k] /\ ReadUpTo(k)
    /\ reading = "endpwent" => ReadUpTo(Len(db) + 1)
    /\ reading = "ready" => users = ParsePasswdEntries(db)

LEMMA DatabaseFacts ==
  ASSUME db \in Databases
  PROVE  /\ db \in Seq(Entry) /\ Len(db) \in Nat /\ DOMAIN db = 1 .. Len(db)
         /\ \A k \in DOMAIN db : db[k] \in Entry
         /\ ParsePasswdEntries(db) \subseteq Listed
         /\ \A n \in ParsePasswdEntries(db) : n \in Name /\ ~TooShort(n)
<1>1. db \in Seq(Entry)
  BY UserListAssumption
<1>2. Len(db) \in Nat /\ DOMAIN db = 1 .. Len(db) /\ \A k \in DOMAIN db : db[k] \in Entry
  BY <1>1, SequenceFacts
<1>3. ParsePasswdEntries(db) \subseteq Listed
  BY <1>1, NamesAreListed DEF ParsePasswdEntries
<1>4. \A n \in ParsePasswdEntries(db) : n \in Name /\ ~TooShort(n)
  BY <1>3, ListedFacts DEF ParsePasswdEntries
<1> QED BY <1>1, <1>2, <1>3, <1>4

\* The next valid line: all valid lines before it have been passed.
LEMMA NextEntryFacts ==
  ASSUME UsersTyped, NextEntry
  PROVE  \E k \in DOMAIN db : /\ place' = k + 1 /\ static' = db[k]
                              /\ place' \in 1 .. Len(db) + 1
                              /\ ReadUpTo(place) => ReadUpTo(k)
<1>1. db \in Databases /\ place \in 1 .. Len(db) + 1
  BY DEF UsersTyped, UserTypeOK
<1>2. Len(db) \in Nat /\ DOMAIN db = 1 .. Len(db)
  BY <1>1, DatabaseFacts
<1>3. PICK k \in Ahead : (\A j \in Ahead : k <= j) /\ static' = db[k] /\ place' = k + 1
  BY DEF NextEntry
<1>4. k \in DOMAIN db
  BY <1>3 DEF Ahead
<1>5. ASSUME ReadUpTo(place) PROVE ReadUpTo(k)
  <2> SUFFICES ASSUME NEW i \in DOMAIN db, Valid(db[i]), i < k
               PROVE  \E j \in DOMAIN entries : entries[j] = db[i]
    BY DEF ReadUpTo
  <2>1. i \notin Ahead
    BY <1>2, <1>3, <1>4
  <2>2. i < place
    BY <1>1, <1>2, <2>1 DEF Ahead
  <2> QED BY <1>5, <2>2 DEF ReadUpTo
<1>6. place' \in 1 .. Len(db) + 1
  BY <1>2, <1>3, <1>4
<1> QED BY <1>3, <1>4, <1>5, <1>6

\* What is built from entries that are all in the database.
LEMMA BuiltFacts ==
  ASSUME UsersTyped, NEW es,
         \A k \in DOMAIN es : es[k] \in {db[j] : j \in DOMAIN db}
  PROVE  /\ ParsePasswdEntries(es) \subseteq ParsePasswdEntries(db)
         /\ \A n \in ParsePasswdEntries(es) : n \in Name /\ ~TooShort(n)
<1>1. \A k \in DOMAIN es : Regular(es[k]) => \E j \in DOMAIN db : db[j] = es[k]
  OBVIOUS
<1>2. ParsePasswdEntries(es) \subseteq ParsePasswdEntries(db)
  BY <1>1, NamesOfMonotone
<1>3. db \in Databases
  BY DEF UsersTyped, UserTypeOK
<1> QED BY <1>2, <1>3, DatabaseFacts

\* A step of NewUsernameFilter, or of a goroutine beside it.
UserAction ==
  \/ ChooseSource(source) \/ RunGetent \/ GetentHangs \/ Setpwent \/ Getpwent
  \/ GetpwentFails \/ Copy \/ Endpwent \/ OtherGoroutine

LEMMA ChosenSource ==
  ASSUME ChooseSource(source)
  PROVE  reading' \in {"setpwent", "getent", "failed"}
BY Zenon DEF ChooseSource

LEMMA UsersStayTyped ==
  ASSUME UsersTyped, UserAction
  PROVE  UsersTyped'
<1>1. /\ db \in Databases /\ cgo \in BOOLEAN
      /\ place \in 1 .. Len(db) + 1
      /\ static \in {<<>>} \union {db[k] : k \in DOMAIN db}
      /\ \A k \in DOMAIN entries : entries[k] \in {db[j] : j \in DOMAIN db}
      /\ others \in 0 .. MaxOthers /\ cut \in BOOLEAN
      /\ \A n \in users : n \in Name /\ ~TooShort(n)
      /\ entries \in Seq(Entry)
      /\ reading = "copy" => static \in {db[k] : k \in DOMAIN db}
      /\ users \subseteq ParsePasswdEntries(db)
  BY DEF UsersTyped, UserTypeOK
<1>2. /\ Len(db) \in Nat /\ DOMAIN db = 1 .. Len(db)
      /\ \A k \in DOMAIN db : db[k] \in Entry
  BY <1>1, DatabaseFacts
<1>3. <<>> \in Seq(Entry) /\ DOMAIN <<>> = {}
  BY SequenceFacts
<1>4. ASSUME ChooseSource(source) PROVE UsersTyped'
  <2>1. reading' \in {"setpwent", "getent", "failed"}
    BY <1>4, ChosenSource
  <2>2. UNCHANGED <<db, cgo, place, static, entries, others, cut, users>>
    BY <1>4 DEF ChooseSource
  <2> QED BY <1>1, <2>1, <2>2 DEF UsersTyped, UserTypeOK
<1>5. ASSUME RunGetent PROVE UsersTyped'
  <2>1. UNCHANGED <<db, cgo, place, static, others, cut>>
    BY <1>5 DEF RunGetent
  <2>2. \/ reading' = "failed" /\ UNCHANGED <<entries, users>>
        \/ reading' = "ready" /\ users' = ParsePasswdEntries(db) /\ entries' = <<>>
    BY <1>5 DEF RunGetent, Build
  <2>3. users' \subseteq ParsePasswdEntries(db) /\ \A n \in users' : n \in Name /\ ~TooShort(n)
    BY <1>1, <2>2, DatabaseFacts
  <2> QED BY <1>1, <1>3, <2>1, <2>2, <2>3 DEF UsersTyped, UserTypeOK
<1>6. ASSUME GetentHangs PROVE UsersTyped'
  BY <1>1, <1>6 DEF GetentHangs, UsersTyped, UserTypeOK
<1>7. ASSUME Setpwent PROVE UsersTyped'
  <2>1. place' \in 1 .. Len(db) + 1
    BY <1>2, <1>7 DEF Setpwent
  <2> QED BY <1>1, <1>7, <2>1 DEF Setpwent, UsersTyped, UserTypeOK
<1>8. ASSUME Getpwent PROVE UsersTyped'
  <2>1. UNCHANGED <<db, cgo, entries, others, cut, users>>
    BY <1>8 DEF Getpwent
  <2>2. \/ /\ reading' = "copy" /\ place' \in 1 .. Len(db) + 1
           /\ static' \in {db[k] : k \in DOMAIN db}
        \/ reading' = "endpwent" /\ UNCHANGED <<place, static>>
    BY <1>8, NextEntryFacts DEF Getpwent
  <2> QED BY <1>1, <2>1, <2>2 DEF UsersTyped, UserTypeOK
<1>9. ASSUME GetpwentFails PROVE UsersTyped'
  BY <1>1, <1>9 DEF GetpwentFails, UsersTyped, UserTypeOK
<1>10. ASSUME Copy PROVE UsersTyped'
  <2>1. /\ UNCHANGED <<db, cgo, place, static, others, cut, users>>
        /\ reading = "copy" /\ reading' = "getpwent" /\ entries' = Append(entries, static)
    BY <1>10 DEF Copy
  <2>2. static \in {db[k] : k \in DOMAIN db} /\ static \in Entry
    BY <1>1, <1>2, <2>1
  <2> DEFINE es == Append(entries, static)
  <2>3. /\ es \in Seq(Entry) /\ Len(es) = Len(entries) + 1
        /\ \A k \in 1 .. Len(entries) : es[k] = entries[k]
        /\ es[Len(entries) + 1] = static
    BY <1>1, <2>2, AppendProperties
  <2> HIDE DEF es
  <2>4. Len(entries) \in Nat /\ DOMAIN entries = 1 .. Len(entries) /\ DOMAIN es = 1 .. Len(es)
    BY <1>1, <2>3, SequenceFacts
  <2>5. ASSUME NEW k \in DOMAIN es PROVE es[k] \in {db[j] : j \in DOMAIN db}
    <3>1. k \in DOMAIN entries \/ k = Len(entries) + 1
      BY <2>3, <2>4
    <3> QED BY <1>1, <2>2, <2>3, <2>4, <3>1
  <2>6. entries' = es
    BY <2>1 DEF es
  <2> QED BY <1>1, <2>1, <2>3, <2>5, <2>6 DEF UsersTyped, UserTypeOK
<1>11. ASSUME Endpwent PROVE UsersTyped'
  <2>1. /\ UNCHANGED <<db, cgo, others, cut>> /\ place' = 1 /\ static' = <<>>
        /\ reading' = "ready" /\ users' = ParsePasswdEntries(entries) /\ entries' = <<>>
    BY <1>11 DEF Endpwent, Build
  <2>2. /\ users' \subseteq ParsePasswdEntries(db)
        /\ \A n \in users' : n \in Name /\ ~TooShort(n)
    BY <1>1, <2>1, BuiltFacts
  <2>3. place' \in 1 .. Len(db) + 1
    BY <1>2, <2>1
  <2> QED BY <1>1, <1>3, <2>1, <2>2, <2>3 DEF UsersTyped, UserTypeOK
<1>12. ASSUME OtherGoroutine PROVE UsersTyped'
  <2>1. UNCHANGED <<db, cgo, reading, entries, cut, users>>
    BY <1>12 DEF OtherGoroutine
  <2>2. others' \in 0 .. MaxOthers
    BY <1>1, <1>12, UserListAssumption DEF OtherGoroutine
  <2>3. \/ place' = 1 /\ static' = static
        \/ place' \in 1 .. Len(db) + 1 /\ static' \in {db[k] : k \in DOMAIN db}
    BY <1>12, NextEntryFacts DEF OtherGoroutine
  <2>4. 1 \in 1 .. Len(db) + 1
    BY <1>2
  <2> QED BY <1>1, <2>1, <2>2, <2>3, <2>4 DEF UsersTyped, UserTypeOK
<1> QED BY <1>4, <1>5, <1>6, <1>7, <1>8, <1>9, <1>10, <1>11, <1>12 DEF UserAction

LEMMA UsersStayComplete ==
  ASSUME UsersTyped, UsersComplete, UserAction
  PROVE  UsersComplete'
<1>1. /\ db \in Databases /\ place \in 1 .. Len(db) + 1 /\ others \in 0 .. MaxOthers
      /\ entries \in Seq(Entry) /\ users \subseteq ParsePasswdEntries(db)
      /\ \A k \in DOMAIN entries : entries[k] \in {db[j] : j \in DOMAIN db}
      /\ reading = "copy" => static \in {db[k] : k \in DOMAIN db}
  BY DEF UsersTyped, UserTypeOK
<1>2. /\ Len(db) \in Nat /\ DOMAIN db = 1 .. Len(db)
      /\ \A k \in DOMAIN db : db[k] \in Entry
  BY <1>1, DatabaseFacts
<1>3. ASSUME ChooseSource(source) PROVE UsersComplete'
  BY <1>3, ChosenSource DEF UsersComplete
<1>4. ASSUME RunGetent PROVE UsersComplete'
  <2>1. \/ reading' = "failed"
        \/ reading' = "ready" /\ users' = ParsePasswdEntries(db) /\ db' = db
    BY <1>4 DEF RunGetent, Build
  <2> QED BY <2>1 DEF UsersComplete
<1>5. ASSUME GetentHangs PROVE UsersComplete'
  BY <1>5 DEF GetentHangs, UsersComplete
<1>6. ASSUME Setpwent PROVE UsersComplete'
  <2>1. reading' = "getpwent" /\ place' = 1 /\ db' = db
    BY <1>6 DEF Setpwent
  <2>2. ReadUpTo(place)'
    BY <1>2, <2>1 DEF ReadUpTo
  <2> QED BY <2>1, <2>2 DEF UsersComplete
<1>7. ASSUME Getpwent PROVE UsersComplete'
  <2>1. UNCHANGED <<db, entries, others, cut, users>> /\ reading = "getpwent"
    BY <1>7 DEF Getpwent
  <2> SUFFICES ASSUME ~cut, others = 0 PROVE UsersComplete'
    BY <2>1 DEF UsersComplete
  <2>2. ReadUpTo(place)
    BY <2>1 DEF UsersComplete
  <2>3. CASE NextEntry /\ reading' = "copy"
    <3>1. PICK k \in DOMAIN db : place' = k + 1 /\ static' = db[k] /\ ReadUpTo(k)
      BY <2>2, <2>3, NextEntryFacts
    <3>2. \E i \in DOMAIN db : place' = i + 1 /\ static' = db[i]
                               /\ \A j \in DOMAIN db : Valid(db[j]) /\ j < i =>
                                    \E l \in DOMAIN entries : entries[l] = db[j]
      BY <3>1 DEF ReadUpTo
    <3>3. (\E i \in DOMAIN db : place = i + 1 /\ static = db[i] /\ ReadUpTo(i))'
      BY <2>1, <3>2 DEF ReadUpTo
    <3> QED BY <2>3, <3>3 DEF UsersComplete
  <2>4. CASE Ahead = {} /\ reading' = "endpwent"
    <3>1. \A k \in DOMAIN db : Valid(db[k]) => k < place
      BY <1>1, <1>2, <2>4 DEF Ahead
    <3>2. (ReadUpTo(Len(db) + 1))'
      BY <2>1, <2>2, <3>1 DEF ReadUpTo
    <3> QED BY <2>4, <3>2 DEF UsersComplete
  <2> QED BY <1>7, <2>3, <2>4 DEF Getpwent
<1>8. ASSUME GetpwentFails PROVE UsersComplete'
  BY <1>8 DEF GetpwentFails, UsersComplete
<1>9. ASSUME Copy PROVE UsersComplete'
  <2>1. /\ UNCHANGED <<db, place, static, others, cut, users>>
        /\ reading = "copy" /\ reading' = "getpwent" /\ entries' = Append(entries, static)
    BY <1>9 DEF Copy
  <2> SUFFICES ASSUME ~cut, others = 0 PROVE UsersComplete'
    BY <2>1 DEF UsersComplete
  <2>2. PICK k \in DOMAIN db : place = k + 1 /\ static = db[k] /\ ReadUpTo(k)
    BY <2>1 DEF UsersComplete
  <2> DEFINE es == Append(entries, static)
  <2>3. static \in Entry
    BY <1>2, <2>2
  <2>4. /\ es \in Seq(Entry) /\ Len(es) = Len(entries) + 1
        /\ \A j \in 1 .. Len(entries) : es[j] = entries[j]
        /\ es[Len(entries) + 1] = static
    BY <1>1, <2>3, AppendProperties
  <2> HIDE DEF es
  <2>5. Len(entries) \in Nat /\ DOMAIN entries = 1 .. Len(entries) /\ DOMAIN es = 1 .. Len(es)
    BY <1>1, <2>4, SequenceFacts
  <2>6. ASSUME NEW i \in DOMAIN db, Valid(db[i]), i < place
        PROVE  \E j \in DOMAIN es : es[j] = db[i]
    <3>1. CASE i = k
      <4>1. Len(entries) + 1 \in DOMAIN es
        BY <2>4, <2>5
      <4> QED BY <2>2, <2>4, <3>1, <4>1
    <3>2. CASE i # k
      <4>1. i < k
        BY <1>2, <2>2, <2>6, <3>2
      <4>2. PICK j \in DOMAIN entries : entries[j] = db[i]
        BY <2>2, <2>6, <4>1 DEF ReadUpTo
      <4>3. j \in DOMAIN es /\ es[j] = db[i]
        BY <2>4, <2>5, <4>2
      <4> QED BY <4>3
    <3> QED BY <3>1, <3>2
  <2>7. entries' = es
    BY <2>1 DEF es
  <2>8. ReadUpTo(place)'
    BY <2>1, <2>6, <2>7 DEF ReadUpTo
  <2> QED BY <2>1, <2>8 DEF UsersComplete
<1>10. ASSUME Endpwent PROVE UsersComplete'
  <2>1. /\ UNCHANGED <<db, others, cut>> /\ reading = "endpwent"
        /\ reading' = "ready" /\ users' = ParsePasswdEntries(entries)
    BY <1>10 DEF Endpwent, Build
  <2> SUFFICES ASSUME ~cut, others = 0 PROVE UsersComplete'
    BY <2>1 DEF UsersComplete
  <2>2. ReadUpTo(Len(db) + 1)
    BY <2>1 DEF UsersComplete
  <2>3. \A k \in DOMAIN db : Regular(db[k]) => \E j \in DOMAIN entries : entries[j] = db[k]
    BY <1>2, <2>2 DEF ReadUpTo, Regular, Valid
  <2>4. ParsePasswdEntries(db) \subseteq ParsePasswdEntries(entries)
    BY <2>3, NamesOfMonotone
  <2>5. ParsePasswdEntries(entries) \subseteq ParsePasswdEntries(db)
    BY <1>1, BuiltFacts
  <2> QED BY <2>1, <2>4, <2>5 DEF UsersComplete
<1>11. ASSUME OtherGoroutine PROVE UsersComplete'
  <2>1. others' # 0
    BY <1>1, <1>11 DEF OtherGoroutine
  <2> QED BY <2>1 DEF UsersComplete
<1> QED BY <1>3, <1>4, <1>5, <1>6, <1>7, <1>8, <1>9, <1>10, <1>11 DEF UserAction

-----------------------------------------------------------------------------
(***************************************************************************)
(* The name list of the host filter.                                       *)
(***************************************************************************)

HostsTyped ==
  /\ HostTypeOK
  /\ domain \in Listed /\ told \subseteq Listed /\ hosts \subseteq Listed
  /\ looking = "idle" => waits = 0 /\ ~expired
  /\ looking = "cname" => waits = IF expired THEN 1 ELSE 0
  /\ looking \in {"ns", "mx", "addresses"} => waits <= IF expired THEN 2 ELSE 1

\* The list holds what is known whatever the resolver does.
HostsComplete == looking = "ready" => hosts = CleanHostAndDomainNames(told \union OwnNames)

LEMMA PartsFacts ==
  ASSUME NEW n \in Listed
  PROVE  /\ DomainOf(n) \in Listed /\ Parts(n) \subseteq Listed
         /\ Dots(n) # {} => Before(n) \in Listed /\ After(n) \in Listed
<1>1. Len(n) \in Nat /\ Dots(n) \subseteq 1 .. Len(n)
  BY SequenceFacts DEF Listed, Dots
<1>2. ASSUME Dots(n) # {} PROVE Before(n) \in Listed /\ After(n) \in Listed
  <2> DEFINE D == Dots(n)
             first == FirstDot(n)
  <2>1. D \subseteq Nat
    BY <1>1
  <2>2. first = CHOOSE k \in D : \A j \in D : k <= j
    BY DEF FirstDot
  <2> HIDE DEF D, first
  <2>3. D # {}
    BY <1>2 DEF D
  <2>4. \E k \in D : \A j \in D : k <= j
    BY <2>1, <2>3, LeastOf
  <2>5. first \in D
    BY <2>2, <2>4
  <2>6. first \in 1 .. Len(n)
    BY <1>1, <2>5 DEF D
  <2>7. SubSeq(n, 1, first - 1) \in Listed
    <3>1. 1 \in 1 .. Len(n) + 1 /\ first - 1 \in 0 .. Len(n)
      BY <1>1, <2>6
    <3> QED BY <3>1, PartOfListed
  <2>8. SubSeq(n, first + 1, Len(n)) \in Listed
    <3>1. first + 1 \in 1 .. Len(n) + 1 /\ Len(n) \in 0 .. Len(n)
      BY <1>1, <2>6
    <3> QED BY <3>1, PartOfListed
  <2> QED BY <2>7, <2>8 DEF Before, After, first
<1>3. <<>> \in Listed
  BY DEF Listed
<1> HIDE DEF Before, After, Dots
<1> QED BY <1>2, <1>3 DEF DomainOf, Parts

LEMMA CleanFacts ==
  ASSUME NEW names, names \subseteq Listed
  PROVE  \A n \in CleanHostAndDomainNames(names) : n \in Listed /\ n \in Name /\ ~TooShort(n)
<1> SUFFICES ASSUME NEW n \in CleanHostAndDomainNames(names)
             PROVE  n \in Listed /\ n \in Name /\ ~TooShort(n)
  OBVIOUS
<1>1. PICK m \in names : n \in Parts(m)
  BY DEF CleanHostAndDomainNames
<1>2. n \in Listed
  BY <1>1, PartsFacts
<1> QED BY <1>2, ListedFacts DEF CleanHostAndDomainNames

LEMMA OwnNamesListed ==
  ASSUME HostsTyped
  PROVE  ParseEtcHosts \subseteq Listed /\ OwnNames \subseteq Listed
<1>1. /\ hostname \in Listed /\ domain \in Listed
      /\ etcHosts \in HostsFiles \union {{}}
  <2>1. <<>> \in Listed
    BY DEF Listed
  <2> QED BY <2>1, HostListAssumption DEF HostsTyped, HostTypeOK
<1>2. ASSUME NEW line \in etcHosts, NEW k \in 2 .. Len(line) PROVE line[k] \in Listed
  <2>1. line \in Seq(Listed \ {<<>>})
    BY <1>1, HostListAssumption
  <2>2. Len(line) \in Nat /\ \A j \in 1 .. Len(line) : line[j] \in Listed \ {<<>>}
    BY <2>1, SequenceFacts
  <2> QED BY <2>2
<1>3. ParseEtcHosts \subseteq Listed
  BY <1>2 DEF ParseEtcHosts
<1> QED BY <1>1, <1>3 DEF OwnNames

\* A step of NewHostFilter.
HostAction == AskHostname \/ GiveUp \/ Assemble \/ Answer \/ Expire

LEMMA LookFacts ==
  ASSUME Look
  PROVE  /\ looking' \in {"addresses", "ns"} /\ expired' = FALSE
         /\ addresses' \subseteq Interfaces
BY DEF Look

LEMMA LookupFacts ==
  ASSUME HostsTyped, NEW answer, answer \subseteq Listed, Lookup(answer)
  PROVE  HostsTyped' /\ looking' # "ready"
<1>1. /\ hostname \in Hostnames \union {<<>>} /\ etcHosts \in HostsFiles \union {{}}
      /\ expired \in BOOLEAN /\ waits \in 0 .. 2 /\ addresses \subseteq Interfaces
      /\ \A n \in told : n \in Name
      /\ \A n \in hosts : n \in Name /\ ~TooShort(n)
      /\ domain \in Listed /\ told \subseteq Listed /\ hosts \subseteq Listed
  BY DEF HostsTyped, HostTypeOK
<1>2. \A n \in Listed : n \in Name
  BY ListedFacts
<1>3. CASE LookupCNAME(answer)
  <2>1. /\ UNCHANGED <<hostname, etcHosts, waits, told, hosts>> /\ looking = "cname"
        /\ looking' \in {"addresses", "ns"} /\ expired' = FALSE
        /\ addresses' \subseteq Interfaces
    BY <1>3, LookFacts DEF LookupCNAME
  <2>2. PICK n \in answer \union {<<>>} : domain' = DomainOf(n)
    BY <1>3 DEF LookupCNAME
  <2>3. n \in Listed
    <3>1. <<>> \in Listed
      BY DEF Listed
    <3> QED BY <2>2, <3>1
  <2>4. domain' \in Listed
    BY <2>2, <2>3, PartsFacts
  <2>5. waits' <= 1
    BY <1>1, <2>1 DEF HostsTyped
  <2> QED BY <1>1, <1>2, <2>1, <2>4, <2>5 DEF HostsTyped, HostTypeOK
<1>4. CASE LookupNS(answer)
  <2>1. told' \subseteq Listed /\ \A n \in told' : n \in Name
    BY <1>1, <1>2, <1>4 DEF LookupNS
  <2> QED BY <1>1, <1>4, <2>1 DEF LookupNS, HostsTyped, HostTypeOK
<1>5. CASE LookupMX(answer)
  <2>1. told' \subseteq Listed /\ \A n \in told' : n \in Name
    BY <1>1, <1>2, <1>5 DEF LookupMX
  <2> QED BY <1>1, <1>5, <2>1 DEF LookupMX, HostsTyped, HostTypeOK
<1>6. CASE LookupAddr(answer)
  <2>1. told' \subseteq Listed /\ \A n \in told' : n \in Name
    BY <1>1, <1>2, <1>6 DEF LookupAddr
  <2>2. addresses' \subseteq Interfaces
    BY <1>1, <1>6 DEF LookupAddr
  <2> QED BY <1>1, <1>6, <2>1, <2>2 DEF LookupAddr, HostsTyped, HostTypeOK
<1> QED BY <1>3, <1>4, <1>5, <1>6 DEF Lookup

LEMMA HostsStayTyped ==
  ASSUME HostsTyped, HostAction
  PROVE  HostsTyped' /\ HostsComplete'
<1>1. /\ hostname \in Hostnames \union {<<>>} /\ etcHosts \in HostsFiles \union {{}}
      /\ expired \in BOOLEAN /\ waits \in 0 .. 2 /\ addresses \subseteq Interfaces
      /\ \A n \in told : n \in Name
      /\ \A n \in hosts : n \in Name /\ ~TooShort(n)
      /\ domain \in Listed /\ told \subseteq Listed /\ hosts \subseteq Listed
  BY DEF HostsTyped, HostTypeOK
<1>2. \A n \in Listed : n \in Name
  BY ListedFacts
<1>3. ASSUME AskHostname PROVE HostsTyped' /\ HostsComplete'
  <2>1. UNCHANGED <<hostname, etcHosts, waits, told, hosts>> /\ waits = 0 /\ ~expired
    BY <1>3 DEF AskHostname, HostsTyped
  <2>2. hostname \in Listed
    <3>1. <<>> \in Listed
      BY DEF Listed
    <3> QED BY <1>1, <3>1, HostListAssumption
  <2>3. CASE domain' = (IF domain # <<>> THEN domain ELSE DomainOf(hostname)) /\ Look
    <3>1. domain' \in Listed
      BY <1>1, <2>2, <2>3, PartsFacts
    <3>2. /\ looking' \in {"addresses", "ns"} /\ expired' = FALSE
          /\ addresses' \subseteq Interfaces
      BY <2>3, LookFacts
    <3>3. looking' # "ready" /\ looking' # "idle" /\ looking' # "cname" /\ waits' = 0
      BY <2>1, <3>2
    <3>4. domain' \in Name /\ looking' \in {"idle", "cname", "ns", "mx", "addresses", "ready"}
      BY <1>2, <3>1, <3>2
    <3>5. HostTypeOK'
      BY <1>1, <2>1, <3>2, <3>4 DEF HostTypeOK
    <3>6. HostsTyped'
      BY <1>1, <2>1, <3>1, <3>2, <3>3, <3>5 DEF HostsTyped
    <3> QED BY <3>3, <3>6 DEF HostsComplete
  <2>4. CASE looking' = "cname" /\ UNCHANGED <<domain, expired, addresses>>
    BY <1>1, <1>2, <2>1, <2>4 DEF HostsTyped, HostTypeOK, HostsComplete
  <2> QED BY <1>3, <2>3, <2>4 DEF AskHostname
<1>4. ASSUME GiveUp PROVE HostsTyped' /\ HostsComplete'
  BY <1>4, LookupFacts DEF GiveUp, HostsComplete
<1>5. ASSUME Assemble PROVE HostsTyped' /\ HostsComplete'
  <2>1. /\ UNCHANGED <<hostname, etcHosts, domain, expired, waits, told, addresses>>
        /\ looking' = "ready" /\ hosts' = CleanHostAndDomainNames(told \union OwnNames)
    BY <1>5 DEF Assemble
  <2>2. told \union OwnNames \subseteq Listed
    BY <1>1, OwnNamesListed
  <2>3. \A n \in hosts' : n \in Listed /\ n \in Name /\ ~TooShort(n)
    <3> DEFINE names == told \union OwnNames
    <3> HIDE DEF names
    <3>1. names \subseteq Listed /\ hosts' = CleanHostAndDomainNames(names)
      BY <2>1, <2>2 DEF names
    <3> QED BY <3>1, CleanFacts
  <2>4. OwnNames' = OwnNames
    BY <2>1 DEF OwnNames, ParseEtcHosts
  <2>5. HostsComplete'
    BY <2>1, <2>4 DEF HostsComplete
  <2> QED BY <1>1, <1>2, <2>1, <2>3, <2>5 DEF HostsTyped, HostTypeOK
<1>6. ASSUME Answer PROVE HostsTyped' /\ HostsComplete'
  <2>1. PICK answer \in Answers \union {{}} : Lookup(answer)
    BY <1>6 DEF Answer
  <2>2. answer \subseteq Listed
    BY <2>1, HostListAssumption
  <2> QED BY <2>1, <2>2, LookupFacts DEF HostsComplete
<1>7. ASSUME Expire PROVE HostsTyped' /\ HostsComplete'
  <2>1. /\ UNCHANGED <<hostname, etcHosts, looking, domain, told, addresses, hosts>>
        /\ looking \in {"cname", "ns", "mx", "addresses"} /\ ~expired
        /\ expired' = TRUE /\ waits' = waits + 1
    BY <1>7 DEF Expire, Waiting
  <2>2. waits' \in 0 .. 2 /\ (looking = "cname" => waits' = 1)
    BY <1>1, <2>1 DEF HostsTyped
  <2> QED BY <1>1, <1>2, <2>1, <2>2 DEF HostsTyped, HostTypeOK, HostsComplete
<1> QED BY <1>3, <1>4, <1>5, <1>6, <1>7 DEF HostAction

-----------------------------------------------------------------------------
(***************************************************************************)
(* The program.                                                            *)
(***************************************************************************)

\* Somebody asked for no filter.
Asked == \E k \in DOMAIN args : Is(args[k], BoolFlag)

PhasesTyped ==
  /\ program \in {"agent", "composite", "host"} /\ off \subseteq {"username", "host"}
  /\ Started \/ phase \in {"flags", "users", "hosts"}
  /\ phase = "flags" => program = "agent"
  /\ program = "agent" => off = {}

Inv ==
  /\ PhasesTyped /\ FlagsTyped /\ UsersTyped /\ HostsTyped
  /\ program = "agent" => AtFlag /\ SplitAsMeant
  /\ UsersComplete /\ HostsComplete
  /\ Talking => reading = "ready" \/ Asked

LEMMA InitTyped ==
  ASSUME Init
  PROVE  PhasesTyped /\ FlagsTyped /\ UsersTyped /\ HostsTyped
<1>1. PhasesTyped
  BY DEF Init, PhasesTyped, Started, Talking
<1>2. FlagsTyped
  <2>1. Empty \in FlagValue /\ <<>> \in Seq(Arguments) /\ Len(<<>>) = 0
    BY DEF FlagValue
  <2>2. CASE FlagsInit(CommandLines)
    <3>1. args \in Seq(Arguments) /\ next = 1
      BY <2>2, StartupAssumption DEF FlagsInit
    <3>2. next \in 1 .. Len(args) + 1
      BY <3>1, SequenceFacts
    <3> QED BY <2>1, <2>2, <3>1, <3>2 DEF FlagsInit, FlagsTyped
  <2>3. CASE NoFlags /\ source \in Sources \union {Empty}
    <3>1. args = <<>> /\ next = 1 /\ rest = <<>> /\ disabled = FALSE /\ prompt = Empty
      BY <2>3 DEF NoFlags
    <3>2. next \in 1 .. Len(args) + 1
      BY <2>1, <3>1
    <3> QED BY <2>1, <2>3, <3>1, <3>2 DEF FlagsTyped
  <2> QED BY <2>2, <2>3 DEF Init
<1>3. UsersTyped
  <2>1. UserInit
    BY DEF Init
  <2>2. Len(db) \in Nat
    BY <2>1, DatabaseFacts DEF UserInit
  <2>3. place \in 1 .. Len(db) + 1 /\ others \in 0 .. MaxOthers
    BY <2>1, <2>2, UserListAssumption DEF UserInit
  <2>4. entries \in Seq(Entry) /\ DOMAIN entries = {}
    BY <2>1, SequenceFacts DEF UserInit
  <2> QED BY <2>1, <2>3, <2>4 DEF UserInit, UsersTyped, UserTypeOK
<1>4. HostsTyped
  <2>1. <<>> \in Listed /\ \A n \in Listed : n \in Name
    BY ListedFacts DEF Listed
  <2>2. /\ hostname \in Hostnames \union {<<>>} /\ etcHosts \in HostsFiles \union {{}}
        /\ domain \in Domains \union {<<>>}
        /\ looking = "idle" /\ expired = FALSE /\ waits = 0
        /\ told = {} /\ addresses = {} /\ hosts = {}
    BY DEF Init, HostInit
  <2>3. domain \in Listed /\ domain \in Name
    BY <2>1, <2>2, HostListAssumption
  <2>4. HostTypeOK
    <3>1. waits \in 0 .. 2 /\ expired \in BOOLEAN /\ addresses \subseteq Interfaces
      <4>1. 0 \in 0 .. 2 /\ FALSE \in BOOLEAN
        OBVIOUS
      <4> QED BY <2>2, <4>1, Zenon
    <3>2. (\A n \in told : n \in Name) /\ \A n \in hosts : n \in Name /\ ~TooShort(n)
      BY <2>2
    <3>3. looking \in {"idle", "cname", "ns", "mx", "addresses", "ready"}
      BY <2>2
    <3> QED BY <2>2, <2>3, <3>1, <3>2, <3>3, Zenon DEF HostTypeOK
  <2> QED BY <2>2, <2>3, <2>4 DEF HostsTyped
<1> QED BY <1>1, <1>2, <1>3, <1>4

LEMMA InitInv ==
  ASSUME Init
  PROVE  Inv
<1>1. FlagsTyped
  BY InitTyped
<1>2. ASSUME program = "agent" PROVE AtFlag /\ SplitAsMeant
  <2>1. /\ next = 1 /\ disabled = FALSE /\ prompt = Empty /\ source = Empty /\ rest = <<>>
    BY <1>2 DEF Init, FlagsInit
  <2>2. 1 .. next - 1 = {}
    BY <2>1
  <2>3. AtFlag
    BY <2>1 DEF AtFlag, IsValue
  <2>4. \A names : Given(names) = {}
    BY <2>2 DEF Given
  <2>5. PassedOn = {}
    BY <2>2 DEF PassedOn
  <2>6. Len(rest) = Cardinality(PassedOn)
    BY <2>1, <2>5, FS_EmptySet
  <2> QED BY <2>1, <2>2, <2>3, <2>4, <2>5, <2>6 DEF SplitAsMeant, IsLastGiven
<1>3. UsersComplete /\ HostsComplete
  BY DEF Init, UserInit, HostInit, UsersComplete, HostsComplete
<1>4. ~Talking
  BY DEF Init, Talking
<1> QED BY <1>2, <1>3, <1>4, InitTyped DEF Inv

\* Each step is one of the command line, of the program or of one filter.
LEMMA Steps ==
  ASSUME Next
  PROVE  \/ ParseFlag
         \/ RunUnfiltered \/ BuildPlugin \/ UsersDone \/ HostsDone
         \/ /\ phase = "users" /\ UserAction
            /\ UNCHANGED <<program, off, phase, flagVars, hostVars>>
         \/ /\ phase = "hosts" /\ HostAction
            /\ UNCHANGED <<program, off, phase, flagVars, userVars>>
         \/ UNCHANGED vars
<1>1. ASSUME Progress
      PROVE  \/ ParseFlag
             \/ RunUnfiltered \/ BuildPlugin \/ UsersDone \/ HostsDone
             \/ /\ phase = "users" /\ UserAction
                /\ UNCHANGED <<program, off, phase, flagVars, hostVars>>
             \/ /\ phase = "hosts" /\ HostAction
                /\ UNCHANGED <<program, off, phase, flagVars, userVars>>
  BY <1>1 DEF Progress, UserStep, HostStep, UserAction, HostAction, ReadUsers
<1> QED BY <1>1 DEF Next, UserStep, HostStep, Beside, Rest, UserAction, HostAction, UserFaults

LEMMA NextInv ==
  ASSUME Inv, [Next]_vars
  PROVE  Inv'
<1> USE DEF Inv
<1>1. ASSUME UNCHANGED flagVars, UNCHANGED program
      PROVE  FlagsTyped' /\ (program' = "agent" => AtFlag' /\ SplitAsMeant')
  <2>1. FlagsTyped'
    BY <1>1 DEF FlagsTyped, flagVars
  <2>2. AtFlag' <=> AtFlag
    BY <1>1 DEF AtFlag, IsValue, Is, flagVars
  <2>3. SplitAsMeant' <=> SplitAsMeant
    BY <1>1 DEF SplitAsMeant, IsLastGiven, Given, HasValue, PassedOn, IsValue, Is, flagVars
  <2> QED BY <1>1, <2>1, <2>2, <2>3
<1>2. ASSUME UNCHANGED userVars PROVE UsersTyped' /\ UsersComplete'
  <2>1. UsersTyped'
    BY <1>2 DEF UsersTyped, UserTypeOK, userVars
  <2>2. UsersComplete'
    BY <1>2 DEF UsersComplete, ReadUpTo, userVars
  <2> QED BY <2>1, <2>2
<1>3. ASSUME UNCHANGED hostVars PROVE HostsTyped' /\ HostsComplete'
  <2>1. HostsTyped'
    BY <1>3 DEF HostsTyped, HostTypeOK, hostVars
  <2>2. OwnNames' = OwnNames
    BY <1>3 DEF OwnNames, ParseEtcHosts, hostVars
  <2>3. HostsComplete'
    BY <1>3, <2>2 DEF HostsComplete, hostVars
  <2> QED BY <2>1, <2>3
<1>4. ASSUME args' = args PROVE Asked' <=> Asked
  BY <1>4 DEF Asked, Is
<1>5. ASSUME UNCHANGED <<program, off, phase>> PROVE PhasesTyped' /\ (Talking' <=> Talking)
  BY <1>5 DEF PhasesTyped, Started, Talking
<1>6. ASSUME ParseFlag PROVE Inv'
  <2>1. /\ phase = "flags" /\ SplitOwnFlags
        /\ UNCHANGED <<program, off, phase>> /\ UNCHANGED userVars /\ UNCHANGED hostVars
    BY <1>6 DEF ParseFlag
  <2>2. program = "agent" /\ ~Talking
    BY <2>1 DEF PhasesTyped, Talking
  <2>3. FlagsTyped' /\ AtFlag' /\ SplitAsMeant'
    BY <2>1, <2>2, SplitTurn, SplitGoesOn
  <2> QED BY <1>2, <1>3, <1>5, <2>1, <2>2, <2>3
<1>7. ASSUME NEW ph, Goto(ph), ph \in {"console", "answer", "usage", "fatal", "filter", "users", "hosts"},
             ph \in {"console", "answer"} => reading = "ready" \/ Asked
      PROVE  Inv'
  <2>1. /\ phase' = ph /\ UNCHANGED <<program, off>>
        /\ UNCHANGED flagVars /\ UNCHANGED userVars /\ UNCHANGED hostVars
    BY <1>7 DEF Goto
  <2>2. PhasesTyped'
    BY <1>7, <2>1 DEF PhasesTyped, Started, Talking
  <2>3. Talking' => reading' = "ready" \/ Asked'
    <3>1. reading' = reading /\ args' = args
      BY <2>1 DEF userVars, flagVars
    <3>2. Talking' => reading = "ready" \/ Asked
      BY <1>7, <2>1 DEF Talking
    <3> QED BY <1>4, <3>1, <3>2
  <2> QED BY <1>1, <1>2, <1>3, <2>1, <2>2, <2>3
<1>8. Launch \in {"answer", "usage", "console"}
  BY DEF Launch
<1>9. ASSUME RunUnfiltered PROVE Inv'
  <2>1. phase = "flags" /\ Split /\ disabled /\ Goto(Launch)
    BY <1>9 DEF RunUnfiltered
  <2>2. \E k \in 1 .. next - 1 : Is(args[k], BoolFlag)
    BY <2>1 DEF PhasesTyped, SplitAsMeant
  <2>3. \A k \in 1 .. next - 1 : k \in DOMAIN args
    BY SequenceFacts DEF FlagsTyped
  <2>4. Asked
    BY <2>2, <2>3 DEF Asked
  <2> QED BY <1>7, <1>8, <2>1, <2>4
<1>10. ASSUME BuildPlugin PROVE Inv'
  <2>1. Goto("users") \/ Goto("fatal")
    BY <1>10 DEF BuildPlugin
  <2> QED BY <1>7, <2>1
<1>11. ASSUME UsersDone PROVE Inv'
  <2>1. Goto(AfterUsers) /\ (reading \in {"ready", "failed"} \/ "username" \in off)
    BY <1>11 DEF UsersDone
  <2>2. CASE program = "agent"
    <3>1. reading = "ready" \/ AfterUsers = "fatal"
      BY <2>1, <2>2 DEF PhasesTyped, AfterUsers
    <3>2. AfterUsers \in {"fatal", "answer", "usage", "console"}
      BY <1>8, <2>2 DEF AfterUsers
    <3> HIDE DEF Inv
    <3> QED BY <1>7, <2>1, <3>1, <3>2
  <2>3. CASE program # "agent"
    <3>1. AfterUsers = "hosts"
      BY <2>3 DEF AfterUsers
    <3> HIDE DEF Inv
    <3> QED BY <1>7, <2>1, <3>1
  <2> QED BY <2>2, <2>3
<1>12. ASSUME HostsDone PROVE Inv'
  <2>1. Goto("filter")
    BY <1>12 DEF HostsDone
  <2> QED BY <1>7, <2>1
<1>13. ASSUME phase = "users", UserAction,
              UNCHANGED <<program, off, phase, flagVars, hostVars>>
       PROVE  Inv'
  <2>1. UsersTyped' /\ UsersComplete'
    BY <1>13, UsersStayTyped, UsersStayComplete
  <2>2. ~Talking
    BY <1>13 DEF Talking
  <2>3. UNCHANGED flagVars /\ UNCHANGED hostVars
    BY <1>13
  <2> QED BY <1>1, <1>3, <1>5, <1>13, <2>1, <2>2, <2>3
<1>14. ASSUME phase = "hosts", HostAction,
              UNCHANGED <<program, off, phase, flagVars, userVars>>
       PROVE  Inv'
  <2>1. HostsTyped' /\ HostsComplete'
    BY <1>14, HostsStayTyped
  <2>2. ~Talking
    BY <1>14 DEF Talking
  <2>3. UNCHANGED flagVars /\ UNCHANGED userVars
    BY <1>14
  <2> QED BY <1>1, <1>2, <1>5, <1>14, <2>1, <2>2, <2>3
<1>15. ASSUME UNCHANGED vars PROVE Inv'
  <2>1. /\ UNCHANGED <<program, off, phase>>
        /\ UNCHANGED flagVars /\ UNCHANGED userVars /\ UNCHANGED hostVars
    BY <1>15 DEF vars
  <2>2. reading' = reading /\ args' = args
    BY <2>1 DEF userVars, flagVars
  <2> QED BY <1>1, <1>2, <1>3, <1>4, <1>5, <2>1, <2>2
<1> HIDE DEF Inv
<1> QED BY <1>6, <1>9, <1>10, <1>11, <1>12, <1>13, <1>14, <1>15, Steps

THEOREM Invariance == Spec => []Inv
<1>1. Init => Inv
  BY InitInv
<1>2. Inv /\ [Next]_vars => Inv'
  BY NextInv
<1> QED BY <1>1, <1>2, PTL DEF Spec

-----------------------------------------------------------------------------
(***************************************************************************)
(* What the program promises.                                              *)
(***************************************************************************)

\* The variables keep their types, from the first flag to the last lookup.
THEOREM TypeCorrect == Spec => []TypeOK
<1>1. Inv => TypeOK
  <2> SUFFICES ASSUME Inv PROVE TypeOK
    OBVIOUS
  <2>1. PhasesTyped /\ FlagsTyped /\ UserTypeOK /\ HostTypeOK
    BY DEF Inv, UsersTyped, HostsTyped
  <2>2. FlagsTypeOK
    BY <2>1, SequenceFacts DEF FlagsTyped, FlagsTypeOK
  <2> QED BY <2>1, <2>2 DEF PhasesTyped, FlagsTyped, TypeOK
<1> QED BY <1>1, Invariance, PTL

\* SplitOwnFlags splits every command line as its arguments are meant.
THEOREM CommandLinesAreSplit == Spec => []CommandLineSplit
<1>1. Inv => CommandLineSplit
  BY DEF Inv, CommandLineSplit
<1> QED BY <1>1, Invariance, PTL

\* The agent talks without its filter only where the command line has the flag.
THEOREM FilterUnlessAsked == Spec => []UnfilteredOnlyIfAsked
<1>1. Inv => UnfilteredOnlyIfAsked
  BY DEF Inv, UnfilteredOnlyIfAsked, Asked
<1> QED BY <1>1, Invariance, PTL

\* What the lists hold, as the regular expression needs it.
LEMMA ListFacts ==
  ASSUME Inv
  PROVE  /\ users \subseteq Name \ {<<>>} /\ hosts \subseteq Name \ {<<>>}
         /\ users \subseteq ParsePasswdEntries(db) /\ db \in Databases
<1>1. (\A n \in users : n \in Name /\ ~TooShort(n)) /\ \A n \in hosts : n \in Name /\ ~TooShort(n)
  BY DEF Inv, UsersTyped, UserTypeOK, HostsTyped, HostTypeOK
<1>2. TooShort(<<>>)
  BY DEF TooShort
<1>3. users \subseteq Name \ {<<>>} /\ hosts \subseteq Name \ {<<>>}
  BY <1>1, <1>2
<1> QED BY <1>3 DEF Inv, UsersTyped, UserTypeOK

\* A listed name with ASCII ends is replaced as a whole.
THEOREM NamesAreReplacedWhole == Spec => []LongerNamesFirst
<1>1. Inv => LongerNamesFirst
  <2> SUFFICES ASSUME Inv PROVE LongerNamesFirst
    OBVIOUS
  <2>1. \A n \in users : Findable(n) => Redacted(users, n) = <<Code>>
    BY ListFacts, ReplacedAsAWhole
  <2>2. \A n \in hosts : Findable(n) => Redacted(hosts, n) = <<Code>>
    BY ListFacts, ReplacedAsAWhole
  <2> QED BY <2>1, <2>2 DEF LongerNamesFirst
<1> QED BY <1>1, Invariance, PTL

\* Whatever the database, no findable name of a regular user is left in a text.
THEOREM UsersAreHidden == Spec => []UsersHidden
<1>1. Inv => UsersHidden
  <2> SUFFICES ASSUME Inv, reading = "ready", ~cut, others = 0,
                      NEW t \in Texts, NEW n \in NamesOf(db), Findable(n), ~TooShort(n)
               PROVE  ~Occurs(n, Redacted(users, t))
    BY DEF UsersHidden
  <2>1. users = ParsePasswdEntries(db)
    BY DEF Inv, UsersComplete
  <2>2. n \in users /\ n \in Listed
    BY <2>1, ListFacts, DatabaseFacts DEF ParsePasswdEntries
  <2>3. t \in Name /\ RunsApart(t)
    BY StartupAssumption
  <2> QED BY <2>2, <2>3, ListFacts, NoListedNameIsLeft
<1> QED BY <1>1, Invariance, PTL

\* The names the host filter has to know are in its list.
LEMMA OwnHostNamesKnown ==
  ASSUME Inv, looking = "ready", NEW n \in OwnHostNames, ~TooShort(n)
  PROVE  n \in hosts /\ n \in Listed
<1> DEFINE given == {hostname, domain} \union
                    UNION {{line[k] : k \in 2 .. Len(line)} : line \in {l \in etcHosts : l[1][1] # Hash}}
           dotted == {m \in given \ Addresses : Dots(m) # {}}
           names == told \union OwnNames
<1>1. n \in (given \union {Before(m) : m \in dotted} \union {After(m) : m \in dotted}) \ Addresses
  BY DEF OwnHostNames
<1>2. given = {hostname, domain} \union ParseEtcHosts
  BY DEF ParseEtcHosts
<1> HIDE DEF given
<1>3. TooShort(<<>>) /\ Dots(<<>>) = {}
  BY DEF TooShort, Dots
<1>4. \A m \in given : m # <<>> => m \in names
  BY <1>2 DEF OwnNames
<1>5. \E m \in given \ Addresses : m # <<>> /\ n \in Parts(m)
  <2>1. CASE n \in given
    BY <1>1, <1>3, <2>1 DEF Parts
  <2>2. CASE \E m \in dotted : n = Before(m) \/ n = After(m)
    <3>1. PICK m \in dotted : n = Before(m) \/ n = After(m)
      BY <2>2
    <3>2. m \in given \ Addresses /\ Dots(m) # {} /\ m # <<>>
      BY <1>3, <3>1
    <3>3. n \in Parts(m)
      BY <3>1, <3>2 DEF Parts
    <3> QED BY <3>2, <3>3
  <2> QED BY <1>1, <2>1, <2>2
<1>6. names \subseteq Listed /\ hosts = CleanHostAndDomainNames(names)
  BY OwnNamesListed DEF Inv, HostsTyped, HostsComplete
<1> HIDE DEF names
<1>7. n \in hosts
  BY <1>1, <1>4, <1>5, <1>6 DEF CleanHostAndDomainNames
<1> QED BY <1>6, <1>7, CleanFacts

\* Whatever the resolver does, no findable name of the host, its domain or
\* /etc/hosts is left behind both filters, in texts where the user names
\* match whole runs.
THEOREM HostsAreHidden ==
  ASSUME UsersMatchWholeRuns
  PROVE  Spec => []HostsHidden
<1>1. Inv => HostsHidden
  <2> SUFFICES ASSUME Inv, looking = "ready",
                      NEW t \in Texts, NEW n \in OwnHostNames, Findable(n), ~TooShort(n)
               PROVE  ~Occurs(n, Redacted(hosts, Redacted(users, t)))
    BY DEF HostsHidden, Filtered
  <2>1. n \in hosts /\ n \in Listed
    BY OwnHostNamesKnown
  <2>2. t \in Name /\ RunsApart(t)
    BY StartupAssumption
  <2>3. ASSUME NEW k \in 1 .. Len(t), NEW m \in MatchesAt(users, t, k) PROVE Findable(m)
    <3>1. m \in MatchesAt(ParsePasswdEntries(db), t, k)
      BY ListFacts DEF MatchesAt
    <3>2. db \in Databases
      BY ListFacts
    <3> QED BY <3>1, <3>2 DEF UsersMatchWholeRuns
  <2> DEFINE u == Redacted(users, t)
  <2>4. u \in Name /\ RunsApart(u)
    BY <2>2, <2>3, ListFacts, ReplacingKeepsRunsApart
  <2> HIDE DEF u
  <2>5. ~Occurs(n, Redacted(hosts, u))
    BY <2>1, <2>4, ListFacts, NoListedNameIsLeft
  <2> QED BY <2>5 DEF u
<1> QED BY <1>1, Invariance, PTL
=============================================================================
