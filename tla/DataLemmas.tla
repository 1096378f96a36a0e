----------------------------- MODULE DataLemmas -----------------------------
(***************************************************************************)
(* Facts about numbers, functions and sequences that proofs about several  *)
(* components use.                                                         *)
(*                                                                         *)
(* Induction over the natural numbers and recursive functions on an        *)
(* interval are facts about sets and functions: what is to be shown of     *)
(* every number is that a set contains it.  The models write a loop of the *)
(* code that runs over an array as a recursive function of the number of   *)
(* elements the loop has done; these lemmas say what such a function is.   *)
(***************************************************************************)
EXTENDS Integers, Sequences, WellFoundedInduction, TLAPS

\* A set of natural numbers that is not empty has a least element.
LEMMA LeastNumber ==
  ASSUME NEW T, T \subseteq Nat, T # {}
  PROVE  \E n \in T : \A m \in T : n <= m
<1> DEFINE R == OpToRel(<, Nat)
<1>1. IsWellFoundedOn(R, Nat)
  BY NatLessThanWellFounded
<1>2. \A x, y \in Nat : x < y => <<x, y>> \in R
  BY DEF OpToRel
<1> HIDE DEF R
<1>3. PICK n \in T : \A m \in T : ~(<<m, n>> \in R)
  BY <1>1, WFMin
<1>4. \A m \in T : ~(m < n)
  BY <1>2, <1>3
<1>5. \A m \in T : n <= m
  BY <1>4, SMT
<1> QED
  BY <1>5

\* A set that contains 0 and, up to N, the successor of each of its elements.
LEMMA UpTo ==
  ASSUME NEW N \in Nat, NEW S, 0 \in S,
         \A n \in 0 .. (N - 1) : n \in S => n + 1 \in S
  PROVE  \A n \in 0 .. N : n \in S
<1> DEFINE Missing == (0 .. N) \ S
<1>1. SUFFICES ASSUME Missing # {} PROVE FALSE
  OBVIOUS
<1>2. Missing \subseteq Nat
  OBVIOUS
<1>3. PICK n \in Missing : \A m \in Missing : n <= m
  BY <1>1, <1>2, LeastNumber
<1>4. n - 1 \in 0 .. (N - 1) /\ n - 1 \notin Missing
  BY <1>3
<1> QED
  BY <1>3, <1>4

\* Induction over all natural numbers.
LEMMA Induction ==
  ASSUME NEW S, 0 \in S, \A n \in Nat : n \in S => n + 1 \in S
  PROVE  Nat \subseteq S
<1> SUFFICES ASSUME NEW n \in Nat PROVE n \in S
  OBVIOUS
<1>1. \A k \in 0 .. n : k \in S
  BY UpTo
<1> QED
  BY <1>1

\* f[n] is the value after n of the N rounds of a loop that starts from base
\* and whose n-th round takes the value v of the one before to step[n][v].
IsLoop(f, N, T, base, step) ==
  /\ f \in [0 .. N -> T] /\ f[0] = base
  /\ \A n \in 1 .. N : f[n] = step[n][f[n - 1]]

\* There is such a function.
LEMMA LoopExists ==
  ASSUME NEW N \in Nat, NEW T, NEW base \in T, NEW step \in [1 .. N -> [T -> T]]
  PROVE  \E f : IsLoop(f, N, T, base, step)
<1> DEFINE Run(f, n) == /\ f \in [0 .. n -> T] /\ f[0] = base
                        /\ \A k \in 1 .. n : f[k] = step[k][f[k - 1]]
           S == {n \in 0 .. N : \E f : Run(f, n)}
<1>1. 0 \in S
  <2>1. Run([k \in 0 .. 0 |-> base], 0)
    OBVIOUS
  <2> HIDE DEF Run
  <2> QED
    BY <2>1
<1>2. ASSUME NEW n \in 0 .. (N - 1), n \in S
      PROVE  n + 1 \in S
  <2>1. PICK f : Run(f, n)
    BY <1>2
  <2> DEFINE last == step[n + 1][f[n]]
             g == [k \in 0 .. (n + 1) |-> IF k = n + 1 THEN last ELSE f[k]]
  <2>2. last \in T
    <3>1. f[n] \in T /\ step[n + 1] \in [T -> T]
      BY <2>1
    <3> QED
      BY <3>1
  <2> HIDE DEF last
  <2>3. g \in [0 .. (n + 1) -> T]
    BY <2>1, <2>2
  <2>4. \A k \in 0 .. n : g[k] = f[k]
    OBVIOUS
  <2>5. g[n + 1] = last
    OBVIOUS
  <2> HIDE DEF g
  <2>6. g[0] = base
    BY <2>1, <2>4
  <2>7. \A k \in 1 .. n : g[k] = step[k][g[k - 1]]
    BY <2>1, <2>4
  <2>8. g[n + 1] = step[n + 1][g[n]]
    BY <2>4, <2>5 DEF last
  <2>9. \A k \in 1 .. (n + 1) : g[k] = step[k][g[k - 1]]
    <3>1. \A k \in 1 .. (n + 1) : k \in 1 .. n \/ k = n + 1
      OBVIOUS
    <3>2. (n + 1) - 1 = n
      OBVIOUS
    <3> QED
      BY <2>7, <2>8, <3>1, <3>2
  <2>10. Run(g, n + 1)
    BY <2>3, <2>6, <2>9
  <2> HIDE DEF Run
  <2> QED
    BY <2>10
<1>3. N \in S
  <2> HIDE DEF S
  <2>1. \A n \in 0 .. N : n \in S
    BY <1>1, <1>2, UpTo
  <2> QED
    BY <2>1
<1> QED
  BY <1>3 DEF IsLoop

\* Division with a remainder.
LEMMA DivisionIdentity ==
  ASSUME NEW x \in Int, NEW y \in Int, y > 0
  PROVE  x = y * (x \div y) + (x % y)
  BY Z3

LEMMA Division ==
  ASSUME NEW x \in Int, NEW y \in Nat \ {0}
  PROVE  /\ x \div y \in Int /\ x % y \in 0 .. (y - 1)
         /\ x = y * (x \div y) + (x % y)
<1>1. x \div y \in Int /\ x % y \in 0 .. (y - 1)
  OBVIOUS
<1>2. x = y * (x \div y) + (x % y)
  BY DivisionIdentity
<1> QED
  BY <1>1, <1>2

LEMMA ProductMonotone ==
  ASSUME NEW x \in Int, NEW y \in Int, NEW z \in Nat, x <= y
  PROVE  x * z <= y * z
<1>1. (y - x) * z >= 0
  OBVIOUS
<1>2. (y - x) * z = y * z - x * z
  OBVIOUS
<1> QED
  BY <1>1, <1>2

\* A function on an interval from 1 is a sequence.
LEMMA FunctionIsSeq ==
  ASSUME NEW m \in Nat, NEW S, NEW f \in [1 .. m -> S]
  PROVE  f \in Seq(S) /\ Len(f) = m
<1>1. f \in Seq(S)
  OBVIOUS
<1>2. DOMAIN f = 1 .. m /\ DOMAIN f = 1 .. Len(f) /\ Len(f) \in Nat
  BY <1>1
<1> QED
  BY <1>1, <1>2

-----------------------------------------------------------------------------
(* Streams: what is still to be read is the end of what was written.        *)

\* u is the end of t.
EndsWith(t, u) ==
  /\ Len(u) <= Len(t)
  /\ \A n \in 1 .. Len(u) : u[n] = t[Len(t) - Len(u) + n]

LEMMA EndsGrow ==
  ASSUME NEW S, NEW t \in Seq(S), NEW u \in Seq(S), EndsWith(t, u),
         NEW r \in S
  PROVE  /\ EndsWith(Append(t, r), Append(u, r))
         /\ Len(Append(t, r)) - Len(Append(u, r)) = Len(t) - Len(u)
         /\ Len(Append(t, r)) = Len(t) + 1
         /\ \A n \in 1 .. Len(t) : Append(t, r)[n] = t[n]
<1>1. ASSUME NEW s \in Seq(S)
      PROVE  /\ Len(s) \in Nat /\ Len(Append(s, r)) = Len(s) + 1
             /\ \A n \in 1 .. Len(s) : Append(s, r)[n] = s[n]
             /\ Append(s, r)[Len(s) + 1] = r
  OBVIOUS
<1> DEFINE t1 == Append(t, r)
           u1 == Append(u, r)
<1>2. /\ Len(t1) = Len(t) + 1 /\ Len(u1) = Len(u) + 1
      /\ Len(t) \in Nat /\ Len(u) \in Nat
      /\ \A n \in 1 .. Len(t) : t1[n] = t[n]
      /\ \A n \in 1 .. Len(u) : u1[n] = u[n]
      /\ t1[Len(t) + 1] = r /\ u1[Len(u) + 1] = r
  BY <1>1
<1> HIDE DEF t1, u1
<1>3. ASSUME NEW n \in 1 .. Len(u1) PROVE u1[n] = t1[Len(t1) - Len(u1) + n]
  <2>1. Len(t1) - Len(u1) + n = Len(t) - Len(u) + n
    BY <1>2
  <2>2. CASE n = Len(u) + 1
    BY <1>2, <2>1, <2>2
  <2>3. CASE n # Len(u) + 1
    <3>1. n \in 1 .. Len(u) /\ Len(t) - Len(u) + n \in 1 .. Len(t)
      BY <1>2, <2>3 DEF EndsWith
    <3>2. u[n] = t[Len(t) - Len(u) + n]
      BY <3>1 DEF EndsWith
    <3> QED
      BY <1>2, <2>1, <3>1, <3>2
  <2> QED
    BY <2>2, <2>3
<1>4. EndsWith(t1, u1)
  BY <1>2, <1>3 DEF EndsWith
<1> QED
  BY <1>2, <1>4 DEF t1, u1

LEMMA EndsTaken ==
  ASSUME NEW S, NEW t \in Seq(S), NEW u \in Seq(S), EndsWith(t, u)
  PROVE  /\ EndsWith(t, <<>>) /\ Len(t) - Len(<<>>) = Len(t)
         /\ Len(t) \in Nat /\ Len(t) - Len(u) \in 0 .. Len(t)
         /\ u # <<>> => /\ Len(t) - Len(u) + 1 \in 1 .. Len(t)
                        /\ t[Len(t) - Len(u) + 1] = u[1] /\ u[1] \in S
<1>1. Len(t) \in Nat /\ Len(u) \in Nat /\ Len(u) <= Len(t)
  BY DEF EndsWith
<1>2. Len(<<>>) = 0
  OBVIOUS
<1>3. EndsWith(t, <<>>)
  BY <1>1, <1>2 DEF EndsWith
<1>4. ASSUME u # <<>>
      PROVE  /\ Len(t) - Len(u) + 1 \in 1 .. Len(t)
             /\ t[Len(t) - Len(u) + 1] = u[1] /\ u[1] \in S
  <2>1. Len(u) >= 1 /\ u[1] \in S
    BY <1>1, <1>4
  <2> QED
    BY <1>1, <2>1 DEF EndsWith
<1> QED
  BY <1>1, <1>2, <1>3, <1>4

=============================================================================
