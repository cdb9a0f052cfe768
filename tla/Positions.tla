------------------------------- MODULE Positions -------------------------------
(***************************************************************************)
(* Induction and recursion on 0..N, the positions of a sequence, without an *)
(* operator parameter: what is proved of every position is a set of them,   *)
(* and a step of a recursion is a function.                                 *)
(***************************************************************************)
EXTENDS Naturals, WellFoundedInduction, TLAPS

(* Induction on the positions of a sequence, over a set of them: the first  *)
(* position that is not in S would have a predecessor that is.              *)
LEMMA PositionInduction ==
  ASSUME NEW N \in Nat, NEW S, 0 \in S, \A n \in 1..N : n - 1 \in S => n \in S
  PROVE  0..N \subseteq S
<1> DEFINE T == {n \in 0..N : n \notin S}
<1> SUFFICES ASSUME T # {} PROVE FALSE
  OBVIOUS
<1>1. T \subseteq Nat
  OBVIOUS
<1>2. PICK m \in T : \A n \in T : <<n, m>> \notin OpToRel(<, Nat)
  BY <1>1, NatLessThanWellFounded, WFMin
<1>3. \A n \in T : ~(n < m)
  BY <1>1, <1>2 DEF OpToRel
<1>4. m - 1 \in 0..N /\ m - 1 < m /\ m \in 1..N
  OBVIOUS
<1> QED
  BY <1>3, <1>4

(* f is defined by recursion on the positions: it starts at base and each   *)
(* step goes by the one before.                                             *)
Iterates(f, N, T, base, step) ==
  /\ f \in [0..N -> T]
  /\ f[0] = base
  /\ \A n \in 1..N : f[n] = step[n][f[n - 1]]

(* There is such a function when each step stays in T.                      *)
LEMMA Recursion ==
  ASSUME NEW N \in Nat, NEW T, NEW base \in T, NEW step,
         \A n \in 1..N : \A t \in T : step[n][t] \in T
  PROVE  \E f : Iterates(f, N, T, base, step)
<1> DEFINE Follows(f, m) == f[0] = base /\ \A n \in 1..m : f[n] = step[n][f[n - 1]]
           S == {m \in 0..N : \E f \in [0..m -> T] : Follows(f, m)}
<1>1. 0 \in S
  <2> DEFINE g == [n \in 0..0 |-> base]
  <2>1. g \in [0..0 -> T] /\ Follows(g, 0)
    OBVIOUS
  <2>2. 0 \in 0..N
    OBVIOUS
  <2> HIDE DEF g, Follows
  <2> QED
    BY <2>1, <2>2
<1>2. ASSUME NEW m \in 1..N, m - 1 \in S PROVE m \in S
  <2>1. PICK f \in [0..(m - 1) -> T] : Follows(f, m - 1)
    BY <1>2
  <2> DEFINE g == [n \in 0..m |-> IF n = m THEN step[m][f[m - 1]] ELSE f[n]]
  <2>2. step[m][f[m - 1]] \in T /\ m \in 0..N
    BY <2>1
  <2>3. g \in [0..m -> T]
    BY <2>1, <2>2
  <2>4. g[0] = base
    BY <2>1
  <2>5. ASSUME NEW n \in 1..m PROVE g[n] = step[n][g[n - 1]]
    <3>1. n - 1 \in 0..(m - 1) /\ g[n - 1] = f[n - 1]
      OBVIOUS
    <3>2. CASE n = m
      BY <3>1, <3>2
    <3>3. CASE n # m
      <4>1. n \in 1..(m - 1) /\ g[n] = f[n]
        BY <3>3
      <4> QED
        BY <2>1, <3>1, <4>1
    <3> QED
      BY <3>2, <3>3
  <2>6. Follows(g, m)
    BY <2>4, <2>5
  <2> HIDE DEF g, Follows
  <2> QED
    BY <2>2, <2>3, <2>6
<1>3. 0..N \subseteq S
  <2> HIDE DEF S
  <2> QED
    BY <1>1, <1>2, PositionInduction
<1>4. PICK f \in [0..N -> T] : Follows(f, N)
  <2>1. N \in 0..N
    OBVIOUS
  <2> QED
    BY <1>3, <2>1
<1>5. Iterates(f, N, T, base, step)
  BY <1>4 DEF Iterates
<1> QED
  BY <1>5
===============================================================================
