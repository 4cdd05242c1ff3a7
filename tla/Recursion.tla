------------------------------- MODULE Recursion -------------------------------
(***************************************************************************)
(* Recursive functions of a natural number.  f[n \in S |-> Def(p, f, n)]   *)
(* has a solution whenever Def(p, f, n) depends on f only below n, so that *)
(* the CHOOSE behind a recursive definition chooses one.  Modules that     *)
(* reason about such a definition instantiate this one with its body.      *)
(*                                                                         *)
(* Induction is by the least number that would be a counterexample.        *)
(***************************************************************************)
EXTENDS Naturals, WellFoundedInduction, TLAPS

CONSTANT Def(_, _, _)  \* the body: of a parameter, the function and its argument

\* Every set of naturals that is not empty has a least element.
LEMMA LeastNatural ==
  ASSUME NEW T \in SUBSET Nat, T # {}
  PROVE  \E m \in T : \A k \in T : m <= k
<1>1. PICK m \in T : \A k \in T : ~(<<k, m>> \in OpToRel(<, Nat))
  BY WFMin, NatLessThanWellFounded
<1>2. ASSUME NEW k \in T PROVE m <= k
  <2>1. ~(<<k, m>> \in OpToRel(<, Nat))
    BY <1>1
  <2> QED
    BY <2>1 DEF OpToRel
<1> QED
  BY <1>2

\* Def looks at f only below its argument.
Causal(p, S) ==
  \A g, h : \A n \in S :
    (\A m \in S : m < n => g[m] = h[m]) => Def(p, g, n) = Def(p, h, n)

\* f is a solution up to n.
Approximates(p, S, f, n) == \A m \in S : m <= n => f[m] = Def(p, f, m)

\* Two solutions agree as far as both go.
LEMMA Agreement ==
  ASSUME NEW p, NEW S \in SUBSET Nat, Causal(p, S), NEW f, NEW g, NEW j \in Nat, NEW k \in Nat,
         Approximates(p, S, f, j), Approximates(p, S, g, k)
  PROVE  \A n \in S : n <= j /\ n <= k => f[n] = g[n]
<1> DEFINE T == {n \in S : n <= j /\ n <= k /\ f[n] # g[n]}
<1> SUFFICES ASSUME T # {} PROVE FALSE
  OBVIOUS
<1>1. PICK m \in T : \A i \in T : m <= i
  BY LeastNatural
<1>2. \A i \in S : i < m => f[i] = g[i]
  BY <1>1
<1>3. f[m] = Def(p, f, m) /\ g[m] = Def(p, g, m)
  BY DEF Approximates
<1>4. Def(p, f, m) = Def(p, g, m)
  BY <1>2 DEF Causal
<1> QED
  BY <1>3, <1>4

\* There is a solution up to every n.
LEMMA Approximations ==
  ASSUME NEW p, NEW S \in SUBSET Nat, Causal(p, S)
  PROVE  \A n \in Nat : \E f : Approximates(p, S, f, n)
<1> DEFINE T == {n \in Nat : ~ \E f : Approximates(p, S, f, n)}
<1> SUFFICES ASSUME T # {} PROVE FALSE
  OBVIOUS
<1>1. PICK m \in T : \A i \in T : m <= i
  BY LeastNatural
<1>2. PICK g : \A i \in Nat : i < m => Approximates(p, S, g, i)
  <2>1. CASE m = 0
    BY <2>1
  <2>2. CASE m # 0
    <3>1. m - 1 \in Nat /\ m - 1 \notin T
      BY <1>1, <2>2
    <3>2. PICK g : Approximates(p, S, g, m - 1)
      BY <3>1
    <3> QED
      BY <3>2 DEF Approximates
  <2> QED
    BY <2>1, <2>2
<1> DEFINE f == [i \in S |-> IF i < m THEN g[i] ELSE Def(p, g, i)]
<1>3. ASSUME NEW i \in S, i <= m PROVE f[i] = Def(p, f, i)
  <2>1. \A j \in S : j < i => f[j] = g[j]
    BY <1>3
  <2>2. Def(p, f, i) = Def(p, g, i)
    BY <2>1 DEF Causal
  <2>3. CASE i < m
    BY <2>2, <2>3, <1>2 DEF Approximates
  <2>4. CASE i = m
    BY <2>2, <2>4
  <2> QED
    BY <1>3, <2>3, <2>4
<1>4. Approximates(p, S, f, m)
  BY <1>3 DEF Approximates
<1> QED
  BY <1>4

\* There is a function that satisfies the definition on all of S.
THEOREM RecursionHasSolution ==
  ASSUME NEW p, NEW S \in SUBSET Nat, Causal(p, S)
  PROVE  \E f : f = [n \in S |-> Def(p, f, n)]
<1>1. PICK approx : \A n \in Nat : Approximates(p, S, approx[n], n)
  <2> DEFINE a == [n \in Nat |-> CHOOSE f : Approximates(p, S, f, n)]
  <2>1. \A n \in Nat : Approximates(p, S, a[n], n)
    BY Approximations
  <2> QED
    BY <2>1
<1>2. PICK f : f = [n \in S |-> approx[n][n]]
  OBVIOUS
<1>3. ASSUME NEW n \in S PROVE f[n] = Def(p, f, n)
  <2>1. ASSUME NEW m \in S, m < n PROVE f[m] = approx[n][m]
    <3>1. Approximates(p, S, approx[m], m) /\ Approximates(p, S, approx[n], n)
      BY <1>1
    <3>2. approx[m][m] = approx[n][m]
      BY <2>1, <3>1, Agreement, m <= n
    <3> QED
      BY <1>2, <3>2
  <2>2. Def(p, f, n) = Def(p, approx[n], n)
    BY <2>1 DEF Causal
  <2> QED
    BY <1>1, <1>2, <2>2 DEF Approximates
<1>4. f = [n \in S |-> Def(p, f, n)]
  BY <1>2, <1>3
<1> QED
  BY <1>4

================================================================================
