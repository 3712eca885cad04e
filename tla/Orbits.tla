------------------------------- MODULE Orbits -------------------------------
(***************************************************************************)
(* Iteration, for the proofs: a function applied again and again to a      *)
(* state has exactly one orbit, and when every step either leaves the      *)
(* state alone or lowers a measure, the orbit settles within as many steps *)
(* as the measure is at the start.  The loops of the reassembler are such  *)
(* iterations.  Induction over the naturals is had here from the well-     *)
(* foundedness of their order: a set without a least element is empty; and *)
(* induction over the subsets of a finite set from that over their sizes.  *)
(***************************************************************************)
EXTENDS Integers, FiniteSetTheorems, WellFoundedInduction, TLAPS

(* A set of naturals that is not empty has a least element.                *)
LEMMA LeastNat ==
  ASSUME NEW T, T \subseteq Nat, T # {}
  PROVE  \E x \in T : \A y \in T : x <= y
<1>1. \E R : /\ IsWellFoundedOn(R, Nat)
             /\ \A x, y \in Nat : y < x => <<y, x>> \in R
  <2>1. ASSUME NEW x \in Nat, NEW y \in Nat, y < x PROVE <<y, x>> \in OpToRel(<, Nat)
    <3>1. <<y, x>> \in {ss \in Nat \X Nat : ss[1] < ss[2]}
      BY <2>1
    <3> QED BY <3>1, Zenon DEF OpToRel
  <2> QED
    BY <2>1, NatLessThanWellFounded, Zenon
<1>2. PICK R : /\ IsWellFoundedOn(R, Nat)
               /\ \A x, y \in Nat : y < x => <<y, x>> \in R
  BY <1>1
<1>3. \E x \in T : \A y \in T : ~ (<<y, x>> \in R)
  BY <1>2, WFMin
<1>4. PICK x \in T : \A y \in T : ~ (<<y, x>> \in R)
  BY <1>3
<1>5. ASSUME NEW y \in T PROVE x <= y
  <2>1. ~ (y < x)
    BY <1>2, <1>4
  <2> QED
    BY <2>1
<1> QED
  BY <1>5

(* Induction, for a set rather than a predicate.                           *)
LEMMA NatSetInduction ==
  ASSUME NEW T, 0 \in T, \A i \in Nat : i \in T => i + 1 \in T
  PROVE  \A i \in Nat : i \in T
<1> SUFFICES ASSUME Nat \ T # {} PROVE FALSE
  OBVIOUS
<1>1. PICK x \in Nat \ T : \A y \in Nat \ T : x <= y
  BY LeastNat
<1>2. x # 0 /\ x - 1 \in Nat
  BY <1>1
<1>3. x - 1 \in T
  BY <1>1, <1>2
<1>4. (x - 1) + 1 \in T
  BY <1>2, <1>3
<1> QED
  BY <1>1, <1>4

(* f is the orbit of s under F up to n. *)
IsOrbit(f, F, s, n) ==
  /\ f[0] = s
  /\ \A i \in 0 .. n - 1 : f[i + 1] = F[f[i]]

(* Two orbits agree as far as the shorter goes.                            *)
LEMMA OrbitsAgree ==
  ASSUME NEW F, NEW s, NEW f, NEW g, NEW n \in Nat, NEW k \in Nat, n <= k,
         IsOrbit(f, F, s, n), IsOrbit(g, F, s, k)
  PROVE  f[n] = g[n]
<1> DEFINE T == {i \in Nat : i <= n => f[i] = g[i]}
<1>1. 0 \in T
  BY DEF IsOrbit
<1>2. ASSUME NEW i \in Nat, i \in T PROVE i + 1 \in T
  <2> SUFFICES ASSUME i + 1 <= n PROVE f[i + 1] = g[i + 1]
    OBVIOUS
  <2>1. i \in 0 .. n - 1 /\ i \in 0 .. k - 1
    OBVIOUS
  <2>2. f[i + 1] = F[f[i]] /\ g[i + 1] = F[g[i]]
    BY <2>1 DEF IsOrbit
  <2> QED
    BY <1>2, <2>2
<1>3. n \in T
  <2> HIDE DEF T
  <2> QED
    BY <1>1, <1>2, NatSetInduction
<1> QED
  BY <1>3

(* A state has an orbit of any length.                                     *)
LEMMA OrbitUpTo ==
  ASSUME NEW Q, NEW F \in [Q -> Q], NEW s \in Q
  PROVE  \A n \in Nat : \E f \in [0 .. n -> Q] : IsOrbit(f, F, s, n)
<1> DEFINE T == {n \in Nat : \E f \in [0 .. n -> Q] : IsOrbit(f, F, s, n)}
<1>1. 0 \in T
  <2> DEFINE f == [i \in 0 .. 0 |-> s]
  <2>1. f \in [0 .. 0 -> Q] /\ IsOrbit(f, F, s, 0)
    BY DEF IsOrbit
  <2> QED
    BY <2>1
<1>2. ASSUME NEW n \in Nat, n \in T PROVE n + 1 \in T
  <2>1. PICK f \in [0 .. n -> Q] : IsOrbit(f, F, s, n)
    BY <1>2
  <2> DEFINE g == [i \in 0 .. n + 1 |-> IF i <= n THEN f[i] ELSE F[f[n]]]
  <2>2. g \in [0 .. n + 1 -> Q]
    <3>1. ASSUME NEW i \in 0 .. n + 1 PROVE (IF i <= n THEN f[i] ELSE F[f[n]]) \in Q
      OBVIOUS
    <3> QED
      BY <3>1
  <2>3. g[0] = s
    BY <2>1 DEF IsOrbit
  <2>4. ASSUME NEW i \in 0 .. (n + 1) - 1 PROVE g[i + 1] = F[g[i]]
    <3>1. CASE i = n
      BY <3>1
    <3>2. CASE i < n
      <4>1. i \in 0 .. n - 1 /\ i + 1 <= n
        BY <3>2
      <4> QED
        BY <2>1, <4>1 DEF IsOrbit
    <3> QED
      BY <3>1, <3>2
  <2>5. IsOrbit(g, F, s, n + 1)
    BY <2>3, <2>4 DEF IsOrbit
  <2> QED
    BY <2>2, <2>5
<1>3. \A n \in Nat : n \in T
  <2> HIDE DEF T
  <2> QED
    BY <1>1, <1>2, NatSetInduction
<1> QED
  BY <1>3

(* f is F applied to s again and again. *)
OrbitOf(f, Q, F, s) == f \in [Nat -> Q] /\ f[0] = s /\ \A i \in Nat : f[i + 1] = F[f[i]]

(* The orbits of every length make one that never ends.                    *)
LEMMA OrbitExists ==
  ASSUME NEW Q, NEW F \in [Q -> Q], NEW s \in Q
  PROVE  \E f : OrbitOf(f, Q, F, s)
<1> DEFINE Up(n) == CHOOSE f \in [0 .. n -> Q] : IsOrbit(f, F, s, n)
           f == [n \in Nat |-> Up(n)[n]]
<1>1. ASSUME NEW n \in Nat PROVE Up(n) \in [0 .. n -> Q] /\ IsOrbit(Up(n), F, s, n)
  BY OrbitUpTo
<1> HIDE DEF Up
<1>2. f \in [Nat -> Q]
  <2>1. ASSUME NEW n \in Nat PROVE Up(n)[n] \in Q
    BY <1>1
  <2> QED
    BY <2>1
<1>3. f[0] = s
  BY <1>1 DEF IsOrbit
<1>4. ASSUME NEW i \in Nat PROVE f[i + 1] = F[f[i]]
  <2>1. Up(i)[i] = Up(i + 1)[i]
    BY <1>1, OrbitsAgree
  <2>2. Up(i + 1)[i + 1] = F[Up(i + 1)[i]]
    BY <1>1 DEF IsOrbit
  <2> QED
    BY <2>1, <2>2
<1>5. OrbitOf(f, Q, F, s)
  BY <1>2, <1>3, <1>4 DEF OrbitOf
<1> QED
  BY <1>5

(* The orbit is the only sequence that follows F wherever F is defined. *)
LEMMA OrbitIsUnique ==
  ASSUME NEW Q, NEW F \in [Q -> Q], NEW s \in Q, NEW f, OrbitOf(f, Q, F, s),
         NEW g, g[0] = s, \A i \in Nat : g[i] \in Q => g[i + 1] = F[g[i]]
  PROVE  \A i \in Nat : g[i] = f[i]
<1> DEFINE T == {i \in Nat : g[i] = f[i]}
<1>1. 0 \in T
  BY DEF OrbitOf
<1>2. ASSUME NEW i \in Nat, i \in T PROVE i + 1 \in T
  BY <1>2 DEF OrbitOf
<1>3. \A i \in Nat : i \in T
  <2> HIDE DEF T
  <2> QED
    BY <1>1, <1>2, NatSetInduction
<1> QED
  BY <1>3

(* If F either leaves a state alone or lowers its measure, then as many      *)
(* rounds as the measure of s reach a state that F leaves alone.             *)
LEMMA OrbitSettles ==
  ASSUME NEW Q, NEW F \in [Q -> Q], NEW s \in Q, NEW f, OrbitOf(f, Q, F, s),
         NEW m \in [Q -> Nat], \A r \in Q : F[r] = r \/ m[F[r]] < m[r]
  PROVE  F[f[m[s]]] = f[m[s]]
<1> DEFINE T == {i \in Nat : F[f[i]] = f[i] \/ m[f[i]] + i <= m[s]}
<1>0. f \in [Nat -> Q] /\ f[0] = s /\ \A i \in Nat : f[i + 1] = F[f[i]]
  BY DEF OrbitOf
<1>1. 0 \in T
  BY <1>0
<1>2. ASSUME NEW i \in Nat, i \in T PROVE i + 1 \in T
  <2>1. CASE F[f[i]] = f[i]
    BY <1>0, <2>1
  <2>2. CASE F[f[i]] # f[i]
    <3>1. m[f[i + 1]] < m[f[i]] /\ m[f[i]] + i <= m[s]
      BY <1>0, <1>2, <2>2
    <3> QED
      BY <1>0, <3>1
  <2> QED
    BY <2>1, <2>2
<1>3. \A i \in Nat : i \in T
  <2> HIDE DEF T
  <2> QED
    BY <1>1, <1>2, NatSetInduction
<1>4. m[s] \in Nat /\ m[s] \in T
  BY <1>3
<1>5. CASE m[f[m[s]]] + m[s] <= m[s]
  <2>1. m[f[m[s]]] = 0
    BY <1>0, <1>4, <1>5
  <2> QED
    BY <1>0, <1>4, <2>1
<1> QED
  BY <1>4, <1>5

(* A finite set is larger than what is left without one element.           *)
LEMMA SmallerSet ==
  ASSUME NEW S, IsFiniteSet(S), NEW D \in SUBSET S, D # {}, NEW x \in D
  PROVE  /\ D \ {x} \in SUBSET S
         /\ Cardinality(D) \in Nat /\ Cardinality(D \ {x}) \in Nat
         /\ Cardinality(D \ {x}) = Cardinality(D) - 1
<1>1. IsFiniteSet(D)
  BY FS_Subset
<1>2. IsFiniteSet(D \ {x}) /\ Cardinality(D \ {x}) = Cardinality(D) - 1
  BY <1>1, FS_RemoveElement
<1> QED
  BY <1>1, <1>2, FS_CardinalityType

(* Induction on the subsets of a finite set, by their size.                *)
LEMMA SetInduction ==
  ASSUME NEW S, IsFiniteSet(S), NEW P, {} \in P,
         \A D \in SUBSET S : D # {} /\ (\A x \in D : D \ {x} \in P) => D \in P
  PROVE  \A D \in SUBSET S : D \in P
<1> DEFINE T == {n \in Nat : \A D \in SUBSET S : Cardinality(D) = n => D \in P}
<1>0. \A D \in SUBSET S : IsFiniteSet(D) /\ Cardinality(D) \in Nat
  BY FS_Subset, FS_CardinalityType
<1>1. 0 \in T
  <2>1. ASSUME NEW D \in SUBSET S, Cardinality(D) = 0 PROVE D = {}
    BY <1>0, <2>1, FS_EmptySet
  <2> QED
    BY <2>1
<1>2. ASSUME NEW n \in Nat, n \in T PROVE n + 1 \in T
  <2> SUFFICES ASSUME NEW D \in SUBSET S, Cardinality(D) = n + 1 PROVE D \in P
    OBVIOUS
  <2>1. D # {}
    <3>1. Cardinality({}) = 0
      BY FS_EmptySet
    <3>2. n + 1 # 0
      OBVIOUS
    <3>3. D = {} => n + 1 = 0
      BY <3>1
    <3> QED
      BY <3>2, <3>3
  <2>2. ASSUME NEW x \in D PROVE D \ {x} \in P
    <3>1. D \ {x} \in SUBSET S /\ Cardinality(D \ {x}) = n
      BY <2>1, SmallerSet
    <3> QED
      BY <1>2, <3>1
  <2> QED
    BY <2>1, <2>2
<1>3. \A n \in Nat : n \in T
  <2> HIDE DEF T
  <2> QED
    BY <1>1, <1>2, NatSetInduction
<1> QED
  BY <1>0, <1>3

=============================================================================
