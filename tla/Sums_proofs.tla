----------------------------- MODULE Sums_proofs -----------------------------
(***************************************************************************)
(* What sums over finite sets obey, and quotients.  Induction is by a      *)
(* smallest counterexample: the strict order of the subsets of a finite    *)
(* set is well founded, and the subsets for which something fails are a    *)
(* set of them.                                                            *)
(***************************************************************************)
EXTENDS Sums, FiniteSetTheorems, WellFoundedInduction, TLAPS

-----------------------------------------------------------------------------
(* Induction over the subsets of a finite set *)

\* A set of subsets of a finite set has a smallest member.
LEMMA SmallestSubset ==
  ASSUME NEW S, IsFiniteSet(S), NEW T \in SUBSET SUBSET S, T # {}
  PROVE  \E s \in T : \A t \in T : t \subseteq s => t = s
  <1>1. IsWellFoundedOn(StrictSubsetOrdering(S), FiniteSubsetsOf(S))
    BY FS_StrictSubsetOrderingWellFounded
  <1>2. T \subseteq FiniteSubsetsOf(S)
    BY FS_Subset DEF FiniteSubsetsOf
  <1>3. PICK s \in T : \A t \in T : ~ (<<t, s>> \in StrictSubsetOrdering(S))
    BY <1>1, <1>2, WFMin
  <1> QED BY <1>3 DEF StrictSubsetOrdering

\* Subsets that hold nothing, and whatever one element more makes of one of
\* them, are all subsets.
LEMMA SubsetInduction ==
  ASSUME NEW S, IsFiniteSet(S), NEW I,
         {} \in I, \A T \in SUBSET S : \A x \in S \ T : T \in I => T \cup {x} \in I
  PROVE  \A T \in SUBSET S : T \in I
  <1>0. PICK B : B = {T \in SUBSET S : T \notin I}
    OBVIOUS
  <1> SUFFICES ASSUME B # {}  PROVE FALSE
    BY <1>0
  <1>1. PICK s \in B : \A t \in B : t \subseteq s => t = s
    <2>1. B \in SUBSET SUBSET S
      BY <1>0
    <2> QED BY <2>1, SmallestSubset
  <1>2. PICK x \in s : TRUE
    BY <1>0, <1>1
  <1>3. s \ {x} \in SUBSET S /\ x \in S \ (s \ {x}) /\ (s \ {x}) \cup {x} = s
    BY <1>0, <1>1, <1>2
  <1>4. s \ {x} \in I
    BY <1>0, <1>1, <1>2, <1>3
  <1>5. s \in I
    BY <1>3, <1>4
  <1> QED BY <1>0, <1>1, <1>5

-----------------------------------------------------------------------------
(* The fold is what it says *)

Chosen(s) == CHOOSE x \in s : TRUE

\* g adds up f over each subset of S.
AddsUp(g, f, S) ==
    g = [s \in SUBSET S |-> IF s = {} THEN 0 ELSE f[Chosen(s)] + g[s \ {Chosen(s)}]]

\* A sum is what a function that adds up has for the whole set.
LEMMA SumIsFold ==
  ASSUME NEW f, NEW S
  PROVE  SumOf(f, S) = (CHOOSE g : AddsUp(g, f, S))[S]
  BY DEF SumOf, MapThenFoldSet, AddsUp, Chosen

\* What an adding function has for a subset.
LEMMA AddsUpAt ==
  ASSUME NEW g, NEW f, NEW S, AddsUp(g, f, S), NEW s \in SUBSET S
  PROVE  g[s] = IF s = {} THEN 0 ELSE f[Chosen(s)] + g[s \ {Chosen(s)}]
  BY DEF AddsUp

\* The element a fold takes is one of the set.
LEMMA ChosenIsMember ==
  ASSUME NEW s, s # {}
  PROVE  Chosen(s) \in s
  BY DEF Chosen

\* There is only one way to add up, whatever set it is part of.
LEMMA AddsUpAlike ==
  ASSUME NEW f, NEW S, NEW T \in SUBSET S, IsFiniteSet(T), NEW g, NEW h,
         AddsUp(g, f, S), AddsUp(h, f, T)
  PROVE  g[T] = h[T]
  <1>0. PICK B : B = {s \in SUBSET T : g[s] # h[s]}
    OBVIOUS
  <1> SUFFICES ASSUME B # {}  PROVE FALSE
    BY <1>0
  <1>1. PICK s \in B : \A t \in B : t \subseteq s => t = s
    <2>1. B \in SUBSET SUBSET T
      BY <1>0
    <2> QED BY <2>1, SmallestSubset
  <1>2. s \in SUBSET S /\ s \in SUBSET T /\ g[s] # h[s]
    BY <1>0, <1>1
  <1>3. CASE s = {}
    <2>1. g[s] = 0 /\ h[s] = 0
      BY <1>2, <1>3, AddsUpAt
    <2> QED BY <1>2, <2>1
  <1>4. CASE s # {}
    <2>1. Chosen(s) \in s
      BY <1>4, ChosenIsMember
    <2>2. PICK t : t = s \ {Chosen(s)}
      OBVIOUS
    <2>3. g[t] = h[t]
      BY <1>0, <1>1, <1>2, <2>1, <2>2
    <2>4. g[s] = f[Chosen(s)] + g[t]
      BY <1>2, <1>4, <2>2, AddsUpAt
    <2>5. h[s] = IF s = {} THEN 0 ELSE f[Chosen(s)] + h[s \ {Chosen(s)}]
      BY <1>2, AddsUpAt
    <2>6. h[s] = f[Chosen(s)] + h[t]
      BY <1>4, <2>2, <2>5
    <2> QED BY <1>2, <2>3, <2>4, <2>6
  <1> QED BY <1>3, <1>4

\* There is a way to add up over every finite set.
LEMMA AddsUpExists ==
  ASSUME NEW f, NEW S, IsFiniteSet(S)
  PROVE  \E g : AddsUp(g, f, S)
  <1> DEFINE Some(T) == CHOOSE g : AddsUp(g, f, T)
             Top(T) == Some(T)[T]
  <1>0. PICK B : B = {T \in SUBSET S : ~ \E g : AddsUp(g, f, T)}
    OBVIOUS
  <1> SUFFICES ASSUME B # {}  PROVE FALSE
    BY <1>0
  <1>1. PICK s \in B : \A t \in B : t \subseteq s => t = s
    <2>1. B \in SUBSET SUBSET S
      BY <1>0
    <2> QED BY <2>1, SmallestSubset
  <1>2. ASSUME NEW t \in SUBSET s, t # s
        PROVE  AddsUp(Some(t), f, t) /\ IsFiniteSet(t)
    <2>1. t \in SUBSET S /\ t \notin B
      BY <1>0, <1>1, <1>2
    <2>2. \E h : AddsUp(h, f, t)
      BY <1>0, <2>1
    <2>3. IsFiniteSet(t)
      BY <2>1, FS_Subset
    <2> QED BY <2>2, <2>3
  <1>3. ASSUME NEW t \in SUBSET s, t # s, t # {}
        PROVE  Top(t) = f[Chosen(t)] + Top(t \ {Chosen(t)})
    <2>1. AddsUp(Some(t), f, t)
      BY <1>2, <1>3
    <2>2. PICK u : u = t \ {Chosen(t)}
      OBVIOUS
    <2>3. Chosen(t) \in t
      BY <1>3, ChosenIsMember
    <2>4. u \in SUBSET s /\ u # s /\ u \in SUBSET t
      BY <1>3, <2>2, <2>3
    <2>5. AddsUp(Some(u), f, u) /\ IsFiniteSet(u)
      BY <1>2, <2>4
    <2> HIDE DEF Some
    <2>6. Some(t)[u] = Some(u)[u]
      BY <2>1, <2>4, <2>5, AddsUpAlike
    <2>7. Some(t)[t] = f[Chosen(t)] + Some(t)[t \ {Chosen(t)}]
      BY <1>3, <2>1, AddsUpAt
    <2> QED BY <2>2, <2>6, <2>7
  <1>4. Top({}) = 0 \/ s = {}
    <2> SUFFICES ASSUME s # {}  PROVE Top({}) = 0
      OBVIOUS
    <2>1. AddsUp(Some({}), f, {})
      BY <1>2
    <2> HIDE DEF Some
    <2> QED BY <2>1, AddsUpAt
  <1> HIDE DEF Top
  <1>5. PICK g : g = [t \in SUBSET s |->
                        IF t = {} THEN 0 ELSE f[Chosen(t)] + Top(t \ {Chosen(t)})]
    OBVIOUS
  <1>6. ASSUME NEW t \in SUBSET s, t # s
        PROVE  g[t] = Top(t)
    <2>1. CASE t = {}
      BY <1>4, <1>5, <1>6, <2>1
    <2>2. CASE t # {}
      BY <1>3, <1>5, <1>6, <2>2
    <2> QED BY <2>1, <2>2
  <1>7. ASSUME NEW t \in SUBSET s
        PROVE  g[t] = IF t = {} THEN 0 ELSE f[Chosen(t)] + g[t \ {Chosen(t)}]
    <2>1. CASE t = {}
      BY <1>5, <2>1
    <2>2. CASE t # {}
      <3>1. Chosen(t) \in t
        BY <2>2, ChosenIsMember
      <3>2. t \ {Chosen(t)} \in SUBSET s /\ t \ {Chosen(t)} # s
        BY <3>1
      <3>3. g[t \ {Chosen(t)}] = Top(t \ {Chosen(t)})
        BY <1>6, <3>2
      <3> QED BY <1>5, <2>2, <3>3
    <2> QED BY <2>1, <2>2
  <1>8. AddsUp(g, f, s)
    BY <1>5, <1>7 DEF AddsUp
  <1> QED BY <1>0, <1>1, <1>8

\* A sum adds up.
LEMMA SumAddsUp ==
  ASSUME NEW f, NEW S, IsFiniteSet(S)
  PROVE  SumOf(f, S) = IF S = {} THEN 0 ELSE f[Chosen(S)] + SumOf(f, S \ {Chosen(S)})
  <1> DEFINE g == CHOOSE h : AddsUp(h, f, S)
             T == S \ {Chosen(S)}
             k == CHOOSE h : AddsUp(h, f, T)
  <1>1. IsFiniteSet(T)
    BY FS_Subset
  <1>2. AddsUp(g, f, S) /\ AddsUp(k, f, T)
    BY <1>1, AddsUpExists
  <1>3. SumOf(f, S) = g[S] /\ SumOf(f, T) = k[T]
    BY SumIsFold
  <1>4. g[T] = k[T]
    BY <1>1, <1>2, AddsUpAlike
  <1>5. g[S] = IF S = {} THEN 0 ELSE f[Chosen(S)] + g[T]
    BY <1>2, AddsUpAt
  <1> QED BY <1>3, <1>4, <1>5

\* The sum over nothing.
LEMMA SumOfNothing == ASSUME NEW f  PROVE SumOf(f, {}) = 0
  BY FS_EmptySet, SumAddsUp

-----------------------------------------------------------------------------
(* Integers *)

\* Sums of integers are integers.
LEMMA SumInt ==
  ASSUME NEW S, IsFiniteSet(S), NEW f, \A x \in S : f[x] \in Int
  PROVE  SumOf(f, S) \in Int
  <1>1. PICK B : B = {T \in SUBSET S : SumOf(f, T) \notin Int}
    OBVIOUS
  <1> SUFFICES ASSUME B # {}  PROVE FALSE
    BY <1>1
  <1>2. PICK s \in B : \A t \in B : t \subseteq s => t = s
    <2>1. B \in SUBSET SUBSET S
      BY <1>1
    <2> QED BY <2>1, SmallestSubset
  <1>3. IsFiniteSet(s) /\ s \in SUBSET S /\ SumOf(f, s) \notin Int
    BY <1>1, <1>2, FS_Subset
  <1>4. s # {}
    BY <1>3, SumOfNothing
  <1>5. Chosen(s) \in s
    BY <1>4, ChosenIsMember
  <1>6. SumOf(f, s \ {Chosen(s)}) \in Int
    BY <1>1, <1>2, <1>3, <1>5
  <1>7. SumOf(f, s) = f[Chosen(s)] + SumOf(f, s \ {Chosen(s)})
    BY <1>3, <1>4, SumAddsUp
  <1> QED BY <1>3, <1>5, <1>6, <1>7

\* Any member may be taken out first.
LEMMA SumRemove ==
  ASSUME NEW S, IsFiniteSet(S), NEW f, \A x \in S : f[x] \in Int, NEW x \in S
  PROVE  SumOf(f, S) = SumOf(f, S \ {x}) + f[x]
  <1>1. PICK B : B = {T \in SUBSET S :
                        \E z \in T : SumOf(f, T) # SumOf(f, T \ {z}) + f[z]}
    OBVIOUS
  <1> SUFFICES ASSUME B # {}  PROVE FALSE
    BY <1>1
  <1>2. PICK s \in B : \A t \in B : t \subseteq s => t = s
    <2>1. B \in SUBSET SUBSET S
      BY <1>1
    <2> QED BY <2>1, SmallestSubset
  <1>3. PICK z \in s : SumOf(f, s) # SumOf(f, s \ {z}) + f[z]
    BY <1>1, <1>2
  <1>4. PICK y : y = Chosen(s)
    OBVIOUS
  <1>5. y \in s
    BY <1>3, <1>4, ChosenIsMember
  <1>6. \A T \in SUBSET s : IsFiniteSet(T) /\ SumOf(f, T) \in Int
    BY <1>1, <1>2, FS_Subset, SumInt
  <1>7. f[y] \in Int /\ f[z] \in Int
    BY <1>1, <1>2, <1>3, <1>5
  <1>8. SumOf(f, s) = f[y] + SumOf(f, s \ {y})
    <2>1. IsFiniteSet(s) /\ s # {}
      BY <1>3, <1>6
    <2> QED BY <1>4, <2>1, SumAddsUp
  <1>9. \A T \in SUBSET s : \A v \in T : T # s => SumOf(f, T) = SumOf(f, T \ {v}) + f[v]
    BY <1>1, <1>2
  <1>10. CASE z = y
    <2>1. SumOf(f, s \ {y}) \in Int
      BY <1>6
    <2> QED BY <1>3, <1>7, <1>8, <1>10, <2>1
  <1>11. CASE z # y
    <2>1. PICK u : u = (s \ {y}) \ {z} /\ u = (s \ {z}) \ {y}
      OBVIOUS
    <2>2. SumOf(f, s \ {y}) = SumOf(f, u) + f[z]
      <3>1. s \ {y} \in SUBSET s /\ s \ {y} # s /\ z \in s \ {y}
        BY <1>5, <1>11
      <3> QED BY <1>9, <2>1, <3>1
    <2>3. SumOf(f, s \ {z}) = SumOf(f, u) + f[y]
      <3>1. s \ {z} \in SUBSET s /\ s \ {z} # s /\ y \in s \ {z}
        BY <1>5, <1>11
      <3> QED BY <1>9, <2>1, <3>1
    <2>4. SumOf(f, u) \in Int
      BY <1>6, <2>1
    <2> QED BY <1>3, <1>7, <1>8, <2>2, <2>3, <2>4
  <1> QED BY <1>10, <1>11

\* One element more.
LEMMA SumAdd ==
  ASSUME NEW S, IsFiniteSet(S), NEW x, x \notin S, NEW f, \A y \in S \cup {x} : f[y] \in Int
  PROVE  SumOf(f, S \cup {x}) = SumOf(f, S) + f[x]
  <1>1. IsFiniteSet(S \cup {x})
    BY FS_AddElement
  <1>2. (S \cup {x}) \ {x} = S
    OBVIOUS
  <1> QED BY <1>1, <1>2, SumRemove

\* The sum over one element.
LEMMA SumOfOne ==
  ASSUME NEW x, NEW f, f[x] \in Int
  PROVE  SumOf(f, {x}) = f[x]
  <1>1. SumOf(f, {} \cup {x}) = SumOf(f, {}) + f[x]
    BY FS_EmptySet, SumAdd
  <1>2. {} \cup {x} = {x}
    OBVIOUS
  <1> QED BY <1>1, <1>2, SumOfNothing

\* The sum of two functions is that of their sums.
LEMMA SumOfBoth ==
  ASSUME NEW S, IsFiniteSet(S), NEW f, NEW g, NEW h,
         \A x \in S : f[x] \in Int /\ g[x] \in Int /\ h[x] = f[x] + g[x]
  PROVE  SumOf(h, S) = SumOf(f, S) + SumOf(g, S)
  <1>1. PICK I : I = {T \in SUBSET S : SumOf(h, T) = SumOf(f, T) + SumOf(g, T)}
    OBVIOUS
  <1>2. {} \in I
    BY <1>1, SumOfNothing
  <1>3. ASSUME NEW T \in SUBSET S, NEW x \in S \ T, T \in I
        PROVE  T \cup {x} \in I
    <2>1. IsFiniteSet(T) /\ x \notin T /\ T \cup {x} \in SUBSET S
      BY FS_Subset
    <2>2. \A y \in T \cup {x} : f[y] \in Int /\ g[y] \in Int /\ h[y] \in Int
      OBVIOUS
    <2>3. SumOf(f, T \cup {x}) = SumOf(f, T) + f[x]
      BY <2>1, <2>2, SumAdd
    <2>4. SumOf(g, T \cup {x}) = SumOf(g, T) + g[x]
      BY <2>1, <2>2, SumAdd
    <2>5. SumOf(h, T \cup {x}) = SumOf(h, T) + h[x]
      BY <2>1, <2>2, SumAdd
    <2>6. SumOf(f, T) \in Int /\ SumOf(g, T) \in Int
      BY <2>1, SumInt
    <2>7. SumOf(h, T) = SumOf(f, T) + SumOf(g, T)
      BY <1>1, <1>3
    <2>8. h[x] = f[x] + g[x] /\ f[x] \in Int /\ g[x] \in Int
      OBVIOUS
    <2>9. SumOf(h, T \cup {x}) = SumOf(f, T \cup {x}) + SumOf(g, T \cup {x})
      BY <2>3, <2>4, <2>5, <2>6, <2>7, <2>8
    <2> QED BY <1>1, <2>1, <2>9
  <1>4. S \in I
    BY <1>2, <1>3, SubsetInduction
  <1> QED BY <1>1, <1>4

\* Nothing but zeros.
LEMMA SumOfZeros ==
  ASSUME NEW S, IsFiniteSet(S), NEW f, \A x \in S : f[x] = 0
  PROVE  SumOf(f, S) = 0
  <1>1. PICK n : n = SumOf(f, S)
    OBVIOUS
  <1>2. n = n + n
    BY <1>1, SumOfBoth
  <1>3. n \in Int
    BY <1>1, SumInt
  <1>4. n = 0
    BY <1>2, <1>3
  <1> QED BY <1>1, <1>4

\* Functions that agree have the same sum.
LEMMA SumOfSame ==
  ASSUME NEW S, IsFiniteSet(S), NEW f, NEW g, \A x \in S : f[x] \in Int /\ g[x] = f[x]
  PROVE  SumOf(g, S) = SumOf(f, S)
  <1>1. PICK z : z = [x \in S |-> 0]
    OBVIOUS
  <1>2. SumOf(g, S) = SumOf(f, S) + SumOf(z, S)
    BY <1>1, SumOfBoth
  <1>3. SumOf(z, S) = 0
    BY <1>1, SumOfZeros
  <1>4. SumOf(f, S) \in Int
    BY SumInt
  <1> QED BY <1>2, <1>3, <1>4

\* A function changed in one place.
LEMMA SumOfChanged ==
  ASSUME NEW S, IsFiniteSet(S), NEW f, NEW g, NEW a \in S,
         \A x \in S : f[x] \in Int /\ g[x] \in Int,
         \A x \in S \ {a} : g[x] = f[x]
  PROVE  SumOf(g, S) = SumOf(f, S) - f[a] + g[a]
  <1>1. PICK T : T = S \ {a}
    OBVIOUS
  <1>2. IsFiniteSet(T)
    BY <1>1, FS_Subset
  <1>3. SumOf(g, T) = SumOf(f, T) /\ SumOf(f, T) \in Int
    BY <1>1, <1>2, SumOfSame, SumInt
  <1>4. SumOf(f, S) = SumOf(f, T) + f[a]
    BY <1>1, SumRemove
  <1>5. SumOf(g, S) = SumOf(g, T) + g[a]
    BY <1>1, SumRemove
  <1> QED BY <1>3, <1>4, <1>5

\* Sums of larger integers are larger.
LEMMA SumMonotone ==
  ASSUME NEW S, IsFiniteSet(S), NEW f, NEW g,
         \A x \in S : f[x] \in Int /\ g[x] \in Int /\ f[x] <= g[x]
  PROVE  SumOf(f, S) <= SumOf(g, S)
  <1>1. PICK I : I = {T \in SUBSET S : SumOf(f, T) <= SumOf(g, T)}
    OBVIOUS
  <1>2. {} \in I
    BY <1>1, SumOfNothing
  <1>3. ASSUME NEW T \in SUBSET S, NEW x \in S \ T, T \in I
        PROVE  T \cup {x} \in I
    <2>1. IsFiniteSet(T) /\ x \notin T /\ T \cup {x} \in SUBSET S
      BY FS_Subset
    <2>2. SumOf(f, T \cup {x}) = SumOf(f, T) + f[x]
      BY <2>1, SumAdd
    <2>3. SumOf(g, T \cup {x}) = SumOf(g, T) + g[x]
      BY <2>1, SumAdd
    <2>4. SumOf(f, T) \in Int /\ SumOf(g, T) \in Int
      BY <2>1, SumInt
    <2>5. SumOf(f, T) <= SumOf(g, T)
      BY <1>1, <1>3
    <2>6. SumOf(f, T \cup {x}) <= SumOf(g, T \cup {x})
      BY <2>2, <2>3, <2>4, <2>5
    <2> QED BY <1>1, <2>1, <2>6
  <1>4. S \in I
    BY <1>2, <1>3, SubsetInduction
  <1> QED BY <1>1, <1>4

\* Sums of natural numbers are, and are no less than each.
LEMMA SumNat ==
  ASSUME NEW S, IsFiniteSet(S), NEW f, \A x \in S : f[x] \in Nat
  PROVE  SumOf(f, S) \in Nat /\ \A x \in S : f[x] <= SumOf(f, S)
  <1>1. ASSUME NEW T \in SUBSET S  PROVE SumOf(f, T) \in Nat
    <2>1. IsFiniteSet(T)
      BY FS_Subset
    <2>2. PICK z : z = [x \in T |-> 0]
      OBVIOUS
    <2>3. SumOf(z, T) = 0
      BY <2>1, <2>2, SumOfZeros
    <2>4. SumOf(z, T) <= SumOf(f, T)
      BY <2>1, <2>2, SumMonotone
    <2>5. SumOf(f, T) \in Int
      BY <2>1, SumInt
    <2> QED BY <2>3, <2>4, <2>5
  <1>2. ASSUME NEW x \in S  PROVE f[x] <= SumOf(f, S)
    <2>1. SumOf(f, S) = SumOf(f, S \ {x}) + f[x]
      BY SumRemove
    <2>2. SumOf(f, S \ {x}) \in Nat
      BY <1>1
    <2> QED BY <2>1, <2>2
  <1> QED BY <1>1, <1>2

\* The sum over two sets that do not meet.
LEMMA SumOfUnion ==
  ASSUME NEW S, IsFiniteSet(S), NEW R, IsFiniteSet(R), S \cap R = {},
         NEW f, \A x \in S \cup R : f[x] \in Int
  PROVE  SumOf(f, S \cup R) = SumOf(f, S) + SumOf(f, R)
  <1>1. PICK I : I = {T \in SUBSET S : SumOf(f, T \cup R) = SumOf(f, T) + SumOf(f, R)}
    OBVIOUS
  <1>2. SumOf(f, R) \in Int
    BY SumInt
  <1>3. {} \in I
    <2>1. {} \cup R = R
      OBVIOUS
    <2> QED BY <1>1, <1>2, <2>1, SumOfNothing
  <1>4. ASSUME NEW T \in SUBSET S, NEW x \in S \ T, T \in I
        PROVE  T \cup {x} \in I
    <2>1. IsFiniteSet(T) /\ x \notin T /\ T \cup {x} \in SUBSET S
      BY FS_Subset
    <2>2. IsFiniteSet(T \cup R) /\ x \notin T \cup R
      BY <2>1, FS_Union
    <2>3. SumOf(f, (T \cup R) \cup {x}) = SumOf(f, T \cup R) + f[x]
      BY <2>2, SumAdd
    <2>4. SumOf(f, (T \cup {x}) \cup R) = SumOf(f, T \cup R) + f[x]
      <3>1. (T \cup {x}) \cup R = (T \cup R) \cup {x}
        OBVIOUS
      <3> QED BY <2>3, <3>1
    <2>5. SumOf(f, T \cup {x}) = SumOf(f, T) + f[x]
      BY <2>1, SumAdd
    <2>6. SumOf(f, T) \in Int /\ f[x] \in Int
      BY <2>1, SumInt
    <2>7. SumOf(f, T \cup R) = SumOf(f, T) + SumOf(f, R)
      BY <1>1, <1>4
    <2>8. SumOf(f, (T \cup {x}) \cup R) = SumOf(f, T \cup {x}) + SumOf(f, R)
      BY <1>2, <2>4, <2>5, <2>6, <2>7
    <2> QED BY <1>1, <2>1, <2>8
  <1>5. \A T \in SUBSET S : \A x \in S \ T : T \in I => T \cup {x} \in I
    BY <1>4
  <1>6. \A T \in SUBSET S : T \in I
    BY <1>3, <1>5, SubsetInduction
  <1> QED BY <1>1, <1>6

\* The sum of a constant.
LEMMA SumOfConstant ==
  ASSUME NEW S, IsFiniteSet(S), NEW c \in Int, NEW f, \A x \in S : f[x] = c
  PROVE  SumOf(f, S) = c * Cardinality(S)
  <1>1. PICK I : I = {T \in SUBSET S : SumOf(f, T) = c * Cardinality(T)}
    OBVIOUS
  <1>2. {} \in I
    BY <1>1, SumOfNothing, FS_EmptySet
  <1>3. ASSUME NEW T \in SUBSET S, NEW x \in S \ T, T \in I
        PROVE  T \cup {x} \in I
    <2>1. IsFiniteSet(T) /\ x \notin T /\ T \cup {x} \in SUBSET S
      BY FS_Subset
    <2>2. SumOf(f, T \cup {x}) = SumOf(f, T) + f[x]
      BY <2>1, SumAdd
    <2>3. PICK n \in Nat : n = Cardinality(T) /\ Cardinality(T \cup {x}) = n + 1
      BY <2>1, FS_AddElement, FS_CardinalityType
    <2>4. SumOf(f, T) = c * n /\ f[x] = c
      BY <1>1, <1>3, <2>3
    <2>5. c * (n + 1) = c * n + c
      OBVIOUS
    <2>6. SumOf(f, T \cup {x}) = c * Cardinality(T \cup {x})
      BY <2>2, <2>3, <2>4, <2>5
    <2> QED BY <1>1, <2>1, <2>6
  <1>4. \A T \in SUBSET S : \A x \in S \ T : T \in I => T \cup {x} \in I
    BY <1>3
  <1>5. S \in I
    BY <1>2, <1>4, SubsetInduction
  <1> QED BY <1>1, <1>5

\* The members of a set that k puts in a class.
ClassOf(S, k, t) == {x \in S : k[x] = t}

\* A sum may be taken class by class.
LEMMA SumByClass ==
  ASSUME NEW S, IsFiniteSet(S), NEW T, IsFiniteSet(T), NEW k, \A x \in S : k[x] \in T,
         NEW f, \A x \in S : f[x] \in Int,
         NEW g, \A t \in T : g[t] = SumOf(f, ClassOf(S, k, t))
  PROVE  SumOf(f, S) = SumOf(g, T)
  <1> DEFINE Of(U) == {x \in S : k[x] \in U}
  <1>1. PICK I : I = {U \in SUBSET T : SumOf(f, Of(U)) = SumOf(g, U)}
    OBVIOUS
  <1>2. {} \in I
    <2>1. Of({}) = {}
      OBVIOUS
    <2> QED BY <1>1, <2>1, SumOfNothing
  <1>3. ASSUME NEW U \in SUBSET T, NEW t \in T \ U, U \in I
        PROVE  U \cup {t} \in I
    <2>1. IsFiniteSet(U) /\ t \notin U /\ U \cup {t} \in SUBSET T
      BY FS_Subset
    <2>2. PICK A : A = {x \in S : k[x] = t} /\ A = ClassOf(S, k, t)
      BY DEF ClassOf
    <2>3. /\ Of(U \cup {t}) = Of(U) \cup A /\ Of(U) \cap A = {}
          /\ Of(U) \in SUBSET S /\ A \in SUBSET S
      BY <2>1, <2>2
    <2>4. \A y \in U \cup {t} : g[y] \in Int
      <3> SUFFICES ASSUME NEW y \in U \cup {t}  PROVE g[y] \in Int
        OBVIOUS
      <3>1. PICK B : B = {x \in S : k[x] = y} /\ B = ClassOf(S, k, y)
        BY DEF ClassOf
      <3>2. IsFiniteSet(B) /\ \A x \in B : f[x] \in Int
        BY <3>1, FS_Subset
      <3>3. g[y] = SumOf(f, B)
        BY <2>1, <3>1
      <3> QED BY <3>2, <3>3, SumInt
    <2> HIDE DEF Of
    <2>5. IsFiniteSet(Of(U)) /\ IsFiniteSet(A) /\ \A x \in Of(U) \cup A : f[x] \in Int
      BY <2>3, FS_Subset
    <2>6. SumOf(f, Of(U \cup {t})) = SumOf(f, Of(U)) + SumOf(f, A)
      <3>1. PICK B : B = Of(U)
        OBVIOUS
      <3>2. IsFiniteSet(B) /\ IsFiniteSet(A) /\ B \cap A = {} /\ \A x \in B \cup A : f[x] \in Int
        BY <2>3, <2>5, <3>1
      <3>3. SumOf(f, B \cup A) = SumOf(f, B) + SumOf(f, A)
        BY <3>2, SumOfUnion
      <3> QED BY <2>3, <3>1, <3>3
    <2>7. SumOf(g, U \cup {t}) = SumOf(g, U) + g[t]
      BY <2>1, <2>4, SumAdd
    <2>8. g[t] = SumOf(f, A)
      BY <2>2
    <2>9. SumOf(f, Of(U)) = SumOf(g, U)
      BY <1>1, <1>3
    <2> QED BY <1>1, <2>1, <2>6, <2>7, <2>8, <2>9
  <1>4. \A U \in SUBSET T : \A t \in T \ U : U \in I => U \cup {t} \in I
    BY <1>3
  <1>5. \A U \in SUBSET T : U \in I
    BY <1>2, <1>4, SubsetInduction
  <1>6. Of(T) = S
    OBVIOUS
  <1> QED BY <1>1, <1>5, <1>6

-----------------------------------------------------------------------------
(* Quotients and maxima *)

\* A product grows with its factor.
LEMMA ProductGrows ==
  ASSUME NEW a \in Int, NEW b \in Int, NEW n \in Nat, a <= b
  PROVE  a * n \in Int /\ b * n \in Int /\ a * n <= b * n
  OBVIOUS

\* A quotient's multiple is just below what was divided.
LEMMA QuotientBounds ==
  ASSUME NEW a \in Nat, NEW n \in Nat \ {0}
  PROVE  a \div n \in Nat /\ (a \div n) * n <= a /\ a < (a \div n) * n + n
  OBVIOUS

\* A quotient is the number whose multiple is just below.
LEMMA QuotientIs ==
  ASSUME NEW a \in Nat, NEW n \in Nat \ {0}, NEW q \in Int,
         q * n <= a, a < q * n + n
  PROVE  a \div n = q
  <1>1. PICK p \in Nat : p = a \div n /\ p * n <= a /\ a < p * n + n
    BY QuotientBounds
  <1>2. CASE p < q
    <2>1. (p + 1) * n <= q * n
      BY <1>2, ProductGrows
    <2>2. (p + 1) * n = p * n + n
      OBVIOUS
    <2> QED BY <1>1, <2>1, <2>2
  <1>3. CASE q < p
    <2>1. (q + 1) * n <= p * n
      BY <1>3, ProductGrows
    <2>2. (q + 1) * n = q * n + n
      OBVIOUS
    <2> QED BY <1>1, <2>1, <2>2
  <1> QED BY <1>1, <1>2, <1>3

\* A quotient grows with what is divided.
LEMMA QuotientGrows ==
  ASSUME NEW a \in Nat, NEW b \in Nat, NEW n \in Nat \ {0}, a <= b
  PROVE  a \div n <= b \div n
  <1>1. PICK p \in Nat : p = a \div n /\ p * n <= a /\ a < p * n + n
    BY QuotientBounds
  <1>2. PICK q \in Nat : q = b \div n /\ q * n <= b /\ b < q * n + n
    BY QuotientBounds
  <1>3. CASE q < p
    <2>1. (q + 1) * n <= p * n
      BY <1>3, ProductGrows
    <2>2. (q + 1) * n = q * n + n
      OBVIOUS
    <2> QED BY <1>1, <1>2, <2>1, <2>2
  <1> QED BY <1>1, <1>2, <1>3

\* Dividing twice is dividing by the product.
LEMMA QuotientOfQuotient ==
  ASSUME NEW a \in Nat, NEW m \in Nat \ {0}, NEW n \in Nat \ {0}
  PROVE  a \div (m * n) = (a \div m) \div n
  <1>1. PICK p \in Nat : p = a \div m /\ p * m <= a /\ a < p * m + m
    BY QuotientBounds
  <1>2. PICK q \in Nat : q = p \div n /\ q * n <= p /\ p < q * n + n
    BY QuotientBounds
  <1>3. m * n \in Nat \ {0}
    OBVIOUS
  <1>4. q * (m * n) = (q * n) * m
    OBVIOUS
  <1>5. (q * n) * m <= p * m
    BY <1>2, ProductGrows
  <1>6. (p + 1) * m <= (q * n + n) * m
    BY <1>2, ProductGrows
  <1>7. (p + 1) * m = p * m + m /\ (q * n + n) * m = q * (m * n) + m * n
    OBVIOUS
  <1>8. q * (m * n) <= a /\ a < q * (m * n) + m * n
    BY <1>1, <1>4, <1>5, <1>6, <1>7
  <1>9. PICK k \in Nat \ {0} : k = m * n
    BY <1>3
  <1>10. q * k <= a /\ a < q * k + k
    BY <1>8, <1>9
  <1>11. a \div k = q
    BY <1>10, QuotientIs
  <1> QED BY <1>1, <1>2, <1>9, <1>11

\* A finite set of integers has a largest member.
LEMMA LargestMember ==
  ASSUME NEW S, IsFiniteSet(S), S \subseteq Int, S # {}
  PROVE  \E m \in S : \A x \in S : x <= m
  <1>1. PICK I : I = {T \in SUBSET S : T = {} \/ \E m \in T : \A x \in T : x <= m}
    OBVIOUS
  <1>2. {} \in I
    BY <1>1
  <1>3. ASSUME NEW T \in SUBSET S, NEW x \in S \ T, T \in I
        PROVE  T \cup {x} \in I
    <2>1. CASE T = {}
      <3>1. x <= x /\ T \cup {x} = {x}
        BY <2>1
      <3> QED BY <1>1, <3>1
    <2>2. CASE T # {}
      <3>1. PICK m \in T : \A y \in T : y <= m
        BY <1>1, <1>3, <2>2
      <3>2. m \in Int /\ x \in Int /\ \A y \in T : y \in Int
        BY <3>1
      <3>3. CASE x <= m
        BY <1>1, <3>1, <3>2, <3>3
      <3>4. CASE m < x
        <4>1. \A y \in T \cup {x} : y <= x
          BY <3>1, <3>2, <3>4
        <4> QED BY <1>1, <4>1
      <3> QED BY <3>2, <3>3, <3>4
    <2> QED BY <2>1, <2>2
  <1>4. \A T \in SUBSET S : \A x \in S \ T : T \in I => T \cup {x} \in I
    BY <1>3
  <1>5. S \in I
    BY <1>2, <1>4, SubsetInduction
  <1> QED BY <1>1, <1>5

-----------------------------------------------------------------------------
(* Counting up to a bound *)

\* What holds of 0, and of the next of each number below n it holds of, holds
\* of all numbers up to n.
LEMMA IntervalInduction ==
  ASSUME NEW n \in Nat, NEW I, 0 \in I, \A i \in 0 .. n : i < n /\ i \in I => i + 1 \in I
  PROVE  \A i \in 0 .. n : i \in I
  <1>1. PICK G : G = {k \in 0 .. n : \A j \in 0 .. k : j \in I}
    OBVIOUS
  <1>2. 0 \in G
    <2>1. \A j \in 0 .. 0 : j = 0
      OBVIOUS
    <2> QED BY <1>1, <2>1
  <1>3. IsFiniteSet(0 .. n)
    BY FS_Interval
  <1>4. IsFiniteSet(G) /\ G \subseteq Int /\ G # {}
    <2>1. G \subseteq 0 .. n
      BY <1>1
    <2>2. IsFiniteSet(G)
      BY <1>3, <2>1, FS_Subset
    <2> QED BY <1>2, <2>1, <2>2
  <1>5. PICK m \in G : \A x \in G : x <= m
    BY <1>4, LargestMember
  <1>6. m \in 0 .. n /\ \A j \in 0 .. m : j \in I
    BY <1>1, <1>5
  <1>7. CASE m = n
    BY <1>6, <1>7
  <1>8. CASE m < n
    <2>1. m + 1 \in I
      BY <1>6, <1>8
    <2>2. \A j \in 0 .. m + 1 : j \in I
      <3>1. \A j \in 0 .. m + 1 : j = m + 1 \/ j \in 0 .. m
        BY <1>6
      <3> QED BY <1>6, <2>1, <3>1
    <2>3. m + 1 \in G
      BY <1>1, <1>6, <1>8, <2>2
    <2> QED BY <1>5, <1>6, <2>3
  <1> QED BY <1>6, <1>7, <1>8

\* f starts at start and goes from there by the steps, each a function.
Steps(f, n, S, start, step) ==
    /\ f \in [0 .. n -> S] /\ f[0] = start
    /\ \A i \in 1 .. n : f[i] = step[i][f[i - 1]]

\* Whatever the start and the steps, there is such a function.
LEMMA StepsExist ==
  ASSUME NEW n \in Nat, NEW S, NEW start \in S, NEW step \in [1 .. n -> [S -> S]]
  PROVE  \E f : Steps(f, n, S, start, step)
  <1>1. PICK I : I = {k \in 0 .. n : \E f : Steps(f, k, S, start, step)}
    OBVIOUS
  <1>2. 0 \in I
    <2>1. PICK f : f = [i \in 0 .. 0 |-> start]
      OBVIOUS
    <2>2. Steps(f, 0, S, start, step)
      BY <2>1 DEF Steps
    <2> QED BY <1>1, <2>2
  <1>3. ASSUME NEW k \in 0 .. n, k < n, k \in I
        PROVE  k + 1 \in I
    <2>1. PICK f : Steps(f, k, S, start, step)
      BY <1>1, <1>3
    <2>2. PICK g : g = [i \in 0 .. k + 1 |-> IF i = k + 1 THEN step[k + 1][f[k]] ELSE f[i]]
      OBVIOUS
    <2>3. step[k + 1][f[k]] \in S
      BY <1>3, <2>1 DEF Steps
    <2>4. g \in [0 .. k + 1 -> S] /\ g[0] = start
      BY <2>1, <2>2, <2>3 DEF Steps
    <2>5. ASSUME NEW i \in 1 .. k + 1
          PROVE  g[i] = step[i][g[i - 1]]
      <3>1. CASE i = k + 1
        <4>1. g[i] = step[k + 1][f[k]]
          BY <2>2, <3>1
        <4>2. i - 1 = k /\ g[k] = f[k]
          BY <2>2, <3>1
        <4> QED BY <3>1, <4>1, <4>2
      <3>2. CASE i \in 1 .. k
        <4>1. g[i] = f[i] /\ g[i - 1] = f[i - 1]
          BY <2>2, <3>2
        <4> QED BY <2>1, <3>2, <4>1 DEF Steps
      <3> QED BY <3>1, <3>2
    <2>6. Steps(g, k + 1, S, start, step)
      BY <2>4, <2>5 DEF Steps
    <2> QED BY <1>1, <1>3, <2>6
  <1>4. n \in I
    <2>1. \A i \in 0 .. n : i < n /\ i \in I => i + 1 \in I
      BY <1>3
    <2>2. \A i \in 0 .. n : i \in I
      BY <1>2, <2>1, IntervalInduction
    <2> QED BY <2>2
  <1> QED BY <1>1, <1>4

-----------------------------------------------------------------------------
(* Quotients, remainders and powers *)

\* A remainder is what a multiple leaves.
LEMMA RemainderIs ==
  ASSUME NEW a \in Int, NEW n \in Nat \ {0}, NEW q \in Int, NEW r \in 0 .. n - 1, a = q * n + r
  PROVE  a % n = r
  <1>1. PICK p \in Int, s \in 0 .. n - 1 : a = p * n + s /\ a % n = s
    <2>1. a \div n \in Int
      OBVIOUS
    <2>2. a % n \in 0 .. n - 1
      OBVIOUS
    <2>3. a = n * (a \div n) + (a % n)
      OBVIOUS
    <2>4. n * (a \div n) = (a \div n) * n
      BY <2>1
    <2>5. PICK p \in Int, s \in 0 .. n - 1 : p = a \div n /\ s = a % n
      BY <2>1, <2>2
    <2>6. a = p * n + s /\ a % n = s
      BY <2>3, <2>4, <2>5
    <2> QED BY <2>5, <2>6
  <1>2. CASE p < q
    <2>1. (p + 1) * n <= q * n
      BY <1>2, ProductGrows
    <2>2. (p + 1) * n = p * n + n
      OBVIOUS
    <2> QED BY <1>1, <2>1, <2>2
  <1>3. CASE q < p
    <2>1. (q + 1) * n <= p * n
      BY <1>3, ProductGrows
    <2>2. (q + 1) * n = q * n + n
      OBVIOUS
    <2> QED BY <1>1, <2>1, <2>2
  <1> QED BY <1>1, <1>2, <1>3

\* The remainders of numbers within a divisor, of the next ones, of those below.
LEMMA RemainderWithin ==
  ASSUME NEW n \in Nat \ {0}, NEW a \in Int
  PROVE  /\ 0 <= a /\ a < n => a % n = a
         /\ n <= a /\ a < 2 * n => a % n = a - n
         /\ -n <= a /\ a < 0 => a % n = a + n
  <1>1. ASSUME 0 <= a, a < n  PROVE a % n = a
    <2>1. a = 0 * n + a /\ a \in 0 .. n - 1
      BY <1>1
    <2> QED BY <2>1, RemainderIs
  <1>2. ASSUME n <= a, a < 2 * n  PROVE a % n = a - n
    <2>1. PICK r \in 0 .. n - 1 : r = a - n
      BY <1>2
    <2>2. a = 1 * n + r
      BY <2>1
    <2> QED BY <2>1, <2>2, RemainderIs
  <1>3. ASSUME -n <= a, a < 0  PROVE a % n = a + n
    <2>1. PICK r \in 0 .. n - 1 : r = a + n
      BY <1>3
    <2>2. a = (-1) * n + r
      BY <2>1
    <2> QED BY <2>1, <2>2, RemainderIs
  <1> QED BY <1>1, <1>2, <1>3

\* A number is its quotient's multiple and the remainder.
LEMMA QuotientAndRemainder ==
  ASSUME NEW a \in Nat, NEW n \in Nat \ {0}
  PROVE  a \div n \in Nat /\ a % n \in 0 .. n - 1 /\ a = (a \div n) * n + (a % n)
  <1>1. a \div n \in Nat
    OBVIOUS
  <1>2. a % n \in 0 .. n - 1
    OBVIOUS
  <1>3. a = n * (a \div n) + (a % n)
    OBVIOUS
  <1>4. n * (a \div n) = (a \div n) * n
    BY <1>1
  <1> QED BY <1>1, <1>2, <1>3, <1>4

\* q and r are what dividing a by n gives.
Divided(a, n, q, r) ==
    q \in Nat /\ r \in Nat /\ r < n /\ q = a \div n /\ r = a % n /\ a = q * n + r

\* Quotient and remainder divide a number.
LEMMA DividedByBoth ==
  ASSUME NEW a \in Nat, NEW n \in Nat \ {0}
  PROVE  \E q, r : Divided(a, n, q, r)
  <1>1. Divided(a, n, a \div n, a % n)
    BY QuotientAndRemainder DEF Divided
  <1> QED BY <1>1

=============================================================================
