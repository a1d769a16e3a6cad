----------------------------- MODULE SumTheorems -----------------------------
(***************************************************************************)
(* Sums over finite sets: what SumFunctionOnSet returns, for any function  *)
(* and any finite set.  The running totals of the contracts - minted and   *)
(* delegated power, what is owed and what is held - are proved from these. *)
(*                                                                         *)
(* Induction is by a least counterexample: the natural numbers and the     *)
(* subsets of a finite set are well-founded, so a set of counterexamples   *)
(* that is not empty has a least one.                                      *)
(***************************************************************************)
EXTENDS Integers, FiniteSets, Functions, FiniteSetTheorems, WellFoundedInduction, TLAPS

\* The library's order on the subsets of a set, at work.
LEMMA LeastSubset ==
  ASSUME NEW S, IsFiniteSet(S), NEW F, F \subseteq SUBSET S, F # {}
  PROVE  \E T \in F : \A U \in F : U \subseteq T => U = T
<1>1. F \subseteq FiniteSubsetsOf(S)
  BY FS_Subset DEF FiniteSubsetsOf
<1>2. IsWellFoundedOn(StrictSubsetOrdering(S), FiniteSubsetsOf(S))
  BY FS_StrictSubsetOrderingWellFounded
<1>3. PICK T \in F : \A U \in F : ~(<<U, T>> \in StrictSubsetOrdering(S))
  BY <1>1, <1>2, WFMin
<1>4. ASSUME NEW U \in F, U \subseteq T PROVE U = T
  BY <1>3, <1>4 DEF StrictSubsetOrdering
<1>5. QED
  BY <1>4

\* Likewise for the natural numbers.
LEMMA LeastNatural ==
  ASSUME NEW N, N \subseteq Nat, N # {}
  PROVE  \E n \in N : \A m \in N : n <= m
<1>1. PICK n \in N : \A m \in N : ~(<<m, n>> \in OpToRel(<, Nat))
  BY NatLessThanWellFounded, WFMin
<1>2. ASSUME NEW m \in N PROVE n <= m
  <2>1. ~(m < n)
    BY <1>1 DEF OpToRel
  <2>2. QED
    BY <2>1
<1>3. QED
  BY <1>2

----------------------------------------------------------------------------
(* A sum is well defined                                                   *)

Picked(T) == CHOOSE x \in T : TRUE

\* What the sums of f over the subsets of S are, when they are s.
Summing(f, s, T) == IF T = {} THEN 0 ELSE f[Picked(T)] + s[T \ {Picked(T)}]

Sums(f, S) == CHOOSE s : s = [T \in SUBSET S |-> Summing(f, s, T)]

\* The library's operator is one of them.
LEMMA SumIsSums ==
  ASSUME NEW f, NEW S
  PROVE  SumFunctionOnSet(f, S) = Sums(f, S)[S]
BY DEF SumFunctionOnSet, FoldFunctionOnSet, MapThenFoldSet, Sums, Summing, Picked

\* The subsets of S of at most n elements.
UpTo(S, n) == {T \in SUBSET S : Cardinality(T) <= n}

\* There are sums: over the sets of at most n elements, for every n.
LEMMA SumsExist ==
  ASSUME NEW f, NEW S, IsFiniteSet(S)
  PROVE  \E s : s = [T \in SUBSET S |-> Summing(f, s, T)]
<1> DEFINE Defined(n) == \E s : s = [T \in UpTo(S, n) |-> Summing(f, s, T)]
<1>1. \A T \in SUBSET S : IsFiniteSet(T) /\ Cardinality(T) \in Nat
  BY FS_Subset, FS_CardinalityType
<1>2. Defined(0)
  <2>1. \A T \in UpTo(S, 0) : T = {}
    BY <1>1, FS_EmptySet DEF UpTo
  <2>2. [T \in UpTo(S, 0) |-> 0] = [T \in UpTo(S, 0) |-> Summing(f, [U \in UpTo(S, 0) |-> 0], T)]
    BY <2>1 DEF Summing
  <2>3. QED
    BY <2>2
<1>3. ASSUME NEW n \in Nat, Defined(n) PROVE Defined(n + 1)
  <2>1. PICK s : s = [T \in UpTo(S, n) |-> Summing(f, s, T)]
    BY <1>3
  <2>2. PICK r : r = [T \in UpTo(S, n + 1) |-> Summing(f, s, T)]
    OBVIOUS
  <2>3. ASSUME NEW T \in UpTo(S, n + 1) PROVE Summing(f, s, T) = Summing(f, r, T)
    <3>1. CASE T = {}
      BY <3>1 DEF Summing
    <3>2. CASE T # {}
      <4>1. PICK U : U = T \ {Picked(T)}
        OBVIOUS
      <4>2. Picked(T) \in T
        BY <3>2 DEF Picked
      <4>3. U \in UpTo(S, n)
        <5>1. Cardinality(U) = Cardinality(T) - 1
          BY <1>1, <4>1, <4>2, FS_RemoveElement DEF UpTo
        <5>2. T \in SUBSET S /\ Cardinality(T) <= n + 1 /\ Cardinality(T) \in Nat
          BY <1>1 DEF UpTo
        <5>3. QED
          BY <4>1, <5>1, <5>2 DEF UpTo
      <4>4. U \in UpTo(S, n + 1)
        BY <1>1, <4>3 DEF UpTo
      <4>5. s[U] = r[U]
        <5>1. s[U] = Summing(f, s, U)
          BY <2>1, <4>3
        <5>2. r[U] = Summing(f, s, U)
          BY <2>2, <4>4
        <5>3. QED
          BY <5>1, <5>2
      <4>6. QED
        BY <3>2, <4>1, <4>5 DEF Summing
    <3>3. QED
      BY <3>1, <3>2
  <2>4. r = [T \in UpTo(S, n + 1) |-> Summing(f, r, T)]
    BY <2>2, <2>3
  <2>5. QED
    BY <2>4
<1>4. \A n \in Nat : Defined(n)
  <2>1. SUFFICES ASSUME {n \in Nat : ~Defined(n)} # {} PROVE FALSE
    OBVIOUS
  <2>2. PICK n \in {k \in Nat : ~Defined(k)} : \A m \in {k \in Nat : ~Defined(k)} : n <= m
    <3> HIDE DEF Defined
    <3> QED
      BY <2>1, LeastNatural
  <2>3. n \in Nat /\ n # 0
    BY <1>2, <2>2
  <2>4. n - 1 \in Nat /\ ~(n <= n - 1)
    BY <2>3
  <2>5. Defined(n - 1)
    <3> HIDE DEF Defined
    <3> QED
      BY <2>2, <2>4
  <2>6. Defined(n - 1 + 1)
    BY <1>3, <2>4, <2>5
  <2>7. n - 1 + 1 = n
    BY <2>3
  <2>8. QED
    BY <2>2, <2>6, <2>7
<1>5. UpTo(S, Cardinality(S)) = SUBSET S
  BY FS_Subset DEF UpTo
<1>6. Defined(Cardinality(S))
  BY <1>1, <1>4
<1>7. QED
  BY <1>5, <1>6

\* So the sums are what their definition says.
LEMMA SumsOf ==
  ASSUME NEW f, NEW S, IsFiniteSet(S)
  PROVE  \A T \in SUBSET S : Sums(f, S)[T] = Summing(f, Sums(f, S), T)
<1>1. Sums(f, S) = [T \in SUBSET S |-> Summing(f, Sums(f, S), T)]
  BY SumsExist DEF Sums
<1>2. QED
  BY <1>1

----------------------------------------------------------------------------
(* One element                                                             *)

\* The sums over the subsets of a subset are the same.
LEMMA SumsOfSubset ==
  ASSUME NEW f, NEW S, IsFiniteSet(S), NEW T \in SUBSET S
  PROVE  Sums(f, S)[T] = SumFunctionOnSet(f, T)
<1>1. IsFiniteSet(T)
  BY FS_Subset
<1>2. ASSUME NEW U \in SUBSET T PROVE Sums(f, S)[U] = Sums(f, T)[U]
  <2>1. PICK F : F = {V \in SUBSET T : Sums(f, S)[V] # Sums(f, T)[V]}
    OBVIOUS
  <2>2. SUFFICES ASSUME F # {} PROVE FALSE
    BY <2>1
  <2>3. PICK V \in F : \A W \in F : W \subseteq V => W = V
    BY <1>1, <2>1, <2>2, LeastSubset
  <2>4. V \in SUBSET T /\ V \in SUBSET S /\ Sums(f, S)[V] # Sums(f, T)[V]
    BY <2>1
  <2>5. /\ Sums(f, S)[V] = Summing(f, Sums(f, S), V)
        /\ Sums(f, T)[V] = Summing(f, Sums(f, T), V)
    BY <1>1, <2>4, SumsOf
  <2>6. V # {}
    BY <2>4, <2>5 DEF Summing
  <2>7. PICK W : W = V \ {Picked(V)}
    OBVIOUS
  <2>8. Picked(V) \in V
    BY <2>6 DEF Picked
  <2>9. W \in SUBSET T /\ W \subseteq V /\ W # V
    BY <2>4, <2>7, <2>8
  <2>10. Sums(f, S)[W] = Sums(f, T)[W]
    BY <2>1, <2>3, <2>9
  <2>11. QED
    BY <2>4, <2>5, <2>6, <2>7, <2>10 DEF Summing
<1>3. QED
  BY <1>2, SumIsSums

\* Nothing sums up to nothing.
LEMMA SumEmpty ==
  ASSUME NEW f
  PROVE  SumFunctionOnSet(f, {}) = 0
<1>1. Sums(f, {})[{}] = Summing(f, Sums(f, {}), {})
  BY SumsOf, FS_EmptySet
<1>2. QED
  BY <1>1, SumIsSums DEF Summing

\* The sum is that of one element, some element, and of the others.
LEMMA SumPicked ==
  ASSUME NEW f, NEW S, IsFiniteSet(S), S # {}
  PROVE  /\ Picked(S) \in S
         /\ SumFunctionOnSet(f, S) = f[Picked(S)] + SumFunctionOnSet(f, S \ {Picked(S)})
<1>1. Picked(S) \in S
  BY DEF Picked
<1>2. Sums(f, S)[S] = Summing(f, Sums(f, S), S)
  BY SumsOf
<1>3. Sums(f, S)[S \ {Picked(S)}] = SumFunctionOnSet(f, S \ {Picked(S)})
  BY SumsOfSubset
<1>4. QED
  BY <1>1, <1>2, <1>3, SumIsSums DEF Summing

\* Zeros sum to zero.
LEMMA SumOfZeros ==
  ASSUME NEW f, NEW S, IsFiniteSet(S), \A x \in S : f[x] = 0
  PROVE  SumFunctionOnSet(f, S) = 0
<1>1. PICK F : F = {T \in SUBSET S : SumFunctionOnSet(f, T) # 0}
  OBVIOUS
<1>2. SUFFICES ASSUME F # {} PROVE FALSE
  BY <1>1
<1>3. PICK T \in F : \A U \in F : U \subseteq T => U = T
  BY <1>1, <1>2, LeastSubset
<1>4. T \in SUBSET S /\ T # {} /\ IsFiniteSet(T)
  BY <1>1, SumEmpty, FS_Subset
<1>5. PICK c : c = Picked(T)
  OBVIOUS
<1>6. c \in T /\ SumFunctionOnSet(f, T) = f[c] + SumFunctionOnSet(f, T \ {c})
  BY <1>4, <1>5, SumPicked
<1>7. SumFunctionOnSet(f, T \ {c}) = 0
  BY <1>1, <1>3, <1>4, <1>6
<1>8. f[c] = 0
  BY <1>4, <1>6
<1>9. QED
  BY <1>1, <1>3, <1>6, <1>7, <1>8

\* The sum of integers is one, and that of natural numbers too.
LEMMA SumType ==
  ASSUME NEW f, NEW S, IsFiniteSet(S), \A x \in S : f[x] \in Int
  PROVE  /\ SumFunctionOnSet(f, S) \in Int
         /\ (\A x \in S : f[x] >= 0) => SumFunctionOnSet(f, S) \in Nat
<1> DEFINE Typed(T) == /\ SumFunctionOnSet(f, T) \in Int
                       /\ (\A x \in T : f[x] >= 0) => SumFunctionOnSet(f, T) \in Nat
<1>1. PICK F : F = {T \in SUBSET S : ~Typed(T)}
  OBVIOUS
<1>2. SUFFICES ASSUME F # {} PROVE FALSE
  BY <1>1
<1>3. PICK T \in F : \A U \in F : U \subseteq T => U = T
  BY <1>1, <1>2, LeastSubset
<1>4. T # {}
  <2>1. SUFFICES ASSUME T = {} PROVE FALSE
    OBVIOUS
  <2>2. SumFunctionOnSet(f, T) = 0
    BY <2>1, SumEmpty
  <2>3. QED
    BY <1>1, <2>2
<1>5. IsFiniteSet(T)
  BY <1>1, FS_Subset
<1>6. PICK x \in T : SumFunctionOnSet(f, T) = f[x] + SumFunctionOnSet(f, T \ {x})
  BY <1>4, <1>5, SumPicked
<1>7. T \ {x} \in SUBSET S /\ T \ {x} # T /\ f[x] \in Int
  BY <1>1
<1>8. Typed(T \ {x})
  BY <1>1, <1>3, <1>7
<1>9. Typed(T)
  BY <1>6, <1>7, <1>8
<1>10. QED
  BY <1>1, <1>9

\* Any element may be the one that is taken out.
LEMMA SumRemove ==
  ASSUME NEW f, NEW S, IsFiniteSet(S), \A x \in S : f[x] \in Int, NEW a \in S
  PROVE  SumFunctionOnSet(f, S) = f[a] + SumFunctionOnSet(f, S \ {a})
<1> DEFINE Out(T) == \A x \in T : SumFunctionOnSet(f, T) = f[x] + SumFunctionOnSet(f, T \ {x})
<1>1. PICK F : F = {T \in SUBSET S : ~Out(T)}
  OBVIOUS
<1>2. SUFFICES ASSUME F # {} PROVE FALSE
  BY <1>1
<1>3. PICK T \in F : \A U \in F : U \subseteq T => U = T
  <2>1. F \subseteq SUBSET S
    BY <1>1
  <2>2. QED
    BY <1>2, <2>1, LeastSubset
<1>4. T \in SUBSET S /\ T # {}
  BY <1>1
<1>5. \A U \in SUBSET S : IsFiniteSet(U)
  BY FS_Subset
<1>6. PICK c \in T : SumFunctionOnSet(f, T) = f[c] + SumFunctionOnSet(f, T \ {c})
  BY <1>4, <1>5, SumPicked
<1>7. ASSUME NEW x \in T, x # c
      PROVE  SumFunctionOnSet(f, T) = f[x] + SumFunctionOnSet(f, T \ {x})
  <2>1. PICK R : R = (T \ {c}) \ {x}
    OBVIOUS
  <2>2. R \in SUBSET S /\ R = (T \ {x}) \ {c}
    BY <1>4, <2>1
  <2>3. SumFunctionOnSet(f, T \ {c}) = f[x] + SumFunctionOnSet(f, R)
    <3>1. T \ {c} \in SUBSET S /\ T \ {c} \subseteq T /\ T \ {c} # T /\ x \in T \ {c}
      BY <1>4, <1>7
    <3>2. Out(T \ {c})
      BY <1>1, <1>3, <3>1
    <3>3. QED
      BY <2>1, <3>1, <3>2
  <2>4. SumFunctionOnSet(f, T \ {x}) = f[c] + SumFunctionOnSet(f, R)
    <3>1. T \ {x} \in SUBSET S /\ T \ {x} \subseteq T /\ T \ {x} # T /\ c \in T \ {x}
      BY <1>4, <1>7
    <3>2. Out(T \ {x})
      BY <1>1, <1>3, <3>1
    <3>3. QED
      BY <2>2, <3>1, <3>2
  <2>5. SumFunctionOnSet(f, R) \in Int
    BY <1>5, <2>2, SumType
  <2>6. f[x] \in Int /\ f[c] \in Int
    BY <1>4
  <2>7. QED
    BY <1>6, <2>3, <2>4, <2>5, <2>6
<1>8. Out(T)
  BY <1>6, <1>7
<1>9. QED
  BY <1>1, <1>8

\* An element that is added.
LEMMA SumAdd ==
  ASSUME NEW f, NEW S, IsFiniteSet(S), \A x \in S : f[x] \in Int,
         NEW a, a \notin S, f[a] \in Int
  PROVE  SumFunctionOnSet(f, S \cup {a}) = f[a] + SumFunctionOnSet(f, S)
<1>1. IsFiniteSet(S \cup {a})
  BY FS_AddElement
<1>2. (S \cup {a}) \ {a} = S /\ a \in S \cup {a} /\ \A x \in S \cup {a} : f[x] \in Int
  OBVIOUS
<1>3. QED
  BY <1>1, <1>2, SumRemove

----------------------------------------------------------------------------
(* Two functions                                                           *)

\* Only the values over the set count.
LEMMA SumSame ==
  ASSUME NEW f, NEW g, NEW S, IsFiniteSet(S), \A x \in S : f[x] = g[x]
  PROVE  SumFunctionOnSet(f, S) = SumFunctionOnSet(g, S)
<1>1. PICK F : F = {T \in SUBSET S : SumFunctionOnSet(f, T) # SumFunctionOnSet(g, T)}
  OBVIOUS
<1>2. SUFFICES ASSUME F # {} PROVE FALSE
  BY <1>1
<1>3. PICK T \in F : \A U \in F : U \subseteq T => U = T
  BY <1>1, <1>2, LeastSubset
<1>4. T \in SUBSET S /\ T # {} /\ IsFiniteSet(T)
  BY <1>1, SumEmpty, FS_Subset
<1>5. PICK c : c = Picked(T)
  OBVIOUS
<1>6. /\ c \in T
      /\ SumFunctionOnSet(f, T) = f[c] + SumFunctionOnSet(f, T \ {c})
      /\ SumFunctionOnSet(g, T) = g[c] + SumFunctionOnSet(g, T \ {c})
  BY <1>4, <1>5, SumPicked
<1>7. T \ {c} \in SUBSET S /\ T \ {c} # T
  BY <1>4, <1>6
<1>8. SumFunctionOnSet(f, T \ {c}) = SumFunctionOnSet(g, T \ {c})
  BY <1>1, <1>3, <1>7
<1>9. SumFunctionOnSet(f, T) = SumFunctionOnSet(g, T)
  BY <1>4, <1>6, <1>8
<1>10. QED
  BY <1>1, <1>9

\* A value that changes changes the sum by as much.
LEMMA SumChange ==
  ASSUME NEW f, NEW g, NEW S, IsFiniteSet(S),
         \A x \in S : f[x] \in Int /\ g[x] \in Int,
         NEW a \in S, \A x \in S \ {a} : f[x] = g[x]
  PROVE  SumFunctionOnSet(g, S) = SumFunctionOnSet(f, S) + g[a] - f[a]
<1>1. IsFiniteSet(S \ {a})
  BY FS_RemoveElement
<1>2. SumFunctionOnSet(f, S \ {a}) = SumFunctionOnSet(g, S \ {a})
  BY <1>1, SumSame
<1>3. SumFunctionOnSet(f, S \ {a}) \in Int
  BY <1>1, SumType
<1>4. /\ SumFunctionOnSet(f, S) = f[a] + SumFunctionOnSet(f, S \ {a})
      /\ SumFunctionOnSet(g, S) = g[a] + SumFunctionOnSet(g, S \ {a})
  BY SumRemove
<1>5. QED
  BY <1>2, <1>3, <1>4

\* More or equal everywhere is more or equal in all.
LEMMA SumMonotone ==
  ASSUME NEW f, NEW g, NEW S, IsFiniteSet(S),
         \A x \in S : f[x] \in Int /\ g[x] \in Int /\ f[x] <= g[x]
  PROVE  SumFunctionOnSet(f, S) <= SumFunctionOnSet(g, S)
<1>1. PICK F : F = {T \in SUBSET S : ~(SumFunctionOnSet(f, T) <= SumFunctionOnSet(g, T))}
  OBVIOUS
<1>2. SUFFICES ASSUME F # {} PROVE FALSE
  BY <1>1
<1>3. PICK T \in F : \A U \in F : U \subseteq T => U = T
  BY <1>1, <1>2, LeastSubset
<1>4. T \in SUBSET S /\ T # {} /\ IsFiniteSet(T)
  <2>1. T = {} => SumFunctionOnSet(f, T) = 0 /\ SumFunctionOnSet(g, T) = 0
    BY SumEmpty
  <2>2. QED
    BY <1>1, <2>1, FS_Subset
<1>5. PICK c \in T : TRUE
  BY <1>4
<1>6. /\ SumFunctionOnSet(f, T) = f[c] + SumFunctionOnSet(f, T \ {c})
      /\ SumFunctionOnSet(g, T) = g[c] + SumFunctionOnSet(g, T \ {c})
  BY <1>4, SumRemove
<1>7. T \ {c} \in SUBSET S /\ T \ {c} # T /\ IsFiniteSet(T \ {c})
  BY <1>4, FS_RemoveElement
<1>8. SumFunctionOnSet(f, T \ {c}) <= SumFunctionOnSet(g, T \ {c})
  BY <1>1, <1>3, <1>7
<1>9. SumFunctionOnSet(f, T \ {c}) \in Int /\ SumFunctionOnSet(g, T \ {c}) \in Int
  BY <1>4, <1>7, SumType
<1>10. f[c] \in Int /\ g[c] \in Int /\ f[c] <= g[c]
  BY <1>4
<1>11. SumFunctionOnSet(f, T) <= SumFunctionOnSet(g, T)
  BY <1>6, <1>8, <1>9, <1>10
<1>12. QED
  BY <1>1, <1>11

----------------------------------------------------------------------------
(* Two sets                                                                *)

\* What has no element in common adds up.
LEMMA SumUnion ==
  ASSUME NEW f, NEW S, NEW T, IsFiniteSet(S), IsFiniteSet(T), S \cap T = {},
         \A x \in S \cup T : f[x] \in Int
  PROVE  SumFunctionOnSet(f, S \cup T) = SumFunctionOnSet(f, S) + SumFunctionOnSet(f, T)
<1> DEFINE Adds(U) == SumFunctionOnSet(f, S \cup U)
                        = SumFunctionOnSet(f, S) + SumFunctionOnSet(f, U)
<1>1. PICK F : F = {U \in SUBSET T : ~Adds(U)}
  OBVIOUS
<1>2. SUFFICES ASSUME F # {} PROVE FALSE
  BY <1>1
<1>3. PICK U \in F : \A V \in F : V \subseteq U => V = U
  <2>1. F \subseteq SUBSET T
    BY <1>1
  <2>2. QED
    BY <1>2, <2>1, LeastSubset
<1>4. U \in SUBSET T /\ ~Adds(U) /\ IsFiniteSet(U) /\ IsFiniteSet(S \cup U)
  BY <1>1, FS_Subset, FS_Union
<1>5. SumFunctionOnSet(f, S) \in Int
  BY SumType
<1>6. U # {}
  <2>1. SUFFICES ASSUME U = {} PROVE FALSE
    OBVIOUS
  <2>2. S \cup U = S
    BY <2>1
  <2>3. SumFunctionOnSet(f, U) = 0 /\ SumFunctionOnSet(f, S \cup U) = SumFunctionOnSet(f, S)
    BY <2>1, <2>2, SumEmpty, Zenon
  <2>4. QED
    BY <1>4, <1>5, <2>3
<1>7. PICK c \in U : TRUE
  BY <1>6
<1>8. /\ U \ {c} \in SUBSET T /\ U \ {c} # U /\ IsFiniteSet(U \ {c})
      /\ c \in S \cup U /\ (S \cup U) \ {c} = S \cup (U \ {c})
      /\ \A x \in U : f[x] \in Int
      /\ \A x \in S \cup U : f[x] \in Int
      /\ f[c] \in Int
  BY <1>4, <1>7, FS_RemoveElement
<1>9. /\ SumFunctionOnSet(f, U) = f[c] + SumFunctionOnSet(f, U \ {c})
      /\ SumFunctionOnSet(f, S \cup U) = f[c] + SumFunctionOnSet(f, S \cup (U \ {c}))
  BY <1>4, <1>8, SumRemove
<1>10. Adds(U \ {c})
  BY <1>1, <1>3, <1>8
<1>11. SumFunctionOnSet(f, U \ {c}) \in Int
  BY <1>8, SumType
<1>12. Adds(U)
  BY <1>5, <1>8, <1>9, <1>10, <1>11
<1>13. QED
  BY <1>4, <1>12

\* Of amounts that are not negative, some are at most all.
LEMMA SumSubset ==
  ASSUME NEW f, NEW S, IsFiniteSet(S), \A x \in S : f[x] \in Nat, NEW T \in SUBSET S
  PROVE  /\ SumFunctionOnSet(f, T) <= SumFunctionOnSet(f, S)
         /\ \A x \in S : f[x] <= SumFunctionOnSet(f, S)
<1>1. /\ IsFiniteSet(T) /\ IsFiniteSet(S \ T)
      /\ T \cup (S \ T) = S /\ T \cap (S \ T) = {}
  BY FS_Subset
<1>2. /\ SumFunctionOnSet(f, T) \in Nat
      /\ SumFunctionOnSet(f, S \ T) \in Nat
  BY <1>1, SumType
<1>3. SumFunctionOnSet(f, S) = SumFunctionOnSet(f, T) + SumFunctionOnSet(f, S \ T)
  BY <1>1, SumUnion
<1>4. ASSUME NEW x \in S PROVE f[x] <= SumFunctionOnSet(f, S)
  <2>1. SumFunctionOnSet(f, S) = f[x] + SumFunctionOnSet(f, S \ {x})
    BY SumRemove
  <2>2. SumFunctionOnSet(f, S \ {x}) \in Nat
    BY FS_RemoveElement, SumType
  <2>3. QED
    BY <2>1, <2>2
<1>5. QED
  BY <1>2, <1>3, <1>4

\* The amounts f of the elements of B are sorted by d into classes, those of A, and g[v]
\* is the sum of class v.
Classes(f, d, g, A, B) ==
  /\ IsFiniteSet(A) /\ IsFiniteSet(B)
  /\ \A u \in B : f[u] \in Int /\ d[u] \in A
  /\ \A v \in A : g[v] = SumFunctionOnSet(f, {u \in B : d[u] = v})

\* The sums of all classes are the sum of all.
LEMMA SumOfClasses ==
  ASSUME NEW f, NEW d, NEW g, NEW A, NEW B, Classes(f, d, g, A, B)
  PROVE  SumFunctionOnSet(g, A) = SumFunctionOnSet(f, B)
<1> USE DEF Classes
<1> DEFINE Of(V) == {u \in B : d[u] \in V}
           Agrees(V) == SumFunctionOnSet(g, V) = SumFunctionOnSet(f, Of(V))
<1>1. PICK F : F = {V \in SUBSET A : ~Agrees(V)}
  OBVIOUS
<1>2. CASE F = {}
  <2>1. Agrees(A)
    BY <1>1, <1>2
  <2>2. Of(A) = B
    OBVIOUS
  <2>3. QED
    BY <2>1, <2>2
<1>3. CASE F # {}
  <2>1. PICK V \in F : \A W \in F : W \subseteq V => W = V
    <3>1. F \subseteq SUBSET A
      BY <1>1
    <3>2. QED
      BY <1>3, <3>1, LeastSubset
  <2>2. V \in SUBSET A /\ ~Agrees(V) /\ IsFiniteSet(V)
    BY <1>1, FS_Subset
  <2>3. V # {}
    <3>1. SUFFICES ASSUME V = {} PROVE FALSE
      OBVIOUS
    <3>2. Of(V) = {}
      BY <3>1
    <3>3. SumFunctionOnSet(g, V) = 0 /\ SumFunctionOnSet(f, Of(V)) = 0
      BY <3>1, <3>2, SumEmpty
    <3>4. QED
      BY <2>2, <3>3
  <2>4. PICK c \in V : TRUE
    BY <2>3
  <2>5. PICK C : C = {u \in B : d[u] = c}
    OBVIOUS
  <2>6. PICK R : R = Of(V \ {c})
    OBVIOUS
  <2>7. /\ Of(V) = C \cup R /\ C \cap R = {}
        /\ C \in SUBSET B /\ R \in SUBSET B
    BY <2>5, <2>6
  <2>8. IsFiniteSet(C) /\ IsFiniteSet(R)
    BY <2>7, FS_Subset
  <2>9. SumFunctionOnSet(f, Of(V)) = SumFunctionOnSet(f, C) + SumFunctionOnSet(f, R)
    BY <2>7, <2>8, SumUnion
  <2>10. g[c] = SumFunctionOnSet(f, C)
    BY <2>2, <2>5
  <2>11. \A v \in V : g[v] \in Int
    <3>1. \A v \in V : {u \in B : d[u] = v} \in SUBSET B
      OBVIOUS
    <3>2. \A v \in V : SumFunctionOnSet(f, {u \in B : d[u] = v}) \in Int
      BY <3>1, FS_Subset, SumType
    <3>3. QED
      BY <2>2, <3>2
  <2>12. SumFunctionOnSet(g, V) = g[c] + SumFunctionOnSet(g, V \ {c})
    BY <2>2, <2>11, SumRemove
  <2>13. SumFunctionOnSet(g, V \ {c}) = SumFunctionOnSet(f, R)
    <3>1. V \ {c} \in SUBSET A /\ V \ {c} \subseteq V /\ V \ {c} # V
      BY <2>2
    <3>2. Agrees(V \ {c})
      BY <1>1, <2>1, <3>1
    <3>3. QED
      BY <2>6, <3>2
  <2>14. QED
    BY <2>2, <2>9, <2>10, <2>12, <2>13
<1>4. QED
  BY <1>2, <1>3

\* The element a changes its amount from f[a] to g[a], and comes or goes: the others
\* of T are those of U, with the same amounts.
Moves(f, g, a, T, U) ==
  /\ IsFiniteSet(T) /\ IsFiniteSet(U)
  /\ \A x \in T : f[x] \in Int
  /\ \A x \in U : g[x] \in Int
  /\ T \ {a} = U \ {a}
  /\ \A x \in T \ {a} : f[x] = g[x]

\* Then the sum changes by what a brings less what it took.
LEMMA SumMoved ==
  ASSUME NEW f, NEW g, NEW a, NEW T, NEW U, Moves(f, g, a, T, U)
  PROVE  /\ SumFunctionOnSet(f, T) \in Int
         /\ SumFunctionOnSet(g, U) = SumFunctionOnSet(f, T) - (IF a \in T THEN f[a] ELSE 0)
                                                            + (IF a \in U THEN g[a] ELSE 0)
<1>0. /\ \A x \in T : f[x] \in Int
      /\ \A x \in U : g[x] \in Int
  BY DEF Moves
<1>1. PICK R : R = T \ {a} /\ R = U \ {a}
  BY DEF Moves
<1>2. IsFiniteSet(T) /\ IsFiniteSet(U) /\ IsFiniteSet(R)
  BY <1>1, FS_RemoveElement DEF Moves
<1>3. SumFunctionOnSet(f, R) = SumFunctionOnSet(g, R) /\ SumFunctionOnSet(f, R) \in Int
  <2>1. \A x \in R : f[x] = g[x] /\ f[x] \in Int
    BY <1>1 DEF Moves
  <2>2. QED
    BY <1>2, <2>1, SumSame, SumType
<1>4. SumFunctionOnSet(f, T) = (IF a \in T THEN f[a] ELSE 0) + SumFunctionOnSet(f, R)
  <2>1. CASE a \in T
    <3>1. SumFunctionOnSet(f, T) = f[a] + SumFunctionOnSet(f, T \ {a})
      BY <1>0, <1>2, <2>1, SumRemove
    <3>2. QED
      BY <1>1, <2>1, <3>1
  <2>2. CASE a \notin T
    <3>1. T = R
      BY <1>1, <2>2
    <3>2. QED
      BY <1>3, <2>2, <3>1
  <2>3. QED
    BY <2>1, <2>2
<1>5. SumFunctionOnSet(g, U) = (IF a \in U THEN g[a] ELSE 0) + SumFunctionOnSet(g, R)
  <2>1. CASE a \in U
    <3>1. SumFunctionOnSet(g, U) = g[a] + SumFunctionOnSet(g, U \ {a})
      BY <1>0, <1>2, <2>1, SumRemove
    <3>2. QED
      BY <1>1, <2>1, <3>1
  <2>2. CASE a \notin U
    <3>1. U = R
      BY <1>1, <2>2
    <3>2. QED
      BY <1>3, <2>2, <3>1
  <2>3. QED
    BY <2>1, <2>2
<1>6. PICK x \in Int : x = IF a \in T THEN f[a] ELSE 0
  BY <1>0
<1>7. PICK y \in Int : y = IF a \in U THEN g[a] ELSE 0
  BY <1>0
<1>8. QED
  BY <1>3, <1>4, <1>5, <1>6, <1>7

----------------------------------------------------------------------------
(* Sums along a sequence                                                   *)

\* g goes on from f, which is over 1 .. n, by one value.
Continues(f, g, n) ==
  /\ n \in Nat
  /\ \A i \in 1 .. n : f[i] \in Int /\ g[i] = f[i]
  /\ g[n + 1] \in Int

\* Then its sum is that of f and of the value.
LEMMA SumContinued ==
  ASSUME NEW f, NEW g, NEW n, Continues(f, g, n)
  PROVE  SumFunctionOnSet(g, 1 .. n + 1) = SumFunctionOnSet(f, 1 .. n) + g[n + 1]
<1>1. n \in Nat /\ (\A i \in 1 .. n : f[i] \in Int /\ g[i] = f[i]) /\ g[n + 1] \in Int
  BY DEF Continues
<1>2. IsFiniteSet(1 .. n) /\ 1 .. n + 1 = (1 .. n) \cup {n + 1} /\ n + 1 \notin 1 .. n
  <2>1. IsFiniteSet(1 .. n)
    BY <1>1, FS_Interval
  <2>2. 1 .. n + 1 = (1 .. n) \cup {n + 1} /\ n + 1 \notin 1 .. n
    BY <1>1
  <2>3. QED
    BY <2>1, <2>2
<1>3. SumFunctionOnSet(g, (1 .. n) \cup {n + 1}) = g[n + 1] + SumFunctionOnSet(g, 1 .. n)
  BY <1>1, <1>2, SumAdd
<1>4. SumFunctionOnSet(g, 1 .. n) = SumFunctionOnSet(f, 1 .. n)
  BY <1>1, <1>2, SumSame
<1>5. SumFunctionOnSet(f, 1 .. n) \in Int
  BY <1>1, <1>2, SumType
<1>6. SumFunctionOnSet(g, 1 .. n + 1) = g[n + 1] + SumFunctionOnSet(f, 1 .. n)
  BY <1>2, <1>3, <1>4, Zenon
<1>7. QED
  BY <1>1, <1>5, <1>6

----------------------------------------------------------------------------
(* Sums of parts that were rounded down                                    *)

\* g has k of B parts of what f has on S, rounded down.
Parts(f, g, S, k, B) ==
  /\ k \in Nat /\ B \in Nat /\ B > 0
  /\ \A x \in S : /\ f[x] \in Nat /\ g[x] \in Nat
                  /\ B * g[x] <= k * f[x] /\ k * f[x] <= B * g[x] + (B - 1)

\* The sum is at most the parts of the sum and loses less than one for each element.
PartsAddUp(f, g, S, k, B) ==
  LET all == SumFunctionOnSet(f, S)
      parts == SumFunctionOnSet(g, S)
  IN B * parts <= k * all /\ k * all <= B * parts + (B - 1) * Cardinality(S)

\* The arithmetic of one element more.
LEMMA OnePartMore ==
  ASSUME NEW k \in Nat, NEW B \in Nat, NEW x \in Nat, NEW y \in Nat, NEW f \in Nat, NEW g \in Nat,
         NEW n \in Nat,
         B * y <= k * x, k * x <= B * y + (B - 1),
         B * g <= k * f, k * f <= B * g + (B - 1) * n
  PROVE  B * (y + g) <= k * (x + f) /\ k * (x + f) <= B * (y + g) + (B - 1) * (n + 1)
<1>1. B * (y + g) = B * y + B * g /\ k * (x + f) = k * x + k * f
  OBVIOUS
<1>2. (B - 1) * (n + 1) = (B - 1) * n + (B - 1)
  OBVIOUS
<1>3. PICK a, b, c, d, e, h : a = B * y /\ b = B * g /\ c = k * x /\ d = k * f /\ e = (B - 1) * n
                           /\ h = B - 1
  OBVIOUS
<1>4. /\ a \in Int /\ b \in Int /\ c \in Int /\ d \in Int /\ e \in Int /\ h \in Int
  BY <1>3
<1>5. a <= c /\ c <= a + h /\ b <= d /\ d <= b + e
  BY <1>3, Zenon
<1>6. a + b <= c + d /\ c + d <= (a + b) + (e + h)
  BY <1>4, <1>5
<1>7. QED
  BY <1>1, <1>2, <1>3, <1>6, Zenon

\* Rounded parts add up to the part of the whole, but for the rounding.
LEMMA SumOfParts ==
  ASSUME NEW f, NEW g, NEW S, IsFiniteSet(S), NEW k, NEW B, Parts(f, g, S, k, B)
  PROVE  PartsAddUp(f, g, S, k, B)
<1>1. PICK F : F = {T \in SUBSET S : ~PartsAddUp(f, g, T, k, B)}
  OBVIOUS
<1>2. SUFFICES ASSUME F # {} PROVE FALSE
  BY <1>1
<1>3. PICK T \in F : \A U \in F : U \subseteq T => U = T
  <2>1. F \subseteq SUBSET S
    BY <1>1
  <2>2. QED
    BY <1>2, <2>1, LeastSubset
<1>4. T \in SUBSET S /\ ~PartsAddUp(f, g, T, k, B) /\ IsFiniteSet(T)
  BY <1>1, FS_Subset
<1>5. k \in Nat /\ B \in Nat /\ B > 0
  BY DEF Parts
<1>6. CASE T = {}
  <2>1. SumFunctionOnSet(f, {}) = 0 /\ SumFunctionOnSet(g, {}) = 0 /\ Cardinality({}) = 0
    BY SumEmpty, FS_EmptySet
  <2>2. B * 0 <= k * 0 /\ k * 0 <= B * 0 + (B - 1) * 0
    BY <1>5
  <2>3. PartsAddUp(f, g, {}, k, B)
    BY <2>1, <2>2, Zenon DEF PartsAddUp
  <2>4. QED
    BY <1>4, <1>6, <2>3
<1>7. CASE T # {}
  <2>1. PICK c : c = Picked(T)
    OBVIOUS
  <2>2. PICK U : U = T \ {c}
    OBVIOUS
  <2>3. /\ c \in T
        /\ SumFunctionOnSet(f, T) = f[c] + SumFunctionOnSet(f, U)
        /\ SumFunctionOnSet(g, T) = g[c] + SumFunctionOnSet(g, U)
    BY <1>4, <1>7, <2>1, <2>2, SumPicked
  <2>4. U \in SUBSET S /\ U \subseteq T /\ U # T /\ IsFiniteSet(U)
    BY <1>4, <2>2, <2>3, FS_Subset
  <2>5. PartsAddUp(f, g, U, k, B)
    BY <1>1, <1>3, <2>4
  <2>6. PICK n \in Nat : n = Cardinality(U) /\ Cardinality(T) = n + 1
    <3>1. T = U \cup {c} /\ c \notin U
      BY <2>2, <2>3
    <3>2. QED
      BY <2>4, <3>1, FS_AddElement, FS_CardinalityType
  <2>7. PICK x \in Nat, y \in Nat : /\ x = f[c] /\ y = g[c]
                                    /\ B * y <= k * x /\ k * x <= B * y + (B - 1)
    BY <1>4, <2>3 DEF Parts
  <2>8. PICK a \in Nat, b \in Nat : a = SumFunctionOnSet(f, U) /\ b = SumFunctionOnSet(g, U)
    <3>1. \A z \in U : f[z] \in Int /\ f[z] >= 0 /\ g[z] \in Int /\ g[z] >= 0
      BY <2>4 DEF Parts
    <3>2. SumFunctionOnSet(f, U) \in Nat /\ SumFunctionOnSet(g, U) \in Nat
      BY <2>4, <3>1, SumType
    <3>3. QED
      BY <3>2
  <2>9. B * b <= k * a /\ k * a <= B * b + (B - 1) * n
    BY <2>5, <2>6, <2>8, Zenon DEF PartsAddUp
  <2>10. B * (y + b) <= k * (x + a) /\ k * (x + a) <= B * (y + b) + (B - 1) * (n + 1)
    BY <1>5, <2>7, <2>9, OnePartMore
  <2>11. PartsAddUp(f, g, T, k, B)
    BY <2>3, <2>6, <2>7, <2>8, <2>10, Zenon DEF PartsAddUp
  <2>12. QED
    BY <1>4, <2>11
<1>8. QED
  BY <1>6, <1>7

----------------------------------------------------------------------------
(* Sums of sums                                                            *)

\* h is f and g together on S.
Together(f, g, h, S) ==
  \A x \in S : f[x] \in Int /\ g[x] \in Int /\ h[x] = f[x] + g[x]

\* Then its sum is that of f and that of g.
LEMMA SumTogether ==
  ASSUME NEW f, NEW g, NEW h, NEW S, IsFiniteSet(S), Together(f, g, h, S)
  PROVE  SumFunctionOnSet(h, S) = SumFunctionOnSet(f, S) + SumFunctionOnSet(g, S)
<1> DEFINE Adds(T) == SumFunctionOnSet(h, T) = SumFunctionOnSet(f, T) + SumFunctionOnSet(g, T)
<1>1. PICK F : F = {T \in SUBSET S : ~Adds(T)}
  OBVIOUS
<1>2. SUFFICES ASSUME F # {} PROVE FALSE
  BY <1>1
<1>3. PICK T \in F : \A U \in F : U \subseteq T => U = T
  <2>1. F \subseteq SUBSET S
    BY <1>1
  <2>2. QED
    BY <1>2, <2>1, LeastSubset
<1>4. T \in SUBSET S /\ ~Adds(T) /\ IsFiniteSet(T)
  BY <1>1, FS_Subset
<1>5. T # {}
  <2>1. SUFFICES ASSUME T = {} PROVE FALSE
    OBVIOUS
  <2>2. SumFunctionOnSet(h, {}) = 0 /\ SumFunctionOnSet(f, {}) = 0 /\ SumFunctionOnSet(g, {}) = 0
    BY SumEmpty
  <2>3. QED
    BY <1>4, <2>1, <2>2
<1>6. PICK c : c = Picked(T)
  OBVIOUS
<1>7. PICK U : U = T \ {c}
  OBVIOUS
<1>8. /\ c \in T
      /\ SumFunctionOnSet(f, T) = f[c] + SumFunctionOnSet(f, U)
      /\ SumFunctionOnSet(g, T) = g[c] + SumFunctionOnSet(g, U)
      /\ SumFunctionOnSet(h, T) = h[c] + SumFunctionOnSet(h, U)
  BY <1>4, <1>5, <1>6, <1>7, SumPicked, Zenon
<1>9. U \in SUBSET S /\ U \subseteq T /\ U # T /\ IsFiniteSet(U)
  BY <1>4, <1>7, <1>8, FS_Subset
<1>10. Adds(U)
  BY <1>1, <1>3, <1>9
<1>11. PICK x \in Int, y \in Int : x = f[c] /\ y = g[c] /\ h[c] = x + y
  BY <1>4, <1>8 DEF Together
<1>12. PICK a \in Int, b \in Int : a = SumFunctionOnSet(f, U) /\ b = SumFunctionOnSet(g, U)
  <2>1. \A z \in U : f[z] \in Int /\ g[z] \in Int
    BY <1>9 DEF Together
  <2>2. SumFunctionOnSet(f, U) \in Int /\ SumFunctionOnSet(g, U) \in Int
    BY <1>9, <2>1, SumType
  <2>3. QED
    BY <2>2
<1>13. (x + y) + (a + b) = (x + a) + (y + b)
  OBVIOUS
<1>14. Adds(T)
  BY <1>8, <1>10, <1>11, <1>12, <1>13, Zenon
<1>15. QED
  BY <1>4, <1>14

\* What is zero outside T has the sum it has on T.
LEMMA SumRestricted ==
  ASSUME NEW f, NEW h, NEW S, NEW T \in SUBSET S, IsFiniteSet(S),
         \A x \in T : f[x] \in Int /\ h[x] = f[x],
         \A x \in S \ T : h[x] = 0
  PROVE  SumFunctionOnSet(h, S) = SumFunctionOnSet(f, T)
<1>1. /\ IsFiniteSet(T) /\ IsFiniteSet(S \ T)
      /\ T \cup (S \ T) = S /\ T \cap (S \ T) = {}
  BY FS_Subset
<1>2. \A x \in T \cup (S \ T) : h[x] \in Int
  OBVIOUS
<1>3. SumFunctionOnSet(h, T \cup (S \ T)) = SumFunctionOnSet(h, T) + SumFunctionOnSet(h, S \ T)
  BY <1>1, <1>2, SumUnion
<1>4. SumFunctionOnSet(h, S \ T) = 0
  BY <1>1, SumOfZeros
<1>5. SumFunctionOnSet(h, T) = SumFunctionOnSet(f, T)
  BY <1>1, SumSame
<1>6. SumFunctionOnSet(f, T) \in Int
  BY <1>1, SumType
<1>7. SumFunctionOnSet(h, S) = SumFunctionOnSet(h, T) + SumFunctionOnSet(h, S \ T)
  BY <1>1, <1>3, Zenon
<1>8. QED
  BY <1>4, <1>5, <1>6, <1>7


----------------------------------------------------------------------------
(* Bounds                                                                  *)

\* k times g is at most q times f on S.
Bounded(f, g, S, k, q) ==
  /\ k \in Nat /\ q \in Nat
  /\ \A x \in S : f[x] \in Nat /\ g[x] \in Nat /\ k * g[x] <= q * f[x]

\* The arithmetic of one element more.
LEMMA OneBoundMore ==
  ASSUME NEW k \in Nat, NEW q \in Nat, NEW x \in Nat, NEW y \in Nat, NEW f \in Nat, NEW g \in Nat,
         k * y <= q * x, k * g <= q * f
  PROVE  k * (y + g) <= q * (x + f)
<1>1. k * (y + g) = k * y + k * g /\ q * (x + f) = q * x + q * f
  OBVIOUS
<1>2. PICK a \in Nat, b \in Nat, c \in Nat, d \in Nat :
        a = k * y /\ b = k * g /\ c = q * x /\ d = q * f
  OBVIOUS
<1>3. a <= c /\ b <= d
  BY <1>2, Zenon
<1>4. a + b <= c + d
  BY <1>2, <1>3
<1>5. QED
  BY <1>1, <1>2, <1>4, Zenon

\* So are the sums.
LEMMA SumBounded ==
  ASSUME NEW f, NEW g, NEW S, IsFiniteSet(S), NEW k, NEW q, Bounded(f, g, S, k, q)
  PROVE  k * SumFunctionOnSet(g, S) <= q * SumFunctionOnSet(f, S)
<1> DEFINE Holds(T) == k * SumFunctionOnSet(g, T) <= q * SumFunctionOnSet(f, T)
<1>1. PICK F : F = {T \in SUBSET S : ~Holds(T)}
  OBVIOUS
<1>2. SUFFICES ASSUME F # {} PROVE FALSE
  BY <1>1
<1>3. PICK T \in F : \A U \in F : U \subseteq T => U = T
  <2>1. F \subseteq SUBSET S
    BY <1>1
  <2>2. QED
    BY <1>2, <2>1, LeastSubset
<1>4. T \in SUBSET S /\ ~Holds(T) /\ IsFiniteSet(T)
  BY <1>1, FS_Subset
<1>5. k \in Nat /\ q \in Nat
  BY DEF Bounded
<1>6. CASE T = {}
  <2>1. SumFunctionOnSet(f, {}) = 0 /\ SumFunctionOnSet(g, {}) = 0
    BY SumEmpty
  <2>2. k * 0 <= q * 0
    BY <1>5
  <2>3. Holds({})
    BY <2>1, <2>2, Zenon
  <2>4. QED
    BY <1>4, <1>6, <2>3, Zenon
<1>7. CASE T # {}
  <2>1. PICK c : c = Picked(T)
    OBVIOUS
  <2>2. PICK U : U = T \ {c}
    OBVIOUS
  <2>3. /\ c \in T
        /\ SumFunctionOnSet(f, T) = f[c] + SumFunctionOnSet(f, U)
        /\ SumFunctionOnSet(g, T) = g[c] + SumFunctionOnSet(g, U)
    BY <1>4, <1>7, <2>1, <2>2, SumPicked
  <2>4. U \in SUBSET S /\ U \subseteq T /\ U # T /\ IsFiniteSet(U)
    BY <1>4, <2>2, <2>3, FS_Subset
  <2>5. Holds(U)
    <3> HIDE DEF Holds
    <3>1. QED
      BY <1>1, <1>3, <2>4
  <2>6. PICK x \in Nat, y \in Nat : x = f[c] /\ y = g[c] /\ k * y <= q * x
    BY <1>4, <2>3 DEF Bounded
  <2>7. PICK a \in Nat, b \in Nat : a = SumFunctionOnSet(f, U) /\ b = SumFunctionOnSet(g, U)
    <3>1. \A z \in U : f[z] \in Int /\ f[z] >= 0 /\ g[z] \in Int /\ g[z] >= 0
      BY <2>4 DEF Bounded
    <3>2. SumFunctionOnSet(f, U) \in Nat /\ SumFunctionOnSet(g, U) \in Nat
      BY <2>4, <3>1, SumType
    <3>3. QED
      BY <3>2
  <2>8. k * b <= q * a
    BY <2>5, <2>7, Zenon
  <2>9. k * (y + b) <= q * (x + a)
    BY <1>5, <2>6, <2>8, OneBoundMore
  <2>10. Holds(T)
    BY <2>3, <2>6, <2>7, <2>9, Zenon
  <2>11. QED
    BY <1>4, <2>10, Zenon
<1>8. QED
  BY <1>6, <1>7
=============================================================================
