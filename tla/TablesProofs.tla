---------------------------- MODULE TablesProofs ----------------------------
(***************************************************************************)
(* Theorems about the modules whose state is rows of a table and whose     *)
(* properties are about all of the rows at once: the votes and the karma   *)
(* ledger (Votes), the money ledger (Ledger), the timetable entries an     *)
(* ingestion stores (Ingestion) and the arithmetic over them (Schedule).   *)
(* What they share comes first: how a sum over the rows of a finite table  *)
(* moves when a row does.                                                  *)
(***************************************************************************)
EXTENDS Votes, Ledger, Ingestion, Schedule, RowStoreProofs, FiniteSetTheorems,
        WellFoundedInduction, TLAPS

-----------------------------------------------------------------------------
(***************************************************************************)
(* Sums of finite sets of rows.  SumFunctionOnSet is a recursive function  *)
(* on subsets; that it has a value, and what the value is, is proved by    *)
(* induction with sets for properties, which needs no operator parameter.  *)
(***************************************************************************)

(* A set that has 0 and, with a number, its successor, has every number:   *)
(* induction with a set for the property, by the least number it lacks.    *)
LEMMA SetInduction ==
  ASSUME NEW G, 0 \in G, \A n \in Nat : n \in G => n + 1 \in G
  PROVE  Nat \subseteq G
<1> DEFINE Less == {ss \in Nat \X Nat : ss[1] < ss[2]}
           Bad == Nat \ G
<1>1. IsWellFoundedOn(Less, Nat)
  BY NatLessThanWellFounded DEF OpToRel
<1>2. \A a \in Nat, b \in Nat : a < b => <<a, b>> \in Less
  OBVIOUS
<1> HIDE DEF Less
<1> SUFFICES ASSUME Bad # {} PROVE FALSE
  OBVIOUS
<1>3. Bad \subseteq Nat
  OBVIOUS
<1> HIDE DEF Bad
<1>4. PICK n \in Bad : \A m \in Bad : ~ <<m, n>> \in Less
  BY <1>1, <1>3, WFMin
<1>5. n \in Nat /\ n \notin G /\ n # 0
  BY <1>4 DEF Bad
<1>6. n - 1 \in Nat /\ n - 1 < n /\ n = (n - 1) + 1
  BY <1>5
<1>7. n - 1 \in G
  BY <1>2, <1>4, <1>5, <1>6 DEF Bad
<1> QED
  BY <1>5, <1>6, <1>7

(* The element a fold takes next.                                          *)
Pick(s) == CHOOSE x \in s : TRUE

(* g is the function the fold of SumFunctionOnSet recurs through.          *)
SumsUp(g, F, S) ==
  g = [s \in SUBSET S |-> IF s = {} THEN 0 ELSE F[Pick(s)] + g[s \ {Pick(s)}]]

(* The subsets of at most n elements.                                      *)
UpTo(S, n) == {s \in SUBSET S : Cardinality(s) <= n}

(* The element is one of the set's.                                        *)
LEMMA Picked == ASSUME NEW s, s # {} PROVE Pick(s) \in s
  BY DEF Pick

(* Without one of its elements a finite set is one smaller.                *)
LEMMA Smaller ==
  ASSUME NEW S, IsFiniteSet(S), NEW s \in SUBSET S, NEW x \in s
  PROVE  /\ IsFiniteSet(s) /\ Cardinality(s) \in Nat
         /\ s \ {x} \in SUBSET S /\ Cardinality(s \ {x}) = Cardinality(s) - 1
  BY FS_Subset, FS_RemoveElement, FS_CardinalityType

(* The recursion of the fold has a solution on the subsets of a finite set.*)
LEMMA SumExists ==
  ASSUME NEW S, IsFiniteSet(S), NEW F
  PROVE  \E g : SumsUp(g, F, S)
<1> DEFINE Step(g, s) == IF s = {} THEN 0 ELSE F[Pick(s)] + g[s \ {Pick(s)}]
           Good == {n \in Nat : \E g : g = [s \in UpTo(S, n) |-> Step(g, s)]}
<1>1. \A s \in SUBSET S : IsFiniteSet(s) /\ Cardinality(s) \in Nat
  BY FS_Subset, FS_CardinalityType
<1>2. 0 \in Good
  <2> DEFINE g == [s \in UpTo(S, 0) |-> 0]
  <2>1. \A s \in UpTo(S, 0) : s = {}
    BY <1>1, FS_EmptySet DEF UpTo
  <2>2. g = [s \in UpTo(S, 0) |-> Step(g, s)]
    BY <2>1
  <2> HIDE DEF Step, g
  <2> QED
    BY <2>2
<1>3. \A n \in Nat : n \in Good => n + 1 \in Good
  <2> TAKE n \in Nat
  <2> HAVE n \in Good
  <2>1. PICK g : g = [s \in UpTo(S, n) |-> Step(g, s)]
    OBVIOUS
  <2> DEFINE h == [s \in UpTo(S, n + 1) |-> Step(g, s)]
  <2>2. \A s \in UpTo(S, n) : s \in UpTo(S, n + 1)
    BY <1>1 DEF UpTo
  <2>3. \A s \in UpTo(S, n) : h[s] = g[s]
    <3> TAKE s \in UpTo(S, n)
    <3>1. h[s] = Step(g, s)
      BY <2>2
    <3>2. g[s] = Step(g, s)
      <4> HIDE DEF Step
      <4> QED
        BY <2>1
    <3> QED
      BY <3>1, <3>2
  <2>4. \A s \in UpTo(S, n + 1) : s # {} => s \ {Pick(s)} \in UpTo(S, n)
    BY <1>1, Smaller, Picked DEF UpTo
  <2>5. \A s \in UpTo(S, n + 1) : Step(g, s) = Step(h, s)
    <3> HIDE DEF h
    <3> QED
      BY <2>3, <2>4
  <2>6. h = [s \in UpTo(S, n + 1) |-> Step(h, s)]
    <3>1. h = [s \in UpTo(S, n + 1) |-> Step(g, s)]
      OBVIOUS
    <3> HIDE DEF h, Step
    <3> QED
      BY <2>5, <3>1
  <2> HIDE DEF h, Step
  <2> QED
    BY <2>6
<1> HIDE DEF Good
<1>4. Cardinality(S) \in Nat /\ Cardinality(S) \in Good
  BY <1>2, <1>3, SetInduction, FS_CardinalityType
<1>5. UpTo(S, Cardinality(S)) = SUBSET S
  BY FS_Subset DEF UpTo
<1>6. PICK g : g = [s \in UpTo(S, Cardinality(S)) |-> Step(g, s)]
  <2> HIDE DEF Step
  <2> QED
    BY <1>4 DEF Good
<1>7. g = [s \in SUBSET S |-> Step(g, s)]
  <2> HIDE DEF Step
  <2> QED
    BY <1>5, <1>6
<1> QED
  BY <1>7 DEF SumsUp

(* SumFunctionOnSet is that solution, at the whole set.                    *)
LEMMA TotalIsSum ==
  ASSUME NEW S, IsFiniteSet(S), NEW F
  PROVE  \E g : SumsUp(g, F, S) /\ SumFunctionOnSet(F, S) = g[S]
<1> DEFINE g == CHOOSE h : h = [s \in SUBSET S |->
                  IF s = {} THEN 0 ELSE F[CHOOSE x \in s : TRUE] + h[s \ {CHOOSE x \in s : TRUE}]]
<1>1. SumFunctionOnSet(F, S) = g[S]
  BY DEF SumFunctionOnSet, FoldFunctionOnSet, MapThenFoldSet
<1>2. PICK h : SumsUp(h, F, S)
  BY SumExists
<1>3. h = [s \in SUBSET S |->
             IF s = {} THEN 0 ELSE F[CHOOSE x \in s : TRUE] + h[s \ {CHOOSE x \in s : TRUE}]]
  BY <1>2 DEF SumsUp, Pick
<1>4. g = [s \in SUBSET S |->
             IF s = {} THEN 0 ELSE F[CHOOSE x \in s : TRUE] + g[s \ {CHOOSE x \in s : TRUE}]]
  BY <1>3
<1>5. SumsUp(g, F, S)
  <2> HIDE DEF g
  <2> QED
    BY <1>4 DEF SumsUp, Pick
<1> QED
  BY <1>1, <1>5

(* What holds of a set when it holds of the set less any one element holds *)
(* of every subset of a finite set.                                        *)
LEMMA FiniteInduction ==
  ASSUME NEW S, IsFiniteSet(S), NEW G,
         \A s \in SUBSET S : (\A x \in s : s \ {x} \in G) => s \in G
  PROVE  \A s \in SUBSET S : s \in G
<1> DEFINE Reached == {n \in Nat : \A s \in UpTo(S, n) : s \in G}
<1>1. \A s \in SUBSET S : IsFiniteSet(s) /\ Cardinality(s) \in Nat
  BY FS_Subset, FS_CardinalityType
<1>2. 0 \in Reached
  <2>1. \A s \in UpTo(S, 0) : s = {} /\ s \in SUBSET S
    BY <1>1, FS_EmptySet DEF UpTo
  <2> QED
    BY <2>1
<1>3. ASSUME NEW n \in Nat, n \in Reached PROVE n + 1 \in Reached
  <2>1. ASSUME NEW s \in UpTo(S, n + 1) PROVE s \in G
    <3>1. s \in SUBSET S /\ Cardinality(s) \in Nat /\ Cardinality(s) <= n + 1
      BY <1>1, <2>1 DEF UpTo
    <3>2. \A x \in s : s \ {x} \in UpTo(S, n)
      BY <3>1, Smaller DEF UpTo
    <3> QED
      BY <1>3, <3>1, <3>2
  <2> QED
    BY <2>1
<1>4. Nat \subseteq Reached
  <2> HIDE DEF Reached
  <2> QED
    BY <1>2, <1>3, SetInduction
<1>5. ASSUME NEW s \in SUBSET S PROVE s \in G
  <2>1. s \in UpTo(S, Cardinality(s)) /\ Cardinality(s) \in Nat
    BY <1>1 DEF UpTo
  <2> QED
    BY <1>4, <2>1
<1> QED
  BY <1>5

(* Two solutions agree where their summands do, on sets of any superset.   *)
LEMMA Unique ==
  ASSUME NEW S, NEW T, IsFiniteSet(S), T \subseteq S, NEW F, NEW G, NEW g, NEW h,
         SumsUp(g, F, S), SumsUp(h, G, T), \A k \in T : F[k] = G[k]
  PROVE  g[T] = h[T]
<1> DEFINE Same == {s \in SUBSET T : g[s] = h[s]}
<1>1. IsFiniteSet(T)
  BY FS_Subset
<1>2. \A s \in SUBSET T :
        /\ g[s] = IF s = {} THEN 0 ELSE F[Pick(s)] + g[s \ {Pick(s)}]
        /\ h[s] = IF s = {} THEN 0 ELSE G[Pick(s)] + h[s \ {Pick(s)}]
  BY DEF SumsUp
<1>3. \A s \in SUBSET T : (\A x \in s : s \ {x} \in Same) => s \in Same
  BY <1>2, Picked
<1> HIDE DEF Same
<1>4. T \in Same
  BY <1>1, <1>3, FiniteInduction
<1> QED
  BY <1>4 DEF Same

(* The sum of nothing.                                                     *)
LEMMA SumEmpty == ASSUME NEW F PROVE SumFunctionOnSet(F, {}) = 0
<1>1. PICK g : SumsUp(g, F, {}) /\ SumFunctionOnSet(F, {}) = g[{}]
  BY TotalIsSum, FS_EmptySet
<1> QED
  BY <1>1 DEF SumsUp

(* Equal summands have equal sums.                                         *)
LEMMA SumSame ==
  ASSUME NEW S, IsFiniteSet(S), NEW F, NEW G, \A k \in S : F[k] = G[k]
  PROVE  SumFunctionOnSet(F, S) = SumFunctionOnSet(G, S)
<1>1. PICK g : SumsUp(g, F, S) /\ SumFunctionOnSet(F, S) = g[S]
  BY TotalIsSum
<1>2. PICK h : SumsUp(h, G, S) /\ SumFunctionOnSet(G, S) = h[S]
  BY TotalIsSum
<1> QED
  BY <1>1, <1>2, Unique

(* The sum is the first summand and the sum of the rest.                   *)
LEMMA SumPick ==
  ASSUME NEW S, IsFiniteSet(S), S # {}, NEW F
  PROVE  SumFunctionOnSet(F, S) = F[Pick(S)] + SumFunctionOnSet(F, S \ {Pick(S)})
<1>1. PICK g : SumsUp(g, F, S) /\ SumFunctionOnSet(F, S) = g[S]
  BY TotalIsSum
<1>2. Pick(S) \in S /\ IsFiniteSet(S \ {Pick(S)})
  BY Picked, FS_RemoveElement
<1>3. PICK h : SumsUp(h, F, S \ {Pick(S)})
                /\ SumFunctionOnSet(F, S \ {Pick(S)}) = h[S \ {Pick(S)}]
  BY <1>2, TotalIsSum
<1>4. g[S \ {Pick(S)}] = h[S \ {Pick(S)}]
  BY <1>1, <1>3, Unique
<1>5. g[S] = F[Pick(S)] + g[S \ {Pick(S)}]
  BY <1>1 DEF SumsUp
<1> QED
  BY <1>1, <1>3, <1>4, <1>5

(* Any summand may be taken first: the order does not matter.              *)
LEMMA SumTakes ==
  ASSUME NEW S, IsFiniteSet(S), NEW F, \A k \in S : F[k] \in Int
  PROVE  /\ SumFunctionOnSet(F, S) \in Int
         /\ \A x \in S : SumFunctionOnSet(F, S) = F[x] + SumFunctionOnSet(F, S \ {x})
<1> DEFINE Sum(s) == SumFunctionOnSet(F, s)
           Good == {s \in SUBSET S :
                      /\ Sum(s) \in Int
                      /\ \A x \in s : Sum(s \ {x}) \in Int /\ Sum(s) = F[x] + Sum(s \ {x})}
<1>1. Sum({}) = 0
  BY SumEmpty
<1>2. \A s \in SUBSET S : s # {} => Sum(s) = F[Pick(s)] + Sum(s \ {Pick(s)})
  BY FS_Subset, SumPick
<1> HIDE DEF Sum
<1>3. ASSUME NEW s \in SUBSET S, \A x \in s : s \ {x} \in Good PROVE s \in Good
  <2>1. CASE s = {}
    BY <1>1, <2>1
  <2>2. CASE s # {}
    <3>1. PICK p \in s : p = Pick(s)
      BY <2>2, Picked
    <3>2. \A x \in s : Sum(s \ {x}) \in Int /\ F[x] \in Int
      BY <1>3
    <3>3a. Sum(s) = F[p] + Sum(s \ {p})
      BY <1>2, <2>2, <3>1
    <3>3. Sum(s) = F[p] + Sum(s \ {p}) /\ Sum(s) \in Int
      BY <3>2, <3>3a
    <3>4. ASSUME NEW x \in s, x # p PROVE Sum(s) = F[x] + Sum(s \ {x})
      <4>1. x \in s \ {p} /\ p \in s \ {x} /\ (s \ {p}) \ {x} = (s \ {x}) \ {p}
        BY <3>4
      <4>2. Sum((s \ {p}) \ {x}) \in Int /\ Sum(s \ {p}) = F[x] + Sum((s \ {p}) \ {x})
        BY <1>3, <4>1
      <4>3. Sum(s \ {x}) = F[p] + Sum((s \ {p}) \ {x})
        <5>1. Sum(s \ {x}) = F[p] + Sum((s \ {x}) \ {p})
          BY <1>3, <4>1
        <5> QED
          BY <4>1, <5>1
      <4> QED
        BY <3>2, <3>3, <4>2, <4>3
    <3> QED
      BY <3>2, <3>3, <3>4
  <2> QED
    BY <2>1, <2>2
<1>4. S \in Good
  <2> HIDE DEF Good
  <2>1. \A s \in SUBSET S : (\A x \in s : s \ {x} \in Good) => s \in Good
    BY <1>3
  <2>2. \A s \in SUBSET S : s \in Good
    BY <2>1, FiniteInduction
  <2> QED
    BY <2>2
<1> QED
  BY <1>4 DEF Sum

(* One summand changed changes the sum by as much.                         *)
LEMMA SumChanges ==
  ASSUME NEW S, IsFiniteSet(S), NEW F, NEW G, NEW x \in S,
         \A k \in S : F[k] \in Int /\ G[k] \in Int,
         \A k \in S \ {x} : F[k] = G[k]
  PROVE  SumFunctionOnSet(G, S) = SumFunctionOnSet(F, S) + (G[x] - F[x])
<1>1. IsFiniteSet(S \ {x})
  BY FS_RemoveElement
<1>2. SumFunctionOnSet(F, S \ {x}) = SumFunctionOnSet(G, S \ {x})
  BY <1>1, SumSame
<1>3. SumFunctionOnSet(F, S \ {x}) \in Int
  BY <1>1, SumTakes
<1>4. SumFunctionOnSet(F, S) = F[x] + SumFunctionOnSet(F, S \ {x})
  BY SumTakes
<1>5. SumFunctionOnSet(G, S) = G[x] + SumFunctionOnSet(G, S \ {x})
  BY SumTakes
<1>6. F[x] \in Int /\ G[x] \in Int
  OBVIOUS
<1> QED
  BY <1>2, <1>3, <1>4, <1>5, <1>6

(* The sum over two sets apart.                                            *)
LEMMA SumUnion ==
  ASSUME NEW S, NEW T, IsFiniteSet(S), IsFiniteSet(T), S \cap T = {},
         NEW F, \A k \in S \cup T : F[k] \in Int
  PROVE  SumFunctionOnSet(F, S \cup T) = SumFunctionOnSet(F, S) + SumFunctionOnSet(F, T)
<1> DEFINE Sum(s) == SumFunctionOnSet(F, s)
           Good == {s \in SUBSET T : Sum(S \cup s) = Sum(S) + Sum(s)}
<1>1. ASSUME NEW s \in SUBSET T
      PROVE  /\ Sum(s) \in Int /\ Sum(S \cup s) \in Int /\ Sum(S) \in Int
             /\ \A x \in s : /\ Sum(s) = F[x] + Sum(s \ {x})
                            /\ Sum(S \cup s) = F[x] + Sum((S \cup s) \ {x})
  <2>1. IsFiniteSet(s) /\ IsFiniteSet(S \cup s)
    BY FS_Subset, FS_Union
  <2> HIDE DEF Sum
  <2>2. Sum(s) \in Int /\ \A x \in s : Sum(s) = F[x] + Sum(s \ {x})
    BY <2>1, SumTakes DEF Sum
  <2>3. Sum(S \cup s) \in Int /\ \A x \in S \cup s : Sum(S \cup s) = F[x] + Sum((S \cup s) \ {x})
    BY <2>1, SumTakes DEF Sum
  <2>4. Sum(S) \in Int
    BY SumTakes DEF Sum
  <2> QED
    BY <2>2, <2>3, <2>4
<1>2. Sum({}) = 0
  BY SumEmpty
<1> HIDE DEF Sum
<1>3. ASSUME NEW s \in SUBSET T, \A x \in s : s \ {x} \in Good PROVE s \in Good
  <2>1. CASE s = {}
    <3>1. S \cup s = S
      BY <2>1
    <3> QED
      BY <1>1, <1>2, <2>1, <3>1
  <2>2. CASE s # {}
    <3>1. PICK x \in s : TRUE
      BY <2>2
    <3>2. s \ {x} \in SUBSET T /\ x \in T /\ F[x] \in Int
      BY <3>1
    <3>3. (S \cup s) \ {x} = S \cup (s \ {x})
      BY <3>2
    <3>4. Sum(S \cup (s \ {x})) = Sum(S) + Sum(s \ {x})
      BY <1>3, <3>1
    <3>5. Sum(s) = F[x] + Sum(s \ {x}) /\ Sum(S \cup s) = F[x] + Sum(S \cup (s \ {x}))
      <4>1. Sum(s) = F[x] + Sum(s \ {x})
        BY <1>1, <3>1
      <4>2. Sum(S \cup s) = F[x] + Sum((S \cup s) \ {x})
        BY <1>1, <3>1
      <4> QED
        BY <3>3, <4>1, <4>2
    <3>6. Sum(S) \in Int /\ Sum(s \ {x}) \in Int
      BY <1>1, <3>2
    <3>7. Sum(S \cup s) = Sum(S) + Sum(s)
      BY <3>2, <3>4, <3>5, <3>6
    <3> QED
      BY <3>7
  <2> QED
    BY <2>1, <2>2
<1>4. T \in Good
  <2> HIDE DEF Good
  <2>1. \A s \in SUBSET T : (\A x \in s : s \ {x} \in Good) => s \in Good
    BY <1>3
  <2>2. \A s \in SUBSET T : s \in Good
    BY <2>1, FiniteInduction
  <2> QED
    BY <2>2
<1> QED
  BY <1>4 DEF Sum

(* A bound of the summands bounds the sum.                                 *)
LEMMA SumBound ==
  ASSUME NEW S, IsFiniteSet(S), NEW F, NEW c \in Nat, \A k \in S : F[k] \in -c..c
  PROVE  SumFunctionOnSet(F, S) \in -(c * Cardinality(S))..(c * Cardinality(S))
<1> DEFINE Sum(s) == SumFunctionOnSet(F, s)
           Good == {s \in SUBSET S : Sum(s) \in -(c * Cardinality(s))..(c * Cardinality(s))}
<1>1. ASSUME NEW s \in SUBSET S
      PROVE  /\ Sum(s) \in Int /\ Cardinality(s) \in Nat
             /\ \A x \in s : /\ Sum(s) = F[x] + Sum(s \ {x})
                            /\ Cardinality(s \ {x}) = Cardinality(s) - 1
  <2>1. IsFiniteSet(s)
    BY FS_Subset
  <2> HIDE DEF Sum
  <2>2. Sum(s) \in Int /\ \A x \in s : Sum(s) = F[x] + Sum(s \ {x})
    BY <2>1, SumTakes DEF Sum
  <2> QED
    BY <2>1, <2>2, FS_CardinalityType, FS_RemoveElement
<1>2. Sum({}) = 0 /\ Cardinality({}) = 0
  BY SumEmpty, FS_EmptySet
<1> HIDE DEF Sum
<1>3. ASSUME NEW s \in SUBSET S, \A x \in s : s \ {x} \in Good PROVE s \in Good
  <2>1. CASE s = {}
    BY <1>2, <2>1
  <2>2. CASE s # {}
    <3>1. PICK x \in s : TRUE
      BY <2>2
    <3>2. PICK n \in Nat : n = Cardinality(s \ {x})
      BY <1>1
    <3>3. Cardinality(s) = n + 1
      BY <1>1, <3>1, <3>2
    <3>4. PICK m \in Int : m = Sum(s \ {x})
      BY <1>1
    <3>5. m \in -(c * n)..(c * n)
      BY <1>3, <3>1, <3>2, <3>4
    <3>6. Sum(s) = F[x] + m /\ F[x] \in -c..c
      BY <1>1, <3>1, <3>4
    <3>7. c * (n + 1) = c * n + c /\ c * n \in Int
      OBVIOUS
    <3>8. Sum(s) \in -(c * (n + 1))..(c * (n + 1))
      BY <3>5, <3>6, <3>7
    <3> QED
      BY <3>3, <3>8
  <2> QED
    BY <2>1, <2>2
<1>4. S \in Good
  <2> HIDE DEF Good
  <2>1. \A s \in SUBSET S : (\A x \in s : s \ {x} \in Good) => s \in Good
    BY <1>3
  <2>2. \A s \in SUBSET S : s \in Good
    BY <2>1, FiniteInduction
  <2> QED
    BY <2>2
<1> QED
  BY <1>4 DEF Sum

(* Zeros sum up to zero.                                                   *)
LEMMA SumZero ==
  ASSUME NEW S, IsFiniteSet(S), NEW F, \A k \in S : F[k] = 0
  PROVE  SumFunctionOnSet(F, S) = 0
<1>1. SumFunctionOnSet(F, S) \in -(0 * Cardinality(S))..(0 * Cardinality(S))
  BY SumBound
<1>2. Cardinality(S) \in Nat
  BY FS_CardinalityType
<1> QED
  BY <1>1, <1>2
(* Renaming the indices.                                                   *)
LEMMA SumImage ==
  ASSUME NEW T, IsFiniteSet(T), NEW F, NEW G, NEW f,
         \A j \in T : F[f[j]] = G[j] /\ G[j] \in Int,
         \A j, k \in T : f[j] = f[k] => j = k
  PROVE  /\ IsFiniteSet({f[j] : j \in T})
         /\ SumFunctionOnSet(F, {f[j] : j \in T}) = SumFunctionOnSet(G, T)
<1> DEFINE Image(s) == {f[j] : j \in s}
           Good == {s \in SUBSET T : SumFunctionOnSet(F, Image(s)) = SumFunctionOnSet(G, s)}
<1>1. ASSUME NEW s \in SUBSET T PROVE IsFiniteSet(s) /\ IsFiniteSet(Image(s))
  <2>1. IsFiniteSet(s)
    BY FS_Subset
  <2>2. [j \in s |-> f[j]] \in Surjection(s, Image(s))
    BY DEF Surjection
  <2> QED
    BY <2>1, <2>2, FS_Surjection
<1>2. \A s \in SUBSET T : (\A x \in s : s \ {x} \in Good) => s \in Good
  <2> SUFFICES ASSUME NEW s \in SUBSET T, \A x \in s : s \ {x} \in Good
               PROVE  SumFunctionOnSet(F, Image(s)) = SumFunctionOnSet(G, s)
    OBVIOUS
  <2>1. CASE s = {}
    <3>1. Image(s) = {}
      BY <2>1
    <3> QED
      BY <2>1, <3>1, SumEmpty
  <2>2. ASSUME NEW x \in s PROVE SumFunctionOnSet(F, Image(s)) = SumFunctionOnSet(G, s)
    <3>1. SumFunctionOnSet(F, Image(s \ {x})) = SumFunctionOnSet(G, s \ {x})
      OBVIOUS
    <3>2. Image(s \ {x}) = Image(s) \ {f[x]}
      <4>1. \A j \in s : f[j] = f[x] => j = x
        OBVIOUS
      <4> QED
        BY <4>1
    <3>3. f[x] \in Image(s) /\ F[f[x]] = G[x] /\ \A k \in Image(s) : F[k] \in Int
      OBVIOUS
    <3>4. \A k \in s : G[k] \in Int
      OBVIOUS
    <3> HIDE DEF Image, Good
    <3>5. SumFunctionOnSet(F, Image(s)) = F[f[x]] + SumFunctionOnSet(F, Image(s) \ {f[x]})
      BY <1>1, <3>3, SumTakes
    <3>6. SumFunctionOnSet(G, s) = G[x] + SumFunctionOnSet(G, s \ {x})
      BY <1>1, <3>4, SumTakes
    <3> QED
      BY <3>1, <3>2, <3>3, <3>5, <3>6
  <2> QED
    BY <2>1, <2>2
<1> HIDE DEF Good
<1>3. \A s \in SUBSET T : s \in Good
  BY <1>2, FiniteInduction
<1>4. T \in Good
  BY <1>3
<1> QED
  BY <1>1, <1>4 DEF Good

(* Adding up group by group.                                               *)
LEMMA SumFibres ==
  ASSUME NEW A, IsFiniteSet(A), NEW S, IsFiniteSet(S), NEW F, NEW g,
         \A k \in S : F[k] \in Int /\ g[k] \in A
  PROVE  SumFunctionOnSet([a \in A |-> SumFunctionOnSet(F, {k \in S : g[k] = a})], A)
           = SumFunctionOnSet(F, S)
<1> DEFINE Group(s, a) == {k \in s : g[k] = a}
           Groups(s) == [a \in A |-> SumFunctionOnSet(F, Group(s, a))]
           Good == {s \in SUBSET S : SumFunctionOnSet(Groups(s), A) = SumFunctionOnSet(F, s)}
<1>1. ASSUME NEW s \in SUBSET S
      PROVE  /\ IsFiniteSet(s) /\ SumFunctionOnSet(F, s) \in Int
             /\ \A a \in A : Groups(s)[a] \in Int /\ IsFiniteSet(Group(s, a))
  <2>1. IsFiniteSet(s) /\ \A k \in s : F[k] \in Int
    BY FS_Subset
  <2>2. ASSUME NEW a \in A PROVE Groups(s)[a] \in Int /\ IsFiniteSet(Group(s, a))
    <3>1. IsFiniteSet(Group(s, a)) /\ \A k \in Group(s, a) : F[k] \in Int
      BY <2>1, FS_Subset
    <3>2. SumFunctionOnSet(F, Group(s, a)) \in Int
      BY <3>1, SumTakes
    <3> QED
      BY <3>1, <3>2
  <2>3. SumFunctionOnSet(F, s) \in Int
    BY <2>1, SumTakes
  <2> QED
    BY <2>1, <2>2, <2>3
<1>2. \A s \in SUBSET S : (\A x \in s : s \ {x} \in Good) => s \in Good
  <2> SUFFICES ASSUME NEW s \in SUBSET S, \A x \in s : s \ {x} \in Good
               PROVE  SumFunctionOnSet(Groups(s), A) = SumFunctionOnSet(F, s)
    OBVIOUS
  <2>1. CASE s = {}
    <3>1. \A a \in A : Group(s, a) = {}
      BY <2>1
    <3>2. \A a \in A : Groups(s)[a] = 0
      BY <3>1, SumEmpty
    <3>3. SumFunctionOnSet(Groups(s), A) = 0
      BY <3>2, SumZero
    <3> QED
      BY <2>1, <3>3, SumEmpty
  <2>2. ASSUME NEW x \in s PROVE SumFunctionOnSet(Groups(s), A) = SumFunctionOnSet(F, s)
    <3> DEFINE r == s \ {x}
    <3>1. r \in SUBSET S /\ g[x] \in A /\ F[x] \in Int /\ x \in Group(s, g[x])
      OBVIOUS
    <3>2. SumFunctionOnSet(Groups(r), A) = SumFunctionOnSet(F, r)
      OBVIOUS
    <3>3. SumFunctionOnSet(F, s) = F[x] + SumFunctionOnSet(F, r)
      <4>1. \A k \in s : F[k] \in Int
        OBVIOUS
      <4> QED
        BY <1>1, <4>1, SumTakes
    <3>4. Groups(s)[g[x]] = F[x] + Groups(r)[g[x]]
      <4>1. Group(r, g[x]) = Group(s, g[x]) \ {x}
        OBVIOUS
      <4>2. \A k \in Group(s, g[x]) : F[k] \in Int
        OBVIOUS
      <4>3. IsFiniteSet(Group(s, g[x]))
        BY <1>1, <3>1
      <4> HIDE DEF Group
      <4>4. SumFunctionOnSet(F, Group(s, g[x]))
              = F[x] + SumFunctionOnSet(F, Group(s, g[x]) \ {x})
        BY <3>1, <4>2, <4>3, SumTakes
      <4> QED
        BY <3>1, <4>1, <4>4
    <3>5. \A a \in A \ {g[x]} : Groups(s)[a] = Groups(r)[a]
      <4> TAKE a \in A \ {g[x]}
      <4>1. Group(s, a) = Group(r, a)
        OBVIOUS
      <4> QED
        BY <4>1
    <3>6. \A a \in A : Groups(s)[a] \in Int /\ Groups(r)[a] \in Int
      BY <1>1, <3>1
    <3>7. SumFunctionOnSet(F, r) \in Int
      BY <1>1, <3>1
    <3> DEFINE P == Groups(r)
               Q == Groups(s)
    <3>8. SumFunctionOnSet(P, A) = SumFunctionOnSet(F, r)
      BY <3>2
    <3>9. /\ \A a \in A : P[a] \in Int /\ Q[a] \in Int
          /\ \A a \in A \ {g[x]} : P[a] = Q[a]
          /\ Q[g[x]] = F[x] + P[g[x]] /\ g[x] \in A
      BY <3>1, <3>4, <3>5, <3>6
    <3> HIDE DEF P, Q, r
    <3>10. SumFunctionOnSet(Q, A) = SumFunctionOnSet(P, A) + (Q[g[x]] - P[g[x]])
      BY <3>9, SumChanges
    <3>11. SumFunctionOnSet(Q, A) = SumFunctionOnSet(F, s)
      BY <3>1, <3>3, <3>7, <3>8, <3>9, <3>10
    <3> QED
      BY <3>11 DEF Q
  <2> QED
    BY <2>1, <2>2
<1> HIDE DEF Good
<1>3. \A s \in SUBSET S : s \in Good
  BY <1>2, FiniteInduction
<1>4. S \in Good
  BY <1>3
<1> QED
  BY <1>4 DEF Good

-----------------------------------------------------------------------------
(***************************************************************************)
(* Votes: the karma ledger, the tallies and the polls (castVote, castBallot).*)
(* The counters are sums over committed rows, and a vote writes a row and its*)
(* counters in statements of one transaction: the invariant says how far each*)
(* transaction has come and which rows it holds.                           *)
(***************************************************************************)

(* A step of t on a row; c tells whether t commits.                        *)
RowStep(row, new, t, c) ==
  \/ new = row
  \/ Free(row, t) /\ \E v : new = Put(row, t, v)
  \/ c = "commit" /\ new = Published(row, t)
  \/ new = Restored(row, t)

(* A table whose rows all move by such steps keeps its keys.               *)
TableStep(old, new, t, c) ==
  DOMAIN new = DOMAIN old /\ \A k \in DOMAIN old : RowStep(old[k], new[k], t, c)

(* What such a step leaves alone: rows of other transactions and, unless t *)
(* commits, what is committed.                                             *)
LEMMA RowOthers ==
  ASSUME NEW row, NEW new, NEW t \in Tx, NEW c, RowStep(row, new, t, c)
  PROVE  /\ \A s \in Tx \ {t} : /\ new.holder = s <=> row.holder = s
                                /\ row.holder = s => new = row
         /\ \/ new.committed = row.committed
            \/ c = "commit" /\ row.holder = t /\ new.holder = NoTx /\ new.committed = row.written
<1>1. CASE new = row
  BY <1>1
<1>2. ASSUME Free(row, t), NEW v, new = Put(row, t, v)
      PROVE  /\ \A s \in Tx \ {t} : new.holder # s /\ row.holder # s
             /\ new.committed = row.committed
  BY <1>2, NoTxAssumption DEF Free, Put
<1>3. CASE c = "commit" /\ new = Published(row, t)
  BY <1>3, NoTxAssumption DEF Published, Stored
<1>4. CASE new = Restored(row, t)
  BY <1>4, NoTxAssumption DEF Restored, Stored
<1> QED
  BY <1>1, <1>2, <1>3, <1>4 DEF RowStep

(* The end of a transaction, a write and no write at all are such steps.   *)
LEMMA TableEnds ==
  ASSUME NEW old, NEW t \in Tx
  PROVE  /\ TableStep(old, PublishedAll(old, t), t, "commit")
         /\ TableStep(old, RestoredAll(old, t), t, "runs")
  BY DEF TableStep, PublishedAll, RestoredAll, RowStep

(* A write is such a step                                                  *)
LEMMA TablePut ==
  ASSUME NEW old, NEW t \in Tx, NEW k \in DOMAIN old, Free(old[k], t), NEW v
  PROVE  TableStep(old, [old EXCEPT ![k] = Put(old[k], t, v)], t, "runs")
  BY DEF TableStep, RowStep

(* ... and so is leaving the table alone.                                  *)
LEMMA TableSame ==
  ASSUME NEW old, NEW t \in Tx PROVE TableStep(old, old, t, "runs")
  BY DEF TableStep, RowStep

(* Where a vote may be.                                                    *)
AtVote == {"vote.row", "vote.tally", "vote.ledger", "vote.karma", "commit"}
(* The keys of the karma ledger.                                           *)
Keys == Users \X Authors \X Days

(* What a transaction knows of itself.                                     *)
TxOwn(t) ==
  LET r == tx[t]
  IN /\ r.item \in Items <=> r.pc \in AtVote /\ r.option = Nothing
     /\ r.option \in Options <=> r.pc \in {"poll.count", "commit"} /\ r.item = Nothing
     /\ r.pc # "idle" => r.user \in Users
     /\ r.pc = "idle" => r = Idle
     /\ r.day <= clock

(* No transaction loses track of itself.                                   *)
TxInv == \A t \in Tx : TxOwn(t)

(* The rows a transaction has written and not ended, by where it is.       *)
HeldBy(t) ==
  LET r == tx[t]
  IN /\ \A u \in Users, i \in Items :
          votes[<<u, i>>].holder = t => r.user = u /\ r.item = i /\ r.pc # "vote.row"
     /\ \A i \in Items :
          tally[i].holder = t => r.item = i /\ r.pc \in {"vote.ledger", "vote.karma", "commit"}
     /\ \A k \in Keys :
          ledger[k].holder = t => /\ r.item \in Items /\ k = <<r.user, Author[r.item], r.day>>
                                  /\ r.pc \in {"vote.karma", "commit"}
     /\ \A a \in Authors :
          karma[a].holder = t => r.item \in Items /\ Author[r.item] = a /\ r.pc = "commit"
     /\ \A u \in Users : ballots[u].holder = t => r.option \in Options /\ r.user = u
     /\ \A o \in Options : counts[o].holder = t => r.option = o /\ r.pc = "commit"

(* That of every transaction.                                              *)
HeldInv == \A t \in Tx : HeldBy(t)

(* Types and what transactions know of themselves.                         *)
Types == TypeOK /\ TxInv

(* The statements of a vote that are still to come.                        *)
AtStatement == {"vote.row", "vote.tally", "vote.ledger", "vote.karma"}

(* The fields of a transaction at work.                                    *)
LEMMA OwnTypes ==
  ASSUME Types, NEW t \in Tx
  PROVE  /\ tx[t].pc \in AtStatement => tx[t].item \in Items /\ tx[t].option = Nothing
         /\ tx[t].pc = "poll.count" => tx[t].option \in Options /\ tx[t].item = Nothing
         /\ tx[t].pc = "commit" => \/ tx[t].item \in Items /\ tx[t].option = Nothing
                                   \/ tx[t].option \in Options /\ tx[t].item = Nothing
         /\ tx[t].item \in Items =>
              /\ tx[t].user \in Users /\ <<tx[t].user, tx[t].item>> \in Users \X Items
              /\ Author[tx[t].item] \in Authors
              /\ <<tx[t].user, Author[tx[t].item], tx[t].day>> \in Keys
              /\ tx[t].pc # "idle" /\ tx[t].option = Nothing
         /\ tx[t].option \in Options => tx[t].user \in Users /\ tx[t].pc # "idle"
<1> DEFINE r == tx[t]
<1>1. /\ r.item \in Items \cup {Nothing} /\ r.option \in Options \cup {Nothing}
      /\ r.day \in Days /\ TxOwn(t) /\ r.pc \in Statements \cup {"idle"}
  BY DEF Types, TypeOK, TxInv, Transaction
<1>2. Nothing \notin Items /\ Nothing \notin Options /\ \A i \in Items : Author[i] \in Authors
  BY NothingAssumption DEF Authors
<1>3. /\ r.item \in Items <=> r.pc \in AtVote /\ r.option = Nothing
      /\ r.option \in Options <=> r.pc \in {"poll.count", "commit"} /\ r.item = Nothing
      /\ r.pc # "idle" => r.user \in Users
  BY <1>1 DEF TxOwn
<1>4. r.pc \in AtStatement => r.item \in Items /\ r.option = Nothing
  <2>1. r.pc \in AtStatement => r.pc \in AtVote /\ r.pc \notin {"poll.count", "commit"}
    BY DEF AtStatement, AtVote
  <2> QED
    BY <1>1, <1>3, <2>1
<1>5. r.pc = "poll.count" => r.option \in Options /\ r.item = Nothing
  BY <1>1, <1>2, <1>3 DEF AtVote
<1>6. r.pc = "commit" => \/ r.item \in Items /\ r.option = Nothing
                         \/ r.option \in Options /\ r.item = Nothing
  BY <1>1, <1>2, <1>3 DEF AtVote
<1>7. r.item \in Items => r.pc # "idle" /\ r.option = Nothing /\ r.user \in Users
  BY <1>3 DEF AtVote
<1>8. r.item \in Items => /\ Author[r.item] \in Authors
                         /\ <<r.user, r.item>> \in Users \X Items
                         /\ <<r.user, Author[r.item], r.day>> \in Keys
  BY <1>1, <1>2, <1>7 DEF Keys
<1>9. r.option \in Options => r.pc # "idle" /\ r.user \in Users
  BY <1>3
<1> QED
  BY <1>4, <1>5, <1>6, <1>7, <1>8, <1>9

(* Every table moves by such steps, and t touches its own state only.      *)
TablesStep(t, c) ==
  /\ TableStep(votes, votes', t, c) /\ TableStep(tally, tally', t, c)
  /\ TableStep(ledger, ledger', t, c) /\ TableStep(karma, karma', t, c)
  /\ TableStep(ballots, ballots', t, c) /\ TableStep(counts, counts', t, c)

(* A step of a vote is a statement or the end of its transaction, and      *)
(* disturbs the tables by row steps of its own.                            *)
LEMMA RunMoves ==
  ASSUME Types, NEW t \in Tx, Run(t)
  PROVE  /\ TablesStep(t, "runs") \/ (Commit(t) /\ TablesStep(t, "commit"))
         /\ \A s \in Tx \ {t} : tx'[s] = tx[s]
         /\ tx' = [s \in Tx |-> tx'[s]] /\ clock' = clock /\ raced \subseteq raced'
<1> DEFINE Goal == TablesStep(t, "runs")
           Mine == /\ \A s \in Tx \ {t} : tx'[s] = tx[s]
                   /\ tx' = [s \in Tx |-> tx'[s]] /\ clock' = clock /\ raced \subseteq raced'
           r == tx[t]
<1>0. DOMAIN tx = Tx /\ TxOwn(t)
  BY DEF Types, TypeOK, TxInv
<1>1. CASE Vote_Read(t)
  <2>1. UNCHANGED <<votes, tally, ledger, karma, ballots, counts, clock>>
    BY <1>1 DEF Vote_Read
  <2>2. Goal
    BY <2>1, TableSame DEF TablesStep
  <2>3. Mine
    BY <1>0, <1>1 DEF Vote_Read
  <2> QED
    BY <2>2, <2>3
<1>2. CASE Rollback(t)
  <2>1. Goal
    BY <1>2, TableEnds DEF Rollback, TablesStep
  <2>2. Mine
    BY <1>0, <1>2 DEF Rollback, Return
  <2> QED
    BY <2>1, <2>2
<1>3. CASE Commit(t)
  <2>1. TablesStep(t, "commit")
    BY <1>3, TableEnds DEF Commit, TablesStep
  <2>2. Mine
    BY <1>0, <1>3 DEF Commit, Return
  <2> QED
    BY <1>3, <2>1, <2>2
<1>4. CASE Vote_Row(t) /\ ~Rollback(t)
  <2>1. Mine /\ UNCHANGED <<tally, ledger, karma, ballots, counts>>
    BY <1>0, <1>4 DEF Vote_Row, Goto
  <2>2. <<r.user, r.item>> \in DOMAIN votes
    BY <1>4, OwnTypes DEF Vote_Row, AtStatement, Types, TypeOK
  <2>3. TableStep(votes, votes', t, "runs")
    <3>1. PICK k \in DOMAIN votes : k = <<r.user, r.item>>
      BY <2>2
    <3>2. \/ votes' = votes
          \/ Free(votes[k], t) /\ votes' = [votes EXCEPT ![k] = Put(votes[k], t, r.value)]
      BY <1>4, <3>1 DEF Vote_Row
    <3> QED
      BY <3>2, TableSame, TablePut
  <2>9. Goal
    BY <2>1, <2>3, TableSame DEF TablesStep
  <2> QED
    BY <2>1, <2>9
<1>5. CASE Vote_Tally(t)
  <2>1. Mine /\ UNCHANGED <<votes, ledger, karma, ballots, counts>>
    BY <1>0, <1>5 DEF Vote_Tally, Goto
  <2>2. r.item \in DOMAIN tally
    BY <1>5, OwnTypes DEF Vote_Tally, AtStatement, Types, TypeOK
  <2>3. TableStep(tally, tally', t, "runs")
    BY <1>5, <2>2, TablePut DEF Vote_Tally
  <2>9. Goal
    BY <2>1, <2>3, TableSame DEF TablesStep
  <2> QED
    BY <2>1, <2>9
<1>6. CASE Vote_Ledger(t)
  <2>1. Mine /\ UNCHANGED <<votes, tally, karma, ballots, counts>>
    BY <1>0, <1>6 DEF Vote_Ledger
  <2>2. <<r.user, Author[r.item], r.day>> \in DOMAIN ledger
    BY <1>6, OwnTypes DEF Vote_Ledger, AtStatement, Types, TypeOK, Keys
  <2>3. PICK k \in DOMAIN ledger : k = <<r.user, Author[r.item], r.day>>
    BY <2>2
  <2>4. PICK v : Free(ledger[k], t) /\ ledger' = [ledger EXCEPT ![k] = Put(ledger[k], t, v)]
    BY <1>6, <2>3 DEF Vote_Ledger
  <2>5. TableStep(ledger, ledger', t, "runs")
    BY <2>4, TablePut
  <2>9. Goal
    BY <2>1, <2>5, TableSame DEF TablesStep
  <2> QED
    BY <2>1, <2>9
<1>7. CASE Vote_Karma(t)
  <2>1. Mine /\ UNCHANGED <<votes, tally, ledger, ballots, counts>>
    BY <1>0, <1>7 DEF Vote_Karma, Goto
  <2>2. Author[r.item] \in DOMAIN karma
    BY <1>7, OwnTypes DEF Vote_Karma, AtStatement, Types, TypeOK
  <2>3. TableStep(karma, karma', t, "runs")
    BY <1>7, <2>2, TablePut DEF Vote_Karma
  <2>9. Goal
    BY <2>1, <2>3, TableSame DEF TablesStep
  <2> QED
    BY <2>1, <2>9
<1>8. CASE Poll_Ballot(t)
  <2>1. Mine /\ UNCHANGED <<votes, tally, ledger, karma, counts>>
    BY <1>0, <1>8 DEF Poll_Ballot
  <2>2. PICK u \in Electors, o \in Options :
          Free(ballots[u], t) /\ ballots' = [ballots EXCEPT ![u] = Put(@, t, o)]
    BY <1>8 DEF Poll_Ballot
  <2>3. u \in DOMAIN ballots
    BY <2>2, GatesAssumption DEF Types, TypeOK
  <2>4. TableStep(ballots, ballots', t, "runs")
    BY <2>2, <2>3, TablePut
  <2>9. Goal
    BY <2>1, <2>4, TableSame DEF TablesStep
  <2> QED
    BY <2>1, <2>9
<1>9. CASE Poll_Count(t)
  <2>1. Mine /\ UNCHANGED <<votes, tally, ledger, karma, ballots>>
    BY <1>0, <1>9 DEF Poll_Count, Goto
  <2>2. r.option \in DOMAIN counts
    BY <1>9, OwnTypes DEF Poll_Count, Types, TypeOK
  <2>3. TableStep(counts, counts', t, "runs")
    BY <1>9, <2>2, TablePut DEF Poll_Count
  <2>9. Goal
    BY <2>1, <2>3, TableSame DEF TablesStep
  <2> QED
    BY <2>1, <2>9
<1> QED
  BY <1>1, <1>2, <1>3, <1>4, <1>5, <1>6, <1>7, <1>8, <1>9 DEF Run, Abort

(* Rows keep their types when a transaction ends, when they are written    *)
LEMMA EndsTyped ==
  ASSUME NEW D, NEW V, NEW old \in [D -> RowsOf(V)], NEW t \in Tx
  PROVE  PublishedAll(old, t) \in [D -> RowsOf(V)] /\ RestoredAll(old, t) \in [D -> RowsOf(V)]
<1>1. \A k \in D : Published(old[k], t) \in RowsOf(V) /\ Restored(old[k], t) \in RowsOf(V)
  BY EndTyped
<1> QED
  BY <1>1 DEF PublishedAll, RestoredAll

(* ... and when they are read.                                             *)
LEMMA PutsTyped ==
  ASSUME NEW D, NEW V, NEW old \in [D -> RowsOf(V)], NEW t \in Tx, NEW k \in D, NEW v \in V
  PROVE  [old EXCEPT ![k] = Put(old[k], t, v)] \in [D -> RowsOf(V)]
<1>1. Put(old[k], t, v) \in RowsOf(V)
  BY PutTyped
<1> QED
  BY <1>1

(* Reads are typed.                                                        *)
LEMMA ViewTyped ==
  ASSUME NEW V, NEW row \in RowsOf(V), NEW t PROVE View(row, t) \in V
  BY DEF View, RowsOf

(* The tables at the start.                                                *)
LEMMA InitTypes == Init => TypeOK /\ TxInv
<1> SUFFICES ASSUME Init PROVE TypeOK /\ TxInv
  OBVIOUS
<1> USE DEF Init
<1>1. /\ 0 \in Values /\ 0 \in -Cap..Cap /\ 0 \in Nat
      /\ [up |-> 0, down |-> 0] \in [up : Int, down : Int]
      /\ [own |-> 0, public |-> 0] \in [own : Int, public : Int]
      /\ Nothing \in Options \cup {Nothing} /\ 0 \in Days
  BY CapAssumption DEF Values, Days
<1>2. votes \in [Users \X Items -> RowsOf(Values)]
  BY <1>1, StoredTyped
<1>3. tally \in [Items -> RowsOf([up : Int, down : Int])]
  BY <1>1, StoredTyped
<1>4. ledger \in [Users \X Authors \X Days -> RowsOf(-Cap..Cap)]
  BY <1>1, StoredTyped
<1>5. karma \in [Authors -> RowsOf([own : Int, public : Int])]
  BY <1>1, StoredTyped
<1>6. ballots \in [Users -> RowsOf(Options \cup {Nothing})]
  BY <1>1, StoredTyped
<1>7. counts \in [Options -> RowsOf(Nat)]
  BY <1>1, StoredTyped
<1>8. Idle \in Transaction
  BY <1>1 DEF Idle, Transaction
<1>9. TxInv
  <2> SUFFICES ASSUME NEW t \in Tx PROVE TxOwn(t)
    BY DEF TxInv
  <2>1. tx[t] = Idle /\ Nothing \notin Items /\ Nothing \notin Options /\ clock = 0
    BY NothingAssumption
  <2> QED
    BY <2>1 DEF TxOwn, Idle, AtVote
<1> QED
  BY <1>1, <1>2, <1>3, <1>4, <1>5, <1>6, <1>7, <1>8, <1>9 DEF TypeOK

(* A transaction goes from one statement to the next.                      *)
LEMMA OwnStep ==
  ASSUME Types, NEW t \in Tx, Run(t)
  PROVE  /\ tx'[t] \in Transaction
         /\ TxOwn(t)'
<1> DEFINE r == tx[t]
           Goal == tx'[t] \in Transaction /\ TxOwn(t)'
<1>1. /\ r \in Transaction /\ TxOwn(t) /\ clock \in Days /\ DOMAIN tx = Tx /\ clock' = clock
  BY RunMoves DEF Types, TypeOK, TxInv
<1>2. Nothing \notin Items /\ Nothing \notin Options
  BY NothingAssumption
<1>3. ASSUME tx'[t] = Idle PROVE Goal
  <2>1. Idle \in Transaction
    BY CapAssumption DEF Idle, Transaction, Values, Days
  <2>2. Idle.day <= clock'
    BY <1>1 DEF Idle, Days
  <2> QED
    BY <1>2, <1>3, <2>1, <2>2 DEF TxOwn, Idle, AtVote
<1>4. CASE Rollback(t) \/ Commit(t)
  BY <1>1, <1>3, <1>4 DEF Rollback, Commit, Return
<1>5. ASSUME NEW pc \in Statements, NEW n \in -2..2,
             (r.pc \in AtStatement /\ pc \in AtVote) \/ (r.pc = "poll.count" /\ pc = "commit"),
             tx'[t] = [r EXCEPT !.pc = pc, !.applied = n]
      PROVE  Goal
  <2>1. tx'[t] \in Transaction
    BY <1>1, <1>5 DEF Transaction
  <2>2. /\ tx'[t].pc = pc /\ tx'[t].item = r.item /\ tx'[t].option = r.option
        /\ tx'[t].user = r.user /\ tx'[t].day = r.day
    BY <1>1, <1>5 DEF Transaction
  <2>3. r.pc # "idle" /\ pc # "idle"
    BY <1>5 DEF AtStatement, Statements
  <2>4. r.user \in Users /\ r.day <= clock'
    BY <1>1, <2>3 DEF TxOwn
  <2>5. CASE r.pc \in AtStatement /\ pc \in AtVote
    <3>1. r.item \in Items /\ r.option = Nothing
      BY <2>5, OwnTypes
    <3> QED
      BY <1>2, <2>1, <2>2, <2>3, <2>4, <2>5, <3>1 DEF TxOwn
  <2>6. CASE r.pc = "poll.count" /\ pc = "commit"
    <3>1. r.option \in Options /\ r.item = Nothing
      BY <2>6, OwnTypes
    <3> QED
      BY <1>2, <2>1, <2>2, <2>3, <2>4, <2>6, <3>1 DEF TxOwn
  <2> QED
    BY <1>5, <2>5, <2>6
<1>6. ASSUME NEW pc \in Statements, Goto(t, pc),
             (r.pc \in AtStatement /\ pc \in AtVote) \/ (r.pc = "poll.count" /\ pc = "commit")
      PROVE  Goal
  <2>1. r.applied \in -2..2 /\ tx'[t] = [r EXCEPT !.pc = pc, !.applied = r.applied]
    BY <1>1, <1>6 DEF Goto, Transaction
  <2> QED
    BY <1>5, <1>6, <2>1
<1>7. CASE Vote_Read(t)
  <2>1. PICK u \in Users, i \in Items, v \in Values :
          tx' = [tx EXCEPT ![t] = [Idle EXCEPT !.pc = "vote.row", !.user = u, !.item = i,
                       !.value = v, !.seen = votes[<<u, i>>].committed, !.day = clock]]
    BY <1>7 DEF Vote_Read
  <2>2. PICK w \in Values : w = votes[<<u, i>>].committed
    <3>1. votes[<<u, i>>] \in RowsOf(Values)
      BY DEF Types, TypeOK
    <3> QED
      BY <3>1 DEF RowsOf
  <2>3. tx'[t] = [pc |-> "vote.row", user |-> u, item |-> i, value |-> v, seen |-> w,
                  applied |-> 0, option |-> Nothing, day |-> clock]
    BY <1>1, <2>1, <2>2 DEF Idle
  <2>4. tx'[t] \in Transaction
    BY <1>1, <2>3 DEF Transaction, Statements
  <2>5. clock <= clock'
    BY <1>1 DEF Days
  <2> QED
    BY <1>2, <2>3, <2>4, <2>5 DEF TxOwn, AtVote
<1>8. CASE Poll_Ballot(t)
  <2>1. PICK u \in Electors, o \in Options :
          tx' = [tx EXCEPT ![t] = [Idle EXCEPT !.pc = "poll.count", !.user = u,
                                               !.option = o, !.day = clock]]
    BY <1>8 DEF Poll_Ballot
  <2>2. u \in Users
    BY GatesAssumption
  <2>3. tx'[t] = [pc |-> "poll.count", user |-> u, item |-> Nothing, value |-> 0, seen |-> 0,
                  applied |-> 0, option |-> o, day |-> clock]
    BY <1>1, <2>1 DEF Idle
  <2>4. tx'[t] \in Transaction
    BY <1>1, <2>2, <2>3 DEF Transaction, Statements, Values
  <2>5. clock <= clock'
    BY <1>1 DEF Days
  <2> QED
    BY <1>2, <2>2, <2>3, <2>4, <2>5 DEF TxOwn, AtVote
<1>9. CASE Vote_Row(t) /\ ~Rollback(t)
  BY <1>6, <1>9 DEF Vote_Row, AtStatement, AtVote, Statements
<1>10. CASE Vote_Tally(t)
  BY <1>6, <1>10 DEF Vote_Tally, AtStatement, AtVote, Statements
<1>11. CASE Vote_Ledger(t)
  <2> DEFINE k == <<r.user, Author[r.item], r.day>>
             n == Applied(View(ledger[k], t), r.value - r.seen)
  <2>1. r.pc = "vote.ledger"
    BY <1>11 DEF Vote_Ledger
  <2>2. View(ledger[k], t) \in -Cap..Cap /\ r.value \in Values /\ r.seen \in Values
    <3>1. k \in Keys
      BY <2>1, OwnTypes DEF AtStatement
    <3>2. ledger[k] \in RowsOf(-Cap..Cap)
      BY <3>1 DEF Keys, Types, TypeOK
    <3> QED
      BY <1>1, <3>2, ViewTyped DEF Transaction
  <2>3. n \in -2..2
    BY <2>2, CapAssumption DEF Applied, Clamped, Values
  <2>4. PICK pc \in {"commit", "vote.karma"} : tx' = [tx EXCEPT ![t].pc = pc, ![t].applied = n]
    <3>1. tx' = [tx EXCEPT ![t].pc = IF n = 0 THEN "commit" ELSE "vote.karma",
                           ![t].applied = n]
      BY <1>11 DEF Vote_Ledger
    <3> QED
      BY <3>1
  <2>5. tx'[t] = [r EXCEPT !.pc = pc, !.applied = n]
    BY <1>1, <2>4
  <2> QED
    BY <1>5, <2>1, <2>3, <2>5 DEF AtStatement, AtVote, Statements
<1>12. CASE Vote_Karma(t)
  BY <1>6, <1>12 DEF Vote_Karma, AtStatement, AtVote, Statements
<1>13. CASE Poll_Count(t)
  BY <1>6, <1>13 DEF Poll_Count, AtStatement, AtVote, Statements
<1> QED
  BY <1>4, <1>7, <1>8, <1>9, <1>10, <1>11, <1>12, <1>13 DEF Run, Abort

(* What a row of tally and a row of karma hold.                            *)
Tallies == [up : Int, down : Int]
Totals == [own : Int, public : Int]

(* The types of the tables.                                                *)
Tables ==
  /\ votes \in [Users \X Items -> RowsOf(Values)]
  /\ tally \in [Items -> RowsOf(Tallies)]
  /\ ledger \in [Users \X Authors \X Days -> RowsOf(-Cap..Cap)]
  /\ karma \in [Authors -> RowsOf(Totals)]
  /\ ballots \in [Users -> RowsOf(Options \cup {Nothing})]
  /\ counts \in [Options -> RowsOf(Nat)]

(* What a statement computes is of the type of the column                  *)
LEMMA MovedTyped ==
  ASSUME NEW n \in Tallies, NEW previous, NEW next
  PROVE  Moved(n, previous, next) \in Tallies
<1>1. n.up \in Int /\ n.down \in Int
  BY DEF Tallies
<1>2. /\ One(next = 1) \in Int /\ One(previous = 1) \in Int
      /\ One(next = -1) \in Int /\ One(previous = -1) \in Int
  BY DEF One
<1>3. n.up + One(next = 1) - One(previous = 1) \in Int
  BY <1>1, <1>2
<1>4. n.down + One(next = -1) - One(previous = -1) \in Int
  BY <1>1, <1>2
<1> QED
  BY <1>3, <1>4 DEF Moved, Tallies

(* ... of the tally and of the karma.                                      *)
LEMMA EarnedTyped ==
  ASSUME NEW k \in Totals, NEW i, NEW n \in Int PROVE Earned(k, i, n) \in Totals
<1>1. k.own + n \in Int /\ k.public \in Int /\ k.public + n \in Int
  BY DEF Totals
<1> QED
  BY <1>1 DEF Earned, Totals

(* Each statement writes values of the type of its table.                  *)
LEMMA TablesKept ==
  ASSUME Types, NEW t \in Tx, Run(t)
  PROVE  Tables'
<1> DEFINE r == tx[t]
<1>0. Tables /\ r \in Transaction /\ Types
  BY DEF Types, TypeOK, Tables, Tallies, Totals
<1>1. CASE UNCHANGED <<votes, tally, ledger, karma, ballots, counts>>
  BY <1>0, <1>1 DEF Tables
<1>2. CASE Rollback(t) \/ Commit(t)
  <2>1. ASSUME NEW D, NEW V, NEW old \in [D -> RowsOf(V)], NEW new,
               new = RestoredAll(old, t) \/ new = PublishedAll(old, t)
        PROVE  new \in [D -> RowsOf(V)]
    BY <2>1, EndsTyped
  <2>2. /\ votes' = RestoredAll(votes, t) \/ votes' = PublishedAll(votes, t)
        /\ tally' = RestoredAll(tally, t) \/ tally' = PublishedAll(tally, t)
        /\ ledger' = RestoredAll(ledger, t) \/ ledger' = PublishedAll(ledger, t)
        /\ karma' = RestoredAll(karma, t) \/ karma' = PublishedAll(karma, t)
        /\ ballots' = RestoredAll(ballots, t) \/ ballots' = PublishedAll(ballots, t)
        /\ counts' = RestoredAll(counts, t) \/ counts' = PublishedAll(counts, t)
    BY <1>2 DEF Rollback, Commit
  <2>3. votes' \in [Users \X Items -> RowsOf(Values)]
    BY <1>0, <2>1, <2>2 DEF Tables
  <2>4. tally' \in [Items -> RowsOf(Tallies)]
    BY <1>0, <2>1, <2>2 DEF Tables
  <2>5. ledger' \in [Users \X Authors \X Days -> RowsOf(-Cap..Cap)]
    BY <1>0, <2>1, <2>2 DEF Tables
  <2>6. karma' \in [Authors -> RowsOf(Totals)]
    BY <1>0, <2>1, <2>2 DEF Tables
  <2>7. ballots' \in [Users -> RowsOf(Options \cup {Nothing})]
    BY <1>0, <2>1, <2>2 DEF Tables
  <2>8. counts' \in [Options -> RowsOf(Nat)]
    BY <1>0, <2>1, <2>2 DEF Tables
  <2> QED
    BY <2>3, <2>4, <2>5, <2>6, <2>7, <2>8 DEF Tables
<1>3. CASE Vote_Row(t) /\ ~Rollback(t) /\ votes' # votes
  <2>1. r.pc = "vote.row" /\ UNCHANGED <<tally, ledger, karma, ballots, counts>>
    BY <1>3 DEF Vote_Row
  <2>2. PICK k \in Users \X Items : k = <<r.user, r.item>>
    BY <2>1, OwnTypes DEF AtStatement
  <2>3. votes' = [votes EXCEPT ![k] = Put(votes[k], t, r.value)]
    BY <1>3, <2>2 DEF Vote_Row
  <2>4. r.value \in Values
    BY <1>0 DEF Transaction
  <2>9. votes \in [Users \X Items -> RowsOf(Values)]
    BY <1>0 DEF Tables
  <2>10. votes' \in [Users \X Items -> RowsOf(Values)]
    BY <2>9, <2>3, <2>4, PutsTyped
  <2> QED
    BY <1>0, <2>1, <2>10 DEF Tables
<1>4. CASE Vote_Tally(t)
  <2>1. r.pc = "vote.tally" /\ UNCHANGED <<votes, ledger, karma, ballots, counts>>
    BY <1>4 DEF Vote_Tally
  <2>2. PICK i \in Items : i = r.item
    BY <2>1, OwnTypes DEF AtStatement
  <2>3. View(tally[i], t) \in Tallies
    BY <1>0, ViewTyped DEF Tables
  <2>4. PICK n \in Tallies : n = Moved(View(tally[i], t), r.seen, r.value)
    BY <2>3, MovedTyped
  <2>5. tally' = [tally EXCEPT ![i] = Put(tally[i], t, n)]
    BY <1>4, <2>2, <2>4 DEF Vote_Tally
  <2>9. tally \in [Items -> RowsOf(Tallies)]
    BY <1>0 DEF Tables
  <2>10. tally' \in [Items -> RowsOf(Tallies)]
    BY <2>9, <2>4, <2>5, PutsTyped
  <2> QED
    BY <1>0, <2>1, <2>10 DEF Tables
<1>5. CASE Vote_Ledger(t)
  <2>1. r.pc = "vote.ledger" /\ UNCHANGED <<votes, tally, karma, ballots, counts>>
    BY <1>5 DEF Vote_Ledger
  <2>2. PICK k \in Users \X Authors \X Days : k = <<r.user, Author[r.item], r.day>>
    BY <2>1, OwnTypes DEF AtStatement, Keys
  <2> DEFINE n == View(ledger[k], t)
             v == n + Applied(n, r.value - r.seen)
  <2>3. n \in -Cap..Cap /\ r.value - r.seen \in Int
    <3>1. ledger[k] \in RowsOf(-Cap..Cap)
      BY <1>0 DEF Tables
    <3>2. r.value \in Values /\ r.seen \in Values
      BY <1>0 DEF Transaction
    <3>3. n \in -Cap..Cap
      BY <3>1, ViewTyped
    <3> QED
      BY <3>2, <3>3 DEF Values
  <2>4. v \in -Cap..Cap
    BY <2>3, CapAssumption DEF Applied, Clamped
  <2>5. ledger' = [ledger EXCEPT ![k] = Put(ledger[k], t, v)]
    BY <1>5, <2>2 DEF Vote_Ledger
  <2> HIDE DEF v
  <2>9. ledger \in [Users \X Authors \X Days -> RowsOf(-Cap..Cap)]
    BY <1>0 DEF Tables
  <2>10. ledger' \in [Users \X Authors \X Days -> RowsOf(-Cap..Cap)]
    BY <2>9, <2>4, <2>5, PutsTyped
  <2> QED
    BY <1>0, <2>1, <2>10 DEF Tables
<1>6. CASE Vote_Karma(t)
  <2>1. r.pc = "vote.karma" /\ UNCHANGED <<votes, tally, ledger, ballots, counts>>
    BY <1>6 DEF Vote_Karma
  <2>2. PICK a \in Authors : a = Author[r.item]
    BY <2>1, OwnTypes DEF AtStatement
  <2>3. View(karma[a], t) \in Totals /\ r.applied \in Int
    <3>1. karma[a] \in RowsOf(Totals)
      BY <1>0 DEF Tables
    <3>2. r.applied \in Int
      BY <1>0 DEF Transaction
    <3> QED
      BY <3>1, <3>2, ViewTyped
  <2>4. PICK n \in Totals : n = Earned(View(karma[a], t), r.item, r.applied)
    BY <2>3, EarnedTyped
  <2>5. karma' = [karma EXCEPT ![a] = Put(karma[a], t, n)]
    BY <1>6, <2>2, <2>4 DEF Vote_Karma
  <2>9. karma \in [Authors -> RowsOf(Totals)]
    BY <1>0 DEF Tables
  <2>10. karma' \in [Authors -> RowsOf(Totals)]
    BY <2>9, <2>4, <2>5, PutsTyped
  <2> QED
    BY <1>0, <2>1, <2>10 DEF Tables
<1>7. CASE Poll_Ballot(t)
  <2>1. UNCHANGED <<votes, tally, ledger, karma, counts>>
    BY <1>7 DEF Poll_Ballot
  <2>2. PICK u \in Users, o \in Options : ballots' = [ballots EXCEPT ![u] = Put(ballots[u], t, o)]
    BY <1>7, GatesAssumption DEF Poll_Ballot
  <2>9. ballots \in [Users -> RowsOf(Options \cup {Nothing})]
    BY <1>0 DEF Tables
  <2>10. ballots' \in [Users -> RowsOf(Options \cup {Nothing})]
    BY <2>9, <2>2, PutsTyped
  <2> QED
    BY <1>0, <2>1, <2>10 DEF Tables
<1>8. CASE Poll_Count(t)
  <2>1. r.pc = "poll.count" /\ UNCHANGED <<votes, tally, ledger, karma, ballots>>
    BY <1>8 DEF Poll_Count
  <2>2. PICK o \in Options : o = r.option
    BY <2>1, OwnTypes
  <2>3. View(counts[o], t) \in Nat
    BY <1>0, ViewTyped DEF Tables
  <2>4. View(counts[o], t) + 1 \in Nat
    BY <2>3
  <2>5. counts' = [counts EXCEPT ![o] = Put(counts[o], t, View(counts[o], t) + 1)]
    BY <1>8, <2>2 DEF Poll_Count
  <2>9. counts \in [Options -> RowsOf(Nat)]
    BY <1>0 DEF Tables
  <2>10. counts' \in [Options -> RowsOf(Nat)]
    BY <2>9, <2>4, <2>5, PutsTyped
  <2> QED
    BY <1>0, <2>1, <2>10 DEF Tables
<1>9. CASE Vote_Read(t)
  BY <1>1, <1>9 DEF Vote_Read
<1>10. CASE Vote_Row(t) /\ ~Rollback(t) /\ votes' = votes
  BY <1>1, <1>10 DEF Vote_Row
<1> QED
  BY <1>2, <1>3, <1>4, <1>5, <1>6, <1>7, <1>8, <1>9, <1>10 DEF Run, Abort

(* Types are kept by every step.                                           *)
LEMMA TypesStep ==
  ASSUME Types, NEW t \in Tx, Run(t)
  PROVE  Types'
<1>1. Tables' /\ tx' = [s \in Tx |-> tx'[s]] /\ clock' = clock /\ clock \in Days
  BY TablesKept, RunMoves DEF Types, TypeOK
<1>2. \A s \in Tx : tx'[s] \in Transaction /\ TxOwn(s)'
  <2> TAKE s \in Tx
  <2>1. CASE s = t
    BY <2>1, OwnStep
  <2>2. CASE s # t
    <3>1. tx'[s] = tx[s] /\ tx[s] \in Transaction /\ TxOwn(s) /\ clock' = clock
      BY <2>2, RunMoves DEF Types, TypeOK, TxInv
    <3> QED
      BY <3>1 DEF TxOwn
  <2> QED
    BY <2>1, <2>2
<1>3. tx' \in [Tx -> Transaction]
  BY <1>1, <1>2
<1>4. raced' \in SUBSET Items
  <2>1. raced \in SUBSET Items
    BY DEF Types, TypeOK
  <2>2. CASE Vote_Read(t)
    BY <2>1, <2>2 DEF Vote_Read
  <2>3. CASE raced' = raced
    BY <2>1, <2>3
  <2> QED
    BY <2>2, <2>3 DEF Run, Vote_Row, Vote_Tally, Vote_Ledger, Vote_Karma, Poll_Ballot,
                      Poll_Count, Abort, Rollback, Commit
<1> QED
  BY <1>1, <1>2, <1>3, <1>4 DEF Types, TypeOK, TxInv, Tables, Tallies, Totals

(* What a table step of t does to a row.                                   *)
LEMMA TableOthers ==
  ASSUME NEW old, NEW new, NEW t \in Tx, NEW c, TableStep(old, new, t, c), NEW k \in DOMAIN old
  PROVE  /\ \A s \in Tx \ {t} : /\ new[k].holder = s <=> old[k].holder = s
                                /\ old[k].holder = s => new[k] = old[k]
         /\ \/ new[k].committed = old[k].committed
            \/ /\ c = "commit" /\ old[k].holder = t /\ new[k].holder = NoTx
               /\ new[k].committed = old[k].written
  BY RowOthers DEF TableStep

(* At its end a transaction holds no row                                   *)
LEMMA TableFreed ==
  ASSUME NEW old, NEW t \in Tx, NEW new,
         new = PublishedAll(old, t) \/ new = RestoredAll(old, t)
  PROVE  \A k \in DOMAIN old : new[k].holder # t
<1> SUFFICES ASSUME NEW k \in DOMAIN old PROVE new[k].holder # t
  OBVIOUS
<1>1. new[k] = Published(old[k], t) \/ new[k] = Restored(old[k], t)
  BY DEF PublishedAll, RestoredAll
<1> QED
  BY <1>1, NoTxAssumption DEF Published, Restored, Stored

(* ... and a write adds the one row it writes.                             *)
LEMMA TablePutHeld ==
  ASSUME NEW old, NEW t \in Tx, NEW k \in DOMAIN old, NEW v
  PROVE  LET new == [old EXCEPT ![k] = Put(old[k], t, v)]
         IN \A j \in DOMAIN old : new[j].holder = t => j = k \/ old[j].holder = t
  OBVIOUS

(* The keys of the tables never change.                                    *)
LEMMA Domains ==
  ASSUME Types
  PROVE  /\ DOMAIN votes = Users \X Items /\ DOMAIN tally = Items /\ DOMAIN ledger = Keys
         /\ DOMAIN karma = Authors /\ DOMAIN ballots = Users /\ DOMAIN counts = Options
  BY DEF Types, TypeOK, Keys

(* No step gives or takes a row of another transaction.                    *)
LEMMA HeldOthers ==
  ASSUME Types, HeldInv, NEW t \in Tx, Run(t), NEW s \in Tx \ {t}
  PROVE  HeldBy(s)'
<1>1. HeldBy(s) /\ tx'[s] = tx[s]
  BY RunMoves DEF HeldInv
<1>2. PICK c : TablesStep(t, c)
  BY RunMoves
<1>3. /\ \A u \in Users, i \in Items : votes'[<<u, i>>].holder = s => votes[<<u, i>>].holder = s
      /\ \A i \in Items : tally'[i].holder = s => tally[i].holder = s
      /\ \A k \in Keys : ledger'[k].holder = s => ledger[k].holder = s
      /\ \A a \in Authors : karma'[a].holder = s => karma[a].holder = s
      /\ \A u \in Users : ballots'[u].holder = s => ballots[u].holder = s
      /\ \A o \in Options : counts'[o].holder = s => counts[o].holder = s
  <2>1. \A k \in Users \X Items : votes'[k].holder = s => votes[k].holder = s
    BY <1>2, Domains, TableOthers DEF TablesStep
  <2>2. \A i \in Items : tally'[i].holder = s => tally[i].holder = s
    BY <1>2, Domains, TableOthers DEF TablesStep
  <2>3. \A k \in Keys : ledger'[k].holder = s => ledger[k].holder = s
    BY <1>2, Domains, TableOthers DEF TablesStep
  <2>4. \A a \in Authors : karma'[a].holder = s => karma[a].holder = s
    BY <1>2, Domains, TableOthers DEF TablesStep
  <2>5. \A u \in Users : ballots'[u].holder = s => ballots[u].holder = s
    BY <1>2, Domains, TableOthers DEF TablesStep
  <2>6. \A o \in Options : counts'[o].holder = s => counts[o].holder = s
    BY <1>2, Domains, TableOthers DEF TablesStep
  <2> QED
    BY <2>1, <2>2, <2>3, <2>4, <2>5, <2>6
<1> QED
  BY <1>1, <1>3 DEF HeldBy

(* A transaction's own step: the rows it holds are those of its statements.*)
LEMMA HeldOwn ==
  ASSUME Types, HeldInv, NEW t \in Tx, Run(t)
  PROVE  HeldBy(t)'
<1> DEFINE r == tx[t]
           new == tx'[t]
           Same == /\ new.user = r.user /\ new.item = r.item /\ new.option = r.option
                   /\ new.day = r.day
<1>0. HeldBy(t) /\ r \in Transaction /\ DOMAIN tx = Tx
  BY DEF HeldInv, Types, TypeOK
<1>1. CASE Rollback(t) \/ Commit(t)
  <2>1. /\ votes' = RestoredAll(votes, t) \/ votes' = PublishedAll(votes, t)
        /\ tally' = RestoredAll(tally, t) \/ tally' = PublishedAll(tally, t)
        /\ ledger' = RestoredAll(ledger, t) \/ ledger' = PublishedAll(ledger, t)
        /\ karma' = RestoredAll(karma, t) \/ karma' = PublishedAll(karma, t)
        /\ ballots' = RestoredAll(ballots, t) \/ ballots' = PublishedAll(ballots, t)
        /\ counts' = RestoredAll(counts, t) \/ counts' = PublishedAll(counts, t)
    BY <1>1 DEF Rollback, Commit
  <2>2. /\ \A k \in Users \X Items : votes'[k].holder # t
        /\ \A i \in Items : tally'[i].holder # t
        /\ \A k \in Keys : ledger'[k].holder # t
        /\ \A a \in Authors : karma'[a].holder # t
        /\ \A u \in Users : ballots'[u].holder # t
        /\ \A o \in Options : counts'[o].holder # t
    BY <2>1, Domains, TableFreed
  <2>3. \A u \in Users, i \in Items : <<u, i>> \in Users \X Items
    OBVIOUS
  <2> QED
    BY <2>2, <2>3 DEF HeldBy
<1>2. ASSUME NEW pc, pc # "vote.row", Same, new.pc = pc,
             r.pc \in {"vote.ledger", "vote.karma", "commit"}
               => pc \in {"vote.ledger", "vote.karma", "commit"},
             r.pc \in {"vote.karma", "commit"} => pc \in {"vote.karma", "commit"},
             r.pc = "commit" => pc = "commit",
             \A u \in Users, i \in Items : votes'[<<u, i>>].holder = t =>
               \/ votes[<<u, i>>].holder = t
               \/ r.user = u /\ r.item = i,
             \A i \in Items : tally'[i].holder = t =>
               \/ tally[i].holder = t
               \/ r.item = i /\ pc \in {"vote.ledger", "vote.karma", "commit"},
             \A k \in Keys : ledger'[k].holder = t =>
               \/ ledger[k].holder = t
               \/ /\ r.item \in Items /\ k = <<r.user, Author[r.item], r.day>>
                  /\ pc \in {"vote.karma", "commit"},
             \A a \in Authors : karma'[a].holder = t =>
               \/ karma[a].holder = t
               \/ r.item \in Items /\ Author[r.item] = a /\ pc = "commit",
             UNCHANGED ballots,
             \A o \in Options : counts'[o].holder = t =>
               \/ counts[o].holder = t
               \/ r.option = o /\ pc = "commit"
      PROVE  HeldBy(t)'
  BY <1>0, <1>2 DEF HeldBy
<1>3. ASSUME NEW pc, Goto(t, pc) PROVE Same /\ new.pc = pc
  BY <1>0, <1>3 DEF Goto, Transaction
<1>4. CASE Vote_Read(t)
  <2>1. r.pc = "idle" /\ UNCHANGED <<votes, tally, ledger, karma, ballots, counts>>
    BY <1>4 DEF Vote_Read
  <2>2. r = Idle /\ Nothing \notin Users /\ Nothing \notin Items /\ Nothing \notin Options
    BY <2>1, NothingAssumption DEF Types, TxInv, TxOwn
  <2>3. /\ \A u \in Users, i \in Items : votes[<<u, i>>].holder # t
        /\ \A i \in Items : tally[i].holder # t
        /\ \A k \in Keys : ledger[k].holder # t
        /\ \A a \in Authors : karma[a].holder # t
        /\ \A u \in Users : ballots[u].holder # t
        /\ \A o \in Options : counts[o].holder # t
    BY <1>0, <2>2 DEF HeldBy, Idle
  <2> QED
    BY <2>1, <2>3 DEF HeldBy
<1>5. CASE Vote_Row(t) /\ ~Rollback(t)
  <2>1. /\ r.pc = "vote.row" /\ Goto(t, "vote.tally")
        /\ UNCHANGED <<tally, ledger, karma, ballots, counts>>
    BY <1>5 DEF Vote_Row
  <2>2. \A u \in Users, i \in Items : votes'[<<u, i>>].holder = t =>
               votes[<<u, i>>].holder = t \/ (r.user = u /\ r.item = i)
    <3>1. PICK k \in Users \X Items : k = <<r.user, r.item>>
      BY <2>1, OwnTypes DEF AtStatement
    <3>2. votes' = votes \/ votes' = [votes EXCEPT ![k] = Put(votes[k], t, r.value)]
      BY <1>5, <3>1 DEF Vote_Row
    <3>3. \A j \in Users \X Items : votes'[j].holder = t => j = k \/ votes[j].holder = t
      BY <3>2, Domains, TablePutHeld
    <3> QED
      BY <3>1, <3>3
  <2> QED
    BY <1>2, <1>3, <2>1, <2>2
<1>6. CASE Vote_Tally(t)
  <2>1. /\ r.pc = "vote.tally" /\ Goto(t, "vote.ledger")
        /\ UNCHANGED <<votes, ledger, karma, ballots, counts>>
    BY <1>6 DEF Vote_Tally
  <2>2. \A i \in Items : tally'[i].holder = t => tally[i].holder = t \/ r.item = i
    <3>1. PICK v : tally' = [tally EXCEPT ![r.item] = Put(tally[r.item], t, v)]
      BY <1>6 DEF Vote_Tally
    <3>2. r.item \in Items
      BY <2>1, OwnTypes DEF AtStatement
    <3> QED
      BY <3>1, <3>2, Domains, TablePutHeld
  <2> QED
    BY <1>2, <1>3, <2>1, <2>2
<1>7. CASE Vote_Ledger(t)
  <2> DEFINE k == <<r.user, Author[r.item], r.day>>
             n == Applied(View(ledger[k], t), r.value - r.seen)
             pc == IF n = 0 THEN "commit" ELSE "vote.karma"
  <2>1. r.pc = "vote.ledger" /\ UNCHANGED <<votes, tally, karma, ballots, counts>>
    BY <1>7 DEF Vote_Ledger
  <2>2. Same /\ new.pc = pc
    BY <1>0, <1>7 DEF Vote_Ledger, Transaction
  <2>3. PICK j, v : j \in Keys /\ j = k /\ ledger' = [ledger EXCEPT ![j] = Put(ledger[j], t, v)]
    BY <1>7, <2>1, OwnTypes DEF Vote_Ledger, AtStatement
  <2>4. \A l \in Keys : ledger'[l].holder = t => ledger[l].holder = t \/ l = k
    BY <2>3, Domains, TablePutHeld
  <2>5. pc \in {"commit", "vote.karma"} /\ r.item \in Items
    BY <2>1, OwnTypes DEF AtStatement
  <2> HIDE DEF pc, n
  <2> QED
    BY <1>2, <2>1, <2>2, <2>4, <2>5
<1>8. CASE Vote_Karma(t)
  <2>1. /\ r.pc = "vote.karma" /\ Goto(t, "commit")
        /\ UNCHANGED <<votes, tally, ledger, ballots, counts>>
    BY <1>8 DEF Vote_Karma
  <2>2. r.item \in Items /\ Author[r.item] \in Authors
    BY <2>1, OwnTypes DEF AtStatement
  <2>3. \A a \in Authors : karma'[a].holder = t => karma[a].holder = t \/ Author[r.item] = a
    <3>1. PICK a, v :
            /\ a \in Authors /\ a = Author[r.item]
            /\ karma' = [karma EXCEPT ![a] = Put(karma[a], t, v)]
      BY <1>8, <2>2 DEF Vote_Karma
    <3> QED
      BY <3>1, Domains, TablePutHeld
  <2> QED
    BY <1>2, <1>3, <2>1, <2>2, <2>3
<1>9. CASE Poll_Ballot(t)
  <2>1. r.pc = "idle" /\ UNCHANGED <<votes, tally, ledger, karma, counts>>
    BY <1>9 DEF Poll_Ballot
  <2>2. r = Idle /\ Nothing \notin Users /\ Nothing \notin Items /\ Nothing \notin Options
    BY <2>1, NothingAssumption DEF Types, TxInv, TxOwn
  <2>3. /\ \A u \in Users, i \in Items : votes[<<u, i>>].holder # t
        /\ \A i \in Items : tally[i].holder # t
        /\ \A k \in Keys : ledger[k].holder # t
        /\ \A a \in Authors : karma[a].holder # t
        /\ \A u \in Users : ballots[u].holder # t
        /\ \A o \in Options : counts[o].holder # t
    BY <1>0, <2>2 DEF HeldBy, Idle
  <2>4. PICK u \in Users, o \in Options :
          /\ ballots' = [ballots EXCEPT ![u] = Put(ballots[u], t, o)]
          /\ tx' = [tx EXCEPT ![t] = [Idle EXCEPT !.pc = "poll.count", !.user = u,
                                                  !.option = o, !.day = clock]]
    BY <1>9, GatesAssumption, Zenon DEF Poll_Ballot
  <2>7. new = [Idle EXCEPT !.pc = "poll.count", !.user = u, !.option = o, !.day = clock]
    BY <1>0, <2>4, Zenon DEF Types
  <2>5. \A w \in Users : ballots'[w].holder = t => w = u
    BY <2>3, <2>4, Domains, TablePutHeld
  <2>6. new.user = u /\ new.option = o
    BY <2>7 DEF Idle
  <2> QED
    BY <2>1, <2>3, <2>5, <2>6 DEF HeldBy
<1>10. CASE Poll_Count(t)
  <2>1. /\ r.pc = "poll.count" /\ Goto(t, "commit")
        /\ UNCHANGED <<votes, tally, ledger, karma, ballots>>
    BY <1>10 DEF Poll_Count
  <2>2. \A o \in Options : counts'[o].holder = t => counts[o].holder = t \/ r.option = o
    <3>1. PICK v : counts' = [counts EXCEPT ![r.option] = Put(counts[r.option], t, v)]
      BY <1>10 DEF Poll_Count
    <3>2. r.option \in Options
      BY <2>1, OwnTypes
    <3> QED
      BY <3>1, <3>2, Domains, TablePutHeld
  <2> QED
    BY <1>2, <1>3, <2>1, <2>2
<1> QED
  BY <1>1, <1>4, <1>5, <1>6, <1>7, <1>8, <1>9, <1>10 DEF Run, Abort

(* HeldInv is kept by every step.                                          *)
LEMMA HeldStep ==
  ASSUME Types, HeldInv, NEW t \in Tx, Run(t)
  PROVE  HeldInv'
<1>1. \A s \in Tx : HeldBy(s)'
  BY HeldOwn, HeldOthers
<1> QED
  BY <1>1 DEF HeldInv

(* What the statements of a vote have done so far: the row, the tally ...  *)
VoteWork(t) ==
  LET r == tx[t]
      row == votes[<<r.user, r.item>>]
      n == tally[r.item]
  IN /\ row.committed = r.seen
     /\ r.pc # "vote.row" => row.holder = t /\ row.written = r.value
     /\ r.pc \in {"vote.ledger", "vote.karma", "commit"} =>
          n.holder = t /\ n.written = Moved(n.committed, r.seen, r.value)

(* ... and the ledger and the karma.                                       *)
KarmaWork(t) ==
  LET r == tx[t]
      p == ledger[<<r.user, Author[r.item], r.day>>]
      k == karma[Author[r.item]]
  IN /\ r.pc \in {"vote.karma", "commit"} =>
          p.holder = t /\ p.written = p.committed + r.applied
     /\ r.pc = "commit" =>
          IF k.holder = t THEN k.written = Earned(k.committed, r.item, r.applied)
                          ELSE r.applied = 0

(* What the statements of a ballot have done so far.                       *)
PollWork(t) ==
  LET r == tx[t]
      b == ballots[r.user]
      n == counts[r.option]
  IN /\ b.holder = t /\ b.committed = Nothing /\ b.written = r.option
     /\ r.pc = "commit" => n.holder = t /\ n.written = n.committed + 1

(* The work of a transaction, by what it is at work on.                    *)
WorkBy(t) ==
  /\ tx[t].item \in Items \ raced => VoteWork(t)
  /\ tx[t].item \in Items => KarmaWork(t)
  /\ tx[t].option \in Options => PollWork(t)

(* That of every transaction.                                              *)
WorkInv == \A t \in Tx : WorkBy(t)

(* Two votes of one person on one item, at once, are raced.                *)
RaceInv ==
  \A s, t \in Tx : s # t /\ tx[s].item = tx[t].item /\ tx[s].user = tx[t].user
                     /\ tx[s].item \in Items => tx[s].item \in raced

(* Nobody gives karma on a day to come.                                    *)
DayInv ==
  \A u \in Users, a \in Authors, d \in Days : ledger[<<u, a, d>>].committed # 0 => d <= clock

(* Two votes at once are noticed when the second reads.                    *)
LEMMA RaceStep ==
  ASSUME Types, RaceInv, NEW t \in Tx, Run(t)
  PROVE  RaceInv'
<1>0. /\ DOMAIN tx = Tx /\ raced \subseteq raced' /\ \A s \in Tx \ {t} : tx'[s] = tx[s]
  BY RunMoves DEF Types, TypeOK
<1>1. CASE tx'[t].item \notin Items \/ (tx'[t].item = tx[t].item /\ tx'[t].user = tx[t].user)
  BY <1>0, <1>1 DEF RaceInv
<1>2. ASSUME NEW pc, Goto(t, pc) PROVE tx'[t].item = tx[t].item /\ tx'[t].user = tx[t].user
  BY <1>0, <1>2 DEF Goto, Types, TypeOK, Transaction
<1>3. CASE Return(t) \/ Poll_Ballot(t)
  <2>1. Nothing \notin Items
    BY NothingAssumption
  <2>2. CASE Return(t)
    <3>1. tx'[t].item = Nothing
      BY <1>0, <2>2 DEF Return, Idle
    <3> QED
      BY <1>1, <2>1, <3>1
  <2>3. CASE Poll_Ballot(t)
    <3>1. PICK u \in Electors, o \in Options :
            tx' = [tx EXCEPT ![t] = [Idle EXCEPT !.pc = "poll.count", !.user = u,
                                                 !.option = o, !.day = clock]]
      BY <2>3 DEF Poll_Ballot
    <3>2. tx'[t].item = Nothing
      BY <1>0, <3>1 DEF Idle
    <3> QED
      BY <1>1, <2>1, <3>2
  <2> QED
    BY <1>3, <2>2, <2>3
<1>4. CASE Vote_Read(t)
  <2>1. PICK u \in Users, i \in Items, v \in Values :
          /\ (\E s \in Tx : tx[s].user = u /\ tx[s].item = i) => i \in raced'
          /\ tx' = [tx EXCEPT ![t] = [Idle EXCEPT !.pc = "vote.row", !.user = u, !.item = i,
                       !.value = v, !.seen = votes[<<u, i>>].committed, !.day = clock]]
    BY <1>4 DEF Vote_Read
  <2>2. tx'[t].user = u /\ tx'[t].item = i
    BY <1>0, <2>1 DEF Idle
  <2> QED
    BY <1>0, <2>1, <2>2 DEF RaceInv
<1>5. CASE Vote_Ledger(t)
  <2>1. tx'[t].item = tx[t].item /\ tx'[t].user = tx[t].user
    BY <1>0, <1>5 DEF Vote_Ledger, Types, TypeOK, Transaction
  <2> QED
    BY <1>1, <2>1
<1> QED
  BY <1>1, <1>2, <1>3, <1>4, <1>5
     DEF Run, Vote_Row, Vote_Tally, Vote_Karma, Poll_Count, Commit, Abort, Rollback

(* The day of a ledger row is a day the clock has reached.                 *)
LEMMA DayStep ==
  ASSUME Types, HeldInv, DayInv, NEW t \in Tx, Run(t)
  PROVE  DayInv'
<1>1. PICK c : TableStep(ledger, ledger', t, c)
  BY RunMoves DEF TablesStep
<1>2. clock' = clock /\ TxOwn(t) /\ HeldBy(t)
  BY RunMoves DEF Types, TxInv, HeldInv
<1>3. \A k \in Keys : \/ ledger'[k].committed = ledger[k].committed
                      \/ ledger[k].holder = t
  BY <1>1, TableOthers, Domains
<1>4. \A u \in Users, a \in Authors, d \in Days :
        <<u, a, d>> \in Keys /\ (ledger[<<u, a, d>>].holder = t => d <= clock)
  BY <1>2 DEF HeldBy, TxOwn, Keys
<1> QED
  BY <1>2, <1>3, <1>4 DEF DayInv

(* No step disturbs what another transaction has done.                     *)
LEMMA WorkOthers ==
  ASSUME Types, HeldInv, RaceInv, WorkInv, NEW t \in Tx, Run(t), NEW s \in Tx \ {t}
  PROVE  WorkBy(s)'
<1> DEFINE r == tx[s]
           k == <<r.user, r.item>>
           p == <<r.user, Author[r.item], r.day>>
<1>1. /\ WorkBy(s) /\ tx'[s] = r /\ raced \subseteq raced' /\ HeldBy(t)
  BY RunMoves DEF WorkInv, HeldInv
<1>2. PICK c : TablesStep(t, c)
  BY RunMoves
<1>3. ASSUME r.item \in Items \ raced' PROVE VoteWork(s)'
  <2>1. VoteWork(s) /\ r.item \in Items \ raced /\ r.user \in Users
    BY <1>1, <1>3, OwnTypes DEF WorkBy
  <2>2. k \in Users \X Items /\ votes[k].holder # t
    <3>1. CASE votes[k].holder = t
      <4>1. tx[t].user = r.user /\ tx[t].item = r.item
        BY <1>1, <2>1, <3>1 DEF HeldBy
      <4> QED
        BY <2>1, <4>1 DEF RaceInv
    <3> QED
      BY <2>1, <3>1
  <2>3. /\ votes'[k].committed = votes[k].committed
        /\ votes[k].holder = s => votes'[k] = votes[k]
    BY <1>2, <2>2, Domains, TableOthers DEF TablesStep
  <2>4. tally[r.item].holder = s => tally'[r.item] = tally[r.item]
    BY <1>2, <2>1, Domains, TableOthers DEF TablesStep
  <2> QED
    BY <1>1, <2>1, <2>3, <2>4 DEF VoteWork
<1>4. ASSUME r.item \in Items PROVE KarmaWork(s)'
  <2>1. KarmaWork(s) /\ p \in Keys /\ Author[r.item] \in Authors
    BY <1>1, <1>4, OwnTypes DEF WorkBy
  <2>2. ledger[p].holder = s => ledger'[p] = ledger[p]
    BY <1>2, <2>1, Domains, TableOthers DEF TablesStep
  <2>3. /\ karma[Author[r.item]].holder = s <=> karma'[Author[r.item]].holder = s
        /\ karma[Author[r.item]].holder = s => karma'[Author[r.item]] = karma[Author[r.item]]
    BY <1>2, <2>1, Domains, TableOthers DEF TablesStep
  <2> QED
    BY <1>1, <2>1, <2>2, <2>3 DEF KarmaWork
<1>5. ASSUME r.option \in Options PROVE PollWork(s)'
  <2>1. PollWork(s) /\ r.user \in Users
    BY <1>1, <1>5, OwnTypes DEF WorkBy
  <2>2. ballots[r.user].holder = s => ballots'[r.user] = ballots[r.user]
    BY <1>2, <2>1, Domains, TableOthers DEF TablesStep
  <2>3. counts[r.option].holder = s => counts'[r.option] = counts[r.option]
    BY <1>2, <1>5, Domains, TableOthers DEF TablesStep
  <2> QED
    BY <1>1, <2>1, <2>2, <2>3 DEF PollWork
<1> QED
  BY <1>1, <1>3, <1>4, <1>5 DEF WorkBy

(* A statement does its part of the work.                                  *)
LEMMA WorkOwn ==
  ASSUME Types, HeldInv, WorkInv, NEW t \in Tx, Run(t)
  PROVE  WorkBy(t)'
<1> DEFINE r == tx[t]
           new == tx'[t]
           Same == /\ new.user = r.user /\ new.item = r.item /\ new.option = r.option
                   /\ new.day = r.day /\ new.value = r.value /\ new.seen = r.seen
<1>0. /\ HeldBy(t) /\ WorkBy(t) /\ r \in Transaction /\ DOMAIN tx = Tx /\ raced \subseteq raced'
      /\ Nothing \notin Items /\ Nothing \notin Options
  BY RunMoves, NothingAssumption DEF HeldInv, WorkInv, Types, TypeOK
<1>1. CASE Rollback(t) \/ Commit(t)
  <2>1. new.item = Nothing /\ new.option = Nothing
    BY <1>0, <1>1 DEF Rollback, Commit, Return, Idle
  <2> QED
    BY <1>0, <2>1 DEF WorkBy
<1>2. ASSUME NEW pc, Goto(t, pc)
      PROVE  Same /\ new.pc = pc /\ new.applied = r.applied
  BY <1>0, <1>2 DEF Goto, Transaction
<1>3. ASSUME r.pc \in AtStatement
      PROVE  r.item \in Items /\ r.option \notin Options /\ Author[r.item] \in Authors
             /\ <<r.user, r.item>> \in Users \X Items
             /\ <<r.user, Author[r.item], r.day>> \in Keys
  BY <1>0, <1>3, OwnTypes
<1>4. CASE Vote_Read(t)
  <2>1. PICK u \in Users, i \in Items, v \in Values :
          /\ tx' = [tx EXCEPT ![t] = [Idle EXCEPT !.pc = "vote.row", !.user = u, !.item = i,
                       !.value = v, !.seen = votes[<<u, i>>].committed, !.day = clock]]
          /\ votes' = votes
    BY <1>4 DEF Vote_Read
  <2>2. /\ new.pc = "vote.row" /\ new.user = u /\ new.item = i /\ new.option = Nothing
        /\ new.seen = votes[<<u, i>>].committed
    BY <1>0, <2>1 DEF Idle
  <2>3. VoteWork(t)' /\ KarmaWork(t)'
    BY <2>1, <2>2 DEF VoteWork, KarmaWork
  <2> QED
    BY <1>0, <2>2, <2>3 DEF WorkBy
<1>5. CASE Vote_Row(t) /\ ~Rollback(t)
  <2>1. /\ r.pc = "vote.row" /\ Goto(t, "vote.tally")
        /\ UNCHANGED <<tally, ledger, karma, ballots, counts, raced>>
    BY <1>5 DEF Vote_Row
  <2>2. PICK k \in Users \X Items : k = <<r.user, r.item>>
    BY <1>3, <2>1 DEF AtStatement
  <2>3. votes[k].holder # t
    BY <1>0, <2>1, <2>2 DEF HeldBy
  <2>4. ASSUME r.item \notin raced PROVE VoteWork(t)'
    <3>1. votes[k].committed = r.seen
      BY <1>0, <1>3, <2>1, <2>2, <2>4 DEF WorkBy, VoteWork, AtStatement
    <3>2. \/ r.seen # 0 /\ View(votes[k], t) = 0
          \/ votes' = [votes EXCEPT ![k] = Put(votes[k], t, r.value)]
      BY <1>5, <2>2 DEF Vote_Row
    <3>3. votes' = [votes EXCEPT ![k] = Put(votes[k], t, r.value)]
      BY <2>3, <3>1, <3>2 DEF View
    <3>4. /\ votes'[k].committed = r.seen /\ votes'[k].holder = t
          /\ votes'[k].written = r.value
      BY <3>1, <3>3, Domains DEF Put
    <3> QED
      BY <1>2, <2>1, <2>2, <3>4 DEF VoteWork
  <2>5. KarmaWork(t)'
    BY <1>2, <2>1 DEF KarmaWork
  <2> QED
    BY <1>2, <1>3, <2>1, <2>4, <2>5 DEF WorkBy, AtStatement
<1>6. CASE Vote_Tally(t)
  <2>1. /\ r.pc = "vote.tally" /\ Goto(t, "vote.ledger")
        /\ UNCHANGED <<votes, ledger, karma, ballots, counts, raced>>
    BY <1>6 DEF Vote_Tally
  <2>2. PICK i \in Items : i = r.item
    BY <1>3, <2>1 DEF AtStatement
  <2>3. tally[i].holder # t
    BY <1>0, <2>1, <2>2 DEF HeldBy
  <2>4. ASSUME r.item \notin raced PROVE VoteWork(t)'
    <3>1. VoteWork(t)
      BY <1>0, <2>2, <2>4 DEF WorkBy
    <3>2. tally' = [tally EXCEPT ![i] =
                      Put(tally[i], t, Moved(View(tally[i], t), r.seen, r.value))]
      BY <1>6, <2>2 DEF Vote_Tally
    <3>3. /\ tally'[i].holder = t
          /\ tally'[i].written = Moved(tally'[i].committed, r.seen, r.value)
      BY <2>3, <3>2, Domains DEF Put, View
    <3> QED
      BY <1>2, <2>1, <2>2, <3>1, <3>3 DEF VoteWork
  <2>5. KarmaWork(t)'
    BY <1>2, <2>1 DEF KarmaWork
  <2> QED
    BY <1>2, <1>3, <2>1, <2>4, <2>5 DEF WorkBy, AtStatement
<1>7. CASE Vote_Ledger(t)
  <2> DEFINE n == Applied(View(ledger[<<r.user, Author[r.item], r.day>>], t), r.value - r.seen)
             pc == IF n = 0 THEN "commit" ELSE "vote.karma"
  <2>1. r.pc = "vote.ledger" /\ UNCHANGED <<votes, tally, karma, ballots, counts, raced>>
    BY <1>7 DEF Vote_Ledger
  <2>2. Same /\ new.pc = pc /\ new.applied = n
    BY <1>0, <1>7 DEF Vote_Ledger, Transaction
  <2>3. PICK k \in Keys : k = <<r.user, Author[r.item], r.day>>
    BY <1>3, <2>1 DEF AtStatement
  <2>4. ledger[k].holder # t /\ karma[Author[r.item]].holder # t
    BY <1>0, <1>3, <2>1, <2>3 DEF HeldBy, AtStatement
  <2>5. ledger' = [ledger EXCEPT ![k] = Put(ledger[k], t, View(ledger[k], t) + n)]
    BY <1>7, <2>3 DEF Vote_Ledger
  <2>6. pc = "commit" => n = 0
    OBVIOUS
  <2>7. pc \in {"commit", "vote.karma"}
    OBVIOUS
  <2> HIDE DEF pc, n
  <2>8. ledger'[k].holder = t /\ ledger'[k].written = ledger'[k].committed + n
    BY <2>4, <2>5, Domains DEF Put, View
  <2>9. KarmaWork(t)'
    BY <2>1, <2>2, <2>3, <2>4, <2>6, <2>8 DEF KarmaWork
  <2>10. ASSUME r.item \notin raced PROVE VoteWork(t)'
    <3>1. VoteWork(t)
      BY <1>0, <1>3, <2>1, <2>10 DEF WorkBy, AtStatement
    <3> QED
      BY <2>1, <2>2, <2>7, <3>1 DEF VoteWork
  <2> QED
    BY <1>3, <2>1, <2>2, <2>9, <2>10 DEF WorkBy, AtStatement
<1>8. CASE Vote_Karma(t)
  <2>1. /\ r.pc = "vote.karma" /\ Goto(t, "commit")
        /\ UNCHANGED <<votes, tally, ledger, ballots, counts, raced>>
    BY <1>8 DEF Vote_Karma
  <2>2. PICK a \in Authors : a = Author[r.item]
    BY <1>3, <2>1 DEF AtStatement
  <2>3. karma[a].holder # t
    BY <1>0, <2>1, <2>2 DEF HeldBy
  <2>4. karma' = [karma EXCEPT ![a] =
                    Put(karma[a], t, Earned(View(karma[a], t), r.item, r.applied))]
    BY <1>8, <2>2 DEF Vote_Karma
  <2>5. /\ karma'[a].holder = t
        /\ karma'[a].written = Earned(karma'[a].committed, r.item, r.applied)
    BY <2>3, <2>4, Domains DEF Put, View
  <2>6. KarmaWork(t) /\ (r.item \notin raced => VoteWork(t))
    BY <1>0, <1>3, <2>1 DEF WorkBy, AtStatement
  <2>7. KarmaWork(t)'
    BY <1>2, <2>1, <2>2, <2>5, <2>6 DEF KarmaWork
  <2>8. r.item \notin raced => VoteWork(t)'
    BY <1>2, <2>1, <2>6 DEF VoteWork
  <2> QED
    BY <1>2, <1>3, <2>1, <2>7, <2>8 DEF WorkBy, AtStatement
<1>9. CASE Poll_Ballot(t)
  <2>1. r.pc = "idle" /\ UNCHANGED <<votes, tally, ledger, karma, counts>>
    BY <1>9 DEF Poll_Ballot
  <2>2. r = Idle
    BY <2>1 DEF Types, TxInv, TxOwn
  <2>3. PICK u \in Users, o \in Options :
          /\ View(ballots[u], t) = Nothing
          /\ ballots' = [ballots EXCEPT ![u] = Put(ballots[u], t, o)]
          /\ tx' = [tx EXCEPT ![t] = [Idle EXCEPT !.pc = "poll.count", !.user = u,
                                                  !.option = o, !.day = clock]]
    BY <1>9, GatesAssumption, Zenon DEF Poll_Ballot
  <2>7. new = [Idle EXCEPT !.pc = "poll.count", !.user = u, !.option = o, !.day = clock]
    BY <1>0, <2>3, Zenon DEF Types
  <2>4. ballots[u].holder # t
    BY <1>0, <2>2 DEF HeldBy, Idle
  <2>5. ballots'[u].holder = t /\ ballots'[u].committed = Nothing /\ ballots'[u].written = o
    BY <2>3, <2>4, Domains DEF Put, View
  <2>6. new.pc = "poll.count" /\ new.user = u /\ new.option = o /\ new.item = Nothing
    BY <2>7 DEF Idle
  <2> QED
    BY <1>0, <2>5, <2>6 DEF WorkBy, PollWork
<1>10. CASE Poll_Count(t)
  <2>1. /\ r.pc = "poll.count" /\ Goto(t, "commit")
        /\ UNCHANGED <<votes, tally, ledger, karma, ballots, raced>>
    BY <1>10 DEF Poll_Count
  <2>2. PICK o \in Options : o = r.option
    BY <2>1, OwnTypes
  <2>3. counts[o].holder # t /\ r.item \notin Items
    BY <1>0, <2>1, <2>2, OwnTypes DEF HeldBy
  <2>4. counts' = [counts EXCEPT ![o] = Put(counts[o], t, View(counts[o], t) + 1)]
    BY <1>10, <2>2 DEF Poll_Count
  <2>5. counts'[o].holder = t /\ counts'[o].written = counts'[o].committed + 1
    BY <2>3, <2>4, Domains DEF Put, View
  <2>6. PollWork(t)
    BY <1>0, <2>2 DEF WorkBy
  <2>7. PollWork(t)'
    BY <1>2, <2>1, <2>2, <2>5, <2>6 DEF PollWork
  <2> QED
    BY <1>2, <2>1, <2>3, <2>7 DEF WorkBy
<1> QED
  BY <1>1, <1>4, <1>5, <1>6, <1>7, <1>8, <1>9, <1>10 DEF Run, Abort

(* Adding or removing one element.                                         *)
LEMMA CountChanges ==
  ASSUME NEW A, NEW B, NEW x, IsFiniteSet(A), A \ {x} = B \ {x}
  PROVE  /\ Cardinality(A) \in Nat
         /\ Cardinality(B) = Cardinality(A) + (IF x \in B THEN 1 ELSE 0)
                                            - (IF x \in A THEN 1 ELSE 0)
<1>1. /\ Cardinality(A) \in Nat /\ IsFiniteSet(A \ {x})
      /\ Cardinality(A \ {x}) = IF x \in A THEN Cardinality(A) - 1 ELSE Cardinality(A)
  BY FS_CardinalityType, FS_RemoveElement
<1>2. CASE x \in B
  <2>1. B = (A \ {x}) \cup {x} /\ x \notin A \ {x}
    BY <1>2
  <2>2. Cardinality(B) = Cardinality(A \ {x}) + 1
    BY <1>1, <2>1, FS_AddElement
  <2> QED
    BY <1>1, <1>2, <2>2
<1>3. CASE x \notin B
  <2>1. B = A \ {x}
    BY <1>3
  <2> QED
    BY <1>1, <1>3, <2>1
<1> QED
  BY <1>2, <1>3

(* What the commit of t publishes, and that nothing else moves.            *)
LEMMA Committed ==
  ASSUME NEW old, NEW new, NEW t \in Tx, NEW c, TableStep(old, new, t, c), NEW k \in DOMAIN old
  PROVE  \/ new[k].committed = old[k].committed
         \/ c = "commit" /\ old[k].holder = t /\ new[k].committed = old[k].written
  BY TableOthers

(* The commit of t shows the rows t holds and leaves the others.           *)
LEMMA Publishes ==
  ASSUME NEW old, NEW t \in Tx, NEW k \in DOMAIN old
  PROVE  /\ old[k].holder = t => PublishedAll(old, t)[k].committed = old[k].written
         /\ old[k].holder # t => PublishedAll(old, t)[k] = old[k]
  BY DEF PublishedAll, Published, Stored

(* The tally of an item nobody raced on counts its votes, at every step:   *)
(* the commit of a vote changes one of them and the tally by as much.      *)
LEMMA TallyStep ==
  ASSUME Types, HeldInv, WorkInv, TallyIsVotes, NEW t \in Tx, Run(t)
  PROVE  TallyIsVotes'
<1> SUFFICES ASSUME NEW i \in Items \ raced'
             PROVE  tally'[i].committed = [up |-> Voting(i, 1)', down |-> Voting(i, -1)']
  BY DEF TallyIsVotes
<1> DEFINE r == tx[t]
           For(v) == {u \in Users : votes[<<u, i>>].committed = v}
           ForNext(v) == {u \in Users : votes'[<<u, i>>].committed = v}
<1>1. /\ i \in Items \ raced /\ HeldBy(t) /\ WorkBy(t)
      /\ tally[i].committed = [up |-> Voting(i, 1), down |-> Voting(i, -1)]
      /\ \A u \in Users : <<u, i>> \in Users \X Items
  BY RunMoves DEF TallyIsVotes, HeldInv, WorkInv
<1>2. /\ Voting(i, 1) = Cardinality(For(1)) /\ Voting(i, -1) = Cardinality(For(-1))
      /\ Voting(i, 1)' = Cardinality(ForNext(1)) /\ Voting(i, -1)' = Cardinality(ForNext(-1))
  BY DEF Voting
<1>3. ASSUME tally'[i].committed = tally[i].committed,
             \A u \in Users : votes'[<<u, i>>].committed = votes[<<u, i>>].committed
      PROVE  tally'[i].committed = [up |-> Voting(i, 1)', down |-> Voting(i, -1)']
  <2>1. For(1) = ForNext(1) /\ For(-1) = ForNext(-1)
    BY <1>3
  <2> QED
    BY <1>1, <1>2, <1>3, <2>1
<1>4. CASE TablesStep(t, "runs")
  <2>1. tally'[i].committed = tally[i].committed
    BY <1>1, <1>4, Domains, Committed DEF TablesStep
  <2>2. \A k \in Users \X Items : votes'[k].committed = votes[k].committed
    BY <1>4, Domains, Committed DEF TablesStep
  <2> QED
    BY <1>1, <1>3, <2>1, <2>2
<1>5. CASE Commit(t) /\ r.item # i
  <2>1. /\ tally[i].holder # t /\ \A u \in Users : votes[<<u, i>>].holder # t
        /\ votes' = PublishedAll(votes, t) /\ tally' = PublishedAll(tally, t)
    BY <1>1, <1>5 DEF HeldBy, Commit
  <2>2. tally'[i] = tally[i]
    BY <1>1, <2>1, Domains, Publishes
  <2>3. \A u \in Users : votes'[<<u, i>>] = votes[<<u, i>>]
    BY <1>1, <2>1, Domains, Publishes
  <2> QED
    BY <1>3, <2>2, <2>3
<1>6. CASE Commit(t) /\ r.item = i
  <2> DEFINE k == <<r.user, i>>
  <2>1. /\ r.pc = "commit" /\ VoteWork(t) /\ r.user \in Users
        /\ votes' = PublishedAll(votes, t) /\ tally' = PublishedAll(tally, t)
    BY <1>1, <1>6, OwnTypes DEF WorkBy, Commit
  <2>2. /\ votes[k].holder = t /\ votes[k].committed = r.seen /\ votes[k].written = r.value
        /\ tally[i].holder = t
        /\ tally[i].written = Moved(tally[i].committed, r.seen, r.value)
    BY <1>6, <2>1 DEF VoteWork
  <2>3. /\ tally'[i].committed = Moved(tally[i].committed, r.seen, r.value)
        /\ votes'[k].committed = r.value
    BY <1>1, <2>1, <2>2, Domains, Publishes
  <2>4. \A u \in Users \ {r.user} : votes'[<<u, i>>].committed = votes[<<u, i>>].committed
    <3>1. \A u \in Users \ {r.user} : votes[<<u, i>>].holder # t
      BY <1>1 DEF HeldBy
    <3> QED
      BY <1>1, <2>1, <3>1, Domains, Publishes
  <2>5. ASSUME NEW v \in {1, -1}
        PROVE  /\ Cardinality(For(v)) \in Nat
               /\ Cardinality(ForNext(v)) = Cardinality(For(v)) + One(r.value = v) - One(r.seen = v)
    <3>1. IsFiniteSet(For(v))
      BY MembersAssumption, FS_Subset
    <3>2. For(v) \ {r.user} = ForNext(v) \ {r.user}
      BY <2>4
    <3>3. (r.user \in For(v) <=> r.seen = v) /\ (r.user \in ForNext(v) <=> r.value = v)
      BY <2>1, <2>2, <2>3
    <3> HIDE DEF For, ForNext
    <3> QED
      BY <3>1, <3>2, <3>3, CountChanges DEF One
  <2> HIDE DEF For, ForNext
  <2>6. /\ Cardinality(ForNext(1)) = Cardinality(For(1)) + One(r.value = 1) - One(r.seen = 1)
        /\ Cardinality(ForNext(-1)) = Cardinality(For(-1)) + One(r.value = -1) - One(r.seen = -1)
    BY <2>5
  <2> QED
    BY <1>1, <1>2, <2>3, <2>6 DEF Moved
<1> QED
  BY <1>4, <1>5, <1>6, RunMoves

(* The counts of a poll count its ballots.                                 *)
LEMMA PollStep ==
  ASSUME Types, HeldInv, WorkInv, PollCountsBallots, NEW t \in Tx, Run(t)
  PROVE  PollCountsBallots'
<1> SUFFICES ASSUME NEW o \in Options
             PROVE  counts'[o].committed = Cardinality({u \in Users : ballots'[u].committed = o})
  BY DEF PollCountsBallots
<1> DEFINE r == tx[t]
           For == {u \in Users : ballots[u].committed = o}
           ForNext == {u \in Users : ballots'[u].committed = o}
<1>1. /\ HeldBy(t) /\ WorkBy(t) /\ counts[o].committed = Cardinality(For)
      /\ Nothing \notin Options
  BY NothingAssumption DEF PollCountsBallots, HeldInv, WorkInv
<1>2. CASE TablesStep(t, "runs")
  <2>1. counts'[o].committed = counts[o].committed
    BY <1>2, Domains, Committed DEF TablesStep
  <2>2. \A u \in Users : ballots'[u].committed = ballots[u].committed
    BY <1>2, Domains, Committed DEF TablesStep
  <2>3. For = ForNext
    BY <2>2
  <2> QED
    BY <1>1, <2>1, <2>3
<1>3. CASE Commit(t) /\ r.option \notin Options
  <2>1. /\ counts[o].holder # t /\ \A u \in Users : ballots[u].holder # t
        /\ counts' = PublishedAll(counts, t) /\ ballots' = PublishedAll(ballots, t)
    BY <1>1, <1>3 DEF HeldBy, Commit
  <2>2. counts'[o] = counts[o] /\ \A u \in Users : ballots'[u] = ballots[u]
    BY <2>1, Domains, Publishes
  <2>3. For = ForNext
    BY <2>2
  <2> QED
    BY <1>1, <2>2, <2>3
<1>4. CASE Commit(t) /\ r.option \in Options
  <2>1. /\ r.pc = "commit" /\ PollWork(t) /\ r.user \in Users
        /\ counts' = PublishedAll(counts, t) /\ ballots' = PublishedAll(ballots, t)
    BY <1>1, <1>4, OwnTypes DEF WorkBy, Commit
  <2>2. /\ ballots[r.user].holder = t /\ ballots[r.user].committed = Nothing
        /\ ballots[r.user].written = r.option
        /\ counts[r.option].holder = t
        /\ counts[r.option].written = counts[r.option].committed + 1
    BY <2>1 DEF PollWork
  <2>3. \A u \in Users \ {r.user} : ballots'[u] = ballots[u]
    <3>1. \A u \in Users \ {r.user} : ballots[u].holder # t
      BY <1>1 DEF HeldBy
    <3> QED
      BY <2>1, <3>1, Domains, Publishes
  <2>4. ballots'[r.user].committed = r.option
    BY <2>1, <2>2, Domains, Publishes
  <2>5. For \ {r.user} = ForNext \ {r.user} /\ r.user \notin For
        /\ (r.user \in ForNext <=> o = r.option)
    BY <1>1, <2>1, <2>2, <2>3, <2>4
  <2>6. IsFiniteSet(For)
    BY MembersAssumption, FS_Subset
  <2>7. counts'[o].committed = counts[o].committed + (IF o = r.option THEN 1 ELSE 0)
    <3>1. CASE o = r.option
      BY <2>1, <2>2, <3>1, Domains, Publishes
    <3>2. CASE o # r.option
      <4>1. counts[o].holder # t
        BY <1>1, <3>2 DEF HeldBy
      <4>2. counts'[o] = counts[o] /\ counts[o].committed \in Nat
        BY <2>1, <4>1, Domains, Publishes DEF Types, TypeOK, RowsOf
      <4> QED
        BY <3>2, <4>2
    <3> QED
      BY <3>1, <3>2
  <2> HIDE DEF For, ForNext
  <2>8. Cardinality(ForNext) = Cardinality(For) + (IF o = r.option THEN 1 ELSE 0)
    BY <2>5, <2>6, CountChanges
  <2>9. Cardinality({u \in Users : ballots'[u].committed = o}) = Cardinality(ForNext)
    BY DEF ForNext
  <2> QED
    BY <1>1, <2>7, <2>8, <2>9
<1> QED
  BY <1>2, <1>3, <1>4, RunMoves

(* The rows of the karma ledger that hold what an author was given.        *)
Given(a) == {k \in Keys : k[2] = a}

(* Members, authors and the days that have come are finitely many.         *)
LEMMA KeysFinite ==
  /\ IsFiniteSet(Keys) /\ IsFiniteSet(Days)
  /\ \A a : IsFiniteSet(Given(a))
<1>1. IsFiniteSet(Authors)
  <2>1. Authors \in SUBSET Users
    BY AuthorAssumption DEF Authors
  <2> QED
    BY <2>1, MembersAssumption, FS_Subset
<1>2. IsFiniteSet(Days)
  BY CapAssumption, FS_Interval DEF Days
<1>3. IsFiniteSet((Users \X Authors) \X Days)
  BY <1>1, <1>2, MembersAssumption, FS_Product
<1>4. IsFiniteSet(Keys)
  <2> DEFINE f == [p \in (Users \X Authors) \X Days |-> <<p[1][1], p[1][2], p[2]>>]
  <2>1. f \in [(Users \X Authors) \X Days -> Keys]
    BY DEF Keys
  <2>2. \A k \in Keys : \E p \in (Users \X Authors) \X Days : f[p] = k
    <3> TAKE k \in Keys
    <3>1. <<<<k[1], k[2]>>, k[3]>> \in (Users \X Authors) \X Days
      BY DEF Keys
    <3>2. f[<<<<k[1], k[2]>>, k[3]>>] = k
      BY <3>1 DEF Keys
    <3> QED
      BY <3>1, <3>2
  <2> HIDE DEF f
  <2>3. f \in Surjection((Users \X Authors) \X Days, Keys)
    BY <2>1, <2>2 DEF Surjection
  <2> QED
    BY <1>3, <2>3, FS_Surjection
<1> QED
  BY <1>2, <1>4, FS_Subset DEF Given

(* The points of a ledger row are numbers.                                 *)
LEMMA PointsTyped ==
  ASSUME Types
  PROVE  \A k \in Keys : Points[k] = ledger[k].committed /\ Points[k] \in -Cap..Cap
                         /\ Points[k] \in Int
<1> SUFFICES ASSUME NEW k \in Keys
             PROVE  Points[k] = ledger[k].committed /\ Points[k] \in -Cap..Cap
                    /\ Points[k] \in Int
  OBVIOUS
<1>1. Points[k] = ledger[k].committed
  BY Domains DEF Points
<1>2. ledger[k].committed \in -Cap..Cap
  BY DEF Types, TypeOK, RowsOf, Keys
<1> QED
  BY <1>1, <1>2, CapAssumption

(* Karma is the sum of the ledger: the commit of a vote changes one row of *)
(* the ledger and the karma by as much, own and public.                    *)
LEMMA KarmaStep ==
  ASSUME Types, Types', HeldInv, WorkInv, KarmaIsLedger, NEW t \in Tx, Run(t)
  PROVE  KarmaIsLedger'
<1> DEFINE r == tx[t]
           P == Points
           Q == Points'
<1>1. HeldBy(t) /\ WorkBy(t) /\ DOMAIN ledger = Keys /\ DOMAIN ledger' = Keys
  BY Domains DEF HeldInv, WorkInv, Types, TypeOK, Keys
<1>2. \A k \in Keys : /\ P[k] = ledger[k].committed /\ P[k] \in Int
                      /\ Q[k] = ledger'[k].committed /\ Q[k] \in Int
  <2>1. \A k \in Keys : P[k] = ledger[k].committed /\ P[k] \in Int
    BY PointsTyped
  <2>2. \A k \in Keys : Q[k] = ledger'[k].committed
    BY <1>1 DEF Points
  <2>3. \A k \in Keys : ledger'[k].committed \in Int
    BY CapAssumption DEF Types, TypeOK, RowsOf, Keys
  <2> QED
    BY <2>1, <2>2, <2>3
<1> HIDE DEF P, Q
<1> SUFFICES ASSUME NEW a \in Authors
             PROVE  karma'[a].committed.own = SumFunctionOnSet(Q, Given(a))
  BY <1>1 DEF KarmaIsLedger, Given, Q
<1>3. karma[a].committed.own = SumFunctionOnSet(P, Given(a)) /\ IsFiniteSet(Given(a))
  BY <1>1, KeysFinite DEF KarmaIsLedger, Given, P
<1>4. ASSUME karma'[a].committed.own = karma[a].committed.own,
             \A k \in Given(a) : ledger'[k].committed = ledger[k].committed
      PROVE  karma'[a].committed.own = SumFunctionOnSet(Q, Given(a))
  <2>1. \A k \in Given(a) : P[k] = Q[k]
    BY <1>2, <1>4 DEF Given
  <2> QED
    BY <1>3, <1>4, <2>1, SumSame
<1>5. CASE TablesStep(t, "runs")
  <2>1. karma'[a].committed = karma[a].committed
    BY <1>5, Domains, Committed DEF TablesStep
  <2>2. \A k \in Keys : ledger'[k].committed = ledger[k].committed
    BY <1>5, Domains, Committed DEF TablesStep
  <2> QED
    BY <1>4, <2>1, <2>2 DEF Given
<1>6. CASE Commit(t) /\ ~(r.item \in Items /\ Author[r.item] = a)
  <2>1. karma' = PublishedAll(karma, t) /\ ledger' = PublishedAll(ledger, t)
    BY <1>6 DEF Commit
  <2>2. karma[a].holder # t
    BY <1>1, <1>6 DEF HeldBy
  <2>3. \A k \in Given(a) : k \in Keys /\ ledger[k].holder # t
    <3> TAKE k \in Given(a)
    <3>1. k \in Keys /\ k[2] = a
      BY DEF Given
    <3>2. CASE ledger[k].holder = t
      <4>1. r.item \in Items /\ k = <<r.user, Author[r.item], r.day>>
        BY <1>1, <3>1, <3>2 DEF HeldBy
      <4> QED
        BY <1>6, <3>1, <4>1
    <3> QED
      BY <3>1, <3>2
  <2>4. karma'[a] = karma[a]
    BY <2>1, <2>2, Domains, Publishes
  <2>5. \A k \in Given(a) : ledger'[k] = ledger[k]
    BY <2>1, <2>3, Domains, Publishes
  <2> QED
    BY <1>4, <2>4, <2>5
<1>7. CASE Commit(t) /\ r.item \in Items /\ Author[r.item] = a
  <2>1. PICK x \in Keys : x = <<r.user, a, r.day>>
    BY <1>7, OwnTypes
  <2>2. /\ karma' = PublishedAll(karma, t) /\ ledger' = PublishedAll(ledger, t)
        /\ r.pc = "commit" /\ KarmaWork(t)
    BY <1>1, <1>7 DEF Commit, WorkBy
  <2>3. /\ ledger[x].holder = t /\ ledger[x].written = ledger[x].committed + r.applied
        /\ IF karma[a].holder = t
             THEN karma[a].written = Earned(karma[a].committed, r.item, r.applied)
             ELSE r.applied = 0
    BY <1>7, <2>1, <2>2 DEF KarmaWork
  <2>4. x \in Given(a)
    BY <2>1 DEF Given
  <2>5. Q[x] = P[x] + r.applied
    <3>1. ledger'[x].committed = ledger[x].written
      BY <2>2, <2>3, Domains, Publishes
    <3> QED
      BY <1>2, <2>3, <3>1
  <2>6. \A k \in Given(a) \ {x} : P[k] = Q[k]
    <3>1. \A k \in Given(a) \ {x} : k \in Keys /\ ledger[k].holder # t
      BY <1>1, <1>7, <2>1 DEF HeldBy, Given
    <3>2. \A k \in Given(a) \ {x} : ledger'[k] = ledger[k]
      BY <2>2, <3>1, Domains, Publishes
    <3> QED
      BY <1>2, <3>1, <3>2
  <2>7. \A k \in Given(a) : P[k] \in Int /\ Q[k] \in Int
    BY <1>2 DEF Given
  <2>8. SumFunctionOnSet(Q, Given(a)) = SumFunctionOnSet(P, Given(a)) + (Q[x] - P[x])
    BY <1>3, <2>4, <2>6, <2>7, SumChanges
  <2>9. r.applied \in Int /\ karma[a].committed.own \in Int /\ P[x] \in Int
    <3>1. r \in Transaction
      BY DEF Types, TypeOK
    <3>3. r.applied \in Int
      BY <3>1 DEF Transaction
    <3>2. karma[a].committed.own \in Int
      BY DEF Types, TypeOK, RowsOf
    <3> QED
      BY <2>4, <2>7, <3>2, <3>3
  <2>10. karma'[a].committed.own = karma[a].committed.own + r.applied
    <3>1. CASE karma[a].holder = t
      <4>1. karma'[a].committed = Earned(karma[a].committed, r.item, r.applied)
        BY <2>2, <2>3, <3>1, Domains, Publishes
      <4> QED
        BY <4>1 DEF Earned
    <3>2. CASE karma[a].holder # t
      <4>1. karma'[a] = karma[a] /\ r.applied = 0
        BY <2>2, <2>3, <3>2, Domains, Publishes
      <4> QED
        BY <2>9, <4>1
    <3> QED
      BY <3>1, <3>2
  <2> QED
    BY <1>3, <2>5, <2>8, <2>9, <2>10
<1> QED
  BY <1>5, <1>6, <1>7, RunMoves

(* The cap, from the ledger rows that hold anything.                       *)
LEMMA CapFollows ==
  ASSUME Types, DayInv, KarmaIsLedger
  PROVE  CapHolds
<1> SUFFICES ASSUME NEW a \in Authors
             PROVE  LET voters == {u \in Users : \E d \in Days : ledger[<<u, a, d>>].committed # 0}
                        most == Cap * (clock + 1) * Cardinality(voters)
                    IN karma[a].committed.own \in -most..most
  BY DEF CapHolds
<1> DEFINE voters == {u \in Users : \E d \in Days : ledger[<<u, a, d>>].committed # 0}
           past == 0..clock
           used == {k \in Given(a) : k[1] \in voters /\ k[3] \in past}
<1>1. /\ IsFiniteSet(voters) /\ IsFiniteSet(past) /\ clock \in Nat
      /\ Cardinality(past) = clock + 1 /\ Cardinality(voters) \in Nat
  <2>1. clock \in Nat /\ clock \in Days
    BY CapAssumption DEF Types, TypeOK, Days
  <2>2. IsFiniteSet(past) /\ Cardinality(past) = clock + 1
    BY <2>1, FS_Interval
  <2> QED
    BY <2>1, <2>2, MembersAssumption, FS_Subset, FS_CardinalityType
<1>2. IsFiniteSet(voters \X past) /\ Cardinality(voters \X past) = Cardinality(voters) * (clock + 1)
  BY <1>1, FS_Product
<1>3. IsFiniteSet(used) /\ Cardinality(used) <= Cardinality(voters \X past)
  <2> DEFINE f == [k \in used |-> <<k[1], k[3]>>]
  <2>1. f \in [used -> voters \X past]
    OBVIOUS
  <2>2. \A j, k \in used : f[j] = f[k] => j = k
    <3>1. \A k \in used : k = <<k[1], a, k[3]>> /\ f[k] = <<k[1], k[3]>>
      <4>1. \A k \in Keys : k = <<k[1], k[2], k[3]>>
        BY DEF Keys
      <4> QED
        BY <4>1 DEF Given
    <3> HIDE DEF f, used
    <3>2. ASSUME NEW j \in used, NEW k \in used, f[j] = f[k] PROVE j = k
      <4>1. <<j[1], j[3]>> = <<k[1], k[3]>>
        BY <3>1, <3>2
      <4>2. j[1] = k[1] /\ j[3] = k[3]
        BY <4>1
      <4> QED
        BY <3>1, <4>2
    <3> QED
      BY <3>2
  <2> HIDE DEF f, used
  <2>3. f \in Injection(used, voters \X past)
    BY <2>1, <2>2 DEF Injection, IsInjective
  <2> HIDE DEF voters, past
  <2> QED
    BY <1>2, <2>3, FS_Injection
<1>4. \A k \in Given(a) \ used : Points[k] = 0
  <2> TAKE k \in Given(a) \ used
  <2>1. k \in Keys /\ k[2] = a /\ (k[1] \notin voters \/ k[3] \notin past)
    BY DEF Given
  <2>2. PICK u \in Users, d \in Days : k = <<u, a, d>>
    BY <2>1 DEF Keys
  <2>3. u \notin voters \/ ~(d <= clock)
    BY <2>1, <2>2 DEF Days
  <2>4. ledger[k].committed = 0
    BY <2>2, <2>3 DEF DayInv
  <2> QED
    BY <2>1, <2>4, PointsTyped
<1>5. /\ \A k \in used : Points[k] \in -Cap..Cap
      /\ \A k \in Given(a) : Points[k] \in Int /\ k \in Keys
      /\ Cap \in Nat /\ IsFiniteSet(Given(a)) /\ used \in SUBSET Given(a)
  BY PointsTyped, KeysFinite, CapAssumption DEF Given
<1>6. karma[a].committed.own = SumFunctionOnSet(Points, Given(a))
  BY Domains DEF KarmaIsLedger, Given
<1> HIDE DEF used
<1>7. SumFunctionOnSet(Points, Given(a)) = SumFunctionOnSet(Points, used)
  <2>1. /\ IsFiniteSet(Given(a) \ used) /\ used \cap (Given(a) \ used) = {}
        /\ Given(a) = used \cup (Given(a) \ used)
    BY <1>5, FS_Subset
  <2>2. SumFunctionOnSet(Points, Given(a) \ used) = 0
    BY <1>4, <2>1, SumZero
  <2>3. SumFunctionOnSet(Points, used) \in Int
    BY <1>3, <1>5, SumTakes
  <2>4. SumFunctionOnSet(Points, used \cup (Given(a) \ used))
          = SumFunctionOnSet(Points, used) + SumFunctionOnSet(Points, Given(a) \ used)
    BY <1>3, <1>5, <2>1, SumUnion
  <2> QED
    BY <2>1, <2>2, <2>3, <2>4
<1>8. SumFunctionOnSet(Points, used) \in -(Cap * Cardinality(used))..(Cap * Cardinality(used))
  BY <1>3, <1>5, SumBound
<1> DEFINE most == Cap * (clock + 1) * Cardinality(voters)
<1>9. Cap * Cardinality(used) <= most /\ most \in Nat /\ Cap * Cardinality(used) \in Nat
  <2>1. Cardinality(used) \in Nat /\ Cardinality(voters \X past) \in Nat
    BY <1>2, <1>3, FS_CardinalityType
  <2> HIDE DEF voters
  <2>2. ASSUME NEW n \in Nat, NEW m \in Nat, NEW c \in Nat, n <= m
        PROVE  c * n <= c * m /\ c * n \in Nat /\ c * m \in Nat
    BY <2>2
  <2>3. ASSUME NEW c \in Nat, NEW n \in Nat, NEW m \in Nat PROVE c * (n * m) = c * m * n
    BY <2>3
  <2>4. Cap * (Cardinality(voters) * (clock + 1)) = most
    BY <1>1, <1>5, <2>3
  <2> QED
    BY <1>2, <1>3, <1>5, <2>1, <2>2, <2>4
<1> HIDE DEF voters, most
<1>10. karma[a].committed.own \in -most..most
  BY <1>6, <1>7, <1>8, <1>9
<1> QED
  BY <1>10 DEF most, voters

(* The inductive invariant: types, the rows held, what each transaction has*)
(* done so far, and the sums over what is committed.                       *)
VotesInv ==
  /\ Types /\ HeldInv /\ RaceInv /\ WorkInv /\ DayInv
  /\ TallyIsVotes /\ PollCountsBallots /\ KarmaIsLedger

(* At the start nobody has voted and every sum is zero.                    *)
LEMMA VotesInit == Init => VotesInv
<1> SUFFICES ASSUME Init PROVE VotesInv
  OBVIOUS
<1>1. Types
  BY InitTypes DEF Types
<1>2. \A t \in Tx : tx[t] = Idle
  BY DEF Init
<1>3. /\ \A k \in Users \X Items : votes[k] = Stored(0)
      /\ \A i \in Items : tally[i] = Stored([up |-> 0, down |-> 0])
      /\ \A k \in Keys : ledger[k] = Stored(0)
      /\ \A a \in Authors : karma[a] = Stored([own |-> 0, public |-> 0])
      /\ \A u \in Users : ballots[u] = Stored(Nothing)
      /\ \A o \in Options : counts[o] = Stored(0)
  BY DEF Init, Keys
<1>4. Nothing \notin Items /\ Nothing \notin Options
  BY NothingAssumption
<1>5. HeldInv
  <2> SUFFICES ASSUME NEW t \in Tx PROVE HeldBy(t)
    BY DEF HeldInv
  <2>1. t # NoTx
    BY NoTxAssumption
  <2>2. \A u \in Users, i \in Items : <<u, i>> \in Users \X Items
    OBVIOUS
  <2> QED
    BY <1>3, <2>1, <2>2 DEF HeldBy, Stored
<1>6. RaceInv /\ WorkInv
  BY <1>2, <1>4 DEF RaceInv, WorkInv, WorkBy, Idle
<1>7. DayInv
  BY <1>3 DEF DayInv, Stored, Keys
<1>8. TallyIsVotes
  <2> SUFFICES ASSUME NEW i \in Items
               PROVE  tally[i].committed = [up |-> Voting(i, 1), down |-> Voting(i, -1)]
    BY DEF TallyIsVotes
  <2>1. \A u \in Users : votes[<<u, i>>].committed = 0
    BY <1>3 DEF Stored
  <2>2. {u \in Users : votes[<<u, i>>].committed = 1} = {}
        /\ {u \in Users : votes[<<u, i>>].committed = -1} = {}
    BY <2>1
  <2>3. Voting(i, 1) = 0 /\ Voting(i, -1) = 0
    BY <2>2, FS_EmptySet DEF Voting
  <2> QED
    BY <1>3, <2>3 DEF Stored
<1>9. PollCountsBallots
  <2> SUFFICES ASSUME NEW o \in Options
               PROVE  counts[o].committed = Cardinality({u \in Users : ballots[u].committed = o})
    BY DEF PollCountsBallots
  <2>1. {u \in Users : ballots[u].committed = o} = {}
    BY <1>3, <1>4 DEF Stored
  <2> QED
    <3>1. counts[o].committed = 0
      BY <1>3 DEF Stored
    <3> QED
      BY <2>1, <3>1, FS_EmptySet
<1>10. KarmaIsLedger
  <2> SUFFICES ASSUME NEW a \in Authors
               PROVE  karma[a].committed.own = SumFunctionOnSet(Points, Given(a))
    BY <1>1, Domains DEF KarmaIsLedger, Given
  <2>1. \A k \in Given(a) : Points[k] = 0
    <3>1. \A k \in Given(a) : k \in Keys
      BY DEF Given
    <3>2. \A k \in Keys : Points[k] = ledger[k].committed
      BY <1>1, PointsTyped
    <3> QED
      BY <1>3, <3>1, <3>2 DEF Stored
  <2>2. SumFunctionOnSet(Points, Given(a)) = 0
    BY <2>1, KeysFinite, SumZero
  <2> QED
    BY <1>3, <2>2 DEF Stored
<1> QED
  BY <1>1, <1>5, <1>6, <1>7, <1>8, <1>9, <1>10 DEF VotesInv

(* Every step keeps it.                                                    *)
LEMMA VotesStep == VotesInv /\ [Next]_vars => VotesInv'
<1> SUFFICES ASSUME VotesInv, [Next]_vars PROVE VotesInv'
  OBVIOUS
<1> USE DEF VotesInv
<1>1. ASSUME NEW t \in Tx, Run(t) PROVE VotesInv'
  <2>1. Types'
    BY <1>1, TypesStep
  <2> QED
    BY <1>1, <2>1, HeldStep, RaceStep, WorkOwn, WorkOthers, DayStep, TallyStep, PollStep, KarmaStep
       DEF WorkInv
<1>2. ASSUME UNCHANGED <<votes, tally, ledger, karma, ballots, counts, tx, raced>>,
             Types', clock <= clock'
      PROVE  VotesInv'
  <2>3. HeldInv'
    BY <1>2 DEF HeldInv, HeldBy
  <2>4. RaceInv'
    BY <1>2 DEF RaceInv
  <2>5. ASSUME NEW t \in Tx PROVE WorkBy(t)'
    <3>1. WorkBy(t)
      BY DEF WorkInv
    <3>2. VoteWork(t)' <=> VoteWork(t)
      BY <1>2 DEF VoteWork
    <3>3. KarmaWork(t)' <=> KarmaWork(t)
      BY <1>2 DEF KarmaWork
    <3>4. PollWork(t)' <=> PollWork(t)
      BY <1>2 DEF PollWork
    <3> QED
      BY <1>2, <3>1, <3>2, <3>3, <3>4 DEF WorkBy
  <2>1. HeldInv' /\ RaceInv' /\ WorkInv'
    BY <2>3, <2>4, <2>5 DEF WorkInv
  <2>2. DayInv'
    <3>1. clock \in Days /\ clock' \in Days
      BY <1>2 DEF Types, TypeOK
    <3> QED
      BY <1>2, <3>1 DEF DayInv, Days
  <2>6. TallyIsVotes' /\ PollCountsBallots' /\ KarmaIsLedger'
    BY <1>2 DEF TallyIsVotes, Voting, PollCountsBallots, KarmaIsLedger, Points
  <2> QED
    BY <1>2, <2>1, <2>2, <2>6
<1>3. CASE Tick
  <2>1. clock \in Days /\ clock < MaxDay /\ clock' = clock + 1
    BY <1>3 DEF Tick, Types, TypeOK
  <2>2. clock' \in Days /\ clock <= clock'
    BY <2>1, CapAssumption DEF Days
  <2>3. TypeOK'
    BY <1>3, <2>2 DEF Tick, Types, TypeOK
  <2>4. TxInv'
    <3>1. ASSUME NEW t \in Tx PROVE TxOwn(t)'
      <4>1. TxOwn(t) /\ tx' = tx /\ tx[t].day \in Days
        BY <1>3 DEF Tick, Types, TypeOK, TxInv, Transaction
      <4>2. tx[t].day <= clock'
        BY <2>1, <2>2, <4>1 DEF TxOwn, Days
      <4> QED
        BY <4>1, <4>2 DEF TxOwn
    <3> QED
      BY <3>1 DEF TxInv
  <2> QED
    BY <1>2, <1>3, <2>2, <2>3, <2>4 DEF Tick, Types
<1>4. CASE UNCHANGED vars
  <2>1. Types'
    BY <1>4 DEF vars, Types, TypeOK, TxInv, TxOwn
  <2>2. clock <= clock'
    BY <1>4 DEF vars, Types, TypeOK, Days
  <2> QED
    BY <1>2, <1>4, <2>1, <2>2 DEF vars
<1> QED
  BY <1>1, <1>3, <1>4 DEF Next

(* The inductive invariant of votes, karma and polls.                      *)
THEOREM VotesInvariance == Spec => []VotesInv
<1>1. VotesInv /\ [Next]_vars => VotesInv'
  BY VotesStep
<1> QED
  BY <1>1, VotesInit, PTL DEF Spec

(* castVote and castBallot: a tally that no member's two simultaneous votes*)
(* raced on counts the votes, the counts of a poll count its ballots, and  *)
(* no member gives an author more than the cap on a day (CountersTell).    *)
THEOREM CountersAlwaysTell == Spec => []CountersTell
<1>1. VotesInv => CountersTell
  BY DEF VotesInv, Types, CountersTell
<1> QED
  BY <1>1, VotesInvariance, PTL

(* The karma of an author, own and public, is what the karma ledger of the *)
(* members adds up to (KarmaEarned), for every order of the statements of  *)
(* any number of overlapping votes.                                        *)
THEOREM KarmaAlwaysEarned == Spec => []KarmaEarned
<1>1. VotesInv => KarmaEarned
  BY CapFollows DEF VotesInv, KarmaEarned
<1> QED
  BY <1>1, VotesInvariance, PTL

(* Only a commit shows a new karma, and that of a vote on a signed item.   *)
LEMMA PublicStep ==
  ASSUME VotesInv, NEW t \in Tx, Run(t), NEW a \in Authors,
         karma'[a].committed.public # karma[a].committed.public
  PROVE  /\ tx[t].pc = "commit" /\ tx'[t].pc = "idle"
         /\ tx[t].item \in Items \ Anonymous
         /\ Author[tx[t].item] = a
<1>1. Types /\ HeldBy(t) /\ WorkBy(t) /\ DOMAIN tx = Tx
  BY DEF VotesInv, HeldInv, WorkInv, Types, TypeOK
<1>2. Commit(t)
  <2>1. CASE TablesStep(t, "runs")
    BY <1>1, <2>1, Domains, Committed DEF TablesStep
  <2> QED
    BY <1>1, <2>1, RunMoves
<1>3. /\ tx[t].pc = "commit" /\ tx'[t].pc = "idle" /\ karma' = PublishedAll(karma, t)
  BY <1>1, <1>2 DEF Commit, Return, Idle
<1>4. karma[a].holder = t
  BY <1>1, <1>3, Domains, Publishes
<1>5. tx[t].item \in Items /\ Author[tx[t].item] = a
  BY <1>1, <1>4 DEF HeldBy
<1>6. karma'[a].committed = Earned(karma[a].committed, tx[t].item, tx[t].applied)
  <2>1. karma[a].written = Earned(karma[a].committed, tx[t].item, tx[t].applied)
    BY <1>1, <1>3, <1>4, <1>5 DEF WorkBy, KarmaWork
  <2> QED
    BY <1>1, <1>3, <1>4, <2>1, Domains, Publishes
<1>7. tx[t].item \notin Anonymous
  BY <1>6 DEF Earned
<1> QED
  BY <1>3, <1>5, <1>7

(* A vote on an anonymous item never moves the public karma of its author  *)
(* (PublicMovesBySigned): nobody learns from the number who wrote it.      *)
THEOREM PublicAlwaysMovesBySigned == Spec => PublicMovesBySigned
<1> DEFINE Moves == \A a \in Authors :
       karma'[a].committed.public # karma[a].committed.public
         => \E t \in Tx : /\ tx[t].pc = "commit" /\ tx'[t].pc = "idle"
                          /\ tx[t].item \in Items \ Anonymous
                          /\ Author[tx[t].item] = a
<1>1. VotesInv /\ [Next]_vars => Moves
  <2> SUFFICES ASSUME VotesInv, [Next]_vars, NEW a \in Authors,
                      karma'[a].committed.public # karma[a].committed.public
               PROVE  \E t \in Tx : /\ tx[t].pc = "commit" /\ tx'[t].pc = "idle"
                                    /\ tx[t].item \in Items \ Anonymous
                                    /\ Author[tx[t].item] = a
    OBVIOUS
  <2>1. PICK t \in Tx : Run(t)
    BY DEF Next, Tick, vars
  <2> QED
    BY <2>1, PublicStep
<1> HIDE DEF Moves
<1>2. VotesInv /\ [Next]_vars => [Moves]_vars
  BY <1>1
<1>3. Spec => [][Moves]_vars
  BY <1>2, VotesInvariance, PTL DEF Spec
<1> QED
  BY <1>3 DEF PublicMovesBySigned, Moves

-----------------------------------------------------------------------------
(***************************************************************************)
(* The money ledger: the rows of each transaction balance, and the books are*)
(* the sums of the rows.                                                   *)
(***************************************************************************)

(* Reading a sum off any function that has the amounts.                    *)
LEMMA SumOfIs ==
  ASSUME NEW S, IsFiniteSet(S), NEW rows, NEW F, \A i \in S : F[i] = rows[i].amount
  PROVE  SumOf(rows, S) = SumFunctionOnSet(F, S)
<1> DEFINE G == [i \in S |-> rows[i].amount]
<1>1. \A i \in S : G[i] = F[i]
  OBVIOUS
<1> HIDE DEF G
<1>2. SumFunctionOnSet(G, S) = SumFunctionOnSet(F, S)
  BY <1>1, SumSame
<1> QED
  BY <1>2 DEF SumOf, G

(* Some of the first n numbers are finitely many.                          *)
LEMMA Indices ==
  ASSUME NEW n \in Nat, NEW S \in SUBSET (1..n)
  PROVE  IsFiniteSet(S)
<1>1. 1 \in Int /\ n \in Int
  OBVIOUS
<1>2. IsFiniteSet(1..n)
  BY <1>1, FS_Interval
<1> QED
  BY <1>2, FS_Subset

(* The sum over rows of a table that grew, old and new apart.              *)
LEMMA SumAppended ==
  ASSUME NEW old \in Seq(Entry), NEW more \in Seq(Entry),
         NEW S \in SUBSET (1..Len(old \o more))
  PROVE  LET n == Len(old)
         IN /\ SumOf(old \o more, S) = SumOf(old, S \cap (1..n))
                                       + SumOf(more, {j \in 1..Len(more) : n + j \in S})
            /\ SumOf(old, S \cap (1..n)) \in Int
            /\ SumOf(more, {j \in 1..Len(more) : n + j \in S}) \in Int
<1> DEFINE n == Len(old)
           m == Len(more)
           new == old \o more
           I == S \cap (1..n)
           J == {j \in 1..m : n + j \in S}
           f == [j \in J |-> n + j]
           F == [i \in 1..n + m |-> new[i].amount]
           G == [j \in 1..m |-> more[j].amount]
           H == [i \in 1..n |-> old[i].amount]
<1>1. n \in Nat /\ m \in Nat /\ Len(new) = n + m
  OBVIOUS
<1>2. /\ \A i \in 1..n : new[i] = old[i] /\ old[i] \in Entry
      /\ \A j \in 1..m : new[n + j] = more[j] /\ more[j] \in Entry /\ n + j \in 1..n + m
  OBVIOUS
<1>3. \A e \in Entry : e.amount \in Int
  BY DEF Entry
<1>4. /\ \A i \in 1..n : F[i] = H[i] /\ H[i] \in Int
      /\ \A j \in 1..m : F[n + j] = G[j] /\ G[j] \in Int
  <2>1. \A i \in 1..n : i \in 1..n + m
    BY <1>1
  <2> QED
    BY <1>1, <1>2, <1>3, <2>1
<1>5. S \in SUBSET (1..n + m) /\ I \in SUBSET (1..n) /\ J \in SUBSET (1..m)
  BY <1>1
<1>6. IsFiniteSet(S) /\ IsFiniteSet(I) /\ IsFiniteSet(J)
  <2>1. n + m \in Nat
    BY <1>1
  <2> HIDE DEF n, m, I, J, new
  <2> QED
    BY <1>1, <1>5, <2>1, Indices
<1>7. S = I \cup {f[j] : j \in J} /\ I \cap {f[j] : j \in J} = {}
  <2>1. \A i \in S : i \in I \/ \E j \in J : i = f[j]
    <3> TAKE i \in S
    <3>1. CASE i <= n
      BY <1>1, <1>5, <3>1
    <3>2. CASE ~(i <= n)
      <4>1. i - n \in 1..m /\ n + (i - n) = i
        BY <1>1, <1>5, <3>2
      <4>2. i - n \in J /\ f[i - n] = i
        BY <4>1
      <4> QED
        BY <4>2
    <3> QED
      BY <3>1, <3>2
  <2>2. \A j \in J : f[j] \in S /\ f[j] \notin 1..n
    BY <1>1
  <2> QED
    BY <2>1, <2>2
<1>8. \A j, k \in J : f[j] = f[k] => j = k
  BY <1>1
<1>9. \A j \in J : F[f[j]] = G[j] /\ G[j] \in Int
  BY <1>4
<1>10. \A i \in I : F[i] = H[i] /\ F[i] \in Int
  BY <1>4
<1>11. SumOf(new, S) = SumFunctionOnSet(F, S)
  <2>1. \A i \in S : F[i] = new[i].amount
    BY <1>5
  <2> HIDE DEF F, new
  <2> QED
    BY <1>6, <2>1, SumOfIs
<1>12. SumOf(old, I) = SumFunctionOnSet(H, I)
  <2>1. \A i \in I : H[i] = old[i].amount
    OBVIOUS
  <2> HIDE DEF H, I
  <2> QED
    BY <1>6, <2>1, SumOfIs
<1>13. SumOf(more, J) = SumFunctionOnSet(G, J)
  <2>1. \A j \in J : G[j] = more[j].amount
    OBVIOUS
  <2> HIDE DEF G, J
  <2> QED
    BY <1>6, <2>1, SumOfIs
<1> HIDE DEF F, G, H, I, J, f
<1>14. /\ IsFiniteSet({f[j] : j \in J})
       /\ SumFunctionOnSet(F, {f[j] : j \in J}) = SumFunctionOnSet(G, J)
  BY <1>6, <1>8, <1>9, SumImage
<1>15. \A k \in I \cup {f[j] : j \in J} : F[k] \in Int
  BY <1>9, <1>10
<1>16. SumFunctionOnSet(F, S) = SumFunctionOnSet(F, I) + SumFunctionOnSet(F, {f[j] : j \in J})
  BY <1>6, <1>7, <1>14, <1>15, SumUnion
<1>17. SumFunctionOnSet(F, I) = SumFunctionOnSet(H, I)
  BY <1>6, <1>10, SumSame
<1>18. SumFunctionOnSet(H, I) \in Int /\ SumFunctionOnSet(G, J) \in Int
  BY <1>6, <1>9, <1>10, SumTakes
<1>19. /\ SumOf(new, S) = SumOf(old, I) + SumOf(more, J)
       /\ SumOf(old, I) \in Int /\ SumOf(more, J) \in Int
  BY <1>11, <1>12, <1>13, <1>14, <1>16, <1>17, <1>18
<1> QED
  BY <1>19 DEF I, J

(* Calls are judged before they are inserted, and none is empty.           *)
Judged ==
  \A t \in Connections :
    /\ calls[t] # NoCall => calls[t].lines # <<>>
    /\ calls[t].pc = "commit" => Balanced(calls[t].lines) /\ WellFormed(calls[t].lines)

(* The inductive invariant of the ledger.                                  *)
PostingsInv == LedgerInv /\ Judged

(* A call is of its type, and is idle when there is none.                  *)
LEMMA CallTyped ==
  ASSUME LedgerTypes, NEW t \in Connections
  PROVE  /\ calls[t] = NoCall <=> calls[t].pc = "idle"
         /\ calls[t] # NoCall => /\ calls[t].txn \in Txns /\ calls[t].lines \in Seq(Line)
                                 /\ calls[t].pc \in {"exists", "insert", "commit"}
                                 /\ calls[t] \in Call
<1>1. calls[t] \in Call \cup {NoCall}
  BY DEF LedgerTypes
<1>2. BoundedSeq(Line, MaxLines) \subseteq Seq(Line)
  BY CallsAssumption DEF BoundedSeq, SeqOf
<1>3. NoCall.pc = "idle"
  BY DEF NoCall
<1>4. ASSUME calls[t] \in Call
      PROVE  /\ calls[t].pc \in {"exists", "insert", "commit"} /\ calls[t].txn \in Txns
             /\ calls[t].lines \in Seq(Line)
  BY <1>2, <1>4 DEF Call
<1> QED
  BY <1>1, <1>3, <1>4

(* What a judged call inserts: rows of its transaction that add up to zero.*)
LEMMA JudgedRows ==
  ASSUME LedgerTypes, Judged, NEW t \in Connections, calls[t].pc = "commit"
  PROVE  LET more == Rows(calls[t].txn, calls[t].lines)
         IN /\ more \in Seq(Entry) /\ more # <<>>
            /\ \A j \in 1..Len(more) : more[j].txn = calls[t].txn
            /\ SumOf(more, 1..Len(more)) = 0
<1> DEFINE txn == calls[t].txn
           lines == calls[t].lines
           more == Rows(txn, lines)
           m == Len(lines)
           D == {i \in 1..m : lines[i].amount # Null}
           F == [i \in 1..m |-> more[i].amount]
<1>1. /\ calls[t] # NoCall /\ txn \in Txns /\ lines \in Seq(Line) /\ lines # <<>>
      /\ Balanced(lines) /\ WellFormed(lines)
  BY CallTyped DEF Judged
<1> HIDE DEF txn, lines
<1>2. \A i \in 1..m : /\ lines[i] \in Line
                      /\ more[i] = [txn |-> txn, account |-> lines[i].account, amount |-> lines[i].amount]
  BY <1>1 DEF Rows
<1>3. \A i \in 1..m : /\ lines[i].account \in Accounts /\ lines[i].amount \in Int \ {0}
                      /\ lines[i].amount # Null
  BY <1>1, <1>2, AmountsAssumption DEF WellFormed, Line
<1> HIDE DEF F
<1>4. \A i \in 1..m : more[i] \in Entry /\ more[i].txn = txn /\ more[i].amount = lines[i].amount
  <2>1. ASSUME NEW a \in Accounts, NEW v \in Int \ {0}
        PROVE  [txn |-> txn, account |-> a, amount |-> v] \in Entry
    BY <1>1 DEF Entry
  <2> HIDE DEF more, m
  <2> TAKE i \in 1..m
  <2>2. more[i] = [txn |-> txn, account |-> lines[i].account, amount |-> lines[i].amount]
    BY <1>2
  <2>3. more[i] \in Entry
    BY <1>3, <2>1, <2>2
  <2> QED
    BY <2>2, <2>3
<1>5. m \in Nat /\ m # 0
  BY <1>1
<1>6. more \in Seq(Entry) /\ Len(more) = m
  BY <1>4, <1>5 DEF Rows
<1>7. D = 1..m
  BY <1>3
<1>8. IsFiniteSet(1..m)
  BY <1>5, Indices
<1>9. SumOf(lines, 1..m) = SumOf(more, 1..m)
  <2>1. \A i \in 1..m : F[i] = lines[i].amount /\ F[i] = more[i].amount
    BY <1>4 DEF F
  <2> HIDE DEF m, more
  <2>2. SumOf(lines, 1..m) = SumFunctionOnSet(F, 1..m)
    BY <1>8, <2>1, SumOfIs
  <2>3. SumOf(more, 1..m) = SumFunctionOnSet(F, 1..m)
    BY <1>8, <2>1, SumOfIs
  <2> QED
    BY <2>2, <2>3
<1>10. SumOf(lines, 1..m) = 0
  BY <1>1, <1>7 DEF Balanced, Total
<1>11. more # <<>>
  BY <1>5, <1>6
<1>12. SumOf(more, 1..Len(more)) = 0
  BY <1>6, <1>9, <1>10
<1>13. \A j \in 1..Len(more) : more[j].txn = txn
  BY <1>4, <1>6
<1> HIDE DEF more
<1> QED
  BY <1>6, <1>11, <1>12, <1>13 DEF more, txn, lines

(* The balances of the accounts add up to all that was ever posted.        *)
LEMMA BalancesAdd ==
  ASSUME NEW rows \in Seq(Entry)
  PROVE  LET books == [a \in Accounts |-> BalanceOf(rows, a)]
         IN /\ books \in [Accounts -> Int]
            /\ SumFunctionOnSet(books, Accounts) = SumOf(rows, 1..Len(rows))
<1> DEFINE n == Len(rows)
           F == [i \in 1..n |-> rows[i].amount]
           g == [i \in 1..n |-> rows[i].account]
           of(a) == {i \in 1..n : rows[i].account = a}
           books == [a \in Accounts |-> BalanceOf(rows, a)]
           fibres == [a \in Accounts |-> SumFunctionOnSet(F, {i \in 1..n : g[i] = a})]
<1>1. n \in Nat
  OBVIOUS
<1>2. \A i \in 1..n : F[i] \in Int /\ F[i] = rows[i].amount /\ g[i] \in Accounts /\ g[i] = rows[i].account
  <2>1. \A i \in 1..n : rows[i] \in Entry
    OBVIOUS
  <2> QED
    BY <2>1 DEF Entry
<1>3. IsFiniteSet(1..n) /\ \A a \in Accounts : of(a) \subseteq 1..n /\ IsFiniteSet(of(a))
  <2>1. \A a : of(a) \in SUBSET (1..n)
    OBVIOUS
  <2>2. 1..n \in SUBSET (1..n)
    OBVIOUS
  <2> HIDE DEF n, of
  <2> QED
    BY <1>1, <2>1, <2>2, Indices
<1>4. \A a \in Accounts : /\ {i \in 1..n : g[i] = a} = of(a)
                          /\ \A i \in of(a) : F[i] = rows[i].amount
  BY <1>2
<1>5. \A a \in Accounts : BalanceOf(rows, a) = SumOf(rows, of(a))
  BY DEF BalanceOf
<1> HIDE DEF F, g
<1>6. \A a \in Accounts : SumOf(rows, of(a)) = SumFunctionOnSet(F, of(a))
  <2> HIDE DEF of
  <2> QED
    BY <1>3, <1>4, SumOfIs
<1>7. \A a \in Accounts : SumFunctionOnSet(F, of(a)) \in Int
  <2>1. \A a \in Accounts : \A i \in of(a) : F[i] \in Int
    BY <1>2, <1>3
  <2> HIDE DEF of
  <2> QED
    BY <1>3, <2>1, SumTakes
<1>8. books = fibres
  <2>1. \A a \in Accounts : BalanceOf(rows, a) = SumFunctionOnSet(F, {i \in 1..n : g[i] = a})
    BY <1>4, <1>5, <1>6
  <2> QED
    BY <2>1
<1>9. books \in [Accounts -> Int]
  <2>1. \A a \in Accounts : BalanceOf(rows, a) \in Int
    BY <1>5, <1>6, <1>7
  <2> QED
    BY <2>1
<1>10. SumFunctionOnSet(fibres, Accounts) = SumFunctionOnSet(F, 1..n)
  <2>1. \A k \in 1..n : F[k] \in Int /\ g[k] \in Accounts
    BY <1>2
  <2> DEFINE N == 1..n
  <2> HIDE DEF n, N
  <2>2. \A k \in N : F[k] \in Int /\ g[k] \in Accounts
    BY <2>1 DEF N
  <2>3. IsFiniteSet(N)
    BY <1>3 DEF N
  <2>4. SumFunctionOnSet([a \in Accounts |-> SumFunctionOnSet(F, {i \in N : g[i] = a})], Accounts)
          = SumFunctionOnSet(F, N)
    BY <2>2, <2>3, AccountsAssumption, SumFibres
  <2> QED
    BY <2>4 DEF N
<1>11. SumOf(rows, 1..n) = SumFunctionOnSet(F, 1..n)
  <2> HIDE DEF n
  <2> QED
    BY <1>2, <1>3, SumOfIs
<1> HIDE DEF books, fibres
<1>12. SumFunctionOnSet(books, Accounts) = SumOf(rows, 1..n)
  BY <1>8, <1>10, <1>11
<1> QED
  BY <1>9, <1>12 DEF books

(* Sums over no rows.                                                      *)
LEMMA NoRows == ASSUME NEW rows PROVE SumOf(rows, {}) = 0
  BY SumEmpty DEF SumOf

-----------------------------------------------------------------------------
(* An empty table has nothing to balance.                                  *)
LEMMA LedgerStarts == LedgerInit => PostingsInv
<1> SUFFICES ASSUME LedgerInit PROVE PostingsInv
  OBVIOUS
<1>1. LedgerTypes /\ Judged
  BY DEF LedgerInit, LedgerTypes, Judged, NoCall
<1>2. \A txn \in Txns : {i \in 1..Len(entries) : entries[i].txn = txn} = {}
  BY DEF LedgerInit
<1>3. DoubleEntry
  BY <1>2, NoRows DEF DoubleEntry
<1> QED
  BY <1>1, <1>3 DEF PostingsInv, LedgerInv

(* The calls, and the rows but for what a commit appends.                  *)
LEMMA CallsStep ==
  ASSUME LedgerTypes, Judged, [LedgerNext]_ledgerVars
  PROVE  /\ calls' \in [Connections -> Call \cup {NoCall}]
         /\ retried' \in SUBSET Txns
         /\ Judged'
         /\ entries' = entries \/ \E t \in Connections : Post_Commit(t)
<1> USE DEF LedgerTypes
<1>1. ASSUME NEW t \in Connections, Done(t)
      PROVE  calls' \in [Connections -> Call \cup {NoCall}] /\ Judged'
  <2>1. \A s \in Connections : calls'[s] = IF s = t THEN NoCall ELSE calls[s]
    BY <1>1 DEF Done
  <2>2. NoCall.pc # "commit"
    BY DEF NoCall
  <2> QED
    BY <1>1, <2>1, <2>2 DEF Done, Judged
<1>2. ASSUME NEW t \in Connections, NEW pc \in {"insert", "commit"}, calls[t] # NoCall,
             calls' = [calls EXCEPT ![t].pc = pc],
             pc = "commit" => Balanced(calls[t].lines) /\ WellFormed(calls[t].lines)
      PROVE  calls' \in [Connections -> Call \cup {NoCall}] /\ Judged'
  <2>1. calls[t] \in Call
    BY <1>2, CallTyped
  <2>2. calls'[t] \in Call /\ calls'[t].pc = pc /\ calls'[t].lines = calls[t].lines
    BY <1>2, <2>1 DEF Call
  <2>3. \A s \in Connections : s # t => calls'[s] = calls[s]
    BY <1>2
  <2>4. calls' \in [Connections -> Call \cup {NoCall}]
    BY <1>2, <2>2, <2>3
  <2> QED
    BY <1>2, <2>2, <2>3, <2>4 DEF Judged
<1>3. ASSUME NEW t \in Connections, Post_Begin(t)
      PROVE  calls' \in [Connections -> Call \cup {NoCall}] /\ Judged'
  <2>1. PICK txn \in Txns, lines \in BoundedSeq(Line, MaxLines) :
          /\ lines # <<>>
          /\ calls' = [calls EXCEPT ![t] = [pc |-> "exists", txn |-> txn, lines |-> lines]]
    BY <1>3 DEF Post_Begin
  <2>2. [pc |-> "exists", txn |-> txn, lines |-> lines] \in Call
    BY DEF Call
  <2>3. \A s \in Connections :
          calls'[s] = IF s = t THEN [pc |-> "exists", txn |-> txn, lines |-> lines] ELSE calls[s]
    BY <2>1
  <2>4. calls' \in [Connections -> Call \cup {NoCall}]
    BY <2>1, <2>2, <2>3
  <2> QED
    BY <2>1, <2>3, <2>4 DEF Judged
<1>4. ASSUME NEW t \in Connections,
             Post_Begin(t) \/ Post_Exists(t) \/ Post_Insert(t) \/ Post_Commit(t) \/ Post_Abort(t)
      PROVE  /\ calls' \in [Connections -> Call \cup {NoCall}] /\ Judged'
             /\ entries' = entries \/ Post_Commit(t)
  <2>1. CASE Post_Begin(t)
    BY <1>3, <2>1 DEF Post_Begin
  <2>2. CASE Post_Exists(t)
    <3>1. calls[t] # NoCall
      BY <2>2, CallTyped DEF Post_Exists
    <3> QED
      BY <1>1, <1>2, <2>2, <3>1 DEF Post_Exists
  <2>3. CASE Post_Insert(t)
    <3>1. calls[t] # NoCall
      BY <2>3, CallTyped DEF Post_Insert
    <3>2. CASE Balanced(calls[t].lines) /\ WellFormed(calls[t].lines)
      BY <1>2, <2>3, <3>1, <3>2 DEF Post_Insert
    <3>3. CASE ~(Balanced(calls[t].lines) /\ WellFormed(calls[t].lines))
      BY <1>1, <2>3, <3>3 DEF Post_Insert
    <3> QED
      BY <2>3, <3>2, <3>3 DEF Post_Insert
  <2>4. CASE Post_Commit(t)
    BY <1>1, <2>4 DEF Post_Commit
  <2>5. CASE Post_Abort(t)
    BY <1>1, <2>5 DEF Post_Abort
  <2> QED
    BY <1>4, <2>1, <2>2, <2>3, <2>4, <2>5
<1>5. CASE UNCHANGED ledgerVars
  BY <1>5 DEF ledgerVars, Judged
<1>6. ASSUME NEW t \in Connections, Post_Exists(t) PROVE retried' \in SUBSET Txns
  <2>1. calls[t] \in Call
    BY <1>6, CallTyped DEF Post_Exists
  <2> QED
    BY <1>6, <2>1 DEF Post_Exists, Call
<1>7. retried' \in SUBSET Txns
  BY <1>5, <1>6 DEF LedgerNext, ledgerVars, Post_Begin, Post_Insert, Post_Commit, Post_Abort
<1> QED
  BY <1>4, <1>5, <1>7 DEF LedgerNext

(* A commit adds rows of one transaction, and they add up to nothing.      *)
LEMMA CommitBalances ==
  ASSUME PostingsInv, NEW t \in Connections, Post_Commit(t)
  PROVE  entries' \in Seq(Entry) /\ DoubleEntry'
<1> DEFINE more == Rows(calls[t].txn, calls[t].lines)
           n == Len(entries)
           of(rows, x) == {i \in 1..Len(rows) : rows[i].txn = x}
<1>1. LedgerTypes /\ Judged /\ DoubleEntry /\ entries \in Seq(Entry)
  BY DEF PostingsInv, LedgerInv, LedgerTypes
<1>2. calls[t].pc = "commit" /\ entries' = entries \o more
  BY DEF Post_Commit
<1>3. /\ more \in Seq(Entry) /\ SumOf(more, 1..Len(more)) = 0
      /\ \A j \in 1..Len(more) : more[j].txn = calls[t].txn
  BY <1>1, <1>2, JudgedRows
<1> HIDE DEF more
<1>4. entries' \in Seq(Entry)
  BY <1>1, <1>2, <1>3
<1>5. ASSUME NEW x \in Txns
      PROVE  SumOf(entries \o more, of(entries \o more, x)) = 0
  <2> DEFINE S == of(entries \o more, x)
             J == {j \in 1..Len(more) : n + j \in S}
  <2>1. /\ n \in Nat /\ Len(more) \in Nat /\ Len(entries \o more) = n + Len(more)
        /\ \A i \in 1..n : (entries \o more)[i] = entries[i]
        /\ \A j \in 1..Len(more) : (entries \o more)[n + j] = more[j]
    BY <1>1, <1>3
  <2>2. S \cap (1..n) = of(entries, x)
    BY <2>1
  <2>3. J = IF x = calls[t].txn THEN 1..Len(more) ELSE {}
    <3>1. \A j \in 1..Len(more) : n + j \in S <=> more[j].txn = x
      BY <2>1
    <3> QED
      BY <1>3, <3>1
  <2>4. SumOf(more, J) = 0
    BY <1>3, <2>3, NoRows
  <2>5. SumOf(entries, of(entries, x)) = 0
    BY <1>1 DEF DoubleEntry
  <2>6. S \in SUBSET (1..Len(entries \o more))
    OBVIOUS
  <2> HIDE DEF S
  <2>7. SumOf(entries \o more, S) = SumOf(entries, S \cap (1..n)) + SumOf(more, J)
    BY <1>1, <1>3, <2>6, SumAppended
  <2> HIDE DEF J, n, of
  <2>8. SumOf(entries \o more, S) = 0
    BY <2>2, <2>4, <2>5, <2>7
  <2> QED
    BY <2>8 DEF S
<1> QED
  BY <1>2, <1>4, <1>5 DEF DoubleEntry

(* Every step keeps the invariant.                                         *)
LEMMA PostingsStep == PostingsInv /\ [LedgerNext]_ledgerVars => PostingsInv'
<1> SUFFICES ASSUME PostingsInv, [LedgerNext]_ledgerVars PROVE PostingsInv'
  OBVIOUS
<1>1. LedgerTypes /\ Judged /\ DoubleEntry
  BY DEF PostingsInv, LedgerInv
<1>2. /\ calls' \in [Connections -> Call \cup {NoCall}] /\ Judged'
      /\ retried' \in SUBSET Txns
      /\ entries' = entries \/ \E t \in Connections : Post_Commit(t)
  BY <1>1, CallsStep
<1>3. CASE entries' = entries
  BY <1>1, <1>2, <1>3 DEF PostingsInv, LedgerInv, LedgerTypes, DoubleEntry, Entry
<1>4. CASE \E t \in Connections : Post_Commit(t)
  BY <1>2, <1>4, CommitBalances DEF PostingsInv, LedgerInv, LedgerTypes, Entry, Call
<1> QED
  BY <1>2, <1>3, <1>4

(* money_post_txn: whatever calls overlap, are refused, abort or repeat,   *)
(* the rows of each transaction id add up to nothing (LedgerInv).          *)
THEOREM LedgerKeepsItsBooks == LedgerSpec => []LedgerInv
<1>1. PostingsInv => LedgerInv
  BY DEF PostingsInv
<1> QED
  BY LedgerStarts, PostingsStep, <1>1, PTL DEF LedgerSpec

(* money_post_txn looks for its txn_id before it inserts, and no constraint*)
(* of the table repeats the check.  A call past its look-up finds its id   *)
(* still unposted, unless another call was past its own at the same time:  *)
(* both insert, and the id is one of the retried.                          *)
LookedUp ==
  /\ \A txn \in Txns : \A t \in Connections :
       Inserting(t, txn) => ~Posted(txn) \/ txn \in retried
  /\ \A txn \in Txns : \A s, t \in Connections :
       s # t /\ Inserting(s, txn) /\ Inserting(t, txn) => txn \in retried

(* What a step other than a commit makes of the calls past their look-up.  *)
LEMMA LookedUpQuiet ==
  ASSUME LookedUp, NEW t \in Connections, entries' = entries, retried \subseteq retried',
         \A s \in Connections : s # t => calls'[s] = calls[s],
         \A txn \in Txns : Inserting(t, txn)' =>
            \/ Inserting(t, txn)
            \/ /\ ~Posted(txn)
               /\ (\E s \in Connections : Inserting(s, txn)) => txn \in retried'
  PROVE  LookedUp'
<1>1. ASSUME NEW txn \in Txns, NEW s \in Connections, Inserting(s, txn)'
      PROVE  ~Posted(txn) \/ txn \in retried'
  BY <1>1 DEF LookedUp, Inserting
<1>2. ASSUME NEW txn \in Txns, NEW s \in Connections, NEW o \in Connections, s # o,
             Inserting(s, txn)', Inserting(o, txn)'
      PROVE  txn \in retried'
  BY <1>2 DEF LookedUp, Inserting
<1> QED
  BY <1>1, <1>2 DEF LookedUp, Posted

LEMMA LookedUpStep ==
  ASSUME PostingsInv, LookedUp, [LedgerNext]_ledgerVars
  PROVE  LookedUp'
<1>1. LedgerTypes /\ Judged
  BY DEF PostingsInv, LedgerInv
<1>2. NoCall.pc \notin {"insert", "commit"}
  BY DEF NoCall
<1>3. CASE UNCHANGED ledgerVars
  BY <1>3 DEF ledgerVars, LookedUp, Posted, Inserting
<1>6. ASSUME NEW t \in Connections, Done(t)
      PROVE  \A s \in Connections : calls'[s] = IF s = t THEN NoCall ELSE calls[s]
  BY <1>1, <1>6 DEF Done, LedgerTypes
<1>7. ASSUME NEW t \in Connections, NEW pc, calls[t] # NoCall, calls' = [calls EXCEPT ![t].pc = pc]
      PROVE  /\ \A s \in Connections : s # t => calls'[s] = calls[s]
             /\ calls'[t].pc = pc /\ calls'[t].txn = calls[t].txn
  <2>1. calls[t] \in Call
    BY <1>1, <1>7, CallTyped
  <2> QED
    BY <1>1, <1>7, <2>1 DEF LedgerTypes, Call
<1>8. ASSUME NEW t \in Connections, Post_Begin(t) PROVE LookedUp'
  <2>1. PICK txn, lines :
          calls' = [calls EXCEPT ![t] = [pc |-> "exists", txn |-> txn, lines |-> lines]]
    BY <1>8 DEF Post_Begin
  <2> DEFINE call == [pc |-> "exists", txn |-> txn, lines |-> lines]
  <2>2. \A s \in Connections : calls'[s] = IF s = t THEN call ELSE calls[s]
    BY <1>1, <2>1 DEF LedgerTypes
  <2>3. \A x \in Txns : ~Inserting(t, x)'
    BY <2>2 DEF Inserting
  <2>4. entries' = entries /\ retried' = retried
    BY <1>8 DEF Post_Begin
  <2> QED
    BY <2>2, <2>3, <2>4, LookedUpQuiet
<1>9. ASSUME NEW t \in Connections, Done(t), UNCHANGED <<entries, retried>> PROVE LookedUp'
  BY <1>2, <1>6, <1>9, LookedUpQuiet DEF Inserting
<1>10. ASSUME NEW t \in Connections, Post_Exists(t) PROVE LookedUp'
  <2>1. calls[t] \in Call /\ calls[t] # NoCall
    BY <1>1, <1>10, CallTyped DEF Post_Exists
  <2>2. CASE Posted(calls[t].txn)
    BY <1>9, <1>10, <2>2 DEF Post_Exists
  <2>3. CASE ~Posted(calls[t].txn)
    <3>1. /\ calls' = [calls EXCEPT ![t].pc = "insert"] /\ entries' = entries
          /\ retried' = IF \E s \in Connections : Inserting(s, calls[t].txn)
                          THEN retried \cup {calls[t].txn} ELSE retried
      BY <1>10, <2>3 DEF Post_Exists
    <3>2. /\ \A s \in Connections : s # t => calls'[s] = calls[s]
          /\ calls'[t].txn = calls[t].txn
      BY <1>7, <2>1, <3>1
    <3>3. \A x \in Txns : Inserting(t, x)' => x = calls[t].txn
      BY <3>2 DEF Inserting
    <3> QED
      BY <2>3, <3>1, <3>2, <3>3, LookedUpQuiet
  <2> QED
    BY <2>2, <2>3
<1>11. ASSUME NEW t \in Connections, Post_Insert(t) PROVE LookedUp'
  <2>1. calls[t] # NoCall /\ entries' = entries /\ retried' = retried
    BY <1>1, <1>11, CallTyped DEF Post_Insert
  <2>2. CASE Done(t)
    BY <1>9, <2>1, <2>2
  <2>3. CASE ~Done(t)
    <3>1. calls' = [calls EXCEPT ![t].pc = "commit"]
      BY <1>11, <2>3 DEF Post_Insert
    <3>2. /\ \A s \in Connections : s # t => calls'[s] = calls[s]
          /\ calls'[t].txn = calls[t].txn
      BY <1>7, <2>1, <3>1
    <3>3. \A x \in Txns : Inserting(t, x)' => Inserting(t, x)
      BY <1>11, <3>2 DEF Inserting, Post_Insert
    <3> QED
      BY <2>1, <3>2, <3>3, LookedUpQuiet
  <2> QED
    BY <2>2, <2>3
<1>12. ASSUME NEW t \in Connections, Post_Commit(t) PROVE LookedUp'
  <2> DEFINE more == Rows(calls[t].txn, calls[t].lines)
             n == Len(entries)
  <2>1. /\ calls[t].pc = "commit" /\ entries' = entries \o more /\ Done(t)
        /\ retried' = retried
    BY <1>12 DEF Post_Commit
  <2>2. more \in Seq(Entry) /\ \A j \in 1..Len(more) : more[j].txn = calls[t].txn
    BY <1>1, <2>1, JudgedRows
  <2>4. entries \in Seq(Entry)
    BY <1>1 DEF LedgerTypes
  <2> HIDE DEF more
  <2>5. \A i \in 1..Len(entries') : \/ i \in 1..n /\ entries'[i] = entries[i]
                                    \/ entries'[i].txn = calls[t].txn
    <3> TAKE i \in 1..Len(entries')
    <3>1. CASE i <= n
      BY <2>1, <2>2, <2>4, <3>1
    <3>2. CASE ~(i <= n)
      <4>1. i - n \in 1..Len(more) /\ entries'[i] = more[i - n]
        BY <2>1, <2>2, <2>4, <3>2
      <4> QED
        BY <2>2, <4>1
    <3> QED
      BY <3>1, <3>2
  <2>6. \A s \in Connections, x \in Txns :
          Inserting(s, x)' => s # t /\ Inserting(s, x)
    BY <1>2, <1>6, <2>1 DEF Inserting
  <2>7. ASSUME NEW s \in Connections, NEW x \in Txns, Inserting(s, x)'
        PROVE  ~Posted(x)' \/ x \in retried
    <3>1. CASE x = calls[t].txn
      <4>1. Inserting(t, x)
        BY <2>1, <3>1 DEF Inserting
      <4> QED
        BY <2>6, <2>7, <4>1 DEF LookedUp
    <3>2. CASE x # calls[t].txn
      BY <2>5, <2>6, <2>7, <3>2 DEF LookedUp, Posted
    <3> QED
      BY <3>1, <3>2
  <2>8. ASSUME NEW x \in Txns, NEW s \in Connections, NEW o \in Connections, s # o,
               Inserting(s, x)', Inserting(o, x)'
        PROVE  x \in retried
    BY <2>6, <2>8 DEF LookedUp
  <2> QED
    BY <2>1, <2>7, <2>8 DEF LookedUp
<1>13. ASSUME NEW t \in Connections, Post_Abort(t) PROVE LookedUp'
  BY <1>9, <1>13 DEF Post_Abort
<1> QED
  BY <1>3, <1>8, <1>10, <1>11, <1>12, <1>13 DEF LedgerNext

(* A commit is one posting of the books, any other step none.              *)
LEMMA CommitPosts ==
  ASSUME PostingsInv, LookedUp, NEW t \in Connections, Post_Commit(t)
  PROVE  Books!Post(calls[t].txn) /\ calls[t].txn \in Txns
<1> DEFINE more == Rows(calls[t].txn, calls[t].lines)
           n == Len(entries)
           N == 1..Len(entries \o more)
           books(rows) == [a \in Accounts |-> BalanceOf(rows, a)]
<1>1. LedgerTypes /\ Judged /\ entries \in Seq(Entry)
  BY DEF PostingsInv, LedgerInv, LedgerTypes
<1>2. calls[t].pc = "commit" /\ entries' = entries \o more
  BY DEF Post_Commit
<1>3. /\ more \in Seq(Entry) /\ more # <<>> /\ SumOf(more, 1..Len(more)) = 0
      /\ \A j \in 1..Len(more) : more[j].txn = calls[t].txn
  BY <1>1, <1>2, JudgedRows
<1> PICK txn : txn = calls[t].txn
  OBVIOUS
<1>4. txn \in Txns /\ (~Posted(txn) \/ txn \in retried) /\ retried' = retried
  <2>1. calls[t] # NoCall
    BY <1>1, <1>2, CallTyped
  <2>2. txn \in Txns /\ Inserting(t, txn)
    BY <1>1, <1>2, <2>1, CallTyped DEF Inserting
  <2> QED
    BY <2>2 DEF LookedUp, Post_Commit
<1> HIDE DEF more
<1>5. /\ entries \o more \in Seq(Entry) /\ n \in Nat /\ Len(more) \in Nat /\ Len(more) > 0
      /\ Len(entries \o more) = n + Len(more)
      /\ \A i \in 1..n : (entries \o more)[i] = entries[i]
      /\ \A j \in 1..Len(more) : (entries \o more)[n + j] = more[j]
  BY <1>1, <1>3
<1>6. SumOf(entries \o more, N) = SumOf(entries, 1..n)
  <2> DEFINE J == {j \in 1..Len(more) : n + j \in N}
  <2>1. N \cap (1..n) = 1..n /\ J = 1..Len(more)
    BY <1>5
  <2>2. N \in SUBSET (1..Len(entries \o more))
    OBVIOUS
  <2> HIDE DEF N
  <2>3. /\ SumOf(entries \o more, N) = SumOf(entries, N \cap (1..n)) + SumOf(more, J)
        /\ SumOf(entries, N \cap (1..n)) \in Int
    BY <1>1, <1>3, <2>2, SumAppended
  <2>4. SumOf(entries \o more, N) = SumOf(entries, 1..n) + 0
    BY <1>3, <2>1, <2>3
  <2>5. SumOf(entries, 1..n) \in Int
    BY <2>1, <2>3
  <2> HIDE DEF J, n
  <2> QED
    BY <2>4, <2>5
<1>7. /\ books(entries \o more) \in [Accounts -> Int]
      /\ SumFunctionOnSet(books(entries \o more), Accounts) = SumOf(entries \o more, N)
  BY <1>5, BalancesAdd
<1>8. SumFunctionOnSet(books(entries), Accounts) = SumOf(entries, 1..n)
  BY <1>1, BalancesAdd
<1>9. {x \in Txns : Posted(x)}' = {x \in Txns : Posted(x)} \cup {txn}
  <2>1. ASSUME NEW x \in Txns PROVE Posted(x)' <=> Posted(x) \/ x = txn
    <3>1. ASSUME NEW i \in 1..Len(entries \o more), (entries \o more)[i].txn = x
          PROVE  Posted(x) \/ x = txn
      <4>1. CASE i <= n
        BY <1>5, <3>1, <4>1 DEF Posted
      <4>2. CASE ~(i <= n)
        <5>1. i - n \in 1..Len(more) /\ n + (i - n) = i
          BY <1>5, <4>2
        <5> QED
          BY <1>3, <1>5, <3>1, <5>1
      <4> QED
        BY <4>1, <4>2
    <3>2. ASSUME NEW i \in 1..Len(entries), entries[i].txn = x PROVE Posted(x)'
      <4>1. i \in 1..Len(entries \o more) /\ (entries \o more)[i].txn = x
        BY <1>5, <3>2
      <4> QED
        BY <1>2, <4>1 DEF Posted
    <3>3. Posted(txn)'
      <4>1. n + 1 \in 1..Len(entries \o more) /\ 1 \in 1..Len(more)
        BY <1>5
      <4>2. (entries \o more)[n + 1].txn = txn
        BY <1>3, <1>5, <4>1
      <4> QED
        BY <1>2, <4>1, <4>2 DEF Posted
    <3> QED
      BY <1>2, <3>1, <3>2, <3>3 DEF Posted
  <2> QED
    BY <1>4, <2>1
<1>10. books(entries)' = books(entries \o more)
  BY <1>2
<1>11. SumFunctionOnSet(books(entries)', Accounts) = SumFunctionOnSet(books(entries), Accounts)
  <2> HIDE DEF books, N, n
  <2> QED
    BY <1>6, <1>7, <1>8, <1>10
<1>12. \A f : Books!SumFunctionOnSet(f, Accounts) = SumFunctionOnSet(f, Accounts)
  BY DEF SumFunctionOnSet, FoldFunctionOnSet, MapThenFoldSet,
         Books!SumFunctionOnSet, Books!FoldFunctionOnSet, Books!MapThenFoldSet
<1>13. Books!Post(txn)
  BY <1>4, <1>7, <1>9, <1>10, <1>11, <1>12 DEF Books!Post
<1> QED
  BY <1>4, <1>13

(* The books as they are read from the rows.                               *)
BookVars ==
  <<[a \in Accounts |-> BalanceOf(entries, a)], {txn \in Txns : Posted(txn)}, retried>>

(* Two calls past their look-up of one id: it was not posted yet.          *)
LEMMA LookUpDisputes ==
  ASSUME LedgerTypes, NEW t \in Connections, Post_Exists(t)
  PROVE  Books!Next \/ UNCHANGED BookVars
<1>1. calls[t].txn \in Txns /\ entries' = entries
  <2>1. calls[t] \in Call
    BY CallTyped DEF Post_Exists
  <2> QED
    BY <2>1 DEF Post_Exists, Call
<1> PICK txn \in Txns : txn = calls[t].txn
  BY <1>1
<1>2. /\ [a \in Accounts |-> BalanceOf(entries, a)]' = [a \in Accounts |-> BalanceOf(entries, a)]
      /\ {x \in Txns : Posted(x)}' = {x \in Txns : Posted(x)}
  BY <1>1 DEF Posted
<1>3. \/ retried' = retried
      \/ ~Posted(txn) /\ retried' = retried \cup {txn}
  BY DEF Post_Exists
<1>4. CASE retried' = retried
  BY <1>2, <1>4 DEF BookVars
<1>5. CASE ~Posted(txn) /\ retried' = retried \cup {txn}
  <2>1. Books!Dispute(txn)
    BY <1>2, <1>5 DEF Books!Dispute
  <2> QED
    BY <2>1 DEF Books!Next
<1> QED
  BY <1>3, <1>4, <1>5

(* Every step is one of the books or leaves them alone.                    *)
LEMMA BooksStep ==
  ASSUME PostingsInv, LookedUp, [LedgerNext]_ledgerVars
  PROVE  Books!Next \/ UNCHANGED BookVars
<1>1. CASE UNCHANGED <<entries, retried>>
  BY <1>1 DEF BookVars, BalanceOf, Posted
<1>2. ASSUME NEW t \in Connections, Post_Exists(t) PROVE Books!Next \/ UNCHANGED BookVars
  BY <1>2, LookUpDisputes DEF PostingsInv, LedgerInv
<1>3. ASSUME NEW t \in Connections, Post_Commit(t) PROVE Books!Next
  BY <1>3, CommitPosts DEF Books!Next
<1> QED
  BY <1>1, <1>2, <1>3 DEF LedgerNext, ledgerVars, Post_Begin, Post_Insert, Post_Abort

(* No rows, no balance.                                                    *)
LEMMA BooksStart == LedgerInit => Books!Init /\ LookedUp
<1> SUFFICES ASSUME LedgerInit PROVE Books!Init /\ LookedUp
  OBVIOUS
<1>1. entries = <<>> /\ retried = {} /\ \A t \in Connections : calls[t].pc = "idle"
  BY DEF LedgerInit, NoCall
<1>2. ASSUME NEW a \in Accounts PROVE BalanceOf(entries, a) = 0
  <2>1. {i \in 1..Len(entries) : entries[i].account = a} = {}
    BY <1>1
  <2> QED
    BY <2>1, NoRows DEF BalanceOf
<1>3. \A x \in Txns : ~Posted(x)
  BY <1>1 DEF Posted
<1> QED
  BY <1>1, <1>2, <1>3 DEF Books!Init, LookedUp, Inserting

(* Whatever calls of money_post_txn overlap, are refused, die or repeat, a *)
(* posting only moves money between accounts, and an id that was posted    *)
(* takes no further rows: a retry that looks it up after the commit is     *)
(* refused.  Only when two calls had both looked an id up before either    *)
(* committed (Dispute) can it be posted again, by those.                   *)
THEOREM PostsOnce == LedgerSpec => BooksSpec
<1>1. PostingsInv /\ LookedUp /\ [LedgerNext]_ledgerVars
        => LookedUp' /\ [Books!Next]_BookVars
  BY LookedUpStep, BooksStep
<1> QED
  BY <1>1, LedgerStarts, PostingsStep, BooksStart, PTL
     DEF LedgerSpec, BooksSpec, Books!Spec, Books!vars, BookVars

-----------------------------------------------------------------------------
(***************************************************************************)
(* Ingestion: for any portal, any crawl order, and any number of errors,   *)
(* blocks, crashes and changes, no term of the table mixes two crawls and a*)
(* run called successful has written its entries.                          *)
(***************************************************************************)

(* TermsAreWhole is kept by the two sides of the diff alone.  That success *)
(* means written rests on where a run may be: between the commit of its    *)
(* entries and its last line in the log.                                   *)
WroteBeforeFinish ==
  /\ run.pc = "finish" => wrote
  /\ run.pc # "idle" => log = "running"
  /\ log = "success" => wrote

(* The inductive invariant of ingestion.                                   *)
IngestionInv == IngestionTypes /\ TermsAreWhole /\ WroteBeforeFinish

(* Closing what the batch lacks and inserting what the table lacks leaves  *)
(* the batch, for a term the batch has entries of, and nothing else moves. *)
LEMMA DiffIsExact ==
  ASSUME NEW t \in Terms, IngestionTypes
  PROVE  LET current == (table.current \ Closes) \cup Inserts
         IN InTerm(current, t) = IF t \in Diffed THEN InTerm(run.batch, t)
                                 ELSE InTerm(table.current, t)
<1> DEFINE current == (table.current \ Closes) \cup Inserts
<1>1. ASSUME NEW s, TermOf[s] = t
      PROVE  /\ s \in Inserts <=> t \in Diffed /\ s \in run.batch /\ s \notin table.current
             /\ s \in Closes <=> t \in Diffed /\ s \in table.current /\ s \notin run.batch
  BY <1>1 DEF Inserts, Closes, Plans, Planned, InTerm
<1>2. CASE t \in Diffed
  BY <1>1, <1>2 DEF InTerm
<1>3. CASE t \notin Diffed
  BY <1>1, <1>3 DEF InTerm
<1> QED
  BY <1>2, <1>3

-----------------------------------------------------------------------------
(* The invariant holds at the start and is kept by every step.             *)
LEMMA Lists == <<>> \in Requests /\ <<Panel>> \in Requests
  BY TreeAssumption DEF Requests

(* It holds of an empty table.                                             *)
LEMMA IngestionStarts == IngestionInit => IngestionInv
  BY Lists, BoundsAssumption
     DEF IngestionInit, IngestionInv, IngestionTypes, NoRun, Statuses, Terms, TermsAreWhole,
         InTerm, WroteBeforeFinish

(* A run stays within its types.                                           *)
LEMMA IngestionTypesStep ==
  IngestionTypes /\ [IngestionNext]_ingestionVars => IngestionTypes'
<1> SUFFICES ASSUME IngestionTypes, [IngestionNext]_ingestionVars
             PROVE  IngestionTypes'
  OBVIOUS
<1> USE BoundsAssumption DEF IngestionTypes, Statuses
<1>1. CASE Start
  <2>1. run' = [pc |-> "crawl", todo |-> <<Panel>>, tries |-> 0, batch |-> {}]
    BY <1>1 DEF Start, NoRun
  <2> QED
    BY <1>1, <2>1, Lists DEF Start
<1>2. CASE Fetch
  <2> DEFINE rest == Children[Head(run.todo)] \o Tail(run.todo)
             found == run.batch \cup {s \in portal : PageOf[s] = Head(run.todo)}
  <2>1. run.todo # <<>> /\ run.todo \in Requests
    BY <1>2 DEF Fetch, Crawling
  <2>2. rest \in Requests
    BY <2>1, TreeAssumption DEF Requests
  <2>3. found \subseteq Slots
    OBVIOUS
  <2>4. run' = [run EXCEPT !.tries = 0, !.todo = rest, !.batch = found]
    BY <1>2 DEF Fetch
  <2>5. UNCHANGED <<portal, table, log, faults, changes, source>>
    BY <1>2 DEF Fetch
  <2> HIDE DEF rest, found
  <2>6. run' = [pc |-> run.pc, todo |-> rest, tries |-> 0, batch |-> found]
    BY <2>4
  <2>7. 0 \in 0..MaxTries - 1
    OBVIOUS
  <2> QED
    BY <2>2, <2>3, <2>5, <2>6, <2>7
<1>3. CASE Retry
  BY <1>3 DEF Retry, Fault, Crawling
<1>4. CASE Skip
  <2> DEFINE rest == Tail(run.todo)
  <2>1. run.todo # <<>> /\ run.todo \in Requests
    BY <1>4 DEF Skip, Crawling
  <2>2. rest \in Requests
    BY <2>1 DEF Requests
  <2>3. \/ run' = [run EXCEPT !.pc = "failed"]
        \/ run' = [run EXCEPT !.tries = 0, !.todo = rest]
    BY <1>4 DEF Skip
  <2>4. UNCHANGED <<portal, table, log, changes, source>> /\ Fault
    BY <1>4 DEF Skip
  <2> HIDE DEF rest
  <2>5. 0 \in 0..MaxTries - 1
    OBVIOUS
  <2>6. run' \in [pc : {"idle", "crawl", "persist", "finish", "failed"}, todo : Requests,
                  tries : 0..MaxTries - 1, batch : SUBSET Slots]
    BY <2>2, <2>3, <2>5
  <2> QED
    BY <2>4, <2>6 DEF Fault
<1>5. CASE Blocked
  BY <1>5 DEF Blocked, Fault, RunTo
<1>6. CASE Snapshot
  BY <1>6 DEF Snapshot, RunTo
<1>7. CASE Persist
  <2>1. Inserts \subseteq Slots /\ Closes \subseteq Slots
    <3>1. ASSUME NEW t \in Diffed
          PROVE  /\ Plans[t].insert \subseteq InTerm(run.batch, t)
                 /\ Plans[t].close \subseteq InTerm(table.current, t)
      BY DEF Plans, Planned
    <3>2. run.batch \subseteq Slots /\ table.current \subseteq Slots
      OBVIOUS
    <3>3. \A t \in Diffed : Plans[t].insert \subseteq Slots /\ Plans[t].close \subseteq Slots
      BY <3>1, <3>2 DEF InTerm
    <3> QED
      BY <3>3 DEF Inserts, Closes
  <2> QED
    BY <1>7, <2>1 DEF Persist, RunTo, InTerm
<1>8. CASE PersistFails
  BY <1>8 DEF PersistFails, Fault, RunTo
<1>9. CASE FinishSuccess \/ FinishFailed
  BY <1>9, Lists DEF FinishSuccess, FinishFailed, Finish, NoRun
<1>10. CASE FinishThrows
  BY <1>10 DEF FinishThrows, Fault, RunTo
<1>11. CASE Crash
  BY <1>11, Lists DEF Crash, Fault, NoRun
<1>12. CASE PortalChanges
  BY <1>12 DEF PortalChanges
<1>13. CASE UNCHANGED ingestionVars
  BY <1>13 DEF ingestionVars
<1> QED
  BY <1>1, <1>2, <1>3, <1>4, <1>5, <1>6, <1>7, <1>8, <1>9, <1>10, <1>11, <1>12, <1>13
     DEF IngestionNext

(* Only the persisting transaction touches the entries.                    *)
LEMMA WholeStep ==
  IngestionTypes /\ TermsAreWhole /\ [IngestionNext]_ingestionVars => TermsAreWhole'
<1> SUFFICES ASSUME IngestionTypes, TermsAreWhole, [IngestionNext]_ingestionVars, NEW t \in Terms
             PROVE  InTerm(table'.current, t) = source'[t]
  BY DEF TermsAreWhole, Terms, InTerm
<1>1. CASE Persist
  BY <1>1, DiffIsExact DEF Persist, TermsAreWhole
<1>2. CASE UNCHANGED <<table, source>>
  BY <1>2 DEF TermsAreWhole
<1> QED
  BY <1>1, <1>2 DEF IngestionNext, ingestionVars, Start, Fetch, Retry, Skip, Blocked, Snapshot,
                    PersistFails, FinishSuccess, FinishFailed, Finish, FinishThrows, Crash, PortalChanges

(* What a run has written when it calls itself a success.                  *)
LEMMA WroteStep ==
  IngestionTypes /\ WroteBeforeFinish /\ [IngestionNext]_ingestionVars => WroteBeforeFinish'
<1> SUFFICES ASSUME IngestionTypes, WroteBeforeFinish, [IngestionNext]_ingestionVars
             PROVE  WroteBeforeFinish'
  OBVIOUS
<1> USE DEF IngestionTypes, WroteBeforeFinish, RunTo
<1>1. CASE Start
  BY <1>1 DEF Start, NoRun
<1>2. CASE Fetch \/ Retry \/ Skip \/ Blocked \/ Snapshot
  BY <1>2 DEF Fetch, Retry, Skip, Blocked, Snapshot, Crawling
<1>3. CASE Persist \/ PersistFails
  BY <1>3 DEF Persist, PersistFails
<1>4. CASE FinishSuccess \/ FinishFailed \/ FinishThrows
  BY <1>4 DEF FinishSuccess, FinishFailed, Finish, FinishThrows, NoRun
<1>5. CASE Crash \/ PortalChanges \/ UNCHANGED ingestionVars
  BY <1>5 DEF Crash, PortalChanges, NoRun, ingestionVars
<1> QED
  BY <1>1, <1>2, <1>3, <1>4, <1>5 DEF IngestionNext

-----------------------------------------------------------------------------
(* The inductive invariant of ingestion.                                   *)
THEOREM IngestionInvariance == IngestionSpec => []IngestionInv
<1>1. IngestionInv /\ [IngestionNext]_ingestionVars => IngestionInv'
  BY IngestionTypesStep, WholeStep, WroteStep DEF IngestionInv
<1> QED
  BY IngestionStarts, <1>1, PTL DEF IngestionSpec

(* runIngestion leaves no term with a mix of two crawls, wherever it dies. *)
THEOREM TermsStayWhole == IngestionSpec => []TableInv
  BY IngestionInvariance, PTL DEF IngestionInv, TableInv

(* A run that is logged as a success has committed its entries, also when  *)
(* recording the result fails and is recorded as a failure.                *)
THEOREM SuccessMeansPersisted == IngestionSpec => []SuccessIsPersisted
<1>1. IngestionInv => SuccessIsPersisted
  BY DEF IngestionInv, WroteBeforeFinish, SuccessIsPersisted
<1> QED
  BY IngestionInvariance, <1>1, PTL

-----------------------------------------------------------------------------
(***************************************************************************)
(* The timetable's intervals: the sort, the merge, the gaps and the count  *)
(* of minutes are folds over a list.  Each fold is unrolled into its       *)
(* passes once, and an invariant of the passes says which minutes they     *)
(* have gone through.                                                      *)
(***************************************************************************)

(* Some of the first n numbers have a greatest.                            *)
LEMMA MaxOf ==
  ASSUME NEW n \in Nat, NEW s \in SUBSET (1..n), s # {}
  PROVE  Max(s) \in s /\ \A y \in s : Max(s) >= y
<1> DEFINE Good == {m \in Nat : \A r \in SUBSET (1..m) : r # {} => \E x \in r : \A y \in r : x >= y}
<1>1. 0 \in Good
  <2>1. 1..0 = {}
    OBVIOUS
  <2> QED
    BY <2>1
<1>2. ASSUME NEW m \in Nat, m \in Good PROVE m + 1 \in Good
  <2>1. ASSUME NEW r \in SUBSET (1..m + 1), r # {} PROVE \E x \in r : \A y \in r : x >= y
    <3>1. CASE m + 1 \in r
      BY <3>1
    <3>2. CASE m + 1 \notin r
      <4>1. r \in SUBSET (1..m)
        BY <3>2
      <4> QED
        BY <1>2, <2>1, <4>1
    <3> QED
      BY <3>1, <3>2
  <2> QED
    BY <2>1
<1>3. n \in Good
  <2> HIDE DEF Good
  <2> QED
    BY <1>1, <1>2, SetInduction
<1>4. \E x \in s : \A y \in s : x >= y
  BY <1>3
<1> QED
  BY <1>4 DEF Max

(* f, the step of a fold, stays within A.                                  *)
Within(f, n, A) == \A k \in 1..n, a \in A : f[<<k, a>>] \in A

(* g is the function the fold of FoldLeft recurs through.                  *)
FoldsUp(g, n, A, base, f) ==
  /\ g \in [SUBSET (1..n) -> A]
  /\ \A s \in SUBSET (1..n) :
       g[s] = IF s = {} THEN base ELSE f[<<Max(s), g[s \ {Max(s)}]>>]

(* Without its greatest number.                                            *)
LEMMA Below ==
  ASSUME NEW m \in Nat, NEW s \in SUBSET (1..m + 1)
  PROVE  s \ {m + 1} \in SUBSET (1..m)
<1>1. \A x \in s \ {m + 1} : x \in 1..m
  OBVIOUS
<1> QED
  BY <1>1

(* The recursion of FoldLeft has a solution: f is its step, the number of  *)
(* an element and what was folded so far.                                  *)
LEMMA FoldExists ==
  ASSUME NEW n \in Nat, NEW A, NEW base \in A, NEW f, Within(f, n, A)
  PROVE  \E g : FoldsUp(g, n, A, base, f)
<1> DEFINE Step(g, s) == IF s = {} THEN base ELSE f[<<Max(s), g[s \ {Max(s)}]>>]
           Has(m) == \E g \in [SUBSET (1..m) -> A] : \A s \in SUBSET (1..m) : g[s] = Step(g, s)
           Good == {m \in Nat : m <= n => Has(m)}
<1>0. \A k \in 1..n, a \in A : f[<<k, a>>] \in A
  BY DEF Within
<1>1. 0 \in Good
  <2> DEFINE g == [s \in SUBSET (1..0) |-> base]
  <2>1. g \in [SUBSET (1..0) -> A] /\ \A s \in SUBSET (1..0) : s = {} /\ g[s] = base
    OBVIOUS
  <2> HIDE DEF g
  <2> QED
    BY <2>1
<1>2. ASSUME NEW m \in Nat, m \in Good, m + 1 <= n
      PROVE  Has(m + 1)
  <2>0. m <= n /\ m + 1 \in 1..n /\ m + 1 \in Nat
    BY <1>2
  <2>1. PICK g \in [SUBSET (1..m) -> A] : \A s \in SUBSET (1..m) : g[s] = Step(g, s)
    <3> HIDE DEF Step
    <3> QED
      BY <1>2, <2>0
  <2> DEFINE h == [s \in SUBSET (1..m + 1) |->
                     IF m + 1 \in s THEN f[<<m + 1, g[s \ {m + 1}]>>] ELSE g[s]]
  <2>2. ASSUME NEW s \in SUBSET (1..m + 1) PROVE s \ {m + 1} \in SUBSET (1..m)
    BY Below
  <2>3. \A s \in SUBSET (1..m) : s \in SUBSET (1..m + 1) /\ m + 1 \notin s
    OBVIOUS
  <2>4. \A s \in SUBSET (1..m) : h[s] = g[s]
    BY <2>3
  <2>5. h \in [SUBSET (1..m + 1) -> A]
    <3>1. \A s \in SUBSET (1..m + 1) : g[s \ {m + 1}] \in A /\ m + 1 \in 1..n
      BY <2>0, <2>2
    <3>2. \A s \in SUBSET (1..m + 1) : m + 1 \notin s => g[s] \in A
      <4> TAKE s \in SUBSET (1..m + 1)
      <4> HAVE m + 1 \notin s
      <4>1. s = s \ {m + 1}
        OBVIOUS
      <4> QED
        BY <3>1, <4>1
    <3>3. \A s \in SUBSET (1..m + 1) : f[<<m + 1, g[s \ {m + 1}]>>] \in A
      BY <1>0, <3>1
    <3> QED
      BY <3>2, <3>3
  <2>6. ASSUME NEW s \in SUBSET (1..m + 1) PROVE h[s] = Step(h, s)
    <3>1. CASE m + 1 \in s
      <4>1. Max(s) = m + 1
        <5>1. s # {}
          BY <3>1
        <5> HIDE DEF h, Step, Good
        <5>2. Max(s) \in s /\ \A y \in s : Max(s) >= y
          BY <2>0, <5>1, MaxOf
        <5>3. Max(s) \in 1..m + 1 /\ Max(s) >= m + 1
          BY <3>1, <5>2
        <5> QED
          BY <5>3
      <4>2. h[s] = f[<<m + 1, g[s \ {m + 1}]>>]
        BY <3>1
      <4>3. h[s \ {m + 1}] = g[s \ {m + 1}]
        BY <2>2, <2>4
      <4> HIDE DEF h
      <4> QED
        BY <3>1, <4>1, <4>2, <4>3
    <3>2. CASE m + 1 \notin s
      <4>1. s \in SUBSET (1..m)
        <5>1. s = s \ {m + 1}
          BY <3>2
        <5> QED
          BY <2>2, <5>1
      <4>2. h[s] = g[s] /\ g[s] = Step(g, s)
        BY <2>1, <2>4, <4>1
      <4>3. s \ {Max(s)} \in SUBSET (1..m)
        BY <4>1
      <4>4. h[s \ {Max(s)}] = g[s \ {Max(s)}]
        BY <2>4, <4>3
      <4> HIDE DEF h
      <4> QED
        BY <4>2, <4>4
    <3> QED
      BY <3>1, <3>2
  <2>7. \A s \in SUBSET (1..m + 1) : h[s] = Step(h, s)
    BY <2>6
  <2> HIDE DEF h, Step
  <2> QED
    BY <2>5, <2>7
<1>3. \A m \in Nat : m \in Good => m + 1 \in Good
  <2> TAKE m \in Nat
  <2> HAVE m \in Good
  <2> HIDE DEF Has
  <2> QED
    BY <1>2
<1>4. n \in Good
  <2> HIDE DEF Good
  <2> QED
    BY <1>1, <1>3, SetInduction
<1>5. n <= n
  OBVIOUS
<1>6. \E g \in [SUBSET (1..n) -> A] : \A s \in SUBSET (1..n) : g[s] = Step(g, s)
  <2> HIDE DEF Step
  <2> QED
    BY <1>4, <1>5
<1> QED
  BY <1>6 DEF FoldsUp

(* The sets 1..k by which FoldLeft counts.                                 *)
LEMMA Counting ==
  ASSUME NEW n \in Nat
  PROVE  /\ 1..0 = {}
         /\ \A k \in 0..n : 1..k \in SUBSET (1..n)
         /\ \A k \in 1..n : 1..k # {} /\ Max(1..k) = k /\ (1..k) \ {k} = 1..k - 1
<1>1. ASSUME NEW k \in 1..n PROVE Max(1..k) = k
  <2>1. 1..k # {} /\ 1..k \in SUBSET (1..k) /\ k \in Nat
    OBVIOUS
  <2>2. Max(1..k) \in 1..k /\ \A y \in 1..k : Max(1..k) >= y
    BY <2>1, MaxOf
  <2> QED
    BY <2>2
<1>2. \A k \in 1..n : 1..k # {} /\ (1..k) \ {k} = 1..k - 1
  OBVIOUS
<1> QED
  BY <1>1, <1>2

(* Two clock times, in whichever order.                                    *)
Span == [start: Int, end: Int]

(* The greatest and the least of two.                                      *)
LEMMA MaxMin ==
  ASSUME NEW a \in Int, NEW b \in Int
  PROVE  /\ Max({a, b}) = IF a >= b THEN a ELSE b
         /\ Min({a, b}) = IF a <= b THEN a ELSE b
  BY DEF Max, Min

(* A pass of mergeIntervals leaves intervals.                              *)
LEMMA CoalesceTyped ==
  ASSUME NEW out \in Seq(Span), NEW w \in Span
  PROVE  Coalesce(out, w) \in Seq(Span)
<1>1. CASE out # <<>> /\ w.start <= Last(out).end
  <2> DEFINE n == Len(out)
             e == Max({out[n].end, w.end})
  <2>1. n \in 1..Len(out) /\ out[n] \in Span
    BY <1>1
  <2>2. e \in Int
    <3>1. out[n].end \in Int /\ w.end \in Int
      BY <2>1 DEF Span
    <3> QED
      BY <3>1, MaxMin
  <2> HIDE DEF e
  <2>3. [out[n] EXCEPT !.end = e] \in Span
    BY <2>1, <2>2 DEF Span
  <2>4. Coalesce(out, w) = [out EXCEPT ![n] = [out[n] EXCEPT !.end = e]]
    BY <1>1, <2>1 DEF Coalesce, e
  <2> QED
    BY <2>1, <2>3, <2>4
<1>2. CASE ~(out # <<>> /\ w.start <= Last(out).end)
  BY <1>2 DEF Coalesce
<1> QED
  BY <1>1, <1>2

(* The loop of mergeIntervals, pass by pass.                               *)
LEMMA MergeRuns ==
  ASSUME NEW intervals, NEW s \in Seq(Span), s = Sorted(intervals)
  PROVE  \E pass : /\ pass[0] = <<>>
                   /\ \A k \in 1..Len(s) : pass[k] = Coalesce(pass[k - 1], s[k])
                   /\ MergeIntervals(intervals) = pass[Len(s)]
<1> DEFINE n == Len(s)
           base == <<>>
           f == [p \in (1..n) \X Seq(Span) |-> Coalesce(p[2], s[p[1]])]
           iter == CHOOSE it : it = [r \in SUBSET (1..n) |->
                     IF r = {} THEN base ELSE Coalesce(it[r \ {Max(r)}], s[Max(r)])]
           pass == [k \in 0..n |-> iter[1..k]]
<1>1. n \in Nat /\ DOMAIN s = 1..n /\ \A k \in 1..n : s[k] \in Span
  OBVIOUS
<1>2. MergeIntervals(intervals) = iter[1..n]
  BY <1>1 DEF MergeIntervals, FoldLeft, MapThenFoldSet
<1>3. \A k \in 1..n, a \in Seq(Span) : f[<<k, a>>] = Coalesce(a, s[k]) /\ f[<<k, a>>] \in Seq(Span)
  BY <1>1, CoalesceTyped
<1>4. base \in Seq(Span)
  OBVIOUS
<1> HIDE DEF f, n, base
<1>5. PICK g : FoldsUp(g, n, Seq(Span), base, f)
  <2> DEFINE A == Seq(Span)
  <2>1. base \in A /\ Within(f, n, A)
    BY <1>3, <1>4 DEF Within
  <2> HIDE DEF A
  <2>2. \E g : FoldsUp(g, n, A, base, f)
    BY <1>1, <2>1, FoldExists
  <2> QED
    BY <2>2 DEF A
<1>6. /\ g \in [SUBSET (1..n) -> Seq(Span)]
      /\ \A r \in SUBSET (1..n) : g[r] = IF r = {} THEN base ELSE f[<<Max(r), g[r \ {Max(r)}]>>]
  BY <1>5 DEF FoldsUp
<1>7. \A r \in SUBSET (1..n) : g[r] = IF r = {} THEN base ELSE Coalesce(g[r \ {Max(r)}], s[Max(r)])
  <2> TAKE r \in SUBSET (1..n)
  <2>1. CASE r # {}
    <3>1. Max(r) \in 1..n
      BY <1>1, <2>1, MaxOf
    <3>2. g[r \ {Max(r)}] \in Seq(Span)
      <4>1. r \ {Max(r)} \in SUBSET (1..n)
        OBVIOUS
      <4> QED
        BY <1>6, <4>1
    <3> QED
      BY <1>3, <1>6, <2>1, <3>1, <3>2
  <2> QED
    BY <1>6, <2>1
<1>8. g = [r \in SUBSET (1..n) |-> IF r = {} THEN base ELSE Coalesce(g[r \ {Max(r)}], s[Max(r)])]
  BY <1>6, <1>7
<1>9. iter = [r \in SUBSET (1..n) |->
                IF r = {} THEN base ELSE Coalesce(iter[r \ {Max(r)}], s[Max(r)])]
  BY <1>8
<1> HIDE DEF iter
<1>10. pass[0] = base
  BY <1>1, <1>9, Counting
<1>11. \A k \in 1..n : pass[k] = Coalesce(pass[k - 1], s[k])
  <2> TAKE k \in 1..n
  <2>1. 1..k \in SUBSET (1..n) /\ 1..k # {} /\ Max(1..k) = k /\ (1..k) \ {k} = 1..k - 1
    BY <1>1, Counting
  <2>2. iter[1..k] = Coalesce(iter[1..k - 1], s[k])
    BY <1>9, <2>1
  <2>3. k \in 0..n /\ k - 1 \in 0..n
    BY <1>1
  <2> QED
    BY <2>2, <2>3
<1>12. pass[n] = iter[1..n]
  BY <1>1
<1> HIDE DEF pass
<1> QED
  BY <1>2, <1>10, <1>11, <1>12 DEF n, base

(* The cursor of freeGaps and the gaps behind it.                          *)
Cursor == [at: Int, found: Seq(Span)]

(* What freeGaps returns: a last gap follows a cursor within the window.   *)
AtEnd(g, w) == IF g.at < w.end THEN Append(g.found, [start |-> g.at, end |-> w.end])
               ELSE g.found

(* A pass of freeGaps leaves a cursor and gaps.                            *)
LEMMA GapTyped ==
  ASSUME NEW g \in Cursor, NEW b \in Span, NEW w \in Span
  PROVE  Gap(g, b, w) \in Cursor
<1>1. g.at \in Int /\ g.found \in Seq(Span) /\ b.start \in Int /\ b.end \in Int
  BY DEF Cursor, Span
<1>2. Max({g.at, b.end}) \in Int
  BY <1>1, MaxMin
<1>3. Append(g.found, [start |-> g.at, end |-> b.start]) \in Seq(Span)
  <2>1. [start |-> g.at, end |-> b.start] \in Span
    BY <1>1 DEF Span
  <2> QED
    BY <1>1, <2>1
<1> QED
  BY <1>1, <1>2, <1>3 DEF Gap, Cursor

(* The loop of freeGaps, pass by pass.                                     *)
LEMMA GapRuns ==
  ASSUME NEW busy, NEW w \in Span, NEW s \in Seq(Span), s = MergeIntervals(busy)
  PROVE  \E pass : /\ pass[0] = [at |-> w.start, found |-> <<>>]
                   /\ \A k \in 1..Len(s) : pass[k] = Gap(pass[k - 1], s[k], w)
                   /\ FreeGaps(busy, w) = AtEnd(pass[Len(s)], w)
<1> DEFINE n == Len(s)
           base == [at |-> w.start, found |-> <<>>]
           f == [p \in (1..n) \X Cursor |-> Gap(p[2], s[p[1]], w)]
           iter == CHOOSE it : it = [r \in SUBSET (1..n) |->
                     IF r = {} THEN base ELSE Gap(it[r \ {Max(r)}], s[Max(r)], w)]
           pass == [k \in 0..n |-> iter[1..k]]
<1>1. n \in Nat /\ DOMAIN s = 1..n /\ \A k \in 1..n : s[k] \in Span
  OBVIOUS
<1>2. FreeGaps(busy, w) = AtEnd(iter[1..n], w)
  BY <1>1 DEF FreeGaps, AtEnd, FoldLeft, MapThenFoldSet
<1>3. \A k \in 1..n, a \in Cursor : f[<<k, a>>] = Gap(a, s[k], w) /\ f[<<k, a>>] \in Cursor
  BY <1>1, GapTyped
<1>4. base \in Cursor
  BY DEF Cursor, Span
<1> HIDE DEF f, n, base
<1>5. PICK g : FoldsUp(g, n, Cursor, base, f)
  <2> DEFINE A == Cursor
  <2>1. base \in A /\ Within(f, n, A)
    BY <1>3, <1>4 DEF Within
  <2> HIDE DEF A
  <2>2. \E g : FoldsUp(g, n, A, base, f)
    BY <1>1, <2>1, FoldExists
  <2> QED
    BY <2>2 DEF A
<1>6. /\ g \in [SUBSET (1..n) -> Cursor]
      /\ \A r \in SUBSET (1..n) : g[r] = IF r = {} THEN base ELSE f[<<Max(r), g[r \ {Max(r)}]>>]
  BY <1>5 DEF FoldsUp
<1>7. \A r \in SUBSET (1..n) : g[r] = IF r = {} THEN base ELSE Gap(g[r \ {Max(r)}], s[Max(r)], w)
  <2> TAKE r \in SUBSET (1..n)
  <2>1. CASE r # {}
    <3>1. Max(r) \in 1..n
      BY <1>1, <2>1, MaxOf
    <3>2. g[r \ {Max(r)}] \in Cursor
      <4>1. r \ {Max(r)} \in SUBSET (1..n)
        OBVIOUS
      <4> QED
        BY <1>6, <4>1
    <3> QED
      BY <1>3, <1>6, <2>1, <3>1, <3>2
  <2> QED
    BY <1>6, <2>1
<1>8. g = [r \in SUBSET (1..n) |-> IF r = {} THEN base ELSE Gap(g[r \ {Max(r)}], s[Max(r)], w)]
  BY <1>6, <1>7
<1>9. iter = [r \in SUBSET (1..n) |->
                IF r = {} THEN base ELSE Gap(iter[r \ {Max(r)}], s[Max(r)], w)]
  BY <1>8
<1> HIDE DEF iter
<1>10. pass[0] = base
  BY <1>1, <1>9, Counting
<1>11. \A k \in 1..n : pass[k] = Gap(pass[k - 1], s[k], w)
  <2> TAKE k \in 1..n
  <2>1. 1..k \in SUBSET (1..n) /\ 1..k # {} /\ Max(1..k) = k /\ (1..k) \ {k} = 1..k - 1
    BY <1>1, Counting
  <2>2. iter[1..k] = Gap(iter[1..k - 1], s[k], w)
    BY <1>9, <2>1
  <2>3. k \in 0..n /\ k - 1 \in 0..n
    BY <1>1
  <2> QED
    BY <2>2, <2>3
<1>12. pass[n] = iter[1..n]
  BY <1>1
<1> HIDE DEF pass
<1> QED
  BY <1>2, <1>10, <1>11, <1>12 DEF n, base

(* The loop of totalMinutes, pass by pass.                                 *)
LEMMA TotalRuns ==
  ASSUME NEW intervals, NEW s \in Seq(Span), s = MergeIntervals(intervals)
  PROVE  \E pass : /\ pass[0] = 0
                   /\ \A k \in 1..Len(s) : pass[k] = pass[k - 1] + (s[k].end - s[k].start)
                   /\ TotalMinutes(intervals) = pass[Len(s)]
<1> DEFINE n == Len(s)
           base == 0
           f == [p \in (1..n) \X Int |-> p[2] + (s[p[1]].end - s[p[1]].start)]
           iter == CHOOSE it : it = [r \in SUBSET (1..n) |->
                     IF r = {} THEN base ELSE it[r \ {Max(r)}] + (s[Max(r)].end - s[Max(r)].start)]
           pass == [k \in 0..n |-> iter[1..k]]
<1>1. n \in Nat /\ DOMAIN s = 1..n /\ \A k \in 1..n : s[k] \in Span
  OBVIOUS
<1>2. TotalMinutes(intervals) = iter[1..n]
  BY <1>1 DEF TotalMinutes, FoldLeft, MapThenFoldSet
<1>3. \A k \in 1..n, a \in Int : f[<<k, a>>] = a + (s[k].end - s[k].start) /\ f[<<k, a>>] \in Int
  BY <1>1 DEF Span
<1>4. base \in Int
  OBVIOUS
<1> HIDE DEF f, n, base
<1>5. PICK g : FoldsUp(g, n, Int, base, f)
  <2> DEFINE A == Int
  <2>1. base \in A /\ Within(f, n, A)
    BY <1>3, <1>4 DEF Within
  <2> HIDE DEF A
  <2>2. \E g : FoldsUp(g, n, A, base, f)
    BY <1>1, <2>1, FoldExists
  <2> QED
    BY <2>2 DEF A
<1>6. /\ g \in [SUBSET (1..n) -> Int]
      /\ \A r \in SUBSET (1..n) : g[r] = IF r = {} THEN base ELSE f[<<Max(r), g[r \ {Max(r)}]>>]
  BY <1>5 DEF FoldsUp
<1>7. \A r \in SUBSET (1..n) : g[r] = IF r = {} THEN base ELSE g[r \ {Max(r)}] + (s[Max(r)].end - s[Max(r)].start)
  <2> TAKE r \in SUBSET (1..n)
  <2>1. CASE r # {}
    <3>1. Max(r) \in 1..n
      BY <1>1, <2>1, MaxOf
    <3>2. g[r \ {Max(r)}] \in Int
      <4>1. r \ {Max(r)} \in SUBSET (1..n)
        OBVIOUS
      <4> QED
        BY <1>6, <4>1
    <3> QED
      BY <1>3, <1>6, <2>1, <3>1, <3>2
  <2> QED
    BY <1>6, <2>1
<1>8. g = [r \in SUBSET (1..n) |-> IF r = {} THEN base ELSE g[r \ {Max(r)}] + (s[Max(r)].end - s[Max(r)].start)]
  BY <1>6, <1>7
<1>9. iter = [r \in SUBSET (1..n) |->
                IF r = {} THEN base ELSE iter[r \ {Max(r)}] + (s[Max(r)].end - s[Max(r)].start)]
  BY <1>8
<1> HIDE DEF iter
<1>10. pass[0] = base
  BY <1>1, <1>9, Counting
<1>11. \A k \in 1..n : pass[k] = pass[k - 1] + (s[k].end - s[k].start)
  <2> TAKE k \in 1..n
  <2>1. 1..k \in SUBSET (1..n) /\ 1..k # {} /\ Max(1..k) = k /\ (1..k) \ {k} = 1..k - 1
    BY <1>1, Counting
  <2>2. iter[1..k] = iter[1..k - 1] + (s[k].end - s[k].start)
    BY <1>9, <2>1
  <2>3. k \in 0..n /\ k - 1 \in 0..n
    BY <1>1
  <2> QED
    BY <2>2, <2>3
<1>12. pass[n] = iter[1..n]
  BY <1>1
<1> HIDE DEF pass
<1> QED
  BY <1>2, <1>10, <1>11, <1>12 DEF n, base

(* The order of the sort is total.                                         *)
LEMMA OrderTotal ==
  ASSUME NEW u \in Span, NEW v \in Span, NEW w \in Span
  PROVE  /\ NotAfter(u, u)
         /\ NotAfter(u, v) \/ NotAfter(v, u)
         /\ NotAfter(u, v) /\ NotAfter(v, w) => NotAfter(u, w)
         /\ NotAfter(u, v) => u.start <= v.start
  BY DEF NotAfter, Span

(* Of finitely many intervals one is after all others.                     *)
LEMMA LastOne ==
  ASSUME NEW S, IsFiniteSet(S), NEW v \in [S -> Span], S # {}
  PROVE  \E x \in S : \A y \in S : NotAfter(v[y], v[x])
<1> DEFINE Good == {s \in SUBSET S : s # {} => \E x \in s : \A y \in s : NotAfter(v[y], v[x])}
<1>1. ASSUME NEW s \in SUBSET S, \A x \in s : s \ {x} \in Good PROVE s \in Good
  <2>1. CASE s = {}
    BY <2>1
  <2>2. ASSUME NEW x \in s PROVE \E z \in s : \A y \in s : NotAfter(v[y], v[z])
    <3>1. CASE s \ {x} = {}
      <4>1. \A y \in s : y = x
        BY <3>1
      <4>2. NotAfter(v[x], v[x])
        BY OrderTotal
      <4> QED
        BY <2>2, <4>1, <4>2
    <3>2. CASE s \ {x} # {}
      <4>1. PICK z \in s \ {x} : \A y \in s \ {x} : NotAfter(v[y], v[z])
        BY <1>1, <2>2, <3>2
      <4>2. v[x] \in Span /\ v[z] \in Span /\ \A y \in s : v[y] \in Span
        BY <1>1, <2>2, <4>1
      <4>3. CASE NotAfter(v[x], v[z])
        BY <4>1, <4>3
      <4>4. CASE NotAfter(v[z], v[x])
        <5>1. ASSUME NEW y \in s PROVE NotAfter(v[y], v[x])
          <6>1. CASE y = x
            BY <4>2, <6>1, OrderTotal
          <6>2. CASE y # x
            <7>1. NotAfter(v[y], v[z])
              BY <4>1, <6>2
            <7> QED
              BY <4>2, <4>4, <7>1, OrderTotal
          <6> QED
            BY <6>1, <6>2
        <5> QED
          BY <2>2, <5>1
      <4> QED
        BY <4>2, <4>3, <4>4, OrderTotal
    <3> QED
      BY <3>1, <3>2
  <2> QED
    BY <1>1, <2>1, <2>2
<1> HIDE DEF Good
<1>2. S \in Good
  BY <1>1, FiniteInduction
<1> QED
  BY <1>2 DEF Good

(* p lists intervals of v in that order, none of them twice.               *)
InOrder(p, v, c) ==
  /\ \A j, k \in 1..c : j # k => p[j] # p[k]
  /\ \A j, k \in 1..c : j < k => NotAfter(v[p[j]], v[p[k]])

(* So finitely many intervals can be put in order.                         *)
LEMMA CanBeSorted ==
  ASSUME NEW S, IsFiniteSet(S), NEW v \in [S -> Span]
  PROVE  \E p \in [1..Cardinality(S) -> S] : InOrder(p, v, Cardinality(S))
<1> DEFINE Has(s) == \E p \in [1..Cardinality(s) -> s] : InOrder(p, v, Cardinality(s))
           Good == {s \in SUBSET S : Has(s)}
<1>1. ASSUME NEW s \in SUBSET S, \A x \in s : s \ {x} \in Good PROVE Has(s)
  <2>1. CASE s = {}
    <3>1. Cardinality(s) = 0 /\ 1..0 = {}
      BY <2>1, FS_EmptySet
    <3>2. [k \in 1..0 |-> k] \in [1..0 -> s] /\ InOrder([k \in 1..0 |-> k], v, 0)
      BY <3>1 DEF InOrder
    <3> QED
      BY <3>1, <3>2
  <2>2. CASE s # {}
    <3>1. IsFiniteSet(s)
      BY FS_Subset
    <3>2. PICK x \in s : \A y \in s : NotAfter(v[y], v[x])
      <4> DEFINE u == [y \in s |-> v[y]]
      <4>1. u \in [s -> Span]
        OBVIOUS
      <4>2. \A y \in s : u[y] = v[y]
        OBVIOUS
      <4> HIDE DEF u, Has, Good
      <4>3. \E x \in s : \A y \in s : NotAfter(u[y], u[x])
        BY <2>2, <3>1, <4>1, LastOne
      <4> QED
        BY <4>2, <4>3
    <3>3. PICK c \in Nat : c = Cardinality(s \ {x}) /\ Cardinality(s) = c + 1
      <4>1. IsFiniteSet(s \ {x}) /\ Cardinality(s \ {x}) = Cardinality(s) - 1
        BY <3>1, <3>2, FS_RemoveElement
      <4>2. Cardinality(s \ {x}) \in Nat /\ Cardinality(s) \in Nat
        BY <3>1, <4>1, FS_CardinalityType
      <4> QED
        BY <4>1, <4>2
    <3>4. PICK q \in [1..c -> s \ {x}] : InOrder(q, v, c)
      <4>1. Has(s \ {x})
        BY <1>1, <3>2
      <4> QED
        BY <3>3, <4>1
    <3> DEFINE p == [k \in 1..c + 1 |-> IF k = c + 1 THEN x ELSE q[k]]
    <3>5. \A k \in 1..c + 1 : k # c + 1 => k \in 1..c
      BY <3>3
    <3>6. p \in [1..c + 1 -> s]
      BY <3>2, <3>5
    <3>7. p[c + 1] = x /\ \A k \in 1..c : p[k] = q[k] /\ q[k] \in s /\ q[k] # x
      <4>1. c + 1 \in 1..c + 1
        BY <3>3
      <4>2. p[c + 1] = x
        BY <4>1
      <4>3. \A k \in 1..c : q[k] \in s \ {x}
        OBVIOUS
      <4>4. \A k \in 1..c : k \in 1..c + 1 /\ k # c + 1
        BY <3>3
      <4>5. \A k \in 1..c : p[k] = q[k]
        BY <4>4
      <4> QED
        BY <4>2, <4>3, <4>5
    <3> HIDE DEF p
    <3>8. InOrder(p, v, c + 1)
      <4>1. ASSUME NEW j \in 1..c + 1, NEW k \in 1..c + 1, j # k PROVE p[j] # p[k]
        <5>1. CASE j = c + 1
          BY <3>5, <3>7, <4>1, <5>1
        <5>2. CASE k = c + 1
          BY <3>5, <3>7, <4>1, <5>2
        <5>3. CASE j # c + 1 /\ k # c + 1
          BY <3>4, <3>5, <3>7, <4>1, <5>3 DEF InOrder
        <5> QED
          BY <5>1, <5>2, <5>3
      <4>2. ASSUME NEW j \in 1..c + 1, NEW k \in 1..c + 1, j < k PROVE NotAfter(v[p[j]], v[p[k]])
        <5>1. j \in 1..c
          BY <4>2
        <5>2. CASE k = c + 1
          BY <3>2, <3>7, <5>1, <5>2
        <5>3. CASE k # c + 1
          <6>1. k \in 1..c
            BY <3>5, <5>3
          <6>2. NotAfter(v[q[j]], v[q[k]])
            BY <3>4, <4>2, <5>1, <6>1 DEF InOrder
          <6> QED
            BY <3>7, <5>1, <6>1, <6>2
        <5> QED
          BY <5>2, <5>3
      <4> QED
        BY <4>1, <4>2 DEF InOrder
    <3> QED
      BY <3>3, <3>6, <3>8
  <2> QED
    BY <2>1, <2>2
<1>2. \A s \in SUBSET S : (\A x \in s : s \ {x} \in Good) => s \in Good
  <2> HIDE DEF Has
  <2> QED
    BY <1>1
<1> HIDE DEF Good
<1>3. S \in Good
  BY <1>2, FiniteInduction
<1> QED
  BY <1>3 DEF Good

(* An enumeration that repeats nothing leaves nothing out.                 *)
LEMMA Enumerates ==
  ASSUME NEW S, IsFiniteSet(S), NEW p \in [1..Cardinality(S) -> S],
         \A j, k \in 1..Cardinality(S) : j # k => p[j] # p[k]
  PROVE  \A x \in S : \E k \in 1..Cardinality(S) : p[k] = x
<1> DEFINE c == Cardinality(S)
<1>1. c \in Nat /\ IsFiniteSet(1..c) /\ Cardinality(1..c) = c
  <2>1. c \in Nat
    BY FS_CardinalityType
  <2>2. IsFiniteSet(1..c) /\ Cardinality(1..c) = IF 1 > c THEN 0 ELSE c - 1 + 1
    <3> HIDE DEF c
    <3> QED
      BY <2>1, FS_Interval
  <2> QED
    BY <2>1, <2>2
<1>2. p \in Injection(1..c, S)
  BY DEF Injection, IsInjective
<1> HIDE DEF c
<1>3. p \in Surjection(1..c, S)
  BY <1>1, <1>2, FS_Injection DEF c
<1> QED
  BY <1>3 DEF Surjection, c

(* The order in which a scan returns some rows.                            *)
LEMMA Scanned ==
  ASSUME NEW S, IsFiniteSet(S)
  PROVE  /\ SetToSeq(S) \in [1..Cardinality(S) -> S] /\ Cardinality(S) \in Nat
         /\ \A j, k \in 1..Cardinality(S) : j # k => SetToSeq(S)[j] # SetToSeq(S)[k]
         /\ \A x \in S : \E k \in 1..Cardinality(S) : SetToSeq(S)[k] = x
<1>1. \E f \in [1..Cardinality(S) -> S] : IsInjective(f)
  BY FS_CardinalityType DEF ExistsBijection, Bijection, Injection
<1>2. SetToSeq(S) \in [1..Cardinality(S) -> S] /\ IsInjective(SetToSeq(S))
  BY <1>1 DEF SetToSeq
<1>3. \A j, k \in 1..Cardinality(S) : j # k => SetToSeq(S)[j] # SetToSeq(S)[k]
  BY <1>2 DEF IsInjective
<1>4. Cardinality(S) \in Nat
  BY FS_CardinalityType
<1>5. \A x \in S : \E k \in 1..Cardinality(S) : SetToSeq(S)[k] = x
  BY <1>2, <1>3, Enumerates
<1> QED
  BY <1>2, <1>3, <1>4, <1>5

(* Intervals in the order of their starts.                                 *)
Rising(s) == \A j, k \in 1..Len(s) : j < k => s[j].start <= s[k].start

(* The elements of a list of intervals.                                    *)
LEMMA Spans ==
  ASSUME NEW s \in Seq(Span)
  PROVE  /\ Len(s) \in Nat /\ DOMAIN s = 1..Len(s)
         /\ \A k \in 1..Len(s) : s[k] \in Span /\ s[k].start \in Int /\ s[k].end \in Int
<1>1. \A k \in 1..Len(s) : s[k] \in Span
  OBVIOUS
<1>2. \A w \in Span : w.start \in Int /\ w.end \in Int
  BY DEF Span
<1> QED
  BY <1>1, <1>2

(* A minute that a list covers lies in one of its intervals.               *)
LEMMA CoveredBy ==
  ASSUME NEW s, NEW x
  PROVE  x \in Covered(s) <=> \E k \in DOMAIN s : x \in Minutes(s[k])
  BY DEF Covered

(* An interval holds the minutes from its start to its end.                *)
LEMMA MinutesOf ==
  ASSUME NEW w \in Span
  PROVE  /\ \A x : x \in Minutes(w) <=> x \in Int /\ w.start <= x /\ x < w.end
         /\ Minutes(w) = {} <=> w.end <= w.start
<1>1. w.start \in Int /\ w.end \in Int
  BY DEF Span
<1>2. \A x : x \in Minutes(w) <=> x \in Int /\ w.start <= x /\ x < w.end
  BY <1>1 DEF Minutes
<1>3. w.start < w.end => w.start \in Minutes(w)
  BY <1>1, <1>2
<1> QED
  BY <1>1, <1>2, <1>3

(* What the filter and the sort of mergeIntervals leave.                   *)
LEMMA SortedIs ==
  ASSUME NEW intervals \in Seq(Span)
  PROVE  /\ Sorted(intervals) \in Seq(Span)
         /\ \A k \in 1..Len(Sorted(intervals)) :
              Sorted(intervals)[k].start < Sorted(intervals)[k].end
         /\ Rising(Sorted(intervals))
         /\ Covered(Sorted(intervals)) = Covered(intervals)
<1> DEFINE n == Len(intervals)
           kept == {k \in DOMAIN intervals : intervals[k].end > intervals[k].start}
           c == Cardinality(kept)
           Ordered(p) == \A j, k \in DOMAIN p : j < k => NotAfter(intervals[p[j]], intervals[p[k]])
           order == CHOOSE p \in SetToSeqs(kept) : Ordered(p)
           v == [k \in kept |-> intervals[k]]
           s == [k \in DOMAIN order |-> intervals[order[k]]]
<1>1. n \in Nat /\ DOMAIN intervals = 1..n /\ \A k \in 1..n : intervals[k] \in Span
  OBVIOUS
<1>2. Sorted(intervals) = s
  BY DEF Sorted
<1>3. IsFiniteSet(kept) /\ c \in Nat
  <2>1. IsFiniteSet(1..n) /\ kept \in SUBSET (1..n)
    <3>1. IsFiniteSet(1..n)
      <4> HIDE DEF n
      <4> QED
        BY <1>1, FS_Interval
    <3> QED
      BY <1>1, <3>1
  <2> HIDE DEF kept
  <2> QED
    BY <2>1, FS_Subset, FS_CardinalityType
<1>4. v \in [kept -> Span] /\ \A k \in kept : v[k] = intervals[k]
  BY <1>1
<1> HIDE DEF v, n
<1>5. \E p \in SetToSeqs(kept) : Ordered(p)
  <2> HIDE DEF kept
  <2>1. PICK p \in [1..c -> kept] : InOrder(p, v, c)
    BY <1>3, <1>4, CanBeSorted
  <2>2. p \in SetToSeqs(kept)
    BY <2>1 DEF SetToSeqs, InOrder
  <2>3. Ordered(p)
    <3>1. DOMAIN p = 1..c /\ \A k \in 1..c : p[k] \in kept
      OBVIOUS
    <3> QED
      BY <1>4, <2>1, <3>1 DEF InOrder
  <2> QED
    BY <2>2, <2>3
<1>6. order \in SetToSeqs(kept) /\ Ordered(order)
  <2> HIDE DEF Ordered, kept
  <2> QED
    BY <1>5
<1> HIDE DEF order
<1>7. /\ order \in [1..c -> kept] /\ DOMAIN order = 1..c
      /\ \A j, k \in 1..c : j # k => order[j] # order[k]
  <2> HIDE DEF kept
  <2> QED
    BY <1>6 DEF SetToSeqs
<1>8. \A x \in kept : \E k \in 1..c : order[k] = x
  <2> HIDE DEF kept
  <2> QED
    BY <1>3, <1>7, Enumerates
<1>9. \A k \in 1..c : /\ order[k] \in 1..n /\ s[k] = intervals[order[k]]
                     /\ s[k] \in Span /\ s[k].start < s[k].end
  <2> TAKE k \in 1..c
  <2>1. order[k] \in kept
    BY <1>7
  <2>2. order[k] \in 1..n /\ intervals[order[k]] \in Span
    BY <1>1, <2>1
  <2>3. s[k] = intervals[order[k]]
    BY <1>7
  <2>4. intervals[order[k]].start \in Int /\ intervals[order[k]].end \in Int
    BY <2>2 DEF Span
  <2>5. intervals[order[k]].end > intervals[order[k]].start
    BY <2>1
  <2> QED
    BY <2>2, <2>3, <2>4, <2>5
<1>10. s \in Seq(Span) /\ Len(s) = c /\ DOMAIN s = 1..c
  <2>1. s = [k \in 1..c |-> s[k]]
    BY <1>7
  <2> HIDE DEF s, kept
  <2>2. s \in [1..c -> Span]
    BY <1>9, <2>1
  <2> QED
    BY <1>3, <2>2
<1>11. Rising(s)
  <2>1. ASSUME NEW j \in 1..c, NEW k \in 1..c, j < k PROVE s[j].start <= s[k].start
    <3>1. NotAfter(s[j], s[k])
      BY <1>6, <1>7, <1>9, <2>1
    <3> HIDE DEF s, kept
    <3> QED
      BY <1>9, <3>1, OrderTotal
  <2> HIDE DEF s, kept
  <2> QED
    BY <1>10, <2>1 DEF Rising
<1>12. Covered(s) = Covered(intervals)
  <2>1. ASSUME NEW x \in Covered(s) PROVE x \in Covered(intervals)
    <3> HIDE DEF s, kept
    <3>1. PICK k \in 1..c : x \in Minutes(s[k])
      BY <1>10, <2>1, CoveredBy
    <3> QED
      BY <1>1, <1>9, <3>1, CoveredBy
  <2>2. ASSUME NEW x \in Covered(intervals) PROVE x \in Covered(s)
    <3>1. PICK i \in 1..n : x \in Minutes(intervals[i])
      BY <1>1, <2>2, CoveredBy
    <3>2. i \in kept
      <4>1. intervals[i] \in Span /\ intervals[i].start \in Int /\ intervals[i].end \in Int
        BY <1>1 DEF Span
      <4>2. intervals[i].start < intervals[i].end
        BY <3>1, <4>1, MinutesOf
      <4> QED
        BY <1>1, <4>1, <4>2
    <3>3. PICK k \in 1..c : order[k] = i
      BY <1>8, <3>2
    <3> HIDE DEF s, kept
    <3> QED
      BY <1>9, <1>10, <3>1, <3>3, CoveredBy
  <2> QED
    BY <2>1, <2>2
<1> HIDE DEF s, kept
<1> QED
  BY <1>2, <1>9, <1>10, <1>11, <1>12

(* Lists that are apart, by their numbers.                                 *)
LEMMA ApartOf ==
  ASSUME NEW s \in Seq(Span)
  PROVE  Apart(s) <=> /\ \A k \in 1..Len(s) : s[k].start < s[k].end
                      /\ \A k \in 1..(Len(s) - 1) : s[k].end < s[k + 1].start
  BY DEF Apart

(* One more interval at the end.                                           *)
LEMMA Appended ==
  ASSUME NEW s \in Seq(Span), NEW w \in Span
  PROVE  /\ Append(s, w) \in Seq(Span) /\ Append(s, w) # <<>> /\ Last(Append(s, w)) = w
         /\ Covered(Append(s, w)) = Covered(s) \union Minutes(w)
         /\ Apart(s) /\ w.start < w.end /\ (s # <<>> => Last(s).end < w.start)
              => Apart(Append(s, w))
<1> DEFINE n == Len(s)
           t == Append(s, w)
<1>1. /\ n \in Nat /\ DOMAIN s = 1..n /\ DOMAIN t = 1..n + 1 /\ Len(t) = n + 1
      /\ t[n + 1] = w /\ t \in Seq(Span)
  OBVIOUS
<1>2. \A k \in 1..n : t[k] = s[k] /\ k \in 1..n + 1
  OBVIOUS
<1>3. Last(t) = w /\ t # <<>>
  BY <1>1 DEF Last
<1>4. s # <<>> <=> n >= 1
  OBVIOUS
<1> HIDE DEF t
<1>5. ASSUME NEW x PROVE x \in Covered(t) <=> x \in Covered(s) \/ x \in Minutes(w)
  <2>1. x \in Covered(t) <=> \E k \in 1..n + 1 : x \in Minutes(t[k])
    BY <1>1, CoveredBy
  <2>2. x \in Covered(s) <=> \E k \in 1..n : x \in Minutes(s[k])
    BY <1>1, CoveredBy
  <2>3. \A k \in 1..n + 1 : k = n + 1 \/ k \in 1..n
    BY <1>1
  <2>4. n + 1 \in 1..n + 1
    BY <1>1
  <2> HIDE DEF n
  <2> QED
    BY <1>1, <1>2, <2>1, <2>2, <2>3, <2>4
<1>6. Covered(t) = Covered(s) \union Minutes(w)
  BY <1>5
<1>7. ASSUME Apart(s), w.start < w.end, s # <<>> => Last(s).end < w.start PROVE Apart(t)
  <2>1. \A k \in 1..n + 1 : t[k].start < t[k].end
    <3> TAKE k \in 1..n + 1
    <3>1. CASE k = n + 1
      BY <1>1, <1>7, <3>1
    <3>2. CASE k # n + 1
      <4>1. k \in 1..n
        BY <1>1, <3>2
      <4> QED
        BY <1>2, <1>7, <4>1, ApartOf
    <3> QED
      BY <3>1, <3>2
  <2>2. \A k \in 1..(n + 1) - 1 : t[k].end < t[k + 1].start
    <3> TAKE k \in 1..(n + 1) - 1
    <3>0. k \in 1..n
      BY <1>1
    <3>1. CASE k = n
      <4>1. t[k] = Last(s) /\ t[k + 1] = w /\ s # <<>>
        BY <1>1, <1>2, <1>4, <3>0, <3>1 DEF Last
      <4> QED
        BY <1>7, <4>1
    <3>2. CASE k # n
      <4>1. k \in 1..(n - 1) /\ k + 1 \in 1..n
        <5>1. n \in Nat
          BY <1>1
        <5> HIDE DEF n
        <5> QED
          BY <3>0, <3>2, <5>1
      <4>2. s[k].end < s[k + 1].start
        BY <1>7, <4>1, ApartOf
      <4> QED
        BY <1>2, <3>0, <4>1, <4>2
    <3> QED
      BY <3>1, <3>2
  <2> HIDE DEF n
  <2> QED
    BY <1>1, <2>1, <2>2, ApartOf
<1> QED
  BY <1>1, <1>3, <1>6, <1>7 DEF t

(* One pass of mergeIntervals, over intervals in the order of their starts,*)
(* adds the minutes of its interval and keeps the stretches apart.         *)
LEMMA CoalesceAdds ==
  ASSUME NEW out \in Seq(Span), NEW w \in Span, w.start < w.end, Apart(out),
         out # <<>> => Last(out).start <= w.start
  PROVE  /\ Apart(Coalesce(out, w)) /\ Coalesce(out, w) \in Seq(Span)
         /\ Covered(Coalesce(out, w)) = Covered(out) \union Minutes(w)
         /\ Coalesce(out, w) # <<>> /\ Last(Coalesce(out, w)).start <= w.start
<1>0. w.start \in Int /\ w.end \in Int
  BY DEF Span
<1>1. CASE out # <<>> /\ w.start <= Last(out).end
  <2> DEFINE n == Len(out)
             e == Max({out[n].end, w.end})
             b == [start |-> out[n].start, end |-> e]
             t == [out EXCEPT ![n] = b]
  <2>1. n \in Nat /\ n >= 1 /\ n \in 1..n /\ DOMAIN out = 1..n /\ \A k \in 1..n : out[k] \in Span
    BY <1>1
  <2>2. Last(out) = out[n]
    BY DEF Last
  <2>3. out[n].start \in Int /\ out[n].end \in Int /\ out[n].start < out[n].end
    BY <2>1, ApartOf DEF Span
  <2>4. e \in Int /\ e >= out[n].end /\ e >= w.end /\ (e = out[n].end \/ e = w.end)
    <3>1. e = IF out[n].end >= w.end THEN out[n].end ELSE w.end
      BY <1>0, <2>3, MaxMin
    <3> HIDE DEF e, n
    <3> QED
      BY <1>0, <2>3, <3>1
  <2> HIDE DEF e
  <2>5. b \in Span /\ b.start = out[n].start /\ b.end = e
    BY <2>3, <2>4 DEF Span
  <2>6. b = [out[n] EXCEPT !.end = e]
    BY <2>1 DEF Span
  <2>7. Coalesce(out, w) = t
    <3>1. Coalesce(out, w) = [out EXCEPT ![n].end = e]
      BY <1>1 DEF Coalesce, e
    <3> QED
      BY <2>1, <2>6, <3>1
  <2> HIDE DEF b
  <2>8. /\ t \in Seq(Span) /\ Len(t) = n /\ DOMAIN t = 1..n /\ t[n] = b
        /\ \A k \in 1..n : k # n => t[k] = out[k]
    BY <2>1, <2>5
  <2>9. t # <<>> /\ Last(t) = b
    BY <2>1, <2>8 DEF Last
  <2> HIDE DEF t, n
  <2>10. ASSUME NEW x PROVE x \in Minutes(b) <=> x \in Minutes(out[n]) \/ x \in Minutes(w)
    <3>1. /\ x \in Minutes(b) <=> x \in Int /\ b.start <= x /\ x < b.end
          /\ x \in Minutes(w) <=> x \in Int /\ w.start <= x /\ x < w.end
          /\ x \in Minutes(out[n]) <=> x \in Int /\ out[n].start <= x /\ x < out[n].end
      BY <2>1, <2>5, MinutesOf
    <3> QED
      BY <1>0, <1>1, <2>2, <2>3, <2>4, <2>5, <3>1
  <2>11. ASSUME NEW x PROVE x \in Covered(t) <=> x \in Covered(out) \/ x \in Minutes(w)
    <3>1. x \in Covered(t) <=> \E k \in 1..n : x \in Minutes(t[k])
      BY <2>8, CoveredBy
    <3>2. x \in Covered(out) <=> \E k \in 1..n : x \in Minutes(out[k])
      BY <2>1, CoveredBy
    <3> QED
      BY <2>1, <2>8, <2>10, <3>1, <3>2
  <2>12. Apart(t)
    <3>1. ASSUME NEW k \in 1..n PROVE t[k].start < t[k].end
      <4>1. out[k].start < out[k].end
        BY ApartOf DEF n
      <4>2. CASE k = n
        BY <2>3, <2>4, <2>5, <2>8, <4>2
      <4>3. CASE k # n
        BY <2>8, <4>1, <4>3
      <4> QED
        BY <4>2, <4>3
    <3>2. ASSUME NEW k \in 1..(n - 1) PROVE t[k].end < t[k + 1].start
      <4>1. out[k].end < out[k + 1].start
        BY ApartOf DEF n
      <4>2. k \in 1..n /\ k + 1 \in 1..n /\ k # n
        BY <2>1
      <4>3. t[k] = out[k]
        BY <2>8, <4>2
      <4>4. t[k + 1].start = out[k + 1].start
        <5>1. CASE k + 1 = n
          BY <2>5, <2>8, <5>1
        <5>2. CASE k + 1 # n
          BY <2>8, <4>2, <5>2
        <5> QED
          BY <5>1, <5>2
      <4> QED
        BY <4>1, <4>3, <4>4
    <3> QED
      BY <2>8, <3>1, <3>2, ApartOf
  <2>13. Covered(t) = Covered(out) \union Minutes(w)
    BY <2>11
  <2>14. Last(t).start <= w.start
    BY <1>1, <2>2, <2>5, <2>9
  <2> QED
    BY <2>7, <2>8, <2>9, <2>12, <2>13, <2>14
<1>2. CASE ~(out # <<>> /\ w.start <= Last(out).end)
  <2>1. Coalesce(out, w) = Append(out, w)
    BY <1>2 DEF Coalesce
  <2>2. out # <<>> => Last(out).end < w.start
    <3>1. out # <<>> => Last(out) \in Span
      BY DEF Last
    <3>2. out # <<>> => Last(out).end \in Int
      BY <3>1 DEF Span
    <3> QED
      BY <1>0, <1>2, <3>2
  <2>3. w.start <= w.start
    BY <1>0
  <2> QED
    BY <2>1, <2>2, <2>3, Appended
<1> QED
  BY <1>1, <1>2

(* The minutes of the first intervals of a list.                           *)
First(s, k) == UNION {Minutes(s[j]) : j \in 1..k}

(* They grow by an interval at a time.                                     *)
LEMMA Firsts ==
  ASSUME NEW s \in Seq(Span)
  PROVE  /\ First(s, 0) = {}
         /\ \A k \in 1..Len(s) : First(s, k) = First(s, k - 1) \union Minutes(s[k])
         /\ First(s, Len(s)) = Covered(s)
<1>1. First(s, 0) = {}
  BY DEF First
<1>2. ASSUME NEW k \in 1..Len(s) PROVE First(s, k) = First(s, k - 1) \union Minutes(s[k])
  <2>1. \A j : j \in 1..k <=> j \in 1..k - 1 \/ j = k
    OBVIOUS
  <2> QED
    BY <2>1 DEF First
<1>3. First(s, Len(s)) = Covered(s)
  BY DEF First, Covered
<1> QED
  BY <1>1, <1>2, <1>3

(* mergeIntervals leaves maximal stretches of the same minutes.            *)
LEMMA MergedIs ==
  ASSUME NEW intervals \in Seq(Span)
  PROVE  /\ MergeIntervals(intervals) \in Seq(Span) /\ Apart(MergeIntervals(intervals))
         /\ Covered(MergeIntervals(intervals)) = Covered(intervals)
<1>1. PICK s \in Seq(Span) : s = Sorted(intervals)
  BY SortedIs
<1>2. /\ \A k \in 1..Len(s) : s[k].start < s[k].end
      /\ Rising(s) /\ Covered(s) = Covered(intervals)
  BY <1>1, SortedIs
<1>3. PICK pass : /\ pass[0] = <<>>
                  /\ \A k \in 1..Len(s) : pass[k] = Coalesce(pass[k - 1], s[k])
                  /\ MergeIntervals(intervals) = pass[Len(s)]
  BY <1>1, MergeRuns
<1>4. Len(s) \in Nat /\ \A k \in 1..Len(s) : s[k] \in Span
  OBVIOUS
<1> DEFINE Fine(k) == /\ pass[k] \in Seq(Span) /\ Apart(pass[k]) /\ Covered(pass[k]) = First(s, k)
                      /\ pass[k] # <<>> => k >= 1 /\ Last(pass[k]).start <= s[k].start
           Good == {k \in Nat : k <= Len(s) => Fine(k)}
<1>5. 0 \in Good
  <2>1. <<>> \in Seq(Span) /\ Apart(<<>>) /\ Covered(<<>>) = {}
    BY DEF Apart, Covered
  <2> QED
    BY <1>3, <2>1, Firsts
<1>6. ASSUME NEW k \in Nat, k \in Good PROVE k + 1 \in Good
  <2>1. ASSUME k + 1 <= Len(s) PROVE Fine(k + 1)
    <3>1. Fine(k) /\ k + 1 \in 1..Len(s) /\ (k + 1) - 1 = k
      BY <1>4, <1>6, <2>1
    <3>2. pass[k + 1] = Coalesce(pass[k], s[k + 1])
      BY <1>3, <3>1
    <3>3. s[k + 1] \in Span /\ s[k + 1].start < s[k + 1].end
      BY <1>2, <1>4, <3>1
    <3>4. pass[k] # <<>> => Last(pass[k]).start <= s[k + 1].start
      <4> HAVE pass[k] # <<>>
      <4>1. k \in 1..Len(s) /\ k < k + 1
        BY <1>4, <2>1, <3>1
      <4>2. s[k].start <= s[k + 1].start /\ Last(pass[k]).start <= s[k].start
        BY <1>2, <3>1, <4>1 DEF Rising
      <4>3. s[k] \in Span /\ Last(pass[k]) \in Span
        BY <1>4, <3>1, <4>1 DEF Last
      <4>4. s[k].start \in Int /\ Last(pass[k]).start \in Int /\ s[k + 1].start \in Int
        BY <3>3, <4>3 DEF Span
      <4> QED
        BY <4>2, <4>4
    <3>5. First(s, k + 1) = First(s, k) \union Minutes(s[k + 1])
      BY <3>1, Firsts
    <3>6. PICK out \in Seq(Span) : out = pass[k]
      BY <3>1
    <3>7. PICK w \in Span : w = s[k + 1]
      BY <3>3
    <3>8. Apart(out) /\ w.start < w.end /\ (out # <<>> => Last(out).start <= w.start)
      BY <3>1, <3>3, <3>4, <3>6, <3>7
    <3>9. /\ Apart(Coalesce(out, w)) /\ Coalesce(out, w) \in Seq(Span)
          /\ Covered(Coalesce(out, w)) = Covered(out) \union Minutes(w)
          /\ Coalesce(out, w) # <<>> /\ Last(Coalesce(out, w)).start <= w.start
      <4> HIDE DEF Good, Fine
      <4> QED
        BY <3>8, CoalesceAdds
    <3>10. pass[k + 1] = Coalesce(out, w)
      BY <3>2, <3>6, <3>7
    <3>11. Covered(out) \union Minutes(w) = First(s, k + 1)
      BY <3>1, <3>5, <3>6, <3>7
    <3>12. k + 1 >= 1
      OBVIOUS
    <3> HIDE DEF Good
    <3> QED
      BY <3>7, <3>9, <3>10, <3>11, <3>12
  <2> QED
    BY <2>1
<1>7. Len(s) \in Good
  <2> HIDE DEF Good
  <2> QED
    BY <1>4, <1>5, <1>6, SetInduction
<1>8. Fine(Len(s))
  BY <1>4, <1>7
<1>9. PICK out \in Seq(Span) :
        out = MergeIntervals(intervals) /\ Apart(out) /\ Covered(out) = First(s, Len(s))
  <2>1. pass[Len(s)] \in Seq(Span) /\ Apart(pass[Len(s)]) /\ Covered(pass[Len(s)]) = First(s, Len(s))
    BY <1>8
  <2> QED
    BY <1>3, <2>1
<1>10. First(s, Len(s)) = Covered(intervals)
  BY <1>2, Firsts
<1> QED
  BY <1>9, <1>10

(* The length of an interval is the number of its minutes.                 *)
LEMMA MinutesCount ==
  ASSUME NEW w \in Span
  PROVE  /\ IsFiniteSet(Minutes(w)) /\ Cardinality(Minutes(w)) \in Nat
         /\ w.start <= w.end => Cardinality(Minutes(w)) = w.end - w.start
<1>1. PICK a \in Int, b \in Int : a = w.start /\ b = w.end
  BY DEF Span
<1>2. b - 1 \in Int
  OBVIOUS
<1>3. /\ IsFiniteSet(a..(b - 1))
      /\ Cardinality(a..(b - 1)) = IF a > b - 1 THEN 0 ELSE (b - 1) - a + 1
  BY <1>2, FS_Interval
<1>4. Minutes(w) = a..(b - 1)
  BY <1>1 DEF Minutes
<1>5. a <= b => Cardinality(a..(b - 1)) = b - a
  BY <1>3
<1> QED
  BY <1>1, <1>3, <1>4, <1>5, FS_CardinalityType

(* totalMinutes counts every minute once.                                  *)
LEMMA TotalIs ==
  ASSUME NEW intervals \in Seq(Span)
  PROVE  /\ IsFiniteSet(Covered(intervals))
         /\ TotalMinutes(intervals) = Cardinality(Covered(intervals))
<1>1. PICK s \in Seq(Span) : s = MergeIntervals(intervals)
  BY MergedIs
<1>2. Apart(s) /\ Covered(s) = Covered(intervals)
  BY <1>1, MergedIs
<1>3. PICK pass : /\ pass[0] = 0
                  /\ \A k \in 1..Len(s) : pass[k] = pass[k - 1] + (s[k].end - s[k].start)
                  /\ TotalMinutes(intervals) = pass[Len(s)]
  BY <1>1, TotalRuns
<1>4. Len(s) \in Nat /\ \A k \in 1..Len(s) : s[k] \in Span /\ s[k].start \in Int /\ s[k].end \in Int
  BY Spans
<1> DEFINE Fine(k) == /\ IsFiniteSet(First(s, k)) /\ pass[k] = Cardinality(First(s, k))
                      /\ \A x \in First(s, k) : k >= 1 /\ x \in Int /\ x < s[k].end
           Good == {k \in Nat : k <= Len(s) => Fine(k)}
<1>5. 0 \in Good
  BY <1>3, Firsts, FS_EmptySet
<1>6. ASSUME NEW k \in Nat, k \in Good PROVE k + 1 \in Good
  <2>1. ASSUME k + 1 <= Len(s) PROVE Fine(k + 1)
    <3>1. Fine(k) /\ k + 1 \in 1..Len(s) /\ (k + 1) - 1 = k
      BY <1>4, <1>6, <2>1
    <3>2. PICK w \in Span : w = s[k + 1] /\ w.start \in Int /\ w.end \in Int
      BY <1>4, <3>1
    <3>3. PICK C : C = First(s, k) /\ IsFiniteSet(C)
      BY <3>1
    <3>4. First(s, k + 1) = C \union Minutes(w)
      BY <3>1, <3>2, <3>3, Firsts
    <3>5. w.start < w.end
      BY <1>2, <3>1, <3>2, ApartOf
    <3>6. \A x \in C : x \in Int /\ x < w.start
      <4> TAKE x \in C
      <4>1. k \in 1..(Len(s) - 1) /\ k \in 1..Len(s) /\ x \in Int /\ x < s[k].end
        BY <1>4, <3>1, <3>3
      <4>2. s[k].end < s[k + 1].start
        BY <1>2, <4>1, ApartOf
      <4> QED
        BY <1>4, <3>2, <4>1, <4>2
    <3>7. C \cap Minutes(w) = {}
      BY <3>2, <3>6, MinutesOf
    <3>8. /\ IsFiniteSet(Minutes(w)) /\ Cardinality(Minutes(w)) = w.end - w.start
          /\ Cardinality(Minutes(w)) \in Nat
      BY <3>2, <3>5, MinutesCount
    <3>9. /\ IsFiniteSet(C \union Minutes(w))
          /\ Cardinality(C \union Minutes(w)) = Cardinality(C) + Cardinality(Minutes(w)) - Cardinality(C \cap Minutes(w))
      BY <3>3, <3>8, FS_Union
    <3>10. Cardinality(C) \in Nat /\ Cardinality(C \cap Minutes(w)) = 0
      BY <3>3, <3>7, FS_CardinalityType, FS_EmptySet
    <3>11. pass[k + 1] = Cardinality(C) + (w.end - w.start)
      BY <1>3, <3>1, <3>2, <3>3
    <3>12. pass[k + 1] = Cardinality(C \union Minutes(w))
      BY <3>8, <3>9, <3>10, <3>11
    <3>13. \A x \in C \union Minutes(w) : x \in Int /\ x < w.end
      BY <3>2, <3>5, <3>6, MinutesOf
    <3>14. k + 1 >= 1
      OBVIOUS
    <3> HIDE DEF Good
    <3> QED
      BY <3>2, <3>4, <3>9, <3>12, <3>13, <3>14
  <2> QED
    BY <2>1
<1>7. Len(s) \in Good
  <2> HIDE DEF Good
  <2> QED
    BY <1>4, <1>5, <1>6, SetInduction
<1>8. Fine(Len(s))
  BY <1>4, <1>7
<1>9. IsFiniteSet(First(s, Len(s))) /\ pass[Len(s)] = Cardinality(First(s, Len(s)))
  BY <1>8
<1>10. First(s, Len(s)) = Covered(intervals)
  BY <1>2, Firsts
<1> HIDE DEF Fine, Good
<1> QED
  BY <1>3, <1>9, <1>10

(* What freeGaps knows at its cursor, once the minutes C are past.         *)
Swept(g, C, w) ==
  /\ g.at \in Int /\ g.found \in Seq(Span) /\ w.start <= g.at
  /\ Apart(g.found) /\ (g.found # <<>> => Last(g.found).end < g.at)
  /\ \A x : x \in Covered(g.found) <=> x \in Int /\ w.start <= x /\ x < g.at /\ x \notin C
  /\ \A x \in C : w.start <= x /\ x < w.end => x < g.at
  /\ \A x \in Int : w.end <= x /\ x < g.at => x \in C

(* An interval by its two times.                                           *)
LEMMA SpanOf ==
  ASSUME NEW a \in Int, NEW b \in Int
  PROVE  /\ [start |-> a, end |-> b] \in Span
         /\ \A x : x \in Minutes([start |-> a, end |-> b]) <=> x \in Int /\ a <= x /\ x < b
<1>1. [start |-> a, end |-> b] \in Span
  BY DEF Span
<1> QED
  BY <1>1, MinutesOf

(* One pass of freeGaps, over a stretch beyond those gone through: either  *)
(* it is outside the window, or its end is where the cursor goes and the   *)
(* minutes before it are a gap.                                            *)
LEMMA GapSweeps ==
  ASSUME NEW g, NEW C \in SUBSET Int, NEW w \in Span, NEW b \in Span,
         w.start < w.end, b.start < b.end, Swept(g, C, w), g.at = w.start \/ g.at < b.start
  PROVE  /\ Swept(Gap(g, b, w), C \union Minutes(b), w)
         /\ Gap(g, b, w).at = w.start \/ Gap(g, b, w).at <= b.end
<1>1. w.start \in Int /\ w.end \in Int /\ b.start \in Int /\ b.end \in Int /\ g.at \in Int
  BY DEF Span, Swept
<1>2. \A x : x \in Minutes(b) <=> x \in Int /\ b.start <= x /\ x < b.end
  BY MinutesOf
<1>3. CASE b.end <= w.start \/ b.start >= w.end
  <2>1. Gap(g, b, w) = g
    BY <1>3 DEF Gap
  <2>2. \A x \in Minutes(b) : x < w.start \/ w.end <= x
    BY <1>1, <1>2, <1>3
  <2>3. \A x \in Minutes(b) : ~ (w.start <= x /\ x < g.at)
    BY <1>1, <1>2, <1>3
  <2>4. \A x : x \in Covered(g.found) <=>
               x \in Int /\ w.start <= x /\ x < g.at /\ x \notin C \union Minutes(b)
    BY <2>3 DEF Swept
  <2>5. \A x \in C \union Minutes(b) : w.start <= x /\ x < w.end => x < g.at
    <3>1. \A x \in C : w.start <= x /\ x < w.end => x < g.at
      BY DEF Swept
    <3>2. \A x \in Minutes(b) : ~ (w.start <= x /\ x < w.end)
      BY <1>1, <1>2, <2>2
    <3> QED
      BY <3>1, <3>2
  <2>6. \A x \in Int : w.end <= x /\ x < g.at => x \in C \union Minutes(b)
    BY DEF Swept
  <2>7. Swept(g, C \union Minutes(b), w)
    BY <2>4, <2>5, <2>6 DEF Swept
  <2>8. g.at = w.start \/ g.at <= b.end
    BY <1>1
  <2> QED
    BY <2>1, <2>7, <2>8
<1>4. CASE ~ (b.end <= w.start \/ b.start >= w.end)
  <2>1. w.start < b.end /\ b.start < w.end /\ g.at < b.end
    BY <1>1, <1>4
  <2>2. Max({g.at, b.end}) = b.end
    BY <1>1, <2>1, MaxMin
  <2> DEFINE c == [start |-> g.at, end |-> b.start]
             found == IF b.start > g.at THEN Append(g.found, c) ELSE g.found
  <2>3. Gap(g, b, w) = [at |-> b.end, found |-> found]
    BY <1>4, <2>2 DEF Gap
  <2>4. /\ found \in Seq(Span) /\ Apart(found) /\ (found # <<>> => Last(found).end < b.end)
        /\ \A x : x \in Covered(found) <=>
                  x \in Int /\ w.start <= x /\ x < b.end /\ x \notin C \union Minutes(b)
    <3>1. CASE b.start > g.at
      <4>1. c \in Span /\ \A x : x \in Minutes(c) <=> x \in Int /\ g.at <= x /\ x < b.start
        BY <1>1, SpanOf
      <4>2. c.start < c.end /\ (g.found # <<>> => Last(g.found).end < c.start) /\ c.end < b.end
        BY <3>1 DEF Swept
      <4>3. found = Append(g.found, c) /\ g.found \in Seq(Span) /\ Apart(g.found)
        BY <3>1 DEF Swept
      <4> HIDE DEF found, c
      <4>4. /\ found \in Seq(Span) /\ Apart(found) /\ Last(found) = c
            /\ Covered(found) = Covered(g.found) \union Minutes(c)
        BY <4>1, <4>2, <4>3, Appended
      <4>5. \A x : x \in Covered(found) <=>
                   \/ x \in Int /\ w.start <= x /\ x < g.at /\ x \notin C
                   \/ x \in Int /\ g.at <= x /\ x < b.start
        BY <4>1, <4>4 DEF Swept
      <4>6. \A x \in C : w.start <= x /\ x < w.end => x < g.at
        BY DEF Swept
      <4>7. w.start <= g.at
        BY DEF Swept
      <4>8. ASSUME NEW x \in Int
            PROVE  (\/ w.start <= x /\ x < g.at /\ x \notin C
                    \/ g.at <= x /\ x < b.start)
                   <=> w.start <= x /\ x < b.end /\ x \notin C /\ x \notin Minutes(b)
        BY <1>1, <1>2, <2>1, <3>1, <4>6, <4>7
      <4>9. \A x : x \in Covered(found) <=>
                   x \in Int /\ w.start <= x /\ x < b.end /\ x \notin C \union Minutes(b)
        BY <4>5, <4>8
      <4> QED
        BY <4>2, <4>4, <4>9
    <3>2. CASE ~ (b.start > g.at)
      <4>1. g.at = w.start /\ found = g.found /\ b.start <= w.start
        BY <1>1, <3>2
      <4>2. g.found \in Seq(Span) /\ Apart(g.found) /\ (g.found # <<>> => Last(g.found).end < g.at)
        BY DEF Swept
      <4>3. g.found # <<>> => Last(g.found).end < b.end
        <5> HAVE g.found # <<>>
        <5>1. Last(g.found) \in Span
          BY <4>2 DEF Last
        <5>2. Last(g.found).end \in Int
          BY <5>1 DEF Span
        <5> QED
          BY <1>1, <2>1, <4>2, <5>2
      <4>4. \A x : x \notin Covered(g.found)
        BY <1>1, <4>1 DEF Swept
      <4>5. \A x \in Int : ~ (w.start <= x /\ x < b.end /\ x \notin C \union Minutes(b))
        BY <1>1, <1>2, <4>1
      <4> HIDE DEF found
      <4> QED
        BY <4>1, <4>2, <4>3, <4>4, <4>5
    <3> QED
      BY <3>1, <3>2
  <2> HIDE DEF found
  <2>5. \A x \in C \union Minutes(b) : w.start <= x /\ x < w.end => x < b.end
    BY <1>1, <1>2, <2>1 DEF Swept
  <2>6. \A x \in Int : w.end <= x /\ x < b.end => x \in C \union Minutes(b)
    BY <1>1, <1>2, <2>1
  <2>7. w.start <= b.end /\ b.end <= b.end
    BY <1>1, <2>1
  <2>8. Swept([at |-> b.end, found |-> found], C \union Minutes(b), w)
    BY <1>1, <2>4, <2>5, <2>6, <2>7 DEF Swept
  <2> QED
    BY <2>3, <2>7, <2>8
<1> QED
  BY <1>3, <1>4

(* freeGaps finds the minutes of the window that no busy stretch takes.    *)
LEMMA GapsAre ==
  ASSUME NEW busy \in Seq(Span), NEW w \in Span, w.start < w.end
  PROVE  /\ FreeGaps(busy, w) \in Seq(Span) /\ Apart(FreeGaps(busy, w))
         /\ Covered(FreeGaps(busy, w)) = Minutes(w) \ Covered(busy)
<1>0. w.start \in Int /\ w.end \in Int
  BY DEF Span
<1>1. PICK s \in Seq(Span) : s = MergeIntervals(busy)
  BY MergedIs
<1>2. Apart(s) /\ Covered(s) = Covered(busy)
  BY <1>1, MergedIs
<1>3. PICK pass : /\ pass[0] = [at |-> w.start, found |-> <<>>]
                  /\ \A k \in 1..Len(s) : pass[k] = Gap(pass[k - 1], s[k], w)
                  /\ FreeGaps(busy, w) = AtEnd(pass[Len(s)], w)
  BY <1>1, GapRuns
<1>4. Len(s) \in Nat /\ \A k \in 1..Len(s) : s[k] \in Span /\ s[k].start \in Int /\ s[k].end \in Int
  BY Spans
<1> DEFINE Fine(k) == /\ Swept(pass[k], First(s, k), w)
                      /\ First(s, k) \in SUBSET Int
                      /\ pass[k].at = w.start \/ (k >= 1 /\ pass[k].at <= s[k].end)
           Good == {k \in Nat : k <= Len(s) => Fine(k)}
<1>5. 0 \in Good
  <2>1. <<>> \in Seq(Span) /\ Apart(<<>>) /\ Covered(<<>>) = {}
    BY DEF Apart, Covered
  <2>2. Swept(pass[0], {}, w)
    BY <1>0, <1>3, <2>1 DEF Swept
  <2>3. pass[0].at = w.start
    BY <1>3
  <2> QED
    BY <2>2, <2>3, Firsts
<1>6. ASSUME NEW k \in Nat, k \in Good PROVE k + 1 \in Good
  <2>1. ASSUME k + 1 <= Len(s) PROVE Fine(k + 1)
    <3>1. Fine(k) /\ k + 1 \in 1..Len(s) /\ (k + 1) - 1 = k
      BY <1>4, <1>6, <2>1
    <3>2. PICK b \in Span : b = s[k + 1] /\ b.start \in Int /\ b.end \in Int
      BY <1>4, <3>1
    <3>3. PICK g : g = pass[k] /\ pass[k + 1] = Gap(g, b, w)
      BY <1>3, <3>1, <3>2
    <3>4. PICK C \in SUBSET Int : C = First(s, k) /\ First(s, k + 1) = C \union Minutes(b)
      BY <3>1, <3>2, Firsts
    <3>5. b.start < b.end
      BY <1>2, <3>1, <3>2, ApartOf
    <3>6. g.at = w.start \/ g.at < b.start
      <4>1. CASE g.at = w.start
        BY <4>1
      <4>2. CASE g.at # w.start
        <5>1. k \in 1..(Len(s) - 1) /\ k \in 1..Len(s) /\ g.at <= s[k].end
          BY <1>4, <3>1, <3>3, <4>2
        <5>2. s[k].end < s[k + 1].start
          BY <1>2, <5>1, ApartOf
        <5>3. g.at \in Int
          BY <3>1, <3>3 DEF Swept
        <5> QED
          BY <1>4, <3>2, <5>1, <5>2, <5>3
      <4> QED
        BY <4>1, <4>2
    <3>7. Swept(g, C, w)
      BY <3>1, <3>3, <3>4
    <3>8. Swept(Gap(g, b, w), C \union Minutes(b), w)
          /\ (Gap(g, b, w).at = w.start \/ Gap(g, b, w).at <= b.end)
      <4> HIDE DEF Good, Fine
      <4> QED
        BY <3>5, <3>6, <3>7, GapSweeps
    <3>9. C \union Minutes(b) \in SUBSET Int /\ k + 1 >= 1
      <4>1. \A x \in Minutes(b) : x \in Int
        BY MinutesOf
      <4>2. C \union Minutes(b) \subseteq Int
        BY <4>1
      <4>3. k + 1 >= 1
        OBVIOUS
      <4> QED
        BY <4>2, <4>3
    <3> HIDE DEF Good
    <3> QED
      BY <3>2, <3>3, <3>4, <3>8, <3>9
  <2> QED
    BY <2>1
<1>7. Len(s) \in Good
  <2> HIDE DEF Good
  <2> QED
    BY <1>4, <1>5, <1>6, SetInduction
<1>8. Fine(Len(s))
  BY <1>4, <1>7
<1>9. PICK g : g = pass[Len(s)] /\ Swept(g, Covered(busy), w)
  BY <1>2, <1>8, Firsts
<1> HIDE DEF Good, Fine
<1>10. FreeGaps(busy, w) = IF g.at < w.end THEN Append(g.found, [start |-> g.at, end |-> w.end])
                           ELSE g.found
  <2>1. FreeGaps(busy, w) = AtEnd(g, w)
    BY <1>3, <1>9
  <2> QED
    BY <2>1 DEF AtEnd
<1>11. /\ g.at \in Int /\ w.start <= g.at /\ g.found \in Seq(Span) /\ Apart(g.found)
       /\ \A x : x \in Covered(g.found) <=>
                 x \in Int /\ w.start <= x /\ x < g.at /\ x \notin Covered(busy)
       /\ \A x \in Covered(busy) : w.start <= x /\ x < w.end => x < g.at
       /\ \A x \in Int : w.end <= x /\ x < g.at => x \in Covered(busy)
  BY <1>9 DEF Swept
<1>12. \A x : x \in Minutes(w) <=> x \in Int /\ w.start <= x /\ x < w.end
  BY MinutesOf
<1>13. CASE g.at < w.end
  <2> DEFINE c == [start |-> g.at, end |-> w.end]
  <2>1. c \in Span /\ \A x : x \in Minutes(c) <=> x \in Int /\ g.at <= x /\ x < w.end
    BY <1>0, <1>11, SpanOf
  <2>2. c.start < c.end /\ (g.found # <<>> => Last(g.found).end < c.start)
    BY <1>9, <1>13 DEF Swept
  <2>3. FreeGaps(busy, w) = Append(g.found, c)
    BY <1>10, <1>13
  <2> HIDE DEF c
  <2>4. /\ FreeGaps(busy, w) \in Seq(Span) /\ Apart(FreeGaps(busy, w))
        /\ Covered(FreeGaps(busy, w)) = Covered(g.found) \union Minutes(c)
    BY <1>11, <2>1, <2>2, <2>3, Appended
  <2>5. ASSUME NEW x
        PROVE x \in Covered(FreeGaps(busy, w)) <=> x \in Minutes(w) /\ x \notin Covered(busy)
    <3>1. x \in Covered(FreeGaps(busy, w)) <=>
            \/ x \in Int /\ w.start <= x /\ x < g.at /\ x \notin Covered(busy)
            \/ x \in Int /\ g.at <= x /\ x < w.end
      BY <1>11, <2>1, <2>4
    <3> QED
      BY <1>0, <1>11, <1>12, <1>13, <3>1
  <2> QED
    BY <2>4, <2>5
<1>14. CASE ~ (g.at < w.end)
  <2>1. FreeGaps(busy, w) = g.found
    BY <1>10, <1>14
  <2>2. ASSUME NEW x
        PROVE x \in Covered(g.found) <=> x \in Minutes(w) /\ x \notin Covered(busy)
    BY <1>0, <1>11, <1>12, <1>14
  <2> QED
    BY <1>11, <2>1, <2>2
<1> QED
  BY <1>13, <1>14

(* All of a day.                                                           *)
Whole == [start |-> Open, end |-> Close]

(* An interval within the day is not empty.                                *)
LEMMA IntervalIs ==
  ASSUME NEW w \in Interval
  PROVE  /\ w \in Span /\ w.start \in Int /\ w.end \in Int
         /\ Open <= w.start /\ w.start < w.end /\ w.end <= Close
<1>1. Open \in Int /\ Close \in Int
  BY DayAssumption
<1>2. w \in [start: Open..Close, end: Open..Close] /\ w.start < w.end
  BY DEF Interval
<1>3. w.start \in Open..Close /\ w.end \in Open..Close
  BY <1>2
<1>4. w.start \in Int /\ w.end \in Int /\ Open <= w.start /\ w.end <= Close
  BY <1>1, <1>3
<1>5. w \in Span
  BY <1>2, <1>4 DEF Span
<1> QED
  BY <1>2, <1>4, <1>5

(* The day is not empty.                                                   *)
LEMMA WholeIs == Whole \in Span /\ Whole.start = Open /\ Whole.end = Close
                 /\ Open \in Int /\ Close \in Int /\ Open < Close
<1>1. Open \in Int /\ Close \in Int /\ Open < Close
  BY DayAssumption
<1> QED
  BY <1>1, SpanOf DEF Whole

(* An entry that is not closed has a time.                                 *)
LEMMA ClassIs ==
  ASSUME ScheduleTypes, NEW i \in Current
  PROVE  /\ i \in Ids /\ i \in Nat /\ classes[i] \in Class
         /\ classes[i].time \in Interval /\ classes[i].time \in Span
<1>1. i \in Ids /\ classes[i] # None
  BY DEF Current
<1>2. classes[i] \in Class \union {None}
  BY <1>1 DEF ScheduleTypes
<1>3. classes[i] \in Class
  BY <1>1, <1>2
<1>4. classes[i].time \in Interval
  BY <1>3 DEF Class
<1>5. i \in Nat
  BY <1>1, IdsAssumption
<1> QED
  BY <1>1, <1>3, <1>4, <1>5, IntervalIs

(* There are finitely many entries.                                        *)
LEMMA CurrentFinite ==
  ASSUME NEW ids \in SUBSET Current
  PROVE  IsFiniteSet(ids)
<1>1. ids \in SUBSET Ids
  BY DEF Current
<1> QED
  BY <1>1, IdsAssumption, FS_Subset

(* The times of the rows, whatever order they come in.                     *)
LEMMA TimesAre ==
  ASSUME ScheduleTypes, NEW ids \in SUBSET Current
  PROVE  /\ Times(ids) \in Seq(Span)
         /\ \A k \in 1..Len(Times(ids)) : \E i \in ids : Times(ids)[k] = classes[i].time
         /\ \A i \in ids : \E k \in 1..Len(Times(ids)) : Times(ids)[k] = classes[i].time
<1>1. IsFiniteSet(ids)
  BY CurrentFinite
<1>2. PICK rows : rows = SetToSeq(ids)
  OBVIOUS
<1>3. PICK c \in Nat : c = Cardinality(ids)
  BY <1>1, FS_CardinalityType
<1>4. rows \in [1..c -> ids] /\ \A x \in ids : \E k \in 1..c : rows[k] = x
  BY <1>1, <1>2, <1>3, Scanned
<1> DEFINE t == [k \in DOMAIN rows |-> classes[rows[k]].time]
<1>5. Times(ids) = t
  BY <1>2 DEF Times
<1>6. DOMAIN rows = 1..c
  BY <1>4
<1>7. \A k \in 1..c : rows[k] \in ids /\ t[k] = classes[rows[k]].time /\ t[k] \in Span
  <2> TAKE k \in 1..c
  <2>1. rows[k] \in ids
    BY <1>4
  <2>2. t[k] = classes[rows[k]].time
    BY <1>6
  <2>3. classes[rows[k]].time \in Span
    BY <2>1, ClassIs
  <2> QED
    BY <2>1, <2>2, <2>3
<1>8. t = [k \in 1..c |-> t[k]]
  BY <1>6
<1> HIDE DEF t
<1>9. t \in [1..c -> Span]
  BY <1>7, <1>8
<1>10. t \in Seq(Span) /\ Len(t) = c
  BY <1>9
<1>11. \A i \in ids : \E k \in 1..c : t[k] = classes[i].time
  BY <1>4, <1>7
<1> QED
  BY <1>5, <1>7, <1>10, <1>11

(* Clipping leaves the minutes of both.                                    *)
LEMMA ClipIs ==
  ASSUME NEW w \in Span, NEW clip \in Span
  PROVE  Clip(w, clip) \in Span /\ Minutes(Clip(w, clip)) = Minutes(w) \intersect Minutes(clip)
<1>1. /\ w.start \in Int /\ w.end \in Int /\ clip.start \in Int /\ clip.end \in Int
  BY DEF Span
<1>2. PICK a \in Int, b \in Int :
        /\ a = Max({clip.start, w.start}) /\ b = Min({clip.end, w.end})
        /\ a >= clip.start /\ a >= w.start /\ (a = clip.start \/ a = w.start)
        /\ b <= clip.end /\ b <= w.end /\ (b = clip.end \/ b = w.end)
  <2>1. Max({clip.start, w.start}) = IF clip.start >= w.start THEN clip.start ELSE w.start
    BY <1>1, MaxMin
  <2>2. Min({clip.end, w.end}) = IF clip.end <= w.end THEN clip.end ELSE w.end
    BY <1>1, MaxMin
  <2> QED
    BY <1>1, <2>1, <2>2
<1>3. Clip(w, clip) = [start |-> a, end |-> b]
  BY <1>2 DEF Clip
<1>4. /\ [start |-> a, end |-> b] \in Span
      /\ \A x : x \in Minutes([start |-> a, end |-> b]) <=> x \in Int /\ a <= x /\ x < b
  BY SpanOf
<1>5. \A x : /\ x \in Minutes(w) <=> x \in Int /\ w.start <= x /\ x < w.end
             /\ x \in Minutes(clip) <=> x \in Int /\ clip.start <= x /\ x < clip.end
  BY MinutesOf
<1>6. \A x \in Int : a <= x /\ x < b <=>
                     w.start <= x /\ x < w.end /\ clip.start <= x /\ x < clip.end
  BY <1>1, <1>2
<1>7. \A x : x \in Minutes([start |-> a, end |-> b]) <=> x \in Minutes(w) /\ x \in Minutes(clip)
  BY <1>4, <1>5, <1>6
<1> QED
  BY <1>3, <1>4, <1>7

(* The busy stretches are the minutes taught within the clip.              *)
LEMMA BusyAre ==
  ASSUME ScheduleTypes, NEW ids \in SUBSET Current, NEW d, NEW clip \in Span
  PROVE  /\ BusyIntervals(ids, d, clip) \in Seq(Span) /\ Apart(BusyIntervals(ids, d, clip))
         /\ Covered(BusyIntervals(ids, d, clip)) = Taught(ids, d) \intersect Minutes(clip)
<1>1. PICK own \in SUBSET Current : own = {i \in ids : classes[i].day = d}
  OBVIOUS
<1>2. PICK t \in Seq(Span) :
        /\ t = Times(own)
        /\ \A k \in 1..Len(t) : \E i \in own : t[k] = classes[i].time
        /\ \A i \in own : \E k \in 1..Len(t) : t[k] = classes[i].time
  BY TimesAre
<1> DEFINE u == [k \in DOMAIN t |-> Clip(t[k], clip)]
<1>3. BusyIntervals(ids, d, clip) = MergeIntervals(u)
  BY <1>1, <1>2 DEF BusyIntervals
<1>4. Len(t) \in Nat /\ DOMAIN t = 1..Len(t) /\ \A k \in 1..Len(t) : t[k] \in Span
  BY Spans
<1>5. \A k \in 1..Len(t) : /\ u[k] \in Span
                          /\ Minutes(u[k]) = Minutes(t[k]) \intersect Minutes(clip)
  <2> TAKE k \in 1..Len(t)
  <2>1. u[k] = Clip(t[k], clip)
    BY <1>4
  <2> HIDE DEF u
  <2> QED
    BY <1>4, <2>1, ClipIs
<1>6. u = [k \in 1..Len(t) |-> u[k]]
  BY <1>4
<1> HIDE DEF u
<1>7. u \in [1..Len(t) -> Span]
  BY <1>5, <1>6
<1>8. u \in Seq(Span) /\ Len(u) = Len(t) /\ DOMAIN u = 1..Len(t)
  BY <1>4, <1>7
<1>9. \A x : x \in Covered(u) <=> x \in Taught(ids, d) \intersect Minutes(clip)
  <2> TAKE x
  <2>1. x \in Covered(u) <=> \E k \in 1..Len(t) : x \in Minutes(t[k]) /\ x \in Minutes(clip)
    BY <1>5, <1>8, CoveredBy
  <2>2. x \in Taught(ids, d) <=> \E i \in own : x \in Minutes(classes[i].time)
    BY <1>1 DEF Taught
  <2> QED
    BY <1>2, <2>1, <2>2
<1>10. Covered(u) = Taught(ids, d) \intersect Minutes(clip)
  BY <1>9
<1> QED
  BY <1>3, <1>8, <1>10, MergedIs

(* Intervals overlap when they share a minute.                             *)
LEMMA OverlapMeets ==
  ASSUME NEW v \in Span, NEW w \in Span, v.start < v.end, w.start < w.end
  PROVE  Overlaps(v, w) <=> \E x : x \in Minutes(v) /\ x \in Minutes(w)
<1>1. v.start \in Int /\ v.end \in Int /\ w.start \in Int /\ w.end \in Int
  BY DEF Span
<1>2. \A x : /\ x \in Minutes(v) <=> x \in Int /\ v.start <= x /\ x < v.end
             /\ x \in Minutes(w) <=> x \in Int /\ w.start <= x /\ x < w.end
  BY MinutesOf
<1>3. ASSUME Overlaps(v, w) PROVE \E x : x \in Minutes(v) /\ x \in Minutes(w)
  <2>1. CASE v.start <= w.start
    <3>1. w.start \in Minutes(v) /\ w.start \in Minutes(w)
      BY <1>1, <1>2, <1>3, <2>1 DEF Overlaps
    <3> QED
      BY <3>1
  <2>2. CASE w.start <= v.start
    <3>1. v.start \in Minutes(v) /\ v.start \in Minutes(w)
      BY <1>1, <1>2, <1>3, <2>2 DEF Overlaps
    <3> QED
      BY <3>1
  <2> QED
    BY <1>1, <2>1, <2>2
<1>4. ASSUME NEW x, x \in Minutes(v), x \in Minutes(w) PROVE Overlaps(v, w)
  BY <1>1, <1>2, <1>4 DEF Overlaps
<1> QED
  BY <1>3, <1>4

(* The two lists of a room divide the window (GapsAreComplement).          *)
LEMMA ListsDivide ==
  ASSUME ScheduleTypes
  PROVE  GapsAreComplement
<1> SUFFICES ASSUME NEW r \in Rooms, NEW d \in Weekdays, NEW w \in Interval
             PROVE  LET ids  == {i \in Current: classes[i].room = r}
                        busy == BusyIntervals(ids, d, w)
                        free == FreeGaps(BusyIntervals(ids, d, [start |-> Open, end |-> Close]), w)
                    IN /\ Apart(busy) /\ Apart(free)
                       /\ Covered(busy) = Taught(ids, d) \intersect Minutes(w)
                       /\ Covered(free) = Minutes(w) \ Covered(busy)
                       /\ TotalMinutes(busy) + TotalMinutes(free) = w.end - w.start
  BY DEF GapsAreComplement
<1> DEFINE ids  == {i \in Current: classes[i].room = r}
           busy == BusyIntervals(ids, d, w)
           day  == BusyIntervals(ids, d, Whole)
           free == FreeGaps(day, w)
<1>1. ids \in SUBSET Current
  OBVIOUS
<1>2. /\ w \in Span /\ w.start \in Int /\ w.end \in Int
      /\ Open <= w.start /\ w.start < w.end /\ w.end <= Close
  BY IntervalIs
<1> HIDE DEF ids
<1>3. /\ busy \in Seq(Span) /\ Apart(busy)
      /\ Covered(busy) = Taught(ids, d) \intersect Minutes(w)
  BY <1>1, <1>2, BusyAre
<1>4. day \in Seq(Span) /\ Covered(day) = Taught(ids, d) \intersect Minutes(Whole)
  BY <1>1, WholeIs, BusyAre
<1> HIDE DEF day
<1>5. free \in Seq(Span) /\ Apart(free) /\ Covered(free) = Minutes(w) \ Covered(day)
  BY <1>2, <1>4, GapsAre
<1>6. Minutes(w) \subseteq Minutes(Whole)
  <2>1. \A x \in Minutes(w) : x \in Int /\ w.start <= x /\ x < w.end
    BY <1>2, MinutesOf
  <2>2. \A x \in Minutes(w) : x \in Int /\ Open <= x /\ x < Close
    BY <1>2, <2>1, WholeIs
  <2> QED
    BY <2>2, MinutesOf, WholeIs
<1>7. Covered(free) = Minutes(w) \ Covered(busy)
  BY <1>3, <1>4, <1>5, <1>6
<1> HIDE DEF busy, free
<1>8. Covered(busy) \union Covered(free) = Minutes(w) /\ Covered(busy) \cap Covered(free) = {}
  BY <1>3, <1>7
<1>9. TotalMinutes(busy) + TotalMinutes(free) = w.end - w.start
  <2>1. /\ TotalMinutes(busy) = Cardinality(Covered(busy)) /\ IsFiniteSet(Covered(busy))
        /\ TotalMinutes(free) = Cardinality(Covered(free)) /\ IsFiniteSet(Covered(free))
    BY <1>3, <1>5, TotalIs
  <2>2. Cardinality(Covered(busy)) \in Nat /\ Cardinality(Covered(free)) \in Nat
    BY <2>1, FS_CardinalityType
  <2>3. Cardinality(Minutes(w)) = Cardinality(Covered(busy)) + Cardinality(Covered(free)) - 0
    BY <1>8, <2>1, FS_Union, FS_EmptySet
  <2>4. Cardinality(Minutes(w)) = w.end - w.start
    BY <1>2, MinutesCount
  <2> QED
    BY <2>1, <2>2, <2>3, <2>4
<1> QED
  BY <1>3, <1>5, <1>7, <1>9 DEF busy, free, day, ids, Whole

(* A room is free on the one page when it is on the other (PagesAgree).    *)
LEMMA RoomPages ==
  ASSUME ScheduleTypes
  PROVE  PagesAgree
<1> SUFFICES ASSUME NEW r \in Rooms, NEW d \in Weekdays, NEW w \in Interval
             PROVE  LET ids   == {i \in Current: classes[i].room = r}
                        whole == [start |-> Open, end |-> Close]
                    IN (r \in FreeRooms(d, w)) <=> ~IsBusy(BusyIntervals(ids, d, whole), w)
  BY DEF PagesAgree
<1> DEFINE ids == {i \in Current: classes[i].room = r}
           day == BusyIntervals(ids, d, Whole)
<1>1. ids \in SUBSET Current
  OBVIOUS
<1>2. /\ w \in Span /\ w.start \in Int /\ w.end \in Int
      /\ Open <= w.start /\ w.start < w.end /\ w.end <= Close
  BY IntervalIs
<1>3. /\ day \in Seq(Span) /\ Apart(day)
      /\ Covered(day) = Taught(ids, d) \intersect Minutes(Whole)
  <2> HIDE DEF ids
  <2> QED
    BY <1>1, WholeIs, BusyAre
<1> HIDE DEF day
<1>4. \A x \in Minutes(w) : x \in Minutes(Whole)
  <2>1. \A x \in Minutes(w) : x \in Int /\ w.start <= x /\ x < w.end
    BY <1>2, MinutesOf
  <2>2. \A x \in Minutes(w) : x \in Int /\ Open <= x /\ x < Close
    BY <1>2, <2>1, WholeIs
  <2> QED
    BY <2>2, MinutesOf, WholeIs
<1>5. IsBusy(day, w) <=> \E x : x \in Covered(day) /\ x \in Minutes(w)
  <2>1. \A k \in DOMAIN day : Overlaps(day[k], w) <=> \E x : x \in Minutes(day[k]) /\ x \in Minutes(w)
    <3> TAKE k \in DOMAIN day
    <3>1. k \in 1..Len(day) /\ day[k] \in Span
      BY <1>3, Spans
    <3>2. day[k].start < day[k].end
      BY <1>3, <3>1, ApartOf
    <3> QED
      BY <1>2, <3>1, <3>2, OverlapMeets
  <2>2. \A x : x \in Covered(day) <=> \E k \in DOMAIN day : x \in Minutes(day[k])
    BY CoveredBy
  <2>3. IsBusy(day, w) <=> \E k \in DOMAIN day : Overlaps(day[k], w)
    BY DEF IsBusy
  <2> QED
    BY <2>1, <2>2, <2>3
<1>6. \A i \in ids : /\ i \in Current
                     /\ Overlaps(classes[i].time, w) <=>
                          \E x : x \in Minutes(classes[i].time) /\ x \in Minutes(w)
  <2> TAKE i \in ids
  <2>1. i \in Current
    BY <1>1
  <2>2. classes[i].time \in Span /\ classes[i].time.start < classes[i].time.end
    BY <2>1, ClassIs, IntervalIs
  <2> QED
    BY <1>2, <2>1, <2>2, OverlapMeets
<1>7. (\E x : x \in Covered(day) /\ x \in Minutes(w))
      <=> \E i \in ids : classes[i].day = d /\ Overlaps(classes[i].time, w)
  <2>1. \A x : x \in Taught(ids, d) <=> \E i \in ids : classes[i].day = d /\ x \in Minutes(classes[i].time)
    <3> HIDE DEF ids
    <3> QED
      BY DEF Taught
  <2>2. \A x \in Minutes(w) : x \in Covered(day) <=> x \in Taught(ids, d)
    BY <1>3, <1>4
  <2> HIDE DEF ids
  <2> QED
    BY <1>6, <2>1, <2>2
<1>8. r \in FreeRooms(d, w) <=> ~ \E i \in ids : classes[i].day = d /\ Overlaps(classes[i].time, w)
  <2>1. r # None
    BY NoneAssumption
  <2>2. r \in FreeRooms(d, w) <=>
          ~ \E i \in Current : /\ classes[i].day = d /\ classes[i].room # None
                               /\ Overlaps(classes[i].time, w) /\ classes[i].room = r
    BY DEF FreeRooms, Occupancy
  <2> QED
    BY <2>1, <2>2
<1>9. (r \in FreeRooms(d, w)) <=> ~IsBusy(day, w)
  <2> HIDE DEF ids
  <2> QED
    BY <1>5, <1>7, <1>8
<1> QED
  BY <1>9 DEF day, ids, Whole

(* Sets, taken together, have as many elements as their sizes sum up to    *)
(* exactly when no two of them meet.                                       *)
LEMMA DisjointCount ==
  ASSUME NEW T, IsFiniteSet(T), NEW m, NEW F,
         \A i \in T : IsFiniteSet(m[i]) /\ F[i] = Cardinality(m[i])
  PROVE  Cardinality(UNION {m[i] : i \in T}) = SumFunctionOnSet(F, T)
         <=> \A i, j \in T : i # j => m[i] \cap m[j] = {}
<1> DEFINE All(s) == UNION {m[i] : i \in s}
           Sum(s) == SumFunctionOnSet(F, s)
           Alone(s) == \A i, j \in s : i # j => m[i] \cap m[j] = {}
           Fine(s) == /\ IsFiniteSet(All(s)) /\ Sum(s) \in Int /\ Cardinality(All(s)) <= Sum(s)
                      /\ Cardinality(All(s)) = Sum(s) <=> Alone(s)
           Good == {s \in SUBSET T : Fine(s)}
<1>1. \A i \in T : F[i] \in Int /\ IsFiniteSet(m[i]) /\ F[i] = Cardinality(m[i])
  BY FS_CardinalityType
<1>2. Sum({}) = 0
  BY SumEmpty
<1>3. ASSUME NEW s \in SUBSET T, NEW x \in s
      PROVE  Sum(s) = F[x] + Sum(s \ {x})
  <2>1. IsFiniteSet(s) /\ \A i \in s : F[i] \in Int
    BY <1>1, FS_Subset
  <2> QED
    BY <2>1, SumTakes
<1> HIDE DEF Sum
<1>4. ASSUME NEW s \in SUBSET T, \A x \in s : s \ {x} \in Good PROVE Fine(s)
  <2>1. CASE s = {}
    <3>1. All(s) = {} /\ Alone(s)
      BY <2>1
    <3> HIDE DEF All, Alone
    <3>2. Cardinality(All(s)) = 0 /\ IsFiniteSet(All(s)) /\ Sum(s) = 0
      BY <1>2, <2>1, <3>1, FS_EmptySet
    <3> QED
      BY <3>1, <3>2
  <2>2. ASSUME NEW x \in s PROVE Fine(s)
    <3>1. PICK r : r = s \ {x} /\ Fine(r)
      BY <1>4, <2>2
    <3>2. All(s) = All(r) \union m[x]
      BY <3>1
    <3>3. Alone(s) <=> Alone(r) /\ All(r) \cap m[x] = {}
      <4>1. ASSUME Alone(s) PROVE Alone(r) /\ All(r) \cap m[x] = {}
        BY <3>1, <4>1
      <4>2. ASSUME Alone(r), All(r) \cap m[x] = {} PROVE Alone(s)
        <5>1. \A i \in r : m[i] \cap m[x] = {}
          BY <4>2
        <5>2. ASSUME NEW i \in s, NEW j \in s, i # j PROVE m[i] \cap m[j] = {}
          <6>1. CASE i \in r /\ j \in r
            BY <4>2, <5>2, <6>1
          <6>2. CASE i \notin r
            <7>1. i = x /\ j \in r
              BY <3>1, <5>2, <6>2
            <7>2. m[j] \cap m[x] = {}
              BY <5>1, <7>1
            <7> QED
              BY <7>1, <7>2
          <6>3. CASE j \notin r
            <7>1. j = x /\ i \in r
              BY <3>1, <5>2, <6>3
            <7> QED
              BY <5>1, <7>1
          <6> QED
            BY <6>1, <6>2, <6>3
        <5> QED
          BY <5>2
      <4> HIDE DEF Alone, All
      <4> QED
        BY <4>1, <4>2
    <3> HIDE DEF All, Alone
    <3>4. IsFiniteSet(m[x]) /\ F[x] = Cardinality(m[x]) /\ x \in T
      BY <1>1
    <3>5. /\ IsFiniteSet(All(r)) /\ Sum(r) \in Int /\ Cardinality(All(r)) <= Sum(r)
          /\ Cardinality(All(r)) = Sum(r) <=> Alone(r)
      BY <3>1
    <3>6. /\ IsFiniteSet(All(s))
          /\ Cardinality(All(s)) = Cardinality(All(r)) + Cardinality(m[x]) - Cardinality(All(r) \cap m[x])
      BY <3>2, <3>4, <3>5, FS_Union, SMTT(20)
    <3>7. PICK a \in Nat, b \in Nat :
            a = Cardinality(All(r)) /\ b = Cardinality(m[x])
      BY <3>4, <3>5, FS_CardinalityType
    <3>8. PICK c \in Nat : c = Cardinality(All(r) \cap m[x]) /\ (c = 0 <=> All(r) \cap m[x] = {})
      <4>1. IsFiniteSet(All(r) \cap m[x])
        BY <3>5, FS_Intersection
      <4> QED
        BY <4>1, FS_CardinalityType, FS_EmptySet
    <3>9. Sum(s) = b + Sum(r) /\ Cardinality(All(s)) = a + b - c
      BY <1>3, <3>1, <3>4, <3>6, <3>7, <3>8
    <3>10. Cardinality(All(s)) = Sum(s) <=> a = Sum(r) /\ c = 0
      BY <3>5, <3>7, <3>9
    <3>11. Cardinality(All(s)) <= Sum(s) /\ Sum(s) \in Int
      BY <3>5, <3>7, <3>9
    <3>12. Cardinality(All(s)) = Sum(s) <=> Alone(s)
      BY <3>3, <3>5, <3>7, <3>8, <3>10
    <3> QED
      BY <3>6, <3>11, <3>12
  <2> QED
    BY <2>1, <2>2
<1>5. \A s \in SUBSET T : (\A x \in s : s \ {x} \in Good) => s \in Good
  <2> HIDE DEF Fine
  <2> QED
    BY <1>4
<1> HIDE DEF Good
<1>6. T \in Good
  <2>1. \A s \in SUBSET T : s \in Good
    <3> HIDE DEF All, Alone, Fine
    <3> QED
      BY <1>5, FiniteInduction
  <2> QED
    BY <2>1
<1>7. Fine(T)
  BY <1>6 DEF Good
<1> QED
  BY <1>7 DEF Sum

(* A resource that two entries share, and no null.                         *)
LEMMA SharedIs ==
  ASSUME ScheduleTypes, NEW of \in {"teacher", "room"}, NEW i \in Current
  PROVE  classes[i][of] \in Rooms \union Teachers \union {None}
<1>1. classes[i] \in Class
  BY ClassIs
<1>2. /\ classes[i].teacher \in Teachers \union {None}
      /\ classes[i].room \in Rooms \union {None}
  BY <1>1 DEF Class
<1>3. CASE of = "teacher"
  BY <1>2, <1>3
<1>4. CASE of = "room"
  BY <1>2, <1>4
<1> QED
  BY <1>3, <1>4

(* What detectConflicts reports.                                           *)
LEMMA ConflictIs ==
  ASSUME NEW of \in {"teacher", "room"}, NEW i \in Current, NEW j \in Current
  PROVE  <<of, i, j>> \in DetectConflicts <=>
           /\ i < j /\ classes[i].day = classes[j].day
           /\ Overlaps(classes[i].time, classes[j].time)
           /\ classes[i][of] # None /\ classes[i][of] = classes[j][of]
  BY DEF DetectConflicts, Shared

(* A conflict is of a resource and two entries.                            *)
LEMMA ConflictParts ==
  ASSUME NEW c \in DetectConflicts
  PROVE  /\ c[1] \in {"teacher", "room"} /\ c[2] \in Current /\ c[3] \in Current
         /\ c = <<c[1], c[2], c[3]>>
  BY DEF DetectConflicts

(* A conflict is of a resource there is, and is reported one way round.    *)
LEMMA NoConflictTwice ==
  ASSUME ScheduleTypes, NEW c \in DetectConflicts
  PROVE  /\ classes[c[2]][c[1]] \in Rooms \union Teachers
         /\ <<c[1], c[3], c[2]>> \notin DetectConflicts
<1>1. PICK of \in {"teacher", "room"}, i \in Current, j \in Current :
        c = <<of, i, j>> /\ of = c[1] /\ i = c[2] /\ j = c[3]
  BY ConflictParts
<1>2. i < j /\ classes[i][of] # None
  BY <1>1, ConflictIs
<1>3. classes[i][of] \in Rooms \union Teachers
  BY <1>2, SharedIs
<1>4. i \in Nat /\ j \in Nat
  BY ClassIs
<1>5. ~ (j < i)
  BY <1>2, <1>4
<1>6. <<of, j, i>> \notin DetectConflicts
  BY <1>5, ConflictIs
<1> QED
  BY <1>1, <1>3, <1>6

(* The conflicts are the double bookings (ConflictsAreDoubleBookings).     *)
LEMMA ConflictsMeet ==
  ASSUME ScheduleTypes
  PROVE  ConflictsAreDoubleBookings
<1> SUFFICES ASSUME NEW of \in {"teacher", "room"}, NEW x \in Rooms \union Teachers,
                    NEW d \in Weekdays
             PROVE  LET ids  == {i \in Current: classes[i][of] = x /\ classes[i].day = d}
                        sum  == SumFunctionOnSet([i \in ids |-> Cardinality(Minutes(classes[i].time))], ids)
                        twice == {c \in DetectConflicts: c[1] = of /\ c[2] \in ids}
                    IN twice = {} <=> TotalMinutes(Times(ids)) = sum
  BY NoConflictTwice DEF ConflictsAreDoubleBookings
<1> DEFINE ids == {i \in Current: classes[i][of] = x /\ classes[i].day = d}
           F == [i \in ids |-> Cardinality(Minutes(classes[i].time))]
           m == [i \in ids |-> Minutes(classes[i].time)]
           twice == {c \in DetectConflicts: c[1] = of /\ c[2] \in ids}
           Alone == \A i, j \in ids : i # j => m[i] \cap m[j] = {}
<1>1. ids \in SUBSET Current /\ IsFiniteSet(ids)
  <2>1. ids \in SUBSET Current
    OBVIOUS
  <2> HIDE DEF ids
  <2> QED
    BY <2>1, CurrentFinite
<1>2. \A i \in ids : /\ i \in Current /\ i \in Nat /\ classes[i][of] = x /\ classes[i].day = d
                     /\ classes[i].time \in Span /\ classes[i].time.start < classes[i].time.end
  <2> TAKE i \in ids
  <2>1. i \in Current /\ classes[i][of] = x /\ classes[i].day = d
    OBVIOUS
  <2> HIDE DEF ids
  <2> QED
    BY <2>1, ClassIs, IntervalIs
<1>3. x # None
  BY NoneAssumption
<1>4. ASSUME NEW j \in Current, classes[j][of] = x, classes[j].day = d PROVE j \in ids
  BY <1>4
<1>5. \A c : c \in twice <=> c \in DetectConflicts /\ c[1] = of /\ c[2] \in ids
  OBVIOUS
<1> HIDE DEF ids, twice
<1>6. \A i \in ids : /\ m[i] = Minutes(classes[i].time) /\ IsFiniteSet(m[i])
                     /\ F[i] = Cardinality(m[i])
  <2> TAKE i \in ids
  <2>1. m[i] = Minutes(classes[i].time) /\ F[i] = Cardinality(m[i])
    OBVIOUS
  <2>2. IsFiniteSet(Minutes(classes[i].time))
    BY <1>2, MinutesCount
  <2> QED
    BY <2>1, <2>2
<1> HIDE DEF m, F
<1>7. Cardinality(UNION {m[i] : i \in ids}) = SumFunctionOnSet(F, ids) <=> Alone
  BY <1>1, <1>6, DisjointCount
<1>8. TotalMinutes(Times(ids)) = Cardinality(UNION {m[i] : i \in ids})
  <2>1. PICK t \in Seq(Span) :
          /\ t = Times(ids)
          /\ \A k \in 1..Len(t) : \E i \in ids : t[k] = classes[i].time
          /\ \A i \in ids : \E k \in 1..Len(t) : t[k] = classes[i].time
    BY <1>1, TimesAre
  <2>2. TotalMinutes(t) = Cardinality(Covered(t)) /\ DOMAIN t = 1..Len(t)
    BY TotalIs, Spans
  <2>3. \A y : y \in Covered(t) <=> \E i \in ids : y \in m[i]
    BY <1>6, <2>1, <2>2, CoveredBy
  <2>4. Covered(t) = UNION {m[i] : i \in ids}
    BY <2>3
  <2> QED
    BY <2>1, <2>2, <2>4
<1>9. ASSUME twice = {} PROVE Alone
  <2>1. ASSUME NEW i \in ids, NEW j \in ids, i < j PROVE m[i] \cap m[j] = {}
    <3>1. <<of, i, j>> \notin DetectConflicts
      BY <1>5, <1>9
    <3>2. ~ Overlaps(classes[i].time, classes[j].time)
      BY <1>2, <1>3, <2>1, <3>1, ConflictIs
    <3> QED
      BY <1>2, <1>6, <3>2, OverlapMeets
  <2>2. ASSUME NEW i \in ids, NEW j \in ids, i # j PROVE m[i] \cap m[j] = {}
    <3>1. i \in Nat /\ j \in Nat
      BY <1>2
    <3>2. CASE i < j
      BY <2>1, <3>2
    <3>3. CASE j < i
      <4>1. m[j] \cap m[i] = {}
        BY <2>1, <3>3
      <4> QED
        BY <4>1
    <3> QED
      BY <2>2, <3>1, <3>2, <3>3
  <2> QED
    BY <2>2
<1>10. ASSUME Alone, NEW c \in twice PROVE FALSE
  <2>1. c \in DetectConflicts /\ c[1] = of /\ c[2] \in ids
    BY <1>5, <1>10
  <2>2. PICK i \in ids, j \in Current : c = <<of, i, j>>
    BY <2>1, ConflictParts
  <2>3. i \in Current /\ i \in Nat /\ classes[i][of] = x /\ classes[i].day = d
    BY <1>2
  <2>4. /\ i < j /\ classes[i].day = classes[j].day
        /\ Overlaps(classes[i].time, classes[j].time)
        /\ classes[i][of] = classes[j][of]
    BY <2>1, <2>2, <2>3, ConflictIs
  <2>5. j \in ids
    BY <1>4, <2>3, <2>4
  <2>6. i # j
    BY <2>3, <2>4
  <2>7. m[i] \cap m[j] = {}
    BY <1>10, <2>5, <2>6
  <2>8. PICK y : y \in Minutes(classes[i].time) /\ y \in Minutes(classes[j].time)
    BY <1>2, <2>4, <2>5, OverlapMeets
  <2> QED
    BY <1>6, <2>5, <2>7, <2>8
<1>11. twice = {} <=> TotalMinutes(Times(ids)) = SumFunctionOnSet(F, ids)
  BY <1>7, <1>8, <1>9, <1>10
<1> QED
  BY <1>11 DEF ids, F, twice

(* At the start there are no entries.                                      *)
LEMMA ScheduleStart == ScheduleInit => ScheduleTypes
  BY DEF ScheduleInit, ScheduleTypes

(* Storing and closing an entry keep the types.                            *)
LEMMA ScheduleStep ==
  ASSUME ScheduleTypes, [ScheduleNext]_classes
  PROVE  ScheduleTypes'
<1>1. CASE Insert
  BY <1>1 DEF ScheduleTypes, Insert
<1>2. CASE CloseEntry
  BY <1>2 DEF ScheduleTypes, CloseEntry, Current
<1>3. CASE UNCHANGED classes
  BY <1>3 DEF ScheduleTypes
<1> QED
  BY <1>1, <1>2, <1>3 DEF ScheduleNext

(* The entries of the timetable keep their types.                          *)
THEOREM ScheduleInvariance == ScheduleSpec => []ScheduleTypes
<1>1. ScheduleInit => ScheduleTypes
  BY ScheduleStart
<1>2. ScheduleTypes /\ [ScheduleNext]_classes => ScheduleTypes'
  BY ScheduleStep
<1> QED
  BY <1>1, <1>2, PTL DEF ScheduleSpec

(* busyIntervals, freeGaps and totalMinutes: for any entries, rooms, day   *)
(* and window, the busy stretches and the gaps are maximal, divide the     *)
(* window and count each of its minutes once (StretchesInv).               *)
THEOREM StretchesDivideTheDay == ScheduleSpec => []StretchesInv
<1>1. ScheduleTypes => StretchesInv
  BY ListsDivide DEF StretchesInv
<1> QED
  BY <1>1, ScheduleInvariance, PTL

(* The free-rooms page and the day view never disagree about a room        *)
(* (PagesAgree).                                                           *)
THEOREM PagesAlwaysAgree == ScheduleSpec => []PagesAgree
<1>1. ScheduleTypes => PagesAgree
  BY RoomPages
<1> QED
  BY <1>1, ScheduleInvariance, PTL

(* detectConflicts reports no conflict twice, and reports one exactly when *)
(* the entries of a teacher or a room have more minutes than they cover    *)
(* (ConflictsAreDoubleBookings).                                           *)
THEOREM ConflictsAlwaysReal == ScheduleSpec => []ConflictsAreDoubleBookings
<1>1. ScheduleTypes => ConflictsAreDoubleBookings
  BY ConflictsMeet
<1> QED
  BY <1>1, ScheduleInvariance, PTL
=============================================================================
