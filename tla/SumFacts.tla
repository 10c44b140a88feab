------------------------------ MODULE SumFacts ------------------------------
(***************************************************************************)
(* Facts about SumFunctionOnSet and SumFunction of the Functions module,   *)
(* which Campaign uses for every total it keeps or computes: what they     *)
(* return, and how a total moves when one entry changes.                   *)
(*                                                                         *)
(* Induction is over a set of natural numbers (SetInduction), so that each *)
(* induction hypothesis is a set comprehension.                            *)
(***************************************************************************)
EXTENDS Integers, FiniteSets, Functions, FiniteSetTheorems,
        WellFoundedInduction, TLAPS

\* A set of naturals that holds 0 and the successor of each of its members
\* holds every natural: otherwise the least one it lacks has a predecessor.
LEMMA SetInduction ==
    ASSUME NEW S, 0 \in S, \A n \in Nat : n \in S => n + 1 \in S
    PROVE  \A n \in Nat : n \in S
<1> DEFINE Missing == {n \in Nat : n \notin S}
           Less == OpToRel(<, Nat)
<1>1. SUFFICES ASSUME Missing # {}
               PROVE  FALSE
  OBVIOUS
<1>2. IsWellFoundedOn(Less, Nat)
  BY NatLessThanWellFounded
<1>3. PICK m \in Missing : \A n \in Missing : ~(<<n, m>> \in Less)
  <2> HIDE DEF Less
  <2> QED BY <1>1, <1>2, WFMin
<1>4. \A n \in Missing : ~(n < m)
  BY <1>3 DEF OpToRel
<1>5. m # 0 /\ m - 1 \in Nat /\ m - 1 < m /\ m = (m - 1) + 1
  OBVIOUS
<1>6. m - 1 \in S
  BY <1>4, <1>5
<1> QED BY <1>5, <1>6

-----------------------------------------------------------------------------
(***************************************************************************)
(* The table the fold builds: h[s] is the sum of f over s, for s \in       *)
(* SUBSET S, computed by taking away one chosen element at a time.         *)
(***************************************************************************)
Pick1(s) == CHOOSE x \in s : TRUE

Folds1(f, S, h) ==
    h = [s \in SUBSET S |->
            IF s = {} THEN 0 ELSE f[Pick1(s)] + h[s \ {Pick1(s)}]]

Table(f, S) == CHOOSE h : Folds1(f, S, h)

LEMMA SumIsTable ==
    ASSUME NEW f, NEW S
    PROVE  SumFunctionOnSet(f, S) = Table(f, S)[S]
BY DEF SumFunctionOnSet, FoldFunctionOnSet, MapThenFoldSet, Table, Folds1,
       Pick1

\* The part of the table for the subsets of at most n elements.
Small(S, n) == {s \in SUBSET S : Cardinality(s) <= n}

FoldsUpTo(f, S, n, h) ==
    h = [s \in Small(S, n) |->
            IF s = {} THEN 0 ELSE f[Pick1(s)] + h[s \ {Pick1(s)}]]

\* Taking the chosen element away leaves a subset with one element fewer.
LEMMA PickShrinks ==
    ASSUME NEW S, IsFiniteSet(S), NEW s \in SUBSET S, s # {}
    PROVE  /\ Pick1(s) \in s
           /\ s \ {Pick1(s)} \in SUBSET S
           /\ IsFiniteSet(s) /\ IsFiniteSet(s \ {Pick1(s)})
           /\ Cardinality(s) \in Nat /\ Cardinality(s \ {Pick1(s)}) \in Nat
           /\ Cardinality(s \ {Pick1(s)}) = Cardinality(s) - 1
<1>1. Pick1(s) \in s
  BY DEF Pick1
<1>2. IsFiniteSet(s)
  BY FS_Subset
<1> QED BY <1>1, <1>2, FS_RemoveElement, FS_CardinalityType

\* The table exists: it is built for subsets of growing size.
LEMMA TableExists ==
    ASSUME NEW f, NEW S, IsFiniteSet(S)
    PROVE  Folds1(f, S, Table(f, S))
<1> DEFINE Q == {n \in Nat : \E h : FoldsUpTo(f, S, n, h)}
<1>1. 0 \in Q
  <2>1. \A s \in Small(S, 0) : s = {}
    BY FS_Subset, FS_EmptySet, FS_CardinalityType DEF Small
  <2>2. FoldsUpTo(f, S, 0, [s \in Small(S, 0) |-> 0])
    BY <2>1 DEF FoldsUpTo
  <2> QED BY <2>2
<1>2. ASSUME NEW n \in Nat, n \in Q
      PROVE  n + 1 \in Q
  <2>1. PICK h : FoldsUpTo(f, S, n, h)
    BY <1>2
  <2> DEFINE g == [s \in Small(S, n + 1) |->
                     IF s \in Small(S, n) THEN h[s]
                     ELSE f[Pick1(s)] + h[s \ {Pick1(s)}]]
  <2>2. ASSUME NEW s \in Small(S, n + 1)
        PROVE  g[s] = IF s = {} THEN 0
                      ELSE f[Pick1(s)] + g[s \ {Pick1(s)}]
    <3>1. CASE s = {}
      <4>1. s \in Small(S, n)
        BY <3>1, FS_EmptySet DEF Small
      <4> QED BY <4>1, <3>1, <2>1 DEF FoldsUpTo
    <3>2. CASE s # {}
      <4> DEFINE r == s \ {Pick1(s)}
      <4>0. s \in SUBSET S /\ Cardinality(s) <= n + 1
        BY DEF Small
      <4>a. /\ r \in SUBSET S /\ Cardinality(s) \in Nat
            /\ Cardinality(r) = Cardinality(s) - 1
        BY <4>0, <3>2, PickShrinks
      <4>b. Cardinality(r) <= n /\ Cardinality(r) <= n + 1
        <5> HIDE DEF r
        <5> QED BY <4>0, <4>a
      <4>1. r \in Small(S, n) /\ r \in Small(S, n + 1)
        BY <4>a, <4>b DEF Small
      <4>2. g[s \ {Pick1(s)}] = h[s \ {Pick1(s)}]
        BY <4>1
      <4>3. CASE s \in Small(S, n)
        <5>1. h[s] = f[Pick1(s)] + h[s \ {Pick1(s)}]
          BY <4>3, <3>2, <2>1 DEF FoldsUpTo
        <5> QED BY <5>1, <4>2, <4>3, <3>2
      <4>4. CASE s \notin Small(S, n)
        BY <4>4, <4>2, <3>2
      <4> QED BY <4>3, <4>4
    <3> QED BY <3>1, <3>2
  <2>3. FoldsUpTo(f, S, n + 1, g)
    <3> DEFINE k == [s \in Small(S, n + 1) |->
                        IF s = {} THEN 0
                        ELSE f[Pick1(s)] + g[s \ {Pick1(s)}]]
    <3>1. \A s \in Small(S, n + 1) : g[s] = k[s]
      <4> HIDE DEF g
      <4> QED BY <2>2
    <3>2. g = k
      BY <3>1
    <3> HIDE DEF g
    <3> QED BY <3>2 DEF FoldsUpTo
  <2> HIDE DEF g
  <2> QED BY <2>3
<1>3. Cardinality(S) \in Q
  <2> HIDE DEF Q
  <2> QED BY <1>1, <1>2, SetInduction, FS_CardinalityType
<1>4. PICK h : FoldsUpTo(f, S, Cardinality(S), h)
  BY <1>3
<1>5. Small(S, Cardinality(S)) = SUBSET S
  BY FS_Subset DEF Small
<1>6. Folds1(f, S, h)
  BY <1>4, <1>5 DEF FoldsUpTo, Folds1
<1> QED BY <1>6 DEF Table

LEMMA TableEntry ==
    ASSUME NEW f, NEW S, IsFiniteSet(S), NEW s \in SUBSET S
    PROVE  Table(f, S)[s] =
              IF s = {} THEN 0
              ELSE f[Pick1(s)] + Table(f, S)[s \ {Pick1(s)}]
<1> DEFINE T == Table(f, S)
<1>1. Folds1(f, S, T)
  BY TableExists
<1> HIDE DEF T
<1>2. T[s] = IF s = {} THEN 0 ELSE f[Pick1(s)] + T[s \ {Pick1(s)}]
  <2> DEFINE k == [r \in SUBSET S |->
                      IF r = {} THEN 0 ELSE f[Pick1(r)] + T[r \ {Pick1(r)}]]
  <2>1. T = k
    BY <1>1 DEF Folds1
  <2>2. k[s] = IF s = {} THEN 0 ELSE f[Pick1(s)] + T[s \ {Pick1(s)}]
    OBVIOUS
  <2> HIDE DEF k
  <2> QED BY <2>1, <2>2
<1> QED BY <1>2 DEF T

EveryStep(f, S) ==
    \A s \in SUBSET S : s # {} =>
        Table(f, S)[s] = f[Pick1(s)] + Table(f, S)[s \ {Pick1(s)}]

LEMMA TableSteps ==
    ASSUME NEW f, NEW S, IsFiniteSet(S)
    PROVE  EveryStep(f, S)
<1>1. ASSUME NEW s \in SUBSET S, s # {}
      PROVE  Table(f, S)[s] = f[Pick1(s)] + Table(f, S)[s \ {Pick1(s)}]
  BY <1>1, TableEntry
<1> QED BY <1>1 DEF EveryStep

\* The entries of the table of an integer function are integers.
LEMMA TableTyped ==
    ASSUME NEW f, NEW S, IsFiniteSet(S), \A x \in S : f[x] \in Int
    PROVE  \A s \in SUBSET S : Table(f, S)[s] \in Int
<1> DEFINE Q == {n \in Nat : \A s \in Small(S, n) : Table(f, S)[s] \in Int}
<1>1. 0 \in Q
  <2>1. \A s \in Small(S, 0) : s = {}
    BY FS_Subset, FS_EmptySet, FS_CardinalityType DEF Small
  <2>2. Table(f, S)[{}] = 0
    BY TableEntry
  <2>3. \A s \in Small(S, 0) : Table(f, S)[s] \in Int
    BY <2>1, <2>2
  <2> QED BY <2>3
<1>2. ASSUME NEW n \in Nat, n \in Q
      PROVE  n + 1 \in Q
  <2>1. ASSUME NEW s \in Small(S, n + 1), s # {}
        PROVE  Table(f, S)[s] \in Int
    <3> DEFINE r == s \ {Pick1(s)}
    <3>1. s \in SUBSET S /\ Cardinality(s) <= n + 1
      BY DEF Small
    <3>2. /\ Pick1(s) \in S /\ r \in SUBSET S /\ Cardinality(s) \in Nat
          /\ Cardinality(r) = Cardinality(s) - 1
      BY <2>1, <3>1, PickShrinks
    <3>3. Cardinality(r) <= n
      <4> HIDE DEF r
      <4> QED BY <3>1, <3>2
    <3>4. Table(f, S)[r] \in Int
      BY <1>2, <3>2, <3>3 DEF Small
    <3>5. Table(f, S)[s] = f[Pick1(s)] + Table(f, S)[r]
      BY <2>1, <3>1, TableEntry
    <3>6. f[Pick1(s)] \in Int
      BY <3>2
    <3> QED BY <3>4, <3>5, <3>6
  <2>2. Table(f, S)[{}] = 0
    BY TableEntry
  <2>3. \A s \in Small(S, n + 1) : Table(f, S)[s] \in Int
    BY <2>1, <2>2
  <2> QED BY <2>3
<1>3. \A n \in Nat : n \in Q
  <2> HIDE DEF Q
  <2> QED BY <1>1, <1>2, SetInduction
<1> SUFFICES ASSUME NEW s \in SUBSET S
             PROVE  Table(f, S)[s] \in Int
  OBVIOUS
<1>4. s \in Small(S, Cardinality(s)) /\ Cardinality(s) \in Nat
  BY FS_Subset, FS_CardinalityType DEF Small
<1> QED BY <1>3, <1>4

\* Any element can be taken away first, not only the chosen one: if the chosen
\* x differs from y, both orders reach the table's entry without x and y.
LEMMA TableRemove ==
    ASSUME NEW f, NEW S, IsFiniteSet(S), \A x \in S : f[x] \in Int
    PROVE  \A s \in SUBSET S : \A y \in s :
              Table(f, S)[s] = f[y] + Table(f, S)[s \ {y}]
<1> DEFINE T == Table(f, S)
           Q == {n \in Nat : \A s \in Small(S, n) : \A y \in s :
                               T[s] = f[y] + T[s \ {y}]}
<1>0. \A s \in SUBSET S : T[s] \in Int
  BY TableTyped
<1>1. 0 \in Q
  BY FS_Subset, FS_EmptySet, FS_CardinalityType DEF Small
<1>2. ASSUME NEW n \in Nat, n \in Q
      PROVE  n + 1 \in Q
  <2>1. ASSUME NEW s \in Small(S, n + 1), NEW y \in s
        PROVE  T[s] = f[y] + T[s \ {y}]
    <3> DEFINE x == Pick1(s)
    <3>1. s \in SUBSET S /\ s # {} /\ Cardinality(s) <= n + 1 /\ y \in S
      BY DEF Small
    <3>a. x \in s /\ Cardinality(s) \in Nat /\ IsFiniteSet(s)
      BY <3>1, PickShrinks
    <3>b. T[s] = f[x] + T[s \ {x}]
      BY <3>1, TableEntry
    <3>2. /\ x \in s /\ Cardinality(s) \in Nat /\ IsFiniteSet(s)
          /\ T[s] = f[x] + T[s \ {x}]
      BY <3>a, <3>b
    <3>3. CASE x = y
      BY <3>2, <3>3
    <3>4. CASE x # y
      <4> DEFINE rx == s \ {x}
                 ry == s \ {y}
                 both == s \ {x, y}
      <4>1. /\ Cardinality(rx) = Cardinality(s) - 1
            /\ Cardinality(ry) = Cardinality(s) - 1
        BY <3>2, FS_RemoveElement
      <4>2. Cardinality(rx) <= n /\ Cardinality(ry) <= n
        <5> HIDE DEF rx, ry, x
        <5> QED BY <4>1, <3>1, <3>2
      <4>3. rx \in Small(S, n) /\ ry \in Small(S, n)
        BY <3>1, <4>2 DEF Small
      <4>4. y \in rx /\ x \in ry /\ rx \ {y} = both /\ ry \ {x} = both
        BY <3>2, <3>4
      <4>5. T[rx] = f[y] + T[both]
        <5> HIDE DEF rx, both, T, x
        <5> QED BY <1>2, <4>3, <4>4
      <4>6. T[ry] = f[x] + T[both]
        <5> HIDE DEF ry, both, T, x
        <5> QED BY <1>2, <4>3, <4>4
      <4>7. f[x] \in Int /\ f[y] \in Int /\ T[both] \in Int
        BY <1>0, <3>1, <3>2
      <4> HIDE DEF T, x, both
      <4> QED BY <3>2, <4>5, <4>6, <4>7
    <3> QED BY <3>3, <3>4
  <2> HIDE DEF T
  <2> QED BY <2>1
<1>3. \A n \in Nat : n \in Q
  <2> HIDE DEF Q
  <2> QED BY <1>1, <1>2, SetInduction
<1> SUFFICES ASSUME NEW s \in SUBSET S, NEW y \in s
             PROVE  T[s] = f[y] + T[s \ {y}]
  OBVIOUS
<1>4. s \in Small(S, Cardinality(s)) /\ Cardinality(s) \in Nat
  BY FS_Subset, FS_CardinalityType DEF Small
<1> HIDE DEF T
<1> QED BY <1>3, <1>4

-----------------------------------------------------------------------------
(***************************************************************************)
(* The sums themselves.                                                    *)
(***************************************************************************)

\* A set of subsets of a finite S that holds a set whenever it holds every set
\* with one element fewer holds all of them.
LEMMA SubsetInduction ==
    ASSUME NEW S, IsFiniteSet(S), NEW Q, {} \in Q,
           \A s \in SUBSET S : s # {} /\ (\A y \in s : s \ {y} \in Q) => s \in Q
    PROVE  \A s \in SUBSET S : s \in Q
<1> DEFINE N == {n \in Nat : \A s \in Small(S, n) : s \in Q}
<1>1. 0 \in N
  <2>1. \A s \in Small(S, 0) : s = {}
    BY FS_Subset, FS_EmptySet, FS_CardinalityType DEF Small
  <2> QED BY <2>1
<1>2. ASSUME NEW n \in Nat, n \in N
      PROVE  n + 1 \in N
  <2>1. ASSUME NEW s \in Small(S, n + 1), s # {}
        PROVE  s \in Q
    <3>1. s \in SUBSET S /\ Cardinality(s) <= n + 1
      BY DEF Small
    <3>2. IsFiniteSet(s) /\ Cardinality(s) \in Nat
      BY <3>1, FS_Subset, FS_CardinalityType
    <3>3. ASSUME NEW y \in s
          PROVE  s \ {y} \in Q
      <4> DEFINE r == s \ {y}
      <4>1. Cardinality(r) = Cardinality(s) - 1 /\ r \in SUBSET S
        BY <3>1, <3>2, FS_RemoveElement
      <4> HIDE DEF r
      <4>2. Cardinality(r) <= n
        BY <4>1, <3>1, <3>2
      <4>3. r \in Q
        BY <1>2, <4>1, <4>2 DEF Small
      <4> QED BY <4>3 DEF r
    <3> QED BY <2>1, <3>1, <3>3
  <2>2. \A s \in Small(S, n + 1) : s \in Q
    BY <2>1
  <2> QED BY <2>2
<1>3. \A n \in Nat : n \in N
  <2> HIDE DEF N
  <2> QED BY <1>1, <1>2, SetInduction
<1> SUFFICES ASSUME NEW s \in SUBSET S
             PROVE  s \in Q
  OBVIOUS
<1>4. s \in Small(S, Cardinality(s)) /\ Cardinality(s) \in Nat
  BY FS_Subset, FS_CardinalityType DEF Small
<1> QED BY <1>3, <1>4

\* Tables of functions that agree on s agree at s, whatever else they cover.
LEMMA TablesAgree ==
    ASSUME NEW f, NEW g, NEW S, NEW T, IsFiniteSet(S), T \subseteq S,
           \A x \in T : f[x] = g[x]
    PROVE  \A s \in SUBSET T : Table(f, S)[s] = Table(g, T)[s]
<1> DEFINE Q == {s \in SUBSET T : Table(f, S)[s] = Table(g, T)[s]}
<1>0. IsFiniteSet(T)
  BY FS_Subset
<1>a. EveryStep(f, S) /\ EveryStep(g, T)
  BY <1>0, TableSteps
<1>1. {} \in Q
  <2>1. Table(f, S)[{}] = 0
    BY TableEntry, {} \in SUBSET S
  <2>2. Table(g, T)[{}] = 0
    BY <1>0, TableEntry, {} \in SUBSET T
  <2> QED BY <2>1, <2>2
<1>2. ASSUME NEW s \in SUBSET T, s # {}, \A y \in s : s \ {y} \in Q
      PROVE  s \in Q
  <2>1. Pick1(s) \in s
    BY <1>2 DEF Pick1
  <2>a. s \in SUBSET S /\ s # {}
    BY <1>2
  <2>2. Table(f, S)[s] = f[Pick1(s)] + Table(f, S)[s \ {Pick1(s)}]
    BY <1>a, <2>a DEF EveryStep
  <2>3. Table(g, T)[s] = g[Pick1(s)] + Table(g, T)[s \ {Pick1(s)}]
    BY <1>a, <2>a DEF EveryStep
  <2>4. Table(f, S)[s \ {Pick1(s)}] = Table(g, T)[s \ {Pick1(s)}]
    BY <2>1, <1>2
  <2>5. f[Pick1(s)] = g[Pick1(s)]
    BY <2>1
  <2> QED BY <2>2, <2>3, <2>4, <2>5
<1> HIDE DEF Q
<1>3. \A s \in SUBSET T : s \in Q
  BY <1>0, <1>1, <1>2, SubsetInduction
<1> QED BY <1>3 DEF Q

\* The empty sum.
THEOREM SumEmpty ==
    ASSUME NEW f
    PROVE  SumFunctionOnSet(f, {}) = 0
BY SumIsTable, TableEntry, FS_EmptySet

\* Functions that agree on S have the same sum over it.
THEOREM SumAgree ==
    ASSUME NEW f, NEW g, NEW S, IsFiniteSet(S), \A x \in S : f[x] = g[x]
    PROVE  SumFunctionOnSet(f, S) = SumFunctionOnSet(g, S)
BY SumIsTable, TablesAgree

\* A sum of integers is an integer.
THEOREM SumInt ==
    ASSUME NEW f, NEW S, IsFiniteSet(S), \A x \in S : f[x] \in Int
    PROVE  SumFunctionOnSet(f, S) \in Int
BY SumIsTable, TableTyped

\* One term can be taken out of a sum.
THEOREM SumRemove ==
    ASSUME NEW f, NEW S, IsFiniteSet(S), \A x \in S : f[x] \in Int,
           NEW y \in S
    PROVE  SumFunctionOnSet(f, S) = f[y] + SumFunctionOnSet(f, S \ {y})
<1> DEFINE R == S \ {y}
<1>1. Table(f, S)[S] = f[y] + Table(f, S)[R]
  BY TableRemove
<1>2. Table(f, S)[R] = Table(f, R)[R]
  BY TablesAgree
<1>3. SumFunctionOnSet(f, R) = Table(f, R)[R]
  BY SumIsTable
<1>4. SumFunctionOnSet(f, S) = Table(f, S)[S]
  BY SumIsTable
<1> QED BY <1>1, <1>2, <1>3, <1>4

\* A sum moves by as much as its only changed term.
THEOREM SumChange ==
    ASSUME NEW f, NEW g, NEW S, IsFiniteSet(S), NEW y \in S,
           \A x \in S : f[x] \in Int /\ g[x] \in Int,
           \A x \in S \ {y} : g[x] = f[x]
    PROVE  SumFunctionOnSet(g, S) = SumFunctionOnSet(f, S) + g[y] - f[y]
<1> DEFINE R == S \ {y}
<1>1. IsFiniteSet(R)
  BY FS_Subset
<1>2. SumFunctionOnSet(g, S) = g[y] + SumFunctionOnSet(g, R)
  BY SumRemove
<1>3. SumFunctionOnSet(f, S) = f[y] + SumFunctionOnSet(f, R)
  BY SumRemove
<1>4. SumFunctionOnSet(g, R) = SumFunctionOnSet(f, R)
  BY <1>1, SumAgree
<1>5. SumFunctionOnSet(f, R) \in Int
  BY <1>1, SumInt
<1> HIDE DEF R
<1> QED BY <1>2, <1>3, <1>4, <1>5

\* A sum of larger terms is larger.
THEOREM SumAtMost ==
    ASSUME NEW f, NEW g, NEW S, IsFiniteSet(S),
           \A x \in S : f[x] \in Int /\ g[x] \in Int /\ f[x] <= g[x]
    PROVE  SumFunctionOnSet(f, S) <= SumFunctionOnSet(g, S)
<1> DEFINE Q == {s \in SUBSET S :
                    SumFunctionOnSet(f, s) <= SumFunctionOnSet(g, s)}
<1>1. {} \in Q
  BY SumEmpty
<1>2. ASSUME NEW s \in SUBSET S, s # {}, \A y \in s : s \ {y} \in Q
      PROVE  s \in Q
  <2>1. PICK y \in s : TRUE
    BY <1>2
  <2> DEFINE r == s \ {y}
  <2>2. IsFiniteSet(s) /\ IsFiniteSet(r)
    BY FS_Subset
  <2>3. SumFunctionOnSet(f, s) = f[y] + SumFunctionOnSet(f, r)
    BY <2>2, SumRemove
  <2>4. SumFunctionOnSet(g, s) = g[y] + SumFunctionOnSet(g, r)
    BY <2>2, SumRemove
  <2>5. SumFunctionOnSet(f, r) \in Int /\ SumFunctionOnSet(g, r) \in Int
    BY <2>2, SumInt
  <2>6. SumFunctionOnSet(f, r) <= SumFunctionOnSet(g, r)
    BY <1>2
  <2>7. f[y] \in Int /\ g[y] \in Int /\ f[y] <= g[y]
    OBVIOUS
  <2> HIDE DEF r
  <2>8. SumFunctionOnSet(f, s) <= SumFunctionOnSet(g, s)
    BY <2>3, <2>4, <2>5, <2>6, <2>7
  <2> QED BY <2>8
<1> HIDE DEF Q
<1>3. \A s \in SUBSET S : s \in Q
  BY <1>1, <1>2, SubsetInduction
<1> QED BY <1>3 DEF Q

\* The sum of the sums is the sum taken term by term.
THEOREM SumPlus ==
    ASSUME NEW f, NEW g, NEW h, NEW S, IsFiniteSet(S),
           \A x \in S : /\ f[x] \in Int /\ g[x] \in Int
                        /\ h[x] = f[x] + g[x]
    PROVE  SumFunctionOnSet(h, S)
              = SumFunctionOnSet(f, S) + SumFunctionOnSet(g, S)
<1> DEFINE Q == {s \in SUBSET S :
                    SumFunctionOnSet(h, s)
                      = SumFunctionOnSet(f, s) + SumFunctionOnSet(g, s)}
<1>1. {} \in Q
  BY SumEmpty
<1>2. ASSUME NEW s \in SUBSET S, s # {}, \A y \in s : s \ {y} \in Q
      PROVE  s \in Q
  <2>1. PICK y \in s : TRUE
    BY <1>2
  <2> DEFINE r == s \ {y}
  <2>2. IsFiniteSet(s) /\ IsFiniteSet(r)
    BY FS_Subset
  <2>a. \A x \in S : h[x] \in Int
    OBVIOUS
  <2>3. /\ SumFunctionOnSet(f, s) = f[y] + SumFunctionOnSet(f, r)
        /\ SumFunctionOnSet(g, s) = g[y] + SumFunctionOnSet(g, r)
    BY <2>2, SumRemove
  <2>4. SumFunctionOnSet(h, s) = h[y] + SumFunctionOnSet(h, r)
    BY <2>2, <2>a, SumRemove
  <2>5. SumFunctionOnSet(f, r) \in Int /\ SumFunctionOnSet(g, r) \in Int
    BY <2>2, SumInt
  <2>6. SumFunctionOnSet(h, r)
          = SumFunctionOnSet(f, r) + SumFunctionOnSet(g, r)
    BY <1>2
  <2>7. f[y] \in Int /\ g[y] \in Int /\ h[y] = f[y] + g[y]
    OBVIOUS
  <2> HIDE DEF r
  <2>8. SumFunctionOnSet(h, s)
          = SumFunctionOnSet(f, s) + SumFunctionOnSet(g, s)
    BY <2>3, <2>4, <2>5, <2>6, <2>7
  <2> QED BY <2>8
<1> HIDE DEF Q
<1>3. \A s \in SUBSET S : s \in Q
  BY <1>1, <1>2, SubsetInduction
<1> QED BY <1>3 DEF Q

\* A sum of naturals is a natural, and bounds each of its terms.
THEOREM SumNat ==
    ASSUME NEW f, NEW S, IsFiniteSet(S), \A x \in S : f[x] \in Nat
    PROVE  /\ SumFunctionOnSet(f, S) \in Nat
           /\ \A y \in S : f[y] <= SumFunctionOnSet(f, S)
<1> DEFINE z == [x \in S |-> 0]
<1>1. ASSUME NEW s \in SUBSET S
      PROVE  SumFunctionOnSet(f, s) \in Nat
  <2>1. IsFiniteSet(s)
    BY FS_Subset
  <2>2. SumFunctionOnSet(z, s) <= SumFunctionOnSet(f, s)
    BY <2>1, SumAtMost
  <2>3. SumFunctionOnSet(z, s) = SumFunctionOnSet(z, s) + SumFunctionOnSet(z, s)
    BY <2>1, SumPlus
  <2>4. SumFunctionOnSet(z, s) \in Int /\ SumFunctionOnSet(f, s) \in Int
    BY <2>1, SumInt
  <2> HIDE DEF z
  <2> QED BY <2>2, <2>3, <2>4
<1>2. ASSUME NEW y \in S
      PROVE  f[y] <= SumFunctionOnSet(f, S)
  <2>1. SumFunctionOnSet(f, S) = f[y] + SumFunctionOnSet(f, S \ {y})
    BY SumRemove
  <2>2. SumFunctionOnSet(f, S \ {y}) \in Nat
    BY <1>1
  <2> QED BY <2>1, <2>2
<1> QED BY <1>1, <1>2

\* Terms that are zero need not be summed.
THEOREM SumSupport ==
    ASSUME NEW f, NEW g, NEW S, NEW T, IsFiniteSet(S), T \subseteq S,
           \A x \in S : f[x] \in Int,
           \A x \in T : g[x] = f[x], \A x \in S \ T : f[x] = 0
    PROVE  SumFunctionOnSet(f, S) = SumFunctionOnSet(g, T)
<1> DEFINE Q == {s \in SUBSET S :
                    SumFunctionOnSet(f, s) = SumFunctionOnSet(g, s \cap T)}
<1>1. {} \in Q
  <2>1. {} \cap T = {}
    OBVIOUS
  <2> QED BY <2>1, SumEmpty
<1>2. ASSUME NEW s \in SUBSET S, s # {}, \A y \in s : s \ {y} \in Q
      PROVE  s \in Q
  <2>1. PICK y \in s : TRUE
    BY <1>2
  <2> DEFINE r == s \ {y}
  <2>2. IsFiniteSet(s) /\ IsFiniteSet(r)
    BY FS_Subset
  <2>3. SumFunctionOnSet(f, s) = f[y] + SumFunctionOnSet(f, r)
    BY <2>2, SumRemove
  <2>4. SumFunctionOnSet(f, r) = SumFunctionOnSet(g, r \cap T)
    BY <1>2
  <2>5. SumFunctionOnSet(f, r) \in Int
    BY <2>2, SumInt
  <2>6. CASE y \in T
    <3>1. IsFiniteSet(s \cap T) /\ y \in s \cap T
          /\ (s \cap T) \ {y} = r \cap T
      BY <2>2, <2>6, FS_Subset
    <3>2. \A x \in s \cap T : g[x] \in Int
      OBVIOUS
    <3>3. SumFunctionOnSet(g, s \cap T)
            = g[y] + SumFunctionOnSet(g, (s \cap T) \ {y})
      BY <3>1, <3>2, SumRemove
    <3>4. g[y] = f[y]
      BY <2>6
    <3>5. SumFunctionOnSet(f, s) = SumFunctionOnSet(g, s \cap T)
      BY <2>3, <2>4, <3>1, <3>3, <3>4
    <3> QED BY <3>5
  <2>7. CASE y \notin T
    <3>1. s \cap T = r \cap T /\ f[y] = 0
      BY <2>7
    <3>2. SumFunctionOnSet(f, s) = SumFunctionOnSet(f, r)
      BY <2>3, <2>5, <3>1
    <3>3. SumFunctionOnSet(f, s) = SumFunctionOnSet(g, s \cap T)
      BY <2>4, <3>1, <3>2
    <3> QED BY <3>3
  <2> QED BY <2>6, <2>7
<1>3. S \in Q
  <2> HIDE DEF Q
  <2> QED BY <1>1, <1>2, SubsetInduction
<1>4. S \cap T = T
  OBVIOUS
<1> QED BY <1>3, <1>4

\* A sum of zeros.
THEOREM SumZero ==
    ASSUME NEW f, NEW S, IsFiniteSet(S), \A x \in S : f[x] = 0
    PROVE  SumFunctionOnSet(f, S) = 0
<1>1. SumFunctionOnSet(f, S) = SumFunctionOnSet(f, {})
  BY SumSupport
<1> QED BY <1>1, SumEmpty

\* The sum over two disjoint sets is the sum of the sums.
THEOREM SumUnion ==
    ASSUME NEW f, NEW S, NEW T, IsFiniteSet(S), IsFiniteSet(T), S \cap T = {},
           \A x \in S \cup T : f[x] \in Int
    PROVE  SumFunctionOnSet(f, S \cup T)
              = SumFunctionOnSet(f, S) + SumFunctionOnSet(f, T)
<1> DEFINE both == S \cup T
           left == [x \in both |-> IF x \in S THEN f[x] ELSE 0]
           right == [x \in both |-> IF x \in T THEN f[x] ELSE 0]
<1>1. IsFiniteSet(both)
  BY FS_Union
<1>2. SumFunctionOnSet(f, both)
         = SumFunctionOnSet(left, both) + SumFunctionOnSet(right, both)
  <2>1. \A x \in both : /\ left[x] \in Int /\ right[x] \in Int
                        /\ f[x] = left[x] + right[x]
    OBVIOUS
  <2> HIDE DEF left, right, both
  <2> QED BY <1>1, <2>1, SumPlus
<1>3. SumFunctionOnSet(left, both) = SumFunctionOnSet(f, S)
  <2>1. /\ S \subseteq both /\ \A x \in both : left[x] \in Int
        /\ \A x \in S : f[x] = left[x]
        /\ \A x \in both \ S : left[x] = 0
    OBVIOUS
  <2> HIDE DEF left, both
  <2> QED BY <1>1, <2>1, SumSupport
<1>4. SumFunctionOnSet(right, both) = SumFunctionOnSet(f, T)
  <2>1. /\ T \subseteq both /\ \A x \in both : right[x] \in Int
        /\ \A x \in T : f[x] = right[x]
        /\ \A x \in both \ T : right[x] = 0
    OBVIOUS
  <2> HIDE DEF right, both
  <2> QED BY <1>1, <2>1, SumSupport
<1> QED BY <1>2, <1>3, <1>4

\* Terms up to c add up to c for each of them at most.
THEOREM SumBounded ==
    ASSUME NEW f, NEW c \in Int, NEW S, IsFiniteSet(S),
           \A x \in S : f[x] \in Int /\ f[x] <= c
    PROVE  SumFunctionOnSet(f, S) <= Cardinality(S) * c
<1> DEFINE Q == {s \in SUBSET S :
                    SumFunctionOnSet(f, s) <= Cardinality(s) * c}
<1>1. {} \in Q
  BY SumEmpty, FS_EmptySet
<1>2. ASSUME NEW s \in SUBSET S, s # {}, \A y \in s : s \ {y} \in Q
      PROVE  s \in Q
  <2>1. PICK y \in s : TRUE
    BY <1>2
  <2> DEFINE r == s \ {y}
  <2>2. IsFiniteSet(s) /\ IsFiniteSet(r)
    BY FS_Subset
  <2>3. SumFunctionOnSet(f, s) = f[y] + SumFunctionOnSet(f, r)
    BY <2>2, SumRemove
  <2>4. /\ Cardinality(s) \in Nat /\ Cardinality(r) \in Nat
        /\ Cardinality(r) = Cardinality(s) - 1
    BY <2>2, FS_RemoveElement, FS_CardinalityType
  <2>5. SumFunctionOnSet(f, r) \in Int
    BY <2>2, SumInt
  <2>6. SumFunctionOnSet(f, r) <= Cardinality(r) * c
    BY <1>2
  <2>7. f[y] \in Int /\ f[y] <= c
    OBVIOUS
  <2> HIDE DEF r
  <2>8. Cardinality(s) * c = Cardinality(r) * c + c
    BY <2>4
  <2>9. SumFunctionOnSet(f, s) <= Cardinality(s) * c
    BY <2>3, <2>4, <2>5, <2>6, <2>7, <2>8
  <2> QED BY <2>9
<1> HIDE DEF Q
<1>3. \A s \in SUBSET S : s \in Q
  BY <1>1, <1>2, SubsetInduction
<1> QED BY <1>3 DEF Q

\* Shares that are each at most k / n of a term are together at most k / n of
\* the sum: rounding every share down never adds up to more.
THEOREM SumScaled ==
    ASSUME NEW f, NEW g, NEW k \in Int, NEW n \in Int, NEW S, IsFiniteSet(S),
           \A x \in S : f[x] \in Int /\ g[x] \in Int /\ g[x] * n <= f[x] * k
    PROVE  SumFunctionOnSet(g, S) * n <= SumFunctionOnSet(f, S) * k
<1> DEFINE Q == {s \in SUBSET S :
                    SumFunctionOnSet(g, s) * n <= SumFunctionOnSet(f, s) * k}
<1>1. {} \in Q
  BY SumEmpty
<1>2. ASSUME NEW s \in SUBSET S, s # {}, \A y \in s : s \ {y} \in Q
      PROVE  s \in Q
  <2>1. PICK y \in s : TRUE
    BY <1>2
  <2> DEFINE r == s \ {y}
  <2>2. IsFiniteSet(s) /\ IsFiniteSet(r)
    BY FS_Subset
  <2>3. SumFunctionOnSet(f, s) = f[y] + SumFunctionOnSet(f, r)
    BY <2>2, SumRemove
  <2>4. SumFunctionOnSet(g, s) = g[y] + SumFunctionOnSet(g, r)
    BY <2>2, SumRemove
  <2>5. SumFunctionOnSet(f, r) \in Int /\ SumFunctionOnSet(g, r) \in Int
    BY <2>2, SumInt
  <2>6. SumFunctionOnSet(g, r) * n <= SumFunctionOnSet(f, r) * k
    BY <1>2
  <2>7. f[y] \in Int /\ g[y] \in Int /\ g[y] * n <= f[y] * k
    OBVIOUS
  <2> HIDE DEF r
  <2>8. SumFunctionOnSet(g, s) * n <= SumFunctionOnSet(f, s) * k
    BY <2>3, <2>4, <2>5, <2>6, <2>7
  <2> QED BY <2>8
<1> HIDE DEF Q
<1>3. \A s \in SUBSET S : s \in Q
  BY <1>1, <1>2, SubsetInduction
<1> QED BY <1>3 DEF Q

-----------------------------------------------------------------------------
(***************************************************************************)
(* Products and quotients.                                                 *)
(***************************************************************************)
THEOREM QuotientFacts ==
    ASSUME NEW m \in Int, NEW n \in Int, n > 0
    PROVE  /\ m \div n \in Int /\ m % n \in Int
           /\ m = n * (m \div n) + (m % n)
           /\ 0 <= m % n /\ m % n < n
OBVIOUS

\* Quotient and remainder are the only numbers that are like them.
THEOREM QuotientUnique ==
    ASSUME NEW m \in Int, NEW n \in Int, n > 0, NEW q \in Int, NEW r \in Int,
           0 <= r, r < n, m = n * q + r
    PROVE  m \div n = q /\ m % n = r
<1> DEFINE a == m \div n
           b == m % n
<1>1. a \in Int /\ b \in Int /\ m = n * a + b /\ 0 <= b /\ b < n
  BY QuotientFacts
<1> HIDE DEF a, b
<1>2. n * (a - q) = r - b
  BY <1>1
<1>3. ASSUME a - q >= 1
      PROVE  FALSE
  <2>1. n * (a - q) >= n
    BY <1>1, <1>3
  <2> QED BY <1>1, <1>2, <2>1
<1>4. ASSUME a - q <= -1
      PROVE  FALSE
  <2>1. n * (a - q) <= -n
    BY <1>1, <1>4
  <2> QED BY <1>1, <1>2, <2>1
<1>5. a = q
  BY <1>1, <1>3, <1>4
<1>6. b = r
  BY <1>1, <1>5
<1> QED BY <1>5, <1>6 DEF a, b

THEOREM ProductMonotonic ==
    ASSUME NEW a \in Int, NEW b \in Int, NEW c \in Int, a <= b, 0 <= c
    PROVE  a * c <= b * c /\ c * a <= c * b
OBVIOUS

\* A quotient is bounded by what its numerator is bounded by.
THEOREM QuotientAtMost ==
    ASSUME NEW m \in Int, NEW n \in Int, n > 0, NEW k \in Int, m <= k * n
    PROVE  m \div n <= k
OBVIOUS

\* A quotient is at least what its numerator is at least.
THEOREM QuotientAtLeast ==
    ASSUME NEW m \in Int, NEW n \in Int, n > 0, NEW k \in Int, k * n <= m
    PROVE  k <= m \div n
OBVIOUS

=============================================================================
