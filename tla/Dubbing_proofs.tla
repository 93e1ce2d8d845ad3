--------------------------- MODULE Dubbing_proofs ---------------------------
(***************************************************************************)
(* Proofs about Dubbing: what a run says, where, and in which voice.       *)
(*                                                                         *)
(* The definitions by recursion over lines (FirstOf) and by CHOOSE         *)
(* (Ascending, InOrder) come first, with the induction they need.  Then    *)
(* the invariant, DubbingInv, and a lemma for each action.                 *)
(***************************************************************************)
EXTENDS Dubbing, FiniteSetTheorems, SequenceTheorems, TLAPS

-----------------------------------------------------------------------------
(* Induction over numbers.  The library's principle takes a predicate; this *)
(* one is about a set, and follows from the order of its initial segments.  *)

LEMMA LeastMember ==
  ASSUME NEW S \in SUBSET Nat, S # {}
  PROVE  \E m \in S : \A k \in S : m <= k
<1> DEFINE T == {1 .. m : m \in S}
<1>1. T # {} /\ T \subseteq FiniteSubsetsOf(Nat)
  <2> SUFFICES ASSUME NEW m \in S PROVE 1 .. m \in FiniteSubsetsOf(Nat)
    OBVIOUS
  <2> QED
    BY FS_Interval DEF FiniteSubsetsOf
<1>2. PICK t \in T : \A u \in T : <<u, t>> \notin StrictSubsetOrdering(Nat)
  <2> HIDE DEF T
  <2> QED
    BY <1>1, WFMin, FS_StrictSubsetOrderingWellFounded
<1>3. PICK m \in S : t = 1 .. m
  OBVIOUS
<1>4. ASSUME NEW k \in S, k < m PROVE FALSE
  <2>1. (1 .. k) \subseteq (1 .. m) /\ m \in 1 .. m /\ m \notin 1 .. k
    BY <1>4
  <2>2. <<1 .. k, 1 .. m>> \in StrictSubsetOrdering(Nat)
    BY <2>1 DEF StrictSubsetOrdering
  <2> QED
    BY <1>2, <1>3, <2>2
<1> QED
  BY <1>4

\* What holds of zero, and of a number's successor when it holds of the number, holds of all.
LEMMA Induction ==
  ASSUME NEW S \in SUBSET Nat, 0 \in S, \A n \in S : n + 1 \in S
  PROVE  S = Nat
<1> SUFFICES ASSUME Nat \ S # {} PROVE FALSE
  OBVIOUS
<1>1. PICK m \in Nat \ S : \A k \in Nat \ S : m <= k
  BY LeastMember
<1>2. m - 1 \in Nat /\ m - 1 \notin Nat \ S
  BY <1>1
<1> QED
  BY <1>1, <1>2

\* A set of lines that is not empty has a last one.
LEMMA Greatest ==
  ASSUME NEW S \in SUBSET Nat, S # {}, NEW n \in Nat, \A k \in S : k <= n
  PROVE  \E m \in S : \A k \in S : k <= m
<1> DEFINE Above == {m \in Nat : \A k \in S : k <= m}
<1>1. PICK m \in Above : \A k \in Above : m <= k
  BY LeastMember
<1>2. CASE m \in S
  BY <1>2
<1>3. CASE m \notin S
  <2>1. ASSUME NEW k \in S PROVE k <= m - 1
    <3>1. m \in Nat /\ k <= m
      BY <1>1
    <3>2. k \in Nat
      OBVIOUS
    <3>3. k # m
      BY <1>3
    <3> QED
      BY <3>1, <3>2, <3>3
  <2>2. m - 1 \in Above
    <3>1. PICK k \in S : k <= m - 1
      BY <2>1
    <3>2. k \in Nat /\ m \in Nat
      BY <1>1
    <3>3. m - 1 \in Nat
      BY <3>1, <3>2
    <3> QED
      BY <2>1, <3>3
  <2> QED
    BY <1>1, <2>2
<1> QED
  BY <1>2, <1>3

-----------------------------------------------------------------------------
(* Sets of lines in order.                                                 *)

IsAscending(s, S) ==
    s \in Bijection(1 .. Cardinality(S), S) /\ \A j, k \in DOMAIN s : j < k => s[j] < s[k]

LEMMA AscendingExtends ==
  ASSUME NEW T \in SUBSET Nat, IsFiniteSet(T), NEW m \in Nat, \A k \in T : k < m,
         NEW t, IsAscending(t, T)
  PROVE  \E s : IsAscending(s, T \cup {m})
<1> DEFINE c == Cardinality(T)
           s == [k \in 1 .. (c + 1) |-> IF k = c + 1 THEN m ELSE t[k]]
<1>1. c \in Nat /\ Cardinality(T \cup {m}) = c + 1
  <2>1. m \notin T
    OBVIOUS
  <2> QED
    BY <2>1, FS_CardinalityType, FS_AddElement
<1>2. /\ t \in [1 .. c -> T]
      /\ \A a, b \in 1 .. c : t[a] = t[b] => a = b
      /\ \A x \in T : \E a \in 1 .. c : t[a] = x
      /\ \A j, k \in 1 .. c : j < k => t[j] < t[k]
  BY DEF IsAscending, Bijection, Injection, Surjection, IsInjective
<1> HIDE DEF c
<1>3. s \in [1 .. (c + 1) -> T \cup {m}]
  BY <1>1, <1>2
<1>4. \A a, b \in 1 .. (c + 1) : s[a] = s[b] => a = b
  BY <1>1, <1>2
<1>5. \A x \in T \cup {m} : \E a \in 1 .. (c + 1) : s[a] = x
  <2>1. s[c + 1] = m /\ c + 1 \in 1 .. (c + 1)
    BY <1>1
  <2>2. \A a \in 1 .. c : s[a] = t[a] /\ a \in 1 .. (c + 1)
    BY <1>1
  <2> QED
    BY <1>2, <2>1, <2>2
<1>6. ASSUME NEW j \in 1 .. (c + 1), NEW k \in 1 .. (c + 1), j < k PROVE s[j] < s[k]
  <2>1. j \in 1 .. c /\ s[j] = t[j] /\ t[j] \in T
    BY <1>1, <1>2, <1>6
  <2>2. CASE k = c + 1
    <3>1. s[k] = m
      BY <1>1, <2>2
    <3> QED
      BY <2>1, <3>1
  <2>3. CASE k # c + 1
    <3>1. k \in 1 .. c /\ s[k] = t[k]
      BY <1>1, <2>3
    <3> QED
      BY <1>2, <1>6, <2>1, <3>1
  <2> QED
    BY <2>2, <2>3
<1> HIDE DEF s
<1>7. IsAscending(s, T \cup {m})
  BY <1>1, <1>3, <1>4, <1>5, <1>6 DEF IsAscending, Bijection, Injection, Surjection, IsInjective
<1> QED
  BY <1>7

\* Every set of lines can be put in order, and Ascending does so.
LEMMA AscendingIs == ASSUME NEW S \in SUBSET Lines PROVE IsAscending(Ascending(S), S)
<1> DEFINE Good == {n \in Nat : \A T \in SUBSET (1 .. n) : \E s : IsAscending(s, T)}
<1>1. 0 \in Good
  <2>1. ASSUME NEW T \in SUBSET (1 .. 0) PROVE IsAscending([k \in {} |-> k], T)
    <3>1. 1 .. 0 = {}
      OBVIOUS
    <3>2. T = {} /\ Cardinality(T) = 0
      BY <2>1, <3>1, FS_EmptySet
    <3> QED
      BY <3>1, <3>2 DEF IsAscending, Bijection, Injection, Surjection, IsInjective
  <2> QED
    BY <2>1
<1>2. ASSUME NEW n \in Good PROVE n + 1 \in Good
  <2> SUFFICES ASSUME NEW T \in SUBSET (1 .. (n + 1)) PROVE \E s : IsAscending(s, T)
    OBVIOUS
  <2>1. T \ {n + 1} \in SUBSET (1 .. n) /\ T \ {n + 1} \in SUBSET Nat
    OBVIOUS
  <2>2. IsFiniteSet(1 .. n)
    BY FS_Interval
  <2>3. IsFiniteSet(T \ {n + 1})
    <3> DEFINE U == T \ {n + 1}
    <3> HIDE DEF U
    <3>1. U \in SUBSET (1 .. n)
      BY <2>1 DEF U
    <3>2. IsFiniteSet(U)
      BY <3>1, <2>2, FS_Subset
    <3> QED
      BY <3>2 DEF U
  <2>4. \A k \in T \ {n + 1} : k < n + 1
    OBVIOUS
  <2>5. PICK t : IsAscending(t, T \ {n + 1})
    BY <2>1
  <2>6. CASE n + 1 \in T
    <3>1. T = (T \ {n + 1}) \cup {n + 1}
      BY <2>6
    <3> QED
      BY <2>1, <2>3, <2>4, <2>5, <3>1, AscendingExtends
  <2>7. CASE n + 1 \notin T
    <3>1. T = T \ {n + 1}
      BY <2>7
    <3> QED
      BY <2>5, <3>1
  <2> QED
    BY <2>6, <2>7
<1>3. Good = Nat
  <2>1. Good \in SUBSET Nat
    OBVIOUS
  <2> HIDE DEF Good
  <2> QED
    BY <1>1, <1>2, <2>1, Induction
<1>4. PICK s : IsAscending(s, S)
  BY <1>3, TranslationAssumption DEF Lines
<1> QED
  BY <1>4 DEF Ascending, IsAscending

-----------------------------------------------------------------------------
(* Units.                                                                  *)

\* One step of the grouping of the lines, as a property of the finished grouping.
Groups(f, n) ==
    \A i \in 1 .. n : f[i] = IF i > 1 /\ Joins(f[i - 1], i - 1, i) THEN f[i - 1] ELSE i

\* The recursion defines a function.
LEMMA FirstOfUnfolds ==
  FirstOf = [i \in Lines |->
               IF i > 1 /\ Joins(FirstOf[i - 1], i - 1, i) THEN FirstOf[i - 1] ELSE i]
<1> DEFINE Good == {n \in Nat : \E f : f = [i \in 1 .. n |-> f[i]] /\ Groups(f, n)}
<1>1. 0 \in Good
  <2> DEFINE f == [i \in 1 .. 0 |-> i]
  <2>1. f = [i \in 1 .. 0 |-> f[i]] /\ Groups(f, 0)
    BY DEF Groups
  <2> QED
    BY <2>1
<1>2. ASSUME NEW n \in Good PROVE n + 1 \in Good
  <2>1. PICK f : f = [i \in 1 .. n |-> f[i]] /\ Groups(f, n)
    OBVIOUS
  <2> DEFINE last == IF n + 1 > 1 /\ Joins(f[n], n, n + 1) THEN f[n] ELSE n + 1
             g == [i \in 1 .. (n + 1) |-> IF i = n + 1 THEN last ELSE f[i]]
  <2>2. \A i \in 1 .. n : g[i] = f[i] /\ (i > 1 => g[i - 1] = f[i - 1])
    OBVIOUS
  <2>3. g[n + 1] = last /\ (n + 1 > 1 => g[n] = f[n])
    OBVIOUS
  <2>4. g = [i \in 1 .. (n + 1) |-> g[i]]
    OBVIOUS
  <2> HIDE DEF g
  <2>5. Groups(g, n + 1)
    <3> SUFFICES ASSUME NEW i \in 1 .. (n + 1)
                 PROVE  g[i] = IF i > 1 /\ Joins(g[i - 1], i - 1, i) THEN g[i - 1] ELSE i
      BY DEF Groups
    <3>1. CASE i = n + 1
      <4>1. i - 1 = n
        BY <3>1
      <4> QED
        BY <2>3, <3>1, <4>1
    <3>2. CASE i # n + 1
      <4>1. i \in 1 .. n
        BY <3>2
      <4> QED
        BY <2>1, <2>2, <4>1 DEF Groups
    <3> QED
      BY <3>1, <3>2
  <2> QED
    BY <2>4, <2>5
<1>3. Good = Nat
  <2>1. Good \in SUBSET Nat
    OBVIOUS
  <2> HIDE DEF Good
  <2> QED
    BY <1>1, <1>2, <2>1, Induction
<1>4. PICK f : f = [i \in 1 .. NLines |-> f[i]] /\ Groups(f, NLines)
  BY <1>3, TranslationAssumption
<1>5. f = [i \in Lines |-> IF i > 1 /\ Joins(f[i - 1], i - 1, i) THEN f[i - 1] ELSE i]
  BY <1>4 DEF Groups, Lines
<1> QED
  BY <1>5 DEF FirstOf

\* A unit begins with one of its lines, and that is the first of them.
LEMMA FirstIsFirst == \A i \in Lines : FirstOf[i] \in 1 .. i /\ FirstOf[FirstOf[i]] = FirstOf[i]
<1> DEFINE P(i) == FirstOf[i] \in 1 .. i /\ FirstOf[FirstOf[i]] = FirstOf[i]
           Good == {n \in Nat : \A i \in Lines : i <= n => P(i)}
<1>1. 0 \in Good
  BY DEF Lines
<1>2. ASSUME NEW n \in Good PROVE n + 1 \in Good
  <2> SUFFICES ASSUME n + 1 \in Lines PROVE P(n + 1)
    BY DEF Lines
  <2>1. FirstOf[n + 1] = IF n + 1 > 1 /\ Joins(FirstOf[n], n, n + 1) THEN FirstOf[n] ELSE n + 1
    <3>1. (n + 1) - 1 = n
      OBVIOUS
    <3> HIDE DEF Good
    <3> QED
      BY <3>1, FirstOfUnfolds
  <2>2. CASE FirstOf[n + 1] = n + 1
    BY <2>2
  <2>3. CASE FirstOf[n + 1] # n + 1
    <3>1. n + 1 > 1 /\ FirstOf[n + 1] = FirstOf[n]
      BY <2>1, <2>3
    <3>2. n \in Nat /\ n \in Lines
      <4>1. n \in Nat /\ n + 1 <= NLines
        BY DEF Lines
      <4> HIDE DEF Good
      <4> QED
        BY <3>1, <4>1, TranslationAssumption DEF Lines
    <3>3. P(n)
      BY <3>2
    <3> QED
      BY <3>1, <3>2, <3>3
  <2> QED
    BY <2>2, <2>3
<1>3. Good = Nat
  <2>1. Good \in SUBSET Nat
    OBVIOUS
  <2> HIDE DEF Good
  <2> QED
    BY <1>1, <1>2, <2>1, Induction
<1>4. ASSUME NEW i \in Lines PROVE P(i)
  <2>1. i \in Good
    BY <1>3 DEF Lines
  <2> QED
    BY <2>1 DEF Lines
<1> QED
  BY <1>4

LEMMA UnitsAre ==
  /\ Units \subseteq Lines
  /\ \A i \in Lines : FirstOf[i] \in Units /\ i \in LinesOf(FirstOf[i])
  /\ \A u \in Units : u \in LinesOf(u) /\ LinesOf(u) \subseteq Lines /\ FirstOf[u] = u
<1>1. \A i \in Lines : FirstOf[i] \in Lines
  BY FirstIsFirst, TranslationAssumption DEF Lines
<1>2. \A i \in Lines : FirstOf[FirstOf[i]] = FirstOf[i]
  BY FirstIsFirst
<1>3. ASSUME NEW u \in Units PROVE u \in Lines /\ FirstOf[u] = u
  <2>1. PICK i \in Lines : u = FirstOf[i]
    BY DEF Units
  <2> QED
    BY <1>1, <1>2, <2>1
<1>4. \A i \in Lines : FirstOf[i] \in Units
  BY DEF Units
<1> QED
  BY <1>3, <1>4 DEF LinesOf

\* Units are named apart.
LEMMA NamesAre ==
  \A u \in Units : Name(u) \in UnitName /\ Name(u)[1] = u /\ Name(u) # NoUnit
<1> SUFFICES ASSUME NEW u \in Units PROVE Name(u) \in UnitName /\ Name(u)[1] = u /\ Name(u) # NoUnit
  OBVIOUS
<1>1. LinesOf(u) \in SUBSET Nat /\ LinesOf(u) # {} /\ \A k \in LinesOf(u) : k <= NLines
  BY UnitsAre DEF Lines
<1>2. \E m \in LinesOf(u) : \A k \in LinesOf(u) : k <= m
  BY <1>1, TranslationAssumption, Greatest
<1>3. LastOf(u) \in LinesOf(u)
  BY <1>2 DEF LastOf
<1> QED
  BY <1>3, UnitsAre, TranslationAssumption DEF Name, UnitName, NoUnit, Lines

\* The units are those of the recording, which does not change.
Firsts(s) ==
    CHOOSE f : f = [i \in Lines |->
        IF i > 1 /\ (/\ s[f[i - 1]].speaker = s[i].speaker
                    /\ s[i].start - s[i - 1].end <= MaxGap
                    /\ s[i].end - s[f[i - 1]].start <= MaxLength)
        THEN f[i - 1] ELSE i]

LEMMA FirstsAre == FirstOf = Firsts(script)
BY DEF FirstOf, Firsts, Joins

LEMMA UnitsStay ==
  ASSUME UNCHANGED script
  PROVE  /\ FirstOf' = FirstOf /\ Units' = Units
         /\ \A u : LinesOf(u)' = LinesOf(u) /\ Name(u)' = Name(u)
         /\ Speakers' = Speakers
<1>1. FirstOf' = Firsts(script')
  BY DEF FirstOf, Firsts, Joins
<1>2. FirstOf' = FirstOf
  BY <1>1, FirstsAre
<1>3. \A u : LinesOf(u)' = LinesOf(u)
  BY <1>2 DEF LinesOf
<1>4. \A u : LastOf(u)' = LastOf(u)
  BY <1>3 DEF LastOf
<1> QED
  BY <1>2, <1>3, <1>4 DEF Units, Name, Speakers

-----------------------------------------------------------------------------
(* The order of the clips.                                                 *)

\* The clips of the context, one of each unit at most.
OnceEach(s) ==
    /\ \A k \in DOMAIN s : s[k].unit \in Lines
    /\ \A j, k \in DOMAIN s : s[j].unit = s[k].unit => j = k

\* Clips of different units can be put in the order of their units.
LEMMA SortedExists ==
  ASSUME NEW n \in Nat, NEW s, DOMAIN s = 1 .. n, OnceEach(s)
  PROVE  \E order \in Bijection(1 .. n, 1 .. n) :
            \A j, k \in 1 .. n : j < k => s[order[j]].unit < s[order[k]].unit
<1> DEFINE U == {s[k].unit : k \in 1 .. n}
           unit == [k \in 1 .. n |-> s[k].unit]
<1>1. U \in SUBSET Lines
  BY DEF OnceEach
<1>2. unit \in Bijection(1 .. n, U)
  BY DEF OnceEach, Bijection, Injection, Surjection, IsInjective
<1> HIDE DEF unit
<1>3. Cardinality(U) = n
  <2>1. IsFiniteSet(1 .. n) /\ Cardinality(1 .. n) = n
    BY FS_Interval
  <2>2. ExistsBijection(1 .. n, U)
    BY <1>2 DEF ExistsBijection
  <2> HIDE DEF U
  <2> QED
    BY <2>1, <2>2, FS_Bijection
<1>4. PICK a : IsAscending(a, U)
  <2> HIDE DEF U
  <2> QED
    BY <1>1, AscendingIs
<1>5. /\ a \in [1 .. n -> U]
      /\ \A x \in U : \E k \in 1 .. n : a[k] = x
      /\ \A j, k \in 1 .. n : j < k => a[j] < a[k]
  <2> HIDE DEF U
  <2> QED
    BY <1>3, <1>4 DEF IsAscending, Bijection, Surjection, Injection
<1> DEFINE order == [k \in 1 .. n |-> CHOOSE j \in 1 .. n : s[j].unit = a[k]]
<1>6. \A k \in 1 .. n : order[k] \in 1 .. n /\ s[order[k]].unit = a[k]
  BY <1>5
<1>7. \A j, k \in 1 .. n : order[j] = order[k] => j = k
  <2> SUFFICES ASSUME NEW j \in 1 .. n, NEW k \in 1 .. n, order[j] = order[k] PROVE j = k
    OBVIOUS
  <2> HIDE DEF order
  <2>1. a[j] = a[k] /\ a[j] \in U
    BY <1>5, <1>6
  <2>2. a[j] \in Int
    BY <1>1, <2>1 DEF Lines
  <2>3. ~(j < k) /\ ~(k < j)
    BY <1>5, <2>1, <2>2
  <2> QED
    BY <2>3
<1>8. \A m \in 1 .. n : \E k \in 1 .. n : order[k] = m
  <2> SUFFICES ASSUME NEW m \in 1 .. n PROVE \E k \in 1 .. n : order[k] = m
    OBVIOUS
  <2>1. PICK k \in 1 .. n : a[k] = s[m].unit
    BY <1>5
  <2> HIDE DEF order
  <2>2. order[k] = m
    BY <1>6, <2>1 DEF OnceEach
  <2> QED
    BY <2>2
<1>9. order \in [1 .. n -> 1 .. n]
  BY <1>6
<1> HIDE DEF order
<1>10. order \in Bijection(1 .. n, 1 .. n)
  BY <1>7, <1>8, <1>9 DEF Bijection, Injection, Surjection, IsInjective
<1>11. \A j, k \in 1 .. n : j < k => s[order[j]].unit < s[order[k]].unit
  BY <1>5, <1>6
<1> QED
  BY <1>10, <1>11

\* InOrder puts them so, and loses none of them.
LEMMA InOrderIs ==
  ASSUME NEW n \in Nat, DOMAIN spoken = 1 .. n, OnceEach(spoken)
  PROVE  \E order \in Bijection(1 .. n, 1 .. n) :
            /\ InOrder = [k \in 1 .. n |-> spoken[order[k]]]
            /\ \A j, k \in 1 .. n : j < k => spoken[order[j]].unit < spoken[order[k]].unit
<1> DEFINE Sorts(s) == \A j, k \in DOMAIN s : j < k => s[j].unit <= s[k].unit
           All == {[k \in 1 .. n |-> spoken[order[k]]] : order \in Bijection(1 .. n, 1 .. n)}
<1>1. \E s \in All : Sorts(s)
  <2>1. PICK order \in Bijection(1 .. n, 1 .. n) :
           \A j, k \in 1 .. n : j < k => spoken[order[j]].unit < spoken[order[k]].unit
    BY SortedExists
  <2> DEFINE s == [k \in 1 .. n |-> spoken[order[k]]]
  <2>2. \A k \in 1 .. n : order[k] \in 1 .. n /\ spoken[order[k]].unit \in Lines
    BY DEF Bijection, Injection, OnceEach
  <2>3. Sorts(s)
    BY <2>1, <2>2 DEF Lines
  <2> QED
    BY <2>3
<1>2. InOrder = CHOOSE s \in All : Sorts(s)
  BY DEF InOrder
<1>3. InOrder \in All /\ Sorts(InOrder)
  <2> HIDE DEF All, Sorts
  <2> QED
    BY <1>1, <1>2
<1>4. PICK order \in Bijection(1 .. n, 1 .. n) : InOrder = [k \in 1 .. n |-> spoken[order[k]]]
  BY <1>3
<1>5. ASSUME NEW j \in 1 .. n, NEW k \in 1 .. n, j < k
      PROVE  spoken[order[j]].unit < spoken[order[k]].unit
  <2>1. /\ order[j] \in 1 .. n /\ order[k] \in 1 .. n /\ order[j] # order[k]
    BY <1>5 DEF Bijection, Injection, IsInjective
  <2>2. spoken[order[j]].unit <= spoken[order[k]].unit
    BY <1>3, <1>4, <1>5
  <2>3. spoken[order[j]].unit # spoken[order[k]].unit
    BY <2>1 DEF OnceEach
  <2>4. spoken[order[j]].unit \in Int /\ spoken[order[k]].unit \in Int
    BY <2>1 DEF OnceEach, Lines
  <2> QED
    BY <2>2, <2>3, <2>4
<1> QED
  BY <1>4, <1>5

-----------------------------------------------------------------------------
(* The inductive invariant.                                                *)

JobType == [state : JobStates, tier : Tiers, try : 1 .. TtsRetries]
ClipType == [unit : Units, name : UnitName, length : Nat, at : Nat, mode : Tiers \cup {"reused"}]
BatchType == [at : Nat, pending : Seq(Lines), todo : Seq(Lines \X Lines), got : Seq(Lines),
              attempt : 1 .. MaxAttempts, calls : Nat, changed : BOOLEAN]

Shape ==
    /\ phase \in Phases /\ script \in Scripts /\ setup \in Setups
    /\ lines \in [Lines -> [trans : 0 .. 2 * NLines, url : UnitName]]
    /\ tr \in BatchType
    /\ voices \in [Speakers -> {"none", "clone", "preset"}]
    /\ DOMAIN jobs \subseteq Units /\ jobs \in [DOMAIN jobs -> JobType]
    /\ DOMAIN clips \subseteq UnitName /\ \A n \in DOMAIN clips : clips[n].length \in Durations
    /\ spoken \in Seq(ClipType)
    /\ raised \in {"none", "paused", "failed"}
    /\ left \in 0 .. MaxFailures
    /\ cursor \in [placed : Nat, end : Nat]

\* What is left of a batch of n texts is a row of ranges, which goes on where the g answers end.
Row(todo, g, n) ==
    /\ todo = << >> => g = n
    /\ todo # << >> => todo[1][1] = g + 1 /\ todo[Len(todo)][2] = n
    /\ \A r \in 1 .. Len(todo) : todo[r][1] <= todo[r][2]
    /\ \A r \in 1 .. (Len(todo) - 1) : todo[r + 1][1] = todo[r][2] + 1
    /\ \A q, r \in 1 .. Len(todo) : q < r => todo[q][2] + (r - q) <= todo[r][1]

\* The answers are those of the first texts.  A range costs MaxAttempts calls, of which there
\* are 2n - 1 when a batch of n is split to the end: one for each answer, one for each split.
Calls(m) == MaxAttempts * m
BatchKept ==
    LET g == Len(tr.got) n == Len(tr.pending) IN
    /\ g <= n
    /\ \A k \in 1 .. g : tr.got[k] = tr.pending[k]
    /\ Row(tr.todo, g, n)
    /\ n = 0 => tr.todo = << >> /\ tr.calls = 0
    /\ tr.todo = << >> => tr.attempt = 1
    /\ n > 0 => tr.calls <= Calls(2 * g + Len(tr.todo) - 1) + (tr.attempt - 1)

\* The batch is what its slice leaves to translate.
SliceKept ==
    tr.pending # << >> =>
        /\ \A k \in DOMAIN tr.pending : tr.pending[k] \in Slice
        /\ \A i \in Slice : NeedsTranslation(i) => \E k \in DOMAIN tr.pending : tr.pending[k] = i

\* A line that names a clip has its old translation, and so does every line until a batch is
\* written; the clips in the store say the old ones.
OldKept ==
    /\ \A i \in Lines : i <= tr.at => lines[i].trans # None
    /\ \A i \in Lines : lines[i].url # NoUnit =>
          lines[i].trans = Old(i) /\ lines[i].url = Name(FirstOf[i])
    /\ ~tr.changed => \A i \in Lines : lines[i].trans \in {None, Old(i)}
    /\ \A u \in Units : Name(u) \in DOMAIN clips =>
          clips[Name(u)].says = [i \in LinesOf(u) |-> Old(i)]

TranslationKept == phase = "translate" => BatchKept /\ SliceKept /\ OldKept

Fresh(u) == Name(u) \in DOMAIN clips /\ (HalfRedone(u) \/ clips[Name(u)].says = Says(u))
Spoken == {spoken[k].unit : k \in DOMAIN spoken}
Sorted(s) == \A j, k \in DOMAIN s : j < k => s[j].unit < s[k].unit
Speech == {"voices", "speak", "align", "done"}

\* A clip of the context, and a clip that is finished, says what its lines say.
ClipsKept ==
    /\ \A k \in DOMAIN spoken :
          spoken[k].name = Name(spoken[k].unit) /\ Fresh(spoken[k].unit)
    /\ \A u \in DOMAIN jobs : jobs[u].state = "ok" => Fresh(u)

\* While no error waits, the context has the clip of every unit but those still at work.
PlacesKept ==
    /\ OnceEach(spoken)
    /\ phase \in {"voices", "speak"} /\ raised = "none" =>
          Spoken = Units \ {u \in DOMAIN jobs : jobs[u].state # "taken"}
    /\ phase \in {"align", "done"} => Spoken = Units /\ Sorted(spoken)

SpeechKept ==
    /\ phase \in {"translate", "voices"} => raised = "none"
    /\ phase = "voices" => \A u \in DOMAIN jobs : jobs[u].state = "none"
    /\ phase \in Speech => ClipsKept /\ PlacesKept

\* A voice that must be cloned is never another.
MustClone == Required /\ setup.known /\ ~(setup.provider = "cosyvoice" /\ ~setup.enrollment)
VoicesKept ==
    MustClone =>
        /\ \A s \in Speakers : voices[s] # "preset"
        /\ \A u \in DOMAIN jobs : jobs[u].tier = "clone"
        /\ \A k \in DOMAIN spoken : spoken[k].mode \in {"clone", "reused"}

LengthOf(k) == spoken[k].length
TimelineKept ==
    /\ phase \notin {"align", "done"} => cursor = [placed |-> 0, end |-> 0]
    /\ cursor.placed <= Len(spoken)
    /\ phase = "done" => cursor.placed = Len(spoken)
    /\ cursor.placed > 0 =>
          cursor.end = spoken[cursor.placed].at + spoken[cursor.placed].length
    /\ \A k \in 1 .. cursor.placed :
          /\ spoken[k].at >= OrigStart(spoken[k])
          /\ spoken[k].at + spoken[k].length <= cursor.end
          /\ ~Squeezed(spoken[k])
    /\ \A j, k \in 1 .. cursor.placed : j < k => spoken[j].at + spoken[j].length <= spoken[k].at

TooLong(k) == 10 * spoken[k].length > 13 * OrigLength(spoken[k])
LateKept ==
    /\ cursor.placed = 0 => cursor.end = 0
    /\ \A k \in 1 .. cursor.placed :
          spoken[k].at > OrigStart(spoken[k]) => \E j \in 1 .. (k - 1) : TooLong(j)

\* What is kept of types, translations, clips, voices and timeline; none stands without those
\* before it.
DubbingInv ==
    /\ Shape /\ TranslationsInPlace /\ CallsBounded
    /\ TranslationKept /\ SpeechKept /\ VoicesKept /\ TimelineKept

-----------------------------------------------------------------------------
(* The ranges of a batch.                                                  *)

Ranges == Seq(Lines \X Lines)

\* The ranges of a row lie in the batch.
LEMMA RowStands ==
  ASSUME NEW todo \in Ranges, todo # << >>, NEW g \in Nat, NEW n \in Nat, Row(todo, g, n)
  PROVE  /\ Len(todo) \in Nat /\ Len(todo) >= 1 /\ Head(todo) = todo[1]
         /\ \A r \in 1 .. Len(todo) : todo[r][1] \in Nat /\ todo[r][2] \in Nat
         /\ todo[1][1] = g + 1 /\ todo[1][1] <= todo[1][2] /\ todo[1][2] + Len(todo) - 1 <= n
<1>1. Len(todo) \in Nat /\ Len(todo) >= 1 /\ Head(todo) = todo[1]
  BY EmptySeq, HeadTailProperties DEF Ranges
<1>2. \A r \in 1 .. Len(todo) : todo[r][1] \in Nat /\ todo[r][2] \in Nat
  BY ElementOfSeq DEF Ranges, Lines
<1>3. todo[1][1] = g + 1 /\ todo[1][1] <= todo[1][2] /\ todo[Len(todo)][2] = n
  BY <1>1 DEF Row
<1>4. CASE Len(todo) = 1
  BY <1>1, <1>2, <1>3, <1>4
<1>5. CASE Len(todo) > 1
  <2>1. todo[1][2] + (Len(todo) - 1) <= todo[Len(todo)][1]
    <3>1. 1 \in 1 .. Len(todo) /\ Len(todo) \in 1 .. Len(todo) /\ 1 < Len(todo)
      BY <1>1, <1>5
    <3> QED
      BY <3>1 DEF Row
  <2>2. todo[Len(todo)][1] <= todo[Len(todo)][2]
    BY <1>1 DEF Row
  <2> QED
    BY <1>1, <1>2, <1>3, <2>1, <2>2
<1> QED
  BY <1>1, <1>2, <1>3, <1>4, <1>5

\* Without its first range the row goes on behind that.
LEMMA RowAnswered ==
  ASSUME NEW todo \in Ranges, todo # << >>, NEW g \in Nat, NEW n \in Nat, Row(todo, g, n)
  PROVE  /\ Tail(todo) \in Ranges /\ Len(Tail(todo)) = Len(todo) - 1
         /\ Row(Tail(todo), todo[1][2], n)
<1> DEFINE t == Tail(todo)
<1>1. /\ t \in Ranges /\ Len(t) = Len(todo) - 1 /\ Len(t) \in Nat
      /\ \A r \in 1 .. Len(t) : t[r] = todo[r + 1]
  BY HeadTailProperties, LenProperties DEF Ranges
<1> HIDE DEF t
<1>2. /\ Len(todo) \in Nat /\ Len(todo) >= 1
      /\ \A r \in 1 .. Len(todo) : todo[r][1] \in Nat /\ todo[r][2] \in Nat
  BY RowStands
<1>3. t = << >> => todo[1][2] = n
  <2>1. t = << >> => Len(todo) = 1
    BY <1>1, <1>2, EmptySeq
  <2> QED
    BY <2>1 DEF Row
<1>4. t # << >> => t[1][1] = todo[1][2] + 1 /\ t[Len(t)][2] = n
  <2> SUFFICES ASSUME t # << >> PROVE t[1][1] = todo[1][2] + 1 /\ t[Len(t)][2] = n
    OBVIOUS
  <2>1. Len(t) \in Nat /\ Len(t) >= 1
    BY <1>1, EmptySeq DEF Ranges
  <2>2. t[1] = todo[2] /\ t[Len(t)] = todo[Len(todo)]
    BY <1>1, <2>1
  <2> QED
    BY <1>1, <2>1, <2>2 DEF Row
<1>5. \A r \in 1 .. Len(t) : t[r][1] <= t[r][2]
  <2> SUFFICES ASSUME NEW r \in 1 .. Len(t) PROVE t[r][1] <= t[r][2]
    OBVIOUS
  <2>1. r + 1 \in 1 .. Len(todo) /\ t[r] = todo[r + 1]
    BY <1>1
  <2> QED
    BY <2>1 DEF Row
<1>6. \A r \in 1 .. (Len(t) - 1) : t[r + 1][1] = t[r][2] + 1
  <2> SUFFICES ASSUME NEW r \in 1 .. (Len(t) - 1) PROVE t[r + 1][1] = t[r][2] + 1
    OBVIOUS
  <2>1. r + 1 \in 1 .. (Len(todo) - 1) /\ t[r] = todo[r + 1] /\ t[r + 1] = todo[(r + 1) + 1]
    BY <1>1
  <2> QED
    BY <2>1 DEF Row
<1>7. \A q, r \in 1 .. Len(t) : q < r => t[q][2] + (r - q) <= t[r][1]
  <2> SUFFICES ASSUME NEW q \in 1 .. Len(t), NEW r \in 1 .. Len(t), q < r
               PROVE  t[q][2] + (r - q) <= t[r][1]
    OBVIOUS
  <2>1. q + 1 \in 1 .. Len(todo) /\ r + 1 \in 1 .. Len(todo) /\ q + 1 < r + 1
    BY <1>1
  <2>2. todo[q + 1][2] + ((r + 1) - (q + 1)) <= todo[r + 1][1]
    BY <2>1 DEF Row
  <2>3. (r + 1) - (q + 1) = r - q
    OBVIOUS
  <2> QED
    BY <1>1, <2>2, <2>3
<1>8. Row(t, todo[1][2], n)
  BY <1>3, <1>4, <1>5, <1>6, <1>7 DEF Row
<1> QED
  BY <1>1, <1>8 DEF t

\* Split in halves, the first range is two that follow each other.
LEMMA RowSplit ==
  ASSUME NEW todo \in Ranges, todo # << >>, NEW g \in Nat, NEW n \in Nat, Row(todo, g, n),
         todo[1][1] < todo[1][2],
         NEW s, s = Halves(todo[1][1], todo[1][2]) \o Tail(todo)
  PROVE  /\ s \in Ranges /\ s # << >> /\ Len(s) = Len(todo) + 1
         /\ Row(s, g, n)
<1> DEFINE from == todo[1][1]
           to == todo[1][2]
           mid == from + (to - from + 1) \div 2
           h == Halves(from, to)
<1>1. /\ Len(todo) \in Nat /\ Len(todo) >= 1
      /\ \A r \in 1 .. Len(todo) : todo[r][1] \in Nat /\ todo[r][2] \in Nat
      /\ from = g + 1
  BY RowStands
<1>2. /\ from \in Nat /\ to \in Nat /\ mid \in Nat /\ from < mid /\ mid <= to
      /\ from \in Lines /\ to \in Lines /\ mid \in Lines /\ mid - 1 \in Lines
  <2>1. from \in Lines /\ to \in Lines
    BY <1>1, ElementOfSeq DEF Ranges
  <2> HIDE DEF from, to
  <2>2. from \in Nat /\ to \in Nat /\ from >= 1 /\ to <= NLines
    BY <2>1 DEF Lines
  <2>3. from < to
    BY DEF from, to
  <2>4. mid \in Nat /\ from < mid /\ mid <= to
    BY <2>2, <2>3
  <2> QED
    BY <2>1, <2>2, <2>4, TranslationAssumption DEF Lines
<1>3. h = << <<from, mid - 1>>, <<mid, to>> >>
  BY DEF Halves
<1> HIDE DEF from, to, mid, h
<1>4. h \in Ranges /\ Len(h) = 2 /\ h[1] = <<from, mid - 1>> /\ h[2] = <<mid, to>>
  BY <1>2, <1>3 DEF Ranges
<1>5. Tail(todo) \in Ranges /\ Len(Tail(todo)) = Len(todo) - 1
      /\ \A r \in 1 .. Len(Tail(todo)) : Tail(todo)[r] = todo[r + 1]
  BY HeadTailProperties DEF Ranges
<1>6. s = h \o Tail(todo)
  BY DEF h, from, to
<1>7. /\ s \in Ranges /\ Len(s) = Len(todo) + 1 /\ Len(s) \in Nat
      /\ s[1] = <<from, mid - 1>> /\ s[2] = <<mid, to>>
      /\ \A r \in 3 .. Len(s) : s[r] = todo[r - 1]
  <2>1. /\ s \in Ranges /\ Len(s) = 2 + (Len(todo) - 1)
        /\ \A r \in 1 .. (2 + (Len(todo) - 1)) :
              s[r] = IF r <= 2 THEN h[r] ELSE Tail(todo)[r - 2]
    <3>1. /\ h \o Tail(todo) \in Ranges
          /\ Len(h \o Tail(todo)) = Len(h) + Len(Tail(todo))
          /\ \A r \in 1 .. (Len(h) + Len(Tail(todo))) :
                (h \o Tail(todo))[r] = IF r <= Len(h) THEN h[r] ELSE Tail(todo)[r - Len(h)]
      BY <1>4, <1>5, ConcatProperties DEF Ranges
    <3> QED
      BY <1>4, <1>5, <1>6, <3>1
  <2>2. Len(s) = Len(todo) + 1 /\ Len(s) \in Nat
    BY <1>1, <2>1
  <2>3. ASSUME NEW r \in 3 .. Len(s) PROVE s[r] = todo[r - 1]
    <3>1. /\ r - 2 \in 1 .. Len(Tail(todo)) /\ (r - 2) + 1 = r - 1 /\ ~(r <= 2)
          /\ r \in 1 .. (2 + (Len(todo) - 1))
      BY <1>1, <1>5, <2>1
    <3>2. s[r] = Tail(todo)[r - 2]
      BY <2>1, <3>1
    <3>3. Tail(todo)[r - 2] = todo[(r - 2) + 1]
      BY <1>5, <3>1
    <3> QED
      BY <3>1, <3>2, <3>3
  <2> QED
    BY <1>1, <1>4, <2>1, <2>2, <2>3
<1>8. Row(s, g, n)
  <2>1. s # << >> /\ s[1][1] = g + 1
    BY <1>1, <1>7, EmptySeq DEF Ranges
  <2>2. s[Len(s)][2] = n
    <3>1. todo[Len(todo)][2] = n
      BY DEF Row
    <3>2. CASE Len(todo) = 1
      <4>1. Len(s) = 2 /\ to = n
        BY <1>7, <3>1, <3>2 DEF to
      <4> QED
        BY <1>7, <4>1
    <3>3. CASE Len(todo) > 1
      <4>1. Len(s) \in 3 .. Len(s) /\ Len(s) - 1 = Len(todo)
        BY <1>1, <1>7, <3>3
      <4> QED
        BY <1>7, <3>1, <4>1
    <3>4. \A m \in Nat : m >= 1 => m = 1 \/ m > 1
      OBVIOUS
    <3> QED
      BY <1>1, <3>2, <3>3, <3>4
  <2>3. \A r \in 1 .. Len(s) : s[r][1] <= s[r][2]
    <3> SUFFICES ASSUME NEW r \in 1 .. Len(s) PROVE s[r][1] <= s[r][2]
      OBVIOUS
    <3>1. CASE r <= 2
      BY <1>2, <1>7, <3>1
    <3>2. CASE ~(r <= 2)
      <4>1. r \in 3 .. Len(s) /\ r - 1 \in 1 .. Len(todo)
        BY <1>1, <1>7, <3>2
      <4> QED
        BY <1>7, <4>1 DEF Row
    <3> QED
      BY <3>1, <3>2
  <2>4. \A r \in 1 .. (Len(s) - 1) : s[r + 1][1] = s[r][2] + 1
    <3> SUFFICES ASSUME NEW r \in 1 .. (Len(s) - 1) PROVE s[r + 1][1] = s[r][2] + 1
      OBVIOUS
    <3>1. CASE r = 1
      BY <1>2, <1>7, <3>1
    <3>2. CASE r = 2
      <4>1. 3 \in 3 .. Len(s) /\ s[3] = todo[2]
        BY <1>1, <1>7, <3>2
      <4>2. 1 \in 1 .. (Len(todo) - 1)
        BY <1>1, <1>7, <3>2
      <4>3. todo[2][1] = to + 1
        BY <4>2 DEF Row, to
      <4> QED
        BY <1>7, <3>2, <4>1, <4>3
    <3>3. CASE r > 2
      <4>1. /\ r \in 3 .. Len(s) /\ r + 1 \in 3 .. Len(s) /\ (r + 1) - 1 = (r - 1) + 1
            /\ r - 1 \in 1 .. (Len(todo) - 1)
        BY <1>1, <1>7, <3>3
      <4>2. s[r] = todo[r - 1] /\ s[r + 1] = todo[(r - 1) + 1]
        BY <1>7, <4>1
      <4> QED
        BY <4>1, <4>2 DEF Row
    <3> QED
      BY <3>1, <3>2, <3>3
  <2>5. \A q, r \in 1 .. Len(s) : q < r => s[q][2] + (r - q) <= s[r][1]
    <3> SUFFICES ASSUME NEW q \in 1 .. Len(s), NEW r \in 1 .. Len(s), q < r
                 PROVE  s[q][2] + (r - q) <= s[r][1]
      OBVIOUS
    <3>1. CASE r = 2
      <4>1. q = 1
        BY <3>1
      <4> QED
        BY <1>2, <1>7, <3>1, <4>1
    <3>2. ASSUME r > 2 PROVE /\ r \in 3 .. Len(s) /\ s[r] = todo[r - 1]
                             /\ r - 1 \in 2 .. Len(todo) /\ todo[r - 1][1] \in Nat
                             /\ to + (r - 2) <= todo[r - 1][1]
      <4>1. r \in 3 .. Len(s) /\ r - 1 \in 2 .. Len(todo) /\ 1 \in 1 .. Len(todo)
            /\ r - 1 \in 1 .. Len(todo) /\ 1 < r - 1 /\ (r - 1) - 1 = r - 2
        BY <1>1, <1>7, <3>2
      <4>2. todo[1][2] + ((r - 1) - 1) <= todo[r - 1][1]
        BY <4>1 DEF Row
      <4> QED
        BY <1>1, <1>7, <4>1, <4>2 DEF to
    <3>3. CASE r > 2 /\ q <= 2
      <4>1. s[q][2] + (2 - q) <= to /\ s[q][2] \in Int
        <5>1. CASE q = 1
          BY <1>2, <1>7, <5>1
        <5>2. CASE q = 2
          BY <1>2, <1>7, <5>2
        <5> QED
          BY <3>3, <5>1, <5>2
      <4>2. s[r] = todo[r - 1] /\ todo[r - 1][1] \in Nat /\ to + (r - 2) <= todo[r - 1][1]
        BY <3>2, <3>3
      <4>3. q \in Int /\ r \in Int
        BY <1>7
      <4>4. to \in Int
        BY <1>2
      <4>5. s[q][2] + (r - q) <= todo[r - 1][1]
        <5>1. \A a, b, x, i, j \in Int : a + (2 - i) <= b /\ b + (j - 2) <= x => a + (j - i) <= x
          OBVIOUS
        <5>2. todo[r - 1][1] \in Int
          BY <4>2
        <5> QED
          BY <4>1, <4>2, <4>3, <4>4, <5>1, <5>2
      <4> QED
        BY <4>2, <4>5
    <3>4. CASE r > 2 /\ q > 2
      <4>1. q \in 3 .. Len(s) /\ s[q] = todo[q - 1] /\ q - 1 \in 1 .. Len(todo)
            /\ r - 1 \in 1 .. Len(todo) /\ q - 1 < r - 1 /\ (r - 1) - (q - 1) = r - q
        BY <1>1, <1>7, <3>4
      <4>2. todo[q - 1][2] + ((r - 1) - (q - 1)) <= todo[r - 1][1]
        BY <4>1 DEF Row
      <4> QED
        BY <3>2, <3>4, <4>1, <4>2
    <3>5. r = 2 \/ r > 2
      BY <1>7
    <3> QED
      BY <1>7, <3>1, <3>3, <3>4, <3>5
  <2> QED
    BY <2>1, <2>2, <2>3, <2>4, <2>5 DEF Row
<1> QED
  BY <1>1, <1>7, <1>8, EmptySeq DEF Ranges

-----------------------------------------------------------------------------
(* The calls of a batch.                                                   *)

LEMMA CallsGrow ==
  ASSUME NEW x \in Int, NEW y \in Int, x <= y
  PROVE  Calls(x) \in Int /\ Calls(y) \in Int /\ Calls(x) <= Calls(y)
<1> DEFINE d == y - x
<1>1. d \in Nat /\ y = x + d /\ MaxAttempts \in Nat
  BY TranslationAssumption
<1> HIDE DEF d
<1>2. MaxAttempts * (x + d) = MaxAttempts * x + MaxAttempts * d
  BY <1>1
<1>3. MaxAttempts * d \in Nat
  BY <1>1
<1>4. MaxAttempts * x \in Int /\ MaxAttempts * y \in Int
  BY <1>1
<1> QED
  BY <1>1, <1>2, <1>3, <1>4 DEF Calls

LEMMA CallsNext == ASSUME NEW x \in Int PROVE Calls(x + 1) = Calls(x) + MaxAttempts
BY TranslationAssumption DEF Calls

\* One more call for the first range: there are attempts left, or the range is split, or it is
\* answered, which is s more texts.
LEMMA CallsOfRange ==
  ASSUME NEW g \in Nat, NEW t \in Nat, t >= 1, NEW n \in Nat, g + t <= n, NEW s \in Nat, s >= 1,
         NEW attempt \in 1 .. MaxAttempts, NEW calls \in Nat,
         calls <= Calls(2 * g + t - 1) + (attempt - 1)
  PROVE  /\ calls + 1 <= Calls(2 * g + t - 1) + ((attempt + 1) - 1)
         /\ calls + 1 <= Calls(2 * g + (t + 1) - 1)
         /\ calls + 1 <= Calls(2 * (g + s) + (t - 1) - 1)
         /\ calls + 1 <= Calls(2 * n - 1)
<1> DEFINE c == 2 * g + t - 1
<1>1. c \in Int /\ 2 * g + (t + 1) - 1 = c + 1
      /\ c + 1 <= 2 * (g + s) + (t - 1) - 1 /\ 2 * (g + s) + (t - 1) - 1 \in Int
      /\ c + 1 <= 2 * n - 1 /\ 2 * n - 1 \in Int
  OBVIOUS
<1>2. calls <= Calls(c) + (attempt - 1)
  OBVIOUS
<1> HIDE DEF c
<1>3. Calls(c) \in Int /\ MaxAttempts \in Nat /\ attempt \in Nat /\ attempt <= MaxAttempts
  BY <1>1, CallsGrow, TranslationAssumption
<1>4. calls + 1 <= Calls(c + 1)
  BY <1>1, <1>2, <1>3, CallsNext
<1>5. /\ Calls(c + 1) <= Calls(2 * (g + s) + (t - 1) - 1)
      /\ Calls(c + 1) <= Calls(2 * n - 1)
      /\ Calls(2 * (g + s) + (t - 1) - 1) \in Int /\ Calls(2 * n - 1) \in Int
      /\ Calls(c + 1) \in Int
  BY <1>1, CallsGrow
<1>6. calls + 1 <= Calls(c) + ((attempt + 1) - 1)
  BY <1>2, <1>3
<1> QED
  BY <1>1, <1>4, <1>5, <1>6 DEF c

-----------------------------------------------------------------------------
(* Translation.                                                            *)

\* The batch in its types, with its parts named.
LEMMA BatchStands ==
  ASSUME Shape
  PROVE  /\ tr \in BatchType /\ tr.at \in Nat /\ tr.calls \in Nat /\ tr.changed \in BOOLEAN
         /\ tr.attempt \in 1 .. MaxAttempts
         /\ tr.pending \in Seq(Lines) /\ tr.todo \in Ranges /\ tr.got \in Seq(Lines)
         /\ Len(tr.pending) \in Nat /\ DOMAIN tr.pending = 1 .. Len(tr.pending)
         /\ Len(tr.got) \in Nat /\ Len(tr.todo) \in Nat
BY LenProperties DEF Shape, BatchType, Ranges

\* A translation step leaves everything after the translation alone.
LEMMA BeforeSpeech ==
  ASSUME DubbingInv, UNCHANGED <<script, setup, voices, jobs, clips, spoken, raised, left, cursor>>,
         lines' \in [Lines -> [trans : 0 .. 2 * NLines, url : UnitName]], tr' \in BatchType,
         phase = "translate", phase' \in {"translate", "paused", "failed"},
         TranslationsInPlace', CallsBounded', TranslationKept'
  PROVE  DubbingInv'
<1>1. Units' = Units /\ Speakers' = Speakers
  BY UnitsStay
<1>2. Shape'
  <2>1. ClipType' = ClipType
    BY <1>1 DEF ClipType
  <2> QED
    BY <1>1, <2>1 DEF DubbingInv, Shape, Phases
<1>3. SpeechKept'
  BY DEF DubbingInv, SpeechKept, Speech
<1>4. VoicesKept'
  BY <1>1 DEF DubbingInv, VoicesKept, MustClone, Required
<1>5. TimelineKept'
  BY DEF DubbingInv, TimelineKept, OrigStart, OrigLength, Squeezed
<1> QED
  BY <1>2, <1>3, <1>4, <1>5 DEF DubbingInv

\* An empty batch keeps what a batch keeps.
LEMMA NoBatchKeeps ==
  ASSUME NEW at \in Nat, NEW changed \in BOOLEAN, tr' = NoBatch(at, changed)
  PROVE  tr' \in BatchType /\ BatchKept' /\ SliceKept' /\ CallsBounded'
<1>1. tr' \in BatchType
  BY TranslationAssumption, EmptySeq DEF NoBatch, BatchType
<1>2. /\ tr'.pending = << >> /\ tr'.todo = << >> /\ tr'.got = << >> /\ tr'.attempt = 1
      /\ tr'.calls = 0
  BY DEF NoBatch
<1>3. Len(tr'.pending) = 0 /\ Len(tr'.todo) = 0 /\ Len(tr'.got) = 0
  BY <1>2, EmptySeq
<1>4. BatchKept'
  BY <1>2, <1>3 DEF BatchKept, Row
<1> QED
  BY <1>1, <1>2, <1>3, <1>4 DEF SliceKept, CallsBounded

LEMMA StartBatchKeeps ==
  ASSUME DubbingInv, StartBatch,
         UNCHANGED <<script, setup, voices, jobs, clips, spoken, raised, left, cursor>>
  PROVE  DubbingInv'
<1> DEFINE S == {i \in Slice : NeedsTranslation(i)}
           pending == Ascending(S)
<1>1. /\ phase = "translate" /\ phase' = phase /\ lines' = lines /\ tr.pending = << >>
      /\ tr' = IF pending = << >> THEN NoBatch(tr.at + BatchSize, tr.changed)
               ELSE [tr EXCEPT !.pending = pending, !.todo = << <<1, Len(pending)>> >>]
  BY DEF StartBatch, NextBatch, Translating
<1>2. Shape /\ BatchKept /\ OldKept /\ TranslationsInPlace
  BY <1>1 DEF DubbingInv, TranslationKept
<1>3. /\ tr \in BatchType /\ tr.at \in Nat /\ tr.changed \in BOOLEAN /\ tr.got \in Seq(Lines)
      /\ BatchSize \in Nat
  BY <1>2, BatchStands, TranslationAssumption
<1>4. S \subseteq Lines /\ Slice \subseteq Lines
  BY DEF Slice
<1> DEFINE n == Cardinality(S)
<1>5. n \in Nat /\ n <= NLines
  <2> HIDE DEF S
  <2>1. IsFiniteSet(Lines) /\ Cardinality(Lines) = NLines
    BY FS_Interval, TranslationAssumption DEF Lines
  <2>2. IsFiniteSet(S) /\ Cardinality(S) <= NLines
    BY <1>4, <2>1, FS_Subset
  <2> QED
    BY <2>2, FS_CardinalityType
<1>6. /\ pending \in [1 .. n -> S]
      /\ \A i \in S : \E k \in 1 .. n : pending[k] = i
  <2> HIDE DEF S
  <2> QED
    BY <1>4, AscendingIs DEF IsAscending, Bijection, Injection, Surjection
<1> HIDE DEF n, pending
<1>7. pending \in Seq(Lines) /\ Len(pending) = n /\ DOMAIN pending = 1 .. n
  <2>1. pending \in [1 .. n -> Lines]
    BY <1>4, <1>6
  <2> HIDE DEF S
  <2>2. pending \in Seq(Lines)
    BY <1>5, <2>1
  <2> QED
    BY <1>5, <2>1, <2>2, LenProperties
<1>8. TranslationsInPlace' /\ lines' \in [Lines -> [trans : 0 .. 2 * NLines, url : UnitName]]
  BY <1>1, <1>2 DEF TranslationsInPlace, Shape
<1>9. FirstOf' = FirstOf /\ Units' = Units /\ \A u : LinesOf(u)' = LinesOf(u) /\ Name(u)' = Name(u)
  BY UnitsStay
<1>10. CASE pending = << >>
  <2>1. tr' = NoBatch(tr.at + BatchSize, tr.changed)
    BY <1>1, <1>10
  <2>2. tr' \in BatchType /\ BatchKept' /\ SliceKept' /\ CallsBounded'
    BY <1>3, <2>1, NoBatchKeeps
  <2>3. tr'.at = tr.at + BatchSize /\ tr'.changed = tr.changed
    BY <2>1 DEF NoBatch
  <2>4. n = 0
    BY <1>5, <1>7, <1>10, EmptySeq
  <2>5. S = {}
    BY <1>6, <2>4
  <2>6. \A i \in Lines : i <= tr'.at => lines[i].trans # None
    <3> SUFFICES ASSUME NEW i \in Lines, i <= tr'.at, ~(i <= tr.at) PROVE lines[i].trans # None
      BY <1>2 DEF OldKept
    <3>1. i \in Slice
      BY <1>3, <2>3 DEF Slice, Lines
    <3> QED
      BY <2>5, <3>1 DEF NeedsTranslation
  <2>7. OldKept'
    BY <1>1, <1>2, <1>9, <2>3, <2>6 DEF OldKept, Old
  <2> QED
    BY <1>1, <1>8, <2>2, <2>7, BeforeSpeech DEF TranslationKept
<1>11. CASE pending # << >>
  <2>1. tr' = [tr EXCEPT !.pending = pending, !.todo = << <<1, Len(pending)>> >>]
    BY <1>1, <1>11
  <2>2. n >= 1
    BY <1>5, <1>7, <1>11, EmptySeq
  <2> DEFINE todo == << <<1, n>> >>
  <2>3. todo \in Ranges /\ Len(todo) = 1 /\ todo[1] = <<1, n>> /\ todo # << >>
    <3>1. 1 \in Lines /\ n \in Lines
      BY <1>5, <2>2, TranslationAssumption DEF Lines
    <3> QED
      BY <3>1 DEF Ranges
  <2> HIDE DEF todo
  <2>4. /\ tr'.pending = pending /\ tr'.todo = todo /\ tr'.got = tr.got /\ tr'.at = tr.at
        /\ tr'.attempt = tr.attempt /\ tr'.calls = tr.calls /\ tr'.changed = tr.changed
        /\ tr' \in BatchType
    BY <1>3, <1>7, <2>1, <2>3 DEF BatchType, Ranges, todo
  <2>5. Len(tr.got) = 0 /\ tr.attempt = 1 /\ tr.calls = 0
    BY <1>1, <1>2, BatchStands, EmptySeq DEF BatchKept
  <2>6. Row(todo, 0, n)
    BY <1>5, <2>2, <2>3 DEF Row
  <2>7. Calls(2 * n - 1) \in Int /\ 0 <= Calls(2 * n - 1) /\ Calls(0) = 0 /\ 0 <= Calls(1)
    <3>1. Calls(0) = 0 /\ 0 <= Calls(1)
      BY TranslationAssumption DEF Calls
    <3> QED
      BY <1>5, <2>2, <3>1, CallsGrow
  <2>8. BatchKept'
    <3>1. /\ Len(tr'.got) = 0 /\ Len(tr'.pending) = n /\ Len(tr'.todo) = 1 /\ tr'.todo # << >>
          /\ tr'.calls = 0 /\ tr'.attempt = 1
      BY <1>7, <2>3, <2>4, <2>5
    <3>2. Row(tr'.todo, 0, n)
      BY <2>4, <2>6
    <3>3. Calls(2 * 0 + 1 - 1) = 0
      BY <2>7
    <3>4. 0 <= Calls(2 * 0 + 1 - 1) + (1 - 1)
      BY <3>3
    <3> QED
      BY <1>5, <2>2, <3>1, <3>2, <3>4 DEF BatchKept, Calls
  <2>9. SliceKept'
    <3>1. Slice' = Slice
      BY <2>4 DEF Slice
    <3>2. \A k \in 1 .. n : pending[k] \in Slice
      BY <1>6
    <3>3. \A i \in Slice : NeedsTranslation(i) => \E k \in 1 .. n : pending[k] = i
      BY <1>6
    <3>4. \A i : NeedsTranslation(i)' <=> NeedsTranslation(i)
      BY <1>1 DEF NeedsTranslation
    <3> QED
      BY <1>7, <2>4, <3>1, <3>2, <3>3, <3>4 DEF SliceKept
  <2>10. CallsBounded'
    BY <1>7, <2>4, <2>5, <2>7 DEF CallsBounded, Calls
  <2>11. OldKept'
    BY <1>1, <1>2, <1>9, <2>4 DEF OldKept, Old
  <2> QED
    BY <1>1, <1>8, <2>4, <2>8, <2>9, <2>10, <2>11, BeforeSpeech DEF TranslationKept
<1> QED
  BY <1>10, <1>11

\* What the first range of a batch in progress is.
LEMMA FirstRange ==
  ASSUME Shape, BatchKept, tr.todo # << >>
  PROVE  LET g == Len(tr.got) n == Len(tr.pending) t == Len(tr.todo) IN
         /\ g \in Nat /\ n \in Nat /\ t \in Nat /\ t >= 1 /\ g + t <= n /\ n >= 1
         /\ From = tr.todo[1][1] /\ To = tr.todo[1][2]
         /\ From = g + 1 /\ From \in Nat /\ To \in Nat /\ From <= To /\ To <= n
         /\ Size \in Nat /\ Size >= 1 /\ g + Size = To
         /\ tr.calls <= Calls(2 * g + t - 1) + (tr.attempt - 1)
<1> DEFINE g == Len(tr.got)
           n == Len(tr.pending)
           t == Len(tr.todo)
<1>1. g \in Nat /\ n \in Nat /\ tr.todo \in Ranges /\ Row(tr.todo, g, n)
  BY BatchStands DEF BatchKept
<1>2. /\ t \in Nat /\ t >= 1 /\ Head(tr.todo) = tr.todo[1]
      /\ tr.todo[1][1] \in Nat /\ tr.todo[1][2] \in Nat
      /\ tr.todo[1][1] = g + 1 /\ tr.todo[1][1] <= tr.todo[1][2] /\ tr.todo[1][2] + t - 1 <= n
  <2> HIDE DEF g, n, t
  <2>1. /\ Len(tr.todo) \in Nat /\ Len(tr.todo) >= 1 /\ Head(tr.todo) = tr.todo[1]
        /\ \A r \in 1 .. Len(tr.todo) : tr.todo[r][1] \in Nat /\ tr.todo[r][2] \in Nat
        /\ tr.todo[1][1] = g + 1 /\ tr.todo[1][1] <= tr.todo[1][2]
        /\ tr.todo[1][2] + Len(tr.todo) - 1 <= n
    BY <1>1, RowStands
  <2>2. 1 \in 1 .. Len(tr.todo)
    BY <2>1
  <2> QED
    BY <2>1, <2>2 DEF t
<1>3. From = tr.todo[1][1] /\ To = tr.todo[1][2]
  BY <1>2 DEF From, To
<1> HIDE DEF g, n, t
<1>4. From = g + 1 /\ From \in Nat /\ To \in Nat /\ From <= To /\ To + t - 1 <= n
  BY <1>2, <1>3
<1>5. Size \in Nat /\ Size >= 1 /\ g + Size = To /\ To <= n /\ g + t <= n /\ n >= 1
  BY <1>1, <1>2, <1>4 DEF Size
<1>6. tr.calls <= Calls(2 * g + t - 1) + (tr.attempt - 1)
  <2>1. Len(tr.pending) > 0
    BY <1>5 DEF n
  <2> QED
    BY <2>1 DEF BatchKept, g, t
<1> QED
  BY <1>1, <1>2, <1>3, <1>4, <1>5, <1>6 DEF g, n, t

\* Put in the order of their ids, the items of an accepted answer count up.
LEMMA OrderedCountsUp ==
  ASSUME NEW n \in Nat, NEW answer \in Answers(n), Accepted(answer, n)
  PROVE  \A k \in 1 .. n : Ordered(answer)[k] = k
<1>1. PICK m \in 0 .. (n + 1) : answer \in [1 .. m -> 1 .. (n + 1)]
  BY DEF Answers
<1>2. Len(answer) = m
  <2>1. answer \in Seq(1 .. (n + 1)) /\ m \in Nat
    BY <1>1
  <2>2. DOMAIN answer = 1 .. Len(answer) /\ Len(answer) \in Nat
    BY <2>1, LenProperties
  <2>3. 1 .. m = 1 .. Len(answer)
    BY <1>1, <2>2
  <2>4. \A a, b \in Nat : 1 .. a = 1 .. b => a <= b
    <3> SUFFICES ASSUME NEW a \in Nat, NEW b \in Nat, 1 .. a = 1 .. b, a >= 1 PROVE a <= b
      OBVIOUS
    <3>1. a \in 1 .. a
      OBVIOUS
    <3>2. a \in 1 .. b
      BY <3>1
    <3> QED
      BY <3>2
  <2>5. \A a, b \in Nat : 1 .. a = 1 .. b => a = b
    <3> SUFFICES ASSUME NEW a \in Nat, NEW b \in Nat, 1 .. a = 1 .. b PROVE a = b
      OBVIOUS
    <3>1. a <= b /\ b <= a
      BY <2>4
    <3> QED
      BY <3>1
  <2> QED
    BY <2>1, <2>2, <2>3, <2>5
<1>3. DOMAIN answer = 1 .. n /\ {answer[k] : k \in 1 .. n} = 1 .. n
  BY <1>1, <1>2 DEF Accepted
<1> SUFFICES ASSUME NEW k \in 1 .. n PROVE Ordered(answer)[k] = k
  OBVIOUS
<1>4. \E j \in DOMAIN answer : answer[j] = k
  BY <1>3
<1> QED
  BY <1>3, <1>4 DEF Ordered

LEMMA AnsweredKeeps ==
  ASSUME DubbingInv, phase = "translate", tr.todo # << >>,
         NEW answer \in Answers(Size), Answered(answer),
         UNCHANGED <<script, setup, voices, jobs, clips, spoken, raised, left, cursor>>
  PROVE  DubbingInv'
<1> DEFINE g == Len(tr.got)
           n == Len(tr.pending)
           t == Len(tr.todo)
           more == [k \in 1 .. Size |-> tr.pending[From + Ordered(answer)[k] - 1]]
           s == Size
<1>1. Shape /\ BatchKept /\ SliceKept /\ OldKept /\ TranslationsInPlace
  BY DEF DubbingInv, TranslationKept
<1>2. /\ g \in Nat /\ n \in Nat /\ t \in Nat /\ t >= 1 /\ g + t <= n /\ n >= 1
      /\ From = tr.todo[1][1] /\ To = tr.todo[1][2]
      /\ From = g + 1 /\ From \in Nat /\ To \in Nat /\ From <= To /\ To <= n
      /\ s \in Nat /\ s >= 1 /\ g + s = To
      /\ tr.calls <= Calls(2 * g + t - 1) + (tr.attempt - 1)
  BY <1>1, FirstRange
<1>3. /\ tr \in BatchType /\ tr.calls \in Nat /\ tr.attempt \in 1 .. MaxAttempts
      /\ tr.pending \in Seq(Lines) /\ tr.todo \in Ranges /\ tr.got \in Seq(Lines)
  BY <1>1, BatchStands
<1>4. /\ lines' = lines /\ phase' = phase /\ Accepted(answer, s)
      /\ tr' = [tr EXCEPT !.got = @ \o more, !.todo = Tail(@), !.attempt = 1, !.calls = @ + 1]
  BY DEF Answered
<1> HIDE DEF more, s
<1>5. \A k \in 1 .. s : Ordered(answer)[k] = k
  <2>1. answer \in Answers(s)
    BY DEF s
  <2> QED
    BY <1>2, <1>4, <2>1, OrderedCountsUp
<1>6. \A k \in 1 .. s : more[k] = tr.pending[g + k] /\ more[k] \in Lines
  <2> SUFFICES ASSUME NEW k \in 1 .. s PROVE more[k] = tr.pending[g + k] /\ more[k] \in Lines
    OBVIOUS
  <2>1. more[k] = tr.pending[From + Ordered(answer)[k] - 1]
    BY DEF more, s
  <2>2. From + k - 1 = g + k /\ g + k \in 1 .. n
    <3>1. From = g + 1 /\ g \in Nat /\ n \in Nat /\ s \in Nat /\ g + s <= n
      BY <1>2
    <3> HIDE DEF g, n
    <3> QED
      BY <3>1
  <2> QED
    BY <1>3, <1>5, <2>1, <2>2, ElementOfSeq
<1>7. more \in Seq(Lines) /\ Len(more) = s
  <2>1. more \in [1 .. s -> Lines]
    BY <1>6 DEF more, s
  <2>2. more \in Seq(Lines)
    BY <1>2, <2>1
  <2> QED
    BY <1>2, <2>1, <2>2, LenProperties
<1>8. /\ tr.got \o more \in Seq(Lines) /\ Len(tr.got \o more) = g + s
      /\ \A k \in 1 .. (g + s) : (tr.got \o more)[k] = IF k <= g THEN tr.got[k] ELSE more[k - g]
  BY <1>3, <1>7, ConcatProperties
<1>9. Tail(tr.todo) \in Ranges /\ Len(Tail(tr.todo)) = t - 1 /\ Row(Tail(tr.todo), g + s, n)
  <2>1. Row(tr.todo, g, n)
    BY <1>1 DEF BatchKept
  <2> HIDE DEF g, n
  <2> QED
    BY <1>2, <1>3, <2>1, RowAnswered
<1>10. /\ tr'.got = tr.got \o more /\ tr'.todo = Tail(tr.todo) /\ tr'.attempt = 1
       /\ tr'.calls = tr.calls + 1 /\ tr'.pending = tr.pending /\ tr'.at = tr.at
       /\ tr'.changed = tr.changed /\ tr' \in BatchType
  <2>1. 1 \in 1 .. MaxAttempts
    BY TranslationAssumption
  <2>2. tr.got \o more \in Seq(Lines) /\ Tail(tr.todo) \in Seq(Lines \X Lines)
    BY <1>8, <1>9 DEF Ranges
  <2>3. tr.calls + 1 \in Nat
    BY <1>3
  <2> HIDE DEF g, n, t
  <2> QED
    BY <1>3, <1>4, <2>1, <2>2, <2>3 DEF BatchType
<1>11. \A k \in 1 .. (g + s) : (tr.got \o more)[k] = tr.pending[k]
  <2> SUFFICES ASSUME NEW k \in 1 .. (g + s) PROVE (tr.got \o more)[k] = tr.pending[k]
    OBVIOUS
  <2>1. CASE k <= g
    <3>1. k \in 1 .. g
      BY <1>2, <2>1
    <3> QED
      BY <1>1, <1>8, <2>1, <3>1 DEF BatchKept
  <2>2. CASE ~(k <= g)
    <3>1. k - g \in 1 .. s /\ g + (k - g) = k
      BY <1>2, <2>2
    <3> QED
      BY <1>6, <1>8, <2>2, <3>1
  <2> QED
    BY <2>1, <2>2
<1>12. /\ tr.calls + 1 <= Calls(2 * (g + s) + (t - 1) - 1)
       /\ tr.calls + 1 <= Calls(2 * n - 1)
  <2> HIDE DEF g, n, t
  <2> QED
    BY <1>2, <1>3, CallsOfRange
<1>13. BatchKept'
  <2> HIDE DEF g, n, t
  <2>1. Len(tr'.got) = g + s /\ Len(tr'.pending) = n /\ Len(tr'.todo) = t - 1
    BY <1>8, <1>9, <1>10 DEF n
  <2>2. g + s <= n /\ n # 0
    BY <1>2
  <2>3. \A k \in 1 .. (g + s) : tr'.got[k] = tr'.pending[k]
    BY <1>10, <1>11
  <2>4. Row(tr'.todo, g + s, n)
    BY <1>9, <1>10
  <2>5. tr'.calls <= Calls(2 * (g + s) + (t - 1) - 1) + (tr'.attempt - 1)
    <3>1. Calls(2 * (g + s) + (t - 1) - 1) \in Int
      BY <1>2, CallsGrow
    <3> QED
      BY <1>3, <1>10, <1>12, <3>1
  <2> QED
    BY <1>10, <2>1, <2>2, <2>3, <2>4, <2>5 DEF BatchKept, Calls
<1>14. SliceKept'
  <2>1. Slice' = Slice /\ \A i : NeedsTranslation(i)' <=> NeedsTranslation(i)
    BY <1>4, <1>10 DEF Slice, NeedsTranslation
  <2> QED
    BY <1>1, <1>10, <2>1 DEF SliceKept
<1>15. OldKept'
  <2>1. FirstOf' = FirstOf /\ Units' = Units /\ \A u : LinesOf(u)' = LinesOf(u) /\ Name(u)' = Name(u)
    BY UnitsStay
  <2> QED
    BY <1>1, <1>4, <1>10, <2>1 DEF OldKept, Old
<1>16. CallsBounded'
  BY <1>10, <1>12 DEF CallsBounded, Calls
<1>17. TranslationsInPlace' /\ lines' \in [Lines -> [trans : 0 .. 2 * NLines, url : UnitName]]
  BY <1>1, <1>4 DEF TranslationsInPlace, Shape, Old
<1> QED
  BY <1>4, <1>10, <1>13, <1>14, <1>15, <1>16, <1>17, BeforeSpeech DEF TranslationKept

LEMMA ProviderFailsKeeps ==
  ASSUME DubbingInv, NEW kind \in {"permanent", "transient", "invalid"}, ProviderFails(kind),
         UNCHANGED <<script, setup, voices, jobs, clips, spoken, raised, left, cursor>>
  PROVE  DubbingInv'
<1> DEFINE g == Len(tr.got)
           n == Len(tr.pending)
           t == Len(tr.todo)
<1>1. phase = "translate" /\ tr.todo # << >> /\ lines' = lines
  BY DEF ProviderFails, Translating
<1>2. Shape /\ BatchKept /\ SliceKept /\ OldKept /\ TranslationsInPlace
  BY <1>1 DEF DubbingInv, TranslationKept
<1>3. /\ g \in Nat /\ n \in Nat /\ t \in Nat /\ t >= 1 /\ g + t <= n /\ n >= 1
      /\ From = tr.todo[1][1] /\ To = tr.todo[1][2]
      /\ From \in Nat /\ To \in Nat /\ From <= To
      /\ tr.calls <= Calls(2 * g + t - 1) + (tr.attempt - 1)
  BY <1>1, <1>2, FirstRange
<1>4. /\ tr \in BatchType /\ tr.calls \in Nat /\ tr.attempt \in 1 .. MaxAttempts
      /\ tr.todo \in Ranges
  BY <1>2, BatchStands
<1>5. /\ tr.calls + 1 <= Calls(2 * g + t - 1) + ((tr.attempt + 1) - 1)
      /\ tr.calls + 1 <= Calls(2 * g + (t + 1) - 1)
      /\ tr.calls + 1 <= Calls(2 * n - 1)
  <2> HIDE DEF g, n, t
  <2> QED
    BY <1>3, <1>4, CallsOfRange
<1>6. TranslationsInPlace' /\ lines' \in [Lines -> [trans : 0 .. 2 * NLines, url : UnitName]]
  BY <1>1, <1>2 DEF TranslationsInPlace, Shape, Old
<1>7. FirstOf' = FirstOf /\ Units' = Units /\ \A u : LinesOf(u)' = LinesOf(u) /\ Name(u)' = Name(u)
  BY UnitsStay
<1>8. CASE phase' \in {"paused", "failed"} /\ tr' = [tr EXCEPT !.calls = @ + 1]
  <2>1. tr'.pending = tr.pending /\ tr'.calls = tr.calls + 1 /\ tr' \in BatchType
    <3>1. tr.calls + 1 \in Nat
      BY <1>4
    <3> QED
      BY <1>4, <1>8, <3>1 DEF BatchType
  <2>2. CallsBounded'
    BY <1>5, <2>1 DEF CallsBounded, Calls
  <2>3. TranslationKept'
    BY <1>8 DEF TranslationKept
  <2> QED
    BY <1>1, <1>6, <1>8, <2>1, <2>2, <2>3, BeforeSpeech
<1>9. ASSUME phase' = phase, tr' \in BatchType, tr'.pending = tr.pending, tr'.at = tr.at,
             tr'.changed = tr.changed, tr'.calls = tr.calls + 1, BatchKept'
      PROVE  DubbingInv'
  <2>1. CallsBounded'
    BY <1>5, <1>9 DEF CallsBounded, Calls
  <2>2. SliceKept'
    <3>1. Slice' = Slice /\ \A i : NeedsTranslation(i)' <=> NeedsTranslation(i)
      BY <1>1, <1>9 DEF Slice, NeedsTranslation
    <3> QED
      BY <1>2, <1>9, <3>1 DEF SliceKept
  <2>3. OldKept'
    BY <1>1, <1>2, <1>7, <1>9 DEF OldKept, Old
  <2> QED
    BY <1>1, <1>6, <1>9, <2>1, <2>2, <2>3, BeforeSpeech DEF TranslationKept
<1>10. CASE /\ tr.attempt < MaxAttempts /\ phase' = phase
            /\ tr' = [tr EXCEPT !.attempt = @ + 1, !.calls = @ + 1]
  <2>1. /\ tr'.pending = tr.pending /\ tr'.at = tr.at /\ tr'.changed = tr.changed
        /\ tr'.calls = tr.calls + 1 /\ tr'.attempt = tr.attempt + 1 /\ tr'.got = tr.got
        /\ tr'.todo = tr.todo
    BY <1>4, <1>10 DEF BatchType
  <2>2. tr.attempt + 1 \in 1 .. MaxAttempts /\ tr.calls + 1 \in Nat
    BY <1>4, <1>10, TranslationAssumption
  <2>3. tr' \in BatchType
    BY <1>4, <1>10, <2>2 DEF BatchType
  <2>4. BatchKept'
    <3>1. tr'.calls <= Calls(2 * g + t - 1) + (tr'.attempt - 1)
      BY <1>5, <2>1
    <3>2. n # 0 /\ tr.todo # << >>
      BY <1>1, <1>3
    <3>3. g <= n /\ (\A k \in 1 .. g : tr.got[k] = tr.pending[k]) /\ Row(tr.todo, g, n)
      BY <1>2 DEF BatchKept
    <3> QED
      BY <2>1, <3>1, <3>2, <3>3 DEF BatchKept
  <2> QED
    BY <1>9, <1>10, <2>1, <2>3, <2>4
<1>11. CASE /\ tr.attempt = MaxAttempts /\ Size > 1 /\ phase' = phase
            /\ tr' = [tr EXCEPT !.todo = Halves(From, To) \o Tail(@), !.attempt = 1, !.calls = @ + 1]
  <2> DEFINE s == Halves(From, To) \o Tail(tr.todo)
  <2>1. s \in Ranges /\ s # << >> /\ Len(s) = t + 1 /\ Row(s, g, n)
    <3>1. tr.todo[1][1] < tr.todo[1][2]
      BY <1>3, <1>11 DEF Size
    <3>2. Row(tr.todo, g, n)
      BY <1>2 DEF BatchKept
    <3>3. s = Halves(tr.todo[1][1], tr.todo[1][2]) \o Tail(tr.todo)
      BY <1>3
    <3> HIDE DEF s, g, n
    <3> QED
      BY <1>1, <1>3, <1>4, <3>1, <3>2, <3>3, RowSplit
  <2> HIDE DEF s
  <2>2. /\ tr'.pending = tr.pending /\ tr'.at = tr.at /\ tr'.changed = tr.changed
        /\ tr'.calls = tr.calls + 1 /\ tr'.attempt = 1 /\ tr'.got = tr.got /\ tr'.todo = s
    BY <1>4, <1>11 DEF BatchType, s
  <2>3. tr' \in BatchType
    <3>1. 1 \in 1 .. MaxAttempts /\ tr.calls + 1 \in Nat
      BY <1>4, TranslationAssumption
    <3> QED
      BY <1>4, <1>11, <2>1, <3>1 DEF BatchType, Ranges, s
  <2>4. BatchKept'
    <3>1. tr'.calls <= Calls(2 * g + (t + 1) - 1) + (tr'.attempt - 1)
      <4>1. g \in Nat /\ t \in Nat /\ tr.calls + 1 \in Nat
        BY <1>3, <1>4
      <4> HIDE DEF g, t
      <4>2. 2 * g + (t + 1) - 1 \in Int
        BY <4>1
      <4>3. Calls(2 * g + (t + 1) - 1) \in Int
        BY <4>2, CallsGrow
      <4>4. tr.calls + 1 <= Calls(2 * g + (t + 1) - 1) /\ tr'.calls = tr.calls + 1 /\ tr'.attempt = 1
        BY <1>5, <2>2
      <4> QED
        BY <4>1, <4>3, <4>4
    <3>2. n # 0 /\ Len(tr'.todo) = t + 1 /\ Len(tr'.got) = g /\ Len(tr'.pending) = n
      BY <1>3, <2>1, <2>2
    <3>3. g <= n /\ \A k \in 1 .. g : tr.got[k] = tr.pending[k]
      BY <1>2 DEF BatchKept
    <3>4. tr'.todo # << >> /\ Row(tr'.todo, g, n) /\ tr'.got = tr.got /\ tr'.pending = tr.pending
      BY <2>1, <2>2
    <3> HIDE DEF g, n, t
    <3> QED
      BY <3>1, <3>2, <3>3, <3>4 DEF BatchKept
  <2> QED
    BY <1>9, <1>11, <2>2, <2>3, <2>4
<1> QED
  BY <1>8, <1>10, <1>11 DEF ProviderFails, Ends

\* Every line of the batch gets the answer to its own text.
LEMMA WriteBatchKeeps ==
  ASSUME DubbingInv, WriteBatch,
         UNCHANGED <<script, setup, voices, jobs, clips, spoken, raised, left, cursor>>
  PROVE  DubbingInv'
<1> DEFINE n == Len(tr.pending)
           Written(i) == \E k \in 1 .. n : tr.pending[k] = i
<1>1. /\ phase = "translate" /\ phase' = phase /\ tr.pending # << >> /\ tr.todo = << >>
      /\ tr' = NoBatch(tr.at + BatchSize, TRUE)
  BY DEF WriteBatch, Translating
<1>2. Shape /\ BatchKept /\ SliceKept /\ OldKept /\ TranslationsInPlace
  BY <1>1 DEF DubbingInv, TranslationKept
<1>3. /\ tr.at \in Nat /\ n \in Nat /\ DOMAIN tr.pending = 1 .. n /\ BatchSize \in Nat
      /\ tr.pending \in Seq(Lines)
  BY <1>2, BatchStands, TranslationAssumption
<1>4. \A k \in 1 .. n : tr.got[k] = tr.pending[k]
  BY <1>1, <1>2 DEF BatchKept, Row
<1>5. \A i \in Lines : lines'[i] = IF Written(i) THEN [trans |-> i, url |-> NoUnit] ELSE lines[i]
  <2> SUFFICES ASSUME NEW i \in Lines
               PROVE  lines'[i] = IF Written(i) THEN [trans |-> i, url |-> NoUnit] ELSE lines[i]
    OBVIOUS
  <2>1. lines'[i] = IF Written(i)
                    THEN [trans |-> tr.got[CHOOSE k \in 1 .. n : tr.pending[k] = i], url |-> NoUnit]
                    ELSE lines[i]
    BY <1>3 DEF WriteBatch
  <2>2. Written(i) => tr.got[CHOOSE k \in 1 .. n : tr.pending[k] = i] = i
    BY <1>4
  <2> QED
    BY <2>1, <2>2
<1> HIDE DEF Written
<1>6. ASSUME NEW i \in Lines
       PROVE  /\ Written(i) => lines'[i].trans = i /\ lines'[i].url = NoUnit
                               /\ lines'[i] = [trans |-> i, url |-> NoUnit]
              /\ ~Written(i) => lines'[i] = lines[i]
  BY <1>5
<1>7. lines' \in [Lines -> [trans : 0 .. 2 * NLines, url : UnitName]]
  <2>1. \A i \in Lines : i \in 0 .. 2 * NLines
    BY TranslationAssumption DEF Lines
  <2>2. NoUnit \in UnitName
    BY TranslationAssumption DEF NoUnit, UnitName
  <2>3. lines' = [i \in Lines |-> lines'[i]]
    BY DEF WriteBatch
  <2>4. ASSUME NEW i \in Lines PROVE lines'[i] \in [trans : 0 .. 2 * NLines, url : UnitName]
    <3>1. lines[i] \in [trans : 0 .. 2 * NLines, url : UnitName]
      BY <1>2 DEF Shape
    <3> QED
      BY <1>6, <2>1, <2>2, <3>1
  <2> QED
    BY <2>3, <2>4
<1>8. tr' \in BatchType /\ BatchKept' /\ SliceKept' /\ CallsBounded'
  <2>1. tr.at + BatchSize \in Nat /\ TRUE \in BOOLEAN
    BY <1>3
  <2> QED
    BY <1>1, <2>1, NoBatchKeeps
<1>9. tr'.at = tr.at + BatchSize /\ tr'.changed = TRUE
  BY <1>1 DEF NoBatch
<1>10. TranslationsInPlace'
  BY <1>2, <1>6 DEF TranslationsInPlace, Old
<1>11. FirstOf' = FirstOf /\ Units' = Units /\ \A u : LinesOf(u)' = LinesOf(u) /\ Name(u)' = Name(u)
  BY UnitsStay
<1>12. \A i \in Lines : i <= tr'.at => lines'[i].trans # None
  <2> SUFFICES ASSUME NEW i \in Lines, i <= tr.at + BatchSize PROVE lines'[i].trans # None
    BY <1>9
  <2>1. i # None
    BY DEF Lines, None
  <2>2. CASE Written(i)
    BY <1>6, <2>1, <2>2
  <2>3. CASE ~Written(i) /\ i <= tr.at
    BY <1>2, <1>6, <2>3 DEF OldKept
  <2>4. CASE ~Written(i) /\ ~(i <= tr.at)
    <3>1. i \in Slice
      BY <1>3, <2>4 DEF Slice, Lines
    <3>2. ~NeedsTranslation(i)
      BY <1>1, <1>2, <1>3, <2>4, <3>1 DEF SliceKept, Written
    <3> QED
      BY <1>6, <2>4, <3>2 DEF NeedsTranslation
  <2> QED
    BY <2>2, <2>3, <2>4
<1>13. OldKept'
  <2>1. \A i \in Lines : lines'[i].url # NoUnit => lines'[i] = lines[i]
    BY <1>6
  <2> QED
    BY <1>2, <1>9, <1>11, <1>12, <2>1 DEF OldKept, Old
<1> QED
  BY <1>1, <1>7, <1>8, <1>10, <1>13, BeforeSpeech DEF TranslationKept

LEMMA TranslationKeeps ==
  ASSUME DubbingInv, TranslationStep,
         UNCHANGED <<script, setup, voices, jobs, clips, spoken, raised, left, cursor>>
  PROVE  DubbingInv'
BY StartBatchKeeps, WriteBatchKeeps, AnsweredKeeps, ProviderFailsKeeps
   DEF TranslationStep, Translating

-----------------------------------------------------------------------------
(* Synthesis.                                                              *)

\* A step behind the translation keeps what translation has done.
LEMMA AfterTranslation ==
  ASSUME DubbingInv, phase' # "translate", UNCHANGED tr,
         \A i \in Lines : lines'[i].trans = lines[i].trans,
         Shape', SpeechKept', VoicesKept', TimelineKept'
  PROVE  DubbingInv'
BY DEF DubbingInv, TranslationsInPlace, CallsBounded, TranslationKept, Old

\* A clip says what its unit says as long as neither changes.
LEMMA FreshStays ==
  ASSUME UNCHANGED script, \A i \in Lines : lines'[i].trans = lines[i].trans,
         NEW u \in Units, Fresh(u), Name(u) \in DOMAIN clips', clips'[Name(u)] = clips[Name(u)]
  PROVE  Fresh(u)'
<1>1. /\ \A v : LinesOf(v)' = LinesOf(v) /\ Name(v)' = Name(v)
      /\ u \in Lines /\ LinesOf(u) \subseteq Lines
  BY UnitsStay, UnitsAre
<1>2. HalfRedone(u)' <=> HalfRedone(u)
  BY <1>1 DEF HalfRedone, Old
<1>3. Says(u)' = Says(u)
  BY <1>1 DEF Says
<1> QED
  BY <1>1, <1>2, <1>3 DEF Fresh

\* As long as no clip is placed there is no timeline.
LEMMA NothingPlaced ==
  ASSUME DubbingInv, phase \notin {"align", "done"}, phase' # "done", UNCHANGED cursor, Shape'
  PROVE  TimelineKept'
<1>1. cursor = [placed |-> 0, end |-> 0]
  BY DEF DubbingInv, TimelineKept
<1>2. cursor'.placed = 0 /\ cursor' = [placed |-> 0, end |-> 0] /\ 1 .. cursor'.placed = {}
  BY <1>1
<1>3. 0 <= Len(spoken')
  BY LenProperties DEF Shape
<1> QED
  BY <1>2, <1>3 DEF TimelineKept

LEMMA StandingSpeech ==
  ASSUME Shape
  PROVE  /\ Len(spoken) \in Nat /\ DOMAIN spoken = 1 .. Len(spoken)
         /\ \A k \in 1 .. Len(spoken) : spoken[k] \in ClipType
         /\ DOMAIN jobs \subseteq Units /\ jobs \in [DOMAIN jobs -> JobType]
         /\ \A u \in DOMAIN jobs : jobs[u] \in JobType /\ u \in Units
         /\ lines \in [Lines -> [trans : 0 .. 2 * NLines, url : UnitName]]
         /\ script \in Scripts /\ setup \in Setups
BY LenProperties, ElementOfSeq DEF Shape

\* When every line is translated, a clip is taken over only for what it was made from.
LEMMA ReusedIsFresh ==
  ASSUME DubbingInv, phase = "translate", tr.at >= NLines, NEW u \in Units, Existing(u) # NoUnit
  PROVE  Existing(u) = Name(u) /\ Fresh(u)
<1>1. Shape /\ OldKept /\ TranslationsInPlace
  BY DEF DubbingInv, TranslationKept
<1>2. u \in Lines /\ u \in LinesOf(u) /\ LinesOf(u) \subseteq Lines /\ FirstOf[u] = u
  BY UnitsAre
<1>3. \A i \in Lines : lines[i].trans \in {i, Old(i)}
  <2>1. \A i \in Lines : i <= tr.at
    BY <1>1, BatchStands, TranslationAssumption DEF Lines
  <2> QED
    BY <1>1, <2>1 DEF OldKept, TranslationsInPlace
<1>4. Existing(u) = Name(u) /\ Name(u) \in DOMAIN clips
  BY <1>1, <1>2 DEF Existing, OldKept
<1>5. clips[Name(u)].says = [i \in LinesOf(u) |-> Old(i)]
  BY <1>1, <1>4 DEF OldKept
<1>6. lines[u].trans = Old(u)
  <2>1. CASE lines[u].url # NoUnit
    BY <1>1, <1>2, <2>1 DEF OldKept
  <2>2. CASE lines[u].url = NoUnit
    <3>1. ~tr.changed
      BY <2>2 DEF Existing
    <3>2. lines[u].trans # None
      BY <1>2, <1>3, TranslationAssumption DEF Old, Lines, None
    <3> QED
      BY <1>1, <1>2, <3>1, <3>2 DEF OldKept
  <2> QED
    BY <2>1, <2>2
<1>7. CASE \E i \in LinesOf(u) : lines[i].trans = i
  BY <1>4, <1>6, <1>7 DEF Fresh, HalfRedone
<1>8. CASE ~\E i \in LinesOf(u) : lines[i].trans = i
  <2>1. \A i \in LinesOf(u) : lines[i].trans = Old(i)
    BY <1>2, <1>3, <1>8
  <2>2. Says(u) = [i \in LinesOf(u) |-> Old(i)]
    BY <2>1 DEF Says
  <2> QED
    BY <1>4, <1>5, <2>2 DEF Fresh
<1> QED
  BY <1>4, <1>7, <1>8

LEMMA ReuseKeeps == ASSUME DubbingInv, Reuse, UNCHANGED <<script, setup, cursor>> PROVE DubbingInv'
<1> DEFINE R == Units \ Pending
           reused == Ascending(R)
           n == Cardinality(R)
<1>1. /\ Shape /\ phase = "translate" /\ tr.at >= NLines
      /\ spoken' = [k \in DOMAIN reused |-> Clip(reused[k], Existing(reused[k]), "reused")]
      /\ lines' = [i \in Lines |-> IF i \in R THEN [lines[i] EXCEPT !.url = Existing(i)] ELSE lines[i]]
      /\ jobs' = [u \in Pending |-> NoJob]
      /\ phase' = IF Pending = {} THEN "align" ELSE "voices"
      /\ UNCHANGED <<tr, voices, clips, raised, left>>
  BY DEF DubbingInv, Reuse
<1>2. /\ Units' = Units /\ Speakers' = Speakers /\ FirstOf' = FirstOf
      /\ \A u : LinesOf(u)' = LinesOf(u) /\ Name(u)' = Name(u)
  BY UnitsStay
<1>3. /\ Units \subseteq Lines /\ Pending \subseteq Units /\ R \subseteq Lines /\ R \subseteq Units
      /\ \A u \in R : Existing(u) = Name(u) /\ Fresh(u) /\ Name(u) \in UnitName
  <2>1. ASSUME NEW u \in R PROVE Existing(u) # NoUnit
    BY DEF Pending
  <2> QED
    BY <1>1, <2>1, ReusedIsFresh, UnitsAre, NamesAre DEF Pending
<1>4. n \in Nat
  <2> HIDE DEF R
  <2>1. IsFiniteSet(Lines)
    BY FS_Interval, TranslationAssumption DEF Lines
  <2>2. IsFiniteSet(R)
    BY <1>3, <2>1, FS_Subset
  <2> QED
    BY <2>2, FS_CardinalityType
<1>5. /\ reused \in [1 .. n -> R] /\ DOMAIN reused = 1 .. n
      /\ \A u \in R : \E k \in 1 .. n : reused[k] = u
      /\ \A j, k \in 1 .. n : j < k => reused[j] < reused[k]
      /\ \A j, k \in 1 .. n : reused[j] = reused[k] => j = k
  <2> HIDE DEF R
  <2> QED
    BY <1>3, AscendingIs DEF IsAscending, Bijection, Injection, Surjection, IsInjective
<1> HIDE DEF R, n, reused
<1>6. /\ spoken' = [k \in 1 .. n |-> spoken'[k]] /\ DOMAIN spoken' = 1 .. n
      /\ \A k \in 1 .. n :
            /\ reused[k] \in R
            /\ spoken'[k] = [unit |-> reused[k], name |-> Name(reused[k]),
                             length |-> clips[Name(reused[k])].length, mode |-> "reused", at |-> 0]
  BY <1>1, <1>3, <1>5 DEF Clip
<1>7. \A k \in 1 .. n :
         /\ spoken'[k].unit = reused[k] /\ spoken'[k].name = Name(reused[k])
         /\ spoken'[k].mode = "reused" /\ spoken'[k] \in ClipType
  <2> SUFFICES ASSUME NEW k \in 1 .. n
               PROVE  /\ spoken'[k].unit = reused[k] /\ spoken'[k].name = Name(reused[k])
                      /\ spoken'[k].mode = "reused" /\ spoken'[k] \in ClipType
    OBVIOUS
  <2>1. clips[Name(reused[k])].length \in Nat
    BY <1>1, <1>3, <1>6, SynthesisAssumption DEF Fresh, Shape
  <2> QED
    BY <1>3, <1>6, <2>1 DEF ClipType
<1>8. \A i \in Lines : lines'[i].trans = lines[i].trans
  BY <1>1 DEF Shape
<1>9. Shape'
  <2>1. lines' \in [Lines -> [trans : 0 .. 2 * NLines, url : UnitName]]
    <3>1. \A i \in Lines : lines[i] \in [trans : 0 .. 2 * NLines, url : UnitName]
      BY <1>1 DEF Shape
    <3>2. \A i \in R : Existing(i) \in UnitName
      BY <1>3
    <3> QED
      BY <1>1, <3>1, <3>2
  <2>2. spoken' \in Seq(ClipType')
    <3>1. ClipType' = ClipType
      BY <1>2 DEF ClipType
    <3>2. spoken' \in [1 .. n -> ClipType]
      BY <1>6, <1>7
    <3> QED
      BY <1>4, <3>1, <3>2
  <2>3. DOMAIN jobs' \subseteq Units /\ jobs' \in [DOMAIN jobs' -> JobType]
    <3>1. NoJob \in JobType
      BY SynthesisAssumption DEF NoJob, JobType, JobStates, Tiers
    <3> QED
      BY <1>1, <1>3, <3>1
  <2>4. phase' \in Phases
    BY <1>1 DEF Phases
  <2> QED
    BY <1>1, <1>2, <2>1, <2>2, <2>3, <2>4 DEF Shape
<1>10. \A u \in R : Fresh(u)'
  <2> SUFFICES ASSUME NEW u \in R PROVE Fresh(u)'
    OBVIOUS
  <2>1. u \in Units /\ Fresh(u) /\ Name(u) \in DOMAIN clips' /\ clips'[Name(u)] = clips[Name(u)]
    BY <1>1, <1>3 DEF Fresh
  <2> QED
    BY <1>8, <2>1, FreshStays
<1>11. ClipsKept'
  <2>1. \A u \in DOMAIN jobs' : jobs'[u].state # "ok"
    BY <1>1 DEF NoJob
  <2> QED
    BY <1>2, <1>6, <1>7, <1>10, <2>1 DEF ClipsKept
<1>12. Spoken' = R
  BY <1>5, <1>6, <1>7 DEF Spoken
<1>13. PlacesKept'
  <2>1. OnceEach(spoken')
    BY <1>3, <1>5, <1>6, <1>7 DEF OnceEach
  <2>2. Sorted(spoken')
    BY <1>5, <1>6, <1>7 DEF Sorted
  <2>3. {u \in DOMAIN jobs' : jobs'[u].state # "taken"} = Pending
    BY <1>1 DEF NoJob
  <2>4. phase' = "align" => R = Units
    BY <1>1 DEF R
  <2>5. R = Units \ Pending
    BY DEF R
  <2> QED
    BY <1>1, <1>2, <1>12, <2>1, <2>2, <2>3, <2>4, <2>5 DEF PlacesKept
<1>14. SpeechKept'
  <2>1. raised = "none"
    BY <1>1 DEF DubbingInv, SpeechKept
  <2>2. \A u \in DOMAIN jobs' : jobs'[u].state = "none"
    BY <1>1 DEF NoJob
  <2> QED
    BY <1>1, <1>11, <1>13, <2>1, <2>2 DEF SpeechKept
<1>15. VoicesKept'
  <2>1. \A u \in DOMAIN jobs' : jobs'[u].tier = "clone"
    BY <1>1 DEF NoJob
  <2> QED
    BY <1>1, <1>2, <1>6, <1>7, <2>1 DEF DubbingInv, VoicesKept, MustClone, Required
<1>16. TimelineKept'
  BY <1>1, <1>9, NothingPlaced
<1>17. phase' # "translate"
  BY <1>1
<1> QED
  BY <1>1, <1>8, <1>9, <1>14, <1>15, <1>16, <1>17, AfterTranslation

\* A voice is prepared for a speaker, or the task stops before any clip is made.
LEMMA PrepareVoiceKeeps ==
  ASSUME DubbingInv, NEW s \in Speakers, PrepareVoice(s), UNCHANGED <<script, setup, cursor>>
  PROVE  DubbingInv'
<1>1. /\ Shape /\ VoicesKept /\ SpeechKept /\ phase = "voices"
      /\ UNCHANGED <<lines, tr, jobs, clips, spoken, raised, left>>
  BY DEF DubbingInv, PrepareVoice
<1>2. /\ Units' = Units /\ Speakers' = Speakers /\ FirstOf' = FirstOf
      /\ \A u : LinesOf(u)' = LinesOf(u) /\ Name(u)' = Name(u)
  BY UnitsStay
<1>3. /\ voices \in [Speakers -> {"none", "clone", "preset"}]
      /\ \/ phase' = "voices"
         \/ phase' = "paused"
      /\ \/ voices' = voices
         \/ voices' = [voices EXCEPT ![s] = "clone"]
         \/ voices' = [voices EXCEPT ![s] = "preset"] /\ ~MustClone
  BY <1>1 DEF Shape, PrepareVoice, Preset, Refused, Cloned, Ends, MustClone, Required, Cloning
<1>4. voices' \in [Speakers -> {"none", "clone", "preset"}]
  BY <1>3
<1>5. MustClone => \A t \in Speakers : voices'[t] # "preset"
  BY <1>1, <1>3 DEF VoicesKept
<1>6. Shape'
  <2>1. ClipType' = ClipType
    BY <1>2 DEF ClipType
  <2> QED
    BY <1>1, <1>2, <1>3, <1>4, <2>1 DEF Shape, Phases
<1>7. \A u : Fresh(u)' <=> Fresh(u)
  BY <1>1, <1>2 DEF Fresh, HalfRedone, Says, Old
<1>8. SpeechKept'
  BY <1>1, <1>2, <1>3, <1>7 DEF SpeechKept, ClipsKept, PlacesKept, Speech, OnceEach, Spoken, Sorted
<1>9. VoicesKept'
  BY <1>1, <1>2, <1>5 DEF VoicesKept, MustClone, Required
<1>10. TimelineKept'
  BY <1>1, <1>3, <1>6, NothingPlaced
<1>11. phase' # "translate" /\ \A i \in Lines : lines'[i].trans = lines[i].trans
  BY <1>1, <1>3
<1> QED
  BY <1>1, <1>6, <1>8, <1>9, <1>10, <1>11, AfterTranslation

\* The threads go to work with the voices prepared.
LEMMA SubmitJobsKeeps ==
  ASSUME DubbingInv, SubmitJobs, UNCHANGED <<script, setup, cursor>>
  PROVE  DubbingInv'
<1>1. /\ Shape /\ VoicesKept /\ SpeechKept /\ phase = "voices" /\ phase' = "speak"
      /\ jobs' = [u \in DOMAIN jobs |-> [NoJob EXCEPT !.state = "queued",
                                                      !.tier = voices[script[u].speaker]]]
      /\ UNCHANGED <<lines, tr, voices, clips, spoken, raised, left>>
  BY DEF DubbingInv, SubmitJobs
<1>2. /\ Units' = Units /\ Speakers' = Speakers /\ FirstOf' = FirstOf
      /\ \A u : LinesOf(u)' = LinesOf(u) /\ Name(u)' = Name(u)
  BY UnitsStay
<1>3. ASSUME NEW u \in DOMAIN jobs
      PROVE  /\ jobs'[u].state = "queued" /\ jobs'[u] \in JobType
             /\ MustClone => jobs'[u].tier = "clone"
  <2>1. script[u].speaker \in Speakers /\ script[u].speaker \in Active
    BY <1>1, UnitsAre DEF Shape, Speakers, Active
  <2>2. voices[script[u].speaker] \in {"clone", "preset"}
    BY <1>1, <2>1 DEF SubmitJobs, Unprepared, Shape
  <2>3. jobs'[u] = [state |-> "queued", tier |-> voices[script[u].speaker], try |-> 1]
    BY <1>1 DEF NoJob
  <2>4. jobs'[u].state = "queued" /\ jobs'[u] \in JobType
    BY <2>2, <2>3, SynthesisAssumption DEF JobType, JobStates, Tiers
  <2> QED
    BY <1>1, <2>1, <2>2, <2>3, <2>4 DEF VoicesKept
<1>4. jobs' \in [DOMAIN jobs -> JobType] /\ DOMAIN jobs' = DOMAIN jobs
  <2>1. DOMAIN jobs' = DOMAIN jobs /\ jobs' = [u \in DOMAIN jobs |-> jobs'[u]]
    BY <1>1
  <2> QED
    BY <1>3, <2>1
<1>13. \A u \in DOMAIN jobs : jobs'[u].state = "queued"
  BY <1>3
<1>5. Shape'
  <2>1. ClipType' = ClipType
    BY <1>2 DEF ClipType
  <2> QED
    BY <1>1, <1>2, <1>4, <2>1 DEF Shape, Phases
<1>6. \A u : Fresh(u)' <=> Fresh(u)
  BY <1>1, <1>2 DEF Fresh, HalfRedone, Says, Old
<1>7. ClipsKept'
  BY <1>1, <1>2, <1>4, <1>6, <1>13 DEF SpeechKept, ClipsKept, Speech
<1>8. PlacesKept'
  <2>1. {u \in DOMAIN jobs : jobs[u].state # "taken"} = DOMAIN jobs
    BY <1>1 DEF SpeechKept
  <2>2. {u \in DOMAIN jobs' : jobs'[u].state # "taken"} = DOMAIN jobs
    <3>1. DOMAIN jobs' = DOMAIN jobs
      BY <1>4
    <3>2. \A u \in DOMAIN jobs' : jobs'[u].state # "taken"
      BY <3>1, <1>13
    <3> QED
      BY <3>1, <3>2
  <2>3. Spoken' = Spoken /\ OnceEach(spoken')
    <3>1. OnceEach(spoken) /\ spoken' = spoken
      BY <1>1 DEF SpeechKept, PlacesKept, Speech
    <3> QED
      BY <3>1 DEF Spoken
  <2>4. raised = "none" => Spoken = Units \ DOMAIN jobs
    BY <1>1, <2>1 DEF SpeechKept, PlacesKept, Speech
  <2> QED
    BY <1>1, <1>2, <2>2, <2>3, <2>4 DEF PlacesKept
<1>9. VoicesKept'
  BY <1>1, <1>2, <1>3, <1>4 DEF VoicesKept, MustClone, Required
<1>10. TimelineKept'
  BY <1>1, <1>5, NothingPlaced
<1>11. SpeechKept'
  BY <1>1, <1>7, <1>8 DEF SpeechKept
<1>12. phase' # "translate" /\ \A i \in Lines : lines'[i].trans = lines[i].trans
  BY <1>1
<1> QED
  BY <1>1, <1>5, <1>9, <1>10, <1>11, <1>12, AfterTranslation

\* What a thread does before its clip is there, and what its error does to the others, changes
\* no clip; while no error waits it takes no clip from the context either.
LEMMA JobsMove ==
  ASSUME DubbingInv, phase = "speak",
         UNCHANGED <<script, setup, cursor, phase, lines, tr, voices, clips, spoken>>,
         jobs' \in [DOMAIN jobs -> JobType], DOMAIN jobs' = DOMAIN jobs,
         raised' \in {"none", "paused", "failed"}, left' \in 0 .. MaxFailures,
         \A u \in DOMAIN jobs : jobs'[u].state = "ok" => jobs[u].state = "ok",
         raised' = "none" => /\ raised = "none"
                             /\ \A u \in DOMAIN jobs :
                                   jobs'[u].state = "taken" <=> jobs[u].state = "taken",
         MustClone => \A u \in DOMAIN jobs : jobs'[u].tier = "clone"
  PROVE  DubbingInv'
<1>1. Shape /\ VoicesKept /\ SpeechKept
  BY DEF DubbingInv
<1>2. /\ Units' = Units /\ Speakers' = Speakers /\ FirstOf' = FirstOf
      /\ \A u : LinesOf(u)' = LinesOf(u) /\ Name(u)' = Name(u)
  BY UnitsStay
<1>3. Shape'
  <2>1. ClipType' = ClipType
    BY <1>2 DEF ClipType
  <2> QED
    BY <1>1, <1>2, <2>1 DEF Shape
<1>4. \A u : Fresh(u)' <=> Fresh(u)
  BY <1>2 DEF Fresh, HalfRedone, Says, Old
<1>5. ClipsKept'
  BY <1>1, <1>2, <1>4 DEF SpeechKept, ClipsKept, Speech
<1>6. PlacesKept'
  BY <1>1, <1>2 DEF SpeechKept, PlacesKept, Speech, OnceEach, Spoken
<1>7. SpeechKept'
  BY <1>5, <1>6 DEF SpeechKept
<1>8. VoicesKept'
  BY <1>1, <1>2 DEF VoicesKept, MustClone, Required
<1>9. TimelineKept'
  BY <1>3, NothingPlaced
<1> QED
  BY <1>3, <1>7, <1>8, <1>9, AfterTranslation

LEMMA StartJobKeeps ==
  ASSUME DubbingInv, NEW u \in DOMAIN jobs, StartJob(u), UNCHANGED <<script, setup, cursor>>
  PROVE  DubbingInv'
<1>1. Shape /\ VoicesKept
  BY DEF DubbingInv
<1>2. /\ phase = "speak" /\ jobs[u].state = "queued"
      /\ jobs' = [jobs EXCEPT ![u].state = "running"]
      /\ UNCHANGED <<phase, lines, tr, voices, clips, spoken, raised, left>>
  BY DEF StartJob, In
<1>3. jobs' \in [DOMAIN jobs -> JobType] /\ DOMAIN jobs' = DOMAIN jobs
  BY <1>1, <1>2, StandingSpeech DEF JobType, JobStates
<1>4. \A v \in DOMAIN jobs :
         /\ jobs'[v].state = "ok" => jobs[v].state = "ok"
         /\ jobs'[v].state = "taken" <=> jobs[v].state = "taken"
         /\ jobs'[v].tier = jobs[v].tier
  BY <1>1, <1>2, StandingSpeech DEF JobType
<1>5. raised' \in {"none", "paused", "failed"} /\ left' \in 0 .. MaxFailures
  BY <1>1, <1>2 DEF Shape
<1>6. MustClone => \A v \in DOMAIN jobs : jobs'[v].tier = "clone"
  BY <1>1, <1>4 DEF VoicesKept
<1> QED
  BY <1>2, <1>3, <1>4, <1>5, <1>6, JobsMove

LEMMA CallFailsKeeps ==
  ASSUME DubbingInv, NEW u \in DOMAIN jobs, NEW kind \in Errors, CallFails(u, kind),
         UNCHANGED <<script, setup, cursor>>
  PROVE  DubbingInv'
<1>1. /\ Shape /\ VoicesKept /\ phase = "speak" /\ jobs[u].state = "running"
      /\ left \in 0 .. MaxFailures /\ left > 0 /\ left' = left - 1
      /\ UNCHANGED <<phase, lines, tr, voices, clips, spoken, raised>>
  BY DEF DubbingInv, CallFails, In, Shape
<1>2. /\ jobs \in [DOMAIN jobs -> JobType]
      /\ jobs[u] \in JobType /\ jobs[u].try \in 1 .. TtsRetries
  BY <1>1, StandingSpeech DEF JobType
<1>3. \/ jobs' = [jobs EXCEPT ![u].state = "failed"]
      \/ jobs' = [jobs EXCEPT ![u].state = "paused"]
      \/ /\ jobs' = [jobs EXCEPT ![u].tier = "preset", ![u].try = 1]
         /\ ~Required
      \/ /\ jobs' = [jobs EXCEPT ![u].tier = "legacy", ![u].try = 1]
         /\ jobs[u].tier = "preset"
      \/ /\ jobs' = [jobs EXCEPT ![u].try = @ + 1]
         /\ jobs[u].try < TtsRetries
  BY DEF CallFails, State, Tier, GivesUp
<1>4. /\ jobs' \in [DOMAIN jobs -> JobType] /\ DOMAIN jobs' = DOMAIN jobs
      /\ \A v \in DOMAIN jobs : v # u => jobs'[v] = jobs[v]
      /\ jobs'[u].state \notin {"ok", "taken"}
      /\ jobs'[u].tier # jobs[u].tier => ~Required \/ jobs[u].tier = "preset"
  <2>1. CASE jobs' = [jobs EXCEPT ![u].state = "failed"]
    BY <1>2, <2>1 DEF JobType, JobStates
  <2>2. CASE jobs' = [jobs EXCEPT ![u].state = "paused"]
    BY <1>2, <2>2 DEF JobType, JobStates
  <2>3. CASE jobs' = [jobs EXCEPT ![u].tier = "preset", ![u].try = 1] /\ ~Required
    BY <1>1, <1>2, <2>3, SynthesisAssumption DEF JobType, JobStates, Tiers
  <2>4. CASE jobs' = [jobs EXCEPT ![u].tier = "legacy", ![u].try = 1] /\ jobs[u].tier = "preset"
    BY <1>1, <1>2, <2>4, SynthesisAssumption DEF JobType, JobStates, Tiers
  <2>5. CASE jobs' = [jobs EXCEPT ![u].try = @ + 1] /\ jobs[u].try < TtsRetries
    <3>1. jobs[u].try + 1 \in 1 .. TtsRetries
      BY <1>2, <2>5, SynthesisAssumption
    <3> QED
      BY <1>1, <1>2, <2>5, <3>1 DEF JobType, JobStates
  <2> QED
    BY <1>3, <2>1, <2>2, <2>3, <2>4, <2>5
<1>5. MustClone => \A v \in DOMAIN jobs : jobs'[v].tier = "clone"
  <2> SUFFICES ASSUME MustClone, NEW v \in DOMAIN jobs PROVE jobs'[v].tier = "clone"
    OBVIOUS
  <2>1. Required /\ jobs[v].tier = "clone" /\ jobs[u].tier = "clone"
    BY <1>1 DEF MustClone, VoicesKept
  <2> QED
    BY <1>4, <2>1
<1>6. \A v \in DOMAIN jobs :
         /\ jobs'[v].state = "ok" => jobs[v].state = "ok"
         /\ jobs'[v].state = "taken" <=> jobs[v].state = "taken"
  BY <1>1, <1>4
<1>7. raised' \in {"none", "paused", "failed"} /\ left' \in 0 .. MaxFailures
  BY <1>1, SynthesisAssumption DEF Shape
<1>8. UNCHANGED <<phase, lines, tr, voices, clips, spoken, raised>>
  BY <1>1
<1> QED
  BY <1>1, <1>4, <1>5, <1>6, <1>7, <1>8, JobsMove

LEMMA JobRaisesKeeps ==
  ASSUME DubbingInv, NEW u \in DOMAIN jobs, JobRaises(u), UNCHANGED <<script, setup, cursor>>
  PROVE  DubbingInv'
<1>1. /\ Shape /\ VoicesKept /\ phase = "speak" /\ jobs[u].state \in {"paused", "failed"}
      /\ raised' = jobs[u].state
      /\ jobs' = [v \in DOMAIN jobs |->
            IF v = u THEN [jobs[v] EXCEPT !.state = "taken"]
            ELSE IF jobs[u].state = "paused" /\ jobs[v].state = "queued"
            THEN [jobs[v] EXCEPT !.state = "cancelled"] ELSE jobs[v]]
      /\ UNCHANGED <<phase, lines, tr, voices, clips, spoken, left>>
  BY DEF DubbingInv, JobRaises, In
<1>2. ASSUME NEW v \in DOMAIN jobs
      PROVE  /\ jobs'[v] \in JobType /\ jobs'[v].tier = jobs[v].tier
             /\ jobs'[v].state = "ok" => jobs[v].state = "ok"
  <2>1. jobs[v] \in JobType
    BY <1>1, StandingSpeech
  <2>2. \/ jobs'[v] = [jobs[v] EXCEPT !.state = "taken"]
        \/ jobs'[v] = [jobs[v] EXCEPT !.state = "cancelled"]
        \/ jobs'[v] = jobs[v]
    BY <1>1
  <2> QED
    BY <2>1, <2>2 DEF JobType, JobStates
<1>3. jobs' \in [DOMAIN jobs -> JobType] /\ DOMAIN jobs' = DOMAIN jobs
  <2>1. DOMAIN jobs' = DOMAIN jobs /\ jobs' = [v \in DOMAIN jobs |-> jobs'[v]]
    BY <1>1
  <2> QED
    BY <1>2, <2>1
<1>4. raised' \in {"none", "paused", "failed"} /\ raised' # "none" /\ left' \in 0 .. MaxFailures
  BY <1>1 DEF Shape
<1>5. MustClone => \A v \in DOMAIN jobs : jobs'[v].tier = "clone"
  BY <1>1, <1>2 DEF VoicesKept
<1>6. \A v \in DOMAIN jobs : jobs'[v].state = "ok" => jobs[v].state = "ok"
  BY <1>2
<1> QED
  BY <1>1, <1>3, <1>4, <1>5, <1>6, JobsMove

\* A clip that is just spoken says what its lines say, and takes nothing from another unit.
LEMMA SpeakKeeps ==
  ASSUME DubbingInv, NEW u \in DOMAIN jobs, Speak(u), UNCHANGED <<script, setup, cursor>>
  PROVE  DubbingInv'
<1>1. /\ Shape /\ VoicesKept /\ SpeechKept /\ phase = "speak" /\ jobs[u].state = "running"
      /\ jobs' = [jobs EXCEPT ![u].state = "ok"]
      /\ UNCHANGED <<phase, tr, voices, spoken, raised, left>>
  BY DEF DubbingInv, Speak, In
<1>2. /\ Units' = Units /\ Speakers' = Speakers /\ FirstOf' = FirstOf
      /\ \A v : LinesOf(v)' = LinesOf(v) /\ Name(v)' = Name(v)
  BY UnitsStay
<1>3. /\ jobs \in [DOMAIN jobs -> JobType] /\ jobs[u] \in JobType
      /\ DOMAIN jobs \subseteq Units /\ u \in Units
      /\ lines \in [Lines -> [trans : 0 .. 2 * NLines, url : UnitName]]
  BY <1>1, StandingSpeech
<1>4. Name(u) \in UnitName /\ Name(u)[1] = u
  BY <1>3, NamesAre
<1>5. PICK length \in Durations :
        clips' = [n \in DOMAIN clips \cup {Name(u)} |->
              IF n = Name(u) THEN [says |-> Says(u), length |-> length] ELSE clips[n]]
  BY DEF Speak
<1>6. /\ DOMAIN clips' = DOMAIN clips \cup {Name(u)}
      /\ clips'[Name(u)] = [says |-> Says(u), length |-> length]
      /\ \A n \in DOMAIN clips : n # Name(u) => clips'[n] = clips[n]
  BY <1>5
<1>7. \A i \in Lines :
         lines'[i] = IF i \in LinesOf(u) THEN [lines[i] EXCEPT !.url = Name(u)] ELSE lines[i]
  BY DEF Speak
<1>8. \A i \in Lines : lines'[i] \in [trans : 0 .. 2 * NLines, url : UnitName]
                      /\ lines'[i].trans = lines[i].trans
  <2> SUFFICES ASSUME NEW i \in Lines
               PROVE  /\ lines'[i] \in [trans : 0 .. 2 * NLines, url : UnitName]
                      /\ lines'[i].trans = lines[i].trans
    OBVIOUS
  <2>1. lines[i] \in [trans : 0 .. 2 * NLines, url : UnitName]
    BY <1>3
  <2>2. lines'[i] = [lines[i] EXCEPT !.url = Name(u)] \/ lines'[i] = lines[i]
    BY <1>7
  <2> QED
    BY <1>4, <2>1, <2>2
<1>9. lines' \in [Lines -> [trans : 0 .. 2 * NLines, url : UnitName]]
  <2>1. lines' = [i \in Lines |-> lines'[i]]
    BY DEF Speak
  <2> QED
    BY <1>8, <2>1
<1>10. /\ jobs' \in [DOMAIN jobs -> JobType] /\ DOMAIN jobs' = DOMAIN jobs
       /\ jobs'[u].state = "ok" /\ jobs'[u].tier = jobs[u].tier
       /\ \A v \in DOMAIN jobs : v # u => jobs'[v] = jobs[v]
  BY <1>1, <1>3 DEF JobType, JobStates
<1>11. Shape'
  <2>1. ClipType' = ClipType
    BY <1>2 DEF ClipType
  <2>2. DOMAIN clips' \subseteq UnitName
    BY <1>1, <1>4, <1>6 DEF Shape
  <2>3. \A n \in DOMAIN clips' : clips'[n].length \in Durations
    BY <1>1, <1>6 DEF Shape
  <2> QED
    BY <1>1, <1>2, <1>9, <1>10, <2>1, <2>2, <2>3 DEF Shape
<1>12. Says(u)' = Says(u)
  <2>1. LinesOf(u) \subseteq Lines
    BY <1>3, UnitsAre
  <2> QED
    BY <1>2, <1>8, <2>1 DEF Says
<1>13. Fresh(u)'
  BY <1>2, <1>6, <1>12 DEF Fresh
<1>14. ASSUME NEW v \in Units, Fresh(v) PROVE Fresh(v)'
  <2>1. CASE v = u
    BY <1>13, <2>1
  <2>2. CASE v # u
    <3>1. Name(v) # Name(u)
      BY <1>4, <2>2, NamesAre
    <3>2. Name(v) \in DOMAIN clips
      BY <1>14 DEF Fresh
    <3>3. Name(v) \in DOMAIN clips' /\ clips'[Name(v)] = clips[Name(v)]
      BY <1>6, <3>1, <3>2
    <3> QED
      BY <1>8, <1>14, <3>3, FreshStays
  <2> QED
    BY <2>1, <2>2
<1>15. ClipsKept /\ PlacesKept
  BY <1>1 DEF SpeechKept, Speech
<1>16. ClipsKept'
  <2>1. \A k \in DOMAIN spoken : spoken[k].unit \in Units
    BY <1>1, StandingSpeech DEF ClipType
  <2>2. \A v \in DOMAIN jobs : v \in Units /\ (jobs'[v].state = "ok" => v = u \/ jobs[v].state = "ok")
    BY <1>3, <1>10
  <2> QED
    BY <1>1, <1>2, <1>10, <1>13, <1>14, <1>15, <2>1, <2>2 DEF ClipsKept
<1>17. PlacesKept'
  <2>1. \A v \in DOMAIN jobs : jobs'[v].state = "taken" <=> jobs[v].state = "taken"
    BY <1>1, <1>10
  <2> QED
    BY <1>1, <1>2, <1>10, <1>15, <2>1 DEF PlacesKept, OnceEach, Spoken
<1>18. SpeechKept'
  BY <1>1, <1>16, <1>17 DEF SpeechKept
<1>19. VoicesKept'
  <2>1. \A v \in DOMAIN jobs : jobs'[v].tier = jobs[v].tier
    BY <1>10
  <2> QED
    BY <1>1, <1>2, <1>10, <2>1 DEF VoicesKept, MustClone, Required
<1>20. TimelineKept'
  BY <1>1, <1>11, NothingPlaced
<1>21. phase' # "translate" /\ \A i \in Lines : lines'[i].trans = lines[i].trans
  BY <1>1, <1>8
<1> QED
  BY <1>1, <1>11, <1>18, <1>19, <1>20, <1>21, AfterTranslation

\* The clip of a thread that finished joins the context, whose clips are of other units.
LEMMA CollectKeeps ==
  ASSUME DubbingInv, NEW u \in DOMAIN jobs, Collect(u), UNCHANGED <<script, setup, cursor>>
  PROVE  DubbingInv'
<1> DEFINE n == Len(spoken)
           c == Clip(u, Name(u), jobs[u].tier)
<1>1. /\ Shape /\ VoicesKept /\ SpeechKept /\ phase = "speak" /\ raised = "none"
      /\ jobs[u].state = "ok"
      /\ spoken' = Append(spoken, c)
      /\ jobs' = [jobs EXCEPT ![u].state = "taken"]
      /\ UNCHANGED <<phase, lines, tr, voices, clips, raised, left>>
  BY DEF DubbingInv, Collect, In, State
<1>2. /\ Units' = Units /\ Speakers' = Speakers /\ FirstOf' = FirstOf
      /\ \A v : LinesOf(v)' = LinesOf(v) /\ Name(v)' = Name(v)
  BY UnitsStay
<1>3. /\ jobs \in [DOMAIN jobs -> JobType] /\ jobs[u] \in JobType
      /\ DOMAIN jobs \subseteq Units /\ u \in Units
      /\ n \in Nat /\ DOMAIN spoken = 1 .. n /\ spoken \in Seq(ClipType)
      /\ \A k \in 1 .. n : spoken[k] \in ClipType
  BY <1>1, StandingSpeech DEF Shape
<1>4. ClipsKept /\ PlacesKept
  BY <1>1 DEF SpeechKept, Speech
<1>5. Fresh(u) /\ Name(u) \in UnitName /\ u \in Lines
  BY <1>1, <1>3, <1>4, NamesAre, UnitsAre DEF ClipsKept
<1>6. /\ c \in ClipType /\ c.unit = u /\ c.name = Name(u) /\ c.mode = jobs[u].tier
  <2>1. clips[Name(u)].length \in Nat
    BY <1>1, <1>5, SynthesisAssumption DEF Fresh, Shape
  <2>2. jobs[u].tier \in Tiers
    BY <1>3 DEF JobType
  <2> QED
    BY <1>3, <1>5, <2>1, <2>2 DEF ClipType, Clip
<1> HIDE DEF c
<1>7. /\ spoken' \in Seq(ClipType) /\ Len(spoken') = n + 1 /\ DOMAIN spoken' = 1 .. (n + 1)
      /\ spoken'[n + 1] = c
      /\ \A k \in 1 .. n : spoken'[k] = spoken[k]
  BY <1>1, <1>3, <1>6, AppendProperties
<1>8. /\ jobs' \in [DOMAIN jobs -> JobType] /\ DOMAIN jobs' = DOMAIN jobs
      /\ jobs'[u].state = "taken" /\ jobs'[u].tier = jobs[u].tier
      /\ \A v \in DOMAIN jobs : v # u => jobs'[v] = jobs[v]
  BY <1>1, <1>3 DEF JobType, JobStates
<1>9. Shape'
  <2>1. ClipType' = ClipType
    BY <1>2 DEF ClipType
  <2> QED
    BY <1>1, <1>2, <1>7, <1>8, <2>1 DEF Shape
<1>10. \A v : Fresh(v)' <=> Fresh(v)
  BY <1>1, <1>2 DEF Fresh, HalfRedone, Says, Old
<1>11. ASSUME NEW k \in 1 .. (n + 1)
       PROVE  \/ k \in 1 .. n /\ spoken'[k] = spoken[k]
              \/ k = n + 1 /\ spoken'[k] = c
  BY <1>3, <1>7
<1>12. ClipsKept'
  <2>1. \A k \in DOMAIN spoken' :
           spoken'[k].name = Name(spoken'[k].unit) /\ Fresh(spoken'[k].unit)
    BY <1>3, <1>4, <1>5, <1>6, <1>7, <1>11 DEF ClipsKept
  <2>2. \A v \in DOMAIN jobs : jobs'[v].state = "ok" => jobs[v].state = "ok"
    BY <1>8
  <2> QED
    BY <1>2, <1>4, <1>8, <1>10, <2>1, <2>2 DEF ClipsKept
<1>13. u \notin Spoken
  BY <1>1, <1>4 DEF PlacesKept
<1>14. \A k \in 1 .. n : spoken[k].unit # u /\ spoken[k].unit \in Lines
  BY <1>3, <1>4, <1>13 DEF Spoken, PlacesKept, OnceEach
<1>15. OnceEach(spoken')
  <2>1. \A k \in 1 .. (n + 1) : spoken'[k].unit \in Lines
    BY <1>5, <1>6, <1>11, <1>14
  <2>2. ASSUME NEW j \in 1 .. (n + 1), NEW k \in 1 .. (n + 1), spoken'[j].unit = spoken'[k].unit
        PROVE  j = k
    BY <1>3, <1>4, <1>6, <1>11, <1>14, <2>2 DEF PlacesKept, OnceEach
  <2> QED
    BY <1>7, <2>1, <2>2 DEF OnceEach
<1>16. Spoken' = Spoken \cup {u}
  <2>1. ASSUME NEW v \in Spoken' PROVE v \in Spoken \cup {u}
    BY <1>3, <1>6, <1>7, <1>11 DEF Spoken
  <2>2. ASSUME NEW v \in Spoken PROVE v \in Spoken'
    BY <1>3, <1>7 DEF Spoken
  <2>3. u \in Spoken'
    BY <1>3, <1>6, <1>7 DEF Spoken
  <2> QED
    BY <2>1, <2>2, <2>3
<1>17. PlacesKept'
  <2>1. Spoken = Units \ {v \in DOMAIN jobs : jobs[v].state # "taken"}
    BY <1>1, <1>4 DEF PlacesKept
  <2>2. {v \in DOMAIN jobs' : jobs'[v].state # "taken"}
        = {v \in DOMAIN jobs : jobs[v].state # "taken"} \ {u}
    BY <1>8
  <2>3. Spoken' = Units \ {v \in DOMAIN jobs' : jobs'[v].state # "taken"}
    BY <1>3, <1>16, <2>1, <2>2
  <2> QED
    BY <1>1, <1>2, <1>15, <2>3 DEF PlacesKept
<1>18. SpeechKept'
  BY <1>1, <1>12, <1>17 DEF SpeechKept
<1>19. VoicesKept'
  <2>1. \A v \in DOMAIN jobs : jobs'[v].tier = jobs[v].tier
    BY <1>8
  <2>2. MustClone => \A k \in 1 .. (n + 1) : spoken'[k].mode \in {"clone", "reused"}
    BY <1>1, <1>3, <1>6, <1>11 DEF VoicesKept
  <2> QED
    BY <1>1, <1>2, <1>7, <1>8, <2>1, <2>2 DEF VoicesKept, MustClone, Required
<1>20. TimelineKept'
  BY <1>1, <1>9, NothingPlaced
<1>21. phase' # "translate" /\ \A i \in Lines : lines'[i].trans = lines[i].trans
  BY <1>1
<1> QED
  BY <1>1, <1>9, <1>18, <1>19, <1>20, <1>21, AfterTranslation

LEMMA SpeakingStopsKeeps ==
  ASSUME DubbingInv, SpeakingStops, UNCHANGED <<script, setup, cursor>>
  PROVE  DubbingInv'
<1>1. /\ Shape /\ VoicesKept /\ phase = "speak" /\ phase' \in {"paused", "failed"}
      /\ UNCHANGED <<lines, tr, voices, jobs, clips, spoken, raised, left>>
  BY DEF DubbingInv, SpeakingStops, Ends, Shape
<1>2. Units' = Units /\ Speakers' = Speakers
  BY UnitsStay
<1>3. Shape'
  <2>1. ClipType' = ClipType
    BY <1>2 DEF ClipType
  <2> QED
    BY <1>1, <1>2, <2>1 DEF Shape, Phases
<1>4. SpeechKept'
  BY <1>1 DEF SpeechKept, Speech
<1>5. VoicesKept'
  BY <1>1, <1>2 DEF VoicesKept, MustClone, Required
<1>6. TimelineKept'
  BY <1>1, <1>3, NothingPlaced
<1>7. phase' # "translate" /\ \A i \in Lines : lines'[i].trans = lines[i].trans
  BY <1>1
<1> QED
  BY <1>1, <1>3, <1>4, <1>5, <1>6, <1>7, AfterTranslation

\* When every thread's clip is taken, the context has one of every unit; they are put in order.
LEMMA SpeakingEndsKeeps ==
  ASSUME DubbingInv, SpeakingEnds, UNCHANGED <<script, setup, cursor>>
  PROVE  DubbingInv'
<1> DEFINE n == Len(spoken)
<1>1. /\ Shape /\ VoicesKept /\ SpeechKept /\ phase = "speak" /\ phase' = "align"
      /\ raised = "none" /\ \A u \in DOMAIN jobs : jobs[u].state = "taken"
      /\ spoken' = InOrder
      /\ UNCHANGED <<lines, tr, voices, jobs, clips, raised, left>>
  BY DEF DubbingInv, SpeakingEnds
<1>2. /\ Units' = Units /\ Speakers' = Speakers /\ FirstOf' = FirstOf
      /\ \A v : LinesOf(v)' = LinesOf(v) /\ Name(v)' = Name(v)
  BY UnitsStay
<1>3. /\ n \in Nat /\ DOMAIN spoken = 1 .. n /\ \A k \in 1 .. n : spoken[k] \in ClipType
  BY <1>1, StandingSpeech
<1>4. ClipsKept /\ PlacesKept
  BY <1>1 DEF SpeechKept, Speech
<1>5. PICK order \in Bijection(1 .. n, 1 .. n) :
         /\ spoken' = [k \in 1 .. n |-> spoken[order[k]]]
         /\ \A j, k \in 1 .. n : j < k => spoken[order[j]].unit < spoken[order[k]].unit
  BY <1>1, <1>3, <1>4, InOrderIs DEF PlacesKept
<1>6. /\ \A k \in 1 .. n : order[k] \in 1 .. n
      /\ \A m \in 1 .. n : \E k \in 1 .. n : order[k] = m
      /\ \A j, k \in 1 .. n : order[j] = order[k] => j = k
  BY DEF Bijection, Injection, Surjection, IsInjective
<1>7. DOMAIN spoken' = 1 .. n /\ \A k \in 1 .. n : spoken'[k] = spoken[order[k]]
  BY <1>5
<1>8. spoken' \in Seq(ClipType)
  <2>1. spoken' \in [1 .. n -> ClipType]
    BY <1>3, <1>5, <1>6
  <2> QED
    BY <1>3, <2>1
<1>9. Shape'
  <2>1. ClipType' = ClipType
    BY <1>2 DEF ClipType
  <2> QED
    BY <1>1, <1>2, <1>8, <2>1 DEF Shape, Phases
<1>10. \A v : Fresh(v)' <=> Fresh(v)
  BY <1>1, <1>2 DEF Fresh, HalfRedone, Says, Old
<1>11. ClipsKept'
  <2>1. \A k \in 1 .. n : spoken[k].name = Name(spoken[k].unit) /\ Fresh(spoken[k].unit)
    BY <1>3, <1>4 DEF ClipsKept
  <2>2. \A k \in 1 .. n : spoken'[k].name = Name(spoken'[k].unit) /\ Fresh(spoken'[k].unit)
    <3> SUFFICES ASSUME NEW k \in 1 .. n
                 PROVE  spoken'[k].name = Name(spoken'[k].unit) /\ Fresh(spoken'[k].unit)
      OBVIOUS
    <3>1. order[k] \in 1 .. n /\ spoken'[k] = spoken[order[k]]
      BY <1>6, <1>7
    <3> QED
      BY <2>1, <3>1
  <2>3. \A u \in DOMAIN jobs : jobs'[u].state # "ok"
    BY <1>1
  <2> QED
    BY <1>1, <1>2, <1>7, <1>10, <2>2, <2>3 DEF ClipsKept
<1>12. Spoken' = Spoken
  <2>1. ASSUME NEW v \in Spoken' PROVE v \in Spoken
    BY <1>3, <1>6, <1>7 DEF Spoken
  <2>2. ASSUME NEW v \in Spoken PROVE v \in Spoken'
    <3>1. PICK m \in 1 .. n : v = spoken[m].unit
      BY <1>3 DEF Spoken
    <3>2. PICK k \in 1 .. n : order[k] = m
      BY <1>6
    <3>3. v = spoken'[k].unit
      BY <1>7, <3>1, <3>2
    <3> QED
      BY <1>7, <3>3 DEF Spoken
  <2> QED
    BY <2>1, <2>2
<1>13. PlacesKept'
  <2>1. Spoken = Units
    BY <1>1, <1>4 DEF PlacesKept
  <2>2. Sorted(spoken')
    BY <1>5, <1>7 DEF Sorted
  <2>3. \A k \in 1 .. n : spoken'[k].unit \in Lines
    BY <1>3, <1>4, <1>6, <1>7 DEF PlacesKept, OnceEach
  <2>4. ASSUME NEW j \in 1 .. n, NEW k \in 1 .. n, spoken'[j].unit = spoken'[k].unit PROVE j = k
    <3>1. order[j] \in 1 .. n /\ order[k] \in 1 .. n
          /\ spoken'[j] = spoken[order[j]] /\ spoken'[k] = spoken[order[k]]
      BY <1>6, <1>7
    <3>2. order[j] = order[k]
      BY <1>3, <1>4, <2>4, <3>1 DEF PlacesKept, OnceEach
    <3> QED
      BY <1>6, <3>2
  <2>5. OnceEach(spoken')
    BY <1>7, <2>3, <2>4 DEF OnceEach
  <2> QED
    BY <1>1, <1>2, <1>12, <2>1, <2>2, <2>5 DEF PlacesKept
<1>14. SpeechKept'
  BY <1>1, <1>11, <1>13 DEF SpeechKept
<1>15. VoicesKept'
  <2>1. MustClone => \A k \in DOMAIN spoken' : spoken'[k].mode \in {"clone", "reused"}
    <3> SUFFICES ASSUME MustClone, NEW k \in 1 .. n PROVE spoken'[k].mode \in {"clone", "reused"}
      BY <1>7
    <3>1. order[k] \in 1 .. n /\ spoken'[k] = spoken[order[k]]
      BY <1>6, <1>7
    <3> QED
      BY <1>1, <1>3, <3>1 DEF VoicesKept
  <2> QED
    BY <1>1, <1>2, <2>1 DEF VoicesKept, MustClone, Required
<1>16. TimelineKept'
  BY <1>1, <1>9, NothingPlaced
<1>17. phase' # "translate" /\ \A i \in Lines : lines'[i].trans = lines[i].trans
  BY <1>1
<1> QED
  BY <1>1, <1>9, <1>14, <1>15, <1>16, <1>17, AfterTranslation

LEMMA SynthesisKeeps ==
  ASSUME DubbingInv, SynthesisStep, UNCHANGED <<script, setup, cursor>>
  PROVE  DubbingInv'
BY ReuseKeeps, SubmitJobsKeeps, SpeakingStopsKeeps, SpeakingEndsKeeps, PrepareVoiceKeeps,
   StartJobKeeps, SpeakKeeps, CollectKeeps, JobRaisesKeeps, CallFailsKeeps
   DEF SynthesisStep

-----------------------------------------------------------------------------
(* Alignment.                                                              *)

\* Times are numbers, and a line lasts.
LEMMA TimesAre ==
  ASSUME Shape, NEW c \in ClipType
  PROVE  /\ c.unit \in Units /\ c.length \in Nat /\ c.at \in Nat
         /\ OrigStart(c) \in Nat /\ OrigLength(c) \in Nat
<1>1. c.unit \in Units /\ c.length \in Nat /\ c.at \in Nat
  BY DEF ClipType
<1>2. script \in Scripts /\ c.unit \in Lines
  BY <1>1, UnitsAre DEF Shape
<1>3. /\ script[c.unit].start \in Nat /\ script[c.unit].end \in Nat
      /\ script[c.unit].start < script[c.unit].end
  BY <1>2, SynthesisAssumption
<1> QED
  BY <1>1, <1>3 DEF OrigStart, OrigLength

\* A clip is placed behind the one before it, and changes in nothing else but its length.
LEMMA PlacedIs ==
  ASSUME Shape, NEW c \in ClipType
  PROVE  /\ Placed(c) \in ClipType
         /\ Placed(c).unit = c.unit /\ Placed(c).name = c.name /\ Placed(c).mode = c.mode
         /\ Placed(c).at = Later(OrigStart(c), cursor.end)
         /\ Placed(c).at >= OrigStart(c) /\ Placed(c).at >= cursor.end
         /\ Squeezed(c) => Placed(c).length = OrigLength(c)
         /\ ~Squeezed(c) => Placed(c).length = c.length
         /\ ~Squeezed(Placed(c))
         /\ OrigStart(Placed(c)) = OrigStart(c) /\ OrigLength(Placed(c)) = OrigLength(c)
         /\ Placed(c).at + Placed(c).length \in Nat
<1>1. /\ c.length \in Nat /\ c.at \in Nat /\ OrigStart(c) \in Nat /\ OrigLength(c) \in Nat
      /\ cursor.end \in Nat
  BY TimesAre DEF Shape
<1>2. /\ Later(OrigStart(c), cursor.end) \in Nat
      /\ Later(OrigStart(c), cursor.end) >= OrigStart(c)
      /\ Later(OrigStart(c), cursor.end) >= cursor.end
  BY <1>1 DEF Later
<1> DEFINE at == Later(OrigStart(c), cursor.end)
           length == IF Squeezed(c) THEN OrigLength(c) ELSE c.length
<1>3. Placed(c) = [c EXCEPT !.at = at, !.length = length]
  BY DEF Placed
<1>4. length \in Nat
  BY <1>1
<1> HIDE DEF at, length
<1>5. /\ Placed(c) \in ClipType
      /\ Placed(c).unit = c.unit /\ Placed(c).name = c.name /\ Placed(c).mode = c.mode
      /\ Placed(c).at = at /\ Placed(c).length = length
  BY <1>2, <1>3, <1>4 DEF ClipType, at
<1>6. OrigStart(Placed(c)) = OrigStart(c) /\ OrigLength(Placed(c)) = OrigLength(c)
  BY <1>5 DEF OrigStart, OrigLength
<1>7. ~Squeezed(Placed(c))
  <2>1. CASE Squeezed(c)
    BY <1>1, <1>5, <1>6, <2>1 DEF Squeezed, length
  <2>2. CASE ~Squeezed(c)
    BY <1>1, <1>5, <1>6, <2>2 DEF Squeezed, length
  <2> QED
    BY <2>1, <2>2
<1> QED
  BY <1>2, <1>4, <1>5, <1>6, <1>7 DEF at, length

\* Placing a clip keeps the others where they are.
LEMMA AlignClipIs ==
  ASSUME Shape, AlignClip
  PROVE  LET n == Len(spoken) k == cursor.placed + 1 IN
         /\ n \in Nat /\ k \in 1 .. n /\ spoken[k] \in ClipType
         /\ spoken' \in Seq(ClipType) /\ Len(spoken') = n
         /\ DOMAIN spoken = 1 .. n /\ DOMAIN spoken' = 1 .. n
         /\ spoken'[k] = Placed(spoken[k])
         /\ \A j \in 1 .. n : j # k => spoken'[j] = spoken[j]
         /\ cursor'.placed = k /\ cursor'.end = spoken'[k].at + spoken'[k].length
         /\ cursor' \in [placed : Nat, end : Nat]
<1> DEFINE n == Len(spoken)
           k == cursor.placed + 1
<1>1. /\ n \in Nat /\ DOMAIN spoken = 1 .. n /\ spoken \in Seq(ClipType)
      /\ k \in 1 .. n /\ k \in Nat /\ \A j \in 1 .. n : spoken[j] \in ClipType
  BY StandingSpeech DEF Shape, AlignClip
<1>2. spoken' = [spoken EXCEPT ![k] = Placed(spoken[k])]
  BY DEF AlignClip
<1>3. cursor' = [placed |-> k, end |-> spoken'[k].at + spoken'[k].length]
  BY DEF AlignClip
<1> HIDE DEF n, k
<1>4. Placed(spoken[k]) \in ClipType /\ Placed(spoken[k]).at + Placed(spoken[k]).length \in Nat
  BY <1>1, PlacedIs
<1>5. /\ spoken' \in Seq(ClipType) /\ Len(spoken') = n /\ DOMAIN spoken' = 1 .. n
      /\ spoken'[k] = Placed(spoken[k])
      /\ \A j \in 1 .. n : j # k => spoken'[j] = spoken[j]
  <2>1. spoken' \in [1 .. n -> ClipType] /\ DOMAIN spoken' = 1 .. n
    BY <1>1, <1>2, <1>4
  <2>2. spoken' \in Seq(ClipType)
    BY <1>1, <2>1
  <2>3. Len(spoken') = n
    BY <1>1, <2>1, <2>2, LenProperties
  <2> QED
    BY <1>1, <1>2, <2>1, <2>2, <2>3
<1> QED
  BY <1>1, <1>3, <1>4, <1>5 DEF n, k

\* A clip is placed behind those before it, where its line did not begin later.
LEMMA AlignClipKeeps ==
  ASSUME DubbingInv, AlignClip, UNCHANGED <<script, setup>>
  PROVE  DubbingInv'
<1> DEFINE n == Len(spoken)
           k == cursor.placed + 1
           c == spoken[k]
<1>1. /\ Shape /\ VoicesKept /\ SpeechKept /\ TimelineKept /\ phase = "align"
      /\ UNCHANGED <<phase, lines, tr, voices, jobs, clips, raised, left>>
  BY DEF DubbingInv, AlignClip
<1>2. /\ n \in Nat /\ k \in 1 .. n /\ c \in ClipType
      /\ spoken' \in Seq(ClipType) /\ Len(spoken') = n
      /\ DOMAIN spoken = 1 .. n /\ DOMAIN spoken' = 1 .. n
      /\ spoken'[k] = Placed(c)
      /\ \A j \in 1 .. n : j # k => spoken'[j] = spoken[j]
      /\ cursor'.placed = k /\ cursor'.end = spoken'[k].at + spoken'[k].length
      /\ cursor' \in [placed : Nat, end : Nat]
  BY <1>1, AlignClipIs
<1>3. /\ Units' = Units /\ Speakers' = Speakers /\ FirstOf' = FirstOf
      /\ \A v : LinesOf(v)' = LinesOf(v) /\ Name(v)' = Name(v)
  BY UnitsStay
<1>4. /\ cursor.placed \in Nat /\ cursor.end \in Nat /\ \A j \in 1 .. n : spoken[j] \in ClipType
  BY <1>1, StandingSpeech DEF Shape
<1> HIDE DEF n, k, c
<1>5. /\ Placed(c).unit = c.unit /\ Placed(c).name = c.name /\ Placed(c).mode = c.mode
      /\ Placed(c).at >= OrigStart(c) /\ Placed(c).at >= cursor.end
      /\ OrigStart(Placed(c)) = OrigStart(c) /\ ~Squeezed(Placed(c))
      /\ Placed(c) \in ClipType /\ Placed(c).at \in Nat /\ Placed(c).length \in Nat
  BY <1>1, <1>2, PlacedIs, TimesAre
<1>6. \A j \in 1 .. n : /\ spoken'[j].unit = spoken[j].unit
                        /\ spoken'[j].name = spoken[j].name
                        /\ spoken'[j].mode = spoken[j].mode
  BY <1>2, <1>5 DEF c
<1>7. Shape'
  <2>1. ClipType' = ClipType
    BY <1>3 DEF ClipType
  <2> QED
    BY <1>1, <1>2, <1>3, <2>1 DEF Shape
<1>8. \A v : Fresh(v)' <=> Fresh(v)
  BY <1>1, <1>3 DEF Fresh, HalfRedone, Says, Old
<1>9. ClipsKept /\ PlacesKept
  BY <1>1 DEF SpeechKept, Speech
<1>10. ClipsKept'
  BY <1>1, <1>2, <1>3, <1>6, <1>8, <1>9 DEF ClipsKept
<1>11. PlacesKept'
  <2>1. Spoken' = Spoken
    BY <1>2, <1>6 DEF Spoken
  <2>2. OnceEach(spoken') /\ Sorted(spoken')
    BY <1>1, <1>2, <1>6, <1>9 DEF PlacesKept, OnceEach, Sorted
  <2> QED
    BY <1>1, <1>3, <1>9, <2>1, <2>2 DEF PlacesKept
<1>12. SpeechKept'
  BY <1>1, <1>10, <1>11 DEF SpeechKept
<1>13. VoicesKept'
  BY <1>1, <1>2, <1>3, <1>6 DEF VoicesKept, MustClone, Required
<1>14. TimelineKept'
  <2>1. \A j \in 1 .. cursor.placed :
           /\ j \in 1 .. n /\ j # k /\ spoken'[j] = spoken[j]
           /\ spoken[j].at >= OrigStart(spoken[j]) /\ ~Squeezed(spoken[j])
           /\ spoken[j].at \in Nat /\ spoken[j].length \in Nat
           /\ spoken[j].at + spoken[j].length <= cursor.end
    <3>1. \A j \in 1 .. cursor.placed : j \in 1 .. n /\ j # k
      BY <1>2, <1>4 DEF k
    <3> QED
      BY <1>1, <1>2, <1>4, <3>1, TimesAre DEF TimelineKept
  <2>2. cursor'.end = Placed(c).at + Placed(c).length /\ cursor'.end >= cursor.end
    BY <1>2, <1>4, <1>5
  <2>4. ASSUME NEW j \in 1 .. k
        PROVE  /\ spoken'[j].at >= OrigStart(spoken'[j])
               /\ spoken'[j].at + spoken'[j].length <= cursor'.end
               /\ ~Squeezed(spoken'[j])
    <3>1. CASE j = k
      BY <1>2, <1>5, <2>2, <3>1
    <3>2. CASE j # k
      <4>1. j \in 1 .. cursor.placed
        BY <1>4, <3>2 DEF k
      <4>2. /\ spoken'[j] = spoken[j] /\ spoken[j].at >= OrigStart(spoken[j]) /\ ~Squeezed(spoken[j])
            /\ spoken[j].at + spoken[j].length <= cursor.end
            /\ spoken[j].at + spoken[j].length \in Int
        BY <2>1, <4>1
      <4>3. cursor'.end \in Int
        BY <1>2
      <4> QED
        BY <1>4, <2>2, <4>2, <4>3
    <3> QED
      BY <3>1, <3>2
  <2>5. ASSUME NEW i \in 1 .. k, NEW j \in 1 .. k, i < j
        PROVE  spoken'[i].at + spoken'[i].length <= spoken'[j].at
    <3>1. i \in 1 .. cursor.placed
      BY <1>4, <2>5 DEF k
    <3>2. CASE j = k
      BY <1>2, <1>4, <1>5, <2>1, <3>1, <3>2
    <3>3. CASE j # k
      <4>1. j \in 1 .. cursor.placed
        BY <1>4, <3>3 DEF k
      <4> QED
        BY <1>1, <2>1, <2>5, <3>1, <4>1 DEF TimelineKept
    <3> QED
      BY <3>2, <3>3
  <2>6. cursor'.placed = k /\ k <= Len(spoken') /\ k > 0
    BY <1>2
  <2>7. \A j \in 1 .. cursor'.placed :
          /\ spoken'[j].at >= OrigStart(spoken[j])'
          /\ spoken'[j].at + spoken'[j].length <= cursor'.end
          /\ ~Squeezed(spoken[j])'
    BY <2>4, <2>6 DEF Squeezed, OrigStart, OrigLength
  <2> QED
    BY <1>1, <1>2, <2>5, <2>6, <2>7 DEF TimelineKept
<1>15. phase' # "translate" /\ \A i \in Lines : lines'[i].trans = lines[i].trans
  BY <1>1
<1> QED
  BY <1>1, <1>7, <1>12, <1>13, <1>14, <1>15, AfterTranslation

LEMMA AlignmentEndsKeeps ==
  ASSUME DubbingInv, AlignmentEnds, UNCHANGED <<script, setup>>
  PROVE  DubbingInv'
<1>1. /\ Shape /\ VoicesKept /\ SpeechKept /\ TimelineKept /\ phase = "align" /\ phase' = "done"
      /\ cursor.placed = Len(spoken)
      /\ UNCHANGED <<lines, tr, voices, jobs, clips, spoken, raised, left, cursor>>
  BY DEF DubbingInv, AlignmentEnds, Ends
<1>2. /\ Units' = Units /\ Speakers' = Speakers /\ FirstOf' = FirstOf
      /\ \A v : LinesOf(v)' = LinesOf(v) /\ Name(v)' = Name(v)
  BY UnitsStay
<1>3. Shape'
  <2>1. ClipType' = ClipType
    BY <1>2 DEF ClipType
  <2> QED
    BY <1>1, <1>2, <2>1 DEF Shape, Phases
<1>4. \A v : Fresh(v)' <=> Fresh(v)
  BY <1>1, <1>2 DEF Fresh, HalfRedone, Says, Old
<1>5. SpeechKept'
  BY <1>1, <1>2, <1>4 DEF SpeechKept, ClipsKept, PlacesKept, Speech, OnceEach, Spoken, Sorted
<1>6. VoicesKept'
  BY <1>1, <1>2 DEF VoicesKept, MustClone, Required
<1>7. TimelineKept'
  BY <1>1 DEF TimelineKept, OrigStart, OrigLength, Squeezed
<1>8. phase' # "translate" /\ \A i \in Lines : lines'[i].trans = lines[i].trans
  BY <1>1
<1> QED
  BY <1>1, <1>3, <1>5, <1>6, <1>7, <1>8, AfterTranslation

-----------------------------------------------------------------------------
(* Dubbing.                                                                *)

\* What an earlier run left is a place to begin: it says of a line what was said of it before,
\* or nothing.
LEMMA InitIs == Init => DubbingInv
<1> SUFFICES ASSUME Init PROVE DubbingInv
  OBVIOUS
<1>1. PICK redone \in Redone, made \in Made : made \subseteq Units /\ Before(redone, made)
  BY DEF Init
<1>2. /\ script \in Scripts /\ setup \in Setups /\ phase = "translate" /\ tr = NoBatch(0, FALSE)
      /\ voices = [s \in Speakers |-> "none"]
      /\ jobs = << >> /\ spoken = << >> /\ raised = "none" /\ left = MaxFailures
      /\ cursor = [placed |-> 0, end |-> 0]
  BY DEF Init
<1>3. PICK length \in Durations :
        clips = [n \in {Name(u) : u \in made} |->
                   [says |-> [i \in LinesOf(n[1]) |-> Old(i)], length |-> length]]
  BY <1>1 DEF Before
<1>4. \A i \in Lines :
         \/ lines[i].trans = None /\ lines[i].url = NoUnit
            /\ lines[i] = [trans |-> None, url |-> NoUnit]
         \/ lines[i].trans = Old(i) /\ lines[i].url = Name(FirstOf[i])
            /\ lines[i] = [trans |-> Old(i), url |-> Name(FirstOf[i])]
         \/ lines[i].trans = Old(i) /\ lines[i].url = NoUnit
            /\ lines[i] = [trans |-> Old(i), url |-> NoUnit]
  <2> SUFFICES ASSUME NEW i \in Lines
               PROVE  \/ lines[i].trans = None /\ lines[i].url = NoUnit
                         /\ lines[i] = [trans |-> None, url |-> NoUnit]
                      \/ lines[i].trans = Old(i) /\ lines[i].url = Name(FirstOf[i])
                         /\ lines[i] = [trans |-> Old(i), url |-> Name(FirstOf[i])]
                      \/ lines[i].trans = Old(i) /\ lines[i].url = NoUnit
                         /\ lines[i] = [trans |-> Old(i), url |-> NoUnit]
    OBVIOUS
  <2>1. CASE i \in redone
    BY <1>1, <2>1 DEF Before
  <2>2. CASE i \notin redone /\ FirstOf[i] \in made
    BY <1>1, <2>2 DEF Before
  <2>3. CASE i \notin redone /\ FirstOf[i] \notin made
    BY <1>1, <2>3 DEF Before
  <2> QED
    BY <2>1, <2>2, <2>3
<1>5. \A i \in Lines : Name(FirstOf[i]) \in UnitName
  BY UnitsAre, NamesAre
<1>6. NoUnit \in UnitName /\ None \in 0 .. 2 * NLines /\ \A i \in Lines : Old(i) \in 0 .. 2 * NLines
  BY TranslationAssumption DEF NoUnit, UnitName, None, Old, Lines
<1>7. lines \in [Lines -> [trans : 0 .. 2 * NLines, url : UnitName]]
  <2>1. lines = [i \in Lines |-> lines[i]]
    BY <1>1 DEF Before
  <2>2. \A i \in Lines : lines[i] \in [trans : 0 .. 2 * NLines, url : UnitName]
    <3> SUFFICES ASSUME NEW i \in Lines
                 PROVE  lines[i] \in [trans : 0 .. 2 * NLines, url : UnitName]
      OBVIOUS
    <3>1. None \in 0 .. 2 * NLines /\ Old(i) \in 0 .. 2 * NLines
      BY <1>6
    <3>2. CASE lines[i] = [trans |-> None, url |-> NoUnit]
      BY <1>6, <3>1, <3>2
    <3>3. CASE lines[i] = [trans |-> Old(i), url |-> Name(FirstOf[i])]
      BY <1>5, <3>1, <3>3
    <3>4. CASE lines[i] = [trans |-> Old(i), url |-> NoUnit]
      BY <1>6, <3>1, <3>4
    <3> QED
      BY <1>4, <3>2, <3>3, <3>4
  <2> QED
    BY <2>1, <2>2
<1>8. tr \in BatchType /\ BatchKept /\ SliceKept /\ CallsBounded
  <2>1. tr \in BatchType
    BY <1>2, TranslationAssumption, EmptySeq DEF NoBatch, BatchType
  <2>2. /\ tr.pending = << >> /\ tr.todo = << >> /\ tr.got = << >> /\ tr.attempt = 1
        /\ tr.calls = 0
    BY <1>2 DEF NoBatch
  <2>3. Len(tr.pending) = 0 /\ Len(tr.todo) = 0 /\ Len(tr.got) = 0
    BY <2>2, EmptySeq
  <2>4. BatchKept
    BY <2>2, <2>3 DEF BatchKept, Row
  <2> QED
    BY <2>1, <2>2, <2>3, <2>4 DEF SliceKept, CallsBounded
<1>9. TranslationsInPlace
  BY <1>4 DEF TranslationsInPlace
<1>10. OldKept
  <2>1. \A i \in Lines : i <= tr.at => lines[i].trans # None
    BY <1>2 DEF NoBatch, Lines
  <2>2. \A i \in Lines : lines[i].url # NoUnit =>
          lines[i].trans = Old(i) /\ lines[i].url = Name(FirstOf[i])
    BY <1>4
  <2>3. \A i \in Lines : lines[i].trans \in {None, Old(i)}
    BY <1>4
  <2>4. ASSUME NEW u \in Units, Name(u) \in DOMAIN clips
        PROVE  clips[Name(u)].says = [i \in LinesOf(u) |-> Old(i)]
    <3>1. Name(u)[1] = u
      BY NamesAre
    <3> QED
      BY <1>3, <2>4, <3>1
  <2> QED
    BY <2>1, <2>2, <2>3, <2>4 DEF OldKept
<1>11. DOMAIN jobs = {} /\ DOMAIN spoken = {} /\ Len(spoken) = 0
  BY <1>2, EmptySeq
<1>12. Shape
  <2>1. DOMAIN clips \subseteq UnitName /\ \A n \in DOMAIN clips : clips[n].length \in Durations
    BY <1>1, <1>3, NamesAre
  <2>2. jobs \in [DOMAIN jobs -> JobType]
    BY <1>2, <1>11
  <2>3. spoken \in Seq(ClipType)
    BY <1>2, EmptySeq
  <2>4. left \in 0 .. MaxFailures
    BY <1>2, SynthesisAssumption
  <2> QED
    BY <1>2, <1>7, <1>8, <1>11, <2>1, <2>2, <2>3, <2>4 DEF Shape, Phases
<1>13. SpeechKept
  BY <1>2 DEF SpeechKept, Speech
<1>14. VoicesKept
  BY <1>2, <1>11 DEF VoicesKept
<1>15. TimelineKept
  BY <1>2, <1>11 DEF TimelineKept
<1> QED
  BY <1>8, <1>9, <1>10, <1>12, <1>13, <1>14, <1>15 DEF DubbingInv, TranslationKept

\* Nothing happens, nothing is lost.
LEMMA DubbingStutters == ASSUME DubbingInv, UNCHANGED vars PROVE DubbingInv'
<1>1. /\ Units' = Units /\ Speakers' = Speakers /\ FirstOf' = FirstOf
      /\ \A v : LinesOf(v)' = LinesOf(v) /\ Name(v)' = Name(v)
  BY UnitsStay DEF vars
<1>2. ClipType' = ClipType
  BY <1>1 DEF ClipType
<1>3. Shape'
  BY <1>1, <1>2 DEF DubbingInv, Shape, vars
<1>4. TranslationsInPlace' /\ CallsBounded'
  BY DEF DubbingInv, TranslationsInPlace, CallsBounded, vars
<1>5. TranslationKept'
  <2>1. BatchKept' <=> BatchKept
    BY DEF BatchKept, vars
  <2>2. SliceKept' <=> SliceKept
    BY DEF SliceKept, Slice, NeedsTranslation, vars
  <2>3. OldKept' <=> OldKept
    BY <1>1 DEF OldKept, vars
  <2> QED
    BY <2>1, <2>2, <2>3 DEF DubbingInv, TranslationKept, vars
<1>6. \A v : Fresh(v)' <=> Fresh(v)
  BY <1>1 DEF Fresh, HalfRedone, Says, Old, vars
<1>7. SpeechKept'
  BY <1>1, <1>6 DEF DubbingInv, SpeechKept, ClipsKept, PlacesKept, Speech, OnceEach, Spoken, Sorted, vars
<1>8. VoicesKept'
  BY <1>1 DEF DubbingInv, VoicesKept, MustClone, Required, vars
<1>9. TimelineKept'
  BY DEF DubbingInv, TimelineKept, OrigStart, OrigLength, Squeezed, vars
<1> QED
  BY <1>3, <1>4, <1>5, <1>7, <1>8, <1>9 DEF DubbingInv

LEMMA DubbingKeeps == DubbingInv /\ [Next]_vars => DubbingInv'
<1> SUFFICES ASSUME DubbingInv, [Next]_vars PROVE DubbingInv'
  OBVIOUS
<1>1. CASE TranslationStep /\ UNCHANGED <<voices, jobs, clips, spoken, raised, left, cursor>>
           /\ UNCHANGED <<script, setup>>
  BY <1>1, TranslationKeeps
<1>2. CASE SynthesisStep /\ UNCHANGED cursor /\ UNCHANGED <<script, setup>>
  BY <1>2, SynthesisKeeps
<1>3. CASE AlignmentStep /\ UNCHANGED <<script, setup>>
  BY <1>3, AlignClipKeeps, AlignmentEndsKeeps DEF AlignmentStep
<1>4. CASE UNCHANGED vars
  BY <1>4, DubbingStutters
<1> QED
  BY <1>1, <1>2, <1>3, <1>4 DEF Next

LEMMA AlwaysDubbingInv == Spec => []DubbingInv
BY InitIs, DubbingKeeps, PTL DEF Spec

\* Everything has its type, all through a run.
THEOREM DubbingTypeCorrect == Spec => []TypeOK
<1>1. DubbingInv => TypeOK
  <2> SUFFICES ASSUME Shape PROVE TypeOK
    BY DEF DubbingInv
  <2>1. TranslationTypeOK
    BY BatchStands DEF Shape, TranslationTypeOK, Ranges
  <2>2. \A u \in DOMAIN jobs : jobs[u] \in [state : JobStates, tier : Tiers, try : 1 .. TtsRetries]
    BY StandingSpeech DEF JobType
  <2>3. \A k \in DOMAIN spoken :
          spoken[k] \in [unit : Units, name : UnitName, length : Nat, at : Nat,
                         mode : Tiers \cup {"reused"}]
    BY StandingSpeech DEF ClipType
  <2> QED
    BY <2>1, <2>2, <2>3 DEF Shape, TypeOK
<1> QED
  BY <1>1, AlwaysDubbingInv, PTL

\* However many lines there are, however large a batch, in whatever order the provider names the
\* texts and however a batch is split: a translation stands at the line whose text it translates.
THEOREM TranslationsStayInPlace == Spec => []TranslationsInPlace
<1>1. DubbingInv => TranslationsInPlace
  BY DEF DubbingInv
<1> QED
  BY <1>1, AlwaysDubbingInv, PTL

\* Splitting a batch of n lines to the end costs at most MaxAttempts calls for each of the
\* 2n - 1 ranges there are.
THEOREM SplittingIsBounded == Spec => []CallsBounded
<1>1. DubbingInv => CallsBounded
  BY DEF DubbingInv
<1> QED
  BY <1>1, AlwaysDubbingInv, PTL

\* A clip that is placed says what its lines say now: in particular, one of an earlier run is
\* taken over for nothing but what it was made from.  (A unit half redone is excepted.)
THEOREM PlacedClipsSayTheirLines == Spec => []ClipsSayTheirLines
<1>1. DubbingInv => ClipsSayTheirLines
  BY DEF DubbingInv, SpeechKept, ClipsKept, Speech, ClipsSayTheirLines, Fresh
<1> QED
  BY <1>1, AlwaysDubbingInv, PTL

\* In whatever order the threads finish: every unit of the recording is placed once, in its
\* order, behind the one before it and not before its line.
THEOREM EveryUnitHasOnePlace == Spec => []OnePlaceEach
<1>1. DubbingInv => OnePlaceEach
  <2> SUFFICES ASSUME DubbingInv, phase = "done" PROVE OnePlaceEach
    BY DEF OnePlaceEach
  <2>1. /\ Shape /\ TimelineKept /\ PlacesKept /\ cursor.placed = Len(spoken)
    BY DEF DubbingInv, SpeechKept, Speech, TimelineKept
  <2>2. DOMAIN spoken = 1 .. cursor.placed
    BY <2>1, StandingSpeech
  <2> QED
    BY <2>1, <2>2 DEF OnePlaceEach, PlacesKept, Spoken, Sorted, TimelineKept
<1> QED
  BY <1>1, AlwaysDubbingInv, PTL

\* A required voice is cloned or the task does not finish: whatever fails, no clip of the context
\* is made with a preset voice.
THEOREM RequiredVoicesAreCloned == Spec => []RequiredVoiceIsCloned
<1>1. DubbingInv => RequiredVoiceIsCloned
  BY DEF DubbingInv, VoicesKept, MustClone, RequiredVoiceIsCloned
<1> QED
  BY <1>1, AlwaysDubbingInv, PTL

-----------------------------------------------------------------------------
(* How late a clip may be.                                                 *)

\* No line begins before the one before it has ended.
LinesApart == \A s \in Scripts, i, j \in Lines : i < j => s[i].end <= s[j].start

LEMMA AlignClipIsLate ==
  ASSUME LinesApart, DubbingInv, DubbingInv', LateKept, AlignClip, UNCHANGED <<script, setup>>
  PROVE  LateKept'
<1> DEFINE n == Len(spoken)
           m == cursor.placed
           c == spoken[m + 1]
<1>1. /\ Shape /\ TimelineKept /\ PlacesKept /\ phase = "align"
  BY DEF DubbingInv, AlignClip, SpeechKept, Speech
<1>2. /\ n \in Nat /\ m + 1 \in 1 .. n /\ c \in ClipType /\ m \in Nat
      /\ DOMAIN spoken = 1 .. n
      /\ spoken'[m + 1] = Placed(c)
      /\ \A j \in 1 .. n : j # m + 1 => spoken'[j] = spoken[j]
      /\ cursor'.placed = m + 1
  BY <1>1, AlignClipIs DEF Shape
<1>3. \A j \in 1 .. n : spoken[j] \in ClipType
  BY <1>1, StandingSpeech
<1> HIDE DEF n, m, c
<1>4. /\ Placed(c).at = Later(OrigStart(c), cursor.end)
      /\ OrigStart(Placed(c)) = OrigStart(c)
      /\ OrigStart(c) \in Nat
  BY <1>1, <1>2, PlacedIs, TimesAre
<1>5. \A j \in 1 .. m : j \in 1 .. n /\ spoken'[j] = spoken[j]
  BY <1>2
<1>6. \A j \in 1 .. m : TooLong(j)' <=> TooLong(j)
  BY <1>5 DEF TooLong, OrigLength
<1>7. ASSUME OrigStart(c) < cursor.end PROVE \E j \in 1 .. m : TooLong(j)
  <2> DEFINE p == spoken[m]
  <2>1. m > 0 /\ m \in 1 .. m /\ m \in 1 .. n /\ m < m + 1
    BY <1>1, <1>2, <1>4, <1>7 DEF LateKept, m
  <2>2. /\ cursor.end = p.at + p.length /\ p.at >= OrigStart(p) /\ ~Squeezed(p)
    BY <1>1, <2>1 DEF TimelineKept, m
  <2>3. /\ p \in ClipType /\ p.unit \in Lines /\ c.unit \in Lines /\ p.unit < c.unit
    <3>1. p \in ClipType
      BY <1>3, <2>1
    <3>2. p.unit < c.unit
      BY <1>1, <1>2, <2>1 DEF PlacesKept, Sorted, c
    <3> QED
      BY <1>2, <3>1, <3>2, UnitsAre DEF ClipType
  <2> HIDE DEF p
  <2>4. script[p.unit].end <= OrigStart(c)
    BY <1>1, <2>3 DEF LinesApart, Shape, OrigStart
  <2>5. /\ script[p.unit].end \in Nat /\ script[p.unit].start \in Nat
        /\ script[p.unit].start < script[p.unit].end
    BY <1>1, <2>3, SynthesisAssumption DEF Shape
  <2>6. /\ p.at \in Nat /\ p.length \in Nat /\ OrigStart(p) = script[p.unit].start
        /\ OrigLength(p) = script[p.unit].end - script[p.unit].start
    BY <2>3 DEF ClipType, OrigStart, OrigLength
  <2>7. CASE p.at > OrigStart(p)
    <3>1. \E j \in 1 .. (m - 1) : TooLong(j)
      BY <2>1, <2>7 DEF LateKept, p, m
    <3> QED
      BY <1>2, <3>1
  <2>8. CASE ~(p.at > OrigStart(p))
    <3>1. p.length > OrigLength(p)
      BY <1>4, <1>7, <2>2, <2>4, <2>5, <2>6, <2>8
    <3>2. 10 * p.length > 13 * OrigLength(p)
      BY <2>2, <2>5, <2>6, <3>1 DEF Squeezed
    <3> QED
      BY <2>1, <3>2 DEF TooLong, p
  <2> QED
    BY <2>7, <2>8
<1>8. ASSUME NEW k \in 1 .. (m + 1), spoken'[k].at > OrigStart(spoken[k])'
      PROVE  \E j \in 1 .. (k - 1) : TooLong(j)'
  <2>1. CASE k = m + 1
    <3>1. Placed(c).at > OrigStart(c)
      BY <1>2, <1>4, <1>8, <2>1 DEF OrigStart
    <3>2. OrigStart(c) < cursor.end
      BY <1>1, <1>4, <3>1 DEF Later, Shape
    <3>3. k - 1 = m
      BY <1>2, <2>1
    <3> QED
      BY <1>6, <1>7, <3>2, <3>3
  <2>2. CASE k # m + 1
    <3>1. k \in 1 .. m
      BY <1>2, <2>2
    <3>2. spoken[k].at > OrigStart(spoken[k])
      BY <1>5, <1>8, <3>1 DEF OrigStart
    <3>3. PICK j \in 1 .. (k - 1) : TooLong(j)
      BY <3>1, <3>2 DEF LateKept, m
    <3>4. j \in 1 .. m
      BY <1>2, <3>1
    <3> QED
      BY <1>6, <3>3, <3>4
  <2> QED
    BY <2>1, <2>2
<1>9. cursor'.placed > 0
  BY <1>2
<1> QED
  BY <1>2, <1>8, <1>9 DEF LateKept

LEMMA LateKeeps ==
  ASSUME LinesApart, DubbingInv, DubbingInv', LateKept, [Next]_vars
  PROVE  LateKept'
<1>1. CASE AlignClip /\ UNCHANGED <<script, setup>>
  BY <1>1, AlignClipIsLate
<1>2. CASE UNCHANGED <<script, spoken, cursor>>
  BY <1>2 DEF LateKept, TooLong, OrigStart, OrigLength
<1>3. CASE phase \notin {"align", "done"} /\ UNCHANGED cursor
  <2>1. cursor'.placed = 0 /\ cursor'.end = 0
    BY <1>3 DEF DubbingInv, TimelineKept
  <2> QED
    BY <2>1 DEF LateKept
<1>4. CASE AlignmentEnds /\ UNCHANGED script
  BY <1>2, <1>4 DEF AlignmentEnds
<1>5. CASE TranslationStep /\ UNCHANGED <<script, spoken, cursor>>
  BY <1>2, <1>5
<1>6. CASE SynthesisStep /\ UNCHANGED cursor
  <2>1. phase \notin {"align", "done"}
    BY <1>6 DEF SynthesisStep, Reuse, SubmitJobs, SpeakingStops, SpeakingEnds, PrepareVoice,
                StartJob, Speak, Collect, JobRaises, CallFails, In
  <2> QED
    BY <1>3, <1>6, <2>1
<1> QED
  BY <1>1, <1>2, <1>4, <1>5, <1>6 DEF Next, AlignmentStep, vars

\* Where no line begins before the one before it has ended, the dub is late only where a clip
\* before it was far too long: what is a little too long costs nobody their place.
THEOREM OnlyLongClipsMakeLate == ASSUME LinesApart PROVE Spec => []LateOnlyAfterLong
<1>1. Init => LateKept
  BY DEF Init, LateKept
<1>2. LateKept /\ DubbingInv /\ DubbingInv' /\ [Next]_vars => LateKept'
  BY LateKeeps
<1>3. DubbingInv /\ LateKept => LateOnlyAfterLong
  <2> SUFFICES ASSUME DubbingInv, LateKept, phase = "done" PROVE LateOnlyAfterLong
    BY DEF LateOnlyAfterLong
  <2>1. Shape /\ cursor.placed = Len(spoken)
    BY DEF DubbingInv, TimelineKept
  <2>2. DOMAIN spoken = 1 .. cursor.placed
    BY <2>1, StandingSpeech
  <2> QED
    BY <2>2 DEF LateOnlyAfterLong, LateKept, TooLong
<1> QED
  BY <1>1, <1>2, <1>3, AlwaysDubbingInv, PTL DEF Spec
=============================================================================
