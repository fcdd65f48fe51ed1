---------------------------- MODULE ResearchProofs ----------------------------
(***************************************************************************)
(* The properties of the research half for every value of its constants,   *)
(* part by part and then for the whole.  The recursive functions the       *)
(* community modules are defined with (sums over sets, FlattenSeq) are     *)
(* unfolded here, one step at a time, from the induction on the natural    *)
(* numbers that well-foundedness gives.                                    *)
(***************************************************************************)
EXTENDS Research, FiniteSetTheorems, SequenceTheorems, TLAPS

(* Picks one, as the community modules' folds do. *)
Picked(s) == CHOOSE x \in s : TRUE

(* A set of natural numbers has a least one: numbers are well-founded.       *)
LEMMA LeastNatural ==
  ASSUME NEW T \in SUBSET Nat, T # {}
  PROVE  \E x \in T : \A y \in T : x <= y
<1>1. \E x \in T : \A y \in T : ~(<<y, x>> \in OpToRel(<, Nat))
  BY NatLessThanWellFounded, WFMin, T \subseteq Nat
<1>2. PICK x \in T : \A y \in T : ~(<<y, x>> \in OpToRel(<, Nat))
  BY <1>1
<1>3. ASSUME NEW y \in T PROVE x <= y
  <2>1. x \in Nat /\ y \in Nat
    OBVIOUS
  <2>2. ~(y < x)
    BY <1>2, <2>1 DEF OpToRel
  <2> QED
    BY <2>1, <2>2
<1> QED
  BY <1>2, <1>3

(* Induction on the natural numbers, over a set instead of a predicate.      *)
LEMMA Induction ==
  ASSUME NEW T \in SUBSET Nat, 0 \in T, \A n \in T : n + 1 \in T
  PROVE  \A n \in Nat : n \in T
<1> SUFFICES ASSUME NEW m \in Nat, m \notin T PROVE FALSE
  OBVIOUS
<1>1. Nat \ T \in SUBSET Nat /\ Nat \ T # {}
  OBVIOUS
<1>2. PICK x \in Nat \ T : \A y \in Nat \ T : x <= y
  BY <1>1, LeastNatural
<1>3. x # 0
  BY <1>2
<1>4. x - 1 \in Nat /\ ~(x <= x - 1) /\ (x - 1) + 1 = x
  BY <1>3
<1>5. x - 1 \in T
  BY <1>2, <1>4
<1> QED
  BY <1>4, <1>5

(* A finite set that is not empty loses one element at a time. *)
LEMMA PickedLess ==
  ASSUME NEW s, IsFiniteSet(s), s # {}
  PROVE  /\ Picked(s) \in s /\ IsFiniteSet(s \ {Picked(s)})
         /\ Cardinality(s \ {Picked(s)}) = Cardinality(s) - 1 /\ Cardinality(s) \in Nat
BY FS_RemoveElement, FS_CardinalityType DEF Picked

(* The sum over a set, picked apart: the recursive function in the           *)
(* definition of SumFunctionOnSet exists.                                    *)
SumIn(f, S) ==
  CHOOSE iter :
    iter = [s \in SUBSET S |-> IF s = {} THEN 0 ELSE f[Picked(s)] + iter[s \ {Picked(s)}]]

(* The fold of the community modules is that function.                       *)
LEMMA SumIsSumIn == \A f, S : SumFunctionOnSet(f, S) = SumIn(f, S)[S]
BY DEF SumFunctionOnSet, FoldFunctionOnSet, MapThenFoldSet, SumIn, Picked

(* It exists: on sets of up to n elements for every n, one step at a time.   *)
LEMMA SumInSteps ==
  ASSUME NEW f, NEW S, IsFiniteSet(S)
  PROVE  \A s \in SUBSET S :
           SumIn(f, S)[s] = IF s = {} THEN 0 ELSE f[Picked(s)] + SumIn(f, S)[s \ {Picked(s)}]
<1> DEFINE F(g, s) == IF s = {} THEN 0 ELSE f[Picked(s)] + g[s \ {Picked(s)}]
           Below(n) == {s \in SUBSET S : Cardinality(s) <= n}
           Good(n) == \E g : \A s \in Below(n) : g[s] = F(g, s)
           T == {n \in Nat : Good(n)}
<1>1. \A s \in SUBSET S : IsFiniteSet(s) /\ Cardinality(s) \in Nat
  BY FS_Subset, FS_CardinalityType
<1>2. 0 \in T
  <2>1. \A s \in Below(0) : s = {}
    BY <1>1, FS_EmptySet
  <2>2. \A s \in Below(0) : [u \in SUBSET S |-> 0][s] = F([u \in SUBSET S |-> 0], s)
    BY <2>1
  <2> QED
    BY <2>2
<1>3. ASSUME NEW n \in T PROVE n + 1 \in T
  <2>1. PICK g : \A s \in Below(n) : g[s] = F(g, s)
    BY <1>3
  <2> DEFINE h == [s \in SUBSET S |-> IF Cardinality(s) = n + 1 THEN F(g, s) ELSE g[s]]
  <2>2. n \in Nat /\ n + 1 \in Nat
    OBVIOUS
  <2>3. \A s \in SUBSET S : s # {} =>
         s \ {Picked(s)} \in SUBSET S /\ Cardinality(s \ {Picked(s)}) = Cardinality(s) - 1
    BY <1>1, PickedLess
  <2>4. \A s \in Below(n + 1) : h[s] = F(g, s)
    <3>1. \A s \in Below(n + 1) : Cardinality(s) = n + 1 \/ s \in Below(n)
      BY <1>1, <2>2
    <3> QED
      BY <2>1, <3>1
  <2>5. \A s \in Below(n + 1) : F(h, s) = F(g, s)
    <3>1. \A s \in Below(n + 1) : s # {} => h[s \ {Picked(s)}] = g[s \ {Picked(s)}]
      BY <1>1, <2>2, <2>3
    <3> QED
      BY <3>1
  <2> HIDE DEF h, F, Below
  <2>6. \A s \in Below(n + 1) : h[s] = F(h, s)
    BY <2>4, <2>5
  <2> QED
    BY <2>2, <2>6
<1>4. Cardinality(S) \in T
  <2>1. Cardinality(S) \in Nat /\ T \in SUBSET Nat
    BY <1>1
  <2> HIDE DEF T
  <2> QED
    BY <1>2, <1>3, <2>1, Induction
<1>5. PICK g : \A s \in Below(Cardinality(S)) : g[s] = F(g, s)
  BY <1>4
<1>6. \A s \in SUBSET S : s \in Below(Cardinality(S))
  BY <1>1, FS_Subset
<1> DEFINE w == [s \in SUBSET S |-> g[s]]
<1>7. \A s \in SUBSET S : s # {} => s \ {Picked(s)} \in SUBSET S
  OBVIOUS
<1>8. \A s \in SUBSET S : w[s] = F(w, s)
  BY <1>5, <1>6, <1>7
<1>9. w = [s \in SUBSET S |-> F(w, s)]
  BY <1>8
<1>10. SumIn(f, S) = [s \in SUBSET S |-> F(SumIn(f, S), s)]
  <2> HIDE DEF w
  <2> QED
    BY <1>9 DEF SumIn
<1> QED
  BY <1>10

(* Sets of subsets that are closed under putting one element back.           *)
LEMMA SetInduction ==
  ASSUME NEW S, IsFiniteSet(S), NEW C, {} \in C,
         \A s \in SUBSET S : s # {} /\ (\A x \in s : s \ {x} \in C) => s \in C
  PROVE  \A s \in SUBSET S : s \in C
<1> DEFINE T == {n \in Nat : \A s \in SUBSET S : Cardinality(s) = n => s \in C}
<1>1. \A s \in SUBSET S : IsFiniteSet(s) /\ Cardinality(s) \in Nat
  BY FS_Subset, FS_CardinalityType
<1>2. 0 \in T
  BY <1>1, FS_EmptySet
<1>3. ASSUME NEW n \in T PROVE n + 1 \in T
  <2> SUFFICES ASSUME NEW s \in SUBSET S, Cardinality(s) = n + 1 PROVE s \in C
    OBVIOUS
  <2>1. s # {}
    <3>1. n + 1 # 0
      OBVIOUS
    <3> QED
      BY <3>1, FS_EmptySet
  <2>2. ASSUME NEW x \in s PROVE s \ {x} \in C
    <3>1. s \ {x} \in SUBSET S /\ Cardinality(s \ {x}) = n
      BY <1>1, FS_RemoveElement
    <3> QED
      BY <3>1
  <2> QED
    BY <2>1, <2>2
<1>4. \A n \in Nat : n \in T
  <2>1. T \in SUBSET Nat
    OBVIOUS
  <2> HIDE DEF T
  <2> QED
    BY <1>2, <1>3, <2>1, Induction
<1> QED
  BY <1>1, <1>4

(* It does not depend on the set it is taken in.                             *)
LEMMA SumInAgree ==
  ASSUME NEW f, NEW S, IsFiniteSet(S), NEW U \in SUBSET S
  PROVE  \A s \in SUBSET U : SumIn(f, S)[s] = SumIn(f, U)[s]
<1> DEFINE C == {s \in SUBSET U : SumIn(f, S)[s] = SumIn(f, U)[s]}
<1>1. IsFiniteSet(U) /\ SUBSET U \subseteq SUBSET S
  BY FS_Subset
<1>2. \A s \in SUBSET U :
        /\ SumIn(f, S)[s] = IF s = {} THEN 0 ELSE f[Picked(s)] + SumIn(f, S)[s \ {Picked(s)}]
        /\ SumIn(f, U)[s] = IF s = {} THEN 0 ELSE f[Picked(s)] + SumIn(f, U)[s \ {Picked(s)}]
  BY <1>1, SumInSteps
<1>3. {} \in C
  BY <1>2
<1>4. ASSUME NEW s \in SUBSET U, s # {}, \A x \in s : s \ {x} \in C PROVE s \in C
  <2>1. Picked(s) \in s
    BY <1>4 DEF Picked
  <2> QED
    BY <1>2, <1>4, <2>1
<1>5. \A s \in SUBSET U : s \in C
  <2> HIDE DEF C
  <2> QED
    BY <1>1, <1>3, <1>4, SetInduction
<1> QED
  BY <1>5

Sum(f, S) == SumFunctionOnSet(f, S)

(* The sum over a set takes the picked element, and then the rest.           *)
LEMMA SumPicked ==
  ASSUME NEW f, NEW S, IsFiniteSet(S)
  PROVE  Sum(f, S) = IF S = {} THEN 0 ELSE f[Picked(S)] + Sum(f, S \ {Picked(S)})
<1> DEFINE Q == S \ {Picked(S)}
<1>1. SumIn(f, S)[S] = IF S = {} THEN 0 ELSE f[Picked(S)] + SumIn(f, S)[Q]
  BY SumInSteps
<1>2. Q \in SUBSET S /\ Q \in SUBSET Q
  OBVIOUS
<1>3. SumIn(f, S)[Q] = SumIn(f, Q)[Q]
  <2> HIDE DEF Q
  <2> QED
    BY <1>2, SumInAgree
<1> HIDE DEF Q
<1>4. Sum(f, S) = SumIn(f, S)[S] /\ Sum(f, Q) = SumIn(f, Q)[Q]
  BY SumIsSumIn DEF Sum
<1> QED
  BY <1>1, <1>3, <1>4 DEF Q

(* Nothing adds up to nothing.                                               *)
LEMMA SumEmpty == \A f : Sum(f, {}) = 0
BY SumPicked, FS_EmptySet

(* A sum of integers is one, for the subsets too.                            *)
LEMMA SumType ==
  ASSUME NEW f, NEW S, IsFiniteSet(S), \A x \in S : f[x] \in Int
  PROVE  \A s \in SUBSET S : Sum(f, s) \in Int
<1> DEFINE C == {s \in SUBSET S : Sum(f, s) \in Int}
<1>1. {} \in C
  BY SumEmpty
<1>2. ASSUME NEW s \in SUBSET S, s # {}, \A x \in s : s \ {x} \in C PROVE s \in C
  <2>1. Picked(s) \in s /\ IsFiniteSet(s)
    BY <1>2, FS_Subset DEF Picked
  <2>2. Sum(f, s) = f[Picked(s)] + Sum(f, s \ {Picked(s)})
    BY <1>2, <2>1, SumPicked
  <2> QED
    BY <1>2, <2>1, <2>2
<1>3. \A s \in SUBSET S : s \in C
  <2> HIDE DEF C
  <2> QED
    BY <1>1, <1>2, SetInduction
<1> QED
  BY <1>3

(* In whatever order: any element can be taken first.                        *)
LEMMA SumRemove ==
  ASSUME NEW f, NEW S, IsFiniteSet(S), \A x \in S : f[x] \in Int
  PROVE  /\ Sum(f, S) \in Int
         /\ \A x \in S : Sum(f, S \ {x}) \in Int /\ Sum(f, S) = f[x] + Sum(f, S \ {x})
<1> DEFINE C == {s \in SUBSET S : \A x \in s : Sum(f, s) = f[x] + Sum(f, s \ {x})}
<1>1. {} \in C
  OBVIOUS
<1>2. ASSUME NEW s \in SUBSET S, s # {}, \A x \in s : s \ {x} \in C PROVE s \in C
  <2> DEFINE y == Picked(s)
  <2>1. y \in s /\ IsFiniteSet(s)
    BY <1>2, FS_Subset DEF Picked
  <2>2. Sum(f, s) = f[y] + Sum(f, s \ {y})
    BY <1>2, <2>1, SumPicked
  <2> HIDE DEF y
  <2>3. \A x \in s : \A z \in s \ {x} : Sum(f, s \ {x}) = f[z] + Sum(f, (s \ {x}) \ {z})
    BY <1>2
  <2>4. ASSUME NEW x \in s, x # y PROVE Sum(f, s) = f[x] + Sum(f, s \ {x})
    <3>1. (s \ {y}) \ {x} = (s \ {x}) \ {y} /\ x \in s \ {y} /\ y \in s \ {x}
      BY <2>1, <2>4
    <3> DEFINE both == Sum(f, (s \ {x}) \ {y})
    <3>2. Sum(f, s \ {y}) = f[x] + both /\ Sum(f, s \ {x}) = f[y] + both
      BY <2>1, <2>3, <3>1
    <3>3. f[x] \in Int /\ f[y] \in Int /\ both \in Int
      BY <2>1, SumType
    <3> HIDE DEF both
    <3> QED
      BY <2>2, <3>2, <3>3
  <2> QED
    BY <2>2, <2>4
<1>3. \A s \in SUBSET S : s \in C
  <2> HIDE DEF C
  <2> QED
    BY <1>1, <1>2, SetInduction
<1>4. Sum(f, S) \in Int /\ \A x \in S : Sum(f, S \ {x}) \in Int
  BY SumType
<1> QED
  BY <1>3, <1>4

(* An element more adds its value.                                           *)
LEMMA SumAdd ==
  ASSUME NEW f, NEW S, IsFiniteSet(S), NEW x, x \notin S, \A y \in S \cup {x} : f[y] \in Int
  PROVE  Sum(f, S) \in Int /\ Sum(f, S \cup {x}) = Sum(f, S) + f[x]
<1>1. IsFiniteSet(S \cup {x}) /\ (S \cup {x}) \ {x} = S
  BY FS_AddElement
<1>2. Sum(f, S) \in Int /\ Sum(f, S \cup {x}) = f[x] + Sum(f, S)
  BY <1>1, SumRemove
<1> QED
  BY <1>2

(* The sum depends on the values in the set only.                            *)
LEMMA SumSame ==
  ASSUME NEW f, NEW g, NEW S, IsFiniteSet(S), \A x \in S : f[x] = g[x]
  PROVE  Sum(f, S) = Sum(g, S)
<1> DEFINE C == {s \in SUBSET S : Sum(f, s) = Sum(g, s)}
<1>1. {} \in C
  BY SumEmpty
<1>2. ASSUME NEW s \in SUBSET S, s # {}, \A x \in s : s \ {x} \in C PROVE s \in C
  <2>1. Picked(s) \in s /\ IsFiniteSet(s)
    BY <1>2, FS_Subset DEF Picked
  <2>2. /\ Sum(f, s) = f[Picked(s)] + Sum(f, s \ {Picked(s)})
        /\ Sum(g, s) = g[Picked(s)] + Sum(g, s \ {Picked(s)})
    BY <1>2, <2>1, SumPicked
  <2> QED
    BY <1>2, <2>1, <2>2
<1>3. \A s \in SUBSET S : s \in C
  <2> HIDE DEF C
  <2> QED
    BY <1>1, <1>2, SetInduction
<1> QED
  BY <1>3

(* Natural numbers add up to one.                                            *)
LEMMA SumNatural ==
  ASSUME NEW f, NEW S, IsFiniteSet(S), \A x \in S : f[x] \in Nat
  PROVE  Sum(f, S) \in Nat
<1> DEFINE C == {s \in SUBSET S : Sum(f, s) \in Nat}
<1>1. {} \in C
  BY SumEmpty
<1>2. ASSUME NEW s \in SUBSET S, s # {}, \A x \in s : s \ {x} \in C PROVE s \in C
  <2>1. Picked(s) \in s /\ IsFiniteSet(s)
    BY <1>2, FS_Subset DEF Picked
  <2>2. Sum(f, s) = f[Picked(s)] + Sum(f, s \ {Picked(s)})
    BY <1>2, <2>1, SumPicked
  <2> QED
    BY <1>2, <2>1, <2>2
<1>3. \A s \in SUBSET S : s \in C
  <2> HIDE DEF C
  <2> QED
    BY <1>1, <1>2, SetInduction
<1> QED
  BY <1>3
-----------------------------------------------------------------------------
(* The value area (VolumeProfile), for any number of bins and any volumes.   *)

(* An interval that grows to the right.                                      *)
LEMMA SumWiderRight ==
  ASSUME NEW f, NEW l \in Int, NEW r \in Int, l <= r + 1, \A i \in l .. r + 1 : f[i] \in Int
  PROVE  Sum(f, l .. r) \in Int /\ Sum(f, l .. r + 1) = Sum(f, l .. r) + f[r + 1]
<1>1. IsFiniteSet(l .. r) /\ r + 1 \notin l .. r /\ (l .. r) \cup {r + 1} = l .. r + 1
  BY FS_Interval
<1>2. \A i \in (l .. r) \cup {r + 1} : f[i] \in Int
  BY <1>1
<1>3. Sum(f, l .. r) \in Int /\ Sum(f, (l .. r) \cup {r + 1}) = Sum(f, l .. r) + f[r + 1]
  <2> DEFINE S == l .. r
             x == r + 1
  <2>1. IsFiniteSet(S) /\ x \notin S /\ \A y \in S \cup {x} : f[y] \in Int
    BY <1>1, <1>2
  <2> HIDE DEF S, x
  <2>2. Sum(f, S) \in Int /\ Sum(f, S \cup {x}) = Sum(f, S) + f[x]
    BY <2>1, SumAdd
  <2> QED
    BY <2>2 DEF S, x
<1> QED
  BY <1>1, <1>3

(* And one that grows to the left.                                           *)
LEMMA SumWiderLeft ==
  ASSUME NEW f, NEW l \in Int, NEW r \in Int, l <= r + 1, \A i \in l - 1 .. r : f[i] \in Int
  PROVE  Sum(f, l .. r) \in Int /\ Sum(f, l - 1 .. r) = Sum(f, l .. r) + f[l - 1]
<1>1. IsFiniteSet(l .. r) /\ l - 1 \notin l .. r /\ (l .. r) \cup {l - 1} = l - 1 .. r
  BY FS_Interval
<1>2. \A i \in (l .. r) \cup {l - 1} : f[i] \in Int
  BY <1>1
<1>3. Sum(f, l .. r) \in Int /\ Sum(f, (l .. r) \cup {l - 1}) = Sum(f, l .. r) + f[l - 1]
  <2> DEFINE S == l .. r
             x == l - 1
  <2>1. IsFiniteSet(S) /\ x \notin S /\ \A y \in S \cup {x} : f[y] \in Int
    BY <1>1, <1>2
  <2> HIDE DEF S, x
  <2>2. Sum(f, S) \in Int /\ Sum(f, S \cup {x}) = Sum(f, S) + f[x]
    BY <2>1, SumAdd
  <2> QED
    BY <2>2 DEF S, x
<1> QED
  BY <1>1, <1>3

(* The sum over one element.                                                 *)
LEMMA SumOfOne == ASSUME NEW f, NEW i, f[i] \in Int PROVE Sum(f, {i}) = f[i]
<1>1. IsFiniteSet({i}) /\ {i} \ {i} = {}
  BY FS_Singleton
<1>2. Sum(f, {i}) = f[i] + Sum(f, {})
  BY <1>1, SumRemove
<1> QED
  BY <1>2, SumEmpty

(* The bin that argmax names is one of the bins.                             *)
LEMMA FirstMaxIsBin ==
  ASSUME NEW v \in [1 .. Bins -> 0 .. MaxVolume]
  PROVE  FirstMax(v) \in 1 .. Bins
<1> DEFINE Best == {b \in 1 .. Bins : \A c \in 1 .. Bins : v[c] <= v[b]}
           Lacks == {MaxVolume - v[b] : b \in 1 .. Bins}
<1>1. Lacks \in SUBSET Nat /\ Lacks # {}
  <2>1. \A b \in 1 .. Bins : v[b] \in 0 .. MaxVolume
    OBVIOUS
  <2>2. 1 \in 1 .. Bins
    BY ProfileAssumption
  <2> QED
    BY <2>1, <2>2, ProfileAssumption
<1>2. PICK n \in Lacks : \A m \in Lacks : n <= m
  BY <1>1, LeastNatural
<1>3. PICK b \in 1 .. Bins : n = MaxVolume - v[b]
  BY <1>2
<1>4. \A c \in 1 .. Bins : v[c] <= v[b]
  <2> TAKE c \in 1 .. Bins
  <2>1. MaxVolume - v[b] <= MaxVolume - v[c]
    BY <1>2, <1>3
  <2>2. v[b] \in Nat /\ v[c] \in Nat /\ MaxVolume \in Nat
    BY ProfileAssumption
  <2> QED
    BY <2>1, <2>2
<1>5. Best \in SUBSET Nat /\ Best # {}
  BY <1>4
<1>6. \E x \in Best : \A y \in Best : x <= y
  BY <1>5, LeastNatural
<1>7. FirstMax(v) \in Best
  BY <1>6 DEF FirstMax, Min
<1> QED
  BY <1>7

(* What the search holds between two steps: the bins from left to right and  *)
(* their volume, and why the last of them was added.                         *)
ProfileInv ==
  /\ vols \in [1 .. Bins -> 0 .. MaxVolume]
  /\ poc \in 1 .. Bins /\ left \in 1 .. poc /\ right \in poc .. Bins
  /\ accum = VolumeIn(left, right)
  /\ left < right =>
       \/ /\ left < poc /\ 10 * VolumeIn(left + 1, right) < 7 * Total
          /\ right < Bins => vols[right + 1] <= vols[left]
       \/ /\ right > poc /\ 10 * VolumeIn(left, right - 1) < 7 * Total
          /\ left > 1 => vols[left - 1] < vols[right]

(* The volume of a range of bins, and of one with a bin more.                *)
LEMMA VolumeSteps ==
  ASSUME vols \in [1 .. Bins -> 0 .. MaxVolume], NEW l \in 1 .. Bins, NEW r \in l .. Bins
  PROVE  /\ VolumeIn(l, r) \in Int
         /\ l > 1 => VolumeIn(l - 1, r) = VolumeIn(l, r) + vols[l - 1]
         /\ r < Bins => VolumeIn(l, r + 1) = VolumeIn(l, r) + vols[r + 1]
         /\ VolumeIn(l, l) = vols[l]
         /\ VolumeIn(1, Bins) = Total /\ Total \in Nat
<1>1. /\ Bins \in Nat /\ l \in Int /\ r \in Int /\ l <= r + 1
      /\ \A b \in 1 .. Bins : vols[b] \in Nat /\ vols[b] \in Int
  BY ProfileAssumption
<1>2. VolumeIn(l, r) \in Int
  <2>1. IsFiniteSet(l .. r) /\ \A b \in l .. r : vols[b] \in Int
    BY <1>1, FS_Interval
  <2> QED
    BY <2>1, SumRemove DEF VolumeIn, Sum
<1>3. ASSUME l > 1 PROVE VolumeIn(l - 1, r) = VolumeIn(l, r) + vols[l - 1]
  <2>1. \A b \in l - 1 .. r : vols[b] \in Int
    BY <1>1, <1>3
  <2> QED
    BY <1>1, <2>1, SumWiderLeft DEF VolumeIn, Sum
<1>4. ASSUME r < Bins PROVE VolumeIn(l, r + 1) = VolumeIn(l, r) + vols[r + 1]
  <2>1. \A b \in l .. r + 1 : vols[b] \in Int
    BY <1>1, <1>4
  <2> QED
    BY <1>1, <2>1, SumWiderRight DEF VolumeIn, Sum
<1>5. VolumeIn(l, l) = vols[l]
  <2>1. l .. l = {l} /\ vols[l] \in Int
    BY <1>1
  <2> QED
    BY <2>1, SumOfOne DEF VolumeIn, Sum
<1>6. VolumeIn(1, Bins) = Total /\ Total \in Nat
  <2>1. IsFiniteSet(1 .. Bins)
    BY <1>1, FS_Interval
  <2> QED
    BY <1>1, <2>1, SumNatural DEF VolumeIn, Total, Sum
<1> QED
  BY <1>2, <1>3, <1>4, <1>5, <1>6

(* The search starts at the point of control.                                *)
LEMMA InitProfileInv == ProfileInit => ProfileInv
<1> SUFFICES ASSUME ProfileInit PROVE ProfileInv
  OBVIOUS
<1>1. vols \in [1 .. Bins -> 0 .. MaxVolume] /\ poc \in 1 .. Bins /\ left = poc /\ right = poc
  BY FirstMaxIsBin DEF ProfileInit
<1>2. poc \in poc .. Bins /\ poc \in 1 .. poc /\ ~(poc < poc)
  BY <1>1, ProfileAssumption
<1>3. accum = VolumeIn(poc, poc)
  BY <1>1, <1>2, VolumeSteps DEF ProfileInit
<1> QED
  BY <1>1, <1>2, <1>3 DEF ProfileInv

(* Each step takes the neighbour with more volume.                           *)
LEMMA StepProfileInv == ProfileInv /\ [ProfileNext]_profileVars => ProfileInv'
<1> SUFFICES ASSUME ProfileInv, [ProfileNext]_profileVars PROVE ProfileInv'
  OBVIOUS
<1>1. /\ vols \in [1 .. Bins -> 0 .. MaxVolume] /\ Bins \in Nat /\ left \in Int /\ right \in Int
      /\ poc \in 1 .. Bins /\ left \in 1 .. poc /\ right \in poc .. Bins
      /\ left \in 1 .. Bins /\ right \in left .. Bins
      /\ \A b \in 1 .. Bins : vols[b] \in Nat
  BY ProfileAssumption DEF ProfileInv
<1>2. CASE WidenLeft
  <2>1. /\ vols' = vols /\ poc' = poc /\ right' = right /\ left' = left - 1 /\ left > 1
        /\ accum' = accum + vols[left - 1] /\ 10 * accum < 7 * Total
        /\ right < Bins => vols[left - 1] >= vols[right + 1]
    BY <1>2 DEF WidenLeft, Wanting, LeftVolume, RightVolume
  <2>2. /\ accum' = VolumeIn(left - 1, right) /\ VolumeIn(left, right) = accum
    BY <1>1, <2>1, VolumeSteps DEF ProfileInv
  <2>3. /\ left - 1 \in 1 .. poc /\ left - 1 < poc /\ (left - 1) + 1 = left
        /\ right < Bins => right + 1 \in 1 .. Bins
        /\ left - 1 \in 1 .. Bins
    BY <1>1, <2>1
  <2>4. right < Bins => vols[right + 1] <= vols[left - 1]
    BY <1>1, <2>1, <2>3
  <2>5. Total' = Total
    BY <2>1 DEF Total
  <2>6. \A l, r : VolumeIn(l, r)' = VolumeIn(l, r)
    BY <2>1 DEF VolumeIn
  <2> QED
    BY <1>1, <2>1, <2>2, <2>3, <2>4, <2>5, <2>6 DEF ProfileInv
<1>3. CASE WidenRight
  <2>1. /\ vols' = vols /\ poc' = poc /\ left' = left /\ right' = right + 1 /\ right < Bins
        /\ accum' = accum + vols[right + 1] /\ 10 * accum < 7 * Total
        /\ left > 1 => ~(vols[left - 1] >= vols[right + 1])
    BY <1>3 DEF WidenRight, Wanting, LeftVolume, RightVolume
  <2>2. /\ accum' = VolumeIn(left, right + 1) /\ VolumeIn(left, right) = accum
    BY <1>1, <2>1, VolumeSteps DEF ProfileInv
  <2>3. /\ right + 1 \in poc .. Bins /\ right + 1 > poc /\ (right + 1) - 1 = right
        /\ right + 1 \in 1 .. Bins /\ left > 1 => left - 1 \in 1 .. Bins
    BY <1>1, <2>1
  <2>4. left > 1 => vols[left - 1] < vols[right + 1]
    BY <1>1, <2>1, <2>3
  <2>5. Total' = Total /\ \A l, r : VolumeIn(l, r)' = VolumeIn(l, r)
    BY <2>1 DEF Total, VolumeIn
  <2> QED
    BY <1>1, <2>1, <2>2, <2>3, <2>4, <2>5 DEF ProfileInv
<1>4. CASE UNCHANGED profileVars
  BY <1>4 DEF profileVars, ProfileInv, VolumeIn, Total
<1> QED
  BY <1>2, <1>3, <1>4 DEF ProfileNext

(* What the search stops with is tight.                                      *)
LEMMA ProfileIsTight == ProfileInv => ValueAreaIsTight
<1> SUFFICES ASSUME ProfileInv, ~Wanting PROVE ValueAreaIsTight
  BY DEF ValueAreaIsTight
<1>1. /\ poc \in left .. right /\ left \in 1 .. Bins /\ right \in left .. Bins
      /\ vols \in [1 .. Bins -> 0 .. MaxVolume] /\ Bins \in Nat /\ accum = VolumeIn(left, right)
  BY ProfileAssumption DEF ProfileInv
<1>2. /\ VolumeIn(left, right) \in Int /\ Total \in Nat /\ VolumeIn(1, Bins) = Total
  BY <1>1, VolumeSteps
<1>3. 10 * accum < 7 * Total \/ 10 * accum >= 7 * Total
  BY <1>1, <1>2
<1>4. CASE 10 * accum < 7 * Total
  <2>1. left = 1 /\ right = Bins
    BY <1>1, <1>4 DEF Wanting
  <2> QED
    BY <1>1, <1>2, <1>4, <2>1
<1>5. CASE 10 * accum >= 7 * Total
  BY <1>1, <1>5 DEF ProfileInv, ValueAreaIsTight
<1> QED
  BY <1>3, <1>4, <1>5

(* And so is every area reported.                                            *)
LEMMA TightInProfile == ProfileSpec => []ValueAreaIsTight
  BY InitProfileInv, StepProfileInv, ProfileIsTight, PTL DEF ProfileSpec

-----------------------------------------------------------------------------
(* Plans and gates (TradeSignals), for any prices, any range and any part of *)
(* a cent.                                                                   *)

(* Multiples of a cent are in the order of their factors.                    *)
LEMMA TimesCent ==
  ASSUME NEW m \in Int, NEW n \in Int
  PROVE  /\ Cent * m \in Int /\ Cent * (m + 1) = Cent * m + Cent
         /\ m <= n => Cent * m <= Cent * n
<1>1. Cent \in Nat /\ Cent > 0
  BY SignalAssumption
<1>2. Cent * m \in Int /\ Cent * n \in Int /\ Cent * (m + 1) = Cent * m + Cent
  BY <1>1
<1>3. ASSUME m <= n PROVE Cent * m <= Cent * n
  <2>1. n - m \in Nat
    BY <1>3
  <2>2. Cent * (n - m) \in Nat
    BY <1>1, <2>1
  <2>3. Cent * (n - m) = Cent * n - Cent * m
    BY <1>1
  <2> QED
    BY <1>2, <2>2, <2>3
<1> QED
  BY <1>2, <1>3

(* A price is a number of cents and a rest; rounding adds a cent or nothing. *)
LEMMA CentsSplit ==
  ASSUME NEW x \in Int, NEW ups
  PROVE  \E c \in Int, rest \in 0 .. Cent - 1, u \in {0, 1} :
           /\ x = Cent * c + rest /\ Cents(x, ups) = Cent * (c + u)
           /\ u = 1 <=> 2 * rest > Cent \/ (2 * rest = Cent /\ x \in ups)
<1> DEFINE c == x \div Cent
           rest == x % Cent
           up == 2 * rest > Cent \/ (2 * rest = Cent /\ x \in ups)
           u == IF up THEN 1 ELSE 0
<1>1. Cent \in Nat /\ Cent > 0
  BY SignalAssumption
<1>2. c \in Int /\ rest \in 0 .. Cent - 1 /\ x = Cent * c + rest
  BY <1>1
<1>3. Cents(x, ups) = Cent * c + (IF up THEN Cent ELSE 0)
  BY DEF Cents
<1>4. u \in {0, 1} /\ (u = 1 <=> up)
  OBVIOUS
<1>5. Cents(x, ups) = Cent * (c + u)
  <2>1. Cent * (c + 1) = Cent * c + Cent /\ Cent * (c + 0) = Cent * c + 0
    <3> HIDE DEF c
    <3> QED
      BY <1>1, <1>2, TimesCent
  <2> HIDE DEF c, up
  <2> QED
    BY <1>3, <2>1
<1> HIDE DEF c, rest, u
<1> QED
  BY <1>2, <1>4, <1>5

(* Rounding keeps prices in order, and apart if they are more than a cent.   *)
LEMMA CentsKeepOrder ==
  ASSUME NEW x \in Int, NEW y \in Int, NEW ups, x <= y
  PROVE  /\ Cents(x, ups) \in Int /\ Cents(y, ups) \in Int
         /\ Cents(x, ups) <= Cents(y, ups)
         /\ y > x + Cent => Cents(x, ups) < Cents(y, ups)
<1>1. Cent \in Nat /\ Cent > 0
  BY SignalAssumption
<1>2. PICK a \in Int, r \in 0 .. Cent - 1, u \in {0, 1} :
           /\ x = Cent * a + r /\ Cents(x, ups) = Cent * (a + u)
           /\ u = 1 <=> 2 * r > Cent \/ (2 * r = Cent /\ x \in ups)
  BY CentsSplit
<1>3. PICK b \in Int, s \in 0 .. Cent - 1, w \in {0, 1} :
           /\ y = Cent * b + s /\ Cents(y, ups) = Cent * (b + w)
           /\ w = 1 <=> 2 * s > Cent \/ (2 * s = Cent /\ y \in ups)
  BY CentsSplit
<1>4. a <= b
  <2> SUFFICES ASSUME b + 1 <= a PROVE FALSE
    OBVIOUS
  <2>1. Cent * (b + 1) = Cent * b + Cent /\ Cent * (b + 1) <= Cent * a
    BY TimesCent
  <2>2. Cent * a \in Int /\ Cent * b \in Int
    BY TimesCent
  <2> QED
    BY <1>1, <1>2, <1>3, <2>1, <2>2
<1>5. a + u \in Int /\ b + w \in Int
  OBVIOUS
<1>6. a + u <= b + w
  <2>1. CASE a = b
    <3>1. Cent * a \in Int /\ r <= s /\ (r = s => x = y)
      BY <1>1, <1>2, <1>3, <2>1, TimesCent
    <3>2. u = 1 => w = 1
      BY <1>1, <1>2, <1>3, <3>1
    <3> QED
      BY <2>1, <3>2
  <2>2. CASE a + 1 <= b
    BY <2>2
  <2> QED
    BY <1>4, <2>1, <2>2
<1>7. ASSUME y > x + Cent PROVE a + u + 1 <= b + w
  <2>1. Cent * a \in Int /\ Cent * b \in Int /\ Cent * (a + 1) = Cent * a + Cent
    BY TimesCent
  <2>2. CASE a = b
    BY <1>1, <1>2, <1>3, <1>7, <2>1, <2>2
  <2>3. CASE a + 1 = b
    <3>1. s > r
      BY <1>1, <1>2, <1>3, <1>7, <2>1, <2>3
    <3>2. u = 1 => w = 1
      BY <1>1, <1>2, <1>3, <3>1
    <3> QED
      BY <2>3, <3>2
  <2>4. CASE a + 2 <= b
    BY <2>4
  <2> QED
    BY <1>4, <2>2, <2>3, <2>4
<1>8. Cent * (a + u) \in Int /\ Cent * (b + w) \in Int /\ Cent * (a + u) <= Cent * (b + w)
  BY <1>5, <1>6, TimesCent
<1>9. ASSUME y > x + Cent PROVE Cent * (a + u) < Cent * (b + w)
  <2>1. (a + u) + 1 \in Int /\ (a + u) + 1 <= b + w
    BY <1>5, <1>7, <1>9
  <2>2. Cent * ((a + u) + 1) = Cent * (a + u) + Cent /\ Cent * ((a + u) + 1) <= Cent * (b + w)
    BY <1>5, <2>1, TimesCent
  <2> QED
    BY <1>1, <1>8, <2>2
<1> QED
  BY <1>2, <1>3, <1>8, <1>9

(* The advice is the plan for the reading, however halves of cents round.    *)
SignalInv ==
  desk = "suite" =>
    /\ reading \in SuiteReadings
    /\ \A plan \in advice : \E ups : plan = Plan(reading, ups)

(* At first there is no advice.                                              *)
LEMMA InitSignalInv == SignalInit => SignalInv
BY DEF SignalInit, SignalInv

(* Advice of the suite is a plan for its reading.                            *)
LEMMA StepSignalInv == SignalInv /\ [SignalNext]_signalVars => SignalInv'
<1> SUFFICES ASSUME SignalInv, [SignalNext]_signalVars PROVE SignalInv'
  OBVIOUS
<1>1. desk' = desk /\ reading' = reading
  BY DEF SignalNext, signalVars
<1>2. CASE desk = "suite" /\ advice' # advice
  <2>1. PICK ups : advice' = {Plan(reading, ups)}
    BY <1>2 DEF SignalNext, signalVars
  <2>2. \A plan \in advice' : plan = Plan(reading', ups)
    BY <1>1, <2>1
  <2> QED
    BY <1>1, <2>2 DEF SignalInv
<1>3. CASE desk # "suite" \/ advice' = advice
  BY <1>1, <1>3 DEF SignalInv
<1> QED
  BY <1>2, <1>3
(* The tenths of an ATR on the long side.                                    *)
LEMMA TimesMinus ==
  \A m \in Int : m + 1 = 0 =>
    3 * m = -3 /\ -m = 1 /\ 15 * m = -15 /\ -15 * m = 15 /\ -30 * m = 30
OBVIOUS

(* And on the short one.                                                     *)
LEMMA TimesMinusOne ==
  3 * (-1) = -3 /\ -(-1) = 1 /\ 15 * (-1) = -15 /\ -15 * (-1) = 15 /\ -30 * (-1) = 30
<1> DEFINE m == -1
<1>1. m \in Int /\ m + 1 = 0
  OBVIOUS
<1> HIDE DEF m
<1>2. 3 * m = -3 /\ -m = 1 /\ 15 * m = -15 /\ -15 * m = 15 /\ -30 * m = 30
  BY <1>1, TimesMinus
<1> QED
  BY ONLY <1>2, Zenon DEF m


(* The numbers of a plan for any reading.                                    *)
LEMMA PlanIsSound ==
  ASSUME NEW r \in SuiteReadings, NEW ups, NEW plan, plan = Plan(r, ups)
  PROVE  /\ plan.action = "long" =>
              /\ plan.stop <= plan.near /\ plan.near <= plan.far
              /\ plan.far <= plan.target1 /\ plan.target1 <= plan.target2
              /\ 10 * r.atr >= Cent => plan.stop < plan.near /\ plan.far < plan.target1
         /\ plan.action = "short" =>
              /\ plan.stop >= plan.near /\ plan.near >= plan.far
              /\ plan.far >= plan.target1 /\ plan.target1 >= plan.target2
              /\ 10 * r.atr >= Cent => plan.stop > plan.near /\ plan.far > plan.target1
         /\ plan.action = "wait" => /\ plan.stop <= plan.near /\ plan.near <= plan.target1
                                    /\ plan.target1 <= plan.target2 /\ plan.target2 = plan.far
         /\ plan.conviction <= 95
         /\ plan.conviction > 45 <=> plan.action # "wait"
         /\ \A f \in {"stop", "near", "far", "target1", "target2"} : plan[f] \in Int
<1>1. /\ Cent \in Nat /\ Cent > 0 /\ r.price \in Nat /\ r.atr \in Nat
      /\ r.up \in Nat /\ r.down \in Nat
      /\ r.val \in Nat /\ r.poc \in Nat /\ r.vah \in Nat /\ r.val <= r.poc /\ r.poc <= r.vah
  BY SignalAssumption
<1> DEFINE p(k) == Cents(Away(r, k), ups)
<1>2. \A k, m \in -30 .. 30 :
        k <= m => /\ p(k) \in Int /\ p(m) \in Int /\ p(k) <= p(m)
                  /\ m - k >= 12 /\ 10 * r.atr >= Cent => p(k) < p(m)
  <2> TAKE k, m \in -30 .. 30
  <2> HAVE k <= m
  <2> DEFINE A == r.atr
             P == r.price
             x == P + k * A
             y == P + m * A
             d == (m - k) * A
  <2>1. A \in Nat /\ P \in Nat /\ k \in Int /\ m \in Int /\ m - k \in Nat
    BY <1>1
  <2> HIDE DEF A, P
  <2>2. x \in Int /\ y \in Int /\ d \in Nat /\ y = x + d
    BY <2>1
  <2>3. ASSUME m - k >= 12, 10 * A >= Cent PROVE d > Cent
    <3>1. (m - k) - 12 \in Nat
      BY <2>1, <2>3
    <3>2. ((m - k) - 12) * A \in Nat /\ d = ((m - k) - 12) * A + 12 * A
      BY <2>1, <3>1
    <3>3. 12 * A > Cent
      BY <1>1, <2>1, <2>3
    <3> QED
      BY <1>1, <2>1, <3>2, <3>3
  <2>4. p(k) = Cents(x, ups) /\ p(m) = Cents(y, ups)
    BY DEF Away, A, P
  <2> HIDE DEF x, y, d, p
  <2>5. x <= y
    BY <2>2
  <2>6. /\ p(k) \in Int /\ p(m) \in Int /\ p(k) <= p(m)
        /\ y > x + Cent => p(k) < p(m)
    BY <2>2, <2>4, <2>5, CentsKeepOrder
  <2>7. m - k >= 12 /\ 10 * A >= Cent => y > x + Cent
    BY <1>1, <2>2, <2>3
  <2> QED
    BY <2>6, <2>7 DEF A
<1>20. /\ -30 \in -30 .. 30 /\ -15 \in -30 .. 30 /\ -3 \in -30 .. 30 /\ -1 \in -30 .. 30
       /\ 30 \in -30 .. 30 /\ 15 \in -30 .. 30 /\ 3 \in -30 .. 30 /\ 1 \in -30 .. 30
  OBVIOUS
<1>21. /\ -30 <= -15 /\ -15 <= -3 /\ -15 <= -1 /\ -3 <= 1 /\ -1 <= 3 /\ 1 <= 15 /\ 3 <= 15
       /\ 15 <= 30 /\ -3 - (-15) >= 12 /\ 15 - 1 >= 12 /\ 15 - 3 >= 12 /\ -1 - (-15) >= 12
  OBVIOUS
<1>3. Conviction(r) \in Int /\ Conviction(r) <= 95 /\ Conviction(r) > 45
  <2> DEFINE d == Distance(r.up, r.down)
             q == (d * 7) \div 10
  <2>1. d \in Nat
    BY <1>1 DEF Distance
  <2> HIDE DEF d
  <2>2. q \in Nat
    BY <2>1
  <2>3. Conviction(r) = LET c == 50 + q + (IF r.squeeze THEN 10 ELSE 20)
                        IN IF c < 95 THEN c ELSE 95
    BY DEF Conviction, d
  <2> HIDE DEF q
  <2> QED
    BY <2>2, <2>3
<1> HIDE DEF p
<1>4. CASE Long(r)
  <2>1. plan = [action |-> "long", near |-> p(3 * (-1)), far |-> p(-(-1)), stop |-> p(15 * (-1)),
                target1 |-> p(-15 * (-1)), target2 |-> p(-30 * (-1)), conviction |-> Conviction(r)]
    BY <1>4 DEF Plan, p
  <2>3. /\ plan.action = "long" /\ plan.near = p(-3) /\ plan.far = p(1) /\ plan.stop = p(-15)
        /\ plan.target1 = p(15) /\ plan.target2 = p(30) /\ plan.conviction = Conviction(r)
    BY ONLY <2>1, TimesMinusOne, Zenon
  <2>4. /\ p(-15) <= p(-3) /\ p(-3) <= p(1) /\ p(1) <= p(15) /\ p(15) <= p(30)
        /\ p(-15) \in Int /\ p(-3) \in Int /\ p(1) \in Int /\ p(15) \in Int /\ p(30) \in Int
        /\ 10 * r.atr >= Cent => p(-15) < p(-3) /\ p(1) < p(15)
    BY <1>2, <1>20, <1>21
  <2> QED
    BY <1>3, <2>3, <2>4
<1>5. CASE ~Long(r) /\ Short(r)
  <2>1. plan = [action |-> "short", near |-> p(3 * 1), far |-> p(-1), stop |-> p(15 * 1),
                target1 |-> p(-15 * 1), target2 |-> p(-30 * 1), conviction |-> Conviction(r)]
    BY <1>5 DEF Plan, p
  <2>2. 3 * 1 = 3 /\ 15 * 1 = 15 /\ -15 * 1 = -15 /\ -30 * 1 = -30
    OBVIOUS
  <2>3. /\ plan.action = "short" /\ plan.near = p(3) /\ plan.far = p(-1) /\ plan.stop = p(15)
        /\ plan.target1 = p(-15) /\ plan.target2 = p(-30) /\ plan.conviction = Conviction(r)
    BY <2>1, <2>2
  <2>4. /\ p(-30) <= p(-15) /\ p(-15) <= p(-1) /\ p(-1) <= p(3) /\ p(3) <= p(15)
        /\ p(-30) \in Int /\ p(-15) \in Int /\ p(-1) \in Int /\ p(3) \in Int /\ p(15) \in Int
        /\ 10 * r.atr >= Cent => p(3) < p(15) /\ p(-15) < p(-1)
    BY <1>2, <1>20, <1>21
  <2> QED
    BY <1>3, <2>3, <2>4
<1>6. CASE ~Long(r) /\ ~Short(r)
  <2>1. plan = Wait(r, ups)
    BY <1>6 DEF Plan
  <2> DEFINE v == r.val
             s == r.val - 10 * r.atr
  <2>2. s \in Int /\ v \in Int /\ r.poc \in Int /\ r.vah \in Int /\ s <= v
    BY <1>1
  <2>3. /\ Cents(s, ups) <= Cents(v, ups) /\ Cents(v, ups) <= Cents(r.poc, ups)
        /\ Cents(r.poc, ups) <= Cents(r.vah, ups)
        /\ Cents(s, ups) \in Int /\ Cents(v, ups) \in Int /\ Cents(r.poc, ups) \in Int
        /\ Cents(r.vah, ups) \in Int
    <3> HIDE DEF s, v
    <3>1. v <= r.poc /\ r.poc <= r.vah
      BY <1>1 DEF v
    <3> QED
      BY <2>2, <3>1, CentsKeepOrder
  <2>4. /\ plan.action = "wait" /\ plan.near = Cents(v, ups) /\ plan.far = Cents(r.vah, ups)
        /\ plan.stop = Cents(s, ups) /\ plan.target1 = Cents(r.poc, ups)
        /\ plan.target2 = Cents(r.vah, ups) /\ plan.conviction = 45
    BY <2>1 DEF Wait
  <2> QED
    BY <2>3, <2>4
<1> QED
  BY <1>4, <1>5, <1>6

(* So the advice is sound.                                                   *)
LEMMA SuitePlansAreSound == SignalInv => PlansAreSound
<1> SUFFICES ASSUME SignalInv, desk = "suite", NEW plan \in advice
             PROVE  LET ordered(s) == LET n(x) == s * x IN
                          /\ n(plan.stop) <= n(plan.near) /\ n(plan.near) <= n(plan.far)
                          /\ n(plan.far) <= n(plan.target1) /\ n(plan.target1) <= n(plan.target2)
                          /\ 10 * reading.atr >= Cent => /\ n(plan.stop) < n(plan.near)
                                                         /\ n(plan.far) < n(plan.target1)
                    IN /\ plan.action = "long" => ordered(1)
                       /\ plan.action = "short" => ordered(-1)
                       /\ plan.action = "wait" => /\ plan.stop <= plan.near
                                                  /\ plan.near <= plan.target1
                                                  /\ plan.target1 <= plan.target2
                                                  /\ plan.target2 = plan.far
                       /\ plan.conviction <= 95
                       /\ plan.conviction > 45 <=> plan.action # "wait"
  BY DEF PlansAreSound
<1>1. PICK ups : plan = Plan(reading, ups)
  BY DEF SignalInv
<1>2. reading \in SuiteReadings
  BY DEF SignalInv
<1>3. \A x \in Int : 1 * x = x /\ (-1) * x = -x
  OBVIOUS
<1>4. /\ plan.stop \in Int /\ plan.near \in Int /\ plan.far \in Int
      /\ plan.target1 \in Int /\ plan.target2 \in Int
  BY <1>1, <1>2, PlanIsSound
<1>5. \A x, y \in Int : (-1) * x <= (-1) * y <=> x >= y
  OBVIOUS
<1>6. \A x, y \in Int : (-1) * x < (-1) * y <=> x > y
  OBVIOUS
<1> QED
  BY <1>1, <1>2, <1>3, <1>4, <1>5, <1>6, PlanIsSound

(* In every behaviour.                                                       *)
LEMMA SoundInSignals == SignalSpec => []PlansAreSound
  BY InitSignalInv, StepSignalInv, SuitePlansAreSound, PTL DEF SignalSpec

(* An alert's own gate and the engine's let the same setups pass.            *)
LEMMA GatesOfOneSetup ==
  ASSUME NEW r, NEW regime,
         NEW a \in {"gap_up", "gap_down", "breakout", "breakdown", "fade_high", "fade_low"},
         NEW s, s = [gap_up |-> "gap_up", gap_down |-> "gap_down", breakout |-> "orb_up",
                     breakdown |-> "orb_down", fade_high |-> "overbought",
                     fade_low |-> "oversold"][a],
         ~(a = "breakdown" /\ regime = "STAGFLATION")
  PROVE  AlertGate(regime, {a}, r) = {} <=> Gate(regime, {s}, Shown(r)) = {}
<1> DEFINE confirmed == Shown(r).rvol >= 2000 /\ Shown(r).rsi >= 6000
<1>1. CASE regime = "RISK-OFF"
  <2>1. /\ AlertGate(regime, {a}, r) = {} <=> a \in {"gap_up", "breakout", "fade_low"} /\ ~confirmed
        /\ Gate(regime, {s}, Shown(r)) = {} <=> s \in LongSignals /\ ~confirmed
    BY <1>1 DEF AlertGate, Gate
  <2>2. a \in {"gap_up", "breakout", "fade_low"} <=> s \in LongSignals
    BY DEF LongSignals
  <2> QED
    BY <2>1, <2>2
<1>2. CASE regime = "STAGFLATION"
  <2>1. /\ AlertGate(regime, {a}, r) = {} <=> a \in {"gap_up", "gap_down", "breakout"}
        /\ Gate(regime, {s}, Shown(r)) = {} <=> s \in Breakouts
    BY <1>2 DEF AlertGate, Gate
  <2>2. a \in {"gap_up", "gap_down", "breakout"} <=> s \in Breakouts
    BY <1>2 DEF Breakouts
  <2> QED
    BY <2>1, <2>2
<1>3. CASE regime # "RISK-OFF" /\ regime # "STAGFLATION"
  BY <1>3 DEF AlertGate, Gate
<1> QED
  BY <1>1, <1>2, <1>3

(* The setups there are.                                                     *)
LEMMA AlertsAreSetups ==
  \A r : Alert(r) \subseteq {"gap_up", "gap_down", "breakout", "breakdown", "fade_high", "fade_low"}
BY DEF Alert

(* The gates agree in every state.                                           *)
LEMMA GatesAlwaysAgree == GatesAgree
<1> SUFFICES ASSUME NEW a \in Alert(reading), ~(a = "breakdown" /\ reading.regime = "STAGFLATION")
             PROVE  LET same == [gap_up |-> "gap_up", gap_down |-> "gap_down",
                                 breakout |-> "orb_up", breakdown |-> "orb_down",
                                 fade_high |-> "overbought", fade_low |-> "oversold"]
                    IN AlertGate(reading.regime, {a}, reading) = {} <=>
                         Gate(reading.regime, {same[a]}, Shown(reading)) = {}
  BY DEF GatesAgree
<1>1. a \in {"gap_up", "gap_down", "breakout", "breakdown", "fade_high", "fade_low"}
  BY AlertsAreSetups
<1> QED
  BY <1>1, GatesOfOneSetup

(* The sizes of the slices grow by one at a time, and so does their sum.     *)
LEMMA SumOneMore ==
  ASSUME NEW k \in Nat, NEW f, DOMAIN f = 0 .. k - 1, \A i \in 0 .. k - 1 : f[i] \in Nat,
         NEW n \in Nat, NEW g, g = [i \in 0 .. k |-> IF i = k THEN n ELSE f[i]]
  PROVE  SumFunction(f) \in Nat /\ SumFunction(g) = SumFunction(f) + n
<1> DEFINE D == 0 .. k - 1
<1>1. IsFiniteSet(D) /\ k \notin D /\ 0 .. k = D \cup {k}
  <2>1. k \notin D /\ 0 .. k = D \cup {k}
    OBVIOUS
  <2>2. 0 \in Int /\ k - 1 \in Int
    OBVIOUS
  <2> QED
    BY <2>1, <2>2, FS_Interval
<1>2. /\ \A i \in D : g[i] = f[i] /\ f[i] \in Nat
      /\ g[k] = n /\ DOMAIN g = D \cup {k} /\ DOMAIN f = D
  BY <1>1
<1> HIDE DEF D
<1>3. Sum(f, D) \in Nat /\ Sum(g, D) = Sum(f, D)
  BY <1>1, <1>2, SumNatural, SumSame
<1>4. Sum(g, D \cup {k}) = Sum(g, D) + g[k]
  <2>1. \A y \in D \cup {k} : g[y] \in Int
    BY <1>2
  <2> QED
    BY <1>1, <2>1, SumAdd
<1>5. SumFunction(f) = Sum(f, D) /\ SumFunction(g) = Sum(g, D \cup {k})
  BY <1>2 DEF SumFunction, FoldFunction, Sum, SumFunctionOnSet
<1> QED
  BY <1>2, <1>3, <1>4, <1>5

(* Between slices: what was cut and what remains are the order; what remains *)
(* of an order with a share for each slice has one for each that follows.    *)
SlicingInv ==
  /\ algo \in {"TWAP", "VWAP", "MARKET"} /\ shares \in Nat \ {0} /\ slice \in 0 .. Slices
  /\ \E n \in Nat : DOMAIN traded = 0 .. n - 1
  /\ (\A i \in DOMAIN traded : traded[i] \in Nat) /\ SumFunction(traded) > 0
  /\ algo = "MARKET" => \/ slice = 0
                        \/ slice = Slices /\ DOMAIN sizes = {0} /\ sizes[0] = shares
  /\ algo # "MARKET" => DOMAIN sizes = 0 .. slice - 1 /\ \A i \in 0 .. slice - 1 : sizes[i] \in Nat
  /\ algo = "VWAP" =>
       /\ remaining \in Nat /\ SumFunction(sizes) + remaining = shares
       /\ shares >= Slices => remaining >= Slices - slice
       /\ slice = Slices => remaining = 0 /\ (shares >= Slices => sizes[Slices - 1] > 0)
  /\ algo = "TWAP" =>
       LET q == shares \div Slices
           r == shares % Slices
       IN /\ \A i \in 0 .. slice - 1 : sizes[i] = q + (IF i < r THEN 1 ELSE 0)
          /\ SumFunction(sizes) = slice * q + Smaller(slice, r)

(* The bars of a slice are bars of the history, so that its part is a number. *)
LEMMA WantedIsNumber ==
  ASSUME SlicingInv, NEW i \in 0 .. Slices - 1
  PROVE  Rounded(shares * SumFunctionOnSet(traded, BarsOf(i)), SumFunction(traded)) \in Int
<1>1. PICK n \in Nat : DOMAIN traded = 0 .. n - 1
  BY DEF SlicingInv
<1>2. IsFiniteSet(0 .. n - 1) /\ Cardinality(0 .. n - 1) = n
  BY FS_Interval
<1>3. BarsOf(i) \subseteq 0 .. n - 1
  <2> DEFINE w == n \div Slices
  <2>1. w \in Nat /\ w * Slices <= n /\ Slices \in Nat /\ Slices > 0
    BY SlicingAssumption
  <2> HIDE DEF w
  <2>2. i \in Nat /\ i <= Slices - 1
    BY <2>1
  <2>3. i * w \in Nat /\ (i + 1) * w \in Nat
    BY <2>1, <2>2
  <2>4. (i + 1) * w <= Slices * w
    <3>1. PICK j \in Nat : Slices = (i + 1) + j
      <4>1. (Slices - 1) - i \in Nat /\ Slices = (i + 1) + ((Slices - 1) - i)
        BY <2>1, <2>2
      <4> QED
        BY <4>1
    <3>2. Slices * w = (i + 1) * w + j * w /\ j * w \in Nat
      BY <2>1, <2>2, <3>1
    <3> QED
      BY <2>3, <3>2
  <2>5. BarsOf(i) = i * w .. (IF i = Slices - 1 THEN n ELSE (i + 1) * w) - 1
    BY <1>1, <1>2 DEF BarsOf, w
  <2>6. (i + 1) * w <= n
    BY <2>1, <2>2, <2>3, <2>4
  <2> QED
    BY <2>3, <2>5, <2>6
<1> DEFINE B == BarsOf(i)
           a == Sum(traded, B)
           b == SumFunction(traded)
<1> HIDE DEF B
<1>4. IsFiniteSet(B) /\ \A x \in B : traded[x] \in Nat
  BY <1>1, <1>2, <1>3, FS_Subset DEF SlicingInv, B
<1>5. a \in Nat
  BY <1>4, SumNatural
<1>6. b \in Nat /\ b > 0
  <2>1. b = Sum(traded, 0 .. n - 1)
    BY <1>1 DEF SumFunction, FoldFunction, Sum, SumFunctionOnSet
  <2>2. Sum(traded, 0 .. n - 1) \in Nat
    BY <1>1, <1>2, SumNatural DEF SlicingInv
  <2> QED
    BY <2>1, <2>2 DEF SlicingInv
<1> HIDE DEF a, b
<1>7. shares * a \in Int
  BY <1>5 DEF SlicingInv
<1>8. Rounded(shares * a, b) \in Int
  <2> DEFINE x == shares * a
  <2> HIDE DEF x
  <2>1. x \div b \in Int
    BY <1>6, <1>7 DEF x
  <2> QED
    BY <1>6, <2>1 DEF Rounded, x
<1> QED
  BY <1>8 DEF a, b, B, Sum

(* Before the first slice the order remains.                                 *)
LEMMA InitSlicingInv == SlicingInit => SlicingInv
<1> SUFFICES ASSUME SlicingInit PROVE SlicingInv
  OBVIOUS
<1>0. Slices \in Nat /\ Slices > 0 /\ MaxShares \in Nat /\ MaxBars \in Nat /\ MaxTraded \in Nat
  BY SlicingAssumption
<1>1. PICK n \in 1 .. MaxBars : traded \in [0 .. n - 1 -> 0 .. MaxTraded]
  BY DEF SlicingInit, Volumes
<1>2. /\ \E m \in Nat : DOMAIN traded = 0 .. m - 1
      /\ \A i \in DOMAIN traded : traded[i] \in Nat
      /\ SumFunction(traded) > 0
  BY <1>0, <1>1 DEF SlicingInit
<1>3. /\ algo \in {"TWAP", "VWAP", "MARKET"} /\ shares \in Nat \ {0} /\ slice = 0
      /\ remaining = shares /\ sizes = [i \in {} |-> 0]
  BY <1>0 DEF SlicingInit
<1>4. DOMAIN sizes = {} /\ 0 .. slice - 1 = {}
  BY <1>3
<1>5. SumFunction(sizes) = 0
  BY <1>4, SumEmpty DEF SumFunction, FoldFunction, Sum, SumFunctionOnSet
<1>6. shares % Slices \in Nat /\ shares \div Slices \in Int
  BY <1>0, <1>3
<1>7. 0 * (shares \div Slices) + Smaller(0, shares % Slices) = 0
  BY <1>6 DEF Smaller
<1>8. slice \in 0 .. Slices /\ slice # Slices /\ (shares >= Slices => remaining >= Slices - slice)
  BY <1>0, <1>3
<1>9. SumFunction(sizes) + remaining = shares /\ remaining \in Nat
  BY <1>3, <1>5
<1> QED
  BY <1>2, <1>3, <1>4, <1>5, <1>7, <1>8, <1>9 DEF SlicingInv

(* A slice takes its part of what remains, never more.                       *)
LEMMA StepSlicingInv == SlicingInv /\ [SlicingNext]_slicingVars => SlicingInv'
<1> SUFFICES ASSUME SlicingInv, [SlicingNext]_slicingVars PROVE SlicingInv'
  OBVIOUS
<1>0. /\ Slices \in Nat /\ Slices > 0 /\ shares \in Nat /\ shares > 0 /\ slice \in 0 .. Slices
      /\ slice \in Nat
  BY SlicingAssumption DEF SlicingInv
<1> DEFINE q == shares \div Slices
           r == shares % Slices
<1>1. /\ q \in Nat /\ r \in Nat /\ r < Slices /\ shares = Slices * q + r
  BY <1>0
<1>2. CASE SliceMarket
  <2>1. sizes' = [i \in 0 .. slice |-> IF i = slice THEN shares ELSE sizes[i]] /\ slice = 0
    BY <1>2 DEF SliceMarket, Cut
  <2>2. 0 .. slice = {0}
    BY <2>1
  <2>3. DOMAIN sizes' = {0} /\ sizes'[0] = shares /\ slice' = Slices
    BY <1>2, <2>1, <2>2 DEF SliceMarket
  <2>4. /\ algo' = "MARKET" /\ algo = "MARKET" /\ shares' = shares /\ traded' = traded
        /\ slice' \in 0 .. Slices
    BY <1>0, <1>2, <2>3 DEF SliceMarket
  <2> QED
    BY <2>3, <2>4 DEF SlicingInv
<1>3. CASE SliceTwap
  <2> DEFINE n == q + (IF slice < r THEN 1 ELSE 0)
  <2>1. /\ algo = "TWAP" /\ slice < Slices /\ slice' = slice + 1 /\ algo' = algo
        /\ shares' = shares /\ traded' = traded
        /\ sizes' = [i \in 0 .. slice |-> IF i = slice THEN n ELSE sizes[i]]
    BY <1>3 DEF SliceTwap, Cut
  <2>2. n \in Nat
    BY <1>1
  <2>3. /\ DOMAIN sizes = 0 .. slice - 1 /\ \A i \in 0 .. slice - 1 : sizes[i] \in Nat
        /\ \A i \in 0 .. slice - 1 : sizes[i] = q + (IF i < r THEN 1 ELSE 0)
        /\ SumFunction(sizes) = slice * q + Smaller(slice, r)
    BY <2>1 DEF SlicingInv
  <2> HIDE DEF q, r
  <2>4. SumFunction(sizes') = SumFunction(sizes) + n
    <3> HIDE DEF n
    <3> QED
      BY <1>0, <2>1, <2>2, <2>3, SumOneMore
  <2>5. SumFunction(sizes') = (slice + 1) * q + Smaller(slice + 1, r)
    <3>1. (slice + 1) * q = slice * q + q /\ slice * q \in Nat
      BY <1>0, <1>1
    <3>2. Smaller(slice + 1, r) = Smaller(slice, r) + (IF slice < r THEN 1 ELSE 0)
      BY <1>0, <1>1 DEF Smaller
    <3>3. Smaller(slice, r) \in Nat
      BY <1>0, <1>1 DEF Smaller
    <3> DEFINE u == slice * q
               v == (slice + 1) * q
    <3>4. u \in Nat /\ v = u + q /\ SumFunction(sizes) = u + Smaller(slice, r)
      BY <2>3, <3>1
    <3> HIDE DEF u, v
    <3>5. SumFunction(sizes') = v + Smaller(slice + 1, r)
      BY <1>1, <2>4, <3>2, <3>3, <3>4
    <3> QED
      BY <3>5 DEF v
  <2>6. slice' - 1 = slice /\ slice' \in 0 .. Slices
    BY <1>0, <2>1
  <2>7. \A i \in 0 .. slice : i \in 0 .. slice - 1 \/ i = slice
    BY <1>0
  <2>8. DOMAIN sizes' = 0 .. slice /\ \A i \in 0 .. slice : sizes'[i] \in Nat
    BY <2>1, <2>2, <2>3, <2>7
  <2>9. \A i \in 0 .. slice : sizes'[i] = q + (IF i < r THEN 1 ELSE 0)
    BY <2>1, <2>3, <2>7
  <2> HIDE DEF n
  <2>10. /\ \E m \in Nat : DOMAIN traded' = 0 .. m - 1
         /\ (\A i \in DOMAIN traded' : traded'[i] \in Nat) /\ SumFunction(traded') > 0
    BY <2>1 DEF SlicingInv
  <2> QED
    BY <1>0, <2>1, <2>5, <2>6, <2>8, <2>9, <2>10 DEF SlicingInv, q, r
<1>4. CASE SliceVwap
  <2> DEFINE n == IF slice = Slices - 1 THEN remaining ELSE Wanted(slice)
             p == Rounded(shares * SumFunctionOnSet(traded, BarsOf(slice)), SumFunction(traded))
  <2>1. /\ algo = "VWAP" /\ slice < Slices /\ slice' = slice + 1 /\ algo' = algo
        /\ shares' = shares /\ traded' = traded /\ remaining' = remaining - n
        /\ sizes' = [i \in 0 .. slice |-> IF i = slice THEN n ELSE sizes[i]]
    BY <1>4 DEF SliceVwap, Cut
  <2>2. p \in Int
    <3>1. slice \in 0 .. Slices - 1
      BY <1>0, <2>1
    <3> QED
      BY <3>1, WantedIsNumber
  <2>3. Wanted(slice) = Larger(0, Smaller(p, remaining - ((Slices - slice) - 1)))
    BY DEF Wanted
  <2>4. /\ remaining \in Nat /\ SumFunction(sizes) + remaining = shares
        /\ shares >= Slices => remaining >= Slices - slice
        /\ DOMAIN sizes = 0 .. slice - 1 /\ \A i \in 0 .. slice - 1 : sizes[i] \in Nat
    BY <2>1 DEF SlicingInv
  <2> HIDE DEF p
  <2>5. /\ n \in Nat /\ n <= remaining
        /\ slice = Slices - 1 => n = remaining
        /\ shares >= Slices => remaining - n >= Slices - (slice + 1)
    BY <1>0, <2>1, <2>2, <2>3, <2>4 DEF Larger, Smaller
  <2> HIDE DEF n
  <2>6. SumFunction(sizes) \in Nat /\ SumFunction(sizes') = SumFunction(sizes) + n
    <3>1. /\ slice \in Nat /\ DOMAIN sizes = 0 .. slice - 1 /\ n \in Nat
          /\ \A i \in 0 .. slice - 1 : sizes[i] \in Nat
          /\ sizes' = [i \in 0 .. slice |-> IF i = slice THEN n ELSE sizes[i]]
      BY <1>0, <2>1, <2>4, <2>5
    <3> QED
      BY ONLY <3>1, SumOneMore
  <2>7. slice' - 1 = slice /\ slice' \in 0 .. Slices
    BY <1>0, <2>1
  <2>8. \A i \in 0 .. slice : i \in 0 .. slice - 1 \/ i = slice
    BY <1>0
  <2>9. DOMAIN sizes' = 0 .. slice /\ \A i \in 0 .. slice : sizes'[i] \in Nat
    BY <2>1, <2>4, <2>5, <2>8
  <2>10. remaining' \in Nat /\ SumFunction(sizes') + remaining' = shares
    BY <1>0, <2>1, <2>4, <2>5, <2>6
  <2>11. shares >= Slices => remaining' >= Slices - slice'
    BY <1>0, <2>1, <2>4, <2>5
  <2>12. ASSUME slice' = Slices PROVE remaining' = 0 /\ (shares >= Slices => sizes'[Slices - 1] > 0)
    <3>1. slice = Slices - 1 /\ n = remaining
      BY <1>0, <2>1, <2>5, <2>12
    <3>2. remaining' = 0 /\ (shares >= Slices => n > 0)
      BY <1>0, <2>1, <2>4, <3>1
    <3>3. sizes'[Slices - 1] = n
      BY <1>0, <2>1, <3>1
    <3> QED
      BY <3>2, <3>3
  <2>13. /\ \E m \in Nat : DOMAIN traded' = 0 .. m - 1
         /\ (\A i \in DOMAIN traded' : traded'[i] \in Nat) /\ SumFunction(traded') > 0
    BY <2>1 DEF SlicingInv
  <2> QED
    BY <1>0, <2>1, <2>7, <2>9, <2>10, <2>11, <2>12, <2>13 DEF SlicingInv
<1>5. CASE UNCHANGED slicingVars
  BY <1>5 DEF SlicingInv, slicingVars
<1> QED
  BY <1>2, <1>3, <1>4, <1>5 DEF SlicingNext

(* After the last slice nothing remains.                                     *)
LEMMA SharesAreSliced == SlicingInv => EveryShareIsSliced
<1> SUFFICES ASSUME SlicingInv, slice = Slices PROVE EveryShareIsSliced
  BY DEF EveryShareIsSliced
<1>0. Slices \in Nat /\ Slices > 0 /\ shares \in Nat /\ shares > 0
  BY SlicingAssumption DEF SlicingInv
<1>1. CASE algo = "MARKET"
  <2>1. DOMAIN sizes = {0} /\ sizes[0] = shares
    BY <1>0, <1>1 DEF SlicingInv
  <2>2. IsFiniteSet({}) /\ {} \cup {0} = {0} /\ \A y \in {} \cup {0} : sizes[y] \in Int
    BY <1>0, <2>1, FS_EmptySet
  <2>3. Sum(sizes, {} \cup {0}) = Sum(sizes, {}) + sizes[0]
    BY <2>2, SumAdd
  <2>4. Sum(sizes, {0}) = shares
    BY <1>0, <2>1, <2>2, <2>3, SumEmpty
  <2>5. SumFunction(sizes) = shares
    BY <2>1, <2>4 DEF SumFunction, FoldFunction, Sum, SumFunctionOnSet
  <2> QED
    BY <1>0, <1>1, <2>1, <2>5 DEF EveryShareIsSliced
<1>2. CASE algo = "TWAP"
  <2> DEFINE q == shares \div Slices
             r == shares % Slices
  <2>1. q \in Nat /\ r \in Nat /\ r < Slices /\ shares = Slices * q + r
    BY <1>0
  <2>2. /\ DOMAIN sizes = 0 .. Slices - 1
        /\ \A i \in 0 .. Slices - 1 : sizes[i] = q + (IF i < r THEN 1 ELSE 0)
        /\ SumFunction(sizes) = Slices * q + Smaller(Slices, r)
    BY <1>2 DEF SlicingInv
  <2> HIDE DEF q, r
  <2>3. Smaller(Slices, r) = r
    BY <1>0, <2>1 DEF Smaller
  <2>4. SumFunction(sizes) = shares
    BY <2>1, <2>2, <2>3
  <2>5. \A i, j \in DOMAIN sizes : sizes[i] >= 0 /\ sizes[i] <= sizes[j] + 1
    BY <2>1, <2>2
  <2> QED
    BY <1>2, <2>4, <2>5 DEF EveryShareIsSliced
<1>3. CASE algo = "VWAP"
  <2>1. /\ DOMAIN sizes = 0 .. Slices - 1 /\ \A i \in 0 .. Slices - 1 : sizes[i] \in Nat
        /\ remaining = 0 /\ SumFunction(sizes) + remaining = shares
        /\ shares >= Slices => sizes[Slices - 1] > 0
    BY <1>3 DEF SlicingInv
  <2>2. SumFunction(sizes) \in Nat
    <3>1. SumFunction(sizes) = Sum(sizes, 0 .. Slices - 1)
      BY <2>1 DEF SumFunction, FoldFunction, Sum, SumFunctionOnSet
    <3>2. IsFiniteSet(0 .. Slices - 1)
      <4>1. 0 \in Int /\ Slices - 1 \in Int
        BY <1>0
      <4> QED
        BY <4>1, FS_Interval
    <3> QED
      BY <2>1, <3>1, <3>2, SumNatural
  <2> QED
    BY <1>3, <2>1, <2>2 DEF EveryShareIsSliced
<1> QED
  BY <1>1, <1>2, <1>3 DEF SlicingInv

(* So it is in every behaviour of the algorithms.                            *)
LEMMA SlicedInSlicing == SlicingSpec => []EveryShareIsSliced
  BY InitSlicingInv, StepSlicingInv, SharesAreSliced, PTL DEF SlicingSpec

-----------------------------------------------------------------------------
(* Ticks and bars (TickStore), for any length of a minute.                   *)

(* The kinds of finitely many ticks are finitely many.                       *)
LEMMA ImageIsFinite ==
  ASSUME NEW D, IsFiniteSet(D), NEW c
  PROVE  IsFiniteSet({c[i] : i \in D})
<1> DEFINE K == {c[i] : i \in D}
           h == [i \in D |-> c[i]]
<1>1. h \in Surjection(D, K)
  BY DEF Surjection
<1> HIDE DEF h, K
<1>2. IsFiniteSet(K)
  BY <1>1, FS_Surjection
<1> QED
  BY <1>2 DEF K

(* The bars of B, one for each kind, hold the ticks of D, by their kinds.    *)
HoldAll(D, c, R, K, B, kind) ==
  /\ \A k : k \in K <=> \E i \in D : k = c[i]
  /\ \A b : b \in B <=> \E k \in K : b = R[k]
  /\ \A k, l \in K : R[k] = R[l] => k = l
  /\ \A k \in K : R[k].volume = Cardinality(kind[k])
  /\ \A k \in K : \A i : i \in kind[k] <=> i \in D /\ c[i] = k

(* Bars hold as many ticks as there are, counted kind by kind.               *)
LEMMA CountByKind ==
  ASSUME NEW D, IsFiniteSet(D), NEW c, NEW R, NEW K, NEW B, NEW kind, HoldAll(D, c, R, K, B, kind)
  PROVE  VolumeOf(B) = Cardinality(D)
<1> DEFINE Bars(U) == {R[k] : k \in U}
           Within(U) == {i \in D : c[i] \in U}
           Class(k) == {i \in D : c[i] = k}
           F(U) == [b \in Bars(U) |-> b.volume]
           C == {U \in SUBSET K : VolumeOf(Bars(U)) = Cardinality(Within(U))}
<1>0. /\ K = {c[i] : i \in D} /\ B = Bars(K)
      /\ \A k \in K : R[k].volume = Cardinality(Class(k))
      /\ \A k, l \in K : R[k] = R[l] => k = l
  <2>1. K = {c[i] : i \in D}
    BY DEF HoldAll
  <2>2. B = Bars(K)
    BY DEF HoldAll
  <2>3. \A k \in K : R[k].volume = Cardinality(Class(k))
    <3> TAKE k \in K
    <3>1. \A i : i \in kind[k] <=> i \in Class(k)
      BY DEF HoldAll
    <3>2. kind[k] = Class(k)
      <4> HIDE DEF Class
      <4> SUFFICES ASSUME NEW i PROVE i \in kind[k] <=> i \in Class(k)
        OBVIOUS
      <4> QED
        BY <3>1
    <3> QED
      BY <3>2 DEF HoldAll
  <2>4. \A k, l \in K : R[k] = R[l] => k = l
    BY DEF HoldAll
  <2> QED
    BY <2>1, <2>2, <2>3, <2>4
<1>1. IsFiniteSet(K)
  BY <1>0, ImageIsFinite
<1>2. \A U : VolumeOf(Bars(U)) = Sum(F(U), Bars(U))
  BY DEF VolumeOf, SumFunction, FoldFunction, Sum, SumFunctionOnSet
<1>3. {} \in C
  <2>1. Bars({}) = {} /\ Within({}) = {}
    OBVIOUS
  <2>2. Sum(F({}), {}) = 0
    <3> HIDE DEF F
    <3> QED
      BY SumEmpty
  <2>3. VolumeOf(Bars({})) = 0
    <3> HIDE DEF F, Bars
    <3> QED
      BY <1>2, <2>1, <2>2
  <2>4. Cardinality(Within({})) = 0
    BY <2>1, FS_EmptySet
  <2> QED
    BY <2>3, <2>4
<1>4. ASSUME NEW U \in SUBSET K, U # {}, \A x \in U : U \ {x} \in C PROVE U \in C
  <2>1. PICK m \in U : TRUE
    BY <1>4
  <2> DEFINE V == U \ {m}
  <2>2. V \in C /\ V \in SUBSET K
    BY <1>4
  <2>3. Bars(U) = Bars(V) \cup {R[m]} /\ R[m] \notin Bars(V)
    <3>1. U = V \cup {m}
      BY <2>1
    <3> HIDE DEF V
    <3>2. m \notin V
      BY DEF V
    <3> QED
      BY <1>0, <2>2, <3>1, <3>2
  <2>4. IsFiniteSet(Bars(V))
    <3>1. IsFiniteSet(V)
      BY <1>1, <2>2, FS_Subset
    <3> HIDE DEF V
    <3> QED
      BY <3>1, ImageIsFinite
  <2>5. \A k \in K : IsFiniteSet(Class(k)) /\ Cardinality(Class(k)) \in Nat
    <3> TAKE k \in K
    <3>1. Class(k) \in SUBSET D
      OBVIOUS
    <3> HIDE DEF Class
    <3> QED
      BY <3>1, FS_Subset, FS_CardinalityType
  <2>6. \A b \in Bars(U) : F(U)[b] = b.volume /\ b.volume \in Int
    <3> TAKE b \in Bars(U)
    <3>1. PICK k \in U : b = R[k]
      OBVIOUS
    <3>2. b.volume = Cardinality(Class(k)) /\ k \in K
      BY <1>0, <3>1
    <3>3. b.volume \in Int
      <4> HIDE DEF Class, Bars, F
      <4> QED
        BY <2>5, <3>2
    <3> QED
      BY <3>3
  <2>7. \A b \in Bars(V) : F(U)[b] = F(V)[b]
    BY <2>3
  <2>8. Sum(F(U), Bars(V)) = Sum(F(V), Bars(V))
    <3> HIDE DEF F, Bars, V
    <3> QED
      BY <2>4, <2>7, SumSame
  <2>9. Sum(F(U), Bars(V) \cup {R[m]}) = Sum(F(U), Bars(V)) + F(U)[R[m]]
    <3> DEFINE f == F(U)
               S == Bars(V)
               x == R[m]
    <3>1. IsFiniteSet(S) /\ x \notin S /\ \A y \in S \cup {x} : f[y] \in Int
      BY <2>3, <2>4, <2>6
    <3> HIDE DEF f, S, x
    <3>2. Sum(f, S \cup {x}) = Sum(f, S) + f[x]
      BY <3>1, SumAdd
    <3> QED
      BY <3>2 DEF f, S, x
  <2>10. F(U)[R[m]] = Cardinality(Class(m))
    BY <1>0, <2>1, <2>3, <2>6
  <2>11. Cardinality(Within(U)) = Cardinality(Within(V)) + Cardinality(Class(m))
    <3>1. Within(U) = Within(V) \cup Class(m) /\ Within(V) \cap Class(m) = {}
      BY <2>1
    <3>2. Within(V) \in SUBSET D /\ Class(m) \in SUBSET D
      OBVIOUS
    <3> HIDE DEF Within, Class, V
    <3>3. IsFiniteSet(Within(V)) /\ IsFiniteSet(Class(m))
      BY <3>2, FS_Subset
    <3>4. Cardinality(Within(V)) \in Nat /\ Cardinality(Class(m)) \in Nat
      BY <3>3, FS_CardinalityType
    <3>5. Cardinality(Within(V) \cup Class(m))
            = Cardinality(Within(V)) + Cardinality(Class(m)) - Cardinality({})
      BY <3>1, <3>3, FS_Union
    <3> QED
      BY <3>1, <3>4, <3>5, FS_EmptySet
  <2>12. VolumeOf(Bars(V)) = Cardinality(Within(V))
    BY <2>2
  <2>13. VolumeOf(Bars(U)) = Cardinality(Within(U))
    <3> HIDE DEF F, Bars, V, Within, Class
    <3> QED
      <4>1. VolumeOf(Bars(U)) = Sum(F(U), Bars(U)) /\ VolumeOf(Bars(V)) = Sum(F(V), Bars(V))
        BY <1>2
      <4>2. Sum(F(U), Bars(U)) = Sum(F(U), Bars(V)) + F(U)[R[m]]
        BY <2>3, <2>9
      <4> QED
        BY <4>1, <4>2, <2>8, <2>10, <2>11, <2>12
  <2> QED
    BY <2>13
<1>5. \A U \in SUBSET K : U \in C
  <2> HIDE DEF C
  <2> QED
    BY <1>1, <1>3, <1>4, SetInduction
<1>6. Within(K) = D
  BY <1>0
<1>7. VolumeOf(Bars(K)) = Cardinality(Within(K))
  <2>1. K \in C
    <3> HIDE DEF C
    <3> QED
      BY <1>5
  <2> QED
    BY <2>1
<1> QED
  BY <1>0, <1>6, <1>7

(* Sets of natural numbers up to a bound have a least and a greatest one.    *)
LEMMA MinMaxOf ==
  ASSUME NEW H \in Nat, NEW T \in SUBSET (0 .. H), T # {}
  PROVE  /\ Min(T) \in T /\ Max(T) \in T
         /\ \A x \in T : Min(T) <= x /\ x <= Max(T)
<1>1. \E x \in T : \A y \in T : x <= y
  <2>1. T \in SUBSET Nat
    OBVIOUS
  <2> QED
    BY <2>1, LeastNatural
<1>2. \E x \in T : \A y \in T : x >= y
  <2> DEFINE U == {H - x : x \in T}
  <2>0. \A x \in T : H - x \in Nat
    OBVIOUS
  <2>1. U \in SUBSET Nat /\ U # {}
    BY <2>0
  <2>2. PICK z \in U : \A y \in U : z <= y
    <3> HIDE DEF U
    <3> QED
      BY <2>1, LeastNatural
  <2>3. PICK x \in T : z = H - x
    BY <2>2
  <2>4. \A y \in T : H - x <= H - y
    BY <2>2, <2>3
  <2>5. \A y \in T : x >= y
    BY <2>4
  <2> QED
    BY <2>5
<1> QED
  BY <1>1, <1>2 DEF Min, Max

(* A tick is at most half a minute from the minute of its bar, and ticks and *)
(* their bars are in the same order.                                         *)
LEMMA BarOfTick ==
  ASSUME NEW t \in Nat
  PROVE  /\ BarOf(t) \in Nat /\ BarOf(t) <= t + 1
         /\ Minute * BarOf(t) \in Nat
         /\ 2 * t >= 2 * (Minute * BarOf(t)) - Minute
         /\ 2 * t <= 2 * (Minute * BarOf(t)) + Minute
<1> DEFINE d == t \div Minute
           e == t % Minute
           p == Minute * d
           q == Minute * (d + 1)
<1>1. Minute \in Nat /\ Minute > 0
  BY TickAssumption
<1>2. d \in Nat /\ e \in Nat /\ e < Minute /\ t = p + e
  BY <1>1
<1> HIDE DEF d, e
<1>3. p \in Nat /\ q = p + Minute /\ p >= d
  <2>1. p \in Nat /\ q = p + Minute
    BY <1>1, <1>2
  <2>2. p = d + (Minute - 1) * d /\ (Minute - 1) * d \in Nat
    <3>1. Minute - 1 \in Nat /\ Minute = (Minute - 1) + 1
      BY <1>1
    <3> QED
      BY <1>1, <1>2, <3>1
  <2> QED
    BY <1>2, <2>1, <2>2
<1> DEFINE down == 2 * e < Minute \/ (2 * e = Minute /\ d % 2 = 0)
<1>4. BarOf(t) = IF down THEN d ELSE d + 1
  BY DEF BarOf, d, e
<1>5. Minute * BarOf(t) = IF down THEN p ELSE q
  BY <1>4
<1>6. down => 2 * e <= Minute
  BY <1>1, <1>2
<1>7. ~down => 2 * e >= Minute
  BY <1>1, <1>2
<1> HIDE DEF down, p, q
<1> QED
  BY <1>1, <1>2, <1>3, <1>4, <1>5, <1>6, <1>7

(* Of two ticks the one in the earlier bar came first.                       *)
LEMMA BarsInOrder ==
  ASSUME NEW s \in Nat, NEW t \in Nat, BarOf(s) < BarOf(t)
  PROVE  s < t
<1> SUFFICES ASSUME t <= s PROVE FALSE
  OBVIOUS
<1> DEFINE c == s \div Minute
           f == s % Minute
           d == t \div Minute
           e == t % Minute
<1>1. Minute \in Nat /\ Minute > 0
  BY TickAssumption
<1>2. /\ c \in Nat /\ f \in Nat /\ f < Minute /\ s = Minute * c + f
      /\ d \in Nat /\ e \in Nat /\ e < Minute /\ t = Minute * d + e
  BY <1>1
<1>3. /\ BarOf(s) = IF 2 * f < Minute \/ (2 * f = Minute /\ c % 2 = 0) THEN c ELSE c + 1
      /\ BarOf(t) = IF 2 * e < Minute \/ (2 * e = Minute /\ d % 2 = 0) THEN d ELSE d + 1
  BY DEF BarOf
<1> HIDE DEF c, d, e, f
<1>4. d <= c
  <2> SUFFICES ASSUME c + 1 <= d PROVE FALSE
    BY <1>2
  <2>1. PICK k \in Nat : d = (c + 1) + k
    <3>1. d - (c + 1) \in Nat /\ d = (c + 1) + (d - (c + 1))
      BY <1>2
    <3> QED
      BY <3>1
  <2>2. Minute * d = Minute * c + Minute + Minute * k /\ Minute * k \in Nat /\ Minute * c \in Nat
    BY <1>1, <1>2, <2>1
  <2> QED
    BY <1>1, <1>2, <2>2
<1>5. CASE d = c
  <2>1. e <= f
    <3> DEFINE p == Minute * c
    <3>1. p \in Nat /\ s = p + f /\ t = p + e
      BY <1>1, <1>2, <1>5
    <3> HIDE DEF p
    <3> QED
      BY <1>2, <3>1
  <2> QED
    BY <1>1, <1>2, <1>3, <1>5, <2>1
<1>6. CASE d < c
  BY <1>2, <1>3, <1>6
<1> QED
  BY <1>2, <1>4, <1>5, <1>6

(* The bars of the ticks there are. *)
Minutes == {BarOf(ticks[i]) : i \in DOMAIN ticks}
FreshBars == {Bar(m) : m \in Minutes}

(* Between statements: the old bars are gone before new ones come, and those *)
(* of a call that was completed are computed from all of the ticks.          *)
TickInv ==
  /\ ticks \in Seq(0 .. MaxTime) /\ rows \in Seq(0 .. MaxTime)
  /\ step \in {"idle", "rows", "delete", "insert"}
  /\ step = "rows" => rows # <<>>
  /\ step = "insert" => bars = {}
  /\ step = "idle" /\ ~cut => bars = FreshBars

(* An empty store.                                                           *)
LEMMA InitTickInv == TickInit => TickInv
<1> SUFFICES ASSUME TickInit PROVE TickInv
  OBVIOUS
<1>1. ticks = <<>> /\ bars = {} /\ step = "idle" /\ rows = <<>>
  BY DEF TickInit
<1>2. <<>> \in Seq(0 .. MaxTime)
  OBVIOUS
<1>3. Minutes = {}
  BY <1>1 DEF Minutes
<1>4. FreshBars = {}
  BY <1>3 DEF FreshBars
<1> QED
  BY <1>1, <1>2, <1>4 DEF TickInv

(* What a call inserts is one tick or more.                                  *)
LEMMA BatchType == \A b \in Batches : b \in Seq(0 .. MaxTime) /\ b # <<>>
<1> DEFINE S == 0 .. MaxTime
<1>1. \A s \in S : <<s>> \in Seq(S) /\ <<s>> # <<>>
  OBVIOUS
<1>2. \A s, t \in S : <<s, t>> \in Seq(S) /\ <<s, t>> # <<>>
  OBVIOUS
<1>3. Batches = {<<s>> : s \in S} \cup {<<s, t>> : s, t \in S}
  BY DEF Batches
<1> HIDE DEF S
<1>4. \A b \in Batches : b \in Seq(S) /\ b # <<>>
  <2> TAKE b \in Batches
  <2>1. CASE \E s \in S : b = <<s>>
    BY <1>1, <2>1
  <2>2. CASE \E s, t \in S : b = <<s, t>>
    BY <1>2, <2>2
  <2>3. (\E s \in S : b = <<s>>) \/ (\E s, t \in S : b = <<s, t>>)
    BY <1>3
  <2> QED
    BY <2>1, <2>2, <2>3
<1> QED
  BY <1>4 DEF S

(* Each statement of a call keeps the bars behind the ticks or brings them   *)
(* up to date.                                                               *)
LEMMA StepTickInv == TickInv /\ [TickNext]_tickVars => TickInv'
<1> SUFFICES ASSUME TickInv, [TickNext]_tickVars PROVE TickInv'
  OBVIOUS
<1>1. CASE \E batch \in Batches : InsertFrame(batch)
  <2>1. PICK b \in Batches : InsertFrame(b)
    BY <1>1
  <2>2. ticks' = ticks \o b /\ step' = "delete" /\ rows' = rows
    BY <2>1 DEF InsertFrame
  <2>3. ticks \o b \in Seq(0 .. MaxTime)
    <3> DEFINE S == 0 .. MaxTime
    <3>1. ticks \in Seq(S) /\ b \in Seq(S)
      BY BatchType DEF TickInv
    <3> HIDE DEF S
    <3>2. ticks \o b \in Seq(S)
      BY <3>1
    <3> QED
      BY <3>2 DEF S
  <2> QED
    BY <2>2, <2>3 DEF TickInv
<1>2. CASE \E batch \in Batches : InsertList(batch)
  <2>1. PICK b \in Batches : InsertList(b)
    BY <1>2
  <2>2. ticks' = ticks /\ step' = "rows" /\ rows' = b
    BY <2>1 DEF InsertList
  <2> QED
    BY <2>2, BatchType DEF TickInv
<1>3. CASE InsertRow
  <2> DEFINE S == 0 .. MaxTime
  <2>1. rows \in Seq(S) /\ ticks \in Seq(S) /\ rows # <<>>
    BY <1>3 DEF TickInv, InsertRow
  <2>2. /\ ticks' = Append(ticks, Head(rows)) /\ rows' = Tail(rows)
        /\ step' = IF Len(rows) = 1 THEN "delete" ELSE "rows"
    BY <1>3 DEF InsertRow
  <2> HIDE DEF S
  <2>3. Head(rows) \in S /\ Tail(rows) \in Seq(S) /\ Len(Tail(rows)) = Len(rows) - 1
    BY <2>1
  <2>4. Append(ticks, Head(rows)) \in Seq(S)
    BY <2>1, <2>3
  <2>5. step' = "rows" => rows' # <<>>
    <3>1. Len(rows) \in Nat /\ Len(<<>>) = 0
      BY <2>1
    <3>2. step' = "rows" => Len(rows) - 1 # 0
      BY <2>2, <3>1
    <3> QED
      BY <2>2, <2>3, <3>1, <3>2
  <2> QED
    BY <2>2, <2>3, <2>4, <2>5 DEF TickInv, S
<1>4. CASE DeleteBars
  BY <1>4 DEF DeleteBars, TickInv
<1>5. CASE InsertBars
  <2>1. bars = {} /\ step' = "idle" /\ ticks' = ticks /\ rows' = rows /\ bars' = bars \cup FreshBars
    BY <1>5 DEF InsertBars, TickInv, FreshBars, Minutes
  <2>2. bars' = FreshBars
    BY <2>1
  <2>3. FreshBars' = FreshBars
    BY <2>1 DEF FreshBars, Minutes, Bar, TicksAt, Stamps, BarOf
  <2> QED
    BY <2>1, <2>2, <2>3 DEF TickInv
<1>6. CASE CutShort
  <2>1. <<>> \in Seq(0 .. MaxTime)
    OBVIOUS
  <2> QED
    BY <1>6, <2>1 DEF CutShort, TickInv
<1>7. CASE UNCHANGED tickVars
  <2>1. ticks' = ticks /\ bars' = bars /\ step' = step /\ rows' = rows /\ cut' = cut
    BY <1>7 DEF tickVars
  <2>2. FreshBars' = FreshBars
    BY <2>1 DEF FreshBars, Minutes, Bar, TicksAt, Stamps, BarOf
  <2> QED
    BY <2>1, <2>2 DEF TickInv
<1> QED
  BY <1>1, <1>2, <1>3, <1>4, <1>5, <1>6, <1>7 DEF TickNext

(* A bar of a minute: its ticks are among those that are stored.             *)
LEMMA BarIsOfTicks ==
  ASSUME TickInv, NEW m \in Minutes
  PROVE  /\ m \in 0 .. MaxTime + 1
         /\ \E i \in DOMAIN ticks : BarOf(ticks[i]) = m /\ Bar(m).first = ticks[i]
         /\ \E i \in DOMAIN ticks : BarOf(ticks[i]) = m /\ Bar(m).last = ticks[i]
         /\ Bar(m).at = m /\ Bar(m).volume = Cardinality(TicksAt(m))
<1> DEFINE T == Stamps(TicksAt(m))
<1>0. MaxTime \in Nat /\ \A i \in DOMAIN ticks : ticks[i] \in 0 .. MaxTime
  BY TickAssumption DEF TickInv
<1>1. T \in SUBSET (0 .. MaxTime) /\ T # {}
  BY <1>0 DEF Stamps, TicksAt, Minutes
<1>2. Min(T) \in T /\ Max(T) \in T
  <2> HIDE DEF T
  <2> QED
    BY <1>0, <1>1, MinMaxOf
<1>3. \A x \in T : \E i \in DOMAIN ticks : BarOf(ticks[i]) = m /\ x = ticks[i]
  BY DEF Stamps, TicksAt
<1>4. m \in 0 .. MaxTime + 1
  <2>1. PICK i \in DOMAIN ticks : m = BarOf(ticks[i])
    BY DEF Minutes
  <2>2. ticks[i] \in Nat /\ ticks[i] <= MaxTime
    BY <1>0
  <2>3. m \in Nat /\ m <= ticks[i] + 1
    BY <2>1, <2>2, BarOfTick
  <2> QED
    BY <1>0, <2>2, <2>3
<1>5. Bar(m) = [at |-> m, first |-> Min(T), last |-> Max(T), volume |-> Cardinality(TicksAt(m))]
  BY DEF Bar
<1> HIDE DEF T
<1> QED
  BY <1>2, <1>3, <1>4, <1>5

(* There are finitely many ticks, as many as the sequence is long.           *)
LEMMA TicksAreFinite ==
  ASSUME TickInv
  PROVE  IsFiniteSet(DOMAIN ticks) /\ Cardinality(DOMAIN ticks) = Len(ticks)
<1>1. DOMAIN ticks = 1 .. Len(ticks) /\ Len(ticks) \in Nat
  BY DEF TickInv
<1> DEFINE n == Len(ticks)
<1> HIDE DEF n
<1>2. n \in Nat /\ 1 \in Int /\ n \in Int
  BY <1>1 DEF n
<1>3. IsFiniteSet(1 .. n) /\ Cardinality(1 .. n) = IF 1 > n THEN 0 ELSE (n - 1) + 1
  BY <1>2, FS_Interval
<1>4. Cardinality(1 .. n) = n
  BY <1>2, <1>3
<1> QED
  BY <1>1, <1>3, <1>4 DEF n

(* The bars of one width hold all of the ticks.                              *)
LEMMA FreshVolume ==
  ASSUME TickInv, bars = FreshBars
  PROVE  VolumeOf(bars) = Len(ticks)
<1> DEFINE D == DOMAIN ticks
           c == [i \in D |-> BarOf(ticks[i])]
           R == [m \in Minutes |-> Bar(m)]
           kind == [m \in Minutes |-> TicksAt(m)]
<1>1. IsFiniteSet(D) /\ Cardinality(D) = Len(ticks)
  BY TicksAreFinite
<1>2. \A k : k \in Minutes <=> \E i \in D : k = c[i]
  BY DEF Minutes
<1>3. \A k \in Minutes : R[k].at = k /\ R[k].volume = Cardinality(kind[k])
  BY BarIsOfTicks
<1>4. \A b : b \in bars <=> \E k \in Minutes : b = R[k]
  BY DEF FreshBars
<1>5. \A k \in Minutes : \A i : i \in kind[k] <=> i \in D /\ c[i] = k
  BY DEF TicksAt
<1> HIDE DEF c, R, D, kind
<1>6. \A k, l \in Minutes : R[k] = R[l] => k = l
  BY <1>3
<1>7. HoldAll(D, c, R, Minutes, bars, kind)
  BY <1>2, <1>3, <1>4, <1>5, <1>6 DEF HoldAll
<1>8. VolumeOf(bars) = Cardinality(D)
  BY <1>1, <1>7, CountByKind
<1> QED
  BY <1>1, <1>8

(* The bars of k, when bars are joined by widths of one or two minutes.      *)
Joined(width, k) == {b \in bars : b.at \div width = k}
JoinedBar(width, k) ==
  [at |-> width * k, first |-> Min({b.first : b \in Joined(width, k)}),
   last |-> Max({b.last : b \in Joined(width, k)}), volume |-> VolumeOf(Joined(width, k))]
Groups(width) == {m \div width : m \in Minutes}
TicksOf(width, k) == {i \in DOMAIN ticks : BarOf(ticks[i]) \div width = k}

(* What get_bars answers for the whole time.                                 *)
LEMMA JoinedAll ==
  ASSUME TickInv, bars = FreshBars, NEW width \in 1 .. 2
  PROVE  GetBars(width, 0, MaxTime + 1) = {JoinedBar(width, k) : k \in Groups(width)}
<1>1. \A m \in Minutes : Bar(m).at = m /\ m \in 0 .. MaxTime + 1
  BY BarIsOfTicks
<1>2. Session(0, MaxTime + 1) = bars
  BY <1>1 DEF Session, FreshBars
<1>3. {b.at \div width : b \in bars} = Groups(width)
  BY <1>1 DEF FreshBars, Groups
<1>4. GetBars(width, 0, MaxTime + 1)
        = {[at |-> width * k, first |-> Min({b.first : b \in Joined(width, k)}),
            last |-> Max({b.last : b \in Joined(width, k)}),
            volume |-> VolumeOf(Joined(width, k))] : k \in Groups(width)}
  BY <1>2, <1>3, Zenon DEF GetBars, Joined
<1> QED
  BY <1>4, Zenon DEF JoinedBar

(* A joined bar holds the ticks of its minutes.                              *)
LEMMA JoinedHolds ==
  ASSUME TickInv, bars = FreshBars, NEW width \in 1 .. 2, NEW k \in Groups(width)
  PROVE  VolumeOf(Joined(width, k)) = Cardinality(TicksOf(width, k))
<1> DEFINE D == TicksOf(width, k)
           K == {m \in Minutes : m \div width = k}
           B == Joined(width, k)
           c == [i \in DOMAIN ticks |-> BarOf(ticks[i])]
           R == [m \in Minutes |-> Bar(m)]
           kind == [m \in Minutes |-> TicksAt(m)]
<1>1. IsFiniteSet(D)
  <2>1. D \in SUBSET DOMAIN ticks
    BY DEF TicksOf
  <2> HIDE DEF D
  <2> QED
    BY <2>1, TicksAreFinite, FS_Subset
<1>2. \A m \in Minutes : R[m].at = m /\ R[m].volume = Cardinality(kind[m])
  BY BarIsOfTicks
<1>3. \A m : m \in K <=> \E i \in D : m = c[i]
  BY DEF TicksOf, Minutes
<1>4. \A b : b \in B <=> \E m \in K : b = R[m]
  BY <1>2 DEF FreshBars, Joined
<1>5. \A m \in K : \A i : i \in kind[m] <=> i \in D /\ c[i] = m
  BY DEF TicksAt, TicksOf
<1>6. \A m \in K : m \in Minutes
  OBVIOUS
<1> HIDE DEF c, R, D, K, B, kind
<1>7. \A m, n \in K : R[m] = R[n] => m = n
  BY <1>2, <1>6
<1>8. HoldAll(D, c, R, K, B, kind)
  BY <1>2, <1>3, <1>4, <1>5, <1>6, <1>7 DEF HoldAll
<1>9. VolumeOf(B) = Cardinality(D)
  BY <1>1, <1>8, CountByKind
<1> QED
  BY <1>9 DEF B, D

(* It starts and ends with one of them.                                      *)
LEMMA JoinedEnds ==
  ASSUME TickInv, bars = FreshBars, NEW width \in 1 .. 2, NEW k \in Groups(width)
  PROVE  /\ \E i \in TicksOf(width, k) : JoinedBar(width, k).first = ticks[i]
         /\ \E i \in TicksOf(width, k) : JoinedBar(width, k).last = ticks[i]
<1> DEFINE J == Joined(width, k)
           F == {b.first : b \in J}
           L == {b.last : b \in J}
<1>0. MaxTime \in Nat /\ \A i \in DOMAIN ticks : ticks[i] \in 0 .. MaxTime
  BY TickAssumption DEF TickInv
<1>1. \A b \in J : /\ \E i \in TicksOf(width, k) : b.first = ticks[i]
                   /\ \E i \in TicksOf(width, k) : b.last = ticks[i]
  <2> TAKE b \in J
  <2>1. PICK m \in Minutes : b = Bar(m)
    BY DEF Joined, FreshBars
  <2>2. b.at \div width = k
    BY DEF Joined
  <2>3. Bar(m).at = m
    BY BarIsOfTicks
  <2>4. m \div width = k
    BY <2>1, <2>2, <2>3
  <2>5. PICK i \in DOMAIN ticks : BarOf(ticks[i]) = m /\ Bar(m).first = ticks[i]
    BY BarIsOfTicks
  <2>6. PICK j \in DOMAIN ticks : BarOf(ticks[j]) = m /\ Bar(m).last = ticks[j]
    BY BarIsOfTicks
  <2> QED
    BY <2>1, <2>4, <2>5, <2>6 DEF TicksOf
<1>2. J # {}
  <2>1. PICK m \in Minutes : k = m \div width
    BY DEF Groups
  <2>2. Bar(m) \in bars /\ Bar(m).at = m
    BY BarIsOfTicks DEF FreshBars
  <2>3. Bar(m) \in J
    BY <2>1, <2>2 DEF Joined
  <2> QED
    BY <2>3
<1>3. \A i \in TicksOf(width, k) : ticks[i] \in 0 .. MaxTime
  BY <1>0 DEF TicksOf
<1> HIDE DEF J
<1>4. F \in SUBSET (0 .. MaxTime) /\ L \in SUBSET (0 .. MaxTime) /\ F # {} /\ L # {}
  BY <1>1, <1>2, <1>3
<1>5. Min(F) \in F /\ Max(L) \in L
  <2> HIDE DEF F, L
  <2> QED
    BY <1>0, <1>4, MinMaxOf
<1>6. /\ \E i \in TicksOf(width, k) : Min(F) = ticks[i]
      /\ \E i \in TicksOf(width, k) : Max(L) = ticks[i]
  BY <1>1, <1>5
<1>7. JoinedBar(width, k).first = Min(F) /\ JoinedBar(width, k).last = Max(L)
  BY DEF JoinedBar, J
<1> HIDE DEF F, L
<1> QED
  BY <1>6, <1>7

(* The joined bars hold all ticks.                                           *)
LEMMA JoinedVolume ==
  ASSUME TickInv, bars = FreshBars, NEW width \in 1 .. 2
  PROVE  VolumeOf(GetBars(width, 0, MaxTime + 1)) = Len(ticks)
<1> DEFINE D == DOMAIN ticks
           W == Groups(width)
           all == GetBars(width, 0, MaxTime + 1)
           c == [i \in D |-> BarOf(ticks[i]) \div width]
           R == [k \in W |-> JoinedBar(width, k)]
           kind == [k \in W |-> TicksOf(width, k)]
<1>1. IsFiniteSet(D) /\ Cardinality(D) = Len(ticks)
  BY TicksAreFinite
<1>2. \A k : k \in W <=> \E i \in D : k = c[i]
  BY DEF Groups, Minutes
<1>3. \A k \in W : R[k].volume = Cardinality(kind[k])
  <2> TAKE k \in W
  <2>1. VolumeOf(Joined(width, k)) = Cardinality(TicksOf(width, k))
    BY JoinedHolds
  <2> QED
    BY <2>1 DEF JoinedBar
<1>4. \A b : b \in all <=> \E k \in W : b = R[k]
  BY JoinedAll
<1>5. \A k \in W : \A i : i \in kind[k] <=> i \in D /\ c[i] = k
  BY DEF TicksOf
<1>6. \A k, l \in W : R[k] = R[l] => k = l
  <2>1. \A k \in W : R[k].at = width * k
    BY DEF JoinedBar
  <2>2. \A m \in Minutes : m \in Int
    BY BarIsOfTicks
  <2>3. \A k \in W : k \in Int
    BY <2>2 DEF Groups
  <2> HIDE DEF R, W
  <2>4. CASE width = 1
    BY <2>1, <2>3, <2>4
  <2>5. CASE width = 2
    BY <2>1, <2>3, <2>5
  <2> QED
    BY <2>4, <2>5
<1> HIDE DEF c, R, D, W, all, kind
<1>7. HoldAll(D, c, R, W, all, kind)
  BY <1>2, <1>3, <1>4, <1>5, <1>6 DEF HoldAll
<1>8. VolumeOf(all) = Cardinality(D)
  BY <1>1, <1>7, CountByKind
<1> QED
  BY <1>1, <1>8 DEF all

(* What a joined bar holds is within half a minute of it.                    *)
LEMMA JoinedReach ==
  ASSUME TickInv, NEW width \in 1 .. 2, NEW k \in Groups(width), NEW i \in TicksOf(width, k)
  PROVE  LET at == width * k IN
         /\ ticks[i] \in Nat /\ BarOf(ticks[i]) \in Nat /\ k \in Nat
         /\ at <= BarOf(ticks[i]) /\ BarOf(ticks[i]) < at + width
         /\ 2 * ticks[i] >= 2 * Minute * at - Minute
         /\ 2 * ticks[i] <= 2 * Minute * (at + width) - Minute
<1> DEFINE at == width * k
           t == ticks[i]
           m == BarOf(t)
<1>1. t \in Nat /\ m \div width = k
  BY TickAssumption DEF TickInv, TicksOf
<1>2. Minute \in Nat /\ Minute > 0
  BY TickAssumption
<1> HIDE DEF t
<1>3. /\ m \in Nat /\ Minute * m \in Nat
      /\ 2 * t >= 2 * (Minute * m) - Minute /\ 2 * t <= 2 * (Minute * m) + Minute
  BY <1>1, BarOfTick
<1> HIDE DEF m
<1>4. /\ at \in Nat /\ k \in Nat /\ at <= m /\ m < at + width /\ width \in Nat
  <2>1. CASE width = 1
    BY <1>1, <1>3, <2>1
  <2>2. CASE width = 2
    BY <1>1, <1>3, <2>2
  <2> QED
    BY <2>1, <2>2
<1> HIDE DEF at
<1>5. Minute * at <= Minute * m /\ Minute * m + Minute <= Minute * (at + width)
  <2>1. (m - at) \in Nat /\ ((at + width) - (m + 1)) \in Nat
    BY <1>3, <1>4
  <2>2. /\ Minute * (m - at) \in Nat /\ Minute * ((at + width) - (m + 1)) \in Nat
        /\ Minute * at \in Nat /\ Minute * (at + width) \in Nat
    BY <1>2, <1>4, <2>1
  <2>3. Minute * (m - at) = Minute * m - Minute * at
    BY <1>2, <1>3, <1>4
  <2>4. Minute * ((at + width) - (m + 1)) = Minute * (at + width) - (Minute * m + Minute)
    BY <1>2, <1>3, <1>4
  <2> QED
    BY <1>2, <1>3, <2>2, <2>3, <2>4
<1>6. /\ 2 * Minute * at = 2 * (Minute * at)
      /\ 2 * Minute * (at + width) = 2 * (Minute * (at + width))
      /\ Minute * at \in Nat /\ Minute * (at + width) \in Nat
  BY <1>2, <1>4
<1>7. 2 * t >= 2 * Minute * at - Minute /\ 2 * t <= 2 * Minute * (at + width) - Minute
  <2> DEFINE p == Minute * m
             q == Minute * at
             r == Minute * (at + width)
  <2>1. /\ 2 * t >= 2 * p - Minute /\ 2 * t <= 2 * p + Minute /\ q <= p /\ p + Minute <= r
        /\ p \in Nat /\ q \in Nat /\ r \in Nat /\ t \in Nat
    BY <1>1, <1>3, <1>5, <1>6
  <2> HIDE DEF p, q, r
  <2>2. 2 * t >= 2 * q - Minute /\ 2 * t <= 2 * r - Minute
    BY <1>2, <2>1
  <2> QED
    BY <1>6, <2>2 DEF q, r
<1> QED
  BY <1>1, <1>3, <1>4, <1>7 DEF at, t, m

(* After a completed call the bars match.                                    *)
LEMMA BarsHoldTicks == TickInv => BarsMatchTicks
<1> SUFFICES ASSUME TickInv, step = "idle", ~cut, NEW width \in 1 .. 2
             PROVE  LET all == GetBars(width, 0, MaxTime + 1) IN
                    /\ VolumeOf(bars) = Len(ticks)
                    /\ VolumeOf(all) = Cardinality(GetTicks(0, MaxTime))
                    /\ \A b \in all : /\ 2 * b.first >= 2 * Minute * b.at - Minute
                                      /\ 2 * b.last <= 2 * Minute * (b.at + width) - Minute
                    /\ \A b, c \in all : b.at < c.at => b.last < c.first
  BY DEF BarsMatchTicks
<1> DEFINE all == GetBars(width, 0, MaxTime + 1)
<1>1. bars = FreshBars
  BY DEF TickInv
<1>2. VolumeOf(bars) = Len(ticks) /\ VolumeOf(all) = Len(ticks)
  BY <1>1, FreshVolume, JoinedVolume
<1>3. Cardinality(GetTicks(0, MaxTime)) = Len(ticks)
  <2>0. \A i \in DOMAIN ticks : ticks[i] \in 0 .. MaxTime
    BY TickAssumption DEF TickInv
  <2>1. GetTicks(0, MaxTime) = DOMAIN ticks
    BY <2>0 DEF GetTicks
  <2> QED
    BY <2>1, TicksAreFinite
<1>4. ASSUME NEW b \in all
      PROVE  \E k \in Groups(width) : b = JoinedBar(width, k) /\ b.at = width * k
  <2>1. PICK k \in Groups(width) : b = JoinedBar(width, k)
    BY <1>1, JoinedAll
  <2>2. JoinedBar(width, k).at = width * k
    BY DEF JoinedBar
  <2> QED
    BY <2>1, <2>2
<1> HIDE DEF all
<1>5. ASSUME NEW b \in all
      PROVE  /\ 2 * b.first >= 2 * Minute * b.at - Minute
             /\ 2 * b.last <= 2 * Minute * (b.at + width) - Minute
  <2>1. PICK k \in Groups(width) : b = JoinedBar(width, k) /\ b.at = width * k
    BY <1>4
  <2>2. PICK i \in TicksOf(width, k) : b.first = ticks[i]
    BY <1>1, <2>1, JoinedEnds
  <2>3. PICK j \in TicksOf(width, k) : b.last = ticks[j]
    BY <1>1, <2>1, JoinedEnds
  <2>4. 2 * ticks[i] >= 2 * Minute * (width * k) - Minute
    BY JoinedReach
  <2>5. 2 * ticks[j] <= 2 * Minute * (width * k + width) - Minute
    BY JoinedReach
  <2> QED
    BY <2>1, <2>2, <2>3, <2>4, <2>5
<1>6. ASSUME NEW b \in all, NEW c \in all, b.at < c.at
      PROVE  b.last < c.first
  <2>1. PICK k \in Groups(width) : b = JoinedBar(width, k) /\ b.at = width * k
    BY <1>4
  <2>2. PICK l \in Groups(width) : c = JoinedBar(width, l) /\ c.at = width * l
    BY <1>4
  <2>3. PICK i \in TicksOf(width, k) : b.last = ticks[i]
    BY <1>1, <2>1, JoinedEnds
  <2>4. PICK j \in TicksOf(width, l) : c.first = ticks[j]
    BY <1>1, <2>2, JoinedEnds
  <2>5. /\ ticks[i] \in Nat /\ BarOf(ticks[i]) \in Nat /\ k \in Nat
        /\ BarOf(ticks[i]) < width * k + width
    BY JoinedReach
  <2>6. /\ ticks[j] \in Nat /\ BarOf(ticks[j]) \in Nat /\ l \in Nat
        /\ width * l <= BarOf(ticks[j])
    BY JoinedReach
  <2>7. width * k + width <= width * l
    <3>1. width * k < width * l
      BY <1>6, <2>1, <2>2
    <3>2. CASE width = 1
      BY <2>5, <2>6, <3>1, <3>2
    <3>3. CASE width = 2
      BY <2>5, <2>6, <3>1, <3>3
    <3> QED
      BY <3>2, <3>3
  <2>8. BarOf(ticks[i]) < BarOf(ticks[j])
    <3>1. width * k \in Nat /\ width * l \in Nat /\ width \in Nat
      BY <2>5, <2>6
    <3> DEFINE p == width * k
               q == width * l
    <3>2. /\ p \in Nat /\ q \in Nat /\ p + width <= q /\ BarOf(ticks[i]) < p + width
          /\ q <= BarOf(ticks[j])
      BY <2>5, <2>6, <2>7, <3>1
    <3> HIDE DEF p, q
    <3> QED
      BY <2>5, <2>6, <3>1, <3>2
  <2>9. ticks[i] < ticks[j]
    BY <2>5, <2>6, <2>8, BarsInOrder
  <2> QED
    BY <2>3, <2>4, <2>9
<1> QED
  BY <1>2, <1>3, <1>5, <1>6 DEF all

(* In every behaviour of the store.                                          *)
LEMMA HeldInTicks == TickSpec => []BarsMatchTicks
  BY InitTickInv, StepTickInv, BarsHoldTicks, PTL DEF TickSpec

-----------------------------------------------------------------------------
(* Backtests, for any universe, prices, bars, rows and folds.                *)

(* What each study can have done.                                            *)
BacktestInv ==
  /\ study \in {"momentum", "orb", "folds", "audit"}
  /\ study = "momentum" => /\ input \in [1 .. Days -> [Assets -> Levels]]
                           /\ outcome \subseteq RunMomentum
  /\ study = "orb" => /\ \E n \in Nat : input \in [1 .. n -> {-1, 0, 1}]
                      /\ outcome \subseteq RunOrb
  /\ study = "folds" => input \in Nat /\ outcome \subseteq RunFolds
  /\ study = "audit" => /\ \E n \in Nat : input.close \in [1 .. n -> BOOLEAN]
                        /\ input.bars \in Nat /\ outcome \subseteq RunAudit

(* No study has been done at first.                                          *)
LEMMA InitBacktestInv == BacktestInit => BacktestInv
<1> SUFFICES ASSUME BacktestInit PROVE BacktestInv
  OBVIOUS
<1>0. outcome = {} /\ MaxBar \in Nat /\ MaxRows \in Nat /\ MaxAudit \in Nat
  BY BacktestAssumption DEF BacktestInit
<1>1. CASE study = "momentum"
  BY <1>0, <1>1 DEF BacktestInit, BacktestInv
<1>2. CASE study = "orb"
  <2>1. PICK n \in 1 .. MaxBar : input \in [1 .. n -> {-1, 0, 1}]
    BY <1>2 DEF BacktestInit
  <2>2. n \in Nat
    BY <1>0
  <2> QED
    BY <1>0, <1>2, <2>1, <2>2 DEF BacktestInv
<1>3. CASE study = "folds"
  <2>1. input \in Nat
    BY <1>0, <1>3 DEF BacktestInit
  <2> QED
    BY <1>0, <1>3, <2>1 DEF BacktestInv
<1>4. CASE study = "audit"
  <2>1. PICK n \in 1 .. MaxAudit :
          input \in [close : [1 .. n -> BOOLEAN], bars : 1 .. 2, failed : SUBSET {WarmUp}]
    BY <1>4 DEF BacktestInit
  <2>2. n \in Nat /\ input.close \in [1 .. n -> BOOLEAN] /\ input.bars \in Nat
    BY <1>0, <2>1
  <2> QED
    BY <1>0, <1>4, <2>2 DEF BacktestInv
<1> QED
  BY <1>1, <1>2, <1>3, <1>4 DEF BacktestInit

(* Each study answers from its input.                                        *)
LEMMA StepBacktestInv == BacktestInv /\ [BacktestNext]_backtestVars => BacktestInv'
<1> SUFFICES ASSUME BacktestInv, [BacktestNext]_backtestVars PROVE BacktestInv'
  OBVIOUS
<1>1. study' = study /\ input' = input
  BY DEF BacktestNext, backtestVars
<1>2. RunMomentum' = RunMomentum
  BY <1>1 DEF RunMomentum, Held, Weight, Rank, Weaker, Leg
<1>3. RunOrb' = RunOrb
  BY <1>1 DEF RunOrb, Trades, Outside, Entry
<1>4. RunFolds' = RunFolds
  BY <1>1 DEF RunFolds, TrainRows, TestRows
<1>5. RunAudit' = RunAudit
  BY <1>1 DEF RunAudit, RowOf, Closes
<1>6. \/ outcome' = outcome
      \/ /\ study = "momentum" => outcome' = RunMomentum
         /\ study = "orb" => outcome' = RunOrb
         /\ study = "folds" => outcome' = RunFolds
         /\ study = "audit" => outcome' = RunAudit
  <2> HIDE DEF RunMomentum, RunOrb, RunFolds, RunAudit
  <2>1. CASE BacktestNext
    <3>1. \/ study = "momentum" /\ outcome' = RunMomentum
          \/ study = "orb" /\ outcome' = RunOrb
          \/ study = "folds" /\ outcome' = RunFolds
          \/ study = "audit" /\ outcome' = RunAudit
      BY <2>1, Zenon DEF BacktestNext
    <3> QED
      BY <3>1
  <2>2. CASE UNCHANGED backtestVars
    BY <2>2 DEF backtestVars
  <2> QED
    BY <2>1, <2>2
<1>7. CASE study = "momentum"
  BY <1>1, <1>2, <1>6, <1>7 DEF BacktestInv
<1>8. CASE study = "orb"
  BY <1>1, <1>3, <1>6, <1>8 DEF BacktestInv
<1>9. CASE study = "folds"
  BY <1>1, <1>4, <1>6, <1>9 DEF BacktestInv
<1>10. CASE study = "audit"
  BY <1>1, <1>5, <1>6, <1>10 DEF BacktestInv
<1> QED
  BY <1>7, <1>8, <1>9, <1>10 DEF BacktestInv

(* Folds: the gap is taken out on both sides.                                *)
LEMMA FoldsApart == BacktestInv /\ study = "folds" => FoldsArePurged
<1> SUFFICES ASSUME BacktestInv, study = "folds",
                    NEW f \in outcome, NEW r \in f.train, NEW q \in f.test
             PROVE  r < q - Gap(input) \/ r > q + Gap(input)
  BY DEF FoldsArePurged
<1> DEFINE n == input
           size == n \div Folds
           gap == size \div Embargo
<1>1. n \in Nat /\ Folds \in Nat /\ Folds > 0 /\ Embargo \in Nat /\ Embargo > 0
  BY BacktestAssumption DEF BacktestInv
<1>2. size \in Nat
  BY <1>1
<1>3. gap \in Nat
  <2> HIDE DEF size
  <2> QED
    BY <1>1, <1>2
<1>4. PICK i \in 0 .. Folds - 1 : f.train = TrainRows(n, i) /\ f.test = TestRows(n, i)
  BY DEF BacktestInv, RunFolds
<1> DEFINE first == i * size
           end == IF i < Folds - 1 THEN (i + 1) * size ELSE n
<1> HIDE DEF size
<1>5. first \in Int /\ end \in Int
  BY <1>1, <1>2
<1>6. /\ r \in (0 .. Greatest(0, first - gap) - 1) \cup (Least(n, end + gap) .. n - 1)
      /\ q \in first .. end - 1 /\ Gap(input) = gap
  BY <1>4 DEF TrainRows, TestRows, FirstOf, EndOf, Gap, FoldSize, size
<1> HIDE DEF first, end, gap, n
<1>7. q \in Int /\ first <= q /\ q <= end - 1
  BY <1>5, <1>6
<1>8. CASE r \in 0 .. Greatest(0, first - gap) - 1
  BY <1>3, <1>5, <1>6, <1>7, <1>8 DEF Greatest
<1>9. CASE r \in Least(n, end + gap) .. n - 1
  BY <1>1, <1>3, <1>5, <1>6, <1>7, <1>9 DEF Least
<1> QED
  BY <1>6, <1>8, <1>9

(* The opening range: the entry is the first close out of it, and so of      *)
(* every day that is the same until then.                                    *)
LEMMA EntryIsFirst ==
  ASSUME NEW closes, NEW x \in Outside(closes), Outside(closes) \in SUBSET Nat,
         \A y \in Outside(closes) : x <= y
  PROVE  Entry(closes) = x
<1>1. \A z \in Outside(closes) : (\A y \in Outside(closes) : z <= y) => z = x
  OBVIOUS
<1> QED
  BY <1>1 DEF Entry

(* A trade depends on the closes up to its entry, whatever the day does      *)
(* afterwards, as long as it lasts until the exit.                           *)
LEMMA TradesFollow == BacktestInv /\ study = "orb" => TradesPrecedeCloses
<1> SUFFICES ASSUME BacktestInv, study = "orb", NEW trade \in outcome,
                    NEW m \in Greatest(OrbBars + MinRest, trade.exit) .. MaxBar,
                    NEW other \in [1 .. m -> {-1, 0, 1}],
                    \A i \in 1 .. trade.entry : other[i] = input[i]
             PROVE  trade \in Trades(other)
  BY DEF TradesPrecedeCloses
<1>0. OrbBars \in Nat /\ MinRest \in Nat
  BY BacktestAssumption
<1>1. PICK n \in Nat : input \in [1 .. n -> {-1, 0, 1}]
  BY DEF BacktestInv
<1>2. Len(input) = n
  BY <1>1
<1>3. trade \in Trades(input)
  BY DEF BacktestInv, RunOrb
<1>4. /\ n >= OrbBars + MinRest /\ Outside(input) # {} /\ Entry(input) # n
      /\ trade = [entry |-> Entry(input), exit |-> Entry(input) + 1, side |-> input[Entry(input)]]
  BY <1>0, <1>2, <1>3 DEF Trades
<1>5. \A closes : Len(closes) \in Nat => Outside(closes) \in SUBSET Nat
  BY <1>0 DEF Outside
<1>6. Entry(input) \in Outside(input) /\ \A j \in Outside(input) : Entry(input) <= j
  <2>1. \E i \in Outside(input) : \A j \in Outside(input) : i <= j
    BY <1>2, <1>4, <1>5, LeastNatural
  <2> QED
    BY <2>1 DEF Entry
<1> DEFINE e == trade.entry
<1>7. e = Entry(input)
  BY <1>4
<1> HIDE DEF e
<1>8. m \in Nat /\ Len(other) = m /\ m >= OrbBars + MinRest /\ m >= e + 1
  <2>1. trade.exit = e + 1 /\ e \in Nat
    BY <1>0, <1>2, <1>4, <1>6, <1>7 DEF Outside
  <2>2. MaxBar \in Nat
    BY BacktestAssumption
  <2>3. m \in Int /\ m >= OrbBars + MinRest /\ m >= e + 1
    BY <1>0, <2>1, <2>2 DEF Greatest
  <2> QED
    BY <1>0, <2>1, <2>3
<1>9. e \in OrbBars + 1 .. n /\ input[e] # 0 /\ e \in Nat
  BY <1>0, <1>2, <1>6, <1>7 DEF Outside
<1>10. \A i \in OrbBars + 1 .. n : i <= e => other[i] = input[i]
  <2>1. \A i \in OrbBars + 1 .. n : i <= e => i \in 1 .. e
    BY <1>0, <1>9
  <2> QED
    BY <1>7, <1>9, <2>1 DEF e
<1>11. other[e] = input[e]
  BY <1>9, <1>10
<1>12. e \in Outside(other)
  BY <1>8, <1>9, <1>11 DEF Outside
<1>13. \A j \in Outside(other) : e <= j
  <2> SUFFICES ASSUME NEW j \in Outside(other), j < e PROVE FALSE
    BY <1>5, <1>8, <1>9
  <2>1. j \in OrbBars + 1 .. n /\ other[j] # 0
    BY <1>0, <1>8, <1>9 DEF Outside
  <2>2. j \in Outside(input)
    BY <1>0, <1>2, <1>9, <1>10, <2>1 DEF Outside
  <2>3. e <= j /\ j \in Nat
    BY <1>0, <1>6, <1>7, <2>1, <2>2
  <2> QED
    BY <1>9, <2>3
<1>14. Entry(other) = e
  BY <1>5, <1>8, <1>12, <1>13, EntryIsFirst
<1>15. Trades(other) = {[entry |-> e, exit |-> e + 1, side |-> other[e]]}
  BY <1>0, <1>4, <1>7, <1>8, <1>12, <1>14 DEF Trades
<1>16. trade = [entry |-> e, exit |-> e + 1, side |-> other[e]]
  BY <1>4, <1>7, <1>11
<1> QED
  BY <1>15, <1>16

(* The audit: the closes up to a row, counted.                               *)
CloseRows(close, k) == {q \in 1 .. k : close[q]}

(* A row more is a close more, or none.                                      *)
LEMMA OneMoreClose ==
  ASSUME NEW close, NEW k \in Nat
  PROVE  /\ Cardinality(CloseRows(close, k)) \in Nat
         /\ Cardinality(CloseRows(close, k + 1))
              = Cardinality(CloseRows(close, k)) + (IF close[k + 1] THEN 1 ELSE 0)
<1> DEFINE U == CloseRows(close, k)
<1>1. IsFiniteSet(U) /\ k + 1 \notin U
  <2>1. U \in SUBSET (1 .. k) /\ k + 1 \notin U
    BY DEF CloseRows
  <2>2. IsFiniteSet(1 .. k)
    BY FS_Interval
  <2> HIDE DEF U
  <2> QED
    BY <2>1, <2>2, FS_Subset
<1>2. CloseRows(close, k + 1) = IF close[k + 1] THEN U \cup {k + 1} ELSE U
  <2>1. 1 .. k + 1 = (1 .. k) \cup {k + 1}
    OBVIOUS
  <2> QED
    BY <2>1 DEF CloseRows
<1> DEFINE x == k + 1
<1> HIDE DEF U, x
<1>3. Cardinality(U) \in Nat /\ Cardinality(U \cup {x}) = Cardinality(U) + 1
  BY <1>1, FS_AddElement, FS_CardinalityType DEF x
<1> QED
  BY <1>2, <1>3 DEF U, x

(* There are never more closes than rows, nor fewer than before.             *)
LEMMA ClosesGrow ==
  ASSUME NEW close, NEW k \in Nat, NEW m \in Nat, k <= m
  PROVE  /\ Cardinality(CloseRows(close, k)) <= Cardinality(CloseRows(close, m))
         /\ Cardinality(CloseRows(close, k)) <= k
<1>1. IsFiniteSet(1 .. m) /\ IsFiniteSet(1 .. k) /\ Cardinality(1 .. k) = k
  <2>1. 1 \in Int /\ m \in Int /\ k \in Int
    OBVIOUS
  <2> QED
    BY <2>1, FS_Interval
<1>2. /\ CloseRows(close, m) \in SUBSET (1 .. m)
      /\ CloseRows(close, k) \in SUBSET CloseRows(close, m)
      /\ CloseRows(close, k) \in SUBSET (1 .. k)
  BY DEF CloseRows
<1> QED
  BY <1>1, <1>2, FS_Subset

(* Each price has a row.                                                     *)
LEMMA RowExists ==
  ASSUME NEW close
  PROVE  \A k \in Nat : \A t \in Nat :
           t < Cardinality(CloseRows(close, k)) =>
             \E r \in 1 .. k : close[r] /\ Cardinality(CloseRows(close, r - 1)) = t
<1> DEFINE T == {k \in Nat : \A t \in Nat : t < Cardinality(CloseRows(close, k)) =>
                   \E r \in 1 .. k : close[r] /\ Cardinality(CloseRows(close, r - 1)) = t}
<1>1. 0 \in T
  <2>1. CloseRows(close, 0) = {}
    BY DEF CloseRows
  <2> QED
    BY <2>1, FS_EmptySet
<1>2. ASSUME NEW k \in T PROVE k + 1 \in T
  <2> SUFFICES ASSUME NEW t \in Nat, t < Cardinality(CloseRows(close, k + 1))
               PROVE  \E r \in 1 .. k + 1 : close[r] /\ Cardinality(CloseRows(close, r - 1)) = t
    OBVIOUS
  <2>1. /\ Cardinality(CloseRows(close, k)) \in Nat
        /\ Cardinality(CloseRows(close, k + 1))
              = Cardinality(CloseRows(close, k)) + (IF close[k + 1] THEN 1 ELSE 0)
    BY OneMoreClose
  <2>2. CASE t < Cardinality(CloseRows(close, k))
    <3>1. PICK r \in 1 .. k : close[r] /\ Cardinality(CloseRows(close, r - 1)) = t
      BY <2>2
    <3> QED
      BY <3>1
  <2>3. CASE ~(t < Cardinality(CloseRows(close, k)))
    <3>1. close[k + 1] /\ t = Cardinality(CloseRows(close, k))
      BY <2>1, <2>3
    <3>2. (k + 1) - 1 = k /\ k + 1 \in 1 .. k + 1
      OBVIOUS
    <3> QED
      BY <3>1, <3>2
  <2> QED
    BY <2>2, <2>3
<1>3. \A k \in Nat : k \in T
  <2>1. T \in SUBSET Nat
    OBVIOUS
  <2> HIDE DEF T
  <2> QED
    BY <1>1, <1>2, <2>1, Induction
<1> QED
  BY <1>3

(* The audit: the bar judged by comes after the bars seen.                   *)
LEMMA AuditsLookBack == BacktestInv /\ study = "audit" => AuditLooksBack
<1> SUFFICES ASSUME BacktestInv, study = "audit", NEW e \in outcome
             PROVE  e.seen <= e.base /\ e.base < e.actual
  BY DEF AuditLooksBack
<1> DEFINE close == input.close
           count(k) == Cardinality(CloseRows(close, k))
<1>0. WarmUp \in Nat /\ Horizon \in Nat /\ Horizon > 0
  BY BacktestAssumption
<1>1. PICK n \in Nat : close \in [1 .. n -> BOOLEAN]
  BY DEF BacktestInv
<1>2. Closes = count(n)
  <2>1. {r \in DOMAIN input.close : input.close[r]} = CloseRows(close, n)
    BY <1>1 DEF CloseRows
  <2> QED
    BY <2>1 DEF Closes
<1>3. count(n) \in Nat
  BY OneMoreClose
<1>4. PICK t \in Greatest(WarmUp, (Closes - input.bars) - Horizon) .. (Closes - Horizon) - 1 :
        e = [seen |-> t + 1, base |-> RowOf(t), actual |-> RowOf(t + Horizon)]
  <2>1. e \in RunAudit
    BY DEF BacktestInv
  <2> QED
    BY <2>1 DEF RunAudit
<1>5. t \in Nat /\ t + Horizon \in Nat /\ t + Horizon < count(n) /\ t < count(n)
  <2>1. input.bars \in Nat
    BY DEF BacktestInv
  <2> HIDE DEF count
  <2> QED
    BY <1>0, <1>2, <1>3, <2>1 DEF Greatest
<1>6. \A s \in Nat : s < count(n) =>
        RowOf(s) \in 1 .. n /\ count(RowOf(s) - 1) = s
  <2> TAKE s \in Nat
  <2> HAVE s < count(n)
  <2>1. \E r \in 1 .. n : close[r] /\ count(r - 1) = s
    BY RowExists
  <2>2. \E r \in DOMAIN input.close :
          input.close[r] /\ Cardinality({q \in 1 .. r - 1 : input.close[q]}) = s
    BY <1>1, <2>1 DEF CloseRows
  <2>3. /\ RowOf(s) \in DOMAIN input.close
        /\ Cardinality({q \in 1 .. RowOf(s) - 1 : input.close[q]}) = s
    BY <2>2 DEF RowOf
  <2> QED
    BY <1>1, <2>3 DEF CloseRows
<1> DEFINE b == RowOf(t)
           a == RowOf(t + Horizon)
<1>7. b \in 1 .. n /\ count(b - 1) = t
  BY <1>5, <1>6
<1>8. a \in 1 .. n /\ count(a - 1) = t + Horizon
  BY <1>5, <1>6
<1> HIDE DEF a, b
<1>9. b - 1 \in Nat /\ a - 1 \in Nat /\ b \in Nat /\ a \in Nat
  BY <1>7, <1>8
<1>10. t <= b - 1
  <2>1. count(b - 1) <= b - 1
    BY <1>9, ClosesGrow
  <2> QED
    BY <1>7, <2>1
<1>11. b < a
  <2> SUFFICES ASSUME a - 1 <= b - 1 PROVE FALSE
    BY <1>9
  <2>1. count(a - 1) <= count(b - 1)
    BY <1>9, ClosesGrow
  <2> HIDE DEF count
  <2> QED
    BY <1>0, <1>5, <1>7, <1>8, <2>1
<1>12. e.seen = t + 1 /\ e.base = b /\ e.actual = a
  BY <1>4 DEF a, b
<1> QED
  BY <1>5, <1>9, <1>10, <1>11, <1>12

(* Momentum: assets are compared by cross products, in one order.            *)
LEMMA ScaleOrder ==
  ASSUME NEW u \in Nat, NEW v \in Nat, NEW w \in Nat, w > 0
  PROVE  /\ u * w \in Nat /\ v * w \in Nat
         /\ u < v <=> u * w < v * w
         /\ u <= v <=> u * w <= v * w
<1>1. u * w \in Nat /\ v * w \in Nat
  OBVIOUS
<1>2. ASSUME NEW s \in Nat, NEW t \in Nat, s < t PROVE s * w < t * w
  <2>1. PICK k \in Nat : t = (s + 1) + k
    <3>1. t - (s + 1) \in Nat /\ t = (s + 1) + (t - (s + 1))
      BY <1>2
    <3> QED
      BY <3>1
  <2>2. t * w = s * w + w + k * w /\ k * w \in Nat /\ s * w \in Nat
    BY <2>1
  <2> QED
    BY <2>2
<1>3. u < v => u * w < v * w
  BY <1>2
<1>4. v < u => v * w < u * w
  BY <1>2
<1>5. u = v => u * w = v * w
  OBVIOUS
<1> QED
  BY <1>1, <1>3, <1>4, <1>5

(* Comparing ratios by cross products is transitive.                         *)
LEMMA CrossProducts ==
  ASSUME NEW xa \in Nat, NEW xb \in Nat, NEW xc \in Nat, NEW ya \in Nat, NEW yb \in Nat,
         NEW yc \in Nat, ya > 0, yb > 0, yc > 0,
         xa * yb <= xb * ya, xb * yc <= xc * yb
  PROVE  /\ xa * yc <= xc * ya
         /\ xa * yb < xb * ya \/ xb * yc < xc * yb => xa * yc < xc * ya
<1> DEFINE ab == xa * yb
           ba == xb * ya
           bc == xb * yc
           cb == xc * yb
           ac == xa * yc
           ca == xc * ya
<1>1. ab \in Nat /\ ba \in Nat /\ bc \in Nat /\ cb \in Nat /\ ac \in Nat /\ ca \in Nat
  OBVIOUS
<1>2. ab * yc = ac * yb /\ ba * yc = bc * ya /\ cb * ya = ca * yb
  OBVIOUS
<1>3. ab <= ba /\ bc <= cb
  OBVIOUS
<1> HIDE DEF ab, ba, bc, cb, ac, ca
<1>4. /\ ab * yc <= ba * yc /\ (ab < ba => ab * yc < ba * yc)
      /\ ab * yc \in Nat /\ ba * yc \in Nat
  BY <1>1, <1>3, ScaleOrder
<1>5. /\ bc * ya <= cb * ya /\ (bc < cb => bc * ya < cb * ya)
      /\ bc * ya \in Nat /\ cb * ya \in Nat
  BY <1>1, <1>3, ScaleOrder
<1>6. /\ ac * yb \in Nat /\ ca * yb \in Nat
      /\ (ac < ca <=> ac * yb < ca * yb) /\ (ac <= ca <=> ac * yb <= ca * yb)
  BY <1>1, ScaleOrder
<1> DEFINE p == ab * yc
           q == ba * yc
           r == cb * ya
<1>7. /\ p \in Nat /\ q \in Nat /\ r \in Nat /\ p <= q /\ q <= r
      /\ ab < ba => p < q
      /\ bc < cb => q < r
      /\ (ac < ca <=> p < r) /\ (ac <= ca <=> p <= r)
  BY <1>2, <1>4, <1>5, <1>6
<1> HIDE DEF p, q, r
<1>8. ac <= ca /\ (ab < ba \/ bc < cb => ac < ca)
  BY <1>7
<1> QED
  BY <1>8 DEF ab, ba, bc, cb, ac, ca

(* As many of a finite total order have a rank below L as have one of the L  *)
(* last.                                                                     *)
StrictOrder(S, R) ==
  /\ \A a, b, c \in S : <<a, b>> \in R /\ <<b, c>> \in R => <<a, c>> \in R
  /\ \A a \in S : <<a, a>> \notin R
  /\ \A a, b \in S : a # b => <<a, b>> \in R \/ <<b, a>> \in R
RankIn(S, R, a) == Cardinality({b \in S : <<b, a>> \in R})
Ranked(S, R, I) == {a \in S : RankIn(S, R, a) \in I}

(* The rank in a strict order of a finite set: a number below its size,      *)
(* greater for what is greater.                                              *)
LEMMA RankGrows ==
  ASSUME NEW S, IsFiniteSet(S), NEW R, StrictOrder(S, R), NEW a \in S
  PROVE  /\ RankIn(S, R, a) \in Nat /\ RankIn(S, R, a) < Cardinality(S)
         /\ \A b \in S : <<a, b>> \in R => RankIn(S, R, a) < RankIn(S, R, b)
<1> DEFINE below(x) == {b \in S : <<b, x>> \in R}
<1>1. \A U, V : IsFiniteSet(V) /\ U \subseteq V /\ a \in V /\ a \notin U =>
        Cardinality(U) \in Nat /\ Cardinality(U) < Cardinality(V)
  <2> TAKE U, V
  <2> HAVE IsFiniteSet(V) /\ U \subseteq V /\ a \in V /\ a \notin U
  <2>1. /\ IsFiniteSet(U) /\ Cardinality(U) <= Cardinality(V)
        /\ Cardinality(V) = Cardinality(U) => V = U
    BY FS_Subset
  <2>2. Cardinality(U) \in Nat /\ Cardinality(V) \in Nat
    BY <2>1, FS_CardinalityType
  <2> QED
    BY <2>1, <2>2
<1>2. below(a) \subseteq S /\ a \notin below(a)
  BY DEF StrictOrder
<1>3. Cardinality(below(a)) \in Nat /\ Cardinality(below(a)) < Cardinality(S)
  <2> HIDE DEF below
  <2> QED
    BY <1>1, <1>2
<1>4. ASSUME NEW b \in S, <<a, b>> \in R PROVE Cardinality(below(a)) < Cardinality(below(b))
  <2>1. below(a) \subseteq below(b) /\ a \in below(b) /\ below(b) \in SUBSET S
    BY <1>4 DEF StrictOrder
  <2> HIDE DEF below
  <2>2. IsFiniteSet(below(b))
    BY <2>1, FS_Subset
  <2> QED
    BY <1>1, <1>2, <2>1, <2>2
<1> QED
  BY <1>3, <1>4 DEF RankIn

(* In a total one every rank is taken once, so that a set of ranks has as    *)
(* many elements as it has ranks.                                            *)
LEMMA RanksAreAll ==
  ASSUME NEW S, IsFiniteSet(S), NEW R, StrictOrder(S, R), NEW I \in SUBSET (0 .. Cardinality(S) - 1)
  PROVE  IsFiniteSet(Ranked(S, R, I)) /\ Cardinality(Ranked(S, R, I)) = Cardinality(I)
<1> DEFINE n == Cardinality(S)
           N == 0 .. n - 1
           rank == [a \in S |-> RankIn(S, R, a)]
           T == {a \in S : RankIn(S, R, a) \in I}
           part1 == [a \in T |-> RankIn(S, R, a)]
<1>1. n \in Nat
  BY FS_CardinalityType
<1>2. \A a \in S : /\ RankIn(S, R, a) \in Nat /\ RankIn(S, R, a) < n
                   /\ \A b \in S : <<a, b>> \in R => RankIn(S, R, a) < RankIn(S, R, b)
  BY RankGrows
<1>3. IsFiniteSet(N) /\ Cardinality(N) = n
  <2> HIDE DEF n
  <2>1. 0 \in Int /\ n - 1 \in Int
    BY <1>1
  <2>2. (n - 1) - 0 + 1 = n
    BY <1>1
  <2>3. Cardinality(N) = IF 0 > n - 1 THEN 0 ELSE (n - 1) - 0 + 1
    BY <2>1, FS_Interval
  <2> QED
    BY <1>1, <2>1, <2>2, <2>3, FS_Interval
<1> HIDE DEF n
<1>4. \A a, b \in S : RankIn(S, R, a) = RankIn(S, R, b) => a = b
  <2> TAKE a, b \in S
  <2>1. <<a, b>> \in R => RankIn(S, R, a) < RankIn(S, R, b)
    BY <1>2
  <2>2. <<b, a>> \in R => RankIn(S, R, b) < RankIn(S, R, a)
    BY <1>2
  <2>3. RankIn(S, R, a) \in Nat /\ RankIn(S, R, b) \in Nat
    BY <1>2
  <2> QED
    BY <2>1, <2>2, <2>3 DEF StrictOrder
<1>5. rank \in Injection(S, N)
  <2>1. \A a \in S : RankIn(S, R, a) \in N
    BY <1>1, <1>2
  <2> QED
    BY <1>4, <2>1 DEF Injection, IsInjective
<1>6. rank \in Surjection(S, N)
  <2> HIDE DEF rank, N
  <2> QED
    BY <1>3, <1>5, FS_Injection DEF n
<1>7. \A k \in N : \E a \in S : RankIn(S, R, a) = k
  BY <1>6 DEF Surjection
<1>8. part1 \in Bijection(T, I)
  <2>1. part1 \in [T -> I]
    OBVIOUS
  <2>2. \A a, b \in T : part1[a] = part1[b] => a = b
    BY <1>4
  <2>3. \A k \in I : \E a \in T : part1[a] = k
    <3>1. I \subseteq N
      BY DEF n
    <3> QED
      BY <1>7, <3>1
  <2> QED
    BY <2>1, <2>2, <2>3 DEF Bijection, Injection, IsInjective, Surjection
<1>9. ExistsBijection(T, I)
  <2> HIDE DEF part1, T
  <2> QED
    BY <1>8 DEF ExistsBijection
<1>10. IsFiniteSet(T)
  <2>1. T \in SUBSET S
    OBVIOUS
  <2> HIDE DEF T
  <2> QED
    BY <2>1, FS_Subset
<1>11. Cardinality(I) = Cardinality(T)
  <2> HIDE DEF T
  <2> QED
    BY <1>9, <1>10, FS_Bijection
<1> QED
  BY <1>10, <1>11 DEF Ranked

(* The order of the assets on a day, as pairs.                               *)
Order(P, d) == {p \in Assets \X Assets : Weaker(P, d, p[1], p[2])}

(* It is strict and total, so that every rank is taken once.                 *)
LEMMA OrderOfAssets ==
  ASSUME NEW P \in [1 .. Days -> [Assets -> Levels]], NEW d \in 2 .. Days
  PROVE  /\ StrictOrder(Assets, Order(P, d))
         /\ \A a \in Assets : Rank(P, d, a) = RankIn(Assets, Order(P, d), a)
<1> DEFINE x == P[d]
           y == P[d - 1]
<1>0. Days \in Nat /\ Assets \subseteq Nat /\ Levels \subseteq Nat \ {0}
  BY BacktestAssumption
<1>1. \A a \in Assets : x[a] \in Nat /\ y[a] \in Nat /\ x[a] > 0 /\ y[a] > 0
  <2>1. d \in 1 .. Days /\ d - 1 \in 1 .. Days
    BY <1>0
  <2>2. \A a \in Assets : x[a] \in Levels /\ y[a] \in Levels
    BY <2>1
  <2>3. \A l \in Levels : l \in Nat /\ l > 0
    BY <1>0
  <2> HIDE DEF x, y
  <2> QED
    BY <2>2, <2>3
<1>2. \A a, b \in Assets :
        Weaker(P, d, a, b) <=> x[a] * y[b] < x[b] * y[a] \/ (x[a] * y[b] = x[b] * y[a] /\ a < b)
  BY DEF Weaker
<1>3. \A a, b \in Assets : x[a] * y[b] \in Nat
  BY <1>1
<1>4. \A a, b \in Assets : <<a, b>> \in Order(P, d) <=> Weaker(P, d, a, b)
  BY DEF Order
<1> HIDE DEF x, y
<1>5. ASSUME NEW a \in Assets, NEW b \in Assets, NEW c \in Assets,
             Weaker(P, d, a, b), Weaker(P, d, b, c)
      PROVE  Weaker(P, d, a, c)
  <2>1. x[a] * y[b] <= x[b] * y[a] /\ x[b] * y[c] <= x[c] * y[b]
    BY <1>2, <1>3, <1>5
  <2>2. /\ x[a] * y[c] <= x[c] * y[a]
        /\ x[a] * y[b] < x[b] * y[a] \/ x[b] * y[c] < x[c] * y[b] => x[a] * y[c] < x[c] * y[a]
    <3>1. /\ x[a] \in Nat /\ x[b] \in Nat /\ x[c] \in Nat /\ y[a] \in Nat /\ y[b] \in Nat
          /\ y[c] \in Nat /\ y[a] > 0 /\ y[b] > 0 /\ y[c] > 0
      BY <1>1
    <3> QED
      BY ONLY <2>1, <3>1, CrossProducts
  <2>3. CASE a < b /\ b < c
    <3>1. a < c
      BY <1>0, <2>3
    <3> QED
      BY <1>2, <1>3, <2>2, <3>1
  <2>4. CASE ~(a < b /\ b < c)
    <3>1. x[a] * y[b] < x[b] * y[a] \/ x[b] * y[c] < x[c] * y[b]
      BY <1>2, <1>5, <2>4
    <3> QED
      BY <1>2, <2>2, <3>1
  <2> QED
    BY <2>3, <2>4
<1>6. ASSUME NEW a \in Assets PROVE ~Weaker(P, d, a, a)
  BY <1>0, <1>2, <1>3
<1>7. ASSUME NEW a \in Assets, NEW b \in Assets, a # b
      PROVE  Weaker(P, d, a, b) \/ Weaker(P, d, b, a)
  <2>1. x[a] * y[b] \in Nat /\ x[b] * y[a] \in Nat /\ a \in Nat /\ b \in Nat
    BY <1>0, <1>3
  <2> DEFINE u == x[a] * y[b]
             v == x[b] * y[a]
  <2>2. u \in Nat /\ v \in Nat
    BY <2>1
  <2>3. /\ Weaker(P, d, a, b) <=> u < v \/ (u = v /\ a < b)
        /\ Weaker(P, d, b, a) <=> v < u \/ (v = u /\ b < a)
    BY <1>2
  <2> HIDE DEF u, v
  <2> QED
    BY <1>7, <2>1, <2>2, <2>3
<1>8. \A a \in Assets : Rank(P, d, a) = RankIn(Assets, Order(P, d), a)
  <2> TAKE a \in Assets
  <2>1. {b \in Assets : Weaker(P, d, b, a)} = {b \in Assets : <<b, a>> \in Order(P, d)}
    BY <1>4
  <2> QED
    BY <2>1 DEF Rank, RankIn
<1> QED
  BY <1>4, <1>5, <1>6, <1>7, <1>8 DEF StrictOrder

(* As many assets are bought as are sold.                                    *)
LEMMA LegsBalance ==
  ASSUME NEW P \in [1 .. Days -> [Assets -> Levels]], NEW d \in 1 .. Days
  PROVE  Cardinality({a \in Assets : Weight(P, d, a) = 1})
           = Cardinality({a \in Assets : Weight(P, d, a) = -1})
<1>0. Days \in Nat /\ IsFiniteSet(Assets)
  BY BacktestAssumption
<1>1. CASE d = 1
  <2>1. \A a \in Assets : Weight(P, d, a) = 0
    BY <1>1 DEF Weight
  <2>2. {a \in Assets : Weight(P, d, a) = 1} = {} /\ {a \in Assets : Weight(P, d, a) = -1} = {}
    BY <2>1
  <2> QED
    BY <2>2
<1>2. CASE Assets = {}
  BY <1>2
<1>3. CASE d # 1 /\ Assets # {}
  <2> DEFINE n == Cardinality(Assets)
             R == Order(P, d)
             L == Leg
             strong == Ranked(Assets, R, n - L .. n - 1)
             weak == Ranked(Assets, R, 0 .. L - 1)
  <2>1. n \in Nat /\ n > 0
    BY <1>0, <1>3, FS_CardinalityType, FS_EmptySet
  <2>2. L \in Nat /\ L > 0 /\ L <= n
    <3> HIDE DEF n
    <3>1. n \div 4 \in Nat /\ n \div 4 <= n
      BY <2>1
    <3>2. L = Greatest(1, n \div 4)
      BY DEF Leg, n
    <3> QED
      BY <2>1, <3>1, <3>2 DEF Greatest
  <2>3. d \in 2 .. Days
    BY <1>0, <1>3
  <2>4. /\ StrictOrder(Assets, R)
        /\ \A a \in Assets : Rank(P, d, a) = RankIn(Assets, R, a)
    BY <2>3, OrderOfAssets
  <2> HIDE DEF L, R
  <2>5. \A I \in SUBSET (0 .. n - 1) :
          /\ IsFiniteSet(Ranked(Assets, R, I))
          /\ Cardinality(Ranked(Assets, R, I)) = Cardinality(I)
    BY <1>0, <2>4, RanksAreAll
  <2>6. \A a \in Assets : RankIn(Assets, R, a) \in Nat /\ RankIn(Assets, R, a) < n
    BY <1>0, <2>4, RankGrows
  <2> HIDE DEF n
  <2>7. n - L .. n - 1 \in SUBSET (0 .. n - 1) /\ 0 .. L - 1 \in SUBSET (0 .. n - 1)
    BY <2>1, <2>2
  <2>8. IsFiniteSet(strong) /\ Cardinality(strong) = L
    <3> DEFINE I == n - L .. n - 1
    <3>1. n - L \in Int /\ n - 1 \in Int /\ (n - 1) - (n - L) + 1 = L /\ ~(n - L > n - 1)
      BY <2>1, <2>2
    <3> DEFINE u == n - L
               v == n - 1
    <3>2. u \in Int /\ v \in Int /\ v - u + 1 = L /\ ~(u > v) /\ I = u .. v
      BY <3>1
    <3> HIDE DEF u, v
    <3>3. Cardinality(u .. v) = L
      BY <3>2, FS_Interval
    <3>4. Cardinality(I) = L /\ I \in SUBSET (0 .. n - 1)
      BY <2>7, <3>2, <3>3
    <3> HIDE DEF I
    <3> QED
      BY <2>5, <3>4 DEF I
  <2>9. IsFiniteSet(weak) /\ Cardinality(weak) = L
    <3> DEFINE v == L - 1
    <3>1. v \in Int /\ 0 \in Int /\ v - 0 + 1 = L /\ ~(0 > v)
      BY <2>2
    <3> HIDE DEF v
    <3>2. Cardinality(0 .. v) = L
      BY <3>1, FS_Interval
    <3> QED
      BY <2>5, <2>7, <3>2 DEF v
  <2>10. \A a \in Assets :
           Weight(P, d, a) = (IF a \in strong THEN 1 ELSE 0) - (IF a \in weak THEN 1 ELSE 0)
    <3> TAKE a \in Assets
    <3>1. Rank(P, d, a) = RankIn(Assets, R, a)
      BY <2>4
    <3>2. Rank(P, d, a) >= n - L <=> a \in strong
      BY <2>1, <2>2, <2>6, <3>1 DEF Ranked
    <3>3. Rank(P, d, a) < L <=> a \in weak
      BY <2>1, <2>2, <2>6, <3>1 DEF Ranked
    <3> HIDE DEF strong, weak
    <3> QED
      BY <1>3, <3>2, <3>3 DEF Weight, n, L
  <2>11. strong \subseteq Assets /\ weak \subseteq Assets
    BY DEF Ranked
  <2> HIDE DEF strong, weak
  <2>12. {a \in Assets : Weight(P, d, a) = 1} = strong \ weak
    BY <2>10, <2>11
  <2>13. {a \in Assets : Weight(P, d, a) = -1} = weak \ strong
    BY <2>10, <2>11
  <2>14. Cardinality(strong \ weak) = Cardinality(weak \ strong)
    <3>1. strong \cap weak = weak \cap strong
      OBVIOUS
    <3>2. /\ Cardinality(strong \ weak) = L - Cardinality(strong \cap weak)
          /\ Cardinality(weak \ strong) = L - Cardinality(weak \cap strong)
      BY <2>8, <2>9, FS_Difference
    <3> QED
      BY <3>1, <3>2
  <2> QED
    BY <2>12, <2>13, <2>14
<1> QED
  BY <1>1, <1>2, <1>3

(* A day's position rests on the two days before it.                         *)
LEMMA PositionsPrecede == BacktestInv /\ study = "momentum" => PositionsPrecedePrices
<1> SUFFICES ASSUME BacktestInv, study = "momentum", NEW held \in outcome, NEW d \in DOMAIN held
             PROVE  /\ \A other \in [Assets -> Levels] :
                         Held([input EXCEPT ![d] = other])[d] = held[d]
                    /\ Cardinality({a \in Assets : held[d][a] = 1})
                         = Cardinality({a \in Assets : held[d][a] = -1})
  BY DEF PositionsPrecedePrices
<1>0. Days \in Nat
  BY BacktestAssumption
<1>1. input \in [1 .. Days -> [Assets -> Levels]] /\ held = Held(input)
  BY DEF BacktestInv, RunMomentum
<1>2. Len(input) = Days
  BY <1>0, <1>1
<1>3. d \in 2 .. Days /\ held[d] = [a \in Assets |-> Weight(input, d - 1, a)]
  BY <1>1, <1>2 DEF Held
<1>4. ASSUME NEW other \in [Assets -> Levels]
      PROVE  Held([input EXCEPT ![d] = other])[d] = held[d]
  <2> DEFINE Q == [input EXCEPT ![d] = other]
             e == d - 1
  <2>1. Q \in [1 .. Days -> [Assets -> Levels]] /\ Len(Q) = Days
    BY <1>0, <1>1, <1>3
  <2>2. e \in 1 .. Days /\ Q[e] = input[e]
    BY <1>0, <1>1, <1>3
  <2>3. e # 1 => Q[e - 1] = input[e - 1]
    <3> SUFFICES ASSUME e # 1 PROVE Q[e - 1] = input[e - 1]
      OBVIOUS
    <3>1. e - 1 \in 1 .. Days /\ e - 1 # d
      BY <1>0, <1>3
    <3> QED
      BY <1>1, <3>1
  <2> HIDE DEF Q
  <2>4. Held(Q)[d] = [a \in Assets |-> Weight(Q, e, a)]
    BY <1>3, <2>1 DEF Held
  <2> HIDE DEF e
  <2>5. \A a \in Assets : Weight(Q, e, a) = Weight(input, e, a)
    <3>1. CASE e = 1
      BY <3>1 DEF Weight
    <3>2. CASE e # 1
      <4>1. \A a, b \in Assets : Weaker(Q, e, b, a) <=> Weaker(input, e, b, a)
        BY <2>2, <2>3, <3>2 DEF Weaker
      <4>2. \A a \in Assets : Rank(Q, e, a) = Rank(input, e, a)
        <5> TAKE a \in Assets
        <5>1. {b \in Assets : Weaker(Q, e, b, a)} = {b \in Assets : Weaker(input, e, b, a)}
          BY <4>1
        <5> QED
          BY <5>1 DEF Rank
      <4> QED
        BY <4>2 DEF Weight
    <3> QED
      BY <3>1, <3>2
  <2>6. held[d] = [a \in Assets |-> Weight(input, e, a)]
    BY <1>3 DEF e
  <2> QED
    BY <2>4, <2>5, <2>6 DEF Q
<1>5. Cardinality({a \in Assets : held[d][a] = 1}) = Cardinality({a \in Assets : held[d][a] = -1})
  <2> DEFINE e == d - 1
  <2>1. e \in 1 .. Days
    BY <1>0, <1>3
  <2>2. \A a \in Assets : held[d][a] = Weight(input, e, a)
    BY <1>3
  <2> HIDE DEF e
  <2>3. /\ {a \in Assets : held[d][a] = 1} = {a \in Assets : Weight(input, e, a) = 1}
        /\ {a \in Assets : held[d][a] = -1} = {a \in Assets : Weight(input, e, a) = -1}
    BY <2>2
  <2> QED
    BY <1>1, <2>1, <2>3, LegsBalance
<1> QED
  BY <1>4, <1>5

(* All four studies.                                                         *)
LEMMA StudiesLookBack == BacktestInv => JudgedByUnseen
<1> SUFFICES ASSUME BacktestInv, outcome # {}
             PROVE  CASE study = "momentum" -> PositionsPrecedePrices
                      [] study = "orb"      -> TradesPrecedeCloses
                      [] study = "folds"    -> FoldsArePurged
                      [] study = "audit"    -> AuditLooksBack
  BY DEF JudgedByUnseen
<1>1. study \in {"momentum", "orb", "folds", "audit"}
  BY DEF BacktestInv
<1> QED
  BY <1>1, PositionsPrecede, TradesFollow, FoldsApart, AuditsLookBack

(* In every behaviour.                                                       *)
LEMMA BackInBacktests == BacktestSpec => []JudgedByUnseen
  BY InitBacktestInv, StepBacktestInv, StudiesLookBack, PTL DEF BacktestSpec

-----------------------------------------------------------------------------
(* Forecasts, for any jobs on any data.                                      *)

(* Programs without a choice: their seeds and draws are one value each.      *)
Values == Salts \cup {"42", "43", "44", "shocks", "noise", "jumps", "sizes", "base", "path",
                      "closes", "highs", "lows", "volumes"}
Ops == [act : {"seed", "draw"}, of : {{x} : x \in Values}]
(* And that seed the generator first. *)
Fixed == {p \in Seq(Ops) : p # <<>> => p[1].act = "seed"}

(* Seeds and draws of one value are operations.                              *)
LEMMA OpTypes ==
  /\ \A x \in Values : Seed({x}) \in Ops /\ Draw(x) \in Ops
  /\ \A x : Seed(x).act = "seed"
BY DEF Ops, Seed, Draw

(* Programs joined are programs.                                             *)
LEMMA FixedJoin ==
  /\ <<>> \in Fixed
  /\ \A p, q \in Fixed : p \o q \in Fixed
  /\ \A p \in Fixed, q \in Seq(Ops) : p # <<>> => p \o q \in Fixed /\ p \o q # <<>>
<1>1. <<>> \in Fixed
  BY DEF Fixed
<1>2. ASSUME NEW p \in Fixed, NEW q \in Seq(Ops), p # <<>>
      PROVE  p \o q \in Fixed /\ p \o q # <<>>
  <2>1. p \in Seq(Ops) /\ p[1].act = "seed"
    BY <1>2 DEF Fixed
  <2> HIDE DEF Fixed
  <2>2. /\ p \o q \in Seq(Ops) /\ Len(p \o q) = Len(p) + Len(q) /\ Len(p) \in Nat /\ Len(p) # 0
        /\ Len(q) \in Nat /\ (1 <= Len(p) => (p \o q)[1] = p[1])
    BY <1>2, <2>1, ConcatProperties, EmptySeq, LenProperties
  <2>3. p \o q # <<>> /\ (p \o q)[1] = p[1]
    BY <2>2, EmptySeq
  <2> QED
    BY <2>1, <2>2, <2>3 DEF Fixed
<1>3. ASSUME NEW p \in Fixed, NEW q \in Fixed PROVE p \o q \in Fixed
  <2>1. CASE p # <<>>
    <3>1. q \in Seq(Ops)
      BY DEF Fixed
    <3> QED
      BY <1>2, <2>1, <3>1
  <2>2. CASE p = <<>>
    <3>1. q \in Seq(Ops)
      BY DEF Fixed
    <3>2. <<>> \o q = q
      BY <3>1, ConcatEmptySeq
    <3> QED
      BY <2>2, <3>2
  <2> QED
    BY <2>1, <2>2
<1> QED
  BY <1>1, <1>2, <1>3

(* Sequences joined to one: the recursive function in the definition of      *)
(* FlattenSeq exists, and what is closed under joining holds the result.     *)
Flat(s) == CHOOSE g : g = [i \in 1 .. Len(s) |-> IF i = 1 THEN s[i] ELSE g[i - 1] \o s[i]]

(* It exists, one step at a time.                                            *)
LEMMA FlatSteps ==
  ASSUME NEW s, Len(s) \in Nat
  PROVE  \A i \in 1 .. Len(s) : Flat(s)[i] = IF i = 1 THEN s[i] ELSE Flat(s)[i - 1] \o s[i]
<1> DEFINE F(g, i) == IF i = 1 THEN s[i] ELSE g[i - 1] \o s[i]
           N == Len(s)
           Good(m) == \E g : \A i \in 1 .. m : g[i] = F(g, i)
           T == {m \in Nat : Good(m)}
<1>1. 0 \in T
  OBVIOUS
<1>2. ASSUME NEW m \in T PROVE m + 1 \in T
  <2>1. PICK g : \A i \in 1 .. m : g[i] = F(g, i)
    BY <1>2
  <2> DEFINE h == [i \in 1 .. m + 1 |-> IF i = m + 1 THEN F(g, i) ELSE g[i]]
  <2>2. \A i \in 1 .. m : h[i] = g[i]
    OBVIOUS
  <2>3. \A i \in 1 .. m + 1 : i # 1 => i - 1 \in 1 .. m
    OBVIOUS
  <2>4. \A i \in 1 .. m + 1 : F(h, i) = F(g, i)
    BY <2>2, <2>3
  <2>5. \A i \in 1 .. m + 1 : h[i] = F(g, i)
    BY <2>1
  <2>6. m + 1 \in Nat
    OBVIOUS
  <2> HIDE DEF h, F
  <2> QED
    BY <2>4, <2>5, <2>6
<1>3. N \in T
  <2>1. T \in SUBSET Nat
    OBVIOUS
  <2> HIDE DEF T
  <2> QED
    BY <1>1, <1>2, <2>1, Induction
<1>4. PICK g : \A i \in 1 .. N : g[i] = F(g, i)
  BY <1>3
<1> DEFINE w == [i \in 1 .. N |-> g[i]]
<1>5. \A i \in 1 .. N : i # 1 => i - 1 \in 1 .. N
  OBVIOUS
<1>6. \A i \in 1 .. N : w[i] = F(w, i)
  BY <1>4, <1>5
<1>7. w = [i \in 1 .. N |-> F(w, i)]
  BY <1>6
<1>8. Flat(s) = [i \in 1 .. N |-> F(Flat(s), i)]
  BY <1>7 DEF Flat
<1> QED
  BY <1>8

(* What is closed under joining holds the result.                            *)
LEMMA FlattenStays ==
  ASSUME NEW C, <<>> \in C, \A p, q \in C : p \o q \in C, NEW s \in Seq(C)
  PROVE  FlattenSeq(s) \in C
<1>1. Len(s) \in Nat /\ \A i \in 1 .. Len(s) : s[i] \in C
  BY ElementOfSeq, LenProperties
<1>2. CASE Len(s) = 0
  <2>1. s = <<>>
    BY <1>2, EmptySeq
  <2>2. FlattenSeq(s) = s
    BY <1>2 DEF FlattenSeq
  <2> QED
    BY <2>1, <2>2
<1>3. CASE Len(s) # 0
  <2>1. FlattenSeq(s) = Flat(s)[Len(s)]
    BY <1>3 DEF FlattenSeq, Flat
  <2> DEFINE T == {m \in Nat : m + 1 <= Len(s) => Flat(s)[m + 1] \in C}
  <2>2. 0 \in T
    <3>1. 1 \in 1 .. Len(s)
      BY <1>1, <1>3
    <3>2. Flat(s)[1] = s[1]
      BY <1>1, <3>1, FlatSteps
    <3> QED
      BY <1>1, <3>1, <3>2
  <2>3. ASSUME NEW m \in T PROVE m + 1 \in T
    <3> SUFFICES ASSUME (m + 1) + 1 <= Len(s) PROVE Flat(s)[(m + 1) + 1] \in C
      OBVIOUS
    <3> DEFINE k == (m + 1) + 1
    <3>1. k \in 1 .. Len(s) /\ k # 1 /\ k - 1 = m + 1 /\ m + 1 <= Len(s)
      BY <1>1
    <3>2. Flat(s)[m + 1] \in C
      BY <3>1
    <3> HIDE DEF k
    <3>3. Flat(s)[k] = Flat(s)[m + 1] \o s[k]
      BY <1>1, <3>1, FlatSteps
    <3>4. Flat(s)[k] \in C
      BY <1>1, <3>1, <3>2, <3>3
    <3> QED
      BY <3>4 DEF k
  <2>4. \A m \in Nat : m \in T
    <3>1. T \in SUBSET Nat
      OBVIOUS
    <3> HIDE DEF T
    <3> QED
      BY <2>2, <2>3, <3>1, Induction
  <2>5. Len(s) - 1 \in Nat /\ (Len(s) - 1) + 1 = Len(s)
    BY <1>1, <1>3
  <2>6. Flat(s)[Len(s)] \in C
    BY <2>4, <2>5
  <2> QED
    BY <2>1, <2>6
<1> QED
  BY <1>2, <1>3

(* The paths of a jump diffusion, for any number of steps.                   *)
LEMMA JumpIsFixed == \A s \in {"42", "43", "44"} : Jump(s) \in Fixed /\ Jump(s) # <<>>
<1> TAKE s \in {"42", "43", "44"}
<1> DEFINE three == <<Draw("noise"), Draw("jumps"), Draw("sizes")>>
           steps == [i \in 1 .. Steps |-> three]
<1>1. /\ Seed({s}) \in Ops /\ Draw("noise") \in Ops /\ Draw("jumps") \in Ops
      /\ Draw("sizes") \in Ops /\ Seed({s}).act = "seed"
  <2>1. /\ s \in Values /\ "noise" \in Values /\ "jumps" \in Values /\ "sizes" \in Values
    BY DEF Values
  <2> QED
    BY <2>1, OpTypes
<1>2. three \in Seq(Ops)
  BY <1>1
<1>3. steps \in Seq(Seq(Ops))
  <2> HIDE DEF three
  <2>1. Steps \in Nat
    BY ForecastAssumption
  <2> QED
    BY <1>2, <2>1
<1>4. FlattenSeq(steps) \in Seq(Ops)
  <2> HIDE DEF steps
  <2>1. <<>> \in Seq(Ops) /\ \A p, q \in Seq(Ops) : p \o q \in Seq(Ops)
    BY EmptySeq, ConcatProperties
  <2> QED
    BY <1>3, <2>1, FlattenStays
<1>5. <<Seed({s})>> \in Fixed /\ <<Seed({s})>> # <<>>
  BY <1>1 DEF Fixed
<1> HIDE DEF steps
<1>6. Jump(s) = <<Seed({s})>> \o FlattenSeq(steps)
  BY DEF Jump, steps
<1> QED
  BY <1>4, <1>5, <1>6, FixedJoin

(* A prediction on any number of rows.                                       *)
LEMMA PredictIsFixed == \A n, x : Predict(n, x) \in Fixed
<1> TAKE n, x
<1> DEFINE start == <<Seed({"42"}), Draw("shocks")>>
           more == IF x THEN Jump("42") \o Jump("43") \o Jump("44") ELSE <<>>
<1>1. start \in Fixed
  <2>1. "42" \in Values /\ "shocks" \in Values
    BY DEF Values
  <2>2. Seed({"42"}) \in Ops /\ Draw("shocks") \in Ops /\ Seed({"42"}).act = "seed"
    BY <2>1, OpTypes
  <2> QED
    BY <2>2 DEF Fixed
<1>2. more \in Fixed
  <2>1. Jump("42") \in Fixed /\ Jump("43") \in Fixed /\ Jump("44") \in Fixed
    BY JumpIsFixed
  <2>2. Jump("42") \o Jump("43") \in Fixed
    BY <2>1, FixedJoin
  <2>3. (Jump("42") \o Jump("43")) \o Jump("44") \in Fixed
    BY <2>1, <2>2, FixedJoin
  <2> QED
    BY <2>3, FixedJoin
<1>3. start \o more \in Fixed
  <2> HIDE DEF start, more
  <2> QED
    BY <1>1, <1>2, FixedJoin
<1> HIDE DEF more
<1>4. Predict(n, x) = IF n < MinFit THEN <<>> ELSE start \o more
  BY DEF Predict, more
<1> QED
  BY <1>3, <1>4, FixedJoin

(* Programs one after the other.                                             *)
LEMMA FlattenFixed == \A s \in Seq(Fixed) : FlattenSeq(s) \in Fixed
<1> TAKE s \in Seq(Fixed)
<1>1. <<>> \in Fixed /\ \A p, q \in Fixed : p \o q \in Fixed
  BY FixedJoin
<1> QED
  BY <1>1, FlattenStays

(* A review of any number of rows.                                           *)
LEMMA ReviewIsFixed == \A n \in Nat : Review(n) \in Fixed
<1> TAKE n \in Nat
<1> DEFINE first == IF n - Walked - Ahead > FirstBar THEN n - Walked - Ahead ELSE FirstBar
           count == n - Ahead - first
           all == [k \in 1 .. count |-> Predict(first + k, FALSE)]
<1>0. Walked \in Nat /\ Ahead \in Nat /\ FirstBar \in Nat
  BY ForecastAssumption
<1>1. first \in Int
  BY <1>0
<1> HIDE DEF first
<1>2. count \in Int
  BY <1>0, <1>1
<1> HIDE DEF count
<1>3. CASE count > 0
  <2>1. all \in Seq(Fixed)
    <3>1. count \in Nat
      BY <1>2, <1>3
    <3>2. \A k \in 1 .. count : all[k] \in Fixed
      BY PredictIsFixed
    <3>3. all = [k \in 1 .. count |-> all[k]]
      OBVIOUS
    <3> HIDE DEF all
    <3> QED
      BY <3>1, <3>2, <3>3
  <2> HIDE DEF all
  <2>2. FlattenSeq(all) \in Fixed
    BY <2>1, FlattenFixed
  <2>3. Review(n) = IF n < Walked + FirstBar \/ count <= 0 THEN <<>> ELSE FlattenSeq(all)
    BY DEF Review, all, count, first
  <2> QED
    BY <2>2, <2>3, FixedJoin
<1>4. CASE ~(count > 0)
  <2>1. count <= 0
    BY <1>2, <1>4
  <2>2. Review(n) = <<>>
    BY <2>1 DEF Review, count, first
  <2> QED
    BY <2>2, FixedJoin
<1> QED
  BY <1>3, <1>4

(* A screening of any number of symbols.                                     *)
LEMMA ScreenIsFixed == \A rs \in Seq(Nat) : Screen(rs) \in Fixed
<1> TAKE rs \in Seq(Nat)
<1> DEFINE each == [i \in DOMAIN rs |-> IF rs[i] < MinScreen THEN <<>> ELSE Predict(rs[i], TRUE)]
<1>1. each \in Seq(Fixed)
  <2>1. \A i \in DOMAIN rs : each[i] \in Fixed
    BY PredictIsFixed, FixedJoin
  <2>2. DOMAIN rs = 1 .. Len(rs) /\ Len(rs) \in Nat
    OBVIOUS
  <2>3. each = [i \in 1 .. Len(rs) |-> each[i]]
    BY <2>2
  <2> HIDE DEF each
  <2>4. \A i \in 1 .. Len(rs) : each[i] \in Fixed
    BY <2>1, <2>2
  <2> QED
    BY <2>2, <2>3, <2>4
<1> HIDE DEF each
<1>2. Screen(rs) = FlattenSeq(each)
  BY DEF Screen, each
<1> QED
  BY <1>1, <1>2, FlattenFixed

(* Synthetic bars, in a process with any salt.                               *)
LEMMA SyntheticIsFixed == \A s \in Salts : Synthetic(s) \in Fixed
<1> TAKE s \in Salts
<1>1. /\ s \in Values /\ "base" \in Values /\ "path" \in Values /\ "closes" \in Values
      /\ "highs" \in Values /\ "lows" \in Values /\ "volumes" \in Values
  BY DEF Values
<1>2. /\ Seed({s}) \in Ops /\ Draw("base") \in Ops /\ Draw("path") \in Ops
      /\ Draw("closes") \in Ops /\ Draw("highs") \in Ops /\ Draw("lows") \in Ops
      /\ Draw("volumes") \in Ops /\ Seed({s}).act = "seed"
  BY <1>1, OpTypes
<1>3. Synthetic(s) \in Seq(Ops)
  BY <1>2 DEF Synthetic
<1>4. Synthetic(s)[1] = Seed({s})
  BY DEF Synthetic
<1> QED
  BY <1>2, <1>3, <1>4 DEF Fixed

(* So every repeatable job is a program without a choice.                    *)
LEMMA ProgramIsFixed ==
  ASSUME NEW s \in Salts, NEW job \in Jobs, Repeatable(job)
  PROVE  Program(job, s) \in Fixed
<1>1. job.kind \in {"advanced", "review", "screen", "synthetic"}
  BY DEF Repeatable
<1>2. /\ job.kind \in {"advanced", "review"} => job.rows \in Nat \X Nat
      /\ job.kind = "screen" => job.rows \in Seq(Nat)
  BY ForecastAssumption
<1>3. CASE job.kind = "advanced"
  BY <1>3, PredictIsFixed DEF Program
<1>4. CASE job.kind = "review"
  <2> DEFINE n == IF job.rows[1] < MinReview THEN job.rows[2] ELSE job.rows[1]
  <2>1. Program(job, s) = Review(n)
    BY <1>4 DEF Program
  <2>2. n \in Nat
    BY <1>2, <1>4
  <2> HIDE DEF n
  <2> QED
    BY <2>1, <2>2, ReviewIsFixed
<1>5. CASE job.kind = "screen"
  BY <1>2, <1>5, ScreenIsFixed DEF Program
<1>6. CASE job.kind = "synthetic"
  BY <1>6, SyntheticIsFixed DEF Program
<1> QED
  BY <1>1, <1>3, <1>4, <1>5, <1>6

(* What a program leaves the generator in, and what it has drawn, after each *)
(* step.                                                                     *)
After(s, op) ==
  LET x == CHOOSE x \in op.of : TRUE
      r == IF op.act = "seed" THEN [seed |-> x, drawn |-> <<>>]
           ELSE [s.rng EXCEPT !.drawn = Append(@, x)]
  IN [rng |-> r, got |-> IF op.act = "draw" THEN Append(s.got, r) ELSE s.got]
Traced(p, n, h) ==
  /\ h[0].got = <<>>
  /\ \A k \in 1 .. n : h[k] = After(h[k - 1], p[k])
Trace(p) == CHOOSE h : Traced(p, Len(p), h)
Result(job, s) == Trace(Program(job, s))[Len(Program(job, s))].got

(* There is such a trace, one operation at a time.                           *)
LEMMA TraceExists ==
  ASSUME NEW p, Len(p) \in Nat
  PROVE  Traced(p, Len(p), Trace(p))
<1> DEFINE T == {n \in Nat : \E h : Traced(p, n, h)}
<1>1. 0 \in T
  <2>1. Traced(p, 0, [i \in 0 .. 0 |-> [got |-> <<>>]])
    BY DEF Traced
  <2> QED
    BY <2>1
<1>2. ASSUME NEW n \in T PROVE n + 1 \in T
  <2>1. PICK h : Traced(p, n, h)
    BY <1>2
  <2> DEFINE g == [i \in 0 .. n + 1 |-> IF i = n + 1 THEN After(h[n], p[n + 1]) ELSE h[i]]
  <2>2. \A i \in 0 .. n : g[i] = h[i]
    OBVIOUS
  <2>3. g[n + 1] = After(h[n], p[n + 1])
    OBVIOUS
  <2>4. \A k \in 1 .. n + 1 : k \in 1 .. n \/ k = n + 1
    OBVIOUS
  <2>5. \A k \in 1 .. n : k \in 0 .. n /\ k - 1 \in 0 .. n
    OBVIOUS
  <2>6. (n + 1) - 1 = n /\ n \in 0 .. n /\ 0 \in 0 .. n
    OBVIOUS
  <2> HIDE DEF g
  <2>7. \A k \in 1 .. n + 1 : g[k] = After(g[k - 1], p[k])
    BY <2>1, <2>2, <2>3, <2>4, <2>5, <2>6 DEF Traced
  <2>8. Traced(p, n + 1, g)
    BY <2>1, <2>2, <2>6, <2>7 DEF Traced
  <2> QED
    BY <2>8
<1>3. Len(p) \in T
  <2>1. T \in SUBSET Nat
    OBVIOUS
  <2> HIDE DEF T
  <2> QED
    BY <1>1, <1>2, <2>1, Induction
<1> QED
  BY <1>3 DEF Trace

(* A run that overlapped no other is somewhere in its program, has drawn     *)
(* what the program draws up to there, and left the generator as the program *)
(* does; and what was said is what the programs draw to their end.           *)
Running(t, job, todo, got, alone) ==
  work[t] = [busy |-> TRUE, job |-> job, todo |-> todo, got |-> got, alone |-> alone]
Lone(t) == work[t].busy /\ work[t].alone /\ Repeatable(work[t].job)
At(p, k, todo, got, gen) ==
  /\ k \in 0 .. Len(p) /\ todo \in Seq(Ops) /\ Len(todo) = Len(p) - k
  /\ \A i \in 1 .. Len(todo) : todo[i] = p[k + i]
  /\ got = Trace(p)[k].got
  /\ k > 0 => gen = Trace(p)[k].rng
ForecastInv ==
  /\ salt \in Salts /\ work = [t \in Threads |-> work[t]] /\ DOMAIN said = Jobs
  /\ \A t \in Threads : \/ work[t] = Idle
                        \/ \E job \in Jobs : \E todo, got, alone : Running(t, job, todo, got, alone)
  /\ \A t, u \in Threads : work[t].busy /\ work[t].alone /\ u # t => ~work[u].busy
  /\ \A t \in Threads : Lone(t) =>
       \E k \in Nat : At(Program(work[t].job, salt), k, work[t].todo, work[t].got, rng)
  /\ \A job \in Jobs : \A g \in said[job] : Repeatable(job) /\ g = Result(job, salt)

(* No job runs at first.                                                     *)
LEMMA InitForecastInv == ForecastInit => ForecastInv
<1> SUFFICES ASSUME ForecastInit PROVE ForecastInv
  OBVIOUS
<1>1. /\ salt \in Salts /\ work = [t \in Threads |-> Idle] /\ said = [job \in Jobs |-> {}]
  BY DEF ForecastInit
<1>2. \A t \in Threads : work[t] = Idle /\ ~work[t].busy
  BY <1>1 DEF Idle
<1>3. work = [t \in Threads |-> work[t]] /\ DOMAIN said = Jobs /\ \A job \in Jobs : said[job] = {}
  BY <1>1
<1> QED
  BY <1>1, <1>2, <1>3 DEF ForecastInv, Lone

(* A program has a length.                                                   *)
LEMMA FixedLength == \A p \in Fixed : p \in Seq(Ops) /\ Len(p) \in Nat
BY LenProperties DEF Fixed

(* One operation takes a run one step further.                               *)
LEMMA OneOperation ==
  ASSUME NEW p \in Fixed, NEW k \in Nat, NEW todo, NEW got, NEW gen, At(p, k, todo, got, gen),
         todo # <<>>, NEW x \in Head(todo).of, NEW r,
         r = IF Head(todo).act = "seed" THEN [seed |-> x, drawn |-> <<>>]
             ELSE [gen EXCEPT !.drawn = Append(@, x)]
  PROVE  At(p, k + 1, Tail(todo), IF Head(todo).act = "draw" THEN Append(got, r) ELSE got, r)
<1> DEFINE op == p[k + 1]
           s == Trace(p)[k]
<1>1. p \in Seq(Ops) /\ Len(p) \in Nat
  BY FixedLength
<1>2. todo \in Seq(Ops) /\ Len(todo) = Len(p) - k /\ k \in 0 .. Len(p)
  BY DEF At
<1>3. Len(todo) \in Nat /\ Len(todo) # 0
  BY <1>2, EmptySeq, LenProperties
<1>4. k + 1 \in 1 .. Len(p) /\ (k + 1) - 1 = k /\ 1 \in 1 .. Len(todo)
  BY <1>1, <1>2, <1>3
<1>5. Head(todo) = op /\ op \in Ops
  <2>1. Head(todo) = todo[1]
    BY <1>2
  <2>2. todo[1] = p[k + 1]
    BY <1>4 DEF At
  <2> QED
    BY <1>1, <1>4, <2>1, <2>2, ElementOfSeq
<1>6. /\ Tail(todo) \in Seq(Ops) /\ Len(Tail(todo)) = Len(todo) - 1
      /\ \A i \in 1 .. Len(todo) - 1 : Tail(todo)[i] = todo[i + 1]
  BY <1>2, <1>3
<1>7. \A i \in 1 .. Len(Tail(todo)) : Tail(todo)[i] = p[(k + 1) + i]
  <2> TAKE i \in 1 .. Len(Tail(todo))
  <2>1. i \in 1 .. Len(todo) - 1 /\ i + 1 \in 1 .. Len(todo) /\ k + (i + 1) = (k + 1) + i
    BY <1>3, <1>6
  <2>2. todo[i + 1] = p[k + (i + 1)]
    BY <2>1 DEF At
  <2> QED
    BY <1>6, <2>1, <2>2
<1>8. Trace(p)[k + 1] = After(s, op)
  <2>1. Traced(p, Len(p), Trace(p))
    BY <1>1, TraceExists
  <2> QED
    BY <1>4, <2>1 DEF Traced
<1>9. x = CHOOSE y \in op.of : TRUE
  <2>1. PICK v : op.of = {v}
    BY <1>5 DEF Ops
  <2> QED
    BY <1>5, <2>1
<1>10. got = s.got /\ (k > 0 => gen = s.rng)
  BY DEF At
<1>11. k = 0 => op.act = "seed"
  <2> SUFFICES ASSUME k = 0 PROVE op.act = "seed"
    OBVIOUS
  <2>1. p # <<>>
    <3>1. Len(p) # 0
      BY <1>2, <1>3
    <3> QED
      BY <3>1
  <2> QED
    BY <2>1 DEF Fixed
<1>12. r = After(s, op).rng
  <2>1. CASE op.act = "seed"
    BY <1>5, <1>9, <2>1 DEF After
  <2>2. CASE op.act # "seed"
    <3>1. gen = s.rng
      BY <1>10, <1>11, <2>2
    <3>2. r = [s.rng EXCEPT !.drawn = Append(@, x)]
      BY <1>5, <2>2, <3>1
    <3>3. After(s, op).rng = [s.rng EXCEPT !.drawn = Append(@, CHOOSE y \in op.of : TRUE)]
      BY <2>2 DEF After
    <3> QED
      BY <1>9, <3>2, <3>3
  <2> QED
    BY <2>1, <2>2
<1>13. (IF op.act = "draw" THEN Append(got, r) ELSE got) = After(s, op).got
  <2>1. After(s, op).got = IF op.act = "draw" THEN Append(s.got, After(s, op).rng) ELSE s.got
    BY DEF After
  <2> QED
    BY <1>10, <1>12, <2>1
<1>14. k + 1 \in 0 .. Len(p) /\ Len(Tail(todo)) = Len(p) - (k + 1)
  BY <1>1, <1>2, <1>3, <1>4, <1>6
<1> HIDE DEF op, s
<1> QED
  BY <1>5, <1>6, <1>7, <1>8, <1>12, <1>13, <1>14 DEF At

(* A run starts at the beginning, whatever the generator was left in.        *)
LEMMA StartOfProgram ==
  ASSUME NEW p \in Fixed, NEW gen
  PROVE  At(p, 0, p, <<>>, gen)
<1>1. p \in Seq(Ops) /\ Len(p) \in Nat /\ Traced(p, Len(p), Trace(p))
  BY FixedLength, TraceExists
<1>2. \A i \in 1 .. Len(p) : p[i] = p[0 + i]
  BY <1>1
<1> QED
  BY <1>1, <1>2 DEF At, Traced

(* With nothing left to do it has drawn what the program draws.              *)
LEMMA EndOfProgram ==
  ASSUME NEW p \in Fixed, NEW k \in Nat, NEW got, NEW gen, At(p, k, <<>>, got, gen)
  PROVE  got = Trace(p)[Len(p)].got
<1>1. Len(p) \in Nat /\ Len(<<>>) = 0
  BY FixedLength
<1>2. k = Len(p)
  BY <1>1 DEF At
<1> QED
  BY <1>2 DEF At

(* The programs of forecasts do not depend on the process.                   *)
LEMMA ProgramsStay ==
  \A s, u : \A job \in Jobs : job.kind # "synthetic" => Program(job, s) = Program(job, u)
BY ForecastAssumption DEF Program

(* What a run becomes when another starts beside it, and when it goes on.    *)
LEMMA RunOverlapped ==
  ASSUME NEW b, NEW j, NEW todo, NEW got, NEW alone, NEW x, NEW y, NEW w,
         w = [busy |-> b, job |-> j, todo |-> todo, got |-> got, alone |-> alone]
  PROVE  [w EXCEPT !.got = x, !.alone = y]
           = [busy |-> b, job |-> j, todo |-> todo, got |-> x, alone |-> y]
<1> DEFINE S == [busy : {b}, job : {j}, todo : {todo}, got : {got, x}, alone : {alone, y}]
           v == [w EXCEPT !.got = x, !.alone = y]
<1>1. w \in S
  OBVIOUS
<1>2. v \in S
  BY <1>1
<1>3. v.got = x /\ v.alone = y
  BY <1>1
<1> HIDE DEF v
<1>4. v = [busy |-> v.busy, job |-> v.job, todo |-> v.todo, got |-> v.got, alone |-> v.alone]
  BY <1>2
<1>5. v.busy = b /\ v.job = j /\ v.todo = todo
  BY <1>2
<1>6. v = [busy |-> b, job |-> j, todo |-> todo, got |-> x, alone |-> y]
  BY <1>3, <1>4, <1>5
<1> QED
  BY <1>6 DEF v

(* And when it goes on.                                                      *)
LEMMA RunAdvanced ==
  ASSUME NEW b, NEW j, NEW todo, NEW got, NEW alone, NEW x, NEW y, NEW w,
         w = [busy |-> b, job |-> j, todo |-> todo, got |-> got, alone |-> alone]
  PROVE  [w EXCEPT !.todo = x, !.got = y]
           = [busy |-> b, job |-> j, todo |-> x, got |-> y, alone |-> alone]
<1> DEFINE S == [busy : {b}, job : {j}, todo : {todo, x}, got : {got, y}, alone : {alone}]
           v == [w EXCEPT !.todo = x, !.got = y]
<1>1. w \in S
  OBVIOUS
<1>2. v \in S
  BY <1>1
<1>3. v.todo = x /\ v.got = y
  BY <1>1
<1> HIDE DEF v
<1>4. v = [busy |-> v.busy, job |-> v.job, todo |-> v.todo, got |-> v.got, alone |-> v.alone]
  BY <1>2
<1>5. v.busy = b /\ v.job = j /\ v.alone = alone
  BY <1>2
<1>6. v = [busy |-> b, job |-> j, todo |-> x, got |-> y, alone |-> alone]
  BY <1>3, <1>4, <1>5
<1> QED
  BY <1>6 DEF v

(* A start marks all that overlap; an operation of a lone run is the next of *)
(* its program; an answer adds what the program draws.                       *)
LEMMA StepForecastInv == ForecastInv /\ [ForecastNext]_forecastVars => ForecastInv'
<1> SUFFICES ASSUME ForecastInv, [ForecastNext]_forecastVars PROVE ForecastInv'
  OBVIOUS
<1>1. ASSUME NEW t \in Threads, StartJob(t) PROVE ForecastInv'
  <2> DEFINE others == {u \in Threads \ {t} : work[u].busy}
             flag == others = {}
  <2>1. /\ ~work[t].busy /\ salt' = salt /\ said' = said /\ rng' = rng
    BY <1>1 DEF StartJob
  <2>2. PICK job \in Jobs :
          work' = [u \in Threads |->
                     IF u = t THEN [busy |-> TRUE, job |-> job, todo |-> Program(job, salt),
                                    got |-> <<>>, alone |-> flag]
                     ELSE IF u \in others THEN [work[u] EXCEPT !.got = <<>>, !.alone = FALSE]
                     ELSE work[u]]
    BY <1>1 DEF StartJob
  <2>5. \A u \in Threads \ {t} : u \notin others => ~work[u].busy
    OBVIOUS
  <2>6. flag => \A u \in Threads : u \notin others
    OBVIOUS
  <2>7. \A u \in others : u \in Threads /\ u # t /\ work[u].busy
    OBVIOUS
  <2> HIDE DEF flag, others
  <2>8. work'[t] = [busy |-> TRUE, job |-> job, todo |-> Program(job, salt), got |-> <<>>,
                    alone |-> flag]
    BY <2>2
  <2>9. \A u \in Threads \ {t} : u \notin others => work'[u] = work[u]
    BY <2>2
  <2>10. ASSUME NEW u \in others
         PROVE  \E j \in Jobs : \E todo, got : Running(u, j, todo, got, FALSE)'
    <3>1. work[u] # Idle
      BY <2>7 DEF Idle
    <3>2. PICK j \in Jobs : \E todo, got, alone : Running(u, j, todo, got, alone)
      BY <2>7, <3>1 DEF ForecastInv
    <3> PICK todo, got, alone : Running(u, j, todo, got, alone)
      BY <3>2
    <3>3. work'[u] = [work[u] EXCEPT !.got = <<>>, !.alone = FALSE]
      BY <2>2, <2>7
    <3>4. work'[u] = [busy |-> TRUE, job |-> j, todo |-> todo, got |-> <<>>, alone |-> FALSE]
      <4> DEFINE w == work[u]
      <4>1. w = [busy |-> TRUE, job |-> j, todo |-> todo, got |-> got, alone |-> alone]
        BY DEF Running
      <4>2. work'[u] = [w EXCEPT !.got = <<>>, !.alone = FALSE]
        BY <3>3
      <4> HIDE DEF w
      <4> QED
        BY <4>1, <4>2, RunOverlapped
    <3> QED
      BY <3>4 DEF Running
  <2>11. \E todo, got, alone : Running(t, job, todo, got, alone)'
    <3> DEFINE p == Program(job, salt)
    <3>1. work'[t] = [busy |-> TRUE, job |-> job, todo |-> p, got |-> <<>>, alone |-> flag]
      BY <2>8
    <3> HIDE DEF p
    <3> QED
      BY <3>1 DEF Running
  <2>12. \A u \in Threads : \/ work'[u] = Idle
                            \/ \E j \in Jobs : \E td, gt, al : Running(u, j, td, gt, al)'
    <3> TAKE u \in Threads
    <3>1. CASE u = t
      BY <2>11, <3>1
    <3>2. CASE u \in others
      BY <2>10, <3>2
    <3>3. CASE u # t /\ u \notin others
      <4>1. work'[u] = work[u]
        BY <2>9, <3>3
      <4> QED
        BY <4>1 DEF ForecastInv, Running
    <3> QED
      BY <3>1, <3>2, <3>3
  <2>13. \A u \in Threads \ {t} : work'[u].busy => work'[u].alone = FALSE
    <3> TAKE u \in Threads \ {t}
    <3>1. CASE u \in others
      <4>1. PICK j \in Jobs : \E todo, got : Running(u, j, todo, got, FALSE)'
        BY <2>10, <3>1
      <4> QED
        BY <4>1 DEF Running
    <3>2. CASE u \notin others
      BY <2>5, <2>9, <3>2
    <3> QED
      BY <3>1, <3>2
  <2>14. \A u, v \in Threads : work'[u].busy /\ work'[u].alone /\ v # u => ~work'[v].busy
    <3> SUFFICES ASSUME NEW u \in Threads, NEW v \in Threads, work'[u].busy, work'[u].alone, v # u
                 PROVE  ~work'[v].busy
      OBVIOUS
    <3>1. u = t
      BY <2>13
    <3>2. flag
      BY <2>8, <3>1
    <3>3. v \in Threads \ {t} /\ v \notin others
      BY <2>6, <3>1, <3>2
    <3> QED
      BY <2>5, <2>9, <3>3
  <2>15. ASSUME NEW u \in Threads, Lone(u)'
         PROVE  \E k \in Nat :
                  At(Program(work'[u].job, salt'), k, work'[u].todo, work'[u].got, rng')
    <3>1. u = t /\ Repeatable(job)
      BY <2>8, <2>13, <2>15 DEF Lone
    <3>2. Program(job, salt) \in Fixed
      BY <3>1, ProgramIsFixed DEF ForecastInv
    <3>3. At(Program(job, salt), 0, Program(job, salt), <<>>, rng')
      BY <3>2, StartOfProgram
    <3>4. /\ work'[u].job = job /\ work'[u].todo = Program(job, salt) /\ work'[u].got = <<>>
          /\ Program(work'[u].job, salt') = Program(job, salt)
      BY <2>1, <2>8, <3>1
    <3> QED
      BY <3>3, <3>4
  <2>16. \A j \in Jobs : \A g \in said'[j] : Repeatable(j) /\ g = Result(j, salt')
    BY <2>1 DEF ForecastInv
  <2>17. work' = [u \in Threads |-> work'[u]]
    BY <2>2
  <2>18. salt' \in Salts /\ DOMAIN said' = Jobs
    BY <2>1 DEF ForecastInv
  <2> QED
    BY <2>12, <2>14, <2>15, <2>16, <2>17, <2>18 DEF ForecastInv, Lone
<1>2. ASSUME NEW t \in Threads, CallGenerator(t) PROVE ForecastInv'
  <2> DEFINE op == Head(work[t].todo)
  <2>1. work[t].busy /\ work[t].todo # <<>> /\ salt' = salt /\ said' = said
    BY <1>2 DEF CallGenerator
  <2>2. PICK x \in op.of :
          /\ rng' = IF op.act = "seed" THEN [seed |-> x, drawn |-> <<>>]
                    ELSE [rng EXCEPT !.drawn = Append(@, x)]
          /\ work' = [work EXCEPT ![t].todo = Tail(@),
                                  ![t].got = IF op.act = "draw" /\ work[t].alone
                                             THEN Append(@, rng') ELSE @]
    BY <1>2 DEF CallGenerator
  <2>4. work[t] # Idle
    BY <2>1 DEF Idle
  <2>5. PICK job \in Jobs : \E todo, got, alone : Running(t, job, todo, got, alone)
    BY <2>4 DEF ForecastInv
  <2> PICK todo, got, alone : Running(t, job, todo, got, alone)
    BY <2>5
  <2>6. work = [u \in Threads |-> work[u]]
    BY DEF ForecastInv
  <2> DEFINE drawn == IF op.act = "draw" /\ work[t].alone THEN Append(got, rng') ELSE got
  <2>7. work'[t] = [busy |-> TRUE, job |-> job, todo |-> Tail(todo), got |-> drawn, alone |-> alone]
    <3> DEFINE w == work[t]
               y == IF op.act = "draw" /\ w.alone THEN Append(w.got, rng') ELSE w.got
    <3>1. work'[t] = [w EXCEPT !.todo = Tail(w.todo), !.got = y]
      BY <2>2, <2>6
    <3>2. w = [busy |-> TRUE, job |-> job, todo |-> todo, got |-> got, alone |-> alone]
      BY DEF Running
    <3>3. w.todo = todo /\ y = drawn
      BY <3>2
    <3> HIDE DEF w, y, drawn
    <3> QED
      BY <3>1, <3>2, <3>3, RunAdvanced
  <2>8. \A u \in Threads : u # t => work'[u] = work[u]
    BY <2>2, <2>6
  <2>9. work' = [u \in Threads |-> work'[u]]
    BY <2>2, <2>6
  <2>10. work[t].todo = todo /\ work[t].got = got /\ work[t].alone = alone /\ work[t].job = job
    BY <2>5 DEF Running
  <2> HIDE DEF drawn
  <2>11. \E td, gt, al : Running(t, job, td, gt, al)'
    BY <2>7 DEF Running
  <2>12. \A u \in Threads : \/ work'[u] = Idle
                            \/ \E j \in Jobs : \E td, gt, al : Running(u, j, td, gt, al)'
    <3> TAKE u \in Threads
    <3>1. CASE u = t
      BY <2>5, <2>11, <3>1
    <3>2. CASE u # t
      <4>1. work'[u] = work[u]
        BY <2>8, <3>2
      <4> QED
        BY <4>1 DEF ForecastInv, Running
    <3> QED
      BY <3>1, <3>2
  <2>13. \A u \in Threads : (work'[u].busy <=> work[u].busy) /\ work'[u].alone = work[u].alone
    <3> TAKE u \in Threads
    <3>1. CASE u = t
      <4>1. work'[t].busy /\ work'[t].alone = alone
        BY <2>7
      <4> QED
        BY <2>1, <2>10, <3>1, <4>1
    <3> QED
      BY <2>8, <3>1
  <2>14. \A u, v \in Threads : work'[u].busy /\ work'[u].alone /\ v # u => ~work'[v].busy
    BY <2>13 DEF ForecastInv
  <2>15. ASSUME NEW u \in Threads, Lone(u)'
         PROVE  \E k \in Nat :
                  At(Program(work'[u].job, salt'), k, work'[u].todo, work'[u].got, rng')
    <3>1. work[u].busy /\ work[u].alone
      BY <2>13, <2>15 DEF Lone
    <3>2. u = t
      BY <2>1, <3>1 DEF ForecastInv
    <3>3. Repeatable(job) /\ alone
      BY <2>7, <2>15, <3>2 DEF Lone
    <3>4. Lone(t)
      BY <2>1, <2>10, <3>3 DEF Lone
    <3>5. PICK k \in Nat : At(Program(job, salt), k, todo, got, rng)
      BY <2>10, <3>4 DEF ForecastInv
    <3>6. Program(job, salt) \in Fixed
      BY <3>3, ProgramIsFixed DEF ForecastInv
    <3>7. drawn = IF op.act = "draw" THEN Append(got, rng') ELSE got
      BY <2>10, <3>3 DEF drawn
    <3>8. At(Program(job, salt), k + 1, Tail(todo),
             IF Head(todo).act = "draw" THEN Append(got, rng') ELSE got, rng')
      <4>1. todo # <<>> /\ x \in Head(todo).of
        BY <2>1, <2>10
      <4>2. rng' = IF Head(todo).act = "seed" THEN [seed |-> x, drawn |-> <<>>]
                   ELSE [rng EXCEPT !.drawn = Append(@, x)]
        BY <2>2, <2>10
      <4> DEFINE r == rng'
      <4>3. r = IF Head(todo).act = "seed" THEN [seed |-> x, drawn |-> <<>>]
                ELSE [rng EXCEPT !.drawn = Append(@, x)]
        BY <4>2
      <4> HIDE DEF r, op
      <4>4. At(Program(job, salt), k + 1, Tail(todo),
               IF Head(todo).act = "draw" THEN Append(got, r) ELSE got, r)
        BY <3>5, <3>6, <4>1, <4>3, OneOperation
      <4> QED
        BY <4>4 DEF r
    <3>9. At(Program(job, salt), k + 1, Tail(todo), drawn, rng')
      BY <2>10, <3>7, <3>8
    <3>10. /\ work'[u].job = job /\ work'[u].todo = Tail(todo) /\ work'[u].got = drawn
           /\ Program(work'[u].job, salt') = Program(job, salt)
      BY <2>1, <2>7, <3>2
    <3>11. k + 1 \in Nat
      OBVIOUS
    <3> QED
      BY <3>9, <3>10, <3>11
  <2>16. \A j \in Jobs : \A g \in said'[j] : Repeatable(j) /\ g = Result(j, salt')
    BY <2>1 DEF ForecastInv
  <2>17. salt' \in Salts /\ DOMAIN said' = Jobs
    BY <2>1 DEF ForecastInv
  <2> QED
    BY <2>9, <2>12, <2>14, <2>15, <2>16, <2>17 DEF ForecastInv, Lone
<1>3. ASSUME NEW t \in Threads, Answer(t) PROVE ForecastInv'
  <2>1. /\ work[t].busy /\ work[t].todo = <<>> /\ salt' = salt /\ rng' = rng
        /\ work' = [work EXCEPT ![t] = Idle]
        /\ said' = IF work[t].alone /\ Repeatable(work[t].job)
                   THEN [said EXCEPT ![work[t].job] = @ \cup {work[t].got}] ELSE said
    BY <1>3 DEF Answer
  <2>2. work = [u \in Threads |-> work[u]] /\ DOMAIN said = Jobs
    BY DEF ForecastInv
  <2>3. work' = [u \in Threads |-> work'[u]] /\ work'[t] = Idle
    BY <2>1, <2>2
  <2>4. \A u \in Threads : u # t => work'[u] = work[u]
    BY <2>1, <2>2
  <2>6. ~work'[t].busy
    BY <2>3 DEF Idle
  <2>7. \A u \in Threads : \/ work'[u] = Idle
                           \/ \E j \in Jobs : \E td, gt, al : Running(u, j, td, gt, al)'
    <3> TAKE u \in Threads
    <3>1. CASE u # t
      <4>1. work'[u] = work[u]
        BY <2>4, <3>1
      <4> QED
        BY <4>1 DEF ForecastInv, Running
    <3> QED
      BY <2>3, <3>1
  <2>8. \A u, v \in Threads : work'[u].busy /\ work'[u].alone /\ v # u => ~work'[v].busy
    BY <2>4, <2>6 DEF ForecastInv
  <2>9. ASSUME NEW u \in Threads, Lone(u)'
        PROVE  \E k \in Nat :
                  At(Program(work'[u].job, salt'), k, work'[u].todo, work'[u].got, rng')
    <3>1. u # t
      BY <2>6, <2>9 DEF Lone
    <3>2. work'[u] = work[u]
      BY <2>4, <3>1
    <3>3. Lone(u)
      BY <2>9, <3>2 DEF Lone
    <3>4. PICK k \in Nat : At(Program(work[u].job, salt), k, work[u].todo, work[u].got, rng)
      BY <3>3 DEF ForecastInv
    <3>5. Program(work'[u].job, salt') = Program(work[u].job, salt)
      BY <2>1, <3>2
    <3> QED
      BY <2>1, <3>2, <3>4, <3>5
  <2>10. \A j \in Jobs : \A g \in said'[j] : Repeatable(j) /\ g = Result(j, salt')
    <3>1. salt' = salt
      BY <2>1
    <3>2. CASE Lone(t)
      <4>1. PICK k \in Nat : At(Program(work[t].job, salt), k, work[t].todo, work[t].got, rng)
        BY <3>2 DEF ForecastInv
      <4>2. work[t] # Idle
        BY <2>1 DEF Idle
      <4>3. work[t].job \in Jobs
        BY <4>2 DEF ForecastInv, Running
      <4>4. Program(work[t].job, salt) \in Fixed
        BY <3>2, <4>3, ProgramIsFixed DEF ForecastInv, Lone
      <4>5. work[t].got = Result(work[t].job, salt)
        BY <2>1, <4>1, <4>4, EndOfProgram DEF Result
      <4>6. said' = [said EXCEPT ![work[t].job] = @ \cup {work[t].got}]
        BY <2>1, <3>2 DEF Lone
      <4>7. \A j \in Jobs : \A g \in said'[j] : \/ g \in said[j]
                                                 \/ (j = work[t].job /\ g = work[t].got)
        BY <2>2, <4>6
      <4>8. Repeatable(work[t].job)
        BY <3>2 DEF Lone
      <4> QED
        BY <3>1, <4>5, <4>7, <4>8 DEF ForecastInv
    <3>3. CASE ~Lone(t)
      <4>1. said' = said
        BY <2>1, <3>3 DEF Lone
      <4> QED
        BY <3>1, <4>1 DEF ForecastInv
    <3> QED
      BY <3>2, <3>3
  <2>11. salt' \in Salts /\ DOMAIN said' = Jobs
    BY <2>1, <2>2 DEF ForecastInv
  <2> QED
    BY <2>3, <2>7, <2>8, <2>9, <2>10, <2>11 DEF ForecastInv, Lone
<1>4. CASE RestartBackend
  <2>1. /\ salt' \in Salts /\ work' = [t \in Threads |-> Idle]
        /\ said' = [job \in Jobs |-> IF job.kind = "synthetic" THEN {} ELSE said[job]]
    BY <1>4 DEF RestartBackend
  <2>2. \A t \in Threads : work'[t] = Idle /\ ~work'[t].busy
    BY <2>1 DEF Idle
  <2>3. \A j \in Jobs : \A g \in said'[j] : Repeatable(j) /\ g = Result(j, salt')
    <3> SUFFICES ASSUME NEW j \in Jobs, NEW g \in said'[j]
                 PROVE  Repeatable(j) /\ g = Result(j, salt')
      OBVIOUS
    <3>1. j.kind # "synthetic" /\ g \in said[j]
      BY <2>1
    <3>2. Program(j, salt') = Program(j, salt)
      BY <3>1, ProgramsStay
    <3> QED
      BY <3>1, <3>2 DEF ForecastInv, Result
  <2>4. work' = [t \in Threads |-> work'[t]] /\ DOMAIN said' = Jobs
    BY <2>1
  <2> QED
    BY <2>1, <2>2, <2>3, <2>4 DEF ForecastInv, Lone
<1>5. CASE UNCHANGED forecastVars
  <2>1. salt' = salt /\ rng' = rng /\ work' = work /\ said' = said
    BY <1>5 DEF forecastVars
  <2> QED
    BY <2>1 DEF ForecastInv, Lone, Running
<1> QED
  BY <1>1, <1>2, <1>3, <1>4, <1>5 DEF ForecastNext

(* So each job has said one thing at most.                                   *)
LEMMA SaidOnce == ForecastInv => LoneForecastsRepeat
<1> SUFFICES ASSUME ForecastInv, NEW job \in Jobs PROVE Cardinality(said[job]) <= 1
  BY DEF LoneForecastsRepeat
<1>1. \A g, h \in said[job] : g = h
  BY DEF ForecastInv
<1>2. CASE said[job] = {}
  BY <1>2, FS_EmptySet
<1>3. CASE said[job] # {}
  <2>1. PICK g \in said[job] : TRUE
    BY <1>3
  <2>2. said[job] = {g}
    BY <1>1, <2>1
  <2> QED
    BY <2>2, FS_Singleton
<1> QED
  BY <1>2, <1>3

(* In every behaviour.                                                       *)
LEMMA RepeatInForecasts == ForecastSpec => []LoneForecastsRepeat
  BY InitForecastInv, StepForecastInv, SaidOnce, PTL DEF ForecastSpec

-----------------------------------------------------------------------------
(* The composition (Research): a behaviour of the whole is a behaviour of    *)
(* each part, whichever part it follows.                                     *)

(* Steps of other parts leave the variables of a part alone.                 *)
THEOREM PartsAreKept ==
  Spec => /\ ForecastSpec /\ SignalSpec /\ BacktestSpec
          /\ TickSpec /\ ProfileSpec /\ SlicingSpec
<1>1. Init => /\ ForecastInit /\ SignalInit /\ BacktestInit
              /\ TickInit /\ ProfileInit /\ SlicingInit
  BY DEF Init
<1>2. [Next]_vars => [ForecastNext]_forecastVars
  BY Zenon DEF Next, vars
<1>3. [Next]_vars => [SignalNext]_signalVars
  BY Zenon DEF Next, vars
<1>4. [Next]_vars => [BacktestNext]_backtestVars
  BY Zenon DEF Next, vars
<1>5. [Next]_vars => [TickNext]_tickVars
  BY Zenon DEF Next, vars
<1>6. [Next]_vars => [ProfileNext]_profileVars
  BY Zenon DEF Next, vars
<1>7. [Next]_vars => [SlicingNext]_slicingVars
  BY Zenon DEF Next, vars
<1> QED
  BY <1>1, <1>2, <1>3, <1>4, <1>5, <1>6, <1>7, PTL
     DEF Spec, ForecastSpec, SignalSpec, BacktestSpec, TickSpec, ProfileSpec, SlicingSpec

(* A forecast, a review, a screening and synthetic bars that overlap no      *)
(* other job always come out the same, for any number of threads and jobs on *)
(* any data (prediction_suite.py, analyze_and_predict, simulate_jump_        *)
(* diffusion_paths, audit_predictions; intraday_engine.py,                   *)
(* _generate_synthetic).                                                     *)
THEOREM ForecastsRepeat == Spec => []LoneForecastsRepeat
BY PartsAreKept, RepeatInForecasts, PTL

(* What a position earns, a trade ends at, a fold is tested on and a         *)
(* prediction is compared with had no part in it, for any universe, history, *)
(* length of a day, number of folds and gap (backtester.py, intraday_        *)
(* backtester.py, stat_arb.py, prediction_suite.py).  It is not said that    *)
(* nothing came from later: folds train on the rows after the test too.      *)
THEOREM OutcomesUnseen == Spec => []JudgedByUnseen
BY PartsAreKept, BackInBacktests, PTL

(* The numbers of a trade are in order, with the stop out of the entry zone  *)
(* and the target beyond it once the ATR is a cent, for any readings and     *)
(* however the price falls between two cents; and only a trade has more      *)
(* conviction than the advice to wait (prediction_suite.py,                  *)
(* analyze_and_predict).                                                     *)
THEOREM PlansAlwaysSound == Spec => []PlansAreSound
BY PartsAreKept, SoundInSignals, PTL

(* The gate of the engine and the one of the scanner let the same setups     *)
(* pass, but for a breakdown in a stagflation, given the same numbers, for   *)
(* any readings (intraday_engine.py, intraday_signals.py).                   *)
THEOREM GatesAlways == Spec => []GatesAgree
BY GatesAlwaysAgree, PTL

(* Once a call was completed, every tick is in one bar of either width, bars *)
(* do not overlap, and a bar holds no tick further than half a minute        *)
(* outside of it, whatever ticks came in and however often a call was cut    *)
(* short before (tick_store.py, _rebuild_1m_bars, get_bars).                 *)
THEOREM BarsAlwaysMatch == Spec => []BarsMatchTicks
BY PartsAreKept, HeldInTicks, PTL

(* The value area has the point of control in it, holds seventy per cent of  *)
(* the volume and would not without the bin added last, which was the better *)
(* of the two there were, for any number of bins and any volumes             *)
(* (prediction_suite.py, compute_volume_profile).                            *)
THEOREM AreaAlwaysTight == Spec => []ValueAreaIsTight
BY PartsAreKept, TightInProfile, PTL

(* Every algorithm sells each share exactly once, TWAP in slices that differ *)
(* by no more than one share, and VWAP with a share left for the last slice  *)
(* of an order that has one for each, for any number of slices, any order    *)
(* and any volumes (algos.py).                                               *)
THEOREM SharesAlwaysSliced == Spec => []EveryShareIsSliced
BY PartsAreKept, SlicedInSlicing, PTL
=============================================================================
