----------------------------- MODULE NodeProofs -----------------------------
(***************************************************************************)
(* What the functions of bpt.c do to one page, for pages of every order,   *)
(* keys of every width and files of every size.  SlotsInOrder is what the  *)
(* tree's invariant WellFormed asks of one page: the theorems say that     *)
(* each operation keeps it, between which separators, and which keys or    *)
(* children the page has afterwards.  The loops of the source are          *)
(* recursive functions in Node: each is shown to exist, by induction over  *)
(* the slots, and its value follows from its equation.                     *)
(***************************************************************************)
EXTENDS Node, Intervals, TLAPS

(* f is the first of the slots from i on that is not in H, or limit. *)
IsFirstNot(f, H, i, limit) ==
    /\ f \in i .. limit
    /\ \A j \in i .. f - 1 : j \in H
    /\ f < limit => f \notin H

(* A function that satisfies the equation of FirstNot's scan finds the     *)
(* first slot that is not in H: by induction down from the limit.          *)
LEMMA ScanIsFirst ==
    ASSUME NEW limit \in Nat, NEW H,
           NEW scan, scan = [i \in 0 .. limit |-> IF i < limit /\ i \in H THEN scan[i + 1] ELSE i]
    PROVE  IsFirstNot(scan[0], H, 0, limit)
<1> DEFINE Ok(i) == IsFirstNot(scan[i], H, i, limit)
           S == {d \in 0 .. limit : Ok(limit - d)}
<1>1. \A i \in 0 .. limit : scan[i] = IF i < limit /\ i \in H THEN scan[i + 1] ELSE i
  OBVIOUS
<1>2. Ok(limit)
  BY <1>1 DEF IsFirstNot
<1>3. ASSUME NEW i \in 0 .. limit - 1, Ok(i + 1) PROVE Ok(i)
  <2>1. scan[i] = IF i \in H THEN scan[i + 1] ELSE i
    BY <1>1
  <2>2. CASE i \in H
    <3>1. IsFirstNot(scan[i + 1], H, i + 1, limit) /\ scan[i] = scan[i + 1]
      BY <1>3, <2>1, <2>2
    <3> HIDE DEF Ok
    <3>2. scan[i] \in i .. limit /\ (scan[i] < limit => scan[i] \notin H)
      BY <3>1 DEF IsFirstNot
    <3>3. \A j \in i .. scan[i] - 1 : j = i \/ j \in i + 1 .. scan[i + 1] - 1
      BY <3>1, <3>2
    <3>4. \A j \in i .. scan[i] - 1 : j \in H
      BY <2>2, <3>1, <3>3 DEF IsFirstNot
    <3> QED BY <3>2, <3>4 DEF IsFirstNot, Ok
  <2>3. CASE i \notin H
    BY <2>1, <2>3 DEF IsFirstNot
  <2> QED BY <2>2, <2>3
<1> HIDE DEF Ok
<1>4. 0 \in S
  BY <1>2
<1>5. \A d \in 0 + 1 .. limit : d - 1 \in S => d \in S
  <2> SUFFICES ASSUME NEW d \in 1 .. limit, d - 1 \in S PROVE Ok(limit - d)
    OBVIOUS
  <2>1. limit - d \in 0 .. limit - 1 /\ limit - (d - 1) = (limit - d) + 1
    OBVIOUS
  <2> QED BY <1>3, <2>1
<1>6. limit \in S
  <2> HIDE DEF S
  <2>1. \A d \in 0 .. limit : d \in S
    BY <1>4, <1>5, IntervalInduction
  <2> QED BY <2>1
<1> QED BY <1>6 DEF Ok

(* There is such a function, so FirstNot's CHOOSE has one to choose.       *)
LEMMA ScanExists ==
    ASSUME NEW limit \in Nat, NEW H
    PROVE  \E scan : scan = [i \in 0 .. limit |-> IF i < limit /\ i \in H THEN scan[i + 1] ELSE i]
<1> DEFINE Stops(i) == {j \in i .. limit : j = limit \/ j \notin H}
           First(i) == CHOOSE j \in Stops(i) : \A k \in Stops(i) : j <= k
           scan == [i \in 0 .. limit |-> First(i)]
<1>1. \A i \in 0 .. limit : First(i) \in Stops(i) /\ \A k \in Stops(i) : First(i) <= k
  <2> SUFFICES ASSUME NEW i \in 0 .. limit
               PROVE  \E j \in Stops(i) : \A k \in Stops(i) : j <= k
    OBVIOUS
  <2>1. Stops(i) \subseteq Nat /\ limit \in Stops(i)
    OBVIOUS
  <2> HIDE DEF Stops
  <2> QED BY <2>1, LeastNumber
<1>2. \A i \in 0 .. limit : ~(i < limit /\ i \in H) => First(i) = i
  <2> SUFFICES ASSUME NEW i \in 0 .. limit, ~(i < limit /\ i \in H) PROVE First(i) = i
    OBVIOUS
  <2>1. i \in Stops(i) /\ \A k \in Stops(i) : k >= i /\ k \in Nat
    OBVIOUS
  <2> HIDE DEF Stops, First
  <2> QED BY <1>1, <2>1
<1>3. \A i \in 0 .. limit : i < limit /\ i \in H => First(i) = First(i + 1)
  <2> SUFFICES ASSUME NEW i \in 0 .. limit, i < limit, i \in H PROVE First(i) = First(i + 1)
    OBVIOUS
  <2>1. Stops(i) = Stops(i + 1)
    OBVIOUS
  <2> HIDE DEF Stops
  <2> QED BY <2>1
<1> HIDE DEF First
<1>4. \A i \in 0 .. limit : scan[i] = IF i < limit /\ i \in H THEN scan[i + 1] ELSE i
  BY <1>2, <1>3
<1>5. scan = [i \in 0 .. limit |-> scan[i]]
  OBVIOUS
<1> HIDE DEF scan
<1>6. scan = [i \in 0 .. limit |-> IF i < limit /\ i \in H THEN scan[i + 1] ELSE i]
  BY <1>4, <1>5
<1> QED BY <1>6

(* The loop `while (i < limit && key[i] < k) i++` of the insertions        *)
(* (bpt.c:434, bpt.c:457).                                                 *)
LEMMA FirstNotSmaller ==
    ASSUME NEW c, NEW k, NEW limit \in Nat
    PROVE  IsFirstNot(FirstNot(LAMBDA i : c.key[i] < k, limit),
                      {i \in Nat : c.key[i] < k}, 0, limit)
<1> DEFINE H == {i \in Nat : c.key[i] < k}
           Eq(g) == g = [i \in 0 .. limit |-> IF i < limit /\ c.key[i] < k THEN g[i + 1] ELSE i]
           scan == CHOOSE g : Eq(g)
<1>1. FirstNot(LAMBDA i : c.key[i] < k, limit) = scan[0]
  BY DEF FirstNot
<1>2. \A g : Eq(g) <=> g = [i \in 0 .. limit |-> IF i < limit /\ i \in H THEN g[i + 1] ELSE i]
  OBVIOUS
<1> HIDE DEF Eq, H
<1>3. Eq(scan)
  <2>1. PICK g : g = [i \in 0 .. limit |-> IF i < limit /\ i \in H THEN g[i + 1] ELSE i]
    BY ScanExists
  <2>2. Eq(g)
    BY <1>2, <2>1
  <2> QED BY <2>2
<1>4. IsFirstNot(scan[0], H, 0, limit)
  <2>1. scan = [i \in 0 .. limit |-> IF i < limit /\ i \in H THEN scan[i + 1] ELSE i]
    BY <1>2, <1>3
  <2> HIDE DEF scan
  <2> QED BY <2>1, ScanIsFirst
<1> QED BY <1>1, <1>4 DEF H

(* The loop `while (key[i] != key) i++` of remove_entry_from_node          *)
(* (bpt.c:756).                                                            *)
LEMMA FirstNotOther ==
    ASSUME NEW c, NEW k, NEW limit \in Nat
    PROVE  IsFirstNot(FirstNot(LAMBDA i : c.key[i] # k, limit),
                      {i \in Nat : c.key[i] # k}, 0, limit)
<1> DEFINE H == {i \in Nat : c.key[i] # k}
           Eq(g) == g = [i \in 0 .. limit |-> IF i < limit /\ c.key[i] # k THEN g[i + 1] ELSE i]
           scan == CHOOSE g : Eq(g)
<1>1. FirstNot(LAMBDA i : c.key[i] # k, limit) = scan[0]
  BY DEF FirstNot
<1>2. \A g : Eq(g) <=> g = [i \in 0 .. limit |-> IF i < limit /\ i \in H THEN g[i + 1] ELSE i]
  OBVIOUS
<1> HIDE DEF Eq, H
<1>3. Eq(scan)
  <2>1. PICK g : g = [i \in 0 .. limit |-> IF i < limit /\ i \in H THEN g[i + 1] ELSE i]
    BY ScanExists
  <2>2. Eq(g)
    BY <1>2, <2>1
  <2> QED BY <2>2
<1>4. IsFirstNot(scan[0], H, 0, limit)
  <2>1. scan = [i \in 0 .. limit |-> IF i < limit /\ i \in H THEN scan[i + 1] ELSE i]
    BY <1>2, <1>3
  <2> HIDE DEF scan
  <2> QED BY <2>1, ScanIsFirst
<1> QED BY <1>1, <1>4 DEF H
-----------------------------------------------------------------------------
(* Keys that can stand in a page, and the arrays of a page.                *)
KeyValue == 0 .. KeyMod - 1
KeyArray == [KeySlot -> KeyValue]
OffArray == [OffSlot -> PageNo]

(* The first n slots of a are in order and in low .. high - 1. *)
InOrder(a, n, low, high) ==
    /\ \A i \in 0 .. n - 1 : low <= a[i] /\ a[i] < high
    /\ \A i \in 1 .. n - 1 : a[i - 1] < a[i]

ZeroFrom(a, n) == \A i \in DOMAIN a : i >= n => a[i] = 0

Values(a, n) == {a[i] : i \in 0 .. n - 1}

(* The m slots of a from i on: their values, and that lo .. hi - 1 has them. *)
Slice(a, i, m) == {a[j] : j \in i .. i + m - 1}
Within(a, i, m, lo, hi) == \A j \in i .. i + m - 1 : lo <= a[j] /\ a[j] < hi

(* Slot i is the place of x among the first n slots of a. *)
PlaceOf(a, n, i, x) ==
    /\ i \in 0 .. n
    /\ i > 0 => a[i - 1] < x
    /\ i < n => x < a[i]

(* Slots and keys are numbers, and the slots of a full page exist.         *)
LEMMA SlotFacts ==
    /\ KeySlot \subseteq Nat /\ OffSlot \subseteq Nat
    /\ 0 .. LeafOrder - 1 \subseteq KeySlot
    /\ 0 .. InternalOrder - 1 \subseteq KeySlot
    /\ \A n \in KeySlot : 0 .. n \subseteq KeySlot
    /\ \A n \in KeySlot : n > 0 => n - 1 \in KeySlot
    /\ KeyMod \in Nat /\ KeyValue \subseteq Nat /\ 0 \in KeyValue
BY NodeAssumption DEF KeySlot, OffSlot, KeyValue

(* Keys can be compared.                                                   *)
LEMMA KeysAreNumbers == \A v \in KeyValue : v \in Int
BY NodeAssumption DEF KeyValue

(* cut divides a full page in two that are not empty (bpt.c:177).          *)
LEMMA CutFacts ==
    /\ cut(LeafOrder - 1) \in 1 .. LeafOrder - 1
    /\ cut(InternalOrder) \in 2 .. InternalOrder - 1
BY NodeAssumption DEF cut

(* Neighbors in order are enough. *)
LEMMA Increasing ==
    ASSUME NEW n \in Nat, NEW a, \A i \in 0 .. n - 1 : a[i] \in Int,
           \A i \in 1 .. n - 1 : a[i - 1] < a[i]
    PROVE  \A i, j \in 0 .. n - 1 : i < j => a[i] < a[j]
<1> SUFFICES ASSUME NEW i \in 0 .. n - 1, NEW m \in 0 .. n - 1, i < m PROVE a[i] < a[m]
  OBVIOUS
<1> DEFINE S == {j \in i + 1 .. n - 1 : a[i] < a[j]}
<1>1. i + 1 \in S
  OBVIOUS
<1>2. \A j \in (i + 1) + 1 .. n - 1 : j - 1 \in S => j \in S
  OBVIOUS
<1>3. \A j \in i + 1 .. n - 1 : j \in S
  <2> HIDE DEF S
  <2>1. i + 1 \in Nat /\ n - 1 \in Nat
    OBVIOUS
  <2> QED BY <1>1, <1>2, <2>1, IntervalInduction
<1> QED BY <1>3

(* a is an array over the slots D with values in V. *)
Array(a, D, V) == D \in SUBSET Nat /\ a \in [D -> V]

(* b is the first n slots of a with x before slot i, or without slot i, or *)
(* its m slots from i on.                                                  *)
IsInserted(b, a, n, i, x) ==
    \A j \in 0 .. n : b[j] = IF j < i THEN a[j] ELSE IF j = i THEN x ELSE a[j - 1]
IsRemoved(b, a, n, i) ==
    \A j \in 0 .. n - 2 : b[j] = IF j < i THEN a[j] ELSE a[j + 1]
IsPart(b, a, i, m) == \A j \in 0 .. m - 1 : b[j] = a[i + j]

(* With puts x before slot i and moves the rest, for keys and offsets alike. *)
LEMMA WithSlots ==
    ASSUME NEW D, NEW V, NEW a, Array(a, D, V), NEW n \in Nat, 0 .. n \subseteq D,
           NEW i \in 0 .. n, NEW x \in V
    PROVE  LET b == With(a, n, i, x)
           IN  /\ Array(b, D, V) /\ IsInserted(b, a, n, i, x)
               /\ ZeroFrom(a, n) => ZeroFrom(b, n + 1)
<1> USE DEF Array, IsInserted
<1> DEFINE b == With(a, n, i, x)
<1>1. b = [j \in D |-> IF j = i THEN x ELSE IF i < j /\ j <= n THEN a[j - 1] ELSE a[j]]
  BY DEF With
<1>2. \A j \in D : b[j] = IF j = i THEN x ELSE IF i < j /\ j <= n THEN a[j - 1] ELSE a[j]
  BY <1>1
<1> HIDE DEF b
<1>3. b \in [D -> V]
  <2>1. \A j \in D : i < j /\ j <= n => j - 1 \in D
    OBVIOUS
  <2>2. \A j \in D : b[j] \in V
    BY <1>2, <2>1
  <2> QED BY <1>1, <2>2
<1>4. \A j \in 0 .. n : b[j] = IF j < i THEN a[j] ELSE IF j = i THEN x ELSE a[j - 1]
  BY <1>2
<1>5. ASSUME ZeroFrom(a, n) PROVE ZeroFrom(b, n + 1)
  <2>1. \A j \in D : j >= n => a[j] = 0
    BY <1>5 DEF ZeroFrom
  <2>2. \A j \in D : j >= n + 1 => b[j] = a[j] /\ j >= n
    BY <1>2
  <2> QED BY <1>3, <2>1, <2>2 DEF ZeroFrom
<1> QED BY <1>3, <1>4, <1>5 DEF b

(* Spliced does the same in a larger array. *)
LEMMA SplicedSlots ==
    ASSUME NEW D, NEW V, NEW a, Array(a, D, V), NEW n \in Nat, 0 .. n - 1 \subseteq D,
           NEW i \in 0 .. n, NEW x \in V
    PROVE  LET t == Spliced(a, n + 1, i, x)
           IN  Array(t, 0 .. n, V) /\ IsInserted(t, a, n, i, x)
<1> USE DEF Array, IsInserted
<1> DEFINE t == Spliced(a, n + 1, i, x)
<1>1. t = [j \in 0 .. n |-> IF j < i THEN a[j] ELSE IF j = i THEN x ELSE a[j - 1]]
  BY DEF Spliced
<1> HIDE DEF t
<1>2. \A j \in 0 .. n : t[j] = IF j < i THEN a[j] ELSE IF j = i THEN x ELSE a[j - 1]
  BY <1>1
<1>3. \A j \in 0 .. n : t[j] \in V
  <2>1. \A j \in 0 .. n : j < i => j \in D
    OBVIOUS
  <2>2. \A j \in 0 .. n : j > i => j - 1 \in D
    OBVIOUS
  <2> QED BY <1>2, <2>1, <2>2
<1> QED BY <1>1, <1>2, <1>3 DEF t

(* Without closes the gap and clears the slot it gives up. *)
LEMMA WithoutSlots ==
    ASSUME NEW D, NEW V, NEW a, Array(a, D, V), NEW n \in Nat \ {0},
           0 .. n - 1 \subseteq D, NEW i \in 0 .. n - 1, 0 \in V
    PROVE  LET b == Without(a, n, i)
           IN  /\ Array(b, D, V) /\ IsRemoved(b, a, n, i)
               /\ ZeroFrom(a, n) => ZeroFrom(b, n - 1)
<1> USE DEF Array, IsRemoved
<1> DEFINE b == Without(a, n, i)
<1>1. b = [j \in D |-> IF j = n - 1 THEN 0 ELSE IF i <= j /\ j < n THEN a[j + 1] ELSE a[j]]
  BY DEF Without
<1>2. \A j \in D : b[j] = IF j = n - 1 THEN 0 ELSE IF i <= j /\ j < n THEN a[j + 1] ELSE a[j]
  BY <1>1
<1> HIDE DEF b
<1>3. b \in [D -> V]
  <2>1. \A j \in D : j # n - 1 /\ i <= j /\ j < n => j + 1 \in D
    OBVIOUS
  <2>2. \A j \in D : b[j] \in V
    BY <1>2, <2>1
  <2> QED BY <1>1, <2>2
<1>4. \A j \in 0 .. n - 2 : b[j] = IF j < i THEN a[j] ELSE a[j + 1]
  BY <1>2
<1>5. ASSUME ZeroFrom(a, n) PROVE ZeroFrom(b, n - 1)
  <2>1. \A j \in D : j >= n => a[j] = 0
    BY <1>5 DEF ZeroFrom
  <2>2. \A j \in D : j >= n - 1 => j = n - 1 \/ (j >= n /\ b[j] = a[j])
    BY <1>2
  <2>3. \A j \in D : j = n - 1 => b[j] = 0
    BY <1>2
  <2> QED BY <1>3, <2>1, <2>2, <2>3 DEF ZeroFrom
<1> QED BY <1>3, <1>4, <1>5 DEF b

(* What holds of a sequence of n + 1 values that is a with x in slot i:    *)
(* it is in order if x is in its place, and has the values of a and x.     *)
LEMMA InsertedInOrder ==
    ASSUME NEW n \in Nat, NEW a, NEW i \in 0 .. n, NEW x, NEW b,
           IsInserted(b, a, n, i, x)
    PROVE  /\ Values(b, n + 1) = Values(a, n) \cup {x}
           /\ \A low, high \in Int :
                  /\ InOrder(a, n, low, high) /\ \A j \in 0 .. n - 1 : a[j] \in Int
                  /\ PlaceOf(a, n, i, x) /\ low <= x /\ x < high /\ x \in Int
                  => InOrder(b, n + 1, low, high)
<1> USE DEF IsInserted
<1>1. Values(b, n + 1) = Values(a, n) \cup {x}
  <2>1. Values(b, n + 1) = {b[j] : j \in 0 .. n}
    BY DEF Values
  <2>2. \A j \in 0 .. n : b[j] \in Values(a, n) \cup {x}
    BY DEF Values
  <2>3. \A j \in 0 .. n - 1 : a[j] \in {b[m] : m \in 0 .. n}
    <3> SUFFICES ASSUME NEW j \in 0 .. n - 1 PROVE \E m \in 0 .. n : a[j] = b[m]
      OBVIOUS
    <3>1. CASE j < i
      BY <3>1
    <3>2. CASE ~(j < i)
      <4>1. j + 1 \in 0 .. n /\ b[j + 1] = a[j]
        BY <3>2
      <4> QED BY <4>1
    <3> QED BY <3>1, <3>2
  <2>4. x \in {b[m] : m \in 0 .. n}
    OBVIOUS
  <2> QED BY <2>1, <2>2, <2>3, <2>4 DEF Values
<1>2. ASSUME NEW low \in Int, NEW high \in Int, InOrder(a, n, low, high),
             PlaceOf(a, n, i, x), low <= x, x < high, x \in Int,
             \A j \in 0 .. n - 1 : a[j] \in Int
      PROVE  InOrder(b, n + 1, low, high)
  <2>1. \A j \in 0 .. n : low <= b[j] /\ b[j] < high
    BY <1>2 DEF InOrder
  <2>2. \A j \in 1 .. n : b[j - 1] < b[j]
    BY <1>2 DEF InOrder, PlaceOf
  <2> QED BY <2>1, <2>2 DEF InOrder
<1> QED BY <1>1, <1>2

(* The same for a sequence without the value of slot i. *)
LEMMA RemovedInOrder ==
    ASSUME NEW n \in Nat \ {0}, NEW a, NEW i \in 0 .. n - 1, NEW b,
           IsRemoved(b, a, n, i), NEW low \in Int, NEW high \in Int, InOrder(a, n, low, high),
           \A j \in 0 .. n - 1 : a[j] \in Int
    PROVE  /\ Values(b, n - 1) = Values(a, n) \ {a[i]}
           /\ InOrder(b, n - 1, low, high)
<1> USE DEF IsRemoved
<1>1. \A j, m \in 0 .. n - 1 : j < m => a[j] < a[m]
  BY Increasing DEF InOrder
<1>2. Values(b, n - 1) = Values(a, n) \ {a[i]}
  <2>1. Values(b, n - 1) = {b[j] : j \in 0 .. n - 2}
    BY DEF Values
  <2>2. \A j \in 0 .. n - 2 : b[j] \in Values(a, n) \ {a[i]}
    <3> SUFFICES ASSUME NEW j \in 0 .. n - 2 PROVE b[j] \in Values(a, n) \ {a[i]}
      OBVIOUS
    <3>1. PICK m \in 0 .. n - 1 : b[j] = a[m] /\ m # i
      <4>1. CASE j < i
        BY <4>1
      <4>2. CASE ~(j < i)
        <5>1. j + 1 \in 0 .. n - 1 /\ j + 1 # i /\ b[j] = a[j + 1]
          BY <4>2
        <5> QED BY <5>1
      <4> QED BY <4>1, <4>2
    <3>2. a[m] # a[i]
      <4>1. m < i \/ i < m
        BY <3>1
      <4>2. a[m] < a[i] \/ a[i] < a[m]
        BY <1>1, <4>1
      <4> QED BY <4>2
    <3> QED BY <3>1, <3>2 DEF Values
  <2>3. \A m \in 0 .. n - 1 : m # i => a[m] \in {b[j] : j \in 0 .. n - 2}
    <3> SUFFICES ASSUME NEW m \in 0 .. n - 1, m # i PROVE \E j \in 0 .. n - 2 : a[m] = b[j]
      OBVIOUS
    <3>1. CASE m < i
      BY <3>1
    <3>2. CASE ~(m < i)
      <4>1. m - 1 \in 0 .. n - 2 /\ b[m - 1] = a[m]
        BY <3>2
      <4> QED BY <4>1
    <3> QED BY <3>1, <3>2
  <2> QED BY <2>1, <2>2, <2>3 DEF Values
<1>3. InOrder(b, n - 1, low, high)
  <2>1. \A j \in 0 .. n - 2 : low <= b[j] /\ b[j] < high
    BY DEF InOrder
  <2>2. \A j \in 1 .. n - 2 : b[j - 1] < b[j]
    <3> SUFFICES ASSUME NEW j \in 1 .. n - 2 PROVE b[j - 1] < b[j]
      OBVIOUS
    <3>1. PICK m1 \in 0 .. n - 1, m2 \in 0 .. n - 1 : b[j - 1] = a[m1] /\ b[j] = a[m2] /\ m1 < m2
      <4>1. CASE j < i
        BY <4>1
      <4>2. CASE j = i
        <5>1. b[j - 1] = a[j - 1] /\ b[j] = a[j + 1] /\ j - 1 < j + 1 /\ j + 1 \in 0 .. n - 1
          BY <4>2
        <5> QED BY <5>1
      <4>3. CASE j > i
        <5>1. b[j - 1] = a[j] /\ b[j] = a[j + 1] /\ j < j + 1 /\ j + 1 \in 0 .. n - 1
          BY <4>3
        <5> QED BY <5>1
      <4> QED BY <4>1, <4>2, <4>3
    <3> QED BY <1>1, <3>1
  <2> QED BY <2>1, <2>2 DEF InOrder
<1> QED BY <1>2, <1>3

(* Part copies m slots of the temporary array and clears the others.       *)
LEMMA PartSlots ==
    ASSUME NEW D, NEW V, NEW a, Array(a, D, V), NEW size \in Nat,
           NEW t, Array(t, 0 .. size - 1, V), NEW i \in Nat, NEW m \in Nat, i + m <= size,
           0 .. m - 1 \subseteq D, 0 \in V
    PROVE  LET b == Part(a, t, i, m)
           IN  Array(b, D, V) /\ ZeroFrom(b, m) /\ IsPart(b, t, i, m)
<1> USE DEF Array, IsPart
<1> DEFINE b == Part(a, t, i, m)
<1>1. b = [j \in D |-> IF j < m THEN t[i + j] ELSE 0]
  BY DEF Part
<1> HIDE DEF b
<1>2. \A j \in D : j < m => b[j] = t[i + j] /\ i + j \in 0 .. size - 1
  BY <1>1
<1>3. b \in [D -> V]
  BY <1>1, <1>2
<1>4. ZeroFrom(b, m)
  BY <1>1 DEF ZeroFrom
<1> QED BY <1>2, <1>3, <1>4 DEF b

(* A part of an ordered array is in order, between any bounds that hold    *)
(* for its own values.                                                     *)
LEMMA PartInOrder ==
    ASSUME NEW size \in Nat, NEW t, NEW i \in Nat, NEW m \in Nat, i + m <= size,
           NEW low, NEW high, InOrder(t, size, low, high), NEW b, NEW lo, NEW hi,
           IsPart(b, t, i, m), Within(t, i, m, lo, hi)
    PROVE  InOrder(b, m, lo, hi) /\ Values(b, m) = Slice(t, i, m)
<1> USE DEF IsPart, Within, Slice
<1>1. \A j \in 0 .. m - 1 : lo <= b[j] /\ b[j] < hi
  OBVIOUS
<1>2. ASSUME NEW j \in 1 .. m - 1 PROVE b[j - 1] < b[j]
  <2>1. i + j \in 1 .. size - 1 /\ i + (j - 1) = (i + j) - 1 /\ j - 1 \in 0 .. m - 1
    OBVIOUS
  <2>2. t[(i + j) - 1] < t[i + j]
    BY <2>1 DEF InOrder
  <2>3. b[j - 1] = t[(i + j) - 1] /\ b[j] = t[i + j]
    BY <2>1
  <2> QED BY <2>2, <2>3
<1>3. Values(b, m) = {t[j] : j \in i .. i + m - 1}
  <2>1. \A j \in 0 .. m - 1 : i + j \in i .. i + m - 1
    OBVIOUS
  <2>2. \A j \in i .. i + m - 1 : j - i \in 0 .. m - 1 /\ b[j - i] = t[j]
    <3> SUFFICES ASSUME NEW j \in i .. i + m - 1 PROVE j - i \in 0 .. m - 1 /\ b[j - i] = t[j]
      OBVIOUS
    <3>1. j - i \in 0 .. m - 1 /\ i + (j - i) = j
      OBVIOUS
    <3> QED BY <3>1
  <2> QED BY <2>1, <2>2 DEF Values
<1> QED BY <1>1, <1>2, <1>3 DEF InOrder

-----------------------------------------------------------------------------
(* The keys of a page. *)
KeysOf(c) == Values(c.key, c.n)

(* The arrays of a page, and what SlotsInOrder says of them. *)
LEMMA PageFacts ==
    ASSUME NEW c \in Page
    PROVE  /\ c.n \in KeySlot /\ c.n \in Nat
           /\ Array(c.key, KeySlot, KeyValue) /\ Array(c.off, OffSlot, PageNo)
           /\ \A i \in KeySlot : c.key[i] \in Int
           /\ \A i \in 0 .. c.n : c.key[i] \in KeyValue /\ c.key[i] \in Int
           /\ \A low, high : SlotsInOrder(c, low, high) <=>
                  /\ InOrder(c.key, c.n, low, high)
                  /\ ZeroFrom(c.key, c.n)
                  /\ ZeroFrom(c.off, IF c.leaf THEN 1 ELSE c.n + 1)
<1>1. /\ c.n \in KeySlot /\ c.key \in [KeySlot -> KeyValue] /\ c.off \in [OffSlot -> PageNo]
      /\ c.leaf \in BOOLEAN
  BY DEF Page, KeyValue
<1>2. c.n \in Nat /\ (\A i \in KeySlot : c.key[i] \in Int) /\ \A i \in 0 .. c.n : i \in KeySlot
  <2>1. c.n \in Nat /\ 0 .. c.n \subseteq KeySlot
    BY <1>1, SlotFacts
  <2>2. \A i \in KeySlot : c.key[i] \in KeyValue
    BY <1>1
  <2>3. KeyValue \subseteq Int
    BY SlotFacts
  <2> QED BY <2>1, <2>2, <2>3
<1>3. DOMAIN c.key = KeySlot /\ DOMAIN c.off = OffSlot /\ OffSlot \subseteq Nat
  BY <1>1, SlotFacts
<1>4. \A i \in OffSlot : /\ i > 0 <=> i >= 1
                         /\ i > c.n <=> i >= c.n + 1
  BY <1>2, <1>3
<1>5. \A low, high : SlotsInOrder(c, low, high) <=>
                  /\ InOrder(c.key, c.n, low, high)
                  /\ ZeroFrom(c.key, c.n)
                  /\ ZeroFrom(c.off, IF c.leaf THEN 1 ELSE c.n + 1)
  BY <1>3, <1>4 DEF SlotsInOrder, InOrder, ZeroFrom
<1>6. Array(c.key, KeySlot, KeyValue) /\ Array(c.off, OffSlot, PageNo)
  BY <1>1, SlotFacts DEF Array
<1> QED BY <1>1, <1>2, <1>5, <1>6

(* The slot that insert_into_leaf finds for a new key is its place. *)
LEMMA PlaceFound ==
    ASSUME NEW c \in Page, NEW n \in Nat, n <= c.n, NEW k \in Int, k \notin Values(c.key, n)
    PROVE  PlaceOf(c.key, n, FirstNot(LAMBDA i : c.key[i] < k, n), k)
<1> DEFINE f == FirstNot(LAMBDA i : c.key[i] < k, n)
<1>1. IsFirstNot(f, {i \in Nat : c.key[i] < k}, 0, n)
  BY FirstNotSmaller
<1> HIDE DEF f
<1>2. f \in 0 .. n
  BY <1>1 DEF IsFirstNot
<1>3. f > 0 => c.key[f - 1] < k
  BY <1>1, <1>2 DEF IsFirstNot
<1>4. f < n => k < c.key[f]
  <2> SUFFICES ASSUME f < n PROVE k < c.key[f]
    OBVIOUS
  <2>1. ~(c.key[f] < k)
    BY <1>1, <1>2 DEF IsFirstNot
  <2>2. c.key[f] # k
    BY <1>2 DEF Values
  <2>3. c.key[f] \in Int
    BY <1>2, PageFacts
  <2> QED BY <2>1, <2>2, <2>3
<1> QED BY <1>2, <1>3, <1>4 DEF PlaceOf, f

(* insert_into_leaf (bpt.c:434): the leaf has its keys and the new one, in *)
(* order, with zeros behind them.                                          *)
THEOREM LeafTakesKey ==
    ASSUME NEW c \in Page, c.leaf, c.n < LeafOrder - 1,
           NEW low \in Int, NEW high \in Int, SlotsInOrder(c, low, high),
           NEW k \in KeyValue, k \notin KeysOf(c), low <= k, k < high
    PROVE  LET d == LeafWith(c, k)
           IN  d \in Page /\ SlotsInOrder(d, low, high) /\ KeysOf(d) = KeysOf(c) \cup {k}
<1> DEFINE n == c.n
           ip == FirstNot(LAMBDA i : c.key[i] < k, n)
           b == With(c.key, n, ip, k)
           d == LeafWith(c, k)
<1>1. d = [c EXCEPT !.key = b, !.n = n + 1]
  BY DEF LeafWith
<1>2. k \in Int /\ n \in Nat /\ n + 1 \in KeySlot /\ 0 .. n \subseteq KeySlot /\ KeySlot \in SUBSET Nat
  BY SlotFacts, PageFacts, NodeAssumption
<1>3. PlaceOf(c.key, n, ip, k)
  <2>1. n <= c.n /\ k \notin Values(c.key, n)
    BY <1>2 DEF KeysOf
  <2> HIDE DEF n
  <2> QED BY <1>2, <2>1, PlaceFound
<1>4. /\ Array(c.key, KeySlot, KeyValue) /\ InOrder(c.key, n, low, high)
      /\ ZeroFrom(c.key, n) /\ ZeroFrom(c.off, 1)
      /\ \A j \in 0 .. n - 1 : c.key[j] \in Int
  BY PageFacts
<1> HIDE DEF n, ip
<1>p. ip \in 0 .. n
  BY <1>3 DEF PlaceOf
<1>5. Array(b, KeySlot, KeyValue) /\ ZeroFrom(b, n + 1) /\ IsInserted(b, c.key, n, ip, k)
  BY <1>2, <1>p, <1>4, WithSlots
<1> HIDE DEF b
<1>6. Values(b, n + 1) = Values(c.key, n) \cup {k} /\ InOrder(b, n + 1, low, high)
  BY <1>2, <1>p, <1>3, <1>4, <1>5, InsertedInOrder
<1>7. d \in Page
  BY <1>1, <1>2, <1>5 DEF Page, KeyValue, Array
<1>8. d.key = b /\ d.n = n + 1 /\ d.leaf /\ d.off = c.off
  BY <1>1 DEF Page
<1> HIDE DEF d
<1>9. SlotsInOrder(d, low, high)
  BY <1>4, <1>5, <1>6, <1>7, <1>8, PageFacts
<1> QED BY <1>6, <1>7, <1>8, <1>9 DEF KeysOf, n, d

(* The two halves of an ordered array, and where they are cut. *)
LEMMA HalvesInOrder ==
    ASSUME NEW size \in Nat, NEW t, Array(t, 0 .. size - 1, KeyValue),
           NEW low \in Int, NEW high \in Int, InOrder(t, size, low, high),
           NEW m \in 1 .. size - 1, NEW r \in m .. m + 1, NEW rest \in Nat \ {0}, r + rest = size,
           NEW b, IsPart(b, t, 0, m), NEW d, IsPart(d, t, r, rest)
    PROVE  /\ InOrder(b, m, low, t[m]) /\ InOrder(d, rest, t[m], high)
           /\ low <= t[m] /\ t[m] < high /\ t[m] \in KeyValue
           /\ Values(t, size) = Values(b, m) \cup {t[m]} \cup Values(d, rest)
           /\ r = m => t[m] \in Values(d, rest)
<1>1. \A j \in 0 .. size - 1 : t[j] \in KeyValue /\ t[j] \in Int
  BY KeysAreNumbers DEF Array
<1>2. \A j, l \in 0 .. size - 1 : j < l => t[j] < t[l]
  BY <1>1, Increasing DEF InOrder
<1>3. InOrder(b, m, low, t[m]) /\ Values(b, m) = {t[j] : j \in 0 .. m - 1}
  <2>1. \A j \in 0 .. m - 1 : low <= t[j] /\ t[j] < t[m]
    BY <1>2 DEF InOrder
  <2>2. 0 + m <= size /\ m \in Nat /\ 0 \in Nat /\ 0 + m - 1 = m - 1
    OBVIOUS
  <2>3. Within(t, 0, m, low, t[m])
    BY <2>1, <2>2 DEF Within
  <2>4. InOrder(b, m, low, t[m]) /\ Values(b, m) = Slice(t, 0, m)
    BY <2>2, <2>3, PartInOrder
  <2> QED BY <2>2, <2>4 DEF Slice
<1>4. InOrder(d, rest, t[m], high) /\ Values(d, rest) = {t[j] : j \in r .. size - 1}
  <2>1. \A j \in r .. size - 1 : t[m] <= t[j] /\ t[j] < high
    <3> SUFFICES ASSUME NEW j \in r .. size - 1 PROVE t[m] <= t[j] /\ t[j] < high
      OBVIOUS
    <3>1. j = m \/ m < j
      OBVIOUS
    <3>2. j \in 0 .. size - 1 /\ m \in 0 .. size - 1
      OBVIOUS
    <3> QED BY <1>1, <1>2, <3>1, <3>2 DEF InOrder
  <2>2. r + rest <= size /\ r + rest - 1 = size - 1 /\ rest \in Nat /\ r \in Nat
    OBVIOUS
  <2>3. Within(t, r, rest, t[m], high)
    BY <2>1, <2>2 DEF Within
  <2>4. InOrder(d, rest, t[m], high) /\ Values(d, rest) = Slice(t, r, rest)
    BY <2>2, <2>3, PartInOrder
  <2> QED BY <2>2, <2>4 DEF Slice
<1>5. m \in 0 .. size - 1 /\ low <= t[m] /\ t[m] < high /\ t[m] \in KeyValue
  BY <1>1 DEF InOrder
<1>6. Values(t, size) = Values(b, m) \cup {t[m]} \cup Values(d, rest)
  <2>1. 0 .. size - 1 = (0 .. m - 1) \cup {m} \cup (r .. size - 1)
    OBVIOUS
  <2> QED BY <1>3, <1>4, <2>1 DEF Values
<1>7. r = m => t[m] \in Values(d, rest)
  BY <1>4
<1> QED BY <1>3, <1>4, <1>5, <1>6, <1>7

(* insert_into_leaf_after_splitting (bpt.c:457): the two leaves have the   *)
(* keys of the full one and the new one, the first key of the right one    *)
(* separates them, and the new leaf takes over the old one's successor.    *)
THEOREM LeafSplits ==
    ASSUME NEW c \in Page, c.leaf, c.n = LeafOrder - 1,
           NEW low \in Int, NEW high \in Int, SlotsInOrder(c, low, high),
           NEW k \in KeyValue, k \notin KeysOf(c), low <= k, k < high,
           NEW new \in [at : PageNo, node : Page], ZeroFrom(new.node.off, 1)
    PROVE  LET h == LeafHalves(c, k, new)
               m == h.right.key[0]
           IN  /\ h.left \in Page /\ h.right \in Page /\ h.left.leaf /\ h.right.leaf
               /\ h.left.n \in 1 .. LeafOrder - 1 /\ h.right.n \in 1 .. LeafOrder - 1
               /\ SlotsInOrder(h.left, low, m) /\ SlotsInOrder(h.right, m, high)
               /\ low <= m /\ m < high
               /\ KeysOf(h.left) \cup KeysOf(h.right) = KeysOf(c) \cup {k}
               /\ h.left.off[0] = new.at /\ h.right.off[0] = c.off[0]
               /\ h.left.parent = c.parent /\ h.right.parent = c.parent
<1> DEFINE n == LeafOrder - 1
           ip == FirstNot(LAMBDA i : c.key[i] < k, LeafOrder - 1)
           t == Spliced(c.key, LeafOrder, ip, k)
           split == cut(LeafOrder - 1)
           rest == LeafOrder - split
           b == Part(c.key, t, 0, split)
           d == Part(new.node.key, t, split, rest)
           h == LeafHalves(c, k, new)
<1>1. /\ h.left = [c EXCEPT !.n = split, !.key = b, !.off[0] = new.at]
      /\ h.right = [new.node EXCEPT !.leaf = TRUE, !.n = rest, !.key = d,
                                    !.off[0] = c.off[0], !.parent = c.parent]
  BY DEF LeafHalves
<1>2. /\ k \in Int /\ n \in Nat /\ 0 .. n \subseteq KeySlot /\ 0 .. n - 1 \subseteq KeySlot
      /\ n + 1 = LeafOrder /\ LeafOrder \in Nat
  BY SlotFacts, NodeAssumption
<1>3. split \in 1 .. LeafOrder - 1 /\ rest \in 1 .. LeafOrder - 1
  BY CutFacts, NodeAssumption
<1>4. PlaceOf(c.key, n, ip, k)
  <2>1. n <= c.n /\ k \notin Values(c.key, n)
    BY <1>2 DEF KeysOf
  <2> QED BY <1>2, <2>1, PlaceFound
<1>5. ip \in 0 .. n
  BY <1>4 DEF PlaceOf
<1>6. /\ Array(c.key, KeySlot, KeyValue) /\ InOrder(c.key, n, low, high) /\ ZeroFrom(c.off, 1)
      /\ Array(new.node.key, KeySlot, KeyValue)
      /\ \A j \in 0 .. n - 1 : c.key[j] \in Int
  BY PageFacts
<1> HIDE DEF ip, split, rest
<1>7. Array(t, 0 .. n, KeyValue) /\ IsInserted(t, c.key, n, ip, k)
  BY <1>2, <1>5, <1>6, SplicedSlots
<1> HIDE DEF t, n
<1>8. Values(t, n + 1) = Values(c.key, n) \cup {k} /\ InOrder(t, n + 1, low, high)
  BY <1>2, <1>4, <1>5, <1>6, <1>7, InsertedInOrder, SMTT(30)
<1>9. /\ Array(t, 0 .. LeafOrder - 1, KeyValue) /\ InOrder(t, LeafOrder, low, high)
      /\ Values(t, LeafOrder) = KeysOf(c) \cup {k}
  BY <1>2, <1>7, <1>8 DEF n, KeysOf
<1>10. /\ split \in Nat /\ rest \in Nat /\ 0 \in Nat /\ split + rest <= LeafOrder /\ 0 + split <= LeafOrder
       /\ split \in KeySlot /\ rest \in KeySlot /\ 0 \in KeyValue
       /\ 0 .. split - 1 \subseteq KeySlot /\ 0 .. rest - 1 \subseteq KeySlot
       /\ split < LeafOrder /\ rest = LeafOrder - split /\ split \in split .. split + 1
  BY <1>2, <1>3, SlotFacts DEF n, rest
<1>11. Array(b, KeySlot, KeyValue) /\ ZeroFrom(b, split) /\ IsPart(b, t, 0, split)
  BY <1>2, <1>6, <1>9, <1>10, PartSlots
<1>12. Array(d, KeySlot, KeyValue) /\ ZeroFrom(d, rest) /\ IsPart(d, t, split, rest)
  BY <1>2, <1>6, <1>9, <1>10, PartSlots
<1> HIDE DEF b, d
<1>13. /\ InOrder(b, split, low, t[split]) /\ InOrder(d, rest, t[split], high)
       /\ low <= t[split] /\ t[split] < high
       /\ Values(b, split) \cup Values(d, rest) = KeysOf(c) \cup {k}
  <2>1. split + rest = LeafOrder /\ rest \in Nat \ {0}
    BY <1>2, <1>3, <1>10
  <2>2. /\ InOrder(b, split, low, t[split]) /\ InOrder(d, rest, t[split], high)
        /\ low <= t[split] /\ t[split] < high
        /\ Values(t, LeafOrder) = Values(b, split) \cup {t[split]} \cup Values(d, rest)
        /\ t[split] \in Values(d, rest)
    BY <1>2, <1>3, <1>9, <1>10, <1>11, <1>12, <2>1, HalvesInOrder, SMTT(30)
  <2> QED BY <1>9, <2>2
<1>14. d[0] = t[split]
  BY <1>3, <1>10, <1>12 DEF IsPart
<1>15. h.left \in Page /\ h.right \in Page
  <2>1. b \in [KeySlot -> 0 .. KeyMod - 1] /\ d \in [KeySlot -> 0 .. KeyMod - 1]
    BY <1>11, <1>12 DEF Array, KeyValue
  <2>2. 0 \in OffSlot /\ c.off[0] \in PageNo /\ c.parent \in PageNo
    BY NodeAssumption DEF Page, OffSlot
  <2>3. h.left = [parent |-> c.parent, leaf |-> c.leaf, n |-> split, key |-> b,
                  off |-> [c.off EXCEPT ![0] = new.at]]
    BY <1>1 DEF Page
  <2>4. h.right = [parent |-> c.parent, leaf |-> TRUE, n |-> rest, key |-> d,
                   off |-> [new.node.off EXCEPT ![0] = c.off[0]]]
    BY <1>1 DEF Page
  <2>5. /\ [c.off EXCEPT ![0] = new.at] \in [OffSlot -> PageNo]
        /\ [new.node.off EXCEPT ![0] = c.off[0]] \in [OffSlot -> PageNo]
    BY <2>2 DEF Page
  <2>6. h.left \in Page
    BY <1>10, <2>1, <2>3, <2>5 DEF Page
  <2>7. h.right \in Page
    BY <1>10, <2>1, <2>2, <2>4, <2>5 DEF Page
  <2> QED BY <2>6, <2>7
<1>16. /\ h.left.key = b /\ h.left.n = split /\ h.left.leaf /\ h.left.parent = c.parent
       /\ h.left.off = [c.off EXCEPT ![0] = new.at]
       /\ h.right.key = d /\ h.right.n = rest /\ h.right.leaf /\ h.right.parent = c.parent
       /\ h.right.off = [new.node.off EXCEPT ![0] = c.off[0]]
  BY <1>1 DEF Page
<1> HIDE DEF h
<1>17. /\ ZeroFrom(h.left.off, 1) /\ ZeroFrom(h.right.off, 1)
       /\ h.left.off[0] = new.at /\ h.right.off[0] = c.off[0]
  <2>1. 0 \in OffSlot /\ OffSlot \subseteq Nat
    BY NodeAssumption DEF OffSlot
  <2>2. c.off \in [OffSlot -> PageNo] /\ new.node.off \in [OffSlot -> PageNo]
    BY DEF Page
  <2> QED BY <1>6, <1>16, <2>1, <2>2 DEF ZeroFrom
<1>18. SlotsInOrder(h.left, low, t[split]) /\ SlotsInOrder(h.right, t[split], high)
  BY <1>11, <1>12, <1>13, <1>15, <1>16, <1>17, PageFacts
<1> QED BY <1>3, <1>10, <1>13, <1>14, <1>15, <1>16, <1>17, <1>18 DEF KeysOf, h

-----------------------------------------------------------------------------
(* The branches when key k divides branch i, with the new child x above k; *)
(* and when branches i and i + 1 become one.                               *)
Divided(key, off, n, low, high, i, k, x) ==
    LET b == Branch(key, off, n, low, high, i)
    IN  {Branch(key, off, n, low, high, j) : j \in (0 .. n) \ {i}}
            \cup {<<b[1], b[2], k>>, <<x, k, b[3]>>}
United(key, off, n, low, high, i) ==
    {Branch(key, off, n, low, high, j) : j \in (0 .. n) \ {i, i + 1}}
        \cup {<<off[i], Branch(key, off, n, low, high, i)[2],
                Branch(key, off, n, low, high, i + 1)[3]>>}

(* What a page branches to after a key and a child were put in: one        *)
(* branch is divided and the others stay.                                  *)
LEMMA BranchDivides ==
    ASSUME NEW n \in Nat, NEW key, NEW off, NEW low, NEW high, NEW i \in 0 .. n, NEW k, NEW x,
           NEW key1, IsInserted(key1, key, n, i, k),
           NEW off1, IsInserted(off1, off, n + 1, i + 1, x)
    PROVE  Branches(key1, off1, n + 1, low, high) = Divided(key, off, n, low, high, i, k, x)
<1> DEFINE B(j)  == Branch(key, off, n, low, high, j)
           B1(j) == Branch(key1, off1, n + 1, low, high, j)
<1> USE DEF Branch, IsInserted
<1>1. \A j \in 0 .. n : j < i => B1(j) = B(j)
  <2> SUFFICES ASSUME NEW j \in 0 .. n, j < i PROVE B1(j) = B(j)
    OBVIOUS
  <2>1. off1[j] = off[j] /\ key1[j] = key[j] /\ j # n /\ j # n + 1
    OBVIOUS
  <2>2. j # 0 => key1[j - 1] = key[j - 1]
    OBVIOUS
  <2> QED BY <2>1, <2>2
<1>2. B1(i) = <<B(i)[1], B(i)[2], k>>
  <2>1. off1[i] = off[i] /\ key1[i] = k /\ i # n + 1
    OBVIOUS
  <2>2. i # 0 => key1[i - 1] = key[i - 1]
    OBVIOUS
  <2> QED BY <2>1, <2>2
<1>3. B1(i + 1) = <<x, k, B(i)[3]>>
  <2>1. off1[i + 1] = x /\ key1[(i + 1) - 1] = k /\ i + 1 # 0
    OBVIOUS
  <2>2. i # n => i + 1 # n + 1 /\ key1[i + 1] = key[i]
    OBVIOUS
  <2> QED BY <2>1, <2>2
<1>4. \A j \in 0 .. n : i < j => B1(j + 1) = B(j)
  <2> SUFFICES ASSUME NEW j \in 0 .. n, i < j PROVE B1(j + 1) = B(j)
    OBVIOUS
  <2>1. off1[j + 1] = off[j] /\ j # 0 /\ j + 1 # 0
    OBVIOUS
  <2>2. key1[(j + 1) - 1] = key[j - 1]
    OBVIOUS
  <2>3. j # n => j + 1 # n + 1 /\ key1[j + 1] = key[j]
    OBVIOUS
  <2> QED BY <2>1, <2>2, <2>3
<1> HIDE DEF B, B1
<1>5. \A j \in 0 .. n + 1 : /\ j < i => j \in (0 .. n) \ {i} /\ B1(j) = B(j)
                            /\ j = i => B1(j) = <<B(i)[1], B(i)[2], k>>
                            /\ j = i + 1 => B1(j) = <<x, k, B(i)[3]>>
                            /\ j > i + 1 => j - 1 \in (0 .. n) \ {i} /\ B1(j) = B(j - 1)
  <2> SUFFICES ASSUME NEW j \in 0 .. n + 1, j > i + 1
               PROVE  j - 1 \in (0 .. n) \ {i} /\ B1(j) = B(j - 1)
    BY <1>1, <1>2, <1>3
  <2>1. j - 1 \in (0 .. n) \ {i} /\ i < j - 1 /\ (j - 1) + 1 = j
    OBVIOUS
  <2> QED BY <1>4, <2>1
<1>6. \A j \in (0 .. n) \ {i} : \E l \in 0 .. n + 1 : B(j) = B1(l)
  <2> SUFFICES ASSUME NEW j \in (0 .. n) \ {i} PROVE \E l \in 0 .. n + 1 : B(j) = B1(l)
    OBVIOUS
  <2>1. CASE j < i
    BY <1>1, <2>1
  <2>2. CASE i < j
    BY <1>4, <2>2
  <2> QED BY <2>1, <2>2
<1>7. i \in 0 .. n + 1 /\ i + 1 \in 0 .. n + 1
  OBVIOUS
<1> DEFINE R == {B(j) : j \in (0 .. n) \ {i}} \cup {<<B(i)[1], B(i)[2], k>>, <<x, k, B(i)[3]>>}
<1>8. {B1(j) : j \in 0 .. n + 1} = R
  <2>1. \A j \in 0 .. n + 1 : B1(j) \in R
    <3> SUFFICES ASSUME NEW j \in 0 .. n + 1 PROVE B1(j) \in R
      OBVIOUS
    <3>1. j < i \/ j = i \/ j = i + 1 \/ j > i + 1
      OBVIOUS
    <3> QED BY <1>5, <3>1
  <2>2. \A y \in R : \E l \in 0 .. n + 1 : y = B1(l)
    BY <1>2, <1>3, <1>6, <1>7
  <2> QED BY <2>1, <2>2
<1> QED BY <1>8 DEF B, B1, Branches, Divided

(* What it branches to after a key and the child right of it were taken    *)
(* out: two branches become one and the others stay.                       *)
LEMMA BranchesUnite ==
    ASSUME NEW n \in Nat \ {0}, NEW key, NEW off, NEW low, NEW high, NEW i \in 0 .. n - 1,
           NEW key1, IsRemoved(key1, key, n, i),
           NEW off1, IsRemoved(off1, off, n + 1, i + 1)
    PROVE  Branches(key1, off1, n - 1, low, high) = United(key, off, n, low, high, i)
<1> DEFINE B(j)  == Branch(key, off, n, low, high, j)
           B1(j) == Branch(key1, off1, n - 1, low, high, j)
<1>0. /\ \A j \in 0 .. n - 2 : key1[j] = IF j < i THEN key[j] ELSE key[j + 1]
      /\ \A j \in 0 .. n - 1 : off1[j] = IF j < i + 1 THEN off[j] ELSE off[j + 1]
  <2>1. (n + 1) - 2 = n - 1
    OBVIOUS
  <2> QED BY <2>1 DEF IsRemoved
<1> USE DEF Branch
<1>1. \A j \in 0 .. n - 1 : j < i => B1(j) = B(j)
  <2> SUFFICES ASSUME NEW j \in 0 .. n - 1, j < i PROVE B1(j) = B(j)
    OBVIOUS
  <2>1. off1[j] = off[j] /\ key1[j] = key[j] /\ j # n /\ j # n - 1
    BY <1>0
  <2>2. j # 0 => key1[j - 1] = key[j - 1]
    BY <1>0
  <2> QED BY <2>1, <2>2
<1>2. B1(i) = <<off[i], B(i)[2], B(i + 1)[3]>>
  <2>1. off1[i] = off[i]
    BY <1>0
  <2>2. i # 0 => key1[i - 1] = key[i - 1]
    BY <1>0
  <2>3. i # n - 1 => i + 1 # n /\ key1[i] = key[i + 1]
    BY <1>0
  <2> QED BY <2>1, <2>2, <2>3
<1>3. \A j \in 0 .. n - 1 : i < j => B1(j) = B(j + 1)
  <2> SUFFICES ASSUME NEW j \in 0 .. n - 1, i < j PROVE B1(j) = B(j + 1)
    OBVIOUS
  <2>1. off1[j] = off[j + 1] /\ j # 0 /\ j + 1 # 0
    BY <1>0
  <2>2. key1[j - 1] = key[(j + 1) - 1]
    <3>1. j - 1 \in 0 .. n - 2 /\ ~(j - 1 < i) /\ (j - 1) + 1 = j /\ (j + 1) - 1 = j
      OBVIOUS
    <3> QED BY <1>0, <3>1
  <2>3. j # n - 1 => j + 1 # n /\ key1[j] = key[j + 1]
    BY <1>0
  <2> QED BY <2>1, <2>2, <2>3
<1> HIDE DEF B, B1
<1>4. \A j \in (0 .. n) \ {i, i + 1} : \E l \in 0 .. n - 1 : B(j) = B1(l)
  <2> SUFFICES ASSUME NEW j \in (0 .. n) \ {i, i + 1} PROVE \E l \in 0 .. n - 1 : B(j) = B1(l)
    OBVIOUS
  <2>1. CASE j < i
    BY <1>1, <2>1
  <2>2. CASE i + 1 < j
    <3>1. j - 1 \in 0 .. n - 1 /\ i < j - 1 /\ (j - 1) + 1 = j
      BY <2>2
    <3> QED BY <1>3, <3>1
  <2> QED BY <2>1, <2>2
<1> DEFINE R == {B(j) : j \in (0 .. n) \ {i, i + 1}} \cup {<<off[i], B(i)[2], B(i + 1)[3]>>}
<1>5. {B1(j) : j \in 0 .. n - 1} = R
  <2>1. \A j \in 0 .. n - 1 : B1(j) \in R
    <3> SUFFICES ASSUME NEW j \in 0 .. n - 1 PROVE B1(j) \in R
      OBVIOUS
    <3>1. CASE j < i
      <4>1. j \in (0 .. n) \ {i, i + 1}
        BY <3>1
      <4> QED BY <1>1, <3>1, <4>1
    <3>2. CASE j = i
      BY <1>2, <3>2
    <3>3. CASE i < j
      <4>1. j + 1 \in (0 .. n) \ {i, i + 1}
        BY <3>3
      <4> QED BY <1>3, <3>3, <4>1
    <3> QED BY <3>1, <3>2, <3>3
  <2>2. \A y \in R : \E l \in 0 .. n - 1 : y = B1(l)
    BY <1>2, <1>4
  <2> QED BY <2>1, <2>2
<1> QED BY <1>5 DEF B, B1, Branches, United

(* What two pages branch to that share the arrays of a split, when key m   *)
(* goes up: together what the arrays branch to.                            *)
LEMMA BranchesPart ==
    ASSUME NEW size \in Nat, NEW t, NEW o, NEW low, NEW high,
           NEW m \in 1 .. size - 1, NEW rest \in Nat, m + 1 + rest = size,
           NEW b, IsPart(b, t, 0, m), NEW bo, IsPart(bo, o, 0, m + 1),
           NEW d, IsPart(d, t, m + 1, rest), NEW do, IsPart(do, o, m + 1, rest + 1)
    PROVE  Branches(b, bo, m, low, t[m]) \cup Branches(d, do, rest, t[m], high)
               = Branches(t, o, size, low, high)
<1> DEFINE B(j) == Branch(t, o, size, low, high, j)
           L(j) == Branch(b, bo, m, low, t[m], j)
           R(j) == Branch(d, do, rest, t[m], high, j)
<1>1. \A j \in 0 .. m : L(j) = B(j)
  <2> SUFFICES ASSUME NEW j \in 0 .. m PROVE L(j) = B(j)
    OBVIOUS
  <2>1. bo[j] = o[j] /\ (j # 0 => b[j - 1] = t[j - 1]) /\ (j # m => b[j] = t[j]) /\ j # size
    BY DEF IsPart
  <2> QED BY <2>1 DEF Branch
<1>2. \A j \in 0 .. rest : R(j) = B(m + 1 + j)
  <2> SUFFICES ASSUME NEW j \in 0 .. rest PROVE R(j) = B(m + 1 + j)
    OBVIOUS
  <2>1. do[j] = o[m + 1 + j] /\ (j # rest => d[j] = t[m + 1 + j]) /\ m + 1 + j # 0
    BY DEF IsPart
  <2>2. j # 0 => d[j - 1] = t[m + 1 + j - 1]
    <3> SUFFICES ASSUME j # 0 PROVE d[j - 1] = t[m + 1 + j - 1]
      OBVIOUS
    <3>1. j - 1 \in 0 .. rest - 1 /\ m + 1 + (j - 1) = m + 1 + j - 1
      OBVIOUS
    <3> QED BY <3>1 DEF IsPart
  <2>3. (j = 0 => m + 1 + j - 1 = m) /\ (j = rest <=> m + 1 + j = size)
    OBVIOUS
  <2> QED BY <2>1, <2>2, <2>3 DEF Branch
<1> HIDE DEF B, L, R
<1>3. \A j \in 0 .. size : j \in 0 .. m \/ (j - (m + 1) \in 0 .. rest /\ m + 1 + (j - (m + 1)) = j)
  OBVIOUS
<1>4. \A j \in 0 .. rest : m + 1 + j \in 0 .. size
  OBVIOUS
<1>5. 0 .. m \subseteq 0 .. size
  OBVIOUS
<1>6. {L(j) : j \in 0 .. m} \cup {R(j) : j \in 0 .. rest} = {B(j) : j \in 0 .. size}
  <2>1. \A j \in 0 .. size : (\E l \in 0 .. m : B(j) = L(l)) \/ (\E l \in 0 .. rest : B(j) = R(l))
    BY <1>1, <1>2, <1>3
  <2>2. (\A j \in 0 .. m : \E l \in 0 .. size : L(j) = B(l))
        /\ \A j \in 0 .. rest : \E l \in 0 .. size : R(j) = B(l)
    BY <1>1, <1>2, <1>4, <1>5
  <2> QED BY <2>1, <2>2
<1> QED BY <1>6 DEF B, L, R, Branches

(* An internal page has one offset more than keys.                         *)
LEMMA OffsetFacts ==
    /\ 0 \in PageNo /\ 0 .. InternalOrder - 1 = OffSlot
    /\ \A n \in Nat : n < InternalOrder => 0 .. n \subseteq OffSlot
BY NodeAssumption DEF PageNo, OffSlot

(* insert_into_node (bpt.c:533): the child at li is divided by k, and the  *)
(* new page becomes the child above k.                                     *)
THEOREM NodeTakesKey ==
    ASSUME NEW c \in Page, ~c.leaf, c.n < InternalOrder - 1,
           NEW low \in Int, NEW high \in Int, SlotsInOrder(c, low, high),
           NEW k \in KeyValue, low <= k, k < high,
           NEW li, PlaceOf(c.key, c.n, li, k), NEW right \in PageNo
    PROVE  LET d == NodeWith(c, li, k, right)
           IN  /\ d \in Page /\ ~d.leaf /\ d.parent = c.parent
               /\ SlotsInOrder(d, low, high)
               /\ Subtrees(d, low, high) = Divided(c.key, c.off, c.n, low, high, li, k, right)
<1> DEFINE n == c.n
           b == With(c.key, n, li, k)
           o == With(c.off, n + 1, li + 1, right)
           d == NodeWith(c, li, k, right)
<1>1. d = [c EXCEPT !.key = b, !.off = o, !.n = n + 1]
  BY DEF NodeWith
<1>2. /\ k \in Int /\ n \in Nat /\ n + 1 \in Nat /\ n + 1 \in KeySlot /\ 0 .. n \subseteq KeySlot
      /\ 0 .. n + 1 \subseteq OffSlot
  BY SlotFacts, PageFacts, KeysAreNumbers, OffsetFacts, NodeAssumption
<1>3. li \in 0 .. n /\ li + 1 \in 0 .. n + 1
  BY <1>2 DEF PlaceOf
<1>4. /\ Array(c.key, KeySlot, KeyValue) /\ Array(c.off, OffSlot, PageNo)
      /\ InOrder(c.key, n, low, high) /\ ZeroFrom(c.key, n) /\ ZeroFrom(c.off, n + 1)
      /\ \A j \in 0 .. n - 1 : c.key[j] \in Int
  BY PageFacts
<1> HIDE DEF n
<1>5. Array(b, KeySlot, KeyValue) /\ ZeroFrom(b, n + 1) /\ IsInserted(b, c.key, n, li, k)
  BY <1>2, <1>3, <1>4, WithSlots
<1>6. Array(o, OffSlot, PageNo) /\ ZeroFrom(o, n + 1 + 1) /\ IsInserted(o, c.off, n + 1, li + 1, right)
  BY <1>2, <1>3, <1>4, WithSlots
<1> HIDE DEF b, o
<1>7. InOrder(b, n + 1, low, high)
  BY <1>2, <1>3, <1>4, <1>5, InsertedInOrder DEF n
<1>8. d \in Page
  BY <1>1, <1>2, <1>5, <1>6 DEF Page, KeyValue, Array
<1>9. d.key = b /\ d.off = o /\ d.n = n + 1 /\ d.leaf = c.leaf /\ d.parent = c.parent
  BY <1>1 DEF Page
<1> HIDE DEF d
<1>10. SlotsInOrder(d, low, high)
  BY <1>5, <1>6, <1>7, <1>8, <1>9, PageFacts
<1>11. Branches(b, o, n + 1, low, high) = Divided(c.key, c.off, n, low, high, li, k, right)
  BY <1>2, <1>3, <1>5, <1>6, BranchDivides
<1> QED BY <1>8, <1>9, <1>10, <1>11 DEF Subtrees, n, d

(* The branches of two pages, of which l has the keys below m.             *)
BothSubtrees(l, r, low, m, high) == Subtrees(l, low, m) \cup Subtrees(r, m, high)

(* insert_into_node_after_splitting (bpt.c:551): together the two pages    *)
(* have the children of the full one with the new child in its place, the  *)
(* middle key separates them, and each is in order.                        *)
THEOREM NodeSplits ==
    ASSUME NEW c \in Page, ~c.leaf, c.n = InternalOrder - 1,
           NEW low \in Int, NEW high \in Int, SlotsInOrder(c, low, high),
           NEW k \in KeyValue, low <= k, k < high,
           NEW li, PlaceOf(c.key, c.n, li, k), NEW right \in PageNo,
           NEW new \in [at : PageNo, node : Page], ~new.node.leaf
    PROVE  LET h == NodeHalves(c, li, k, right, new)
               m == h.middle
           IN  /\ h.left \in Page /\ h.right \in Page /\ ~h.left.leaf /\ ~h.right.leaf
               /\ h.left.n \in 1 .. InternalOrder - 1 /\ h.right.n \in 1 .. InternalOrder - 1
               /\ SlotsInOrder(h.left, low, m) /\ SlotsInOrder(h.right, m, high)
               /\ low <= m /\ m < high /\ m \in KeyValue
               /\ BothSubtrees(h.left, h.right, low, m, high)
                      = Divided(c.key, c.off, c.n, low, high, li, k, right)
               /\ h.left.parent = c.parent /\ h.right.parent = c.parent
<1> DEFINE n == InternalOrder - 1
           t == Spliced(c.key, InternalOrder, li, k)
           o == Spliced(c.off, InternalOrder + 1, li + 1, right)
           split == cut(InternalOrder)
           m == split - 1
           rest == InternalOrder - split
           b  == Part(c.key, t, 0, m)
           bo == Part(c.off, o, 0, split)
           d  == Part(new.node.key, t, split, rest)
           do == Part(new.node.off, o, split, rest + 1)
           h == NodeHalves(c, li, k, right, new)
<1>1. /\ h.left = [c EXCEPT !.n = m, !.key = b, !.off = bo]
      /\ h.right = [new.node EXCEPT !.n = rest, !.key = d, !.off = do, !.parent = c.parent]
      /\ h.middle = t[m]
  BY DEF NodeHalves
<1>2. /\ k \in Int /\ n \in Nat /\ 0 .. n \subseteq KeySlot /\ 0 .. n - 1 \subseteq KeySlot
      /\ n + 1 = InternalOrder /\ InternalOrder \in Nat /\ c.n = n
      /\ n + 1 \in Nat /\ n + 1 + 1 = InternalOrder + 1 /\ 0 .. (n + 1) - 1 \subseteq OffSlot
      /\ InternalOrder + 1 \in Nat
  <2>1. n < InternalOrder /\ (n + 1) - 1 = n /\ n \in Nat
    BY NodeAssumption
  <2>2. 0 .. n \subseteq OffSlot
    BY <2>1, OffsetFacts
  <2> QED BY <2>1, <2>2, SlotFacts, KeysAreNumbers, NodeAssumption
<1>3. split \in 2 .. InternalOrder - 1 /\ m \in 1 .. InternalOrder - 2 /\ rest \in 1 .. InternalOrder - 2
  BY CutFacts, NodeAssumption
<1>4. li \in 0 .. n /\ li + 1 \in 0 .. n + 1 /\ PlaceOf(c.key, n, li, k)
  BY <1>2 DEF PlaceOf
<1>5. /\ Array(c.key, KeySlot, KeyValue) /\ InOrder(c.key, n, low, high)
      /\ Array(c.off, OffSlot, PageNo)
      /\ Array(new.node.key, KeySlot, KeyValue) /\ Array(new.node.off, OffSlot, PageNo)
      /\ \A j \in 0 .. n - 1 : c.key[j] \in Int
  BY <1>2, PageFacts
<1>6. /\ split = m + 1 /\ m + 1 + rest = InternalOrder
      /\ m \in Nat /\ split \in Nat /\ rest \in Nat \ {0} /\ rest + 1 \in Nat /\ 0 \in Nat
      /\ m \in 1 .. InternalOrder - 1 /\ split \in m .. m + 1 /\ split + rest = InternalOrder
      /\ 0 + m <= InternalOrder /\ split + rest <= InternalOrder
      /\ 0 + split <= InternalOrder + 1 /\ split + (rest + 1) <= InternalOrder + 1
      /\ m < InternalOrder /\ split < InternalOrder /\ rest < InternalOrder
  BY <1>2, <1>3
<1>7. /\ m \in KeySlot /\ rest \in KeySlot
      /\ 0 .. m - 1 \subseteq KeySlot /\ 0 .. rest - 1 \subseteq KeySlot
      /\ 0 .. split - 1 \subseteq OffSlot /\ 0 .. (rest + 1) - 1 \subseteq OffSlot
      /\ 0 \in KeyValue /\ 0 \in PageNo
  <2>1. 0 .. InternalOrder - 1 \subseteq KeySlot /\ 0 \in KeyValue
    BY SlotFacts
  <2>2. OffSlot = 0 .. InternalOrder - 1 /\ 0 \in PageNo
    BY OffsetFacts
  <2> HIDE DEF split, rest
  <2> QED BY <1>2, <1>3, <2>1, <2>2
<1> HIDE DEF split, rest, m
<1>8. Array(t, 0 .. n, KeyValue) /\ IsInserted(t, c.key, n, li, k)
  BY <1>2, <1>4, <1>5, SplicedSlots
<1>9. Array(o, 0 .. n + 1, PageNo) /\ IsInserted(o, c.off, n + 1, li + 1, right)
  BY <1>2, <1>4, <1>5, SplicedSlots
<1> HIDE DEF t, o, n
<1>10. InOrder(t, n + 1, low, high)
  BY <1>2, <1>4, <1>5, <1>8, InsertedInOrder
<1>11. /\ Array(t, 0 .. InternalOrder - 1, KeyValue) /\ InOrder(t, InternalOrder, low, high)
       /\ Array(o, 0 .. (InternalOrder + 1) - 1, PageNo)
  <2>1. n = InternalOrder - 1 /\ n + 1 = (InternalOrder + 1) - 1
    BY <1>2
  <2> QED BY <1>2, <1>8, <1>9, <1>10, <2>1
<1>12. Array(b, KeySlot, KeyValue) /\ ZeroFrom(b, m) /\ IsPart(b, t, 0, m)
  BY <1>2, <1>5, <1>6, <1>7, <1>11, PartSlots
<1>13. Array(d, KeySlot, KeyValue) /\ ZeroFrom(d, rest) /\ IsPart(d, t, split, rest)
  BY <1>2, <1>5, <1>6, <1>7, <1>11, PartSlots
<1>14. Array(bo, OffSlot, PageNo) /\ ZeroFrom(bo, split) /\ IsPart(bo, o, 0, split)
  BY <1>2, <1>5, <1>6, <1>7, <1>11, PartSlots
<1>15. Array(do, OffSlot, PageNo) /\ ZeroFrom(do, rest + 1) /\ IsPart(do, o, split, rest + 1)
  BY <1>2, <1>5, <1>6, <1>7, <1>11, PartSlots
<1> HIDE DEF b, d, bo, do
<1>16. /\ InOrder(b, m, low, t[m]) /\ InOrder(d, rest, t[m], high)
       /\ low <= t[m] /\ t[m] < high /\ t[m] \in KeyValue
  <2>1. /\ InternalOrder \in Nat /\ m \in 1 .. InternalOrder - 1 /\ split \in m .. m + 1
        /\ rest \in Nat \ {0} /\ split + rest = InternalOrder
    BY <1>2, <1>6
  <2>2. IsPart(b, t, 0, m) /\ IsPart(d, t, split, rest)
    BY <1>12, <1>13
  <2>3. /\ InOrder(b, m, low, t[m]) /\ InOrder(d, rest, t[m], high)
        /\ low <= t[m] /\ t[m] < high /\ t[m] \in KeyValue
        /\ Values(t, InternalOrder) = Values(b, m) \cup {t[m]} \cup Values(d, rest)
    <3> HIDE DEF h
    <3> QED BY <1>11, <2>1, <2>2, HalvesInOrder, SMTT(60)
  <2> QED BY <2>3
<1>17. Branches(b, bo, m, low, t[m]) \cup Branches(d, do, rest, t[m], high)
           = Branches(t, o, InternalOrder, low, high)
  <2>1. /\ IsPart(bo, o, 0, m + 1) /\ IsPart(d, t, m + 1, rest) /\ IsPart(do, o, m + 1, rest + 1)
        /\ rest \in Nat
    BY <1>6, <1>13, <1>14, <1>15
  <2> QED BY <1>2, <1>6, <1>12, <2>1, BranchesPart
<1>18. Branches(t, o, n + 1, low, high) = Divided(c.key, c.off, n, low, high, li, k, right)
  BY <1>2, <1>4, <1>8, <1>9, BranchDivides
<1>19. h.left \in Page /\ h.right \in Page
  <2>1. c.parent \in PageNo
    BY DEF Page
  <2> QED BY <1>1, <1>7, <1>12, <1>13, <1>14, <1>15, <2>1 DEF Page, KeyValue, Array
<1>20. /\ h.left.key = b /\ h.left.off = bo /\ h.left.n = m /\ h.left.leaf = c.leaf
       /\ h.left.parent = c.parent
       /\ h.right.key = d /\ h.right.off = do /\ h.right.n = rest
       /\ h.right.leaf = new.node.leaf /\ h.right.parent = c.parent
  BY <1>1 DEF Page
<1>21. h.middle = t[m]
  BY <1>1
<1> HIDE DEF h
<1>22. SlotsInOrder(h.left, low, t[m]) /\ SlotsInOrder(h.right, t[m], high)
  BY <1>6, <1>12, <1>13, <1>14, <1>15, <1>16, <1>19, <1>20, PageFacts
<1>23. h.left.n \in 1 .. InternalOrder - 1 /\ h.right.n \in 1 .. InternalOrder - 1
  <2>1. m \in 1 .. InternalOrder - 1 /\ rest \in 1 .. InternalOrder - 1
    BY <1>2, <1>6
  <2> QED BY <1>20, <2>1
<1>24. BothSubtrees(h.left, h.right, low, t[m], high)
           = Divided(c.key, c.off, c.n, low, high, li, k, right)
  <2>1. Subtrees(h.left, low, t[m]) = Branches(b, bo, m, low, t[m])
    BY <1>20 DEF Subtrees
  <2>2. Subtrees(h.right, t[m], high) = Branches(d, do, rest, t[m], high)
    BY <1>20 DEF Subtrees
  <2>3. n + 1 = InternalOrder /\ c.n = n
    BY <1>2
  <2> QED BY <1>17, <1>18, <2>1, <2>2, <2>3 DEF BothSubtrees
<1> QED BY <1>16, <1>19, <1>20, <1>21, <1>22, <1>23, <1>24 DEF h
-----------------------------------------------------------------------------
(* remove_entry_from_node (bpt.c:756): the page has its other keys, in     *)
(* order, with zeros behind them; a leaf keeps its successor, and in an    *)
(* internal page the two branches at the key become one, with the left     *)
(* child.                                                                  *)
THEOREM PageLosesKey ==
    ASSUME NEW c \in Page, c.n > 0, ~c.leaf => c.n < InternalOrder,
           NEW low \in Int, NEW high \in Int, SlotsInOrder(c, low, high),
           NEW i \in 0 .. c.n - 1
    PROVE  LET d == RemoveEntry(c, c.key[i])
           IN  /\ d \in Page /\ d.n = c.n - 1 /\ d.leaf = c.leaf /\ d.parent = c.parent
               /\ SlotsInOrder(d, low, high)
               /\ KeysOf(d) = KeysOf(c) \ {c.key[i]}
               /\ IF c.leaf THEN d.off = c.off
                  ELSE Subtrees(d, low, high) = United(c.key, c.off, c.n, low, high, i)
<1> DEFINE k == c.key[i]
           n == c.n
           f == FirstNot(LAMBDA j : c.key[j] # k, n - 1)
           b == Without(c.key, n, i)
           o == Without(c.off, n + 1, i + 1)
           d == RemoveEntry(c, k)
<1>1. /\ n \in Nat /\ n \in Nat \ {0} /\ n - 1 \in Nat /\ n - 1 \in KeySlot /\ i \in 0 .. n - 1
      /\ 0 .. n - 1 \subseteq KeySlot /\ 0 \in KeyValue /\ 0 \in PageNo
  BY SlotFacts, PageFacts, OffsetFacts
<1>2. /\ Array(c.key, KeySlot, KeyValue) /\ Array(c.off, OffSlot, PageNo)
      /\ InOrder(c.key, n, low, high) /\ ZeroFrom(c.key, n)
      /\ ZeroFrom(c.off, IF c.leaf THEN 1 ELSE n + 1)
      /\ \A j \in 0 .. n - 1 : c.key[j] \in Int
  BY <1>1, PageFacts
<1>3. f = i
  <2>1. IsFirstNot(f, {j \in Nat : c.key[j] # k}, 0, n - 1)
    BY <1>1, FirstNotOther
  <2>2. \A j, l \in 0 .. n - 1 : j < l => c.key[j] < c.key[l]
    BY <1>1, <1>2, Increasing DEF InOrder
  <2>3. \A j \in 0 .. n - 1 : j # i => c.key[j] # k
    <3> SUFFICES ASSUME NEW j \in 0 .. n - 1, j # i PROVE c.key[j] # k
      OBVIOUS
    <3>1. c.key[j] < c.key[i] \/ c.key[i] < c.key[j]
      BY <1>1, <2>2
    <3> QED BY <1>1, <1>2, <3>1
  <2> HIDE DEF f
  <2>4. f \in 0 .. n - 1 /\ (\A j \in 0 .. f - 1 : c.key[j] # k) /\ (f < n - 1 => c.key[f] = k)
    BY <1>1, <2>1 DEF IsFirstNot
  <2>5. ~(i < f)
    BY <1>1, <2>4
  <2> QED BY <1>1, <2>3, <2>4, <2>5
<1>4. d = [c EXCEPT !.n = n - 1, !.key = b, !.off = IF c.leaf THEN c.off ELSE o]
  BY <1>3 DEF RemoveEntry
<1> HIDE DEF f
<1>5. Array(b, KeySlot, KeyValue) /\ ZeroFrom(b, n - 1) /\ IsRemoved(b, c.key, n, i)
  <2> HIDE DEF n
  <2> QED BY <1>1, <1>2, WithoutSlots
<1>6. ASSUME ~c.leaf
      PROVE  Array(o, OffSlot, PageNo) /\ ZeroFrom(o, n) /\ IsRemoved(o, c.off, n + 1, i + 1)
  <2>1. /\ n + 1 \in Nat \ {0} /\ (n + 1) - 1 = n /\ i + 1 \in 0 .. (n + 1) - 1
    BY <1>1
  <2>2. 0 .. (n + 1) - 1 \subseteq OffSlot /\ ZeroFrom(c.off, n + 1)
    BY <1>1, <1>2, <1>6, <2>1, OffsetFacts
  <2> HIDE DEF n
  <2>3. Array(o, OffSlot, PageNo) /\ ZeroFrom(o, (n + 1) - 1) /\ IsRemoved(o, c.off, n + 1, i + 1)
    BY <1>1, <1>2, <2>1, <2>2, WithoutSlots
  <2> QED BY <2>1, <2>3
<1> HIDE DEF b, o
<1>7. Values(b, n - 1) = Values(c.key, n) \ {k} /\ InOrder(b, n - 1, low, high)
  <2> HIDE DEF n
  <2> QED BY <1>1, <1>2, <1>5, RemovedInOrder
<1>8. d \in Page
  <2>1. c.off \in [OffSlot -> PageNo] /\ c.parent \in PageNo /\ c.leaf \in BOOLEAN
    BY DEF Page
  <2>2. (IF c.leaf THEN c.off ELSE o) \in [OffSlot -> PageNo]
    BY <1>6, <2>1 DEF Array
  <2>3. d = [parent |-> c.parent, leaf |-> c.leaf, n |-> n - 1, key |-> b,
             off |-> IF c.leaf THEN c.off ELSE o]
    BY <1>4 DEF Page
  <2> QED BY <1>1, <1>5, <2>1, <2>2, <2>3 DEF Page, KeyValue, Array
<1>9. /\ d.key = b /\ d.n = n - 1 /\ d.leaf = c.leaf /\ d.parent = c.parent
      /\ d.off = IF c.leaf THEN c.off ELSE o
  BY <1>4 DEF Page
<1> HIDE DEF d
<1>10. SlotsInOrder(d, low, high)
  <2>1. n = (n - 1) + 1
    BY <1>1
  <2>2. ZeroFrom(d.off, IF d.leaf THEN 1 ELSE d.n + 1)
    BY <1>2, <1>6, <1>9, <2>1
  <2> QED BY <1>5, <1>7, <1>8, <1>9, <2>2, PageFacts
<1>11. ~c.leaf => Subtrees(d, low, high) = United(c.key, c.off, n, low, high, i)
  <2> SUFFICES ASSUME ~c.leaf PROVE Branches(b, o, n - 1, low, high) = United(c.key, c.off, n, low, high, i)
    BY <1>9 DEF Subtrees
  <2> QED BY <1>1, <1>5, <1>6, BranchesUnite
<1>12. KeysOf(d) = KeysOf(c) \ {k}
  BY <1>7, <1>9 DEF KeysOf
<1> QED BY <1>8, <1>9, <1>10, <1>11, <1>12 DEF n, d

-----------------------------------------------------------------------------
(* One probe of the binary search, that goes on in g. *)
Probe(c, k, g, p, q) ==
    LET i == (p + q) \div 2
    IN  IF c.key[i] = k   THEN [at |-> i, hit |-> TRUE]
        ELSE IF p >= q    THEN [at |-> i, hit |-> FALSE]
        ELSE IF k < c.key[i] THEN g[<<p, i>>]
        ELSE g[<<i + 1, q>>]

(* The function the source's search is defined by. *)
IsSearch(g, c, k) == g = [range \in KeySlot \X KeySlot |-> Probe(c, k, g, range[1], range[2])]

(* A probe halves its range, and uses g for smaller ranges only. *)
LEMMA ProbeGoesOn ==
    ASSUME NEW c, NEW k, NEW g, NEW p \in KeySlot, NEW q \in KeySlot
    PROVE  LET i == (p + q) \div 2
           IN  /\ p < q => /\ i \in p .. q - 1 /\ i \in KeySlot /\ i + 1 \in KeySlot
                           /\ i - p < q - p /\ q - (i + 1) < q - p
               /\ p \in Nat /\ q \in Nat
               /\ \A f : (p < q => f[<<p, i>>] = g[<<p, i>>] /\ f[<<i + 1, q>>] = g[<<i + 1, q>>])
                             => Probe(c, k, f, p, q) = Probe(c, k, g, p, q)
<1> DEFINE i == (p + q) \div 2
<1>1. p \in Nat /\ q \in Nat
  BY SlotFacts
<1>2. p < q => i \in p .. q - 1
  BY <1>1
<1> HIDE DEF i
<1>3. p < q => /\ i \in KeySlot /\ i + 1 \in KeySlot
               /\ i - p < q - p /\ q - (i + 1) < q - p
  <2>1. 0 .. q \subseteq KeySlot
    BY SlotFacts
  <2> QED BY <1>1, <1>2, <2>1
<1>4. ASSUME NEW f, p < q => f[<<p, i>>] = g[<<p, i>>] /\ f[<<i + 1, q>>] = g[<<i + 1, q>>]
      PROVE  Probe(c, k, f, p, q) = Probe(c, k, g, p, q)
  BY <1>1, <1>4 DEF Probe, i
<1> QED BY <1>1, <1>2, <1>3, <1>4 DEF i

(* There is a search function: by induction over the length of the range.  *)
LEMMA ProbeExists ==
    ASSUME NEW c, NEW k
    PROVE  \E g : IsSearch(g, c, k)
<1> DEFINE Ok(g, d) == \A p, q \in KeySlot : q - p <= d => g[<<p, q>>] = Probe(c, k, g, p, q)
<1>1. PICK top \in Nat : KeySlot = 0 .. top
  BY NodeAssumption DEF KeySlot
<1> DEFINE S == {d \in 0 .. top : \E g : Ok(g, d)}
<1>2. 0 \in S
  <2> DEFINE g == [r \in KeySlot \X KeySlot |-> Probe(c, k, 0, r[1], r[2])]
  <2>1. ASSUME NEW p \in KeySlot, NEW q \in KeySlot, q - p <= 0
        PROVE  g[<<p, q>>] = Probe(c, k, g, p, q)
    <3>1. ~(p < q)
      BY <1>1, <2>1
    <3>2. g[<<p, q>>] = Probe(c, k, 0, p, q)
      OBVIOUS
    <3> HIDE DEF g
    <3>3. Probe(c, k, 0, p, q) = Probe(c, k, g, p, q)
      <4>1. p >= q
        BY <1>1, <3>1
      <4> QED BY <4>1 DEF Probe
    <3> QED BY <3>2, <3>3
  <2>2. Ok(g, 0)
    <3> HIDE DEF g
    <3> QED BY <2>1
  <2> HIDE DEF Ok
  <2> QED BY <2>2
<1>3. ASSUME NEW d \in 0 + 1 .. top, d - 1 \in S PROVE d \in S
  <2>1. PICK g : Ok(g, d - 1)
    BY <1>3
  <2> DEFINE f == [r \in KeySlot \X KeySlot |-> IF r[2] - r[1] <= d - 1 THEN g[r]
                                                ELSE Probe(c, k, g, r[1], r[2])]
  <2>2. \A p, q \in KeySlot : f[<<p, q>>] = IF q - p <= d - 1 THEN g[<<p, q>>]
                                            ELSE Probe(c, k, g, p, q)
    OBVIOUS
  <2> HIDE DEF f
  <2>3. ASSUME NEW p \in KeySlot, NEW q \in KeySlot, q - p <= d
        PROVE  f[<<p, q>>] = Probe(c, k, f, p, q)
    <3> DEFINE i == (p + q) \div 2
    <3>1. p < q => /\ i \in KeySlot /\ i + 1 \in KeySlot
                   /\ i - p <= d - 1 /\ q - (i + 1) <= d - 1
      <4>1. p \in Nat /\ q \in Nat /\ (p < q => i \in p .. q - 1 /\ i \in KeySlot /\ i + 1 \in KeySlot)
        BY ProbeGoesOn
      <4> HIDE DEF i
      <4> QED BY <2>3, <4>1
    <3> HIDE DEF i
    <3>2. p < q => f[<<p, i>>] = g[<<p, i>>] /\ f[<<i + 1, q>>] = g[<<i + 1, q>>]
      BY <2>2, <3>1
    <3>3. Probe(c, k, f, p, q) = Probe(c, k, g, p, q)
      BY <3>2, ProbeGoesOn DEF i
    <3>4. CASE q - p <= d - 1
      BY <2>1, <2>2, <3>3, <3>4
    <3>5. CASE ~(q - p <= d - 1)
      BY <2>2, <3>3, <3>5
    <3> QED BY <3>4, <3>5
  <2>4. Ok(f, d)
    BY <2>3
  <2> HIDE DEF Ok
  <2> QED BY <2>4
<1>4. top \in S
  <2> HIDE DEF S
  <2>1. \A d \in 0 .. top : d \in S
    BY <1>2, <1>3, IntervalInduction
  <2> QED BY <2>1
<1>5. PICK g : Ok(g, top)
  BY <1>4
<1> DEFINE f == [r \in KeySlot \X KeySlot |-> g[r]]
<1>6. \A r \in KeySlot \X KeySlot : f[r] = g[r]
  OBVIOUS
<1>7. f = [r \in KeySlot \X KeySlot |-> f[r]]
  OBVIOUS
<1> HIDE DEF f
<1>8. ASSUME NEW r \in KeySlot \X KeySlot PROVE f[r] = Probe(c, k, f, r[1], r[2])
  <2>1. PICK p \in KeySlot, q \in KeySlot : r = <<p, q>>
    OBVIOUS
  <2>2. f[r] = Probe(c, k, g, p, q)
    BY <1>1, <1>5, <1>6, <2>1
  <2> DEFINE i == (p + q) \div 2
  <2>3. p < q => i \in KeySlot /\ i + 1 \in KeySlot
    BY ProbeGoesOn
  <2> HIDE DEF i
  <2>4. p < q => f[<<p, i>>] = g[<<p, i>>] /\ f[<<i + 1, q>>] = g[<<i + 1, q>>]
    BY <1>6, <2>3
  <2>5. Probe(c, k, f, p, q) = Probe(c, k, g, p, q)
    BY <2>4, ProbeGoesOn DEF i
  <2> QED BY <2>1, <2>2, <2>5
<1>9. f = [r \in KeySlot \X KeySlot |-> Probe(c, k, f, r[1], r[2])]
  BY <1>7, <1>8
<1> QED BY <1>9 DEF IsSearch

(* Any other slot of an ordered array is on its own side of a key. *)
LEMMA PlaceMeansAbsent ==
    ASSUME NEW n \in Nat, NEW a, \A i \in 0 .. n - 1 : a[i] \in Int,
           \A i \in 1 .. n - 1 : a[i - 1] < a[i],
           NEW k \in Int, NEW at, PlaceOf(a, n, at, k)
    PROVE  k \notin Values(a, n)
<1>1. \A i, j \in 0 .. n - 1 : i < j => a[i] < a[j]
  BY Increasing
<1>2. ASSUME NEW j \in 0 .. n - 1 PROVE a[j] # k
  <2>1. at \in 0 .. n /\ (at > 0 => a[at - 1] < k) /\ (at < n => k < a[at])
    BY DEF PlaceOf
  <2>2. CASE j < at
    <3>1. at - 1 \in 0 .. n - 1 /\ (j = at - 1 \/ j < at - 1)
      BY <2>1, <2>2
    <3>2. a[j] = a[at - 1] \/ a[j] < a[at - 1]
      BY <1>1, <3>1
    <3>3. a[at - 1] \in Int /\ a[j] \in Int /\ a[at - 1] < k
      BY <2>1, <2>2, <3>1
    <3> QED BY <3>2, <3>3
  <2>3. CASE ~(j < at)
    <3>1. at \in 0 .. n - 1 /\ (j = at \/ at < j)
      BY <2>1, <2>3
    <3>2. a[j] = a[at] \/ a[at] < a[j]
      BY <1>1, <3>1
    <3>3. a[at] \in Int /\ a[j] \in Int /\ k < a[at]
      BY <2>1, <3>1
    <3> QED BY <3>2, <3>3
  <2> QED BY <2>2, <2>3
<1> QED BY <1>2 DEF Values

(* What the search may rely on in the range p .. q, and what it answers. *)
Bracketed(c, k, p, q) ==
    /\ p <= q /\ q <= c.n
    /\ \A j \in 0 .. p - 1 : c.key[j] < k
    /\ \A j \in q .. c.n - 1 : k < c.key[j]
Answers(r, c, k) ==
    IF r.hit THEN r.at \in 0 .. c.n - 1 /\ c.key[r.at] = k
             ELSE PlaceOf(c.key, c.n, r.at, k)

(* It answers for every bracketed range, so also for the whole page,       *)
(* where the cleared slot behind the keys is not k.                        *)
LEMMA ProbeAnswers ==
    ASSUME NEW c \in Page, NEW low \in Int, NEW high \in Int, SlotsInOrder(c, low, high),
           NEW k \in KeyValue \ {0}, NEW g,
           \A p, q \in KeySlot : g[<<p, q>>] = Probe(c, k, g, p, q)
    PROVE  Answers(g[<<0, c.n>>], c, k)
<1> DEFINE Ok(d) == \A p, q \in KeySlot : q - p <= d /\ Bracketed(c, k, p, q)
                                              => Answers(g[<<p, q>>], c, k)
           n == c.n
<1>1. PICK top \in Nat : KeySlot = 0 .. top
  BY NodeAssumption DEF KeySlot
<1>2. /\ n \in Nat /\ n \in KeySlot /\ 0 \in KeySlot /\ k \in Int /\ k # 0 /\ c.key[n] = 0
      /\ \A j \in KeySlot : c.key[j] \in Int
      /\ 0 .. n \subseteq KeySlot
  <2>1. /\ n \in Nat /\ n \in KeySlot /\ k \in Int /\ k # 0 /\ 0 .. n \subseteq KeySlot
        /\ \A j \in KeySlot : c.key[j] \in Int
    BY PageFacts, SlotFacts, KeysAreNumbers
  <2>2. c.key[n] = 0
    BY <2>1 DEF SlotsInOrder
  <2> QED BY <2>1, <2>2
<1>3. \A i, j \in 0 .. n - 1 : i < j => c.key[i] < c.key[j]
  <2>1. \A i \in 0 .. n - 1 : c.key[i] \in Int
    BY <1>2
  <2>2. \A i \in 1 .. n - 1 : c.key[i - 1] < c.key[i]
    BY DEF SlotsInOrder
  <2> QED BY <1>2, <2>1, <2>2, Increasing
<1>4. ASSUME NEW p \in KeySlot, NEW q \in KeySlot, Bracketed(c, k, p, q),
             p < q => \A p1, q1 \in KeySlot : q1 - p1 < q - p /\ Bracketed(c, k, p1, q1)
                                                  => Answers(g[<<p1, q1>>], c, k)
      PROVE  Answers(g[<<p, q>>], c, k)
  <2> DEFINE i == (p + q) \div 2
  <2>1. /\ p \in Nat /\ q \in Nat
        /\ p < q => /\ i \in p .. q - 1 /\ i \in KeySlot /\ i + 1 \in KeySlot
                    /\ i - p < q - p /\ q - (i + 1) < q - p
    BY ProbeGoesOn
  <2>2. p = q => i = p
    BY <2>1
  <2>3. g[<<p, q>>] = IF c.key[i] = k THEN [at |-> i, hit |-> TRUE]
                      ELSE IF p >= q    THEN [at |-> i, hit |-> FALSE]
                      ELSE IF k < c.key[i] THEN g[<<p, i>>]
                      ELSE g[<<i + 1, q>>]
    BY DEF Probe
  <2> HIDE DEF i
  <2>4. /\ p <= q /\ q <= n
        /\ \A j \in 0 .. p - 1 : c.key[j] < k
        /\ \A j \in q .. n - 1 : k < c.key[j]
    BY <1>4 DEF Bracketed
  <2>5. i \in 0 .. n /\ (p < q => i \in 0 .. n - 1) /\ c.key[i] \in Int
    BY <1>2, <2>1, <2>2, <2>4
  <2>6. CASE c.key[i] = k
    <3>1. i \in 0 .. n - 1
      BY <1>2, <2>5, <2>6
    <3> QED BY <2>3, <2>6, <3>1 DEF Answers
  <2>7. CASE c.key[i] # k /\ ~(p < q)
    <3>1. p = q /\ i = p /\ p >= q
      BY <2>1, <2>2, <2>4, <2>7
    <3>2. PlaceOf(c.key, n, i, k)
      BY <1>2, <2>1, <2>4, <2>5, <3>1 DEF PlaceOf
    <3> QED BY <2>3, <2>7, <3>1, <3>2 DEF Answers
  <2>8. CASE p < q /\ k < c.key[i]
    <3>1. \A j \in i .. n - 1 : k < c.key[j]
      <4> SUFFICES ASSUME NEW j \in i .. n - 1 PROVE k < c.key[j]
        OBVIOUS
      <4>1. j \in 0 .. n - 1 /\ i \in 0 .. n - 1 /\ (j = i \/ i < j)
        BY <2>5, <2>8
      <4>2. c.key[j] = c.key[i] \/ c.key[i] < c.key[j]
        BY <1>3, <4>1
      <4>3. c.key[j] \in Int
        BY <1>2, <4>1
      <4> QED BY <1>2, <2>5, <2>8, <4>2, <4>3
    <3>2. Bracketed(c, k, p, i)
      BY <1>2, <2>1, <2>4, <2>8, <3>1 DEF Bracketed
    <3>3. Answers(g[<<p, i>>], c, k)
      BY <1>4, <2>1, <2>8, <3>2
    <3>4. g[<<p, q>>] = g[<<p, i>>]
      BY <1>2, <2>1, <2>3, <2>5, <2>8
    <3> QED BY <3>3, <3>4
  <2>9. CASE p < q /\ c.key[i] < k
    <3>1. \A j \in 0 .. (i + 1) - 1 : c.key[j] < k
      <4> SUFFICES ASSUME NEW j \in 0 .. (i + 1) - 1 PROVE c.key[j] < k
        OBVIOUS
      <4>1. j \in 0 .. n - 1 /\ i \in 0 .. n - 1 /\ (j = i \/ j < i)
        BY <1>2, <2>5, <2>9
      <4>2. c.key[j] = c.key[i] \/ c.key[j] < c.key[i]
        BY <1>3, <4>1
      <4>3. c.key[j] \in Int
        BY <1>2, <4>1
      <4> QED BY <1>2, <2>5, <2>9, <4>2, <4>3
    <3>2. Bracketed(c, k, i + 1, q)
      BY <2>1, <2>4, <2>9, <3>1 DEF Bracketed
    <3>3. Answers(g[<<i + 1, q>>], c, k)
      BY <1>4, <2>1, <2>9, <3>2
    <3>4. g[<<p, q>>] = g[<<i + 1, q>>]
      BY <1>2, <2>1, <2>3, <2>5, <2>9
    <3> QED BY <3>3, <3>4
  <2> QED BY <1>2, <2>5, <2>6, <2>7, <2>8, <2>9
<1> DEFINE S == {d \in 0 .. top : Ok(d)}
<1>5. 0 \in S
  <2>1. ASSUME NEW p \in KeySlot, NEW q \in KeySlot, q - p <= 0, Bracketed(c, k, p, q)
        PROVE  Answers(g[<<p, q>>], c, k)
    <3>1. ~(p < q)
      BY <1>1, <2>1
    <3> QED BY <1>4, <2>1, <3>1
  <2> QED BY <2>1
<1>6. ASSUME NEW d \in 0 + 1 .. top, d - 1 \in S PROVE d \in S
  <2>1. \A p, q \in KeySlot : q - p <= d - 1 /\ Bracketed(c, k, p, q) => Answers(g[<<p, q>>], c, k)
    BY <1>6
  <2>2. ASSUME NEW p \in KeySlot, NEW q \in KeySlot, q - p <= d, Bracketed(c, k, p, q)
        PROVE  Answers(g[<<p, q>>], c, k)
    <3>1. ASSUME NEW p1 \in KeySlot, NEW q1 \in KeySlot, q1 - p1 < q - p, Bracketed(c, k, p1, q1)
          PROVE  Answers(g[<<p1, q1>>], c, k)
      <4>1. q1 - p1 <= d - 1
        BY <1>1, <2>2, <3>1
      <4> QED BY <2>1, <3>1, <4>1
    <3> QED BY <1>4, <2>2, <3>1
  <2> QED BY <2>2
<1>7. top \in S
  <2> HIDE DEF S
  <2>1. \A d \in 0 .. top : d \in S
    BY <1>5, <1>6, IntervalInduction
  <2> QED BY <2>1
<1>8. Bracketed(c, k, 0, n) /\ n - 0 <= top
  BY <1>1, <1>2 DEF Bracketed
<1> QED BY <1>2, <1>7, <1>8

(* find and find_leaf (bpt.c:348, bpt.c:304): on a page in order the       *)
(* search tells for any key but 0 whether the page has it, at which slot,  *)
(* or else between which slots it belongs.                                 *)
THEOREM SearchIsExact ==
    ASSUME NEW c \in Page, NEW low \in Int, NEW high \in Int, SlotsInOrder(c, low, high),
           NEW k \in KeyValue \ {0}
    PROVE  LET r == Search(c, k)
           IN  /\ r.hit <=> k \in KeysOf(c)
               /\ r.hit => r.at \in 0 .. c.n - 1 /\ c.key[r.at] = k
               /\ ~r.hit => PlaceOf(c.key, c.n, r.at, k)
<1> DEFINE probe == CHOOSE g : IsSearch(g, c, k)
           r == Search(c, k)
<1>1. r = probe[<<0, c.n>>]
  BY DEF Search, IsSearch, Probe
<1>2. IsSearch(probe, c, k)
  BY ProbeExists
<1> HIDE DEF probe
<1>3. ASSUME NEW p \in KeySlot, NEW q \in KeySlot
      PROVE  probe[<<p, q>>] = Probe(c, k, probe, p, q)
  <2> DEFINE s == <<p, q>>
  <2>1. s \in KeySlot \X KeySlot /\ s[1] = p /\ s[2] = q
    OBVIOUS
  <2> HIDE DEF s
  <2>2. probe[s] = Probe(c, k, probe, s[1], s[2])
    BY <1>2, <2>1 DEF IsSearch
  <2> QED BY <2>1, <2>2 DEF s
<1>4. Answers(r, c, k)
  BY <1>1, <1>3, ProbeAnswers
<1> HIDE DEF r
<1>5. /\ r.hit => r.at \in 0 .. c.n - 1 /\ c.key[r.at] = k
      /\ ~r.hit => PlaceOf(c.key, c.n, r.at, k)
  BY <1>4 DEF Answers
<1>6. r.hit => k \in KeysOf(c)
  BY <1>5 DEF KeysOf, Values
<1>7. ~r.hit => k \notin KeysOf(c)
  <2> SUFFICES ASSUME ~r.hit PROVE k \notin KeysOf(c)
    OBVIOUS
  <2>1. PlaceOf(c.key, c.n, r.at, k)
    BY <1>5
  <2>2. c.n \in Nat /\ (\A i \in 0 .. c.n - 1 : c.key[i] \in Int) /\ k \in Int
    BY PageFacts, KeysAreNumbers
  <2>3. \A i \in 1 .. c.n - 1 : c.key[i - 1] < c.key[i]
    BY DEF SlotsInOrder
  <2> QED BY <2>1, <2>2, <2>3, PlaceMeansAbsent DEF KeysOf
<1> QED BY <1>5, <1>6, <1>7 DEF r

(* The step of find_leaf (bpt.c:304) goes to the child whose branch has    *)
(* the key.                                                                *)
THEOREM SearchGoesDown ==
    ASSUME NEW c \in Page, NEW low \in Int, NEW high \in Int, SlotsInOrder(c, low, high),
           NEW k \in KeyValue \ {0}, low <= k, k < high
    PROVE  \E b \in Subtrees(c, low, high) : b[1] = Child(c, k) /\ b[2] <= k /\ k < b[3]
<1> DEFINE r == Search(c, k)
           n == c.n
           i == IF r.hit THEN r.at + 1 ELSE r.at
           B(j) == Branch(c.key, c.off, n, low, high, j)
<1>1. /\ r.hit => r.at \in 0 .. n - 1 /\ c.key[r.at] = k
      /\ ~r.hit => PlaceOf(c.key, n, r.at, k)
  BY SearchIsExact
<1>2. Child(c, k) = c.off[i]
  BY DEF Child
<1> HIDE DEF r
<1>3. /\ n \in Nat /\ k \in Int /\ \A j \in 0 .. n - 1 : c.key[j] \in Int
      /\ \A j \in 1 .. n - 1 : c.key[j - 1] < c.key[j]
  BY PageFacts, KeysAreNumbers DEF SlotsInOrder
<1>4. i \in 0 .. n
  BY <1>1, <1>3 DEF PlaceOf
<1>5. (i = 0 \/ c.key[i - 1] <= k) /\ (i = n \/ k < c.key[i])
  <2>1. CASE r.hit
    <3>1. i = r.at + 1 /\ r.at \in 0 .. n - 1 /\ c.key[r.at] = k /\ r.at = i - 1
      BY <1>1, <1>3, <2>1
    <3>2. c.key[i - 1] = k /\ i \in 1 .. n
      BY <1>3, <3>1
    <3>3. i # n => c.key[i - 1] < c.key[i]
      BY <1>3, <3>2
    <3> QED BY <1>3, <3>2, <3>3
  <2>2. CASE ~r.hit
    <3>1. i = r.at /\ PlaceOf(c.key, n, i, k)
      BY <1>1, <2>2
    <3> QED BY <1>3, <1>4, <3>1 DEF PlaceOf
  <2> QED BY <2>1, <2>2
<1>6. B(i)[1] = c.off[i] /\ B(i)[2] <= k /\ k < B(i)[3]
  BY <1>4, <1>5 DEF Branch
<1>7. B(i) \in Subtrees(c, low, high)
  BY <1>4 DEF Subtrees, Branches
<1> QED BY <1>2, <1>6, <1>7
=============================================================================
