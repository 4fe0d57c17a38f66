----------------------------- MODULE TreeProofs -----------------------------
(***************************************************************************)
(* What the operations of bpt.c do to a whole B+ tree, for trees of every  *)
(* order and height. On a tree that is in order find finds exactly the     *)
(* keys of its leaves, the commands that need no split and no merge keep   *)
(* it in order and change exactly their own key, and each step of a split  *)
(* or a merge keeps the keys and leaves the tree in order but for one page *)
(* that its parent does not know yet, or knows still. The chain of leaves  *)
(* shows all leaves from left to right. What the commands make of these    *)
(* steps is in CommandProofs.tla.                                          *)
(***************************************************************************)
EXTENDS BPlusTree, NodeProofs, FiniteSetTheorems

Image == [1 .. MaxPage -> Page]

(* One step of find_leaf, and the function that FindLeaf is defined by. *)
Below(image, p, k) == IF p = 0 \/ image[p].leaf THEN p ELSE Child(image[p], k)
IsWalk(g, image, top, k) ==
    g = [most \in PageNo |-> IF most = 0 THEN {top}
                             ELSE {Below(image, p, k) : p \in g[most - 1]}]

(* The next level, and the function that Levels is. *)
NextRow(image, row) ==
    UNION {IF image[e[1]].leaf THEN {} ELSE Subtrees(image[e[1]], e[2], e[3]) : e \in row}
IsLevels(g, image, top) ==
    g = [j \in PageNo |-> IF j = 0 THEN {<<top, 0, KeyMod>>} ELSE NextRow(image, g[j - 1])]

(* Pages are counted by numbers from 0 on. *)
LEMMA PageNumbers == 0 .. MaxPage = PageNo /\ MaxPage \in Nat \ {0} /\ PageNo \subseteq Nat
BY NodeAssumption DEF PageNo

(* The walk exists, by induction over the number of steps. *)
LEMMA WalkExists ==
    ASSUME NEW image, NEW top, NEW k
    PROVE  \E g : IsWalk(g, image, top, k)
<1> DEFINE H(row) == {Below(image, p, k) : p \in row}
           Ok(g, d) == g[0] = {top} /\ \A j \in 1 .. d : g[j] = H(g[j - 1])
           S == {d \in PageNo : \E g : Ok(g, d)}
<1> HIDE DEF H
<1>1. 0 \in S
  <2> DEFINE g == [j \in {0} |-> {top}]
  <2>1. g[0] = {top} /\ \A j \in 1 .. 0 : FALSE
    OBVIOUS
  <2> HIDE DEF g
  <2>2. Ok(g, 0)
    BY <2>1
  <2> HIDE DEF Ok
  <2> QED BY <2>2, PageNumbers
<1>2. ASSUME NEW d \in 0 + 1 .. MaxPage, d - 1 \in S PROVE d \in S
  <2>1. PICK g : Ok(g, d - 1)
    BY <1>2
  <2> DEFINE f == [j \in PageNo |-> IF j < d THEN g[j] ELSE H(g[d - 1])]
  <2>2. \A j \in PageNo : f[j] = IF j < d THEN g[j] ELSE H(g[d - 1])
    OBVIOUS
  <2> HIDE DEF f
  <2>3. d \in PageNo /\ 0 \in PageNo /\ \A j \in 1 .. d : j \in PageNo /\ j - 1 \in PageNo
    BY PageNumbers
  <2>4. f[0] = {top}
    BY <2>1, <2>2, <2>3
  <2>5. ASSUME NEW j \in 1 .. d PROVE f[j] = H(f[j - 1])
    <3>1. f[j - 1] = g[j - 1]
      BY <2>2, <2>3
    <3>2. CASE j = d
      BY <2>2, <2>3, <3>1, <3>2
    <3>3. CASE j # d
      <4>1. j \in 1 .. d - 1 /\ j < d
        BY <3>3
      <4> QED BY <2>1, <2>2, <2>3, <3>1, <4>1
    <3> QED BY <3>2, <3>3
  <2>6. Ok(f, d)
    BY <2>4, <2>5
  <2> HIDE DEF Ok
  <2> QED BY <2>3, <2>6
<1>3. MaxPage \in S
  <2> HIDE DEF S
  <2>1. \A d \in 0 .. MaxPage : d \in S
    BY <1>1, <1>2, IntervalInduction, PageNumbers
  <2> QED BY <2>1, PageNumbers
<1>4. PICK g : Ok(g, MaxPage)
  BY <1>3
<1> DEFINE f == [j \in PageNo |-> g[j]]
<1>5. \A j \in PageNo : f[j] = IF j = 0 THEN {top} ELSE H(f[j - 1])
  <2> SUFFICES ASSUME NEW j \in PageNo PROVE g[j] = IF j = 0 THEN {top} ELSE H(f[j - 1])
    OBVIOUS
  <2>1. j # 0 => j \in 1 .. MaxPage /\ j - 1 \in PageNo
    BY PageNumbers
  <2> QED BY <1>4, <2>1
<1>6. f = [j \in PageNo |-> f[j]]
  OBVIOUS
<1> HIDE DEF f
<1>7. f = [j \in PageNo |-> IF j = 0 THEN {top} ELSE H(f[j - 1])]
  BY <1>5, <1>6
<1> QED BY <1>7 DEF IsWalk, H

(* The same of the levels, step by step. *)
LEMMA LevelsExist ==
    ASSUME NEW image, NEW top
    PROVE  \E g : IsLevels(g, image, top)
<1> DEFINE H(row) == NextRow(image, row)
           Ok(g, d) == g[0] = {<<top, 0, KeyMod>>} /\ \A j \in 1 .. d : g[j] = H(g[j - 1])
           S == {d \in PageNo : \E g : Ok(g, d)}
<1> HIDE DEF H
<1>1. 0 \in S
  <2> DEFINE g == [j \in {0} |-> {<<top, 0, KeyMod>>}]
  <2>1. g[0] = {<<top, 0, KeyMod>>} /\ \A j \in 1 .. 0 : FALSE
    OBVIOUS
  <2> HIDE DEF g
  <2>2. Ok(g, 0)
    BY <2>1
  <2> HIDE DEF Ok
  <2> QED BY <2>2, PageNumbers
<1>2. ASSUME NEW d \in 0 + 1 .. MaxPage, d - 1 \in S PROVE d \in S
  <2>1. PICK g : Ok(g, d - 1)
    BY <1>2
  <2> DEFINE f == [j \in PageNo |-> IF j < d THEN g[j] ELSE H(g[d - 1])]
  <2>2. \A j \in PageNo : f[j] = IF j < d THEN g[j] ELSE H(g[d - 1])
    OBVIOUS
  <2> HIDE DEF f
  <2>3. d \in PageNo /\ 0 \in PageNo /\ \A j \in 1 .. d : j \in PageNo /\ j - 1 \in PageNo
    BY PageNumbers
  <2>4. f[0] = {<<top, 0, KeyMod>>}
    BY <2>1, <2>2, <2>3
  <2>5. ASSUME NEW j \in 1 .. d PROVE f[j] = H(f[j - 1])
    <3>1. f[j - 1] = g[j - 1]
      BY <2>2, <2>3
    <3>2. CASE j = d
      BY <2>2, <2>3, <3>1, <3>2
    <3>3. CASE j # d
      <4>1. j \in 1 .. d - 1 /\ j < d
        BY <3>3
      <4> QED BY <2>1, <2>2, <2>3, <3>1, <4>1
    <3> QED BY <3>2, <3>3
  <2>6. Ok(f, d)
    BY <2>4, <2>5
  <2> HIDE DEF Ok
  <2> QED BY <2>3, <2>6
<1>3. MaxPage \in S
  <2> HIDE DEF S
  <2>1. \A d \in 0 .. MaxPage : d \in S
    BY <1>1, <1>2, IntervalInduction, PageNumbers
  <2> QED BY <2>1, PageNumbers
<1>4. PICK g : Ok(g, MaxPage)
  BY <1>3
<1> DEFINE f == [j \in PageNo |-> g[j]]
<1>5. \A j \in PageNo : f[j] = IF j = 0 THEN {<<top, 0, KeyMod>>} ELSE H(f[j - 1])
  <2> SUFFICES ASSUME NEW j \in PageNo PROVE g[j] = IF j = 0 THEN {<<top, 0, KeyMod>>} ELSE H(f[j - 1])
    OBVIOUS
  <2>1. j # 0 => j \in 1 .. MaxPage /\ j - 1 \in PageNo
    BY PageNumbers
  <2> QED BY <1>4, <2>1
<1>6. f = [j \in PageNo |-> f[j]]
  OBVIOUS
<1> HIDE DEF f
<1>7. f = [j \in PageNo |-> IF j = 0 THEN {<<top, 0, KeyMod>>} ELSE H(f[j - 1])]
  BY <1>5, <1>6
<1> QED BY <1>7 DEF IsLevels, H

-----------------------------------------------------------------------------
(* Entry e of a level is for key k. *)
Holds(e, k) == e[2] <= k /\ k < e[3]

(* What Levels and FindLeaf are, slot by slot.                             *)
LEMMA LevelsSteps ==
    ASSUME NEW image, NEW top
    PROVE  LET level == Levels(image, top)
           IN  /\ level[0] = {<<top, 0, KeyMod>>}
               /\ \A j \in 1 .. MaxPage : level[j] = NextRow(image, level[j - 1])
<1> DEFINE level == CHOOSE g : IsLevels(g, image, top)
<1>1. Levels(image, top) = level
  BY DEF Levels, IsLevels, NextRow
<1>2. IsLevels(level, image, top)
  BY LevelsExist
<1> HIDE DEF level
<1>3. level[0] = {<<top, 0, KeyMod>>} /\ \A j \in 1 .. MaxPage : level[j] = NextRow(image, level[j - 1])
  <2>1. 0 \in PageNo /\ \A j \in 1 .. MaxPage : j \in PageNo /\ j # 0
    BY PageNumbers
  <2> QED BY <1>2, <2>1 DEF IsLevels
<1> QED BY <1>1, <1>3

(* find_leaf is a walk from top that has reached leaf when it stays put.   *)
Leads(walk, image, top, k, leaf) ==
    /\ walk[0] = {top}
    /\ \A j \in 1 .. MaxPage : walk[j] = {Below(image, p, k) : p \in walk[j - 1]}
    /\ \A p : walk[MaxPage] = {p} => leaf = p

(* There is one for every image, top and key. *)
LEMMA WalkSteps ==
    ASSUME NEW image, NEW top, NEW k
    PROVE  \E walk : Leads(walk, image, top, k, FindLeaf(image, top, k))
<1> DEFINE walk == CHOOSE g : IsWalk(g, image, top, k)
<1>1. FindLeaf(image, top, k) = CHOOSE p \in walk[MaxPage] : TRUE
  BY DEF FindLeaf, IsWalk, Below
<1>2. IsWalk(walk, image, top, k)
  BY WalkExists
<1> HIDE DEF walk
<1>3. walk[0] = {top} /\ \A j \in 1 .. MaxPage : walk[j] = {Below(image, p, k) : p \in walk[j - 1]}
  <2>1. 0 \in PageNo /\ \A j \in 1 .. MaxPage : j \in PageNo /\ j # 0
    BY PageNumbers
  <2> QED BY <1>2, <2>1 DEF IsWalk
<1>4. \A p : walk[MaxPage] = {p} => FindLeaf(image, top, k) = p
  BY <1>1
<1> QED BY <1>3, <1>4 DEF Leads

-----------------------------------------------------------------------------
(* Separators of a page and of the key space. *)
Bound == 0 .. KeyMod
Entry == (1 .. MaxPage) \X Bound \X Bound

(* The branches of a page lie between the separators above it, and no key  *)
(* belongs to two of them.                                                 *)
LEMMA BranchFacts ==
    ASSUME NEW c \in Page, ~c.leaf, c.n < InternalOrder,
           NEW low \in Bound, NEW high \in Bound, SlotsInOrder(c, low, high)
    PROVE  /\ \A b \in Subtrees(c, low, high) :
                  b \in PageNo \X Bound \X Bound /\ low <= b[2] /\ b[3] <= high
           /\ \A b1, b2 \in Subtrees(c, low, high) : \A k \in Int :
                  Holds(b1, k) /\ Holds(b2, k) => b1 = b2
<1> DEFINE n == c.n
           B(i) == Branch(c.key, c.off, n, low, high, i)
<1>1. /\ n \in Nat /\ Array(c.off, OffSlot, PageNo) /\ 0 .. n \subseteq OffSlot
      /\ \A j \in 0 .. n - 1 : c.key[j] \in Bound /\ c.key[j] \in Int
      /\ low \in Int /\ high \in Int
  BY PageFacts, OffsetFacts, NodeAssumption DEF Bound, KeyValue
<1>2. /\ \A j \in 0 .. n - 1 : low <= c.key[j] /\ c.key[j] < high
      /\ \A j, l \in 0 .. n - 1 : j < l => c.key[j] < c.key[l]
  <2>1. InOrder(c.key, n, low, high)
    BY <1>1, PageFacts
  <2> QED BY <1>1, <2>1, Increasing DEF InOrder
<1>3. Subtrees(c, low, high) = {B(i) : i \in 0 .. n}
  BY DEF Subtrees, Branches
<1>4. ASSUME NEW i \in 0 .. n
      PROVE  B(i) \in PageNo \X Bound \X Bound /\ low <= B(i)[2] /\ B(i)[3] <= high
  <2>1. c.off[i] \in PageNo
    BY <1>1 DEF Array
  <2>2. i # 0 => i - 1 \in 0 .. n - 1
    BY <1>1
  <2>3. i # n => i \in 0 .. n - 1
    BY <1>1
  <2> QED BY <1>1, <1>2, <2>1, <2>2, <2>3 DEF Branch
<1>5. ASSUME NEW i \in 0 .. n, NEW j \in 0 .. n, NEW k \in Int, Holds(B(i), k), Holds(B(j), k)
      PROVE  ~(i < j)
  <2> SUFFICES ASSUME i < j PROVE FALSE
    OBVIOUS
  <2>1. i # n /\ j # 0 /\ i \in 0 .. n - 1 /\ j - 1 \in 0 .. n - 1 /\ (i = j - 1 \/ i < j - 1)
    BY <1>1
  <2>2. k < c.key[i] /\ c.key[j - 1] <= k
    BY <1>5, <2>1 DEF Holds, Branch
  <2>3. c.key[i] <= c.key[j - 1]
    BY <1>1, <1>2, <2>1
  <2> QED BY <1>1, <2>1, <2>2, <2>3
<1>6. ASSUME NEW i \in 0 .. n, NEW j \in 0 .. n, NEW k \in Int, Holds(B(i), k), Holds(B(j), k)
      PROVE  B(i) = B(j)
  <2>1. ~(i < j) /\ ~(j < i)
    BY <1>5, <1>6
  <2>2. i = j
    BY <1>1, <2>1
  <2> QED BY <2>2
<1> HIDE DEF B
<1> QED BY <1>3, <1>4, <1>6

(* What InOrderBelow says of the levels one by one. *)
LEMMA EntryFacts ==
    ASSUME NEW image \in Image, NEW top \in 1 .. MaxPage, InOrderBelow(image, top),
           NEW level, level = Levels(image, top)
    PROVE  /\ level[0] = {<<top, 0, KeyMod>>} /\ level[MaxPage] = {}
           /\ \A j \in PageNo : \A e \in level[j] :
                  /\ e \in Entry /\ image[e[1]] \in Page
                  /\ image[e[1]].n > 0 \/ e[1] = top
                  /\ image[e[1]].n < IF image[e[1]].leaf THEN LeafOrder ELSE InternalOrder
                  /\ SlotsInOrder(image[e[1]], e[2], e[3])
                  /\ \A f \in level[j] : image[f[1]].leaf = image[e[1]].leaf
                  /\ ~image[e[1]].leaf => \A b \in Subtrees(image[e[1]], e[2], e[3]) :
                         /\ b \in Entry /\ image[b[1]].parent = e[1]
                         /\ j + 1 \in PageNo => b \in level[j + 1]
           /\ \A j \in 1 .. MaxPage : \A b \in level[j] :
                  \E e \in level[j - 1] : /\ ~image[e[1]].leaf
                                           /\ b \in Subtrees(image[e[1]], e[2], e[3])
<1>1. level[0] = {<<top, 0, KeyMod>>} /\ \A j \in 1 .. MaxPage : level[j] = NextRow(image, level[j - 1])
  BY LevelsSteps
<1>2. level[MaxPage] = {} /\ \A j \in PageNo : LevelInOrder(image, top, level[j])
  BY DEF InOrderBelow
<1>3. ASSUME NEW j \in PageNo, NEW e \in level[j]
      PROVE  /\ image[e[1]].n > 0 \/ e[1] = top
             /\ image[e[1]].n < IF image[e[1]].leaf THEN LeafOrder ELSE InternalOrder
             /\ SlotsInOrder(image[e[1]], e[2], e[3])
             /\ \A f \in level[j] : image[f[1]].leaf = image[e[1]].leaf
             /\ ~image[e[1]].leaf => \A b \in Subtrees(image[e[1]], e[2], e[3]) :
                    b[1] # 0 /\ image[b[1]].parent = e[1]
  BY <1>2, <1>3 DEF LevelInOrder
<1>4. ASSUME NEW j \in PageNo, NEW e \in level[j], e \in Entry, ~image[e[1]].leaf,
             NEW b \in Subtrees(image[e[1]], e[2], e[3])
      PROVE  b \in Entry
  <2> DEFINE c == image[e[1]]
  <2>1. c \in Page /\ e[2] \in Bound /\ e[3] \in Bound
    BY <1>4 DEF Entry, Image
  <2>2. c.n < InternalOrder /\ SlotsInOrder(c, e[2], e[3]) /\ b[1] # 0
    BY <1>3, <1>4
  <2> HIDE DEF c
  <2>3. b \in PageNo \X Bound \X Bound
    BY <1>4, <2>1, <2>2, BranchFacts DEF c
  <2> QED BY <2>2, <2>3 DEF Entry, PageNo
<1>5. \A j \in 1 .. MaxPage : \A b \in level[j] :
          \E e \in level[j - 1] : ~image[e[1]].leaf /\ b \in Subtrees(image[e[1]], e[2], e[3])
  BY <1>1 DEF NextRow
<1> DEFINE S == {j \in PageNo : level[j] \subseteq Entry}
<1>6. \A j \in PageNo : level[j] \subseteq Entry
  <2>1. 0 \in S
    BY <1>1, PageNumbers, NodeAssumption DEF Entry, Bound
  <2>2. ASSUME NEW j \in 0 + 1 .. MaxPage, j - 1 \in S PROVE j \in S
    <3>1. j \in PageNo /\ j - 1 \in PageNo /\ j \in 1 .. MaxPage
      BY PageNumbers
    <3>2. ASSUME NEW b \in level[j] PROVE b \in Entry
      <4>1. PICK e \in level[j - 1] : ~image[e[1]].leaf /\ b \in Subtrees(image[e[1]], e[2], e[3])
        BY <1>5, <3>1
      <4> QED BY <1>4, <2>2, <3>1, <4>1
    <3> QED BY <3>1, <3>2
  <2> HIDE DEF S
  <2>3. \A j \in 0 .. MaxPage : j \in S
    BY <2>1, <2>2, IntervalInduction, PageNumbers
  <2> QED BY <2>3, PageNumbers DEF S
<1>7. ASSUME NEW j \in PageNo, NEW e \in level[j], ~image[e[1]].leaf,
             NEW b \in Subtrees(image[e[1]], e[2], e[3]), j + 1 \in PageNo
      PROVE  b \in level[j + 1]
  <2>1. j + 1 \in 1 .. MaxPage /\ (j + 1) - 1 = j
    BY <1>7, PageNumbers
  <2>2. level[j + 1] = NextRow(image, level[j])
    BY <1>1, <2>1
  <2> QED BY <1>7, <2>2 DEF NextRow
<1>8. \A j \in PageNo : \A e \in level[j] : e \in Entry /\ image[e[1]] \in Page
  BY <1>6 DEF Entry, Image
<1> QED BY <1>1, <1>2, <1>3, <1>4, <1>5, <1>7, <1>8

(* The pages with leaves, as entries of their levels. *)
Leaves(image, top) ==
    {e \in UNION {Levels(image, top)[j] : j \in PageNo} : image[e[1]].leaf}

(* There is nothing below a level of leaves.                               *)
LEMMA LeavesAreLast ==
    ASSUME NEW image \in Image, NEW top \in 1 .. MaxPage, InOrderBelow(image, top),
           NEW level, level = Levels(image, top),
           NEW i \in PageNo, NEW e \in level[i], image[e[1]].leaf
    PROVE  \A j \in i + 1 .. MaxPage : level[j] = {}
<1> DEFINE S == {j \in PageNo : level[j] = {}}
<1>0. i \in Nat /\ MaxPage \in Nat /\ \A j \in i + 1 .. MaxPage :
          j \in PageNo /\ j - 1 \in PageNo /\ j \in 1 .. MaxPage
  BY PageNumbers
<1>1. \A j \in 1 .. MaxPage : \A b \in level[j] : \E f \in level[j - 1] : ~image[f[1]].leaf
  BY EntryFacts
<1>2. i + 1 \in PageNo => i + 1 \in S
  <2>1. \A f \in level[i] : image[f[1]].leaf
    BY EntryFacts
  <2>2. i + 1 \in PageNo => i + 1 \in 1 .. MaxPage /\ (i + 1) - 1 = i
    BY <1>0, PageNumbers
  <2> QED BY <1>1, <2>1, <2>2
<1>3. ASSUME NEW j \in (i + 1) + 1 .. MaxPage, j - 1 \in S PROVE j \in S
  <2>1. j \in PageNo /\ j \in 1 .. MaxPage
    BY <1>0
  <2> QED BY <1>1, <1>3, <2>1
<1>4. ASSUME NEW j \in i + 1 .. MaxPage PROVE j \in S
  <2>1. i + 1 \in PageNo
    BY <1>0, PageNumbers
  <2>2. i + 1 \in Nat /\ i + 1 \in S
    BY <1>0, <1>2, <2>1
  <2> HIDE DEF S
  <2> QED BY <1>0, <1>3, <2>2, IntervalInduction
<1> QED BY <1>4

-----------------------------------------------------------------------------
(* The same tree as rows 0 .. h of entries, of which the last are leaves:  *)
(* a form in which a row can be put together without recursion.            *)
EntryInOrder(image, top, e) ==
    /\ e \in Entry
    /\ image[e[1]].n > 0 \/ e[1] = top
    /\ image[e[1]].n < IF image[e[1]].leaf THEN LeafOrder ELSE InternalOrder
    /\ SlotsInOrder(image[e[1]], e[2], e[3])
Under(image, e) == Subtrees(image[e[1]], e[2], e[3])
UnderRow(image, row) == UNION {Under(image, e) : e \in row}
KnowParents(image, row) == \A e \in row : \A b \in Under(image, e) : image[b[1]].parent = e[1]

IsTree(image, top, rows, h) ==
    /\ h \in 0 .. MaxPage - 1
    /\ image[top].parent = 0
    /\ rows[0] = {<<top, 0, KeyMod>>}
    /\ \A j \in 0 .. h : \A e \in rows[j] : EntryInOrder(image, top, e) /\ (image[e[1]].leaf <=> j = h)
    /\ \A j \in 1 .. h : /\ rows[j] = UnderRow(image, rows[j - 1])
                         /\ KnowParents(image, rows[j - 1])

(* An internal page has a child. *)
LEMMA SomethingUnder ==
    ASSUME NEW image \in Image, NEW e \in Entry
    PROVE  Under(image, e) # {}
<1>1. image[e[1]] \in Page
  BY DEF Image, Entry
<1>2. 0 \in 0 .. image[e[1]].n
  BY <1>1, PageFacts
<1> QED BY <1>2 DEF Under, Subtrees, Branches

(* A tree that is in order has such rows: its levels, down to the last one *)
(* that is not empty.                                                      *)
LEMMA RowsExist ==
    ASSUME NEW image \in Image, NEW top \in 1 .. MaxPage, InOrderBelow(image, top)
    PROVE  \E rows, h : IsTree(image, top, rows, h) /\ Leaves(image, top) = rows[h]
<1> DEFINE level == Levels(image, top)
           Empty == {j \in PageNo : level[j] = {}}
<1>1. level = Levels(image, top)
  OBVIOUS
<1> HIDE DEF level
<1>2. /\ level[0] = {<<top, 0, KeyMod>>} /\ level[MaxPage] = {}
      /\ \A j \in 1 .. MaxPage : level[j] = NextRow(image, level[j - 1])
  BY <1>1, EntryFacts, LevelsSteps
<1>3. PICK least \in Empty : \A m \in Empty : least <= m
  <2>1. Empty \subseteq Nat /\ MaxPage \in Empty
    BY <1>2, PageNumbers
  <2> HIDE DEF Empty
  <2> QED BY <2>1, LeastNumber
<1> DEFINE h == least - 1
<1>4. least \in 1 .. MaxPage /\ h \in 0 .. MaxPage - 1 /\ h + 1 = least /\ level[h + 1] = {}
  <2>1. least \in PageNo /\ level[least] = {} /\ least # 0
    BY <1>2, <1>3
  <2>2. least \in 1 .. MaxPage /\ least \in Nat /\ MaxPage \in Nat
    BY <2>1, PageNumbers
  <2>3. h + 1 = least
    BY <2>2
  <2> QED BY <2>1, <2>2, <2>3
<1>5. \A j \in 0 .. h : j \in PageNo /\ level[j] # {}
  BY <1>3, <1>4, PageNumbers
<1>6. ASSUME NEW j \in PageNo, NEW e \in level[j]
      PROVE  /\ EntryInOrder(image, top, e)
             /\ \A f \in level[j] : image[f[1]].leaf = image[e[1]].leaf
             /\ ~image[e[1]].leaf => /\ \A b \in Under(image, e) : image[b[1]].parent = e[1]
                                     /\ j + 1 \in PageNo => Under(image, e) \subseteq level[j + 1]
  BY <1>1, <1>6, EntryFacts DEF EntryInOrder, Under
<1>7. \A e \in level[h] : image[e[1]].leaf
  <2> SUFFICES ASSUME NEW e \in level[h], ~image[e[1]].leaf PROVE FALSE
    OBVIOUS
  <2>1. h \in PageNo /\ h + 1 \in PageNo
    BY <1>4, PageNumbers
  <2>2. e \in Entry /\ Under(image, e) \subseteq level[h + 1]
    BY <1>6, <2>1 DEF EntryInOrder
  <2> QED BY <1>4, <2>2, SomethingUnder
<1>8. ASSUME NEW j \in 1 .. h
      PROVE  /\ \A e \in level[j - 1] : ~image[e[1]].leaf
             /\ level[j] = UnderRow(image, level[j - 1])
             /\ KnowParents(image, level[j - 1])
  <2>1. j \in 1 .. MaxPage /\ j \in 0 .. h /\ j - 1 \in PageNo
    BY <1>4, PageNumbers
  <2>2. PICK b : b \in level[j]
    BY <1>5, <2>1
  <2>3. PICK e \in level[j - 1] : ~image[e[1]].leaf
    BY <1>1, <2>1, <2>2, EntryFacts
  <2>4. \A f \in level[j - 1] : ~image[f[1]].leaf
    BY <1>6, <2>1, <2>3
  <2>5. level[j] = UnderRow(image, level[j - 1])
    BY <1>2, <2>1, <2>4 DEF NextRow, UnderRow, Under
  <2>6. KnowParents(image, level[j - 1])
    BY <1>6, <2>1, <2>4 DEF KnowParents
  <2> QED BY <2>4, <2>5, <2>6
<1>9. \A j \in 0 .. h : \A e \in level[j] : EntryInOrder(image, top, e) /\ (image[e[1]].leaf <=> j = h)
  <2> SUFFICES ASSUME NEW j \in 0 .. h, NEW e \in level[j]
               PROVE  EntryInOrder(image, top, e) /\ (image[e[1]].leaf <=> j = h)
    OBVIOUS
  <2>1. j # h => j + 1 \in 1 .. h /\ (j + 1) - 1 = j
    BY <1>4
  <2>2. image[e[1]].leaf <=> j = h
    BY <1>7, <1>8, <2>1
  <2> QED BY <1>5, <1>6, <2>2
<1>10. IsTree(image, top, level, h)
  <2>1. image[top].parent = 0
    BY DEF InOrderBelow
  <2> QED BY <1>2, <1>4, <1>8, <1>9, <2>1 DEF IsTree
<1>11. Leaves(image, top) = level[h]
  <2>1. \A j \in PageNo : \A e \in level[j] : image[e[1]].leaf => j = h
    <3> SUFFICES ASSUME NEW j \in PageNo, NEW e \in level[j], image[e[1]].leaf PROVE j = h
      OBVIOUS
    <3>1. PICK f : f \in level[h]
      BY <1>4, <1>5
    <3>2. h \in PageNo /\ image[f[1]].leaf
      BY <1>4, <1>5, <1>7, <3>1
    <3>3. (\A m \in j + 1 .. MaxPage : level[m] = {}) /\ \A m \in h + 1 .. MaxPage : level[m] = {}
      BY <1>1, <3>1, <3>2, LeavesAreLast
    <3>4. ~(j < h) /\ ~(h < j)
      BY <3>1, <3>2, <3>3, PageNumbers
    <3> QED BY <3>2, <3>4, PageNumbers
  <2>2. h \in PageNo
    BY <1>4, <1>5
  <2> QED BY <1>1, <1>7, <2>1, <2>2 DEF Leaves
<1> QED BY <1>10, <1>11

(* And a tree that has such rows is in order.                              *)
LEMMA RowsAreEnough ==
    ASSUME NEW image \in Image, NEW top \in 1 .. MaxPage, NEW rows, NEW h, IsTree(image, top, rows, h)
    PROVE  InOrderBelow(image, top) /\ Leaves(image, top) = rows[h]
<1> DEFINE level == Levels(image, top)
<1>1. /\ level[0] = {<<top, 0, KeyMod>>}
      /\ \A j \in 1 .. MaxPage : level[j] = NextRow(image, level[j - 1])
  BY LevelsSteps
<1>l. level = Levels(image, top)
  OBVIOUS
<1> HIDE DEF level
<1>2. /\ h \in 0 .. MaxPage - 1 /\ h \in Nat /\ MaxPage \in Nat /\ image[top].parent = 0
      /\ rows[0] = {<<top, 0, KeyMod>>}
      /\ \A j \in 0 .. h : \A e \in rows[j] :
             EntryInOrder(image, top, e) /\ (image[e[1]].leaf <=> j = h)
      /\ \A j \in 1 .. h : rows[j] = UnderRow(image, rows[j - 1]) /\ KnowParents(image, rows[j - 1])
  BY PageNumbers DEF IsTree
<1> DEFINE S == {j \in 0 .. h : level[j] = rows[j]}
           E == {j \in PageNo : level[j] = {}}
<1>3. \A j \in 0 .. h : level[j] = rows[j]
  <2>1. 0 \in S
    <3>1. 0 \in 0 .. h
      BY <1>2
    <3> QED BY <1>1, <1>2, <3>1
  <2>2. ASSUME NEW j \in 0 + 1 .. h, j - 1 \in S PROVE j \in S
    <3>1. j \in 1 .. h /\ j \in 1 .. MaxPage /\ j - 1 \in 0 .. h /\ j - 1 # h
      BY <1>2
    <3>2. \A e \in rows[j - 1] : ~image[e[1]].leaf
      BY <1>2, <3>1
    <3>3. NextRow(image, rows[j - 1]) = UnderRow(image, rows[j - 1])
      BY <3>2 DEF NextRow, UnderRow, Under
    <3> QED BY <1>1, <1>2, <2>2, <3>1, <3>3
  <2> HIDE DEF S
  <2>3. h \in Nat /\ 0 \in Nat
    BY <1>2
  <2>4. \A j \in 0 .. h : j \in S
    BY <2>1, <2>2, <2>3, IntervalInduction
  <2> QED BY <2>4 DEF S
<1>4. \A j \in h + 1 .. MaxPage : level[j] = {}
  <2>1. h + 1 \in E
    <3>1. h + 1 \in 1 .. MaxPage /\ (h + 1) - 1 = h /\ h + 1 \in PageNo
      BY <1>2, PageNumbers
    <3>2. level[h + 1] = NextRow(image, rows[h])
      BY <1>1, <1>2, <1>3, <3>1
    <3>3. \A e \in rows[h] : image[e[1]].leaf
      BY <1>2
    <3> QED BY <3>1, <3>2, <3>3 DEF NextRow
  <2>2. ASSUME NEW j \in (h + 1) + 1 .. MaxPage, j - 1 \in E PROVE j \in E
    <3>1. j \in 1 .. MaxPage /\ j \in PageNo
      BY <1>2, PageNumbers
    <3> QED BY <1>1, <2>2, <3>1 DEF NextRow
  <2> HIDE DEF E
  <2>3. \A j \in h + 1 .. MaxPage : j \in E
    BY <1>2, <2>1, <2>2, IntervalInduction, SMTT(30)
  <2> QED BY <2>3 DEF E
<1>5. ASSUME NEW j \in PageNo PROVE LevelInOrder(image, top, level[j])
  <2>1. CASE j \in h + 1 .. MaxPage
    BY <1>4, <2>1 DEF LevelInOrder
  <2>2. CASE j \notin h + 1 .. MaxPage
    <3>1. j \in 0 .. h /\ level[j] = rows[j]
      BY <1>2, <1>3, <2>2, PageNumbers
    <3>2. ASSUME NEW e \in rows[j], ~image[e[1]].leaf, NEW b \in Under(image, e)
          PROVE  b[1] # 0 /\ image[b[1]].parent = e[1]
      <4>1. j + 1 \in 1 .. h /\ (j + 1) - 1 = j /\ j + 1 \in 0 .. h
        BY <1>2, <3>1, <3>2
      <4>2. rows[j + 1] = UnderRow(image, rows[j]) /\ KnowParents(image, rows[j])
        BY <1>2, <4>1
      <4>3. b \in rows[j + 1] /\ image[b[1]].parent = e[1]
        BY <3>2, <4>2 DEF UnderRow, KnowParents
      <4>4. b \in Entry
        BY <1>2, <4>1, <4>3 DEF EntryInOrder
      <4> QED BY <4>3, <4>4 DEF Entry
    <3>3. \A e \in rows[j] : /\ image[e[1]].n > 0 \/ e[1] = top
                             /\ image[e[1]].n < IF image[e[1]].leaf THEN LeafOrder ELSE InternalOrder
                             /\ SlotsInOrder(image[e[1]], e[2], e[3])
      BY <1>2, <3>1 DEF EntryInOrder
    <3>4. \A e, f \in rows[j] : image[f[1]].leaf = image[e[1]].leaf
      <4> SUFFICES ASSUME NEW e \in rows[j], NEW f \in rows[j] PROVE image[f[1]].leaf = image[e[1]].leaf
        OBVIOUS
      <4>1. (image[e[1]].leaf <=> j = h) /\ (image[f[1]].leaf <=> j = h) /\ e \in Entry /\ f \in Entry
        BY <1>2, <3>1 DEF EntryInOrder
      <4>2. image[e[1]].leaf \in BOOLEAN /\ image[f[1]].leaf \in BOOLEAN
        BY <4>1 DEF Entry, Image, Page
      <4> QED BY <4>1, <4>2
    <3> QED BY <3>1, <3>2, <3>3, <3>4 DEF LevelInOrder, Under
  <2> QED BY <2>1, <2>2
<1>6. InOrderBelow(image, top)
  <2>1. MaxPage \in h + 1 .. MaxPage
    BY <1>2
  <2> QED BY <1>l, <1>2, <1>4, <1>5, <2>1 DEF InOrderBelow
<1>7. Leaves(image, top) = rows[h]
  <2>1. \A j \in PageNo : \A e \in level[j] : image[e[1]].leaf => j = h
    <3> SUFFICES ASSUME NEW j \in PageNo, NEW e \in level[j], image[e[1]].leaf PROVE j = h
      OBVIOUS
    <3>1. j \in 0 .. h
      BY <1>2, <1>4, PageNumbers
    <3> QED BY <1>2, <1>3, <3>1
  <2>2. h \in PageNo /\ h \in 0 .. h /\ level[h] = rows[h] /\ \A e \in level[h] : image[e[1]].leaf
    BY <1>2, <1>3, PageNumbers
  <2> QED BY <1>l, <2>1, <2>2 DEF Leaves
<1> QED BY <1>6, <1>7

(* A row's entries come from the row above. *)
LEMMA FromAbove ==
    ASSUME NEW image \in Image, NEW top \in 1 .. MaxPage, NEW rows, NEW h, IsTree(image, top, rows, h),
           NEW i \in 1 .. h, NEW e \in rows[i]
    PROVE  \E q \in rows[i - 1] :
              /\ e \in Under(image, q) /\ image[e[1]].parent = q[1]
              /\ q \in Entry /\ e \in Entry /\ q[1] # 0
              /\ image[q[1]] \in Page /\ ~image[q[1]].leaf /\ image[q[1]].n < InternalOrder
              /\ SlotsInOrder(image[q[1]], q[2], q[3])
<1>1. /\ h \in Nat /\ i \in 0 .. h /\ i - 1 \in 0 .. h /\ i - 1 # h
      /\ rows[i] = UnderRow(image, rows[i - 1]) /\ KnowParents(image, rows[i - 1])
      /\ e \in Entry
      /\ \A q \in rows[i - 1] : EntryInOrder(image, top, q) /\ ~image[q[1]].leaf
  BY PageNumbers DEF IsTree, EntryInOrder
<1>2. PICK q \in rows[i - 1] : e \in Under(image, q)
  BY <1>1 DEF UnderRow
<1>3. image[e[1]].parent = q[1]
  BY <1>1, <1>2 DEF KnowParents
<1>4. q \in Entry /\ ~image[q[1]].leaf /\ image[q[1]].n < InternalOrder /\ SlotsInOrder(image[q[1]], q[2], q[3])
  BY <1>1 DEF EntryInOrder
<1>5. q[1] # 0 /\ image[q[1]] \in Page
  BY <1>4 DEF Entry, Image
<1> QED BY <1>1, <1>2, <1>3, <1>4, <1>5

(* In one row a key belongs to one page. *)
LEMMA OneEntry ==
    ASSUME NEW image \in Image, NEW top \in 1 .. MaxPage, NEW rows, NEW h, IsTree(image, top, rows, h),
           NEW k \in Int
    PROVE  \A j \in 0 .. h : \A e, f \in rows[j] : Holds(e, k) /\ Holds(f, k) => e = f
<1> DEFINE S == {j \in 0 .. h : \A e, f \in rows[j] : Holds(e, k) /\ Holds(f, k) => e = f}
<1>0. h \in Nat /\ rows[0] = {<<top, 0, KeyMod>>}
  BY PageNumbers DEF IsTree
<1>1. 0 \in S
  BY <1>0
<1>2. ASSUME NEW j \in 0 + 1 .. h, j - 1 \in S PROVE j \in S
  <2>1. j \in 1 .. h
    BY <1>0
  <2>2. ASSUME NEW b1 \in rows[j], NEW b2 \in rows[j], Holds(b1, k), Holds(b2, k) PROVE b1 = b2
    <3> DEFINE From(b, q) ==
                  /\ b \in Under(image, q) /\ q \in Entry /\ b \in Entry
                  /\ image[q[1]] \in Page /\ ~image[q[1]].leaf /\ image[q[1]].n < InternalOrder
                  /\ SlotsInOrder(image[q[1]], q[2], q[3])
    <3>1. ASSUME NEW b, NEW q, From(b, q), Holds(b, k) PROVE Holds(q, k)
      <4>1. /\ q[2] <= b[2] /\ b[3] <= q[3] /\ q[2] \in Bound /\ q[3] \in Bound
            /\ b[2] \in Bound /\ b[3] \in Bound
        BY <3>1, BranchFacts DEF Entry, Under
      <4> QED BY <3>1, <4>1, NodeAssumption DEF Holds, Bound
    <3>2. PICK q \in rows[j - 1] : From(b1, q)
      BY <2>1, FromAbove
    <3>3. PICK r \in rows[j - 1] : From(b2, r)
      BY <2>1, FromAbove
    <3>4. q = r
      <4> HIDE DEF From
      <4>1. Holds(q, k) /\ Holds(r, k)
        BY <2>2, <3>1, <3>2, <3>3
      <4> QED BY <1>2, <4>1
    <3>5. /\ b1 \in Subtrees(image[q[1]], q[2], q[3]) /\ b2 \in Subtrees(image[q[1]], q[2], q[3])
          /\ image[q[1]] \in Page /\ ~image[q[1]].leaf /\ image[q[1]].n < InternalOrder
          /\ SlotsInOrder(image[q[1]], q[2], q[3]) /\ q[2] \in Bound /\ q[3] \in Bound
      BY <3>2, <3>3, <3>4 DEF Under, Entry
    <3> QED BY <2>2, <3>5, BranchFacts
  <2> QED BY <2>1, <2>2
<1> HIDE DEF S
<1>3. \A j \in 0 .. h : j \in S
  BY <1>0, <1>1, <1>2, IntervalInduction
<1> QED BY <1>3 DEF S

(* All leaves are on one level, and a key belongs to one of them. *)
LEMMA OneLeaf ==
    ASSUME NEW image \in Image, NEW top \in 1 .. MaxPage, InOrderBelow(image, top), NEW k \in Int,
           NEW e \in Leaves(image, top), NEW f \in Leaves(image, top), Holds(e, k), Holds(f, k)
    PROVE  e = f
<1>1. PICK rows, h : IsTree(image, top, rows, h) /\ Leaves(image, top) = rows[h]
  BY RowsExist
<1>2. h \in 0 .. h
  BY <1>1, PageNumbers DEF IsTree
<1> QED BY <1>1, <1>2, OneEntry

(* Every page is in one place of the tree: the parents tell on which       *)
(* level, and its keys tell where on the level.                            *)
Once(rows, h) == \A i, j \in 0 .. h : \A e \in rows[i], f \in rows[j] : e[1] = f[1] => i = j /\ e = f

(* No page is in two places of a tree that is in order. *)
LEMMA OnePlace ==
    ASSUME NEW image \in Image, NEW top \in 1 .. MaxPage, NEW rows, NEW h, IsTree(image, top, rows, h)
    PROVE  Once(rows, h)
<1> DEFINE S == {i \in 0 .. h : \A j \in i + 1 .. h : \A e \in rows[i], f \in rows[j] : e[1] # f[1]}
<1>1. /\ h \in Nat /\ rows[0] = {<<top, 0, KeyMod>>} /\ image[top].parent = 0
      /\ \A i \in 0 .. h : \A e \in rows[i] : EntryInOrder(image, top, e)
  BY PageNumbers DEF IsTree
<1>2. \A i \in 1 .. h : \A e \in rows[i] : \E q \in rows[i - 1] : image[e[1]].parent = q[1] /\ q[1] # 0
  BY FromAbove
<1>3. \A i \in 0 .. h : i \in S
  <2>1. 0 \in S
    BY <1>1, <1>2
  <2>2. ASSUME NEW i \in 0 + 1 .. h, i - 1 \in S PROVE i \in S
    <3>1. i \in 1 .. h /\ i \in 0 .. h
      BY <1>1
    <3>2. ASSUME NEW j \in i + 1 .. h, NEW e \in rows[i], NEW f \in rows[j] PROVE e[1] # f[1]
      <4>1. j \in 1 .. h /\ j - 1 \in (i - 1) + 1 .. h
        BY <1>1, <3>1
      <4>2. PICK q \in rows[i - 1] : image[e[1]].parent = q[1]
        BY <1>2, <3>1
      <4>3. PICK r \in rows[j - 1] : image[f[1]].parent = r[1]
        BY <1>2, <4>1
      <4>4. q[1] # r[1]
        BY <2>2, <4>1
      <4> QED BY <4>2, <4>3, <4>4
    <3> QED BY <3>1, <3>2
  <2> HIDE DEF S
  <2> QED BY <1>1, <2>1, <2>2, IntervalInduction
<1>4. ASSUME NEW i \in 0 .. h, NEW j \in 0 .. h, NEW e \in rows[i], NEW f \in rows[j], e[1] = f[1]
      PROVE  i = j
  <2>1. ~(i < j) /\ ~(j < i)
    <3>1. i < j => j \in i + 1 .. h
      BY <1>1
    <3>2. j < i => i \in j + 1 .. h
      BY <1>1
    <3> QED BY <1>3, <1>4, <3>1, <3>2
  <2> QED BY <1>1, <2>1
<1>5. ASSUME NEW i \in 0 .. h, NEW e \in rows[i], NEW f \in rows[i], e[1] = f[1]
      PROVE  e = f
  <2>1. CASE i = 0
    BY <1>1, <2>1
  <2>2. CASE i # 0
    <3> DEFINE c == image[e[1]]
    <3>1. e[1] # top
      <4> DEFINE t == <<top, 0, KeyMod>>
      <4>1. t \in rows[0] /\ t[1] = top /\ 0 \in 0 .. h
        BY <1>1
      <4> HIDE DEF t
      <4> QED BY <1>4, <2>2, <4>1
    <3>2. /\ c \in Page /\ c.n > 0 /\ SlotsInOrder(c, e[2], e[3]) /\ SlotsInOrder(c, f[2], f[3])
      BY <1>1, <1>5, <3>1 DEF EntryInOrder, Entry, Image
    <3> HIDE DEF c
    <3>3. c.n \in Nat /\ 0 \in 0 .. c.n - 1 /\ c.key[0] \in Int
      BY <3>2, PageFacts
    <3>4. Holds(e, c.key[0]) /\ Holds(f, c.key[0])
      BY <3>2, <3>3 DEF SlotsInOrder, Holds
    <3> QED BY <3>3, <3>4, OneEntry
  <2> QED BY <2>1, <2>2
<1> QED BY <1>4, <1>5 DEF Once

-----------------------------------------------------------------------------
(* find_leaf (bpt.c:304) ends on the leaf its key belongs to.              *)
THEOREM FindLeafIsRight ==
    ASSUME NEW image \in Image, NEW top \in 1 .. MaxPage, InOrderBelow(image, top),
           NEW k \in KeyValue \ {0}
    PROVE  \E e \in Leaves(image, top) : Holds(e, k) /\ e[1] = FindLeaf(image, top, k)
<1>w. PICK walk : Leads(walk, image, top, k, FindLeaf(image, top, k))
  BY WalkSteps, Zenon
<1>1. /\ walk[0] = {top}
      /\ \A j \in 1 .. MaxPage : walk[j] = {Below(image, p, k) : p \in walk[j - 1]}
      /\ \A p : walk[MaxPage] = {p} => FindLeaf(image, top, k) = p
  BY <1>w DEF Leads
<1> DEFINE level == Levels(image, top)
<1> DEFINE At(i, j, e) == Holds(e, k) /\ walk[j] = {e[1]} /\ (i # j => image[e[1]].leaf)
           S == {j \in PageNo : \E i \in 0 .. j : \E e \in level[i] : At(i, j, e)}
<1>2. k \in Int /\ 0 <= k /\ k < KeyMod
  BY NodeAssumption DEF KeyValue
<1> HIDE DEF level
<1>l. level = Levels(image, top)
  BY DEF level
<1>3. 0 \in S
  <2>1. level[0] = {<<top, 0, KeyMod>>}
    BY <1>l, EntryFacts
  <2>2. At(0, 0, <<top, 0, KeyMod>>)
    BY <1>1, <1>2 DEF Holds
  <2> HIDE DEF At
  <2> QED BY <2>1, <2>2, PageNumbers
<1>4. ASSUME NEW j \in 0 + 1 .. MaxPage, j - 1 \in S PROVE j \in S
  <2>1. j \in PageNo /\ j - 1 \in PageNo /\ j \in 1 .. MaxPage /\ (j - 1) + 1 = j /\ j \in 0 .. j
    BY PageNumbers
  <2>2. PICK i \in 0 .. j - 1 : \E e \in level[i] : At(i, j - 1, e)
    BY <1>4
  <2>3. PICK e \in level[i] : At(i, j - 1, e)
    BY <2>2
  <2>4. i \in PageNo /\ i \in 0 .. j /\ i # j
    BY PageNumbers
  <2>5. /\ e \in Entry /\ image[e[1]] \in Page
        /\ image[e[1]].n < IF image[e[1]].leaf THEN LeafOrder ELSE InternalOrder
        /\ SlotsInOrder(image[e[1]], e[2], e[3])
    BY <1>l, <2>4, EntryFacts
  <2>6. walk[j] = {Below(image, e[1], k)} /\ Holds(e, k)
    BY <1>1, <2>1, <2>3
  <2>7. CASE image[e[1]].leaf
    <3>1. At(i, j, e)
      BY <2>6, <2>7 DEF Below
    <3> HIDE DEF At
    <3> QED BY <2>1, <2>4, <3>1
  <2>8. CASE ~image[e[1]].leaf
    <3>1. i = j - 1
      BY <2>3, <2>8
    <3>2. Below(image, e[1], k) = Child(image[e[1]], k) /\ e[2] \in Int /\ e[3] \in Int
      BY <2>5, <2>8, NodeAssumption DEF Below, Entry, Bound
    <3>3. e[2] <= k /\ k < e[3]
      BY <2>6 DEF Holds
    <3>4. PICK b \in Subtrees(image[e[1]], e[2], e[3]) : b[1] = Child(image[e[1]], k) /\ b[2] <= k /\ k < b[3]
      BY <2>5, <3>2, <3>3, SearchGoesDown
    <3>5. b \in level[j]
      BY <1>l, <2>1, <2>4, <2>8, <3>1, EntryFacts
    <3>6. At(j, j, b)
      BY <2>6, <3>2, <3>4 DEF Holds
    <3> HIDE DEF At
    <3> QED BY <2>1, <3>5, <3>6
  <2> QED BY <2>7, <2>8
<1>5. MaxPage \in S
  <2> HIDE DEF S
  <2>1. \A j \in 0 .. MaxPage : j \in S
    BY <1>3, <1>4, IntervalInduction, PageNumbers
  <2> QED BY <2>1, PageNumbers
<1>6. PICK i \in 0 .. MaxPage : \E e \in level[i] : At(i, MaxPage, e)
  BY <1>5
<1>7. PICK e \in level[i] : At(i, MaxPage, e)
  BY <1>6
<1>8. i # MaxPage
  BY <1>l, <1>7, EntryFacts
<1>9. e \in Leaves(image, top) /\ Holds(e, k)
  BY <1>7, <1>8, <1>l, PageNumbers DEF Leaves
<1>10. FindLeaf(image, top, k) = e[1]
  BY <1>1, <1>7
<1> QED BY <1>9, <1>10

(* The keys in the leaves. *)
KeysBelow(image, top) == UNION {KeysOf(image[e[1]]) : e \in Leaves(image, top)}

(* A leaf's keys belong to it. *)
LEMMA LeafFacts ==
    ASSUME NEW image \in Image, NEW top \in 1 .. MaxPage, InOrderBelow(image, top),
           NEW e \in Leaves(image, top)
    PROVE  /\ e \in Entry /\ e[1] \in 1 .. MaxPage /\ e[2] \in Int /\ e[3] \in Int
           /\ image[e[1]] \in Page /\ image[e[1]].leaf /\ image[e[1]].n < LeafOrder
           /\ SlotsInOrder(image[e[1]], e[2], e[3])
           /\ \A k \in KeysOf(image[e[1]]) : Holds(e, k) /\ k \in Int
           /\ image[e[1]].n > 0 \/ e[1] = top
<1>1. PICK j \in PageNo : e \in Levels(image, top)[j]
  BY DEF Leaves
<1>2. /\ e \in Entry /\ image[e[1]] \in Page
      /\ image[e[1]].n > 0 \/ e[1] = top
      /\ image[e[1]].n < IF image[e[1]].leaf THEN LeafOrder ELSE InternalOrder
      /\ SlotsInOrder(image[e[1]], e[2], e[3])
  BY <1>1, EntryFacts
<1>3. image[e[1]].leaf
  BY DEF Leaves
<1>4. e[1] \in 1 .. MaxPage /\ e[2] \in Int /\ e[3] \in Int
  <2>1. e[1] \in 1 .. MaxPage /\ e[2] \in Bound /\ e[3] \in Bound
    BY <1>2 DEF Entry
  <2> QED BY <2>1, NodeAssumption DEF Bound
<1>5. ASSUME NEW k \in KeysOf(image[e[1]]) PROVE Holds(e, k) /\ k \in Int
  <2> DEFINE c == image[e[1]]
  <2>1. c \in Page /\ SlotsInOrder(c, e[2], e[3])
    BY <1>2
  <2>2. PICK i \in 0 .. c.n - 1 : k = c.key[i]
    BY DEF KeysOf, Values
  <2> HIDE DEF c
  <2>3. c.key[i] \in Int
    BY <2>1, PageFacts
  <2>4. e[2] <= c.key[i] /\ c.key[i] < e[3]
    BY <2>1 DEF SlotsInOrder
  <2> QED BY <2>2, <2>3, <2>4 DEF Holds
<1> QED BY <1>2, <1>3, <1>4, <1>5

(* find (bpt.c:348) finds exactly the keys in the leaves, whatever the     *)
(* internal pages above them hold.                                         *)
THEOREM FindIsExact ==
    ASSUME NEW image \in Image, NEW top \in 1 .. MaxPage, InOrderBelow(image, top),
           NEW k \in KeyValue \ {0}
    PROVE  Finds(image, top, k) <=> k \in KeysBelow(image, top)
<1>1. PICK e \in Leaves(image, top) : Holds(e, k) /\ e[1] = FindLeaf(image, top, k)
  BY FindLeafIsRight
<1>2. /\ e[1] \in 1 .. MaxPage /\ e[2] \in Int /\ e[3] \in Int
      /\ image[e[1]] \in Page /\ image[e[1]].leaf /\ SlotsInOrder(image[e[1]], e[2], e[3])
  BY LeafFacts
<1>3. Search(image[e[1]], k).hit <=> k \in KeysOf(image[e[1]])
  BY <1>2, SearchIsExact
<1>4. Finds(image, top, k) <=> k \in KeysOf(image[e[1]])
  BY <1>1, <1>2, <1>3 DEF Finds
<1>5. k \in KeysBelow(image, top) => k \in KeysOf(image[e[1]])
  <2> SUFFICES ASSUME k \in KeysBelow(image, top) PROVE k \in KeysOf(image[e[1]])
    OBVIOUS
  <2>1. PICK f \in Leaves(image, top) : k \in KeysOf(image[f[1]])
    BY DEF KeysBelow
  <2>2. Holds(f, k) /\ k \in Int
    BY <2>1, LeafFacts
  <2>3. e = f
    BY <1>1, <2>2, OneLeaf
  <2> QED BY <2>1, <2>3
<1>6. k \in KeysOf(image[e[1]]) => k \in KeysBelow(image, top)
  BY DEF KeysBelow
<1> QED BY <1>4, <1>5, <1>6


-----------------------------------------------------------------------------
(* Page p is overwritten with c. *)
Written(image, p, c) == [image EXCEPT ![p] = c]

(* Leaf e gets other records: the tree stays in order if the leaf does.    *)
LEMMA LeafRewritten ==
    ASSUME NEW image \in Image, NEW top \in 1 .. MaxPage, NEW rows, NEW h, IsTree(image, top, rows, h),
           NEW e \in rows[h], NEW c \in Page, c.leaf, c.parent = image[e[1]].parent,
           c.n < LeafOrder, c.n > 0 \/ e[1] = top, SlotsInOrder(c, e[2], e[3]),
           NEW image1, image1 = Written(image, e[1], c)
    PROVE  /\ image1 \in Image /\ IsTree(image1, top, rows, h)
           /\ \A f \in rows[h] : image1[f[1]] = IF f = e THEN c ELSE image[f[1]]
<1>1. /\ h \in 0 .. MaxPage - 1 /\ h \in 0 .. h /\ h \in Nat /\ image[top].parent = 0
      /\ rows[0] = {<<top, 0, KeyMod>>}
      /\ \A j \in 0 .. h : \A f \in rows[j] :
             EntryInOrder(image, top, f) /\ (image[f[1]].leaf <=> j = h) /\ f[1] \in 1 .. MaxPage
      /\ \A j \in 1 .. h : rows[j] = UnderRow(image, rows[j - 1]) /\ KnowParents(image, rows[j - 1])
  BY PageNumbers DEF IsTree, EntryInOrder, Entry
<1>2. Once(rows, h)
  BY OnePlace
<1>3. \A j \in 0 .. h : \A f \in rows[j] : f[1] = e[1] => j = h /\ f = e
  BY <1>1, <1>2 DEF Once
<1>4. \A p \in 1 .. MaxPage : image1[p] = IF p = e[1] THEN c ELSE image[p]
  BY DEF Image, Written
<1>5. image1 \in Image /\ e[1] \in 1 .. MaxPage
  BY <1>1 DEF Image, Written
<1>6. \A p \in 1 .. MaxPage : image1[p].parent = image[p].parent
  BY <1>4
<1>7. \A f \in rows[h] : image1[f[1]] = IF f = e THEN c ELSE image[f[1]]
  BY <1>1, <1>3, <1>4
<1>8. \A j \in 0 .. h : \A f \in rows[j] : j # h => image1[f[1]] = image[f[1]]
  BY <1>1, <1>3, <1>4
<1>9. ASSUME NEW j \in 0 .. h, NEW f \in rows[j]
      PROVE  EntryInOrder(image1, top, f) /\ (image1[f[1]].leaf <=> j = h)
  <2>1. EntryInOrder(image, top, f) /\ (image[f[1]].leaf <=> j = h)
    BY <1>1
  <2>2. CASE f[1] = e[1]
    <3>1. f = e /\ j = h /\ image1[f[1]] = c
      BY <1>3, <1>7, <2>2
    <3> QED BY <2>1, <3>1 DEF EntryInOrder
  <2>3. CASE f[1] # e[1]
    <3>1. image1[f[1]] = image[f[1]]
      BY <1>1, <1>4, <2>3
    <3> QED BY <2>1, <3>1 DEF EntryInOrder
  <2> QED BY <2>2, <2>3
<1>10. ASSUME NEW j \in 1 .. h
       PROVE  rows[j] = UnderRow(image1, rows[j - 1]) /\ KnowParents(image1, rows[j - 1])
  <2>1. j - 1 \in 0 .. h /\ j - 1 # h /\ j \in 0 .. h
    BY <1>1
  <2>2. \A f \in rows[j - 1] : Under(image1, f) = Under(image, f)
    BY <1>8, <2>1 DEF Under
  <2>3. rows[j] = UnderRow(image, rows[j - 1]) /\ KnowParents(image, rows[j - 1])
    BY <1>1
  <2>4. rows[j] = UnderRow(image1, rows[j - 1])
    BY <2>2, <2>3 DEF UnderRow
  <2>5. KnowParents(image1, rows[j - 1])
    <3>1. \A f \in rows[j - 1] : \A b \in Under(image, f) : b \in rows[j]
      BY <2>3 DEF UnderRow
    <3>2. \A b \in rows[j] : image1[b[1]].parent = image[b[1]].parent
      BY <1>1, <1>6, <2>1
    <3> QED BY <2>2, <2>3, <3>1, <3>2 DEF KnowParents
  <2> QED BY <2>4, <2>5
<1>11. image1[top].parent = 0
  BY <1>1, <1>6
<1>12. IsTree(image1, top, rows, h)
  BY <1>1, <1>9, <1>10, <1>11 DEF IsTree
<1> QED BY <1>5, <1>7, <1>12

(* What find finds after that: the other leaves' keys and the new ones.    *)
LEMMA LeafReplaced ==
    ASSUME NEW image \in Image, NEW top \in 1 .. MaxPage, InOrderBelow(image, top),
           NEW e \in Leaves(image, top), NEW c \in Page, c.leaf, c.parent = image[e[1]].parent,
           c.n < LeafOrder, c.n > 0 \/ e[1] = top, SlotsInOrder(c, e[2], e[3]),
           NEW image1, image1 = Written(image, e[1], c)
    PROVE  /\ image1 \in Image /\ InOrderBelow(image1, top)
           /\ KeysBelow(image1, top) = (KeysBelow(image, top) \ KeysOf(image[e[1]])) \cup KeysOf(c)
<1>1. PICK rows, h : IsTree(image, top, rows, h) /\ Leaves(image, top) = rows[h]
  BY RowsExist
<1>2. /\ image1 \in Image /\ IsTree(image1, top, rows, h)
      /\ \A f \in rows[h] : image1[f[1]] = IF f = e THEN c ELSE image[f[1]]
  BY <1>1, LeafRewritten
<1>3. InOrderBelow(image1, top) /\ Leaves(image1, top) = rows[h]
  BY <1>2, RowsAreEnough
<1>4. KeysBelow(image1, top) = (KeysBelow(image, top) \ KeysOf(image[e[1]])) \cup KeysOf(c)
  <2>1. ASSUME NEW f \in rows[h], f # e, NEW x \in KeysOf(image[f[1]]) PROVE x \notin KeysOf(image[e[1]])
    <3> SUFFICES ASSUME x \in KeysOf(image[e[1]]) PROVE FALSE
      OBVIOUS
    <3>1. Holds(f, x) /\ Holds(e, x) /\ x \in Int
      BY <1>1, <2>1, LeafFacts
    <3> QED BY <1>1, <2>1, <3>1, OneLeaf
  <2>2. KeysBelow(image, top) = UNION {KeysOf(image[f[1]]) : f \in rows[h]}
    BY <1>1 DEF KeysBelow
  <2>3. KeysBelow(image1, top) = UNION {KeysOf(image1[f[1]]) : f \in rows[h]}
    BY <1>3 DEF KeysBelow
  <2>4. \A x : x \in KeysBelow(image1, top) <=> x \in KeysOf(c) \/ \E f \in rows[h] : f # e /\ x \in KeysOf(image[f[1]])
    BY <1>1, <1>2, <2>3
  <2>5. \A x : x \in KeysBelow(image, top) /\ x \notin KeysOf(image[e[1]])
                  <=> \E f \in rows[h] : f # e /\ x \in KeysOf(image[f[1]])
    BY <2>1, <2>2
  <2> QED BY <2>4, <2>5
<1> QED BY <1>2, <1>3, <1>4

(* The program has a tree in order before it. *)
Ready ==
    /\ pages \in Image /\ root.at \in 1 .. MaxPage /\ ~root.null
    /\ InOrderBelow(pages, root.at)

(* Keys are key values, and 0 is none.                                     *)
LEMMA KeysAreValues == Key \subseteq KeyValue \ {0}
BY NodeAssumption DEF KeyValue

(* Then find tells what the tree holds. *)
LEMMA ContentIsKeys ==
    ASSUME Ready, proc # "down"
    PROVE  Content = Key \cap KeysBelow(pages, root.at)
BY KeysAreValues, FindIsExact DEF Content, Top, Ready

(* A new key in a leaf with room (bpt.c:434): the tree stays in order,     *)
(* nothing in Harm happens, and find finds the new key and the others.     *)
THEOREM InsertIntoLeaf ==
    ASSUME Ready, NEW k \in Key, CmdInsert(k), HasRoom(pages[FindLeaf(pages, root.at, k)])
    PROVE  Ready' /\ harm' = harm /\ Content' = Content \cup {k}
<1> DEFINE top == root.at
           leaf == FindLeaf(pages, top, k)
           c == pages[leaf]
           d == LeafWith(c, k)
<1>1. pages \in Image /\ top \in 1 .. MaxPage /\ ~root.null /\ InOrderBelow(pages, top) /\ k \in KeyValue \ {0}
  BY KeysAreValues DEF Ready
<1>2. /\ AtPrompt /\ ~Finds(pages, top, k)
      /\ Run([kind |-> "insert", key |-> k], Insert(k))
  BY DEF CmdInsert
<1>3. PICK e \in Leaves(pages, top) : Holds(e, k) /\ e[1] = leaf
  BY <1>1, FindLeafIsRight
<1>4. /\ leaf \in 1 .. MaxPage /\ e[2] \in Int /\ e[3] \in Int /\ c \in Page /\ c.leaf
      /\ SlotsInOrder(c, e[2], e[3])
  BY <1>1, <1>3, LeafFacts
<1> HIDE DEF leaf
<1>5. Insert(k) = [Now EXCEPT !.pages[leaf] = d, !.log = Append(@, [at |-> leaf, is |-> d])]
  BY <1>1, <1>4 DEF Insert, HasRoom, WritePage, Now, leaf
<1>6. /\ pages' = [pages EXCEPT ![leaf] = d] /\ root' = root /\ harm' = harm /\ proc' = proc /\ proc = "up"
  BY <1>2, <1>5 DEF Run, Now, AtPrompt
<1>7. k \notin KeysOf(c) /\ k \notin KeysBelow(pages, top)
  <2>1. k \notin KeysBelow(pages, top)
    BY <1>1, <1>2, FindIsExact
  <2> QED BY <1>3, <2>1 DEF KeysBelow
<1>8. d \in Page /\ SlotsInOrder(d, e[2], e[3]) /\ KeysOf(d) = KeysOf(c) \cup {k}
  <2>1. c.n < LeafOrder - 1 /\ e[2] <= k /\ k < e[3] /\ k \in KeyValue
    BY <1>1, <1>3 DEF HasRoom, Holds, leaf
  <2> HIDE DEF c
  <2> QED BY <1>4, <1>7, <2>1, LeafTakesKey
<1>9. d.leaf /\ d.parent = c.parent /\ d.n < LeafOrder /\ d.n > 0
  <2>1. c.n \in Nat /\ c.n < LeafOrder - 1 /\ LeafOrder \in Nat
    BY <1>4, PageFacts, NodeAssumption DEF HasRoom, leaf
  <2>2. d.leaf = c.leaf /\ d.parent = c.parent /\ d.n = c.n + 1
    BY <1>4 DEF LeafWith, Page
  <2> QED BY <1>4, <2>1, <2>2
<1> HIDE DEF d
<1>10. /\ pages' \in Image /\ InOrderBelow(pages', top)
       /\ KeysBelow(pages', top) = (KeysBelow(pages, top) \ KeysOf(c)) \cup KeysOf(d)
  <2>1. pages' = Written(pages, e[1], d) /\ c = pages[e[1]]
    BY <1>3, <1>6 DEF Written
  <2>2. /\ d.leaf /\ d.parent = pages[e[1]].parent /\ d.n < LeafOrder
        /\ d.n > 0 \/ e[1] = top
    BY <1>9, <2>1
  <2>3. d \in Page /\ SlotsInOrder(d, e[2], e[3]) /\ e \in Leaves(pages, top)
    BY <1>3, <1>8
  <2>4. pages \in Image /\ top \in 1 .. MaxPage /\ InOrderBelow(pages, top)
    BY <1>1
  <2> HIDE DEF c, top
  <2>5. /\ pages' \in Image /\ InOrderBelow(pages', top)
        /\ KeysBelow(pages', top) = (KeysBelow(pages, top) \ KeysOf(pages[e[1]])) \cup KeysOf(d)
    BY <2>1, <2>2, <2>3, <2>4, LeafReplaced
  <2> QED BY <2>1, <2>5
<1>11. KeysOf(c) \subseteq KeysBelow(pages, top)
  BY <1>3 DEF KeysBelow
<1>12. KeysBelow(pages', top) = KeysBelow(pages, top) \cup {k}
  BY <1>8, <1>10, <1>11
<1>13. Ready'
  BY <1>1, <1>6, <1>10 DEF Ready
<1>14. Content = Key \cap KeysBelow(pages, top) /\ Content' = Key \cap KeysBelow(pages', top)
  <2>1. Content' = {x \in Key : Finds(pages', top, x)}
    BY <1>6 DEF Content, Top
  <2>2. \A x \in Key : Finds(pages', top, x) <=> x \in KeysBelow(pages', top)
    BY <1>1, <1>10, KeysAreValues, FindIsExact
  <2> QED BY <1>6, <2>1, <2>2, ContentIsKeys
<1> QED BY <1>6, <1>12, <1>13, <1>14

-----------------------------------------------------------------------------
(* One level of a deletion, and the function that DeleteKey is defined by. *)
DeleteLevel(t) == IF t.end # "ok" \/ t.next = Nothing THEN t ELSE DeleteEntry(t)
IsDeleteClimb(g, s) == g = [j \in 0 .. MaxPage |-> IF j = 0 THEN s ELSE DeleteLevel(g[j - 1])]

(* It exists, by induction over the number of levels. *)
LEMMA DeleteClimbs ==
    ASSUME NEW s
    PROVE  \E g : IsDeleteClimb(g, s)
<1> DEFINE H(t) == DeleteLevel(t)
           Ok(g, d) == g[0] = s /\ \A j \in 1 .. d : g[j] = H(g[j - 1])
           S == {d \in PageNo : \E g : Ok(g, d)}
<1> HIDE DEF H
<1>1. 0 \in S
  <2> DEFINE g == [j \in {0} |-> s]
  <2>1. g[0] = s /\ \A j \in 1 .. 0 : FALSE
    OBVIOUS
  <2> HIDE DEF g
  <2>2. Ok(g, 0)
    BY <2>1
  <2> HIDE DEF Ok
  <2> QED BY <2>2, PageNumbers
<1>2. ASSUME NEW d \in 0 + 1 .. MaxPage, d - 1 \in S PROVE d \in S
  <2>1. PICK g : Ok(g, d - 1)
    BY <1>2
  <2> DEFINE f == [j \in PageNo |-> IF j < d THEN g[j] ELSE H(g[d - 1])]
  <2>2. \A j \in PageNo : f[j] = IF j < d THEN g[j] ELSE H(g[d - 1])
    OBVIOUS
  <2> HIDE DEF f
  <2>3. d \in PageNo /\ 0 \in PageNo /\ \A j \in 1 .. d : j \in PageNo /\ j - 1 \in PageNo
    BY PageNumbers
  <2>4. f[0] = s
    BY <2>1, <2>2, <2>3
  <2>5. ASSUME NEW j \in 1 .. d PROVE f[j] = H(f[j - 1])
    <3>1. f[j - 1] = g[j - 1]
      BY <2>2, <2>3
    <3>2. CASE j = d
      BY <2>2, <2>3, <3>1, <3>2
    <3>3. CASE j # d
      <4>1. j \in 1 .. d - 1 /\ j < d
        BY <3>3
      <4> QED BY <2>1, <2>2, <2>3, <3>1, <4>1
    <3> QED BY <3>2, <3>3
  <2>6. Ok(f, d)
    BY <2>4, <2>5
  <2> HIDE DEF Ok
  <2> QED BY <2>3, <2>6
<1>3. MaxPage \in S
  <2> HIDE DEF S
  <2>1. \A d \in 0 .. MaxPage : d \in S
    BY <1>1, <1>2, IntervalInduction, PageNumbers
  <2> QED BY <2>1, PageNumbers
<1>4. PICK g : Ok(g, MaxPage)
  BY <1>3
<1> DEFINE f == [j \in PageNo |-> g[j]]
<1>5. \A j \in PageNo : f[j] = IF j = 0 THEN s ELSE H(f[j - 1])
  <2> SUFFICES ASSUME NEW j \in PageNo PROVE g[j] = IF j = 0 THEN s ELSE H(f[j - 1])
    OBVIOUS
  <2>1. j # 0 => j \in 1 .. MaxPage /\ j - 1 \in PageNo
    BY PageNumbers
  <2> QED BY <1>4, <2>1
<1>6. f = [j \in PageNo |-> f[j]]
  OBVIOUS
<1> HIDE DEF f
<1>7. f = [j \in PageNo |-> IF j = 0 THEN s ELSE H(f[j - 1])]
  BY <1>5, <1>6
<1>8. 0 .. MaxPage = PageNo
  BY PageNumbers
<1> QED BY <1>7, <1>8 DEF IsDeleteClimb, H

(* A deletion that leaves nothing to do for the parent ends with its page. *)
LEMMA DeleteOnce ==
    ASSUME NEW s, s.end = "ok", s.next # Nothing, DeleteEntry(s).next = Nothing
    PROVE  Climb(DeleteEntry, s) = DeleteEntry(s)
<1> DEFINE level == CHOOSE g : IsDeleteClimb(g, s)
           S == {j \in 1 .. MaxPage : level[j] = DeleteEntry(s)}
<1>1. Climb(DeleteEntry, s) = level[MaxPage]
  BY DEF Climb, IsDeleteClimb, DeleteLevel
<1>2. IsDeleteClimb(level, s)
  BY DeleteClimbs
<1> HIDE DEF level
<1>3. level[0] = s /\ \A j \in 1 .. MaxPage : level[j] = DeleteLevel(level[j - 1])
  <2>1. 0 \in 0 .. MaxPage /\ \A j \in 1 .. MaxPage : j \in 0 .. MaxPage /\ j # 0
    BY PageNumbers
  <2> QED BY <1>2, <2>1, Zenon DEF IsDeleteClimb
<1>4. 1 \in 1 .. MaxPage /\ MaxPage \in 1 .. MaxPage /\ MaxPage \in Nat
  BY PageNumbers
<1>5. 1 \in S
  BY <1>3, <1>4 DEF DeleteLevel
<1>6. ASSUME NEW j \in 1 + 1 .. MaxPage, j - 1 \in S PROVE j \in S
  <2>1. j \in 1 .. MaxPage
    BY <1>4
  <2> QED BY <1>3, <1>6, <2>1 DEF DeleteLevel
<1> HIDE DEF S
<1>7. \A j \in 1 .. MaxPage : j \in S
  BY <1>4, <1>5, <1>6, IntervalInduction
<1> QED BY <1>1, <1>4, <1>7 DEF S

(* RemoveEntry of a leaf, said of the key instead of its slot. *)
LEMMA LeafLosesKey ==
    ASSUME NEW c \in Page, c.leaf, NEW low \in Int, NEW high \in Int, SlotsInOrder(c, low, high),
           NEW k \in KeysOf(c)
    PROVE  /\ RemoveEntry(c, k) \in Page /\ RemoveEntry(c, k).n = c.n - 1
           /\ RemoveEntry(c, k).leaf = c.leaf /\ RemoveEntry(c, k).parent = c.parent
           /\ SlotsInOrder(RemoveEntry(c, k), low, high)
           /\ KeysOf(RemoveEntry(c, k)) = KeysOf(c) \ {k}
<1>1. PICK i \in 0 .. c.n - 1 : k = c.key[i]
  BY DEF KeysOf, Values
<1>2. c.n > 0 /\ (~c.leaf => c.n < InternalOrder)
  BY <1>1, PageFacts
<1>3. RemoveEntry(c, c.key[i]) \in Page
  BY <1>2, PageLosesKey
<1>4. RemoveEntry(c, c.key[i]).n = c.n - 1
  BY <1>2, PageLosesKey
<1>5. RemoveEntry(c, c.key[i]).leaf = c.leaf
  BY <1>2, PageLosesKey
<1>6. RemoveEntry(c, c.key[i]).parent = c.parent
  BY <1>2, PageLosesKey
<1>7. SlotsInOrder(RemoveEntry(c, c.key[i]), low, high)
  BY <1>2, PageLosesKey
<1>8. KeysOf(RemoveEntry(c, c.key[i])) = KeysOf(c) \ {c.key[i]}
  BY <1>2, PageLosesKey
<1> QED BY <1>1, <1>3, <1>4, <1>5, <1>6, <1>7, <1>8

(* A key from a leaf that keeps others, or from the only one while root is *)
(* a copy with keys (bpt.c:756): the tree stays in order, nothing in Harm  *)
(* happens, and the key is gone and no other.                              *)
THEOREM DeleteFromLeaf ==
    ASSUME Ready, NEW k \in Key, CmdDelete(k),
           LET leaf == FindLeaf(pages, root.at, k)
           IN  IF leaf = root.at THEN root.n > 0 ELSE pages[leaf].n > 1
    PROVE  Ready' /\ harm' = harm /\ Content' = Content \ {k}
<1> DEFINE top == root.at
           leaf == FindLeaf(pages, top, k)
           c == pages[leaf]
           d == RemoveEntry(c, k)
           start == [Now EXCEPT !.next = [child |-> leaf, key |-> k, new |-> 0]]
           s1 == [WritePage(start, leaf, d) EXCEPT !.next = Nothing]
<1>1. pages \in Image /\ top \in 1 .. MaxPage /\ ~root.null /\ InOrderBelow(pages, top) /\ k \in KeyValue \ {0}
  BY KeysAreValues DEF Ready
<1>2. /\ AtPrompt /\ Finds(pages, top, k)
      /\ Run([kind |-> "delete", key |-> k], DeleteKey(k))
  BY DEF CmdDelete
<1>3. PICK e \in Leaves(pages, top) : Holds(e, k) /\ e[1] = leaf
  BY <1>1, FindLeafIsRight
<1>4. /\ leaf \in 1 .. MaxPage /\ e[2] \in Int /\ e[3] \in Int /\ c \in Page /\ c.leaf
      /\ SlotsInOrder(c, e[2], e[3]) /\ c.n < LeafOrder
  BY <1>1, <1>3, LeafFacts
<1>5. IF leaf = top THEN root.n > 0 ELSE c.n > 1
  OBVIOUS
<1> HIDE DEF leaf
<1>6. k \in KeysOf(c)
  <2>1. k \in KeysBelow(pages, top)
    BY <1>1, <1>2, FindIsExact
  <2>2. PICK f \in Leaves(pages, top) : k \in KeysOf(pages[f[1]])
    BY <2>1 DEF KeysBelow
  <2>3. Holds(f, k) /\ k \in Int
    BY <1>1, <2>2, LeafFacts
  <2>4. f = e
    BY <1>1, <1>3, <2>3, OneLeaf
  <2> QED BY <1>3, <2>2, <2>4
<1> HIDE DEF c
<1>8. c.n \in Nat /\ c.n > 0
  <2>1. PICK i \in 0 .. c.n - 1 : k = c.key[i]
    BY <1>6 DEF KeysOf, Values
  <2> QED BY <1>4, <2>1, PageFacts
<1>9. /\ d \in Page /\ d.n = c.n - 1 /\ d.leaf = c.leaf /\ d.parent = c.parent
      /\ SlotsInOrder(d, e[2], e[3]) /\ KeysOf(d) = KeysOf(c) \ {k}
  BY <1>4, <1>6, LeafLosesKey
<1> HIDE DEF d
<1>10. /\ start.pages = pages /\ start.root = root /\ start.end = "ok" /\ start.harm = {}
       /\ start.next.child = leaf /\ start.next.key = k /\ start.next # Nothing
  <2>1. leaf # 0
    BY <1>4
  <2> QED BY <2>1 DEF Now, Nothing
<1>11. /\ s1.pages = [pages EXCEPT ![leaf] = d] /\ s1.root = root /\ s1.end = "ok" /\ s1.harm = {}
       /\ s1.next = Nothing
  BY DEF WritePage, Now
<1> HIDE DEF start, s1
<1>12. DeleteEntry(start) = s1
  <2>1. Read(start, leaf) = c /\ c.n # 0
    BY <1>4, <1>8, <1>10 DEF Read, c
  <2>2. CASE leaf = top
    <3>1. AdjustRoot(s1) = s1
      BY <1>5, <1>11, <2>2 DEF AdjustRoot
    <3> QED BY <1>10, <2>1, <2>2, <3>1 DEF DeleteEntry, d, s1
  <2>3. CASE leaf # top
    <3>1. d.n > 0
      BY <1>5, <1>8, <1>9, <2>3
    <3> QED BY <1>10, <2>1, <2>3, <3>1 DEF DeleteEntry, d, s1
  <2> QED BY <2>2, <2>3
<1>13. DeleteKey(k) = s1
  <2>1. Climb(DeleteEntry, start) = s1
    BY <1>10, <1>11, <1>12, DeleteOnce
  <2> QED BY <2>1 DEF DeleteKey, start, leaf
<1>14. /\ pages' = Written(pages, leaf, d) /\ root' = root /\ harm' = harm /\ proc' = proc /\ proc = "up"
  BY <1>2, <1>11, <1>13 DEF Run, AtPrompt, Written
<1>15. /\ pages' \in Image /\ InOrderBelow(pages', top)
       /\ KeysBelow(pages', top) = (KeysBelow(pages, top) \ KeysOf(pages[e[1]])) \cup KeysOf(d)
  <2>1. pages' = Written(pages, e[1], d) /\ c = pages[e[1]]
    BY <1>3, <1>14 DEF c
  <2>2. /\ d.leaf /\ d.parent = pages[e[1]].parent /\ d.n < LeafOrder
        /\ d.n > 0 \/ e[1] = top
    BY <1>3, <1>4, <1>5, <1>8, <1>9, <2>1, NodeAssumption
  <2>3. d \in Page /\ SlotsInOrder(d, e[2], e[3]) /\ e \in Leaves(pages, top)
    BY <1>3, <1>9
  <2>4. pages \in Image /\ top \in 1 .. MaxPage /\ InOrderBelow(pages, top)
    BY <1>1
  <2> HIDE DEF top
  <2> QED BY <2>1, <2>2, <2>3, <2>4, LeafReplaced
<1>16. KeysBelow(pages', top) = KeysBelow(pages, top) \ {k}
  <2>1. KeysOf(pages[e[1]]) = KeysOf(c) /\ KeysOf(c) \subseteq KeysBelow(pages, top)
    BY <1>3 DEF KeysBelow, c
  <2> QED BY <1>6, <1>9, <1>15, <2>1
<1>17. Ready'
  BY <1>1, <1>14, <1>15 DEF Ready
<1>18. Content = Key \cap KeysBelow(pages, top) /\ Content' = Key \cap KeysBelow(pages', top)
  <2>1. Content' = {x \in Key : Finds(pages', top, x)}
    BY <1>14 DEF Content, Top
  <2>2. \A x \in Key : Finds(pages', top, x) <=> x \in KeysBelow(pages', top)
    BY <1>1, <1>15, KeysAreValues, FindIsExact
  <2> QED BY <1>14, <2>1, <2>2, ContentIsKeys
<1> QED BY <1>14, <1>16, <1>17, <1>18

-----------------------------------------------------------------------------
(* get_left_index (bpt.c:425). *)
LeftIndex(c, left) == FirstNot(LAMBDA i : c.off[i] # left, c.n)

(* Its loop ends at the first slot that points to the child. *)
LEMMA LeftIndexIsFirst ==
    ASSUME NEW c, NEW left, c.n \in Nat
    PROVE  IsFirstNot(LeftIndex(c, left), {i \in Nat : c.off[i] # left}, 0, c.n)
<1> DEFINE limit == c.n
           H == {i \in Nat : c.off[i] # left}
           Eq(g) == g = [i \in 0 .. limit |-> IF i < limit /\ c.off[i] # left THEN g[i + 1] ELSE i]
           scan == CHOOSE g : Eq(g)
<1>1. LeftIndex(c, left) = scan[0]
  BY DEF LeftIndex, FirstNot
<1>2. \A g : Eq(g) <=> g = [i \in 0 .. limit |-> IF i < limit /\ i \in H THEN g[i + 1] ELSE i]
  OBVIOUS
<1>n. limit \in Nat
  OBVIOUS
<1> HIDE DEF Eq, H, limit
<1>3. Eq(scan)
  <2>1. PICK g : g = [i \in 0 .. limit |-> IF i < limit /\ i \in H THEN g[i + 1] ELSE i]
    BY <1>n, ScanExists
  <2>2. Eq(g)
    BY <1>2, <2>1
  <2> QED BY <2>2
<1>4. IsFirstNot(scan[0], H, 0, limit)
  <2>1. scan = [i \in 0 .. limit |-> IF i < limit /\ i \in H THEN scan[i + 1] ELSE i]
    BY <1>2, <1>3
  <2> HIDE DEF scan
  <2> QED BY <1>n, <2>1, ScanIsFirst
<1> QED BY <1>1, <1>4 DEF H, limit

(* A branch that has keys is one of its page only once. *)
LEMMA BranchIsOne ==
    ASSUME NEW c \in Page, ~c.leaf, c.n < InternalOrder,
           NEW low \in Int, NEW high \in Int, SlotsInOrder(c, low, high),
           NEW i \in 0 .. c.n, NEW j \in 0 .. c.n,
           NEW b, b = Branch(c.key, c.off, c.n, low, high, i),
           b = Branch(c.key, c.off, c.n, low, high, j), b[2] < b[3]
    PROVE  i = j
<1> DEFINE n == c.n
           key == c.key
<1>1. n \in Nat /\ \A l \in 0 .. n - 1 : key[l] \in Int
  BY PageFacts, KeysAreNumbers DEF KeyArray, Array
<1>2. \A l, m \in 0 .. n - 1 : l < m => key[l] < key[m]
  <2>1. InOrder(key, n, low, high)
    BY <1>1, PageFacts
  <2> QED BY <1>1, <2>1, Increasing DEF InOrder
<1>3. /\ b[2] = (IF i = 0 THEN low ELSE key[i - 1]) /\ b[3] = (IF i = n THEN high ELSE key[i])
      /\ b[2] = (IF j = 0 THEN low ELSE key[j - 1]) /\ b[3] = (IF j = n THEN high ELSE key[j])
  BY DEF Branch
<1> HIDE DEF n, key
<1>4. ASSUME NEW x \in 0 .. n, NEW y \in 0 .. n, x < y,
             b[3] = (IF x = n THEN high ELSE key[x]), b[2] = (IF y = 0 THEN low ELSE key[y - 1])
      PROVE  FALSE
  <2>1. x \in 0 .. n - 1 /\ y - 1 \in 0 .. n - 1 /\ x # n /\ y # 0 /\ (x = y - 1 \/ x < y - 1)
    BY <1>1, <1>4
  <2>2. b[3] = key[x] /\ b[2] = key[y - 1]
    BY <1>4, <2>1
  <2>3. key[x] <= key[y - 1]
    BY <1>1, <1>2, <2>1
  <2> QED BY <1>1, <2>1, <2>2, <2>3
<1>5. i \in 0 .. n /\ j \in 0 .. n
  BY DEF n
<1> QED BY <1>1, <1>3, <1>4, <1>5

(* insert_into_parent finds the branch w of the child that was split, and  *)
(* k belongs behind it; the other branches stay.                           *)
LEMMA ChildIsFound ==
    ASSUME NEW c \in Page, ~c.leaf, c.n < InternalOrder,
           NEW low \in Int, NEW high \in Int, SlotsInOrder(c, low, high),
           NEW w \in Subtrees(c, low, high), \A x \in Subtrees(c, low, high) : x[1] = w[1] => x = w,
           NEW k \in KeyValue, w[2] < k, k < w[3], w[2] \in Int, w[3] \in Int,
           low <= w[2], w[3] <= high,
           NEW li, li = LeftIndex(c, w[1])
    PROVE  /\ PlaceOf(c.key, c.n, li, k) /\ low <= k /\ k < high
           /\ \A right : Divided(c.key, c.off, c.n, low, high, li, k, right)
                  = (Subtrees(c, low, high) \ {w}) \cup {<<w[1], w[2], k>>, <<right, k, w[3]>>}
<1> DEFINE n == c.n
           B(i) == Branch(c.key, c.off, n, low, high, i)
<1>1. n \in Nat /\ k \in Int
  BY PageFacts, KeysAreNumbers
<1>2. IsFirstNot(li, {i \in Nat : c.off[i] # w[1]}, 0, n)
  BY <1>1, LeftIndexIsFirst
<1>3. Subtrees(c, low, high) = {B(i) : i \in 0 .. n}
  BY DEF Subtrees, Branches
<1>4. PICK i \in 0 .. n : w = B(i)
  BY <1>3
<1>5. \A j \in 0 .. n : B(j)[1] = c.off[j]
  BY DEF Branch
<1>6. \A j \in 0 .. n : c.off[j] = w[1] => B(j) = w
  BY <1>3, <1>5
<1>7. li \in 0 .. n /\ c.off[li] = w[1]
  <2>1. li \in 0 .. n /\ (li < n => c.off[li] = w[1]) /\ \A j \in 0 .. li - 1 : c.off[j] # w[1]
    BY <1>1, <1>2 DEF IsFirstNot
  <2>2. c.off[i] = w[1]
    BY <1>4, <1>5
  <2>3. li = n => i = n
    BY <1>1, <2>1, <2>2
  <2> QED BY <1>1, <2>1, <2>2, <2>3
<1>8. B(li) = w
  BY <1>6, <1>7
<1>9. \A j \in 0 .. n : B(j) = w => j = li
  <2> SUFFICES ASSUME NEW j \in 0 .. n, B(j) = w PROVE j = li
    OBVIOUS
  <2>1. w[2] < w[3]
    BY <1>1
  <2> QED BY <1>7, <1>8, <2>1, BranchIsOne
<1>10. PlaceOf(c.key, n, li, k)
  <2>1. w[2] = (IF li = 0 THEN low ELSE c.key[li - 1]) /\ w[3] = (IF li = n THEN high ELSE c.key[li])
    BY <1>8 DEF Branch
  <2> QED BY <1>1, <1>7, <2>1 DEF PlaceOf
<1>11. ASSUME NEW right
       PROVE  Divided(c.key, c.off, c.n, low, high, li, k, right)
                  = (Subtrees(c, low, high) \ {w}) \cup {<<w[1], w[2], k>>, <<right, k, w[3]>>}
  <2>1. Divided(c.key, c.off, c.n, low, high, li, k, right)
            = {B(j) : j \in (0 .. n) \ {li}} \cup {<<w[1], w[2], k>>, <<right, k, w[3]>>}
    BY <1>8 DEF Divided
  <2> HIDE DEF B
  <2>2. {B(j) : j \in (0 .. n) \ {li}} = {B(j) : j \in 0 .. n} \ {w}
    BY <1>7, <1>8, <1>9
  <2> QED BY <1>3, <2>1, <2>2
<1>12. low <= k /\ k < high
  BY <1>1
<1> HIDE DEF n
<1> QED BY <1>10, <1>11, <1>12 DEF n

(* A page with keys stands between different separators. *)
LEMMA EntryHasKeys ==
    ASSUME NEW image \in Image, NEW top, NEW e, EntryInOrder(image, top, e), image[e[1]].n > 0
    PROVE  e[2] \in Int /\ e[3] \in Int /\ e[2] < e[3]
<1> DEFINE c == image[e[1]]
<1>1. c \in Page /\ e[2] \in Int /\ e[3] \in Int /\ SlotsInOrder(c, e[2], e[3])
  BY NodeAssumption DEF EntryInOrder, Entry, Image, Bound
<1>2. c.n \in Nat /\ c.n > 0
  BY <1>1, PageFacts
<1> HIDE DEF c
<1>3. 0 \in 0 .. c.n - 1 /\ c.key[0] \in Int
  BY <1>1, <1>2, PageFacts, KeysAreNumbers DEF KeyArray, Array
<1>4. e[2] <= c.key[0] /\ c.key[0] < e[3]
  BY <1>1, <1>3 DEF SlotsInOrder
<1> QED BY <1>1, <1>3, <1>4

-----------------------------------------------------------------------------
(* A tree in which w, a page of row i, was split at key k, and the row     *)
(* above still leads to w: row i has both halves.                          *)
Whole(image, top, rows, i) ==
    IF i = 0 THEN {<<top, 0, KeyMod>>} ELSE UnderRow(image, rows[i - 1])
HalfDone(image, top, rows, h, i, w, k, right) ==
    LET whole == Whole(image, top, rows, i)
    IN  /\ h \in 0 .. MaxPage - 1 /\ i \in 0 .. h /\ image[top].parent = 0
        /\ \A j \in 0 .. h : \A e \in rows[j] :
               EntryInOrder(image, top, e) /\ (image[e[1]].leaf <=> j = h)
        /\ Once(rows, h)
        /\ i > 0 => rows[0] = {<<top, 0, KeyMod>>}
        /\ \A j \in 1 .. h : /\ KnowParents(image, rows[j - 1])
                             /\ j # i => rows[j] = UnderRow(image, rows[j - 1])
        /\ w \in whole /\ \A x \in whole : x[1] = w[1] => x = w
        /\ rows[i] = (whole \ {w}) \cup {<<w[1], w[2], k>>, <<right, k, w[3]>>}
        /\ k \in KeyValue /\ w[2] < k /\ k < w[3]
        /\ image[w[1]].n > 0 /\ image[right].n > 0
        /\ image[right].parent = image[w[1]].parent

(* Page x is in one of the rows; the keys of a row. *)
InTree(rows, h, x) == \E j \in 0 .. h : \E f \in rows[j] : f[1] = x
RowKeys(image, row) == UNION {KeysOf(image[f[1]]) : f \in row}

(* Each leaf of a row is chained to the leaf behind it, the last to none.  *)
Linked(image, row) ==
    \A e \in row : LET x == image[e[1]].off[0]
                   IN  IF e[3] = KeyMod THEN x = 0 ELSE \E f \in row : f[1] = x /\ f[2] = e[3]

(* That is a matter of the slots for the chain. *)
LEMMA LinksStay ==
    ASSUME NEW image, NEW image1, NEW row, Linked(image, row),
           \A e \in row : image1[e[1]].off[0] = image[e[1]].off[0]
    PROVE  Linked(image1, row)
<1> SUFFICES ASSUME NEW e \in row
             PROVE  LET x == image1[e[1]].off[0]
                    IN  IF e[3] = KeyMod THEN x = 0 ELSE \E f \in row : f[1] = x /\ f[2] = e[3]
  BY DEF Linked
<1>1. LET x == image[e[1]].off[0]
      IN  IF e[3] = KeyMod THEN x = 0 ELSE \E f \in row : f[1] = x /\ f[2] = e[3]
  BY DEF Linked
<1>2. image1[e[1]].off[0] = image[e[1]].off[0]
  OBVIOUS
<1> QED BY <1>1, <1>2

(* What a row leads to when page q of the row above leads to S. *)
NextWith(image, row, q, S) == S \cup UNION {Under(image, f) : f \in row \ {q}}

(* What is in these rows. *)
LEMMA InRows ==
    ASSUME NEW image, NEW row
    PROVE  /\ \A x : x \in UnderRow(image, row) <=> \E f \in row : x \in Under(image, f)
           /\ \A q, S, x : x \in NextWith(image, row, q, S)
                  <=> x \in S \/ \E f \in row : f # q /\ x \in Under(image, f)
<1>1. \A x : x \in UnderRow(image, row) <=> \E f \in row : x \in Under(image, f)
  BY DEF UnderRow
<1>2. ASSUME NEW q, NEW S, NEW x
      PROVE  x \in NextWith(image, row, q, S)
                  <=> x \in S \/ \E f \in row : f # q /\ x \in Under(image, f)
  <2> DEFINE others == row \ {q}
  <2>0. NextWith(image, row, q, S) = S \cup UNION {Under(image, f) : f \in others}
    BY DEF NextWith
  <2>1. x \in NextWith(image, row, q, S) <=> x \in S \/ \E f \in others : x \in Under(image, f)
    <3> HIDE DEF others
    <3> QED BY <2>0
  <2> QED BY <2>1
<1> QED BY <1>1, <1>2

(* q is the entry of its parent, and knows where the new child belongs.    *)
IsParent(image, top, rows, i, q, w, k, right) ==
    LET c == image[q[1]]
        li == LeftIndex(c, w[1])
        D == Divided(c.key, c.off, c.n, q[2], q[3], li, k, right)
    IN  /\ q[1] = image[w[1]].parent /\ q[1] \in 1 .. MaxPage /\ q \in Entry
        /\ c \in Page /\ ~c.leaf /\ c.n < InternalOrder /\ SlotsInOrder(c, q[2], q[3])
        /\ PlaceOf(c.key, c.n, li, k) /\ q[2] <= k /\ k < q[3]
        /\ rows[i] = NextWith(image, rows[i - 1], q, D)
        /\ \A x \in D : image[x[1]].parent = q[1]

(* insert_into_parent reads its number from the page that was split.       *)
LEMMA ParentOfHalf ==
    ASSUME NEW image \in Image, NEW top, NEW rows, NEW h, NEW i, NEW w, NEW k, NEW right,
           HalfDone(image, top, rows, h, i, w, k, right), i > 0
    PROVE  \E q \in rows[i - 1] : IsParent(image, top, rows, i, q, w, k, right)
<1>1. /\ h \in Nat /\ i \in 0 .. h /\ i \in 1 .. h /\ i - 1 \in 0 .. h /\ i - 1 # h
      /\ \A j \in 0 .. h : \A e \in rows[j] :
             EntryInOrder(image, top, e) /\ (image[e[1]].leaf <=> j = h)
      /\ Once(rows, h)
      /\ KnowParents(image, rows[i - 1])
  BY PageNumbers DEF HalfDone
<1>2. /\ w \in UnderRow(image, rows[i - 1])
      /\ \A x \in UnderRow(image, rows[i - 1]) : x[1] = w[1] => x = w
      /\ rows[i] = (UnderRow(image, rows[i - 1]) \ {w}) \cup {<<w[1], w[2], k>>, <<right, k, w[3]>>}
      /\ k \in KeyValue /\ w[2] < k /\ k < w[3]
  BY <1>1 DEF HalfDone, Whole
<1>3. PICK q \in rows[i - 1] : w \in Under(image, q)
  BY <1>2 DEF UnderRow
<1>4. q[1] = image[w[1]].parent
  BY <1>1, <1>3 DEF KnowParents
<1>5. EntryInOrder(image, top, q) /\ ~image[q[1]].leaf
  BY <1>1
<1> DEFINE c == image[q[1]]
           li == LeftIndex(c, w[1])
<1>6. /\ q[1] \in 1 .. MaxPage /\ q \in Entry /\ q[2] \in Bound /\ q[3] \in Bound
      /\ c \in Page /\ ~c.leaf /\ c.n < InternalOrder /\ SlotsInOrder(c, q[2], q[3])
      /\ c.n > 0 \/ q[1] = top
  BY <1>5 DEF EntryInOrder, Entry, Image
<1> HIDE DEF c
<1>7. q[2] \in Int /\ q[3] \in Int /\ w \in Subtrees(c, q[2], q[3])
  BY <1>3, <1>6, NodeAssumption DEF Under, c, Bound
<1>8. w[2] \in Int /\ w[3] \in Int /\ q[2] <= w[2] /\ w[3] <= q[3]
  <2>1. w \in PageNo \X Bound \X Bound /\ q[2] <= w[2] /\ w[3] <= q[3]
    BY <1>6, <1>7, BranchFacts
  <2> QED BY <2>1, NodeAssumption DEF Bound
<1>9. \A x \in Subtrees(c, q[2], q[3]) : x[1] = w[1] => x = w
  BY <1>2 DEF UnderRow, Under, c
<1>10. /\ PlaceOf(c.key, c.n, li, k) /\ q[2] <= k /\ k < q[3]
       /\ Divided(c.key, c.off, c.n, q[2], q[3], li, k, right)
              = (Subtrees(c, q[2], q[3]) \ {w}) \cup {<<w[1], w[2], k>>, <<right, k, w[3]>>}
  BY <1>2, <1>6, <1>7, <1>8, <1>9, ChildIsFound
<1> HIDE DEF li
<1>11. ASSUME NEW f \in rows[i - 1], w \in Under(image, f) PROVE f = q
  <2>1. f[1] = q[1]
    BY <1>1, <1>4, <1>11 DEF KnowParents
  <2> QED BY <1>1, <2>1 DEF Once
<1>12. rows[i] = NextWith(image, rows[i - 1], q, Divided(c.key, c.off, c.n, q[2], q[3], li, k, right))
  <2> DEFINE D == Divided(c.key, c.off, c.n, q[2], q[3], li, k, right)
  <2>1. Under(image, q) = Subtrees(c, q[2], q[3])
    BY DEF Under, c
  <2>2. \A x : x \in rows[i] <=> x \in {<<w[1], w[2], k>>, <<right, k, w[3]>>} \/ (x # w /\ \E f \in rows[i - 1] : x \in Under(image, f))
    BY <1>2, InRows
  <2>3. \A x : x \in D <=> x \in {<<w[1], w[2], k>>, <<right, k, w[3]>>} \/ (x # w /\ x \in Under(image, q))
    BY <1>10, <2>1
  <2> HIDE DEF D
  <2>4. \A x : x \in rows[i] <=> x \in D \/ \E f \in rows[i - 1] : f # q /\ x \in Under(image, f)
    BY <1>11, <2>2, <2>3
  <2>5. \A x : x \in NextWith(image, rows[i - 1], q, D) <=> x \in rows[i]
    BY <2>4, InRows
  <2> QED BY <2>5, SetExtensionality DEF D
<1>13. ASSUME NEW x \in Divided(c.key, c.off, c.n, q[2], q[3], li, k, right)
       PROVE  image[x[1]].parent = q[1]
  <2>1. x \in Under(image, q) \/ x[1] = w[1] \/ x[1] = right
    BY <1>10 DEF Under, c
  <2>2. image[right].parent = image[w[1]].parent
    BY DEF HalfDone
  <2> QED BY <1>1, <1>4, <2>1, <2>2 DEF KnowParents
<1> QED BY <1>4, <1>6, <1>10, <1>12, <1>13 DEF IsParent, c, li

(* insert_into_node (bpt.c:533) ends the climb: the parent has room, and   *)
(* with the new child in it the tree is whole again.                       *)
THEOREM ParentTakesChild ==
    ASSUME NEW image \in Image, NEW top, NEW rows, NEW h, NEW i, NEW w, NEW k, NEW right,
           HalfDone(image, top, rows, h, i, w, k, right), i > 0, right \in 1 .. MaxPage,
           NEW p, p = image[w[1]].parent, image[p].n < InternalOrder - 1,
           NEW d, d = NodeWith(image[p], LeftIndex(image[p], w[1]), k, right),
           NEW image1, image1 = Written(image, p, d)
    PROVE  /\ InTree(rows, h, p) /\ p \in 1 .. MaxPage /\ d \in Page
           /\ image1 \in Image /\ IsTree(image1, top, rows, h)
           /\ RowKeys(image1, rows[h]) = RowKeys(image, rows[h])
<1> DEFINE c == image[p]
           li == LeftIndex(c, w[1])
<1>1. /\ h \in Nat /\ h \in 0 .. MaxPage - 1 /\ i \in 0 .. h /\ i \in 1 .. h
      /\ i - 1 \in 0 .. h /\ i - 1 # h /\ image[top].parent = 0
      /\ \A j \in 0 .. h : \A e \in rows[j] :
             EntryInOrder(image, top, e) /\ (image[e[1]].leaf <=> j = h) /\ e[1] \in 1 .. MaxPage
      /\ Once(rows, h)
      /\ rows[0] = {<<top, 0, KeyMod>>}
      /\ \A j \in 1 .. h : /\ KnowParents(image, rows[j - 1])
                           /\ j # i => rows[j] = UnderRow(image, rows[j - 1])
  BY PageNumbers DEF HalfDone, EntryInOrder, Entry
<1>r. /\ \A j \in 0 .. h : \A e \in rows[j] : e[1] \in 1 .. MaxPage
      /\ Once(rows, h) /\ i - 1 \in 0 .. h /\ i - 1 # h /\ h \in 0 .. h
  BY <1>1
<1>2. k \in KeyValue
  BY DEF HalfDone
<1>p. PICK q \in rows[i - 1] : IsParent(image, top, rows, i, q, w, k, right)
  BY ParentOfHalf
<1>3. /\ q \in rows[i - 1]
      /\ q[1] = p /\ q[1] \in 1 .. MaxPage /\ q \in Entry
      /\ c \in Page /\ ~c.leaf /\ c.n < InternalOrder /\ SlotsInOrder(c, q[2], q[3])
      /\ PlaceOf(c.key, c.n, li, k) /\ q[2] <= k /\ k < q[3]
      /\ rows[i] = NextWith(image, rows[i - 1], q,
                            Divided(c.key, c.off, c.n, q[2], q[3], li, k, right))
      /\ \A x \in Divided(c.key, c.off, c.n, q[2], q[3], li, k, right) :
             image[x[1]].parent = q[1]
  BY <1>p DEF IsParent
<1>4. right \in PageNo /\ q[2] \in Int /\ q[3] \in Int
  <2>1. q \in Entry
    BY <1>3
  <2>2. q[2] \in Bound /\ q[3] \in Bound
    BY <2>1 DEF Entry
  <2> QED BY <2>2, NodeAssumption DEF PageNo, Bound
<1>5. c.n < InternalOrder - 1 /\ d = NodeWith(c, li, k, right)
  OBVIOUS
<1> DEFINE D == Divided(c.key, c.off, c.n, q[2], q[3], li, k, right)
<1>6. /\ d \in Page /\ ~d.leaf /\ d.parent = c.parent /\ SlotsInOrder(d, q[2], q[3])
      /\ Subtrees(d, q[2], q[3]) = D
  <2> HIDE DEF c, li
  <2> QED BY <1>2, <1>3, <1>4, <1>5, NodeTakesKey
<1>7. d.n = c.n + 1 /\ d.n > 0 /\ d.n < InternalOrder
  <2>1. c.n \in Nat
    BY <1>3, PageFacts
  <2>2. d.n = c.n + 1
    <3> HIDE DEF li
    <3> QED BY <1>3, <1>5, Zenon DEF NodeWith, Page
  <2> QED BY <1>5, <2>1, <2>2, NodeAssumption
<1>8. rows[i] = NextWith(image, rows[i - 1], q, D) /\ \A x \in D : image[x[1]].parent = p
  BY <1>3
<1> HIDE DEF D, li
<1>9. /\ \A x \in 1 .. MaxPage : image1[x] = IF x = p THEN d ELSE image[x]
      /\ \A x \in 1 .. MaxPage : image1[x].parent = image[x].parent
      /\ p \in 1 .. MaxPage /\ image1 \in Image
  BY <1>3, <1>6, Zenon DEF Image, Written
<1>10. \A j \in 0 .. h : \A f \in rows[j] : f[1] = p => f = q /\ j = i - 1
  <2>1. q \in rows[i - 1] /\ q[1] = p
    BY <1>3
  <2> QED BY <1>r, <2>1 DEF Once
<1>11. ASSUME NEW j \in 0 .. h, NEW f \in rows[j]
       PROVE  EntryInOrder(image1, top, f) /\ (image1[f[1]].leaf <=> j = h)
  <2>1. EntryInOrder(image, top, f) /\ (image[f[1]].leaf <=> j = h) /\ f[1] \in 1 .. MaxPage
    BY <1>1
  <2>2. CASE f[1] = p
    <3>1. f = q /\ j # h /\ image1[f[1]] = d
      BY <1>1, <1>9, <1>10, <2>2
    <3> QED BY <1>3, <1>6, <1>7, <3>1, Zenon DEF EntryInOrder
  <2>3. CASE f[1] # p
    <3>1. image1[f[1]] = image[f[1]]
      BY <1>9, <2>1, <2>3
    <3> QED BY <2>1, <3>1 DEF EntryInOrder
  <2> QED BY <2>2, <2>3
<1>12. \A j \in 0 .. h : \A f \in rows[j] : f # q => Under(image1, f) = Under(image, f)
  <2> SUFFICES ASSUME NEW j \in 0 .. h, NEW f \in rows[j], f # q PROVE Under(image1, f) = Under(image, f)
    OBVIOUS
  <2>1. f[1] \in 1 .. MaxPage /\ f[1] # p
    BY <1>r, <1>10
  <2>2. image1[f[1]] = image[f[1]]
    BY <1>9, <2>1
  <2> QED BY <2>2 DEF Under
<1>13. Under(image1, q) = D
  BY <1>3, <1>6, <1>9, Zenon DEF Under
<1>14. ASSUME NEW j \in 1 .. h PROVE rows[j] = UnderRow(image1, rows[j - 1])
  <2>1. j - 1 \in 0 .. h
    BY <1>1
  <2>2. CASE j = i
    <3>1. \A x : x \in rows[i] <=> x \in D \/ \E f \in rows[i - 1] : f # q /\ x \in Under(image, f)
      <4>1. \A x : x \in NextWith(image, rows[i - 1], q, D)
                       <=> x \in D \/ \E f \in rows[i - 1] : f # q /\ x \in Under(image, f)
        BY InRows
      <4> QED BY <1>8, <4>1
    <3>2. \A f \in rows[i - 1] : f # q => Under(image1, f) = Under(image, f)
      <4>1. i - 1 \in 0 .. h
        BY <1>1
      <4> QED BY <1>12, <4>1
    <3>3. q \in rows[i - 1] /\ \A x : x \in Under(image1, q) <=> x \in D
      BY <1>3, <1>13
    <3>4. \A x : x \in rows[i] <=> \E f \in rows[i - 1] : x \in Under(image1, f)
      BY <3>1, <3>2, <3>3
    <3>5. \A x : x \in UnderRow(image1, rows[i - 1]) <=> \E f \in rows[i - 1] : x \in Under(image1, f)
      BY InRows
    <3>6. rows[i] = UnderRow(image1, rows[i - 1])
      BY <3>4, <3>5, SetExtensionality
    <3> QED BY <2>2, <3>6
  <2>3. CASE j # i
    <3>1. \A f \in rows[j - 1] : f # q
      <4>1. q[1] = p
        BY <1>3
      <4>2. j - 1 # i - 1
        <5>1. i \in Int /\ j \in Int
          BY <1>1
        <5> QED BY <2>3, <5>1
      <4> QED BY <1>10, <2>1, <4>1, <4>2
    <3>2. \A f \in rows[j - 1] : Under(image1, f) = Under(image, f)
      BY <1>12, <2>1, <3>1
    <3> QED BY <1>1, <2>3, <3>2 DEF UnderRow
  <2> QED BY <2>2, <2>3
<1>15. ASSUME NEW j \in 1 .. h PROVE KnowParents(image1, rows[j - 1])
  <2>1. j - 1 \in 0 .. h /\ KnowParents(image, rows[j - 1])
    BY <1>1
  <2>2. ASSUME NEW f \in rows[j - 1], NEW x \in Under(image1, f) PROVE image1[x[1]].parent = f[1]
    <3>1. x \in rows[j]
      BY <1>14, <2>2, InRows
    <3>2. image1[x[1]].parent = image[x[1]].parent
      <4>1. x[1] \in 1 .. MaxPage
        BY <1>1, <1>r, <3>1
      <4> QED BY <1>9, <4>1
    <3>3. CASE f = q
      BY <1>3, <1>8, <1>13, <2>2, <3>2, <3>3
    <3>4. CASE f # q
      <4>1. x \in Under(image, f)
        BY <1>12, <2>1, <2>2, <3>4
      <4> QED BY <2>1, <2>2, <3>2, <4>1 DEF KnowParents
    <3> QED BY <3>3, <3>4
  <2> QED BY <2>2 DEF KnowParents
<1>16. image1[top].parent = 0
  <2>1. <<top, 0, KeyMod>> \in rows[0] /\ 0 \in 0 .. h
    BY <1>1
  <2>2. <<top, 0, KeyMod>>[1] \in 1 .. MaxPage
    BY <1>r, <2>1
  <2> QED BY <1>1, <1>9, <2>2
<1>17. IsTree(image1, top, rows, h)
  BY <1>1, <1>11, <1>14, <1>15, <1>16, Zenon DEF IsTree
<1>18. \A e \in rows[h] : image1[e[1]] = image[e[1]]
  <2>1. \A e \in rows[h] : e[1] \in 1 .. MaxPage /\ e[1] # p
    BY <1>r, <1>10
  <2> QED BY <1>9, <2>1
<1>19. RowKeys(image1, rows[h]) = RowKeys(image, rows[h])
  BY <1>18 DEF RowKeys
<1>20. InTree(rows, h, p)
  <2>1. q \in rows[i - 1] /\ q[1] = p
    BY <1>3
  <2> QED BY <1>r, <2>1 DEF InTree
<1> QED BY <1>6, <1>9, <1>17, <1>19, <1>20, Zenon

-----------------------------------------------------------------------------
(* A tree whose rows hang together, but for what row i leads to.           *)
CanSplit(image, top, rows, h, i) ==
    /\ h \in 0 .. MaxPage - 1 /\ i \in 0 .. h
    /\ image[top].parent = 0 /\ rows[0] = {<<top, 0, KeyMod>>}
    /\ \A j \in 0 .. h : \A e \in rows[j] :
           EntryInOrder(image, top, e) /\ (image[e[1]].leaf <=> j = h) /\ e[1] \in 1 .. MaxPage
    /\ Once(rows, h)
    /\ \A j \in 1 .. h : /\ KnowParents(image, rows[j - 1])
                         /\ j # i + 1 => rows[j] = UnderRow(image, rows[j - 1])

(* Page c with another parent. *)
Adopted(c, p) == [c EXCEPT !.parent = p]

(* It branches as before. *)
LEMMA AdoptedIsSame ==
    ASSUME NEW c \in Page, NEW p \in PageNo, NEW d, d = Adopted(c, p)
    PROVE  /\ d \in Page /\ d.parent = p /\ d.n = c.n /\ d.leaf = c.leaf /\ d.key = c.key /\ d.off = c.off
           /\ \A low, high : /\ Subtrees(d, low, high) = Subtrees(c, low, high)
                             /\ SlotsInOrder(d, low, high) <=> SlotsInOrder(c, low, high)
<1>1. d \in Page /\ d.parent = p /\ d.n = c.n /\ d.leaf = c.leaf /\ d.key = c.key /\ d.off = c.off
  BY DEF Adopted, Page
<1>2. \A low, high : Subtrees(d, low, high) = Subtrees(c, low, high)
  BY <1>1 DEF Subtrees
<1>3. \A low, high : SlotsInOrder(d, low, high) <=> SlotsInOrder(c, low, high)
  BY <1>1 DEF SlotsInOrder
<1> QED BY <1>1, <1>2, <1>3

(* The image after page p was split into l and r, with the pages S as the  *)
(* children of the new page.                                               *)
SplitImage(image, p, l, new, r, S) ==
    [x \in 1 .. MaxPage |-> IF x = p THEN l ELSE IF x = new THEN r
                            ELSE IF x \in S THEN Adopted(image[x], new) ELSE image[x]]

(* l and r stand for the page of entry q of row i, separated by m. *)
AreHalves(image, top, rows, h, i, q, l, m, new, r) ==
    /\ q \in rows[i] /\ l \in Page /\ r \in Page
    /\ l.parent = image[q[1]].parent /\ r.parent = image[q[1]].parent
    /\ (l.leaf <=> i = h) /\ (r.leaf <=> i = h)
    /\ l.n > 0 /\ r.n > 0
    /\ l.n < IF l.leaf THEN LeafOrder ELSE InternalOrder
    /\ r.n < IF r.leaf THEN LeafOrder ELSE InternalOrder
    /\ SlotsInOrder(l, q[2], m) /\ SlotsInOrder(r, m, q[3])
    /\ m \in KeyValue /\ q[2] < m /\ m < q[3]
    /\ new \in 1 .. MaxPage /\ \A j \in 0 .. h : \A e \in rows[j] : e[1] # new
    /\ i # h => /\ rows[i + 1] = NextWith(image, rows[i], q, BothSubtrees(l, r, q[2], m, q[3]))
                /\ \A x \in BothSubtrees(l, r, q[2], m, q[3]) : image[x[1]].parent = q[1]

(* The rows after that. *)
SplitRows(rows, h, i, q, m, new) ==
    [j \in 0 .. h |-> IF j = i THEN (rows[i] \ {q}) \cup {<<q[1], q[2], m>>, <<new, m, q[3]>>} ELSE rows[j]]

(* What the pages of the rows are then. *)
SplitShows(image, top, rows, h, i, q, l, new, r, S, image1) ==
    /\ image1 \in Image /\ image1[q[1]] = l /\ image1[new] = r
    /\ \A j \in 0 .. h : \A e \in rows[j] :
           e # q => image1[e[1]] = IF e[1] \in S THEN Adopted(image[e[1]], new) ELSE image[e[1]]
    /\ \A j \in 0 .. h : \A e \in rows[j] : e # q => Under(image1, e) = Under(image, e)
    /\ \A j \in 0 .. h : \A e \in rows[j] :
           e # q => EntryInOrder(image1, top, e) /\ (image1[e[1]].leaf <=> j = h)
    /\ \A j \in 0 .. h : \A e \in rows[j] :
           j # i + 1 => e[1] \notin S /\ image1[e[1]].parent = image[e[1]].parent
    /\ \A e \in rows[i] : e[1] = q[1] => e = q
    /\ \A j \in 0 .. h : \A e \in rows[j] : j # i => e # q

(* The other pages stay, but for the children that are adopted. *)
LEMMA SplitPages ==
    ASSUME NEW image \in Image, NEW top, NEW rows, NEW h, NEW i, CanSplit(image, top, rows, h, i),
           NEW q, NEW l, NEW m, NEW new, NEW r, AreHalves(image, top, rows, h, i, q, l, m, new, r),
           NEW S, S = IF i = h THEN {} ELSE {b[1] : b \in Subtrees(r, m, q[3])},
           NEW image1, image1 = SplitImage(image, q[1], l, new, r, S)
    PROVE  SplitShows(image, top, rows, h, i, q, l, new, r, S, image1)
<1>1. /\ h \in Nat /\ i \in 0 .. h
      /\ \A j \in 0 .. h : \A e \in rows[j] :
             EntryInOrder(image, top, e) /\ (image[e[1]].leaf <=> j = h) /\ e[1] \in 1 .. MaxPage
      /\ Once(rows, h)
  BY PageNumbers DEF CanSplit
<1>2. /\ q \in rows[i] /\ l \in Page /\ r \in Page /\ l.parent = image[q[1]].parent
      /\ new \in 1 .. MaxPage /\ \A j \in 0 .. h : \A e \in rows[j] : e[1] # new
  BY DEF AreHalves
<1>3. q[1] \in 1 .. MaxPage /\ q[1] # new
  BY <1>1, <1>2
<1>4. \A x \in 1 .. MaxPage : image1[x] = IF x = q[1] THEN l ELSE IF x = new THEN r
                            ELSE IF x \in S THEN Adopted(image[x], new) ELSE image[x]
  BY DEF SplitImage
<1>5. ASSUME NEW x \in 1 .. MaxPage
      PROVE  image[x] \in Page /\ Adopted(image[x], new) \in Page
  <2>1. image[x] \in Page
    BY DEF Image
  <2>2. new \in PageNo
    BY <1>2 DEF PageNo
  <2> QED BY <2>1, <2>2, AdoptedIsSame
<1>6. image1 \in Image
  BY <1>2, <1>5 DEF SplitImage, Image
<1>7. image1[q[1]] = l /\ image1[new] = r
  BY <1>2, <1>3, <1>4
<1>8. \A j \in 0 .. h : \A e \in rows[j] : e[1] = q[1] => e = q /\ j = i
  BY <1>1, <1>2 DEF Once
<1>9. \A j \in 0 .. h : \A e \in rows[j] : e[1] \in S => j = i + 1
  <2> SUFFICES ASSUME NEW j \in 0 .. h, NEW e \in rows[j], e[1] \in S PROVE j = i + 1
    OBVIOUS
  <2>1. i # h /\ i + 1 \in 0 .. h
    BY <1>1
  <2>2. PICK b \in Subtrees(r, m, q[3]) : e[1] = b[1]
    BY <2>1
  <2>3. b \in rows[i + 1]
    <3> DEFINE both == BothSubtrees(l, r, q[2], m, q[3])
    <3>0. b \in both
      BY <2>2 DEF BothSubtrees
    <3>1. \A x : x \in NextWith(image, rows[i], q, both)
                     <=> x \in both \/ \E f \in rows[i] : f # q /\ x \in Under(image, f)
      <4> HIDE DEF both
      <4> QED BY InRows
    <3>2. rows[i + 1] = NextWith(image, rows[i], q, both)
      BY <2>1 DEF AreHalves
    <3> HIDE DEF both
    <3> QED BY <3>0, <3>1, <3>2
  <2> QED BY <1>1, <2>1, <2>2, <2>3 DEF Once
<1>10. ASSUME NEW j \in 0 .. h, NEW e \in rows[j], e # q
       PROVE  /\ image1[e[1]] = IF e[1] \in S THEN Adopted(image[e[1]], new) ELSE image[e[1]]
              /\ Under(image1, e) = Under(image, e)
              /\ EntryInOrder(image1, top, e) /\ (image1[e[1]].leaf <=> j = h)
  <2>1. /\ e[1] # q[1] /\ e[1] # new /\ e[1] \in 1 .. MaxPage
        /\ EntryInOrder(image, top, e) /\ (image[e[1]].leaf <=> j = h)
    BY <1>1, <1>2, <1>8, <1>10
  <2>2. image1[e[1]] = IF e[1] \in S THEN Adopted(image[e[1]], new) ELSE image[e[1]]
    BY <1>4, <2>1
  <2> DEFINE c == image[e[1]]
             d == image1[e[1]]
  <2>c. c \in Page /\ d = (IF e[1] \in S THEN Adopted(c, new) ELSE c) /\ new \in PageNo
    BY <1>2, <1>5, <2>1, <2>2 DEF PageNo
  <2> HIDE DEF c, d
  <2>3. d.n = c.n /\ d.leaf = c.leaf
    BY <2>c, AdoptedIsSame
  <2>4. Subtrees(d, e[2], e[3]) = Subtrees(c, e[2], e[3]) /\ (SlotsInOrder(c, e[2], e[3]) => SlotsInOrder(d, e[2], e[3]))
    BY <2>c, AdoptedIsSame
  <2>5. EntryInOrder(image1, top, e)
    BY <2>1, <2>3, <2>4 DEF EntryInOrder, c, d
  <2>6. Under(image1, e) = Under(image, e)
    BY <2>4 DEF Under, c, d
  <2>7. image1[e[1]].leaf <=> j = h
    BY <2>1, <2>3 DEF c, d
  <2> QED BY <2>2, <2>5, <2>6, <2>7
<1>11. ASSUME NEW j \in 0 .. h, NEW e \in rows[j], j # i + 1
       PROVE  e[1] \notin S /\ image1[e[1]].parent = image[e[1]].parent
  <2>1. e[1] \notin S
    BY <1>9, <1>11
  <2>2. CASE e = q
    BY <1>2, <1>7, <2>1, <2>2
  <2>3. CASE e # q
    <3>1. image1[e[1]] = image[e[1]]
      BY <1>10, <2>1, <2>3
    <3> QED BY <2>1, <3>1
  <2> QED BY <2>2, <2>3
<1>12. \A j \in 0 .. h : \A e \in rows[j] : j # i => e # q
  BY <1>1, <1>2 DEF Once
<1>13. \A e \in rows[i] : e[1] = q[1] => e = q
  BY <1>1, <1>8
<1> QED BY <1>6, <1>7, <1>10, <1>11, <1>12, <1>13 DEF SplitShows

(* The rows have one page more. *)
LEMMA SplitPagesStay ==
    ASSUME NEW rows, NEW h, NEW i \in 0 .. h, NEW q \in rows[i], NEW m, NEW new,
           NEW x, InTree(SplitRows(rows, h, i, q, m, new), h, x)
    PROVE  InTree(rows, h, x) \/ x = new
<1> DEFINE rows1 == SplitRows(rows, h, i, q, m, new)
           a == <<q[1], q[2], m>>
           b == <<new, m, q[3]>>
<1>1. rows1[i] = (rows[i] \ {q}) \cup {a, b} /\ \A j \in 0 .. h : j # i => rows1[j] = rows[j]
  BY DEF SplitRows
<1>2. a[1] = q[1] /\ b[1] = new
  OBVIOUS
<1>3. PICK j \in 0 .. h : \E f \in rows1[j] : f[1] = x
  BY DEF InTree
<1> HIDE DEF rows1, a, b
<1>4. PICK f \in rows1[j] : f[1] = x
  BY <1>3
<1>5. x = new \/ \E g \in rows[j] : g[1] = x
  BY <1>1, <1>2, <1>4
<1> QED BY <1>5 DEF InTree

(* A split leaves the tree half done: the row above leads to the page that *)
(* was split, which is the left half now.                                  *)
LEMMA SplitIsHalfDone ==
    ASSUME NEW image \in Image, NEW top, NEW rows, NEW h, NEW i, CanSplit(image, top, rows, h, i),
           NEW q, NEW l, NEW m, NEW new, NEW r, AreHalves(image, top, rows, h, i, q, l, m, new, r),
           NEW S, S = IF i = h THEN {} ELSE {b[1] : b \in Subtrees(r, m, q[3])},
           NEW image1, image1 = SplitImage(image, q[1], l, new, r, S)
    PROVE  image1 \in Image /\ HalfDone(image1, top, SplitRows(rows, h, i, q, m, new), h, i, q, m, new)
<1>1. /\ h \in Nat /\ h \in 0 .. MaxPage - 1 /\ i \in 0 .. h /\ 0 \in 0 .. h
      /\ image[top].parent = 0 /\ rows[0] = {<<top, 0, KeyMod>>}
      /\ \A j \in 0 .. h : \A e \in rows[j] :
             EntryInOrder(image, top, e) /\ (image[e[1]].leaf <=> j = h) /\ e[1] \in 1 .. MaxPage
      /\ Once(rows, h)
      /\ \A j \in 1 .. h : /\ KnowParents(image, rows[j - 1])
                           /\ j # i + 1 => rows[j] = UnderRow(image, rows[j - 1])
  BY PageNumbers DEF CanSplit
<1>2. /\ q \in rows[i] /\ l \in Page /\ r \in Page
      /\ l.parent = image[q[1]].parent /\ r.parent = image[q[1]].parent
      /\ (l.leaf <=> i = h) /\ (r.leaf <=> i = h)
      /\ l.n > 0 /\ r.n > 0
      /\ l.n < IF l.leaf THEN LeafOrder ELSE InternalOrder
      /\ r.n < IF r.leaf THEN LeafOrder ELSE InternalOrder
      /\ SlotsInOrder(l, q[2], m) /\ SlotsInOrder(r, m, q[3])
      /\ m \in KeyValue /\ q[2] < m /\ m < q[3]
      /\ new \in 1 .. MaxPage /\ \A j \in 0 .. h : \A e \in rows[j] : e[1] # new
  BY DEF AreHalves
<1>x. SplitShows(image, top, rows, h, i, q, l, new, r, S, image1)
  BY SplitPages
<1>3. /\ image1 \in Image /\ image1[q[1]] = l /\ image1[new] = r
      /\ \A j \in 0 .. h : \A e \in rows[j] :
             e # q => image1[e[1]] = IF e[1] \in S THEN Adopted(image[e[1]], new) ELSE image[e[1]]
      /\ \A j \in 0 .. h : \A e \in rows[j] : e # q => Under(image1, e) = Under(image, e)
      /\ \A j \in 0 .. h : \A e \in rows[j] :
             e # q => EntryInOrder(image1, top, e) /\ (image1[e[1]].leaf <=> j = h)
      /\ \A j \in 0 .. h : \A e \in rows[j] :
             j # i + 1 => e[1] \notin S /\ image1[e[1]].parent = image[e[1]].parent
      /\ \A e \in rows[i] : e[1] = q[1] => e = q
      /\ \A j \in 0 .. h : \A e \in rows[j] : j # i => e # q
  BY <1>x DEF SplitShows
<1> DEFINE a == <<q[1], q[2], m>>
           b == <<new, m, q[3]>>
           rows1 == SplitRows(rows, h, i, q, m, new)
<1>4. /\ rows1[i] = (rows[i] \ {q}) \cup {a, b}
      /\ \A j \in 0 .. h : j # i => rows1[j] = rows[j]
  BY <1>1 DEF SplitRows
<1>5. a[1] = q[1] /\ a[2] = q[2] /\ a[3] = m /\ b[1] = new /\ b[2] = m /\ b[3] = q[3]
  OBVIOUS
<1>6. q \in Entry /\ a \in Entry /\ b \in Entry
  <2>1. q \in Entry
    BY <1>1, <1>2 DEF EntryInOrder
  <2>2. m \in Bound
    BY <1>2, NodeAssumption DEF Bound, KeyValue
  <2> QED BY <1>2, <2>1, <2>2 DEF Entry
<1>7. /\ EntryInOrder(image1, top, a) /\ (image1[a[1]].leaf <=> i = h)
      /\ EntryInOrder(image1, top, b) /\ (image1[b[1]].leaf <=> i = h)
  BY <1>2, <1>3, <1>5, <1>6 DEF EntryInOrder
<1>8. Under(image1, a) = Subtrees(l, q[2], m) /\ Under(image1, b) = Subtrees(r, m, q[3])
  BY <1>3, <1>5 DEF Under
<1> HIDE DEF a, b, rows1
<1>9. \A j \in 0 .. h : \A e \in rows1[j] : (e \in rows[j] /\ e # q) \/ (j = i /\ (e = a \/ e = b))
  BY <1>3, <1>4
<1>10. \A j \in 0 .. h : \A e \in rows1[j] : EntryInOrder(image1, top, e) /\ (image1[e[1]].leaf <=> j = h)
  BY <1>3, <1>7, <1>9
<1>11. Once(rows1, h)
  <2> SUFFICES ASSUME NEW j \in 0 .. h, NEW g \in 0 .. h, NEW e \in rows1[j], NEW f \in rows1[g], e[1] = f[1]
               PROVE  j = g /\ e = f
    BY DEF Once
  <2>1. /\ (e \in rows[j] /\ e # q) \/ (j = i /\ (e = a \/ e = b))
        /\ (f \in rows[g] /\ f # q) \/ (g = i /\ (f = a \/ f = b))
    BY <1>9
  <2>2. \A x \in 0 .. h : \A y \in rows[x] : y # q => y[1] # a[1] /\ y[1] # b[1]
    BY <1>1, <1>2, <1>5 DEF Once
  <2>3. a[1] # b[1]
    BY <1>1, <1>2, <1>5
  <2>4. e \in rows[j] /\ f \in rows[g] => j = g /\ e = f
    BY <1>1 DEF Once
  <2> QED BY <2>1, <2>2, <2>3, <2>4
<1>12. i > 0 => rows1[0] = {<<top, 0, KeyMod>>}
  BY <1>1, <1>4
<1>13. image1[top].parent = 0
  <2> DEFINE e == <<top, 0, KeyMod>>
  <2>1. e \in rows[0] /\ 0 # i + 1 /\ e[1] = top
    BY <1>1
  <2> HIDE DEF e
  <2>2. image1[e[1]].parent = image[e[1]].parent
    BY <1>1, <1>3, <2>1
  <2> QED BY <1>1, <2>1, <2>2
<1>14. Whole(image1, top, rows1, i) = rows[i]
  <2>1. CASE i = 0
    BY <1>1, <2>1 DEF Whole
  <2>2. CASE i # 0
    <3>1. i \in 1 .. h /\ i - 1 \in 0 .. h /\ i - 1 # i /\ i # i + 1
      BY <1>1, <2>2
    <3>2. rows1[i - 1] = rows[i - 1] /\ \A f \in rows[i - 1] : Under(image1, f) = Under(image, f)
      BY <1>3, <1>4, <3>1
    <3>3. rows[i] = UnderRow(image, rows[i - 1])
      BY <1>1, <3>1
    <3> QED BY <2>2, <3>2, <3>3 DEF Whole, UnderRow
  <2> QED BY <2>1, <2>2
<1>15. i # h => /\ i + 1 \in 0 .. h
                /\ \A x : x \in rows[i + 1] <=> \/ x \in Under(image1, a) \/ x \in Under(image1, b)
                                                \/ \E f \in rows[i] : f # q /\ x \in Under(image, f)
                /\ \A x : x \in Under(image1, a) \/ x \in Under(image1, b) => image[x[1]].parent = q[1]
  <2> SUFFICES ASSUME i # h
               PROVE  /\ i + 1 \in 0 .. h
                      /\ \A x : x \in rows[i + 1] <=> \/ x \in Under(image1, a) \/ x \in Under(image1, b)
                                                      \/ \E f \in rows[i] : f # q /\ x \in Under(image, f)
                      /\ \A x : x \in Under(image1, a) \/ x \in Under(image1, b) => image[x[1]].parent = q[1]
    OBVIOUS
  <2> DEFINE both == Under(image1, a) \cup Under(image1, b)
  <2>1. rows[i + 1] = NextWith(image, rows[i], q, both) /\ \A x \in both : image[x[1]].parent = q[1]
    BY <1>8 DEF AreHalves, BothSubtrees
  <2>2. \A x : x \in both <=> x \in Under(image1, a) \/ x \in Under(image1, b)
    OBVIOUS
  <2> HIDE DEF both
  <2>3. \A x : x \in NextWith(image, rows[i], q, both) <=> x \in both \/ \E f \in rows[i] : f # q /\ x \in Under(image, f)
    BY InRows
  <2>4. \A x : x \in rows[i + 1] <=> x \in both \/ \E f \in rows[i] : f # q /\ x \in Under(image, f)
    BY <2>1, <2>3
  <2> QED BY <1>1, <2>1, <2>2, <2>4
<1>16. ASSUME NEW j \in 1 .. h, j # i PROVE rows1[j] = UnderRow(image1, rows1[j - 1])
  <2>1. j \in 0 .. h /\ j - 1 \in 0 .. h /\ rows1[j] = rows[j]
    BY <1>1, <1>4, <1>16
  <2>2. CASE j = i + 1
    <3>1. j - 1 = i /\ i # h /\ i \in 0 .. h
      BY <1>1, <2>2
    <3>2. \A f \in rows[i] : f # q => Under(image1, f) = Under(image, f)
      BY <1>3, <3>1
    <3>3. \A x : x \in rows[j] <=> \E f \in rows1[i] : x \in Under(image1, f)
      <4>1. \A x : x \in rows[j] <=> \/ x \in Under(image1, a) \/ x \in Under(image1, b)
                                      \/ \E f \in rows[i] : f # q /\ x \in Under(image1, f)
        BY <1>15, <2>2, <3>1, <3>2
      <4>2. \A f : f \in rows1[i] <=> (f \in rows[i] /\ f # q) \/ f = a \/ f = b
        BY <1>4
      <4> QED BY <4>1, <4>2
    <3>4. \A x : x \in UnderRow(image1, rows1[i]) <=> \E f \in rows1[i] : x \in Under(image1, f)
      BY InRows
    <3>5. rows[j] = UnderRow(image1, rows1[i])
      BY <3>3, <3>4, SetExtensionality
    <3> QED BY <2>1, <3>1, <3>5
  <2>3. CASE j # i + 1
    <3>1. j - 1 # i /\ rows[j] = UnderRow(image, rows[j - 1])
      BY <1>1, <2>3
    <3>2. rows1[j - 1] = rows[j - 1] /\ \A f \in rows[j - 1] : Under(image1, f) = Under(image, f)
      <4>1. j - 1 \in 0 .. h /\ rows1[j - 1] = rows[j - 1]
        BY <1>4, <2>1, <3>1
      <4>2. \A f \in rows[j - 1] : f # q
        BY <1>3, <3>1, <4>1
      <4> QED BY <1>3, <4>1, <4>2
    <3> QED BY <2>1, <3>1, <3>2 DEF UnderRow
  <2> QED BY <2>2, <2>3
<1>17. ASSUME i # h, NEW x, x \in rows[i + 1]
       PROVE  /\ x # q /\ EntryInOrder(image, top, x) /\ x[1] # top
              /\ \A y \in rows[i + 1] : y[1] = x[1] => y = x
              /\ image1[x[1]].parent = IF x[1] \in S THEN new ELSE image[x[1]].parent
  <2>1. i + 1 \in 0 .. h /\ i + 1 # i /\ i + 1 # 0
    BY <1>1, <1>17
  <2>2. x # q /\ EntryInOrder(image, top, x) /\ image[x[1]] \in Page
    BY <1>1, <1>3, <1>17, <2>1 DEF EntryInOrder, Entry, Image
  <2>3. \A y \in rows[i + 1] : y[1] = x[1] => y = x
    BY <1>1, <1>17, <2>1 DEF Once
  <2>4. x[1] # top
    <3> DEFINE e == <<top, 0, KeyMod>>
    <3>1. e \in rows[0] /\ e[1] = top
      BY <1>1
    <3> HIDE DEF e
    <3> QED BY <1>1, <1>17, <2>1, <3>1 DEF Once
  <2>5. image1[x[1]] = IF x[1] \in S THEN Adopted(image[x[1]], new) ELSE image[x[1]]
    BY <1>3, <1>17, <2>1, <2>2
  <2>6. Adopted(image[x[1]], new).parent = new
    <3>1. new \in PageNo
      BY <1>2 DEF PageNo
    <3> QED BY <2>2, <3>1, AdoptedIsSame
  <2> QED BY <2>2, <2>3, <2>4, <2>5, <2>6
<1>18. i # h => /\ \A z \in S : \E y \in Under(image1, b) : z = y[1]
                /\ \A x : x \in Under(image1, a) => x \in rows[i + 1] /\ x[3] <= m
                /\ \A x : x \in Under(image1, b) => x \in rows[i + 1] /\ m <= x[2] /\ x[1] \in S
                /\ KnowParents(image, rows[i])
  <2> SUFFICES ASSUME i # h
               PROVE  /\ \A z \in S : \E y \in Under(image1, b) : z = y[1]
                      /\ \A x : x \in Under(image1, a) => x \in rows[i + 1] /\ x[3] <= m
                      /\ \A x : x \in Under(image1, b) => x \in rows[i + 1] /\ m <= x[2] /\ x[1] \in S
                      /\ KnowParents(image, rows[i])
    OBVIOUS
  <2>0. S = {y[1] : y \in Under(image1, b)}
    BY <1>8
  <2>1. (\A z \in S : \E y \in Under(image1, b) : z = y[1]) /\ \A x \in Under(image1, b) : x[1] \in S
    <3> DEFINE branches == Under(image1, b)
    <3> HIDE DEF branches
    <3> QED BY <2>0 DEF branches
  <2>2. ~l.leaf /\ ~r.leaf /\ l.n < InternalOrder /\ r.n < InternalOrder
    BY <1>2
  <2>3. q[2] \in Bound /\ m \in Bound /\ q[3] \in Bound
    BY <1>2, <1>6, NodeAssumption DEF Entry, Bound, KeyValue
  <2>4. \A x \in Subtrees(l, q[2], m) : x[3] <= m
    BY <1>2, <2>2, <2>3, BranchFacts
  <2>5. \A x \in Subtrees(r, m, q[3]) : m <= x[2]
    BY <1>2, <2>2, <2>3, BranchFacts
  <2>6. i + 1 \in 1 .. h /\ (i + 1) - 1 = i
    BY <1>1
  <2>7. KnowParents(image, rows[i])
    BY <1>1, <2>6
  <2> QED BY <1>8, <1>15, <2>1, <2>4, <2>5, <2>7
<1>19. ASSUME NEW j \in 1 .. h PROVE KnowParents(image1, rows1[j - 1])
  <2>1. j \in 0 .. h /\ j - 1 \in 0 .. h
    BY <1>1
  <2>2. CASE j = i + 1
    <3>1. j - 1 = i /\ i # h /\ i \in 0 .. h
      BY <1>1, <2>2
    <3>2. ASSUME NEW f \in rows[i], f # q, NEW x \in Under(image1, f) PROVE image1[x[1]].parent = f[1]
      <4>1. x \in Under(image, f)
        BY <1>3, <3>1, <3>2
      <4>2. x \in rows[i + 1] /\ image[x[1]].parent = f[1]
        BY <1>15, <1>18, <3>1, <3>2, <4>1 DEF KnowParents
      <4>3. f[1] # q[1]
        BY <1>3, <3>2
      <4>4. x[1] \notin S
        <5> SUFFICES ASSUME x[1] \in S PROVE FALSE
          OBVIOUS
        <5>1. PICK y \in Under(image1, b) : x[1] = y[1]
          BY <1>18, <3>1
        <5>2. image[y[1]].parent = q[1]
          BY <1>15, <3>1, <5>1
        <5> QED BY <4>2, <4>3, <5>1, <5>2
      <4> QED BY <1>17, <3>1, <4>2, <4>4
    <3>3. ASSUME NEW x \in Under(image1, a) PROVE image1[x[1]].parent = a[1]
      <4>1. x \in rows[i + 1] /\ image[x[1]].parent = q[1] /\ x[3] <= m
        BY <1>15, <1>18, <3>1, <3>3
      <4>2. EntryInOrder(image, top, x) /\ image[x[1]].n > 0
        BY <1>17, <3>1, <4>1 DEF EntryInOrder
      <4>3. x[2] \in Int /\ x[3] \in Int /\ x[2] < x[3] /\ m \in Int
        BY <1>2, <4>2, EntryHasKeys, KeysAreNumbers
      <4>4. x[1] \notin S
        <5> SUFFICES ASSUME x[1] \in S PROVE FALSE
          OBVIOUS
        <5>1. PICK y \in Under(image1, b) : x[1] = y[1]
          BY <1>18, <3>1
        <5>2. y \in rows[i + 1] /\ m <= y[2]
          BY <1>18, <3>1, <5>1
        <5>3. y = x
          BY <1>17, <3>1, <4>1, <5>1, <5>2
        <5> QED BY <4>1, <4>3, <5>2, <5>3
      <4> QED BY <1>5, <1>17, <3>1, <4>1, <4>4
    <3>4. ASSUME NEW x \in Under(image1, b) PROVE image1[x[1]].parent = b[1]
      <4>1. x \in rows[i + 1] /\ x[1] \in S
        BY <1>18, <3>1, <3>4
      <4> QED BY <1>5, <1>17, <3>1, <4>1
    <3>5. \A f \in rows1[i] : (f \in rows[i] /\ f # q) \/ f = a \/ f = b
      BY <1>4
    <3> QED BY <3>1, <3>2, <3>3, <3>4, <3>5 DEF KnowParents
  <2>3. CASE j # i + 1
    <3>1. j - 1 # i /\ rows[j] = UnderRow(image, rows[j - 1]) /\ KnowParents(image, rows[j - 1])
      BY <1>1, <2>3
    <3>2. rows1[j - 1] = rows[j - 1] /\ \A f \in rows[j - 1] : Under(image1, f) = Under(image, f)
      BY <1>3, <1>4, <2>1, <3>1
    <3>3. \A x \in rows[j] : image1[x[1]].parent = image[x[1]].parent
      BY <1>3, <2>1, <2>3
    <3>4. \A f \in rows[j - 1] : \A x \in Under(image, f) : x \in rows[j]
      BY <3>1 DEF UnderRow
    <3> QED BY <3>1, <3>2, <3>3, <3>4 DEF KnowParents
  <2> QED BY <2>2, <2>3
<1>20. rows1[i] = (rows[i] \ {q}) \cup {<<q[1], q[2], m>>, <<new, m, q[3]>>}
  BY <1>4 DEF a, b
<1>21. image1[new].parent = image1[q[1]].parent
  BY <1>2, <1>3
<1>22. HalfDone(image1, top, rows1, h, i, q, m, new)
  <2> DEFINE w == Whole(image1, top, rows1, i)
  <2>1. q \in w /\ \A x \in w : x[1] = q[1] => x = q
    BY <1>2, <1>3, <1>14
  <2>2. rows1[i] = (w \ {q}) \cup {<<q[1], q[2], m>>, <<new, m, q[3]>>}
    BY <1>14, <1>20
  <2>3. image1[q[1]].n > 0 /\ image1[new].n > 0
    BY <1>2, <1>3
  <2>4. \A j \in 1 .. h : /\ KnowParents(image1, rows1[j - 1])
                          /\ j # i => rows1[j] = UnderRow(image1, rows1[j - 1])
    BY <1>16, <1>19
  <2> QED BY <1>1, <1>2, <1>10, <1>11, <1>12, <1>13, <1>21, <2>1, <2>2, <2>3, <2>4 DEF HalfDone
<1> QED BY <1>3, <1>22 DEF rows1

-----------------------------------------------------------------------------
(* Page new, made from what the file had there. *)
Fresh(new, node) == [at |-> new, node |-> node]

(* One key more. *)
Plus(k, keys) == {k} \cup keys

(* insert_into_leaf_after_splitting (bpt.c:457): what it leaves is half    *)
(* done in the row of leaves.                                              *)
THEOREM LeafIsHalfDone ==
    ASSUME NEW image \in Image, NEW top, NEW rows, NEW h, IsTree(image, top, rows, h),
           NEW e \in rows[h], NEW c, c = image[e[1]], c.n = LeafOrder - 1,
           NEW k \in KeyValue, Holds(e, k), k \notin KeysOf(c),
           NEW new \in 1 .. MaxPage, NEW node \in Page, ZeroFrom(node.off, 1),
           ~InTree(rows, h, new),
           NEW half, half = LeafHalves(c, k, Fresh(new, node)), NEW m, m = half.right.key[0],
           NEW image1, image1 = Written(Written(image, e[1], half.left), new, half.right),
           NEW rows1, rows1 = SplitRows(rows, h, h, e, m, new)
    PROVE  /\ image1 \in Image /\ HalfDone(image1, top, rows1, h, h, e, m, new)
           /\ RowKeys(image1, rows1[h]) = Plus(k, RowKeys(image, rows[h]))
           /\ \A x : InTree(rows1, h, x) => InTree(rows, h, x) \/ x = new
           /\ e[1] \in 1 .. MaxPage /\ half.left \in Page /\ half.right \in Page /\ m \in KeyValue
           /\ InTree(rows, h, e[1])
<1> DEFINE l == half.left
           r == half.right
<1>1. /\ h \in Nat /\ h \in 0 .. h /\ h \in 0 .. MaxPage - 1
      /\ \A j \in 0 .. h : \A f \in rows[j] :
             EntryInOrder(image, top, f) /\ (image[f[1]].leaf <=> j = h) /\ f[1] \in 1 .. MaxPage
      /\ \A j \in 0 .. h : \A f \in rows[j] : f[1] # new
  BY PageNumbers DEF IsTree, EntryInOrder, Entry, InTree
<1>2. /\ EntryInOrder(image, top, e) /\ c.leaf /\ c \in Page /\ SlotsInOrder(c, e[2], e[3])
      /\ e[2] \in Int /\ e[3] \in Int /\ e[1] \in 1 .. MaxPage /\ e[1] # new
  BY <1>1, NodeAssumption DEF EntryInOrder, Entry, Image, Bound
<1>3. LET f == Fresh(new, node)
      IN  f \in [at : PageNo, node : Page] /\ f.at = new /\ f.node = node
  BY DEF PageNo, Fresh
<1>4. /\ l \in Page /\ r \in Page /\ l.leaf /\ r.leaf /\ l.n > 0 /\ r.n > 0
      /\ l.n \in 1 .. LeafOrder - 1 /\ r.n \in 1 .. LeafOrder - 1
      /\ SlotsInOrder(l, e[2], m) /\ SlotsInOrder(r, m, e[3])
      /\ e[2] <= m /\ m < e[3]
      /\ KeysOf(l) \cup KeysOf(r) = KeysOf(c) \cup {k}
      /\ l.parent = c.parent /\ r.parent = c.parent
  BY <1>2, <1>3, LeafSplits DEF Holds
<1>5. l.n < LeafOrder /\ r.n < LeafOrder
  BY <1>4, NodeAssumption
<1> HIDE DEF l, r
<1>6. m \in KeyValue /\ e[2] < m
  <2>1. l.n \in Nat /\ l.n > 0 /\ l.key[0] \in Int /\ 0 \in 0 .. l.n - 1
    BY <1>4, PageFacts
  <2>2. e[2] <= l.key[0] /\ l.key[0] < m
    BY <1>4, <2>1 DEF SlotsInOrder
  <2>3. m \in KeyValue /\ m \in Int
    BY <1>4, PageFacts DEF r
  <2> QED BY <1>2, <2>1, <2>2, <2>3
<1>7. CanSplit(image, top, rows, h, h)
  <2>1. Once(rows, h) /\ h # h + 1
    <3>1. top \in 1 .. MaxPage
      <4> DEFINE t == <<top, 0, KeyMod>>
      <4>1. t \in rows[0] /\ t[1] = top
        BY DEF IsTree
      <4> HIDE DEF t
      <4> QED BY <1>1, <4>1
    <3> QED BY <1>1, <3>1, OnePlace
  <2> QED BY <1>1, <2>1 DEF IsTree, CanSplit
<1>8. AreHalves(image, top, rows, h, h, e, l, m, new, r)
  BY <1>1, <1>2, <1>3, <1>4, <1>5, <1>6 DEF AreHalves
<1>9. image1 = SplitImage(image, e[1], l, new, r, {})
  BY <1>2, <1>3 DEF Written, SplitImage, Image, l, r
<1>10. image1 \in Image /\ HalfDone(image1, top, rows1, h, h, e, m, new)
  BY <1>7, <1>8, <1>9, SplitIsHalfDone
<1>11. SplitShows(image, top, rows, h, h, e, l, new, r, {}, image1)
  BY <1>7, <1>8, <1>9, SplitPages
<1>12. UNION {KeysOf(image1[f[1]]) : f \in rows1[h]} = {k} \cup UNION {KeysOf(image[f[1]]) : f \in rows[h]}
  <2> DEFINE a == <<e[1], e[2], m>>
             b == <<new, m, e[3]>>
  <2>1. rows1[h] = (rows[h] \ {e}) \cup {a, b}
    BY <1>1 DEF SplitRows
  <2>2. image1[a[1]] = l /\ image1[b[1]] = r
    BY <1>11 DEF SplitShows
  <2>3. \A f \in rows[h] : f # e => image1[f[1]] = image[f[1]]
    BY <1>1, <1>11 DEF SplitShows
  <2> HIDE DEF a, b
  <2>4. \A x : x \in UNION {KeysOf(image1[f[1]]) : f \in rows1[h]}
                   <=> \/ x \in KeysOf(l) \cup KeysOf(r)
                       \/ \E f \in rows[h] : f # e /\ x \in KeysOf(image[f[1]])
    BY <2>1, <2>2, <2>3
  <2>5. \A x : x \in UNION {KeysOf(image[f[1]]) : f \in rows[h]}
                   <=> x \in KeysOf(c) \/ \E f \in rows[h] : f # e /\ x \in KeysOf(image[f[1]])
    OBVIOUS
  <2>6. \A x : x \in KeysOf(l) \cup KeysOf(r) <=> x \in KeysOf(c) \/ x = k
    BY <1>4
  <2> DEFINE old == UNION {KeysOf(image[f[1]]) : f \in rows[h]}
             now == UNION {KeysOf(image1[f[1]]) : f \in rows1[h]}
  <2> HIDE DEF old, now
  <2>7. \A x : x \in now <=> x \in old \/ x = k
    BY <2>4, <2>5, <2>6 DEF old, now
  <2>8. now = {k} \cup old
    BY <2>7
  <2> QED BY <2>8 DEF old, now
<1>13. ASSUME NEW x, InTree(rows1, h, x) PROVE InTree(rows, h, x) \/ x = new
  BY <1>1, <1>13, SplitPagesStay
<1>14. InTree(rows, h, e[1])
  BY <1>1 DEF InTree
<1>15. RowKeys(image1, rows1[h]) = Plus(k, RowKeys(image, rows[h]))
  BY <1>12 DEF RowKeys, Plus
<1> QED BY <1>2, <1>4, <1>6, <1>10, <1>13, <1>14, <1>15 DEF l, r

(* Every row has its pages, and row i one more. *)
Grown(rows, rows1, h, i, new) ==
    \A j \in 0 .. h : \A e \in rows1[j] : (j = i /\ e[1] = new) \/ \E f \in rows[j] : f[1] = e[1]

LEMMA SplitGrows ==
    ASSUME NEW rows, NEW h, NEW i \in 0 .. h, NEW q \in rows[i], NEW m, NEW new,
           NEW rows1, rows1 = SplitRows(rows, h, i, q, m, new)
    PROVE  Grown(rows, rows1, h, i, new)
<1>1. /\ rows1[i] = (rows[i] \ {q}) \cup {<<q[1], q[2], m>>, <<new, m, q[3]>>}
      /\ \A j \in 0 .. h : j # i => rows1[j] = rows[j]
  BY DEF SplitRows
<1>2. ASSUME NEW j \in 0 .. h, NEW e \in rows1[j]
      PROVE  (j = i /\ e[1] = new) \/ \E f \in rows[j] : f[1] = e[1]
  <2>1. CASE j # i
    BY <1>1, <2>1
  <2>2. CASE j = i
    <3>1. e \in rows[i] \/ e = <<q[1], q[2], m>> \/ e = <<new, m, q[3]>>
      BY <1>1, <2>2
    <3> QED BY <2>2, <3>1
  <2> QED BY <2>1, <2>2
<1> QED BY <1>2 DEF Grown

(* The pages an internal page leads to. *)
Children(r) == {r.off[j] : j \in 0 .. r.n}

(* The halves of the parent p of page left with the new page right.        *)
ParentHalves(image, p, left, k, right, new, node) ==
    NodeHalves(image[p], LeftIndex(image[p], left), k, right, Fresh(new, node))

(* insert_into_node_after_splitting (bpt.c:551) for the full parent of the *)
(* page that was split: what it leaves is half done one row higher, and    *)
(* the row of leaves is as it was.                                         *)
THEOREM NodeIsHalfDone ==
    ASSUME NEW image \in Image, NEW top, NEW rows, NEW h, NEW i, NEW w, NEW k, NEW right \in 1 .. MaxPage,
           HalfDone(image, top, rows, h, i, w, k, right), i > 0,
           NEW p, p = image[w[1]].parent, ~(image[p].n < InternalOrder - 1),
           NEW new \in 1 .. MaxPage, NEW node \in Page, ~node.leaf,
           ~InTree(rows, h, new),
           NEW half, half = ParentHalves(image, p, w[1], k, right, new, node),
           NEW image1, image1 = SplitImage(image, p, half.left, new, half.right, Children(half.right))
    PROVE  /\ image1 \in Image /\ p \in 1 .. MaxPage
           /\ \E q, rows1 : /\ HalfDone(image1, top, rows1, h, i - 1, q, half.middle, new)
                            /\ q[1] = p
                            /\ \A x : InTree(rows1, h, x) => InTree(rows, h, x) \/ x = new
                            /\ Grown(rows, rows1, h, i - 1, new)
                            /\ RowKeys(image1, rows1[h]) = RowKeys(image, rows[h])
                            /\ Linked(image, rows[h]) => Linked(image1, rows1[h])
           /\ half.left \in Page /\ half.right \in Page /\ half.middle \in KeyValue
           /\ half.right.n \in 0 .. InternalOrder - 1
           /\ \A x \in Children(half.right) : x \in 1 .. MaxPage /\ InTree(rows, h, x)
           /\ InTree(rows, h, p)
<1> DEFINE c == image[p]
           li == LeftIndex(c, w[1])
           l == half.left
           r == half.right
           m == half.middle
           S == Children(r)
<1>1. /\ h \in Nat /\ h \in 0 .. MaxPage - 1 /\ i \in 0 .. h /\ i \in 1 .. h
      /\ i - 1 \in 0 .. h /\ i - 1 # h /\ (i - 1) + 1 = i /\ image[top].parent = 0
      /\ \A j \in 0 .. h : \A e \in rows[j] :
             EntryInOrder(image, top, e) /\ (image[e[1]].leaf <=> j = h) /\ e[1] \in 1 .. MaxPage
      /\ Once(rows, h)
      /\ rows[0] = {<<top, 0, KeyMod>>}
      /\ \A j \in 1 .. h : /\ KnowParents(image, rows[j - 1])
                           /\ j # i => rows[j] = UnderRow(image, rows[j - 1])
  BY PageNumbers DEF HalfDone, EntryInOrder, Entry
<1>f. \A j \in 0 .. h : \A e \in rows[j] : e[1] # new
  BY DEF InTree
<1>2. k \in KeyValue
  BY DEF HalfDone
<1>p. PICK q \in rows[i - 1] : IsParent(image, top, rows, i, q, w, k, right)
  BY ParentOfHalf
<1>3. /\ q \in rows[i - 1]
      /\ q[1] = p /\ q[1] \in 1 .. MaxPage /\ q \in Entry
      /\ c \in Page /\ ~c.leaf /\ c.n < InternalOrder /\ SlotsInOrder(c, q[2], q[3])
      /\ PlaceOf(c.key, c.n, li, k) /\ q[2] <= k /\ k < q[3]
      /\ rows[i] = NextWith(image, rows[i - 1], q,
                            Divided(c.key, c.off, c.n, q[2], q[3], li, k, right))
      /\ \A x \in Divided(c.key, c.off, c.n, q[2], q[3], li, k, right) :
             image[x[1]].parent = q[1]
  BY <1>p DEF IsParent
<1>4. /\ right \in PageNo /\ q[2] \in Int /\ q[3] \in Int
  <2>1. q \in Entry
    BY <1>3
  <2>2. q[2] \in Bound /\ q[3] \in Bound
    BY <2>1 DEF Entry
  <2> QED BY <2>2, NodeAssumption DEF PageNo, Bound
<1>n. LET f == Fresh(new, node)
      IN  f \in [at : PageNo, node : Page] /\ f.at = new /\ f.node = node
  BY DEF PageNo, Fresh
<1>5. c.n = InternalOrder - 1 /\ half = NodeHalves(c, li, k, right, Fresh(new, node))
  <2>1. c.n \in Nat /\ ~(c.n < InternalOrder - 1)
    BY <1>3, PageFacts
  <2> HIDE DEF c, li
  <2>2. c.n = InternalOrder - 1
    BY <1>3, <2>1, NodeAssumption
  <2> QED BY <2>2 DEF ParentHalves, c, li
<1> DEFINE D == Divided(c.key, c.off, c.n, q[2], q[3], li, k, right)
<1>6. /\ l \in Page /\ r \in Page /\ ~l.leaf /\ ~r.leaf
      /\ l.n \in 1 .. InternalOrder - 1 /\ r.n \in 1 .. InternalOrder - 1
      /\ SlotsInOrder(l, q[2], m) /\ SlotsInOrder(r, m, q[3])
      /\ q[2] <= m /\ m < q[3] /\ m \in KeyValue
      /\ BothSubtrees(l, r, q[2], m, q[3]) = D
      /\ l.parent = c.parent /\ r.parent = c.parent
  <2> DEFINE f == Fresh(new, node)
  <2>1. f \in [at : PageNo, node : Page] /\ ~f.node.leaf /\ half = NodeHalves(c, li, k, right, f)
    BY <1>n, <1>5
  <2> HIDE DEF f, c, li
  <2> QED BY <1>2, <1>3, <1>4, <1>5, <2>1, NodeSplits
<1>7. l.n < InternalOrder /\ r.n < InternalOrder /\ l.n > 0 /\ r.n > 0
  <2>1. l.n \in 1 .. InternalOrder - 1 /\ r.n \in 1 .. InternalOrder - 1
    BY <1>6
  <2> QED BY <2>1, NodeAssumption
<1>8. rows[i] = NextWith(image, rows[i - 1], q, D) /\ \A x \in D : image[x[1]].parent = q[1]
  BY <1>3
<1>9. p = q[1] /\ l.parent = image[q[1]].parent /\ r.parent = image[q[1]].parent
  BY <1>3, <1>6, Zenon
<1> HIDE DEF D, li, c, l, r, m, S
<1>10. q[2] < m
  <2>1. l.n \in Nat /\ l.n > 0 /\ l.key[0] \in Int /\ 0 \in 0 .. l.n - 1
    BY <1>6, <1>7, PageFacts
  <2>2. q[2] <= l.key[0] /\ l.key[0] < m
    BY <1>6, <2>1 DEF SlotsInOrder
  <2>3. m \in Int
    BY <1>6, KeysAreNumbers
  <2> QED BY <1>4, <2>1, <2>2, <2>3
<1>11. CanSplit(image, top, rows, h, i - 1)
  BY <1>1 DEF CanSplit
<1>12. AreHalves(image, top, rows, h, i - 1, q, l, m, new, r)
  <2>1. rows[(i - 1) + 1] = NextWith(image, rows[i - 1], q, BothSubtrees(l, r, q[2], m, q[3]))
    BY <1>1, <1>6, <1>8
  <2>2. \A x \in BothSubtrees(l, r, q[2], m, q[3]) : image[x[1]].parent = q[1]
    BY <1>6, <1>8
  <2> QED BY <1>1, <1>3, <1>4, <1>6, <1>7, <1>9, <1>10, <1>f, <2>1, <2>2 DEF AreHalves
<1>13. S = {b[1] : b \in Subtrees(r, m, q[3])}
  <2>1. S = {r.off[j] : j \in 0 .. r.n}
    BY DEF S, Children
  <2>2. \A j : Branch(r.key, r.off, r.n, m, q[3], j)[1] = r.off[j]
    BY DEF Branch
  <2>3. Subtrees(r, m, q[3]) = {Branch(r.key, r.off, r.n, m, q[3], j) : j \in 0 .. r.n}
    BY DEF Subtrees, Branches
  <2> QED BY <2>1, <2>2, <2>3
<1>14. /\ S = IF i - 1 = h THEN {} ELSE {b[1] : b \in Subtrees(r, m, q[3])}
       /\ image1 = SplitImage(image, q[1], l, new, r, S)
  BY <1>1, <1>9, <1>13 DEF l, r, S
<1> DEFINE rows1 == SplitRows(rows, h, i - 1, q, m, new)
<1>15. image1 \in Image /\ HalfDone(image1, top, rows1, h, i - 1, q, m, new)
  BY <1>11, <1>12, <1>14, SplitIsHalfDone
<1>16. SplitShows(image, top, rows, h, i - 1, q, l, new, r, S, image1)
  BY <1>11, <1>12, <1>14, SplitPages
<1>17. /\ rows1[i - 1] = (rows[i - 1] \ {q}) \cup {<<q[1], q[2], m>>, <<new, m, q[3]>>}
       /\ \A j \in 0 .. h : j # i - 1 => rows1[j] = rows[j]
  BY <1>1 DEF SplitRows
<1> HIDE DEF rows1
<1>g. Grown(rows, rows1, h, i - 1, new)
  BY <1>1, <1>3, SplitGrows DEF rows1
<1>18. ASSUME NEW x, InTree(rows1, h, x) PROVE InTree(rows, h, x) \/ x = new
  BY <1>1, <1>3, <1>18, SplitPagesStay DEF rows1
<1>19. RowKeys(image1, rows1[h]) = RowKeys(image, rows[h])
  <2>1. h \in 0 .. h /\ rows1[h] = rows[h]
    BY <1>1, <1>17
  <2>2. ASSUME NEW f \in rows[h] PROVE KeysOf(image1[f[1]]) = KeysOf(image[f[1]])
    <3>1. f # q /\ image[f[1]] \in Page
      BY <1>1, <1>3, <2>1 DEF EntryInOrder, Entry, Image
    <3>2. image1[f[1]] = IF f[1] \in S THEN Adopted(image[f[1]], new) ELSE image[f[1]]
      BY <1>16, <2>1, <3>1, Zenon DEF SplitShows
    <3>3. new \in PageNo
      BY <1>4 DEF PageNo
    <3>4. image1[f[1]].n = image[f[1]].n /\ image1[f[1]].key = image[f[1]].key
      BY <3>1, <3>2, <3>3, AdoptedIsSame
    <3> QED BY <3>4 DEF KeysOf
  <2> QED BY <2>1, <2>2 DEF RowKeys
<1>l. Linked(image, rows[h]) => Linked(image1, rows1[h])
  <2>1. h \in 0 .. h /\ rows1[h] = rows[h]
    BY <1>1, <1>17
  <2>2. ASSUME NEW f \in rows[h] PROVE image1[f[1]].off[0] = image[f[1]].off[0]
    <3>1. f # q /\ image[f[1]] \in Page
      BY <1>1, <1>3, <2>1 DEF EntryInOrder, Entry, Image
    <3>2. image1[f[1]] = IF f[1] \in S THEN Adopted(image[f[1]], new) ELSE image[f[1]]
      BY <1>16, <2>1, <3>1 DEF SplitShows
    <3>3. new \in PageNo
      BY <1>4 DEF PageNo
    <3>4. Adopted(image[f[1]], new).off = image[f[1]].off
      BY <3>1, <3>3, AdoptedIsSame
    <3> QED BY <3>2, <3>4
  <2> DEFINE row == rows[h]
  <2>3. \A f \in row : image1[f[1]].off[0] = image[f[1]].off[0]
    BY ONLY <2>2 DEF row
  <2> HIDE DEF row
  <2>4. ASSUME Linked(image, row) PROVE Linked(image1, row)
    BY ONLY <2>3, <2>4, LinksStay
  <2> QED BY <2>1, <2>4 DEF row
<1>20. (\A x \in S : x \in 1 .. MaxPage /\ InTree(rows, h, x)) /\ InTree(rows, h, p)
  <2>1. \A b \in Subtrees(r, m, q[3]) : b \in rows[i]
    <3>1. \A x : x \in rows[i] <=> x \in D \/ \E f \in rows[i - 1] : f # q /\ x \in Under(image, f)
      <4>1. \A x : x \in NextWith(image, rows[i - 1], q, D)
                       <=> x \in D \/ \E f \in rows[i - 1] : f # q /\ x \in Under(image, f)
        BY InRows
      <4> QED BY <1>8, <4>1
    <3>2. BothSubtrees(l, r, q[2], m, q[3]) = D
      BY <1>6
    <3>3. \A b \in Subtrees(r, m, q[3]) : b \in D
      BY <3>2 DEF BothSubtrees
    <3> QED BY <3>1, <3>3
  <2>2. ASSUME NEW b \in Subtrees(r, m, q[3]) PROVE b[1] \in 1 .. MaxPage /\ InTree(rows, h, b[1])
    <3>1. b \in rows[i] /\ i \in 0 .. h
      BY <1>1, <2>1
    <3> QED BY <1>1, <3>1 DEF InTree
  <2>3. InTree(rows, h, p)
    <3>1. q \in rows[i - 1] /\ q[1] = p /\ i - 1 \in 0 .. h
      BY <1>1, <1>3
    <3> QED BY <3>1 DEF InTree
  <2> QED BY <1>13, <2>2, <2>3
<1>21. r.n \in 0 .. InternalOrder - 1
  <2>1. r.n \in Nat /\ InternalOrder \in Nat
    BY <1>6, PageFacts, NodeAssumption
  <2> QED BY <1>7, <2>1
<1> QED BY <1>3, <1>6, <1>15, <1>18, <1>19, <1>20, <1>21, <1>g, <1>l, Zenon DEF l, r, m, S

(* The new root, and the image and the rows with it. *)
NewRoot(left, k, right) ==
    [parent |-> 0, leaf |-> FALSE, n |-> 1,
     key |-> [j \in KeySlot |-> IF j = 0 THEN k ELSE 0],
     off |-> [j \in OffSlot |-> IF j = 0 THEN left ELSE IF j = 1 THEN right ELSE 0]]
RootImage(image, r, left, k, right) ==
    [x \in 1 .. MaxPage |-> IF x = r THEN NewRoot(left, k, right)
                            ELSE IF x \in {left, right} THEN Adopted(image[x], r) ELSE image[x]]
RowsBelow(r, rows, h) == [j \in 0 .. h + 1 |-> IF j = 0 THEN {<<r, 0, KeyMod>>} ELSE rows[j - 1]]

(* A page that was split at the top, and half of it as the only child so   *)
(* far of the new one above: insert_into_new_root (bpt.c:677).             *)
THEOREM RootGrows ==
    ASSUME NEW image \in Image, NEW top, NEW rows, NEW h, NEW w, NEW k, NEW right \in 1 .. MaxPage,
           HalfDone(image, top, rows, h, 0, w, k, right), h + 1 \in 0 .. MaxPage - 1,
           NEW r \in 1 .. MaxPage, ~InTree(rows, h, r),
           NEW image1, image1 = RootImage(image, r, w[1], k, right),
           NEW rows1, rows1 = RowsBelow(r, rows, h)
    PROVE  /\ image1 \in Image /\ NewRoot(w[1], k, right) \in Page /\ IsTree(image1, r, rows1, h + 1)
           /\ RowKeys(image1, rows1[h + 1]) = RowKeys(image, rows[h])
           /\ \A x : InTree(rows1, h + 1, x) => InTree(rows, h, x) \/ x = r
           /\ w[1] \in 1 .. MaxPage /\ w[1] # right /\ w[1] # r /\ right # r
<1> DEFINE a == <<top, 0, k>>
           b == <<right, k, KeyMod>>
           e == <<r, 0, KeyMod>>
           c == NewRoot(top, k, right)
<1>1. /\ h \in Nat /\ 0 \in 0 .. h /\ h \in 0 .. h
      /\ \A j \in 0 .. h : \A f \in rows[j] :
             /\ EntryInOrder(image, top, f) /\ (image[f[1]].leaf <=> j = h)
             /\ f[1] \in 1 .. MaxPage /\ image[f[1]] \in Page
      /\ Once(rows, h)
      /\ \A j \in 1 .. h : KnowParents(image, rows[j - 1]) /\ rows[j] = UnderRow(image, rows[j - 1])
      /\ k \in KeyValue /\ 0 < k
  <2>1. w = <<top, 0, KeyMod>> /\ k \in KeyValue /\ w[2] < k
    BY DEF HalfDone, Whole
  <2>2. /\ h \in Nat /\ 0 \in 0 .. h /\ h \in 0 .. h
        /\ \A j \in 0 .. h : \A f \in rows[j] : EntryInOrder(image, top, f) /\ (image[f[1]].leaf <=> j = h)
        /\ Once(rows, h)
        /\ \A j \in 1 .. h : KnowParents(image, rows[j - 1]) /\ rows[j] = UnderRow(image, rows[j - 1])
    BY PageNumbers DEF HalfDone
  <2>3. \A j \in 0 .. h : \A f \in rows[j] : f[1] \in 1 .. MaxPage
    BY <2>2 DEF EntryInOrder, Entry
  <2>4. \A x \in 1 .. MaxPage : image[x] \in Page
    BY DEF Image
  <2> QED BY <2>1, <2>2, <2>3, <2>4
<1>f. \A j \in 0 .. h : \A f \in rows[j] : f[1] # r
  BY DEF InTree
<1>2. w[1] = top /\ rows[0] = {a, b} /\ image[top].n > 0
  <2>1. w = <<top, 0, KeyMod>> /\ Whole(image, top, rows, 0) = {<<top, 0, KeyMod>>}
    BY DEF HalfDone, Whole
  <2>2. rows[0] = ({<<top, 0, KeyMod>>} \ {w}) \cup {<<w[1], w[2], k>>, <<right, k, w[3]>>} /\ image[w[1]].n > 0
    BY <2>1 DEF HalfDone
  <2> QED BY <2>1, <2>2
<1>3. top \in 1 .. MaxPage /\ top # r /\ right # r /\ a[1] = top /\ b[1] = right
  <2>1. a \in rows[0] /\ b \in rows[0] /\ a[1] = top /\ b[1] = right
    BY <1>2
  <2> HIDE DEF a, b
  <2> QED BY <1>1, <1>f, <2>1
<1>4. top # right
  <2>1. a # b
    BY <1>1
  <2> HIDE DEF a, b
  <2> QED BY <1>1, <1>2, <1>3, <2>1 DEF Once
<1>5. /\ c \in Page /\ ~c.leaf /\ c.n = 1 /\ c.parent = 0
      /\ \A j \in KeySlot : c.key[j] = IF j = 0 THEN k ELSE 0
      /\ \A j \in OffSlot : c.off[j] = IF j = 0 THEN top ELSE IF j = 1 THEN right ELSE 0
      /\ 0 \in KeySlot /\ 0 \in OffSlot /\ 1 \in OffSlot
  <2>1. 0 \in KeySlot /\ 1 \in KeySlot /\ 0 \in OffSlot /\ 1 \in OffSlot /\ top \in PageNo /\ right \in PageNo
        /\ 0 \in PageNo /\ 0 \in KeyValue /\ k \in KeyValue
    BY <1>1, <1>3, NodeAssumption, SlotFacts DEF KeySlot, OffSlot, PageNo
  <2>2. /\ c.parent = 0 /\ c.leaf = FALSE /\ c.n = 1
        /\ c.key = [j \in KeySlot |-> IF j = 0 THEN k ELSE 0]
        /\ c.off = [j \in OffSlot |-> IF j = 0 THEN top ELSE IF j = 1 THEN right ELSE 0]
    BY DEF NewRoot
  <2>3. c.key \in KeyArray /\ c.off \in OffArray
    BY <2>1, <2>2 DEF KeyArray, OffArray
  <2>4. c \in Page
    BY <2>1, <2>3 DEF Page, KeyValue, KeyArray, OffArray, NewRoot
  <2> QED BY <2>1, <2>2, <2>4
<1> HIDE DEF c
<1>6. Subtrees(c, 0, KeyMod) = {a, b}
  <2> DEFINE B(j) == Branch(c.key, c.off, c.n, 0, KeyMod, j)
  <2>1. Subtrees(c, 0, KeyMod) = {B(j) : j \in 0 .. 1}
    BY <1>5 DEF Subtrees, Branches
  <2>2. B(0) = a /\ B(1) = b
    BY <1>5 DEF Branch
  <2>3. 0 .. 1 = {0, 1}
    OBVIOUS
  <2> HIDE DEF B, a, b
  <2> QED BY <2>1, <2>2, <2>3
<1>7. SlotsInOrder(c, 0, KeyMod)
  <2>1. k \in Int /\ 0 <= k /\ k < KeyMod
    BY <1>1, KeysAreNumbers, NodeAssumption DEF KeyValue
  <2>2. \A j \in KeySlot : j \in Nat
    BY SlotFacts
  <2>3. \A j \in OffSlot : j \in Nat
    BY SlotFacts
  <2> QED BY <1>5, <2>1, <2>2, <2>3 DEF SlotsInOrder
<1>8. \A x \in 1 .. MaxPage : image1[x] = IF x = r THEN c
                                   ELSE IF x \in {top, right} THEN Adopted(image[x], r) ELSE image[x]
  BY <1>2 DEF RootImage, c
<1>9. \A x \in 1 .. MaxPage : image[x] \in Page /\ Adopted(image[x], r) \in Page
  BY AdoptedIsSame DEF Image, PageNo
<1>10. image1 \in Image
  BY <1>2, <1>5, <1>9 DEF Image, RootImage, c
<1> HIDE DEF a, b, e
<1>11. ASSUME NEW j \in 0 .. h, NEW f \in rows[j]
       PROVE  /\ EntryInOrder(image1, r, f) /\ (image1[f[1]].leaf <=> j = h)
              /\ Under(image1, f) = Under(image, f)
              /\ image1[f[1]].n = image[f[1]].n /\ image1[f[1]].key = image[f[1]].key
              /\ j > 0 => image1[f[1]].parent = image[f[1]].parent
              /\ j = 0 => image1[f[1]].parent = r
  <2> DEFINE x == image[f[1]]
             y == image1[f[1]]
  <2>1. /\ f[1] \in 1 .. MaxPage /\ f[1] # r /\ EntryInOrder(image, top, f) /\ (x.leaf <=> j = h)
        /\ x \in Page /\ r \in PageNo
    BY <1>1, <1>f DEF PageNo
  <2>2. f[1] \in {top, right} <=> j = 0
    BY <1>1, <1>2, <1>3 DEF Once
  <2>3. y = IF j = 0 THEN Adopted(x, r) ELSE x
    BY <1>8, <2>1, <2>2
  <2> HIDE DEF x, y
  <2>4. /\ y.n = x.n /\ y.leaf = x.leaf /\ y.key = x.key /\ (j > 0 => y.parent = x.parent)
        /\ (j = 0 => y.parent = r)
    BY <2>1, <2>3, AdoptedIsSame
  <2>5. Subtrees(y, f[2], f[3]) = Subtrees(x, f[2], f[3]) /\ (SlotsInOrder(x, f[2], f[3]) => SlotsInOrder(y, f[2], f[3]))
    BY <2>1, <2>3, AdoptedIsSame
  <2>6. x.n > 0
    <3>1. x.n > 0 \/ f[1] = top
      BY <2>1 DEF EntryInOrder, x
    <3> QED BY <1>2, <3>1 DEF x
  <2>7. EntryInOrder(image1, r, f)
    BY <2>1, <2>4, <2>5, <2>6 DEF EntryInOrder, x, y
  <2> QED BY <2>1, <2>4, <2>5, <2>7 DEF x, y, Under
<1>12. EntryInOrder(image1, r, e) /\ Under(image1, e) = {a, b} /\ ~image1[e[1]].leaf /\ image1[r].parent = 0
  <2>1. e \in Entry /\ e[1] = r /\ e[2] = 0 /\ e[3] = KeyMod
    BY NodeAssumption DEF e, Entry, Bound
  <2>2. image1[r] = c
    BY <1>8
  <2>3. c.n < InternalOrder
    BY <1>5, NodeAssumption
  <2> QED BY <1>5, <1>6, <1>7, <2>1, <2>2, <2>3 DEF EntryInOrder, Under
<1>13. /\ rows1[0] = {e}
       /\ \A j \in 1 .. h + 1 : rows1[j] = rows[j - 1] /\ j - 1 \in 0 .. h
       /\ h + 1 \in 1 .. h + 1 /\ 0 # h + 1 /\ (h + 1) - 1 = h
  <2>1. 0 \in 0 .. h + 1 /\ \A j \in 1 .. h + 1 : j \in 0 .. h + 1 /\ j # 0 /\ j - 1 \in 0 .. h
    BY <1>1
  <2>2. rows1[0] = {e} /\ \A j \in 1 .. h + 1 : rows1[j] = rows[j - 1]
    BY <2>1 DEF e, RowsBelow
  <2>3. h + 1 \in 1 .. h + 1 /\ 0 # h + 1 /\ (h + 1) - 1 = h
    BY <1>1
  <2> QED BY <2>1, <2>2, <2>3
<1>14. ASSUME NEW j \in 0 .. h + 1, NEW f \in rows1[j]
       PROVE  EntryInOrder(image1, r, f) /\ (image1[f[1]].leaf <=> j = h + 1)
  <2>1. CASE j = 0
    BY <1>12, <1>13, <1>14, <2>1
  <2>2. CASE j # 0
    <3>1. j \in 1 .. h + 1 /\ f \in rows[j - 1] /\ j - 1 \in 0 .. h /\ (j - 1 = h <=> j = h + 1)
      BY <1>1, <1>13, <1>14, <2>2
    <3> QED BY <1>11, <3>1
  <2> QED BY <2>1, <2>2
<1>15. ASSUME NEW j \in 1 .. h + 1
       PROVE  rows1[j] = UnderRow(image1, rows1[j - 1]) /\ KnowParents(image1, rows1[j - 1])
  <2>1. CASE j = 1
    <3>1. rows1[j] = {a, b} /\ rows1[j - 1] = {e}
      BY <1>2, <1>13, <2>1
    <3>2. UnderRow(image1, {e}) = {a, b}
      BY <1>12 DEF UnderRow
    <3>3. \A f \in {a, b} : image1[f[1]].parent = r
      BY <1>1, <1>2, <1>11
    <3>4. KnowParents(image1, {e})
      BY <1>12, <3>3 DEF KnowParents, e
    <3> QED BY <3>1, <3>2, <3>4
  <2>2. CASE j # 1
    <3>1. /\ j - 1 \in 1 .. h /\ j - 1 \in 1 .. h + 1 /\ (j - 1) - 1 \in 0 .. h /\ j - 1 \in 0 .. h
          /\ rows1[j] = rows[j - 1] /\ rows1[j - 1] = rows[(j - 1) - 1] /\ j - 1 > 0
      BY <1>1, <1>13, <2>2
    <3>2. \A f \in rows[(j - 1) - 1] : Under(image1, f) = Under(image, f)
      BY <1>11, <3>1
    <3>3. rows[j - 1] = UnderRow(image, rows[(j - 1) - 1]) /\ KnowParents(image, rows[(j - 1) - 1])
      BY <1>1, <3>1
    <3>4. \A x \in rows[j - 1] : image1[x[1]].parent = image[x[1]].parent
      BY <1>11, <3>1
    <3>5. \A f \in rows[(j - 1) - 1] : \A x \in Under(image, f) : x \in rows[j - 1]
      BY <3>3 DEF UnderRow
    <3>6. KnowParents(image1, rows[(j - 1) - 1])
      BY <3>2, <3>3, <3>4, <3>5 DEF KnowParents
    <3>7. UnderRow(image1, rows[(j - 1) - 1]) = UnderRow(image, rows[(j - 1) - 1])
      BY <3>2 DEF UnderRow
    <3> QED BY <3>1, <3>3, <3>6, <3>7
  <2> QED BY <2>1, <2>2
<1>16. IsTree(image1, r, rows1, h + 1)
  BY <1>12, <1>13, <1>14, <1>15 DEF IsTree, e
<1>17. RowKeys(image1, rows1[h + 1]) = RowKeys(image, rows[h])
  <2>1. \A f \in rows[h] : KeysOf(image1[f[1]]) = KeysOf(image[f[1]])
    BY <1>1, <1>11 DEF KeysOf
  <2>2. rows1[h + 1] = rows[h]
    BY <1>13
  <2> QED BY <2>1, <2>2 DEF RowKeys
<1>18. ASSUME NEW x, InTree(rows1, h + 1, x) PROVE InTree(rows, h, x) \/ x = r
  <2>1. PICK j \in 0 .. h + 1 : \E f \in rows1[j] : f[1] = x
    BY <1>18 DEF InTree
  <2>2. CASE j = 0
    BY <1>13, <2>1, <2>2 DEF e
  <2>3. CASE j # 0
    <3>1. j \in 1 .. h + 1
      BY <1>1, <2>3
    <3> QED BY <1>13, <2>1, <3>1 DEF InTree
  <2> QED BY <2>2, <2>3
<1> QED BY <1>2, <1>3, <1>4, <1>5, <1>10, <1>16, <1>17, <1>18 DEF c

(* What the parent's page or a new root does to the chain: nothing.        *)
LEMMA ParentKeepsLinks ==
    ASSUME NEW image \in Image, NEW top, NEW rows, NEW h, NEW i, NEW w, NEW k, NEW right,
           HalfDone(image, top, rows, h, i, w, k, right), i > 0,
           NEW p, p = image[w[1]].parent, Linked(image, rows[h]),
           NEW d, NEW image1, image1 = Written(image, p, d)
    PROVE  Linked(image1, rows[h])
<1>1. PICK q \in rows[i - 1] : IsParent(image, top, rows, i, q, w, k, right)
  BY ParentOfHalf
<1>2. ~image[p].leaf
  BY <1>1 DEF IsParent
<1>3. ASSUME NEW e \in rows[h] PROVE image1[e[1]].off[0] = image[e[1]].off[0]
  <2>1. h \in 0 .. h /\ image[e[1]].leaf
    <3>1. h \in 0 .. MaxPage - 1
      BY DEF HalfDone
    <3>2. h \in 0 .. h
      BY <3>1, PageNumbers
    <3> QED BY <3>2 DEF HalfDone
  <2>2. e[1] # p
    BY <1>2, <2>1
  <2> QED BY <2>2 DEF Written, Image
<1> QED BY <1>3, LinksStay

LEMMA RootKeepsLinks ==
    ASSUME NEW image \in Image, NEW top, NEW rows, NEW h, NEW w, NEW k, NEW right \in 1 .. MaxPage,
           HalfDone(image, top, rows, h, 0, w, k, right), Linked(image, rows[h]),
           NEW r \in 1 .. MaxPage, ~InTree(rows, h, r),
           NEW image1, image1 = RootImage(image, r, w[1], k, right)
    PROVE  Linked(image1, RowsBelow(r, rows, h)[h + 1])
<1>1. h \in Nat /\ h \in 0 .. h /\ h + 1 \in 0 .. h + 1 /\ h + 1 # 0 /\ (h + 1) - 1 = h
  BY PageNumbers DEF HalfDone
<1>2. RowsBelow(r, rows, h)[h + 1] = rows[h]
  BY <1>1 DEF RowsBelow
<1>3. ASSUME NEW e \in rows[h] PROVE image1[e[1]].off[0] = image[e[1]].off[0]
  <2>1. e[1] \in 1 .. MaxPage /\ image[e[1]] \in Page /\ e[1] # r
    <3>1. EntryInOrder(image, top, e)
      BY <1>1 DEF HalfDone
    <3>2. e[1] \in 1 .. MaxPage
      BY <3>1 DEF EntryInOrder, Entry
    <3> QED BY <1>1, <3>2 DEF InTree, Image
  <2>2. r \in PageNo
    BY PageNumbers
  <2>3. Adopted(image[e[1]], r).off = image[e[1]].off
    BY <2>1, <2>2, AdoptedIsSame
  <2>4. image1[e[1]] = image[e[1]] \/ image1[e[1]] = Adopted(image[e[1]], r)
    BY <2>1 DEF RootImage
  <2> QED BY <2>3, <2>4
<1> QED BY <1>2, <1>3, LinksStay

-----------------------------------------------------------------------------
(* One record is moved between leaves, and the function that ShiftLeaf is  *)
(* defined by.                                                             *)
Moved(i, t) ==
    IF t.l.n = 0
    THEN [t EXCEPT !.l.key[0] = t.r.key[i],
                   !.l.n = 1,
                   !.r.key = [[@ EXCEPT ![i] = t.r.key[i + 1]]
                                  EXCEPT ![t.r.n - 1] = 0],
                   !.r.n = @ - 1]
    ELSE [t EXCEPT !.r.key[i] = t.l.key[t.l.n - 1],
                   !.r.n = @ + 1,
                   !.l.key[t.r.n] = 0,
                   !.l.n = @ - 1,
                   !.back = TRUE]
ShiftNext(i, t) ==
    IF i - 1 < cut(t.r.n + t.l.n) /\ t.r.n # 0 THEN Moved(i - 1, t) ELSE t
Both(l, r) == [l |-> l, r |-> r, back |-> FALSE]
IsShift(g, l0, r0) ==
    g = [i \in 0 .. LeafOrder |-> IF i = 0 THEN Both(l0, r0) ELSE ShiftNext(i, g[i - 1])]

(* It exists, by induction over the number of steps. *)
LEMMA ShiftExists ==
    ASSUME NEW l0, NEW r0
    PROVE  \E g : IsShift(g, l0, r0)
<1> DEFINE H(i, t) == ShiftNext(i, t)
           s == Both(l0, r0)
           N == LeafOrder
           Ok(g, d) == g[0] = s /\ \A i \in 1 .. d : g[i] = H(i, g[i - 1])
           S == {d \in 0 .. N : \E g : Ok(g, d)}
<1>n. N \in Nat /\ 0 \in 0 .. N
  BY NodeAssumption
<1> HIDE DEF H, N, s
<1>1. 0 \in S
  <2> DEFINE g == [j \in {0} |-> s]
  <2>1. g[0] = s /\ \A j \in 1 .. 0 : FALSE
    OBVIOUS
  <2> HIDE DEF g
  <2>2. Ok(g, 0)
    BY <2>1
  <2> HIDE DEF Ok
  <2> QED BY <1>n, <2>2
<1>2. ASSUME NEW d \in 0 + 1 .. N, d - 1 \in S PROVE d \in S
  <2>1. PICK g : Ok(g, d - 1)
    BY <1>2
  <2> DEFINE f == [j \in 0 .. N |-> IF j < d THEN g[j] ELSE H(d, g[d - 1])]
  <2>2. \A j \in 0 .. N : f[j] = IF j < d THEN g[j] ELSE H(d, g[d - 1])
    OBVIOUS
  <2> HIDE DEF f
  <2>3. d \in 0 .. N /\ 0 < d /\ \A j \in 1 .. d : j \in 0 .. N /\ j - 1 \in 0 .. N /\ j - 1 < d
    BY <1>n
  <2>4. f[0] = s
    BY <1>n, <2>1, <2>2, <2>3
  <2>5. ASSUME NEW j \in 1 .. d PROVE f[j] = H(j, f[j - 1])
    <3>1. f[j - 1] = g[j - 1]
      BY <2>2, <2>3
    <3>2. CASE j = d
      BY <2>2, <2>3, <3>1, <3>2
    <3>3. CASE j # d
      <4>1. j \in 1 .. d - 1 /\ j < d
        BY <2>3, <3>3
      <4> QED BY <2>1, <2>2, <2>3, <3>1, <4>1
    <3> QED BY <3>2, <3>3
  <2>6. Ok(f, d)
    BY <2>4, <2>5
  <2> HIDE DEF Ok
  <2> QED BY <2>3, <2>6
<1>3. N \in S
  <2> HIDE DEF S
  <2>1. \A d \in 0 .. N : d \in S
    BY <1>n, <1>1, <1>2, IntervalInduction
  <2> QED BY <1>n, <2>1
<1>4. PICK g : Ok(g, N)
  BY <1>3
<1> DEFINE f == [j \in 0 .. N |-> g[j]]
<1>5. \A j \in 0 .. N : f[j] = IF j = 0 THEN s ELSE H(j, f[j - 1])
  <2> SUFFICES ASSUME NEW j \in 0 .. N PROVE g[j] = IF j = 0 THEN s ELSE H(j, f[j - 1])
    OBVIOUS
  <2>1. j # 0 => j \in 1 .. N /\ j - 1 \in 0 .. N
    BY <1>n
  <2> QED BY <1>4, <2>1
<1>6. f = [j \in 0 .. N |-> f[j]]
  OBVIOUS
<1> HIDE DEF f
<1>7. f = [j \in 0 .. N |-> IF j = 0 THEN s ELSE H(j, f[j - 1])]
  BY <1>5, <1>6
<1> QED BY <1>7 DEF IsShift, H, N, s

(* The left leaf takes over the chain when the right one is empty. *)
Chained(t) == IF t.r.n = 0 THEN [t EXCEPT !.l.off[0] = t.r.off[0]] ELSE t

(* Step by step. *)
LEMMA ShiftSteps ==
    ASSUME NEW l0, NEW r0
    PROVE  \E g : /\ ShiftLeaf(l0, r0) = Chained(g[LeafOrder])
                  /\ g[0] = Both(l0, r0)
                  /\ \A i \in 1 .. LeafOrder : g[i] = ShiftNext(i, g[i - 1])
<1> DEFINE loop == CHOOSE g : IsShift(g, l0, r0)
<1>1. ShiftLeaf(l0, r0) = Chained(loop[LeafOrder])
  BY DEF ShiftLeaf, IsShift, ShiftNext, Both, Moved, Chained
<1>2. IsShift(loop, l0, r0)
  BY ShiftExists
<1> HIDE DEF loop
<1>3. loop[0] = Both(l0, r0) /\ \A i \in 1 .. LeafOrder : loop[i] = ShiftNext(i, loop[i - 1])
  <2>1. 0 \in 0 .. LeafOrder /\ \A i \in 1 .. LeafOrder : i \in 0 .. LeafOrder /\ i # 0
    BY NodeAssumption
  <2> QED BY <1>2, <2>1 DEF IsShift
<1> QED BY <1>1, <1>3

(* The right leaf is empty: nothing moves. *)
LEMMA NothingMoves ==
    ASSUME NEW l, NEW r, r.n = 0
    PROVE  ShiftLeaf(l, r) = Chained(Both(l, r))
<1>1. PICK g : /\ ShiftLeaf(l, r) = Chained(g[LeafOrder]) /\ g[0] = Both(l, r)
               /\ \A i \in 1 .. LeafOrder : g[i] = ShiftNext(i, g[i - 1])
  BY ShiftSteps
<1> DEFINE S == {i \in 0 .. LeafOrder : g[i] = Both(l, r)}
<1>2. 0 \in S
  BY <1>1, NodeAssumption
<1>3. ASSUME NEW i \in 0 + 1 .. LeafOrder, i - 1 \in S PROVE i \in S
  <2>1. g[i] = ShiftNext(i, Both(l, r))
    BY <1>1, <1>3
  <2>2. ShiftNext(i, Both(l, r)) = Both(l, r)
    BY DEF ShiftNext, Both
  <2> QED BY <2>1, <2>2
<1> HIDE DEF S
<1>4. \A i \in 0 .. LeafOrder : i \in S
  BY <1>2, <1>3, IntervalInduction, NodeAssumption
<1>5. LeafOrder \in S
  BY <1>4, NodeAssumption
<1> QED BY <1>1, <1>5 DEF S

(* The left leaf is empty: one record moves, and if that is not enough the *)
(* loop takes records back.                                                *)
LEMMA OneMoves ==
    ASSUME NEW l \in Page, NEW r \in Page, l.n = 0, r.n > 0
    PROVE  \/ ShiftLeaf(l, r).back = TRUE
           \/ /\ r.n <= 2
              /\ ShiftLeaf(l, r) = Chained(Moved(0, Both(l, r)))
<1>1. PICK g : /\ ShiftLeaf(l, r) = Chained(g[LeafOrder]) /\ g[0] = Both(l, r)
               /\ \A i \in 1 .. LeafOrder : g[i] = ShiftNext(i, g[i - 1])
  BY ShiftSteps
<1> DEFINE one == Moved(0, Both(l, r))
<1>2. r.n \in Nat /\ r.n > 0
  BY PageFacts
<1>3. one.l.n = 1 /\ one.r.n = r.n - 1 /\ one.back = FALSE /\ "back" \in DOMAIN one
  BY DEF Moved, Both, Page
<1>4. g[1] = one
  <2>1. g[1] = ShiftNext(1, Both(l, r))
    BY <1>1, NodeAssumption
  <2>2. 0 < cut(r.n + 0)
    BY <1>2 DEF cut
  <2>3. Both(l, r).l.n = 0 /\ Both(l, r).r.n = r.n
    BY DEF Both
  <2>4. ShiftNext(1, Both(l, r)) = Moved(1 - 1, Both(l, r))
    BY <1>2, <2>2, <2>3 DEF ShiftNext
  <2> QED BY <2>1, <2>4
<1> HIDE DEF one
<1>5. CASE r.n <= 2
  <2> DEFINE S == {i \in 1 .. LeafOrder : g[i] = one}
  <2>1. 1 \in S
    BY <1>4, NodeAssumption
  <2>2. ASSUME NEW i \in 1 + 1 .. LeafOrder, i - 1 \in S PROVE i \in S
    <3>1. g[i] = ShiftNext(i, one)
      BY <1>1, <2>2
    <3>2. cut(one.r.n + one.l.n) = 1
      BY <1>2, <1>3, <1>5 DEF cut
    <3>3. ShiftNext(i, one) = one
      BY <3>2, NodeAssumption DEF ShiftNext
    <3> QED BY <3>1, <3>3
  <2> HIDE DEF S
  <2>3. \A i \in 1 .. LeafOrder : i \in S
    BY <2>1, <2>2, IntervalInduction, NodeAssumption
  <2>4. LeafOrder \in S
    BY <2>3, NodeAssumption
  <2> QED BY <1>1, <1>5, <2>4 DEF S, one
<1>6. CASE ~(r.n <= 2)
  <2>0. LeafOrder >= 2 /\ LeafOrder \in Nat
    BY NodeAssumption
  <2>1. g[2] = ShiftNext(2, one)
    BY <1>1, <1>4, <2>0
  <2>2. 1 < cut(one.r.n + one.l.n) /\ one.r.n # 0 /\ one.l.n # 0
    BY <1>2, <1>3, <1>6 DEF cut
  <2>3. ShiftNext(2, one) = Moved(1, one)
    BY <2>2 DEF ShiftNext
  <2> DEFINE S == {i \in 2 .. LeafOrder : "back" \in DOMAIN g[i] /\ g[i].back = TRUE}
  <2>4. 2 \in S
    <3>1. "back" \in DOMAIN Moved(1, one) /\ Moved(1, one).back = TRUE
      BY <1>3, <2>2 DEF Moved
    <3> QED BY <2>0, <2>1, <2>3, <3>1
  <2>5. ASSUME NEW i \in 2 + 1 .. LeafOrder, i - 1 \in S PROVE i \in S
    <3>1. g[i] = ShiftNext(i, g[i - 1])
      BY <1>1, <2>0
    <3>2. "back" \in DOMAIN g[i - 1] /\ g[i - 1].back = TRUE
      BY <2>5
    <3>3. \A t, j : "back" \in DOMAIN t /\ t.back = TRUE
                    => "back" \in DOMAIN ShiftNext(j, t) /\ ShiftNext(j, t).back = TRUE
      BY DEF ShiftNext, Moved
    <3> QED BY <2>0, <3>1, <3>2, <3>3
  <2> HIDE DEF S
  <2>6. \A i \in 2 .. LeafOrder : i \in S
    BY <2>0, <2>4, <2>5, IntervalInduction
  <2>7. LeafOrder \in S
    BY <2>0, <2>6
  <2> QED BY <1>1, <2>7 DEF S, Chained
<1> QED BY <1>5, <1>6

(* What merge_nodes leaves of two neighbors of which one is empty, unless  *)
(* it takes records back: one leaf with the keys of both, or two leaves    *)
(* with a new separator between them.                                      *)
Joined(l, r, low, high, m) ==
    /\ m.l \in Page /\ m.l.leaf /\ m.l.parent = l.parent /\ m.l.n \in 1 .. LeafOrder - 1
    /\ SlotsInOrder(m.l, low, high) /\ m.l.off[0] = r.off[0]
    /\ KeysOf(m.l) = KeysOf(l) \cup KeysOf(r)
Balanced(l, r, low, mid, high, m) ==
    LET k == m.r.key[0]
    IN  /\ m.l \in Page /\ m.l.leaf /\ m.l.parent = l.parent /\ m.l.n \in 1 .. LeafOrder - 1
        /\ m.r.leaf /\ m.r.parent = r.parent /\ m.r.n \in 1 .. LeafOrder - 1
        /\ mid < k /\ k < high /\ k \in KeyValue
        /\ SlotsInOrder(m.l, low, k) /\ SlotsInOrder(m.r, k, high)
        /\ m.l.off[0] = l.off[0] /\ m.r.off[0] = r.off[0]
        /\ KeysOf(m.l) \cup KeysOf(m.r) = KeysOf(l) \cup KeysOf(r)
Merged(l, r, low, mid, high, m) ==
    /\ m.r \in Page
    /\ IF m.r.n = 0 THEN Joined(l, r, low, high, m) ELSE Balanced(l, r, low, mid, high, m)

LEMMA LeavesMerge ==
    ASSUME NEW l \in Page, NEW r \in Page, l.leaf, r.leaf, l.n < LeafOrder, r.n < LeafOrder,
           NEW low \in Int, NEW mid \in Int, NEW high \in Int, low <= mid, mid <= high,
           SlotsInOrder(l, low, mid), SlotsInOrder(r, mid, high),
           l.n = 0 \/ r.n = 0, l.n > 0 \/ r.n > 0,
           NEW m, m = ShiftLeaf(l, r), ~m.back
    PROVE  Merged(l, r, low, mid, high, m)
<1>1. /\ l.n \in Nat /\ r.n \in Nat /\ 0 \in OffSlot /\ 0 \in KeySlot /\ 1 \in KeySlot
      /\ LeafOrder \in Nat /\ LeafOrder >= 2 /\ KeySlot \subseteq Nat /\ OffSlot \subseteq Nat
  BY PageFacts, SlotFacts, OffsetFacts, NodeAssumption DEF KeySlot
<1>2. CASE r.n = 0
  <2>1. m = Chained(Both(l, r))
    BY <1>2, NothingMoves
  <2>2. m.r = r /\ m.l = [l EXCEPT !.off[0] = r.off[0]]
    BY <1>2, <2>1 DEF Chained, Both
  <2>3. /\ m.l \in Page /\ m.l.leaf /\ m.l.parent = l.parent /\ m.l.n = l.n
        /\ m.l.key = l.key /\ m.l.off[0] = r.off[0]
        /\ \A i \in OffSlot : i # 0 => m.l.off[i] = l.off[i]
    BY <1>1, <2>2 DEF Page
  <2>4. SlotsInOrder(m.l, low, high)
    <3>1. \A i \in 0 .. l.n - 1 : i \in KeySlot
      BY <1>1, SlotFacts
    <3>2. \A i \in KeySlot : l.key[i] \in Int
      BY PageFacts
    <3> QED BY <1>1, <2>3, <3>1, <3>2 DEF SlotsInOrder
  <2>5. KeysOf(r) = {} /\ KeysOf(m.l) = KeysOf(l)
    BY <1>2, <2>3 DEF KeysOf, Values
  <2>6. m.l.n \in 1 .. LeafOrder - 1
    BY <1>1, <1>2, <2>3
  <2>7. Joined(l, r, low, high, m)
    BY <2>3, <2>4, <2>5, <2>6 DEF Joined
  <2> QED BY <1>2, <2>2, <2>7 DEF Merged
<1>3. CASE r.n # 0
  <2>0. l.n = 0 /\ r.n > 0
    BY <1>1, <1>3
  <2> DEFINE one == Moved(0, Both(l, r))
  <2>1. r.n <= 2 /\ m = Chained(one)
    BY <2>0, OneMoves
  <2> DEFINE ka == [l.key EXCEPT ![0] = r.key[0]]
             kb == [[r.key EXCEPT ![0] = r.key[1]] EXCEPT ![r.n - 1] = 0]
  <2>2. /\ one.l = [l EXCEPT !.key = ka, !.n = 1]
        /\ one.r = [r EXCEPT !.key = kb, !.n = r.n - 1]
        /\ DOMAIN one = {"l", "r", "back"}
    <3>1. one = [Both(l, r) EXCEPT !.l.key[0] = r.key[0], !.l.n = 1,
                                   !.r.key = kb, !.r.n = @ - 1]
      BY <2>0 DEF Moved, Both
    <3> DEFINE b1 == [Both(l, r) EXCEPT !.l.key[0] = r.key[0]]
               b2 == [b1 EXCEPT !.l.n = 1]
    <3>b. b1.l = [l EXCEPT !.key = ka] /\ DOMAIN b1 = {"l", "r", "back"}
      BY DEF Both
    <3>c. one = [b2 EXCEPT !.r.key = kb, !.r.n = @ - 1]
      BY <3>1
    <3> HIDE DEF b1
    <3>d. b2.l = [l EXCEPT !.key = ka, !.n = 1] /\ DOMAIN b2 = {"l", "r", "back"}
      BY <3>b
    <3> HIDE DEF b2
    <3>2. one.l = [l EXCEPT !.key = ka, !.n = 1]
      BY <3>c, <3>d
    <3>3. one.r = [r EXCEPT !.key = kb, !.n = @ - 1]
      BY <3>1, Zenon DEF Both
    <3>4. DOMAIN one = {"l", "r", "back"}
      BY <3>1 DEF Both
    <3> QED BY <3>2, <3>3, <3>4
  <2> HIDE DEF one
  <2>a. /\ r.key \in [KeySlot -> KeyValue] /\ l.key \in [KeySlot -> KeyValue] /\ 0 \in KeyValue
        /\ r.n - 1 \in KeySlot /\ r.key[0] \in KeyValue /\ r.key[1] \in KeyValue
    BY <1>1, <2>0, PageFacts, SlotFacts DEF Page, KeyValue
  <2>b. /\ kb \in [KeySlot -> KeyValue]
        /\ \A i \in KeySlot : kb[i] = IF i = r.n - 1 THEN 0 ELSE IF i = 0 THEN r.key[1] ELSE r.key[i]
    BY <1>1, <2>a
  <2>c. ka \in [KeySlot -> KeyValue] /\ \A i \in KeySlot : ka[i] = IF i = 0 THEN r.key[0] ELSE l.key[i]
    BY <1>1, <2>a
  <2> HIDE DEF ka, kb
  <2>3. /\ one.r \in Page /\ one.r.leaf /\ one.r.parent = r.parent /\ one.r.n = r.n - 1
        /\ one.r.off = r.off
        /\ \A i \in KeySlot : one.r.key[i] = IF i = r.n - 1 THEN 0 ELSE IF i = 0 THEN r.key[1] ELSE r.key[i]
    <3>1. one.r \in Page /\ one.r.key = kb /\ one.r.leaf /\ one.r.parent = r.parent /\ one.r.n = r.n - 1
          /\ one.r.off = r.off
      BY <2>2, <2>a, <2>b DEF Page, KeyValue
    <3> QED BY <2>b, <3>1
  <2>4. /\ one.l \in Page /\ one.l.leaf /\ one.l.parent = l.parent /\ one.l.n = 1 /\ one.l.off = l.off
        /\ \A i \in KeySlot : one.l.key[i] = IF i = 0 THEN r.key[0] ELSE l.key[i]
    <3>1. one.l \in Page /\ one.l.key = ka /\ one.l.leaf /\ one.l.parent = l.parent /\ one.l.n = 1
          /\ one.l.off = l.off
      BY <1>1, <2>2, <2>a, <2>c DEF Page, KeyValue
    <3> QED BY <2>c, <3>1
  <2>5. /\ mid <= r.key[0] /\ r.key[0] < high /\ r.key[0] \in Int
        /\ r.n = 2 => r.key[0] < r.key[1] /\ r.key[1] < high /\ r.key[1] \in KeyValue /\ r.key[1] \in Int
        /\ \A i \in KeySlot : i >= r.n => r.key[i] = 0
        /\ \A i \in KeySlot : i >= 1 => l.key[i] = 0
        /\ \A i \in OffSlot : i > 0 => l.off[i] = 0 /\ r.off[i] = 0
    <3>1. \A i \in 0 .. r.n : r.key[i] \in KeyValue /\ r.key[i] \in Int
      BY PageFacts
    <3> QED BY <1>1, <2>0, <3>1 DEF SlotsInOrder
  <2>6. \A lo, hi \in Int : lo <= r.key[0] /\ r.key[0] < hi => SlotsInOrder(one.l, lo, hi)
    <3>1. /\ one.l.n = 1 /\ one.l.leaf /\ one.l.key[0] = r.key[0] /\ r.key[0] \in Int
          /\ \A i \in KeySlot : i >= 1 => one.l.key[i] = 0
          /\ \A i \in OffSlot : i > 0 => one.l.off[i] = 0
      BY <1>1, <2>4, <2>5
    <3> HIDE DEF one
    <3> SUFFICES ASSUME NEW lo \in Int, NEW hi \in Int, lo <= r.key[0], r.key[0] < hi
                 PROVE  SlotsInOrder(one.l, lo, hi)
      OBVIOUS
    <3>2. \A i \in 0 .. one.l.n - 1 : i = 0
      BY <3>1
    <3>3. \A i \in 0 .. one.l.n - 1 : lo <= one.l.key[i] /\ one.l.key[i] < hi
      BY <3>1, <3>2
    <3>4. \A i \in 1 .. one.l.n - 1 : one.l.key[i - 1] < one.l.key[i]
      BY <3>1
    <3> QED BY <3>1, <3>3, <3>4 DEF SlotsInOrder
  <2>7. KeysOf(one.l) = {r.key[0]} /\ KeysOf(l) = {}
    BY <1>1, <2>0, <2>4 DEF KeysOf, Values
  <2>8. CASE r.n = 1
    <3>1. m.r = one.r /\ m.l = [one.l EXCEPT !.off[0] = r.off[0]] /\ m.r.n = 0
      <4>1. one.r.n = 0 /\ one.r.off[0] = r.off[0]
        BY <2>3, <2>8
      <4>2. m = [one EXCEPT !.l.off[0] = r.off[0]]
        BY <2>1, <4>1 DEF Chained
      <4>3. m.r = one.r
        BY <2>2, <4>2
      <4>4. m.l = [one.l EXCEPT !.off[0] = r.off[0]]
        BY <2>2, <4>2
      <4> QED BY <4>1, <4>3, <4>4
    <3>2. /\ m.l \in Page /\ m.l.leaf /\ m.l.parent = l.parent /\ m.l.n = 1
          /\ m.l.key = one.l.key /\ m.l.off[0] = r.off[0]
          /\ \A i \in OffSlot : i # 0 => m.l.off[i] = one.l.off[i]
      BY <1>1, <2>4, <3>1 DEF Page
    <3>3. SlotsInOrder(one.l, low, high)
      BY <2>5, <2>6
    <3>4. SlotsInOrder(m.l, low, high)
      BY <1>1, <2>4, <3>2, <3>3 DEF SlotsInOrder
    <3>5. KeysOf(r) = {r.key[0]} /\ KeysOf(m.l) = {r.key[0]}
      BY <1>1, <2>4, <2>8, <3>2 DEF KeysOf, Values
    <3>6. Joined(l, r, low, high, m)
      BY <1>1, <2>7, <3>2, <3>4, <3>5 DEF Joined
    <3> QED BY <2>3, <3>1, <3>6 DEF Merged
  <2>9. CASE r.n = 2
    <3>1. m.r = one.r /\ m.l = one.l /\ m.r.n = 1
      BY <2>1, <2>3, <2>9 DEF Chained
    <3>2. one.r.key[0] = r.key[1]
      BY <1>1, <2>3, <2>9
    <3>3. SlotsInOrder(one.l, low, r.key[1])
      BY <2>5, <2>6, <2>9
    <3>4. SlotsInOrder(one.r, r.key[1], high)
      BY <1>1, <2>3, <2>5, <2>9, <3>2 DEF SlotsInOrder
    <3>5. KeysOf(r) = {r.key[0], r.key[1]} /\ KeysOf(one.r) = {r.key[1]}
      BY <1>1, <2>3, <2>9, <3>2 DEF KeysOf, Values
    <3>6. KeysOf(one.l) \cup KeysOf(one.r) = KeysOf(l) \cup KeysOf(r)
      BY <2>7, <3>5
    <3>7. m.l.n \in 1 .. LeafOrder - 1 /\ m.r.n \in 1 .. LeafOrder - 1
      BY <1>1, <2>4, <3>1
    <3>8. Balanced(l, r, low, mid, high, m)
      BY <2>3, <2>4, <2>5, <2>9, <3>1, <3>2, <3>3, <3>4, <3>6, <3>7 DEF Balanced
    <3> QED BY <2>3, <3>1, <3>8 DEF Merged
  <2> QED BY <1>1, <2>0, <2>1, <2>8, <2>9
<1> QED BY <1>2, <1>3

-----------------------------------------------------------------------------
(* One comparison of get_neighbor_index (bpt.c:858), and the function that *)
(* NeighborIndex is defined by.                                            *)
Probing == (0 .. InternalOrder + 1) \X (0 .. InternalOrder) \X (0 .. InternalOrder + 1)
Near(c, p, g, l, r, fuel) ==
    LET i == (l + r) \div 2
    IN  IF c.off[i] = p THEN i - 1
        ELSE IF fuel = 0 THEN -2
        ELSE IF p < c.off[i] THEN g[<<l, i, fuel - 1>>]
        ELSE g[<<i + 1, r, fuel - 1>>]
IsNear(g, c, p) == g = [at \in Probing |-> Near(c, p, g, at[1], at[2], at[3])]

(* It does not leave its domain. *)
LEMMA NearGoesOn ==
    ASSUME NEW l \in 0 .. InternalOrder + 1, NEW r \in 0 .. InternalOrder
    PROVE  LET i == (l + r) \div 2
           IN  i \in 0 .. InternalOrder /\ i + 1 \in 0 .. InternalOrder + 1
BY NodeAssumption

(* It exists, by induction over the number of comparisons. *)
LEMMA NearExists ==
    ASSUME NEW c, NEW p
    PROVE  \E g : IsNear(g, c, p)
<1> DEFINE N == InternalOrder + 1
           L == 0 .. InternalOrder + 1
           R == 0 .. InternalOrder
           H(g, l, r, f) == Near(c, p, g, l, r, f)
           Ok(g, d) == \A l \in L, r \in R, f \in 0 .. d : g[<<l, r, f>>] = H(g, l, r, f)
           S == {d \in 0 .. N : \E g : Ok(g, d)}
<1>n. N \in Nat /\ 0 \in 0 .. N
  BY NodeAssumption
<1>0. ASSUME NEW g, NEW f, NEW l \in L, NEW r \in R, NEW d \in 0 .. N,
             d > 0 => \A l1 \in L, r1 \in R : g[<<l1, r1, d - 1>>] = f[<<l1, r1, d - 1>>]
      PROVE  H(g, l, r, d) = H(f, l, r, d)
  <2> DEFINE i == (l + r) \div 2
  <2>1. i \in R /\ i + 1 \in L
    BY NearGoesOn
  <2>2. d # 0 => d > 0
    BY <1>n
  <2>3. d # 0 => g[<<l, i, d - 1>>] = f[<<l, i, d - 1>>] /\ g[<<i + 1, r, d - 1>>] = f[<<i + 1, r, d - 1>>]
    BY <1>0, <2>1, <2>2
  <2> QED BY <2>3 DEF Near
<1> HIDE DEF H, N, L, R
<1>1. 0 \in S
  <2> DEFINE g == [at \in L \X R \X {0} |-> H(p, at[1], at[2], 0)]
  <2>1. ASSUME NEW l \in L, NEW r \in R PROVE g[<<l, r, 0>>] = H(g, l, r, 0)
    <3>1. <<l, r, 0>> \in L \X R \X {0}
      OBVIOUS
    <3>2. g[<<l, r, 0>>] = H(p, l, r, 0)
      BY <3>1
    <3> HIDE DEF g
    <3>3. H(p, l, r, 0) = H(g, l, r, 0)
      BY <1>0, <1>n
    <3> QED BY <3>2, <3>3
  <2> HIDE DEF g
  <2>2. \A f \in 0 .. 0 : f = 0
    OBVIOUS
  <2>3. Ok(g, 0)
    BY <2>1, <2>2
  <2> HIDE DEF Ok
  <2> QED BY <1>n, <2>3
<1>2. ASSUME NEW d \in 0 + 1 .. N, d - 1 \in S PROVE d \in S
  <2>1. PICK g : Ok(g, d - 1)
    BY <1>2
  <2> DEFINE f == [at \in L \X R \X (0 .. N) |-> IF at[3] < d THEN g[at] ELSE H(g, at[1], at[2], at[3])]
  <2>2. \A l \in L, r \in R, j \in 0 .. N :
            f[<<l, r, j>>] = IF j < d THEN g[<<l, r, j>>] ELSE H(g, l, r, j)
    OBVIOUS
  <2> HIDE DEF f
  <2>3. /\ d \in 0 .. N /\ 0 < d /\ d \in Nat
        /\ \A j \in 0 .. d : j \in 0 .. N /\ j \in Nat /\ (j > 0 => j - 1 \in 0 .. d - 1 /\ j - 1 < d /\ j - 1 \in 0 .. N)
        /\ \A j \in 0 .. d : j = d \/ (j \in 0 .. d - 1 /\ j < d)
    BY <1>n
  <2>4. ASSUME NEW l \in L, NEW r \in R, NEW j \in 0 .. d PROVE f[<<l, r, j>>] = H(f, l, r, j)
    <3>1. j > 0 => \A l1 \in L, r1 \in R : g[<<l1, r1, j - 1>>] = f[<<l1, r1, j - 1>>]
      BY <2>2, <2>3
    <3>2. H(g, l, r, j) = H(f, l, r, j)
      BY <1>0, <2>3, <3>1
    <3>3. CASE j = d
      BY <2>2, <2>3, <3>2, <3>3
    <3>4. CASE j # d
      <4>1. j \in 0 .. d - 1 /\ j < d /\ j \in 0 .. N
        BY <2>3, <3>4
      <4>2. g[<<l, r, j>>] = H(g, l, r, j)
        BY <2>1, <4>1
      <4> QED BY <2>2, <3>2, <4>1, <4>2
    <3> QED BY <3>3, <3>4
  <2>5. Ok(f, d)
    BY <2>4, Zenon
  <2> HIDE DEF Ok
  <2> QED BY <2>3, <2>5
<1>3. N \in S
  <2> HIDE DEF S
  <2>1. \A d \in 0 .. N : d \in S
    BY <1>n, <1>1, <1>2, IntervalInduction
  <2> QED BY <1>n, <2>1
<1>4. PICK g : Ok(g, N)
  BY <1>3
<1> DEFINE f == [at \in L \X R \X (0 .. N) |-> g[at]]
<1>5. \A l \in L, r \in R, j \in 0 .. N : f[<<l, r, j>>] = g[<<l, r, j>>]
  OBVIOUS
<1>6. f = [at \in L \X R \X (0 .. N) |-> f[at]]
  OBVIOUS
<1> HIDE DEF f
<1>7. ASSUME NEW at \in L \X R \X (0 .. N) PROVE f[at] = H(f, at[1], at[2], at[3])
  <2>1. PICK l \in L, r \in R, j \in 0 .. N : at = <<l, r, j>>
    OBVIOUS
  <2>2. j > 0 => j - 1 \in 0 .. N
    BY <1>n
  <2>3. H(g, l, r, j) = H(f, l, r, j)
    BY <1>0, <1>5, <2>2
  <2>4. f[<<l, r, j>>] = H(g, l, r, j)
    BY <1>4, <1>5
  <2> QED BY <2>1, <2>3, <2>4
<1>8. f = [at \in L \X R \X (0 .. N) |-> H(f, at[1], at[2], at[3])]
  BY <1>6, <1>7
<1> QED BY <1>8 DEF IsNear, Probing, H, N, L, R

(* What it answers is right, or it does not end. *)
LEMMA NeighborIsNext ==
    ASSUME NEW c, c.n \in 0 .. InternalOrder, NEW p, NEW ni, ni = NeighborIndex(c, p)
    PROVE  ni = -2 \/ \E i \in 0 .. c.n : c.off[i] = p /\ ni = i - 1
<1> DEFINE probe == CHOOSE g : IsNear(g, c, p)
           N == InternalOrder + 1
           n == c.n
           L == 0 .. n + 1
           R == 0 .. n
           Right(x) == x = -2 \/ \E i \in R : c.off[i] = p /\ x = i - 1
           S == {d \in 0 .. N : \A l \in L, r \in R : Right(probe[<<l, r, d>>])}
<1>1. ni = probe[<<0, n, N>>]
  BY DEF NeighborIndex, IsNear, Near, Probing
<1>2. IsNear(probe, c, p)
  BY NearExists
<1> HIDE DEF probe
<1>3. /\ n \in Nat /\ InternalOrder \in Nat /\ N \in Nat /\ n <= InternalOrder
      /\ \A l \in L : l \in 0 .. InternalOrder + 1
      /\ \A r \in R : r \in 0 .. InternalOrder
  BY NodeAssumption
<1>4. \A l \in L, r \in R, d \in 0 .. N : probe[<<l, r, d>>] = Near(c, p, probe, l, r, d)
  <2>1. \A l \in L, r \in R, d \in 0 .. N : <<l, r, d>> \in Probing
    BY <1>3 DEF Probing
  <2> QED BY <1>2, <2>1, Zenon DEF IsNear
<1>5. \A l \in L, r \in R : (l + r) \div 2 \in R /\ (l + r) \div 2 + 1 \in L
  BY <1>3
<1> HIDE DEF n, N, L, R
<1>6. 0 \in S
  <2> SUFFICES ASSUME NEW l \in L, NEW r \in R PROVE Right(probe[<<l, r, 0>>])
    BY <1>3
  <2>1. probe[<<l, r, 0>>] = Near(c, p, probe, l, r, 0)
    BY <1>3, <1>4
  <2> QED BY <1>5, <2>1 DEF Near
<1>7. ASSUME NEW d \in 0 + 1 .. N, d - 1 \in S PROVE d \in S
  <2> SUFFICES ASSUME NEW l \in L, NEW r \in R PROVE Right(probe[<<l, r, d>>])
    BY <1>3
  <2> DEFINE i == (l + r) \div 2
  <2>1. probe[<<l, r, d>>] = Near(c, p, probe, l, r, d) /\ d # 0
    BY <1>3, <1>4
  <2>2. i \in R /\ i + 1 \in L
    BY <1>5
  <2>3. Right(probe[<<l, i, d - 1>>]) /\ Right(probe[<<i + 1, r, d - 1>>])
    BY <1>7, <2>2
  <2> QED BY <2>1, <2>2, <2>3 DEF Near
<1> HIDE DEF S
<1>8. N \in S
  <2>1. \A d \in 0 .. N : d \in S
    BY <1>3, <1>6, <1>7, IntervalInduction
  <2> QED BY <1>3, <2>1
<1>9. 0 \in L /\ n \in R
  BY <1>3 DEF L, R
<1> QED BY <1>1, <1>8, <1>9 DEF S, R, n

-----------------------------------------------------------------------------
(* Other leaves for some of one parent.                                    *)
Changed(row, old, new) == (row \ old) \cup new
Minus(k, keys) == keys \ {k}

(* The tree stays one when the parent's branches say the same. *)
LEMMA LeavesChange ==
    ASSUME NEW image \in Image, NEW top \in 1 .. MaxPage, NEW rows, NEW h, IsTree(image, top, rows, h), h > 0,
           NEW q \in rows[h - 1], NEW old, old \subseteq Under(image, q), NEW new,
           NEW d \in Page, ~d.leaf, d.parent = image[q[1]].parent, d.n < InternalOrder,
           d.n > 0 \/ q[1] = top, SlotsInOrder(d, q[2], q[3]),
           Subtrees(d, q[2], q[3]) = Changed(Under(image, q), old, new),
           NEW image1 \in Image, image1[q[1]] = d,
           \A j \in 0 .. h - 1 : \A f \in rows[j] : f # q => image1[f[1]] = image[f[1]],
           \A f \in rows[h] : f \notin old => image1[f[1]] = image[f[1]],
           \A f \in new : EntryInOrder(image1, top, f) /\ image1[f[1]].leaf /\ image1[f[1]].parent = q[1],
           NEW rows1, rows1 = [j \in 0 .. h |-> IF j = h THEN Changed(rows[h], old, new) ELSE rows[j]]
    PROVE  IsTree(image1, top, rows1, h)
<1>1. /\ h \in 0 .. MaxPage - 1 /\ h \in Nat /\ h - 1 \in 0 .. h /\ h - 1 # h /\ h \in 1 .. h /\ 0 \in 0 .. h /\ h # 0
      /\ \A j \in 1 .. h : j - 1 \in 0 .. h /\ j - 1 # h /\ j \in 0 .. h
      /\ \A j \in 0 .. h : j # h => j \in 0 .. h - 1
      /\ \A j \in 1 .. h : j - 1 \in 0 .. h - 1
      /\ \A j \in 1 .. h : j # h => j - 1 # h - 1
  BY PageNumbers DEF IsTree
<1>2. Once(rows, h)
  BY OnePlace
<1>3. /\ image[top].parent = 0 /\ rows[0] = {<<top, 0, KeyMod>>}
      /\ \A j \in 0 .. h : \A e \in rows[j] : EntryInOrder(image, top, e) /\ (image[e[1]].leaf <=> j = h)
      /\ \A j \in 1 .. h : rows[j] = UnderRow(image, rows[j - 1]) /\ KnowParents(image, rows[j - 1])
  BY DEF IsTree
<1>4. /\ rows1[h] = Changed(rows[h], old, new)
      /\ \A j \in 0 .. h : j # h => rows1[j] = rows[j]
  BY <1>1
<1>5. Under(image1, q) = Changed(Under(image, q), old, new)
  BY DEF Under
<1>6. \A j \in 0 .. h - 1 : \A f \in rows[j] : f # q => Under(image1, f) = Under(image, f)
  BY DEF Under
<1>7. image1[top].parent = 0
  <2>1. <<top, 0, KeyMod>> \in rows[0] /\ 0 \in 0 .. h - 1
    BY <1>1, <1>3
  <2>2. CASE q = <<top, 0, KeyMod>>
    BY <1>3, <2>2
  <2>3. CASE q # <<top, 0, KeyMod>>
    BY <1>3, <2>1, <2>3
  <2> QED BY <2>2, <2>3
<1>8. rows1[0] = {<<top, 0, KeyMod>>}
  BY <1>1, <1>3, <1>4
<1>9. ASSUME NEW j \in 0 .. h, NEW e \in rows1[j]
      PROVE  EntryInOrder(image1, top, e) /\ (image1[e[1]].leaf <=> j = h)
  <2>1. CASE j = h /\ e \in new
    BY <2>1
  <2>2. CASE j = h /\ e \notin new
    <3>1. e \in rows[h] /\ e \notin old
      BY <1>4, <1>9, <2>2 DEF Changed
    <3>2. image1[e[1]] = image[e[1]]
      BY <3>1
    <3> QED BY <1>1, <1>3, <2>2, <3>1, <3>2 DEF EntryInOrder
  <2>3. CASE j # h /\ e # q
    <3>1. e \in rows[j] /\ j \in 0 .. h - 1
      BY <1>1, <1>4, <1>9, <2>3
    <3>2. image1[e[1]] = image[e[1]]
      BY <2>3, <3>1
    <3> QED BY <1>1, <1>3, <2>3, <3>1, <3>2 DEF EntryInOrder
  <2>4. CASE j # h /\ e = q
    <3>1. q \in Entry
      BY <1>1, <1>3 DEF EntryInOrder
    <3>2. EntryInOrder(image1, top, q)
      BY <3>1 DEF EntryInOrder
    <3> QED BY <2>4, <3>2
  <2> QED BY <2>1, <2>2, <2>3, <2>4
<1>10. \A e \in Under(image, q) : image[e[1]].parent = q[1] /\ e \in rows[h]
  <2>1. KnowParents(image, rows[h - 1]) /\ rows[h] = UnderRow(image, rows[h - 1])
    BY <1>1, <1>3
  <2> QED BY <2>1 DEF KnowParents, UnderRow
<1>11. ASSUME NEW f \in rows[h - 1], f # q, NEW e \in Under(image, f) PROVE e \notin old /\ e \in rows[h]
  <2>1. KnowParents(image, rows[h - 1]) /\ rows[h] = UnderRow(image, rows[h - 1])
    BY <1>1, <1>3
  <2>2. image[e[1]].parent = f[1] /\ e \in rows[h]
    BY <2>1 DEF KnowParents, UnderRow
  <2>3. f[1] # q[1]
    BY <1>1, <1>2, <1>11 DEF Once
  <2> QED BY <1>10, <2>2, <2>3
<1>12. rows1[h] = UnderRow(image1, rows[h - 1])
  <2>1. ASSUME NEW e \in rows1[h] PROVE e \in UnderRow(image1, rows[h - 1])
    <3>1. CASE e \in new
      <4>1. e \in Under(image1, q)
        BY <1>5, <3>1 DEF Changed
      <4> QED BY <4>1, InRows
    <3>2. CASE e \notin new
      <4>1. e \in rows[h] /\ e \notin old
        BY <1>4, <2>1, <3>2 DEF Changed
      <4>2. rows[h] = UnderRow(image, rows[h - 1])
        BY <1>1, <1>3
      <4>3. PICK f \in rows[h - 1] : e \in Under(image, f)
        BY <4>1, <4>2, InRows
      <4>4. e \in Under(image1, f)
        <5>1. CASE f = q
          BY <1>5, <4>1, <4>3, <5>1 DEF Changed
        <5>2. CASE f # q
          <6>1. h - 1 \in 0 .. h - 1
            BY <1>1
          <6> QED BY <1>6, <4>3, <5>2, <6>1
        <5> QED BY <5>1, <5>2
      <4> QED BY <4>4, InRows
    <3> QED BY <3>1, <3>2
  <2>2. ASSUME NEW e \in UnderRow(image1, rows[h - 1]) PROVE e \in rows1[h]
    <3>1. PICK f \in rows[h - 1] : e \in Under(image1, f)
      BY <2>2, InRows
    <3>2. CASE f = q
      <4>1. e \in new \/ (e \in Under(image, q) /\ e \notin old)
        BY <1>5, <3>1, <3>2 DEF Changed
      <4> QED BY <1>4, <1>10, <4>1 DEF Changed
    <3>3. CASE f # q
      <4>1. h - 1 \in 0 .. h - 1
        BY <1>1
      <4>2. e \in Under(image, f)
        BY <1>6, <3>1, <3>3, <4>1
      <4>3. e \notin old /\ e \in rows[h]
        BY <1>11, <3>3, <4>2
      <4> QED BY <1>4, <4>3 DEF Changed
    <3> QED BY <3>2, <3>3
  <2> QED BY <2>1, <2>2, SetExtensionality
<1>13. KnowParents(image1, rows[h - 1])
  <2> SUFFICES ASSUME NEW f \in rows[h - 1], NEW e \in Under(image1, f) PROVE image1[e[1]].parent = f[1]
    BY DEF KnowParents
  <2>0. h - 1 \in 0 .. h - 1
    BY <1>1
  <2>1. CASE f = q
    <3>1. e \in new \/ (e \in Under(image, q) /\ e \notin old)
      BY <1>5, <2>1 DEF Changed
    <3> QED BY <1>10, <2>1, <3>1
  <2>2. CASE f # q
    <3>1. e \in Under(image, f)
      BY <1>6, <2>0, <2>2
    <3>2. e \notin old /\ e \in rows[h]
      BY <1>11, <2>2, <3>1
    <3>3. image[e[1]].parent = f[1]
      BY <1>1, <1>3, <3>1 DEF KnowParents
    <3> QED BY <3>2, <3>3
  <2> QED BY <2>1, <2>2
<1>14. ASSUME NEW j \in 1 .. h
       PROVE  rows1[j] = UnderRow(image1, rows1[j - 1]) /\ KnowParents(image1, rows1[j - 1])
  <2>1. rows1[j - 1] = rows[j - 1]
    BY <1>1, <1>4
  <2>2. CASE j = h
    BY <1>12, <1>13, <2>1, <2>2
  <2>3. CASE j # h
    <3>1. rows1[j] = rows[j] /\ rows[j] = UnderRow(image, rows[j - 1]) /\ KnowParents(image, rows[j - 1])
      BY <1>1, <1>3, <1>4, <2>3
    <3>2. \A f \in rows[j - 1] : f # q
      <4>1. j - 1 # h - 1 /\ j - 1 \in 0 .. h /\ h - 1 \in 0 .. h
        BY <1>1, <2>3
      <4> QED BY <1>2, <4>1 DEF Once
    <3>3. \A f \in rows[j - 1] : Under(image1, f) = Under(image, f)
      BY <1>1, <1>6, <3>2
    <3>4. UnderRow(image1, rows[j - 1]) = UnderRow(image, rows[j - 1])
      <4>1. \A e : e \in UnderRow(image1, rows[j - 1]) <=> e \in UnderRow(image, rows[j - 1])
        BY <3>3, InRows
      <4> QED BY <4>1, SetExtensionality
    <3>5. \A f \in rows[j - 1] : \A e \in Under(image, f) : image1[e[1]].parent = image[e[1]].parent
      <4> SUFFICES ASSUME NEW f \in rows[j - 1], NEW e \in Under(image, f)
                   PROVE  image1[e[1]].parent = image[e[1]].parent
        OBVIOUS
      <4>1. e \in rows[j] /\ j \in 0 .. h - 1
        BY <1>1, <2>3, <3>1, InRows
      <4>2. CASE e # q
        BY <4>1, <4>2
      <4>3. CASE e = q
        BY <4>3
      <4> QED BY <4>2, <4>3
    <3>6. KnowParents(image1, rows[j - 1])
      BY <3>1, <3>3, <3>5 DEF KnowParents
    <3> QED BY <2>1, <3>1, <3>4, <3>6
  <2> QED BY <2>2, <2>3
<1> QED BY <1>1, <1>7, <1>8, <1>9, <1>14 DEF IsTree

(* The keys are those of the leaves as they are now. *)
LEMMA KeysChange ==
    ASSUME NEW image, NEW image1, NEW row, NEW old, old \subseteq row, NEW new, NEW k,
           \A f \in row : f \notin old => image1[f[1]] = image[f[1]] /\ k \notin KeysOf(image[f[1]]),
           RowKeys(image1, new) = Minus(k, RowKeys(image, old))
    PROVE  RowKeys(image1, Changed(row, old, new)) = Minus(k, RowKeys(image, row))
<1>1. ASSUME NEW x \in RowKeys(image1, Changed(row, old, new)) PROVE x \in Minus(k, RowKeys(image, row))
  <2>1. PICK f \in Changed(row, old, new) : x \in KeysOf(image1[f[1]])
    BY <1>1 DEF RowKeys
  <2>2. CASE f \in new
    <3>1. x \in Minus(k, RowKeys(image, old))
      BY <2>1, <2>2 DEF RowKeys
    <3> QED BY <3>1 DEF Minus, RowKeys
  <2>3. CASE f \notin new
    <3>1. f \in row /\ f \notin old
      BY <2>3 DEF Changed
    <3>2. x \in KeysOf(image[f[1]]) /\ x # k
      BY <2>1, <3>1
    <3> QED BY <3>1, <3>2 DEF Minus, RowKeys
  <2> QED BY <2>2, <2>3
<1>2. ASSUME NEW x \in Minus(k, RowKeys(image, row)) PROVE x \in RowKeys(image1, Changed(row, old, new))
  <2>1. PICK f \in row : x \in KeysOf(image[f[1]]) /\ x # k
    BY <1>2 DEF RowKeys, Minus
  <2>2. CASE f \in old
    <3>1. x \in Minus(k, RowKeys(image, old))
      BY <2>1, <2>2 DEF RowKeys, Minus
    <3>2. x \in RowKeys(image1, new)
      BY <3>1
    <3> QED BY <3>2 DEF Changed, RowKeys
  <2>3. CASE f \notin old
    <3>1. f \in Changed(row, old, new) /\ image1[f[1]] = image[f[1]]
      BY <2>3 DEF Changed
    <3> QED BY <2>1, <3>1 DEF RowKeys
  <2> QED BY <2>2, <2>3
<1> QED BY <1>1, <1>2, SetExtensionality

(* Two neighbors el and er, before and after the separator i of their      *)
(* parent's page.                                                          *)
AreNeighbors(image, rows, h, q, i, el, er) ==
    LET pc == image[q[1]]
    IN  /\ h > 0 /\ q \in rows[h - 1] /\ i \in 0 .. pc.n - 1
        /\ el = Branch(pc.key, pc.off, pc.n, q[2], q[3], i)
        /\ er = Branch(pc.key, pc.off, pc.n, q[2], q[3], i + 1)

LEMMA NeighborFacts ==
    ASSUME NEW image \in Image, NEW top \in 1 .. MaxPage, NEW rows, NEW h, IsTree(image, top, rows, h),
           NEW q, NEW i, NEW el, NEW er, AreNeighbors(image, rows, h, q, i, el, er),
           NEW pc, pc = image[q[1]]
    PROVE  /\ q \in Entry /\ pc \in Page /\ ~pc.leaf /\ pc.n < InternalOrder /\ pc.n \in Nat
           /\ SlotsInOrder(pc, q[2], q[3])
           /\ {el, er} \subseteq Under(image, q) /\ Under(image, q) \subseteq rows[h]
           /\ el[1] = pc.off[i] /\ er[1] = pc.off[i + 1]
           /\ el[3] = pc.key[i] /\ er[2] = pc.key[i] /\ pc.key[i] \in Int
           /\ el[1] # er[1] /\ el[1] # q[1] /\ er[1] # q[1]
           /\ \A e \in Under(image, q) : /\ e \in Entry /\ e[1] # top /\ image[e[1]] \in Page
                                         /\ image[e[1]].leaf /\ image[e[1]].parent = q[1]
                                         /\ image[e[1]].n > 0 /\ image[e[1]].n < LeafOrder
                                         /\ SlotsInOrder(image[e[1]], e[2], e[3])
                                         /\ e[2] \in Int /\ e[3] \in Int /\ e[2] < e[3]
<1>1. /\ h \in 0 .. MaxPage - 1 /\ h \in Nat /\ h > 0 /\ q \in rows[h - 1] /\ i \in 0 .. pc.n - 1
      /\ h - 1 \in 0 .. h /\ h - 1 # h /\ h \in 1 .. h /\ 0 \in 0 .. h /\ h # 0 /\ h \in 0 .. h
  BY PageNumbers DEF IsTree, AreNeighbors
<1>2. Once(rows, h)
  BY OnePlace
<1>3. /\ rows[0] = {<<top, 0, KeyMod>>}
      /\ \A j \in 0 .. h : \A e \in rows[j] : EntryInOrder(image, top, e) /\ (image[e[1]].leaf <=> j = h)
      /\ rows[h] = UnderRow(image, rows[h - 1]) /\ KnowParents(image, rows[h - 1])
  BY <1>1 DEF IsTree
<1>4. /\ q \in Entry /\ pc \in Page /\ ~pc.leaf /\ pc.n < InternalOrder /\ SlotsInOrder(pc, q[2], q[3])
  <2>1. EntryInOrder(image, top, q) /\ ~pc.leaf
    BY <1>1, <1>3
  <2>2. q[1] \in 1 .. MaxPage
    BY <2>1 DEF EntryInOrder, Entry
  <2> QED BY <2>1, <2>2 DEF EntryInOrder, Image
<1>5. pc.n \in Nat /\ i \in 0 .. pc.n /\ i + 1 \in 0 .. pc.n /\ i + 1 # 0 /\ i # pc.n /\ pc.key[i] \in Int
      /\ (i + 1) - 1 = i
  <2>1. pc.n \in Nat /\ i \in 0 .. pc.n
    BY <1>1, <1>4, PageFacts
  <2>2. pc.key[i] \in Int
    BY <1>4, <2>1, PageFacts
  <2> QED BY <1>1, <2>1, <2>2
<1>6. /\ el[1] = pc.off[i] /\ er[1] = pc.off[i + 1] /\ el[3] = pc.key[i] /\ er[2] = pc.key[i]
  BY <1>5 DEF AreNeighbors, Branch
<1>7. {el, er} \subseteq Under(image, q)
  BY <1>5 DEF AreNeighbors, Under, Subtrees, Branches
<1>8. Under(image, q) \subseteq rows[h]
  BY <1>1, <1>3 DEF UnderRow
<1>9. ASSUME NEW e \in Under(image, q)
      PROVE  /\ e \in Entry /\ e[1] # top /\ image[e[1]] \in Page
             /\ image[e[1]].leaf /\ image[e[1]].parent = q[1]
             /\ image[e[1]].n > 0 /\ image[e[1]].n < LeafOrder
             /\ SlotsInOrder(image[e[1]], e[2], e[3])
             /\ e[2] \in Int /\ e[3] \in Int /\ e[2] < e[3] /\ e[1] # q[1]
  <2>1. e \in rows[h] /\ EntryInOrder(image, top, e) /\ image[e[1]].leaf
    BY <1>1, <1>3, <1>8
  <2>2. e[1] # top
    <3>1. <<top, 0, KeyMod>> \in rows[0] /\ <<top, 0, KeyMod>>[1] = top
      BY <1>3
    <3>2. \A f \in rows[0] : f[1] # e[1]
      BY <1>1, <1>2, <2>1 DEF Once
    <3> QED BY <3>1, <3>2
  <2>3. image[e[1]].n > 0 /\ image[e[1]].n < LeafOrder /\ SlotsInOrder(image[e[1]], e[2], e[3]) /\ e \in Entry
    BY <2>1, <2>2 DEF EntryInOrder
  <2>4. e[2] \in Int /\ e[3] \in Int /\ e[2] < e[3]
    BY <2>1, <2>3, EntryHasKeys
  <2>5. image[e[1]] \in Page
    BY <2>3 DEF Entry, Image
  <2>6. image[e[1]].parent = q[1]
    BY <1>1, <1>3 DEF KnowParents
  <2>7. e[1] # q[1]
    BY <1>4, <2>1
  <2> QED BY <2>1, <2>2, <2>3, <2>4, <2>5, <2>6, <2>7
<1>10. el[1] # er[1]
  <2>1. el \in Under(image, q) /\ er \in Under(image, q)
    BY <1>7
  <2>2. el[2] < el[3] /\ er[2] < er[3] /\ el[2] \in Int /\ el[3] \in Int
    BY <1>9, <2>1
  <2>3. el # er
    BY <1>5, <1>6, <2>2
  <2>4. el \in rows[h] /\ er \in rows[h]
    BY <1>8, <2>1
  <2> QED BY <1>1, <1>2, <2>3, <2>4 DEF Once
<1> QED BY <1>4, <1>5, <1>6, <1>7, <1>8, <1>9, <1>10

(* Branches el and er of page c meet at its separator i. *)
Meet(c, low, high, i, el, er) ==
    /\ i \in 0 .. c.n - 1
    /\ el = Branch(c.key, c.off, c.n, low, high, i)
    /\ er = Branch(c.key, c.off, c.n, low, high, i + 1)

(* One entry in the place of both, and two that meet at k.                 *)
OneFor(row, el, er) == Changed(row, {el, er}, {<<el[1], el[2], er[3]>>})
TwoFor(row, el, er, k) == Changed(row, {el, er}, {<<el[1], el[2], k>>, <<er[1], k, er[3]>>})

(* A page without separator i has one branch for the two at its sides,     *)
(* and with another separator k in its place two that meet at k.           *)
LEMMA BranchesChange ==
    ASSUME NEW pc \in Page, ~pc.leaf, pc.n < InternalOrder,
           NEW low \in Int, NEW high \in Int, SlotsInOrder(pc, low, high),
           \A e \in Subtrees(pc, low, high) : e[2] < e[3],
           NEW i, NEW el, NEW er, Meet(pc, low, high, i, el, er)
    PROVE  /\ United(pc.key, pc.off, pc.n, low, high, i) = OneFor(Subtrees(pc, low, high), el, er)
           /\ \A key, k : (\A j \in 0 .. pc.n - 1 : key[j] = IF j = i THEN k ELSE pc.key[j])
                  => Branches(key, pc.off, pc.n, low, high) = TwoFor(Subtrees(pc, low, high), el, er, k)
<1> DEFINE B(j) == Branch(pc.key, pc.off, pc.n, low, high, j)
           All == Subtrees(pc, low, high)
<1>0. /\ i \in 0 .. pc.n - 1
      /\ el = Branch(pc.key, pc.off, pc.n, low, high, i)
      /\ er = Branch(pc.key, pc.off, pc.n, low, high, i + 1)
  BY DEF Meet
<1>1. pc.n \in Nat /\ el[1] = pc.off[i] /\ er[1] = pc.off[i + 1]
  BY <1>0, PageFacts DEF Branch
<1>2. i \in 0 .. pc.n /\ i + 1 \in 0 .. pc.n /\ el = B(i) /\ er = B(i + 1)
  BY <1>0, <1>1
<1>4. \A e : e \in All <=> \E j \in 0 .. pc.n : e = B(j)
  BY DEF Subtrees, Branches
<1>5. ASSUME NEW j \in 0 .. pc.n, NEW j1 \in 0 .. pc.n, B(j) = B(j1) PROVE j = j1
  <2>1. B(j)[2] < B(j)[3]
    BY <1>4
  <2> QED BY <1>5, <2>1, BranchIsOne
<1> HIDE DEF All
<1> DEFINE Rest == {B(j) : j \in (0 .. pc.n) \ {i, i + 1}}
<1>6. Rest = All \ {el, er}
  <2> HIDE DEF B
  <2>1. ASSUME NEW e \in Rest PROVE e \in All \ {el, er}
    <3>1. PICK j \in (0 .. pc.n) \ {i, i + 1} : e = B(j)
      BY <2>1
    <3>2. e # el /\ e # er
      BY <1>2, <1>5, <3>1
    <3> QED BY <1>4, <3>1, <3>2
  <2>2. ASSUME NEW e \in All \ {el, er} PROVE e \in Rest
    <3>1. PICK j \in 0 .. pc.n : e = B(j)
      BY <1>4, <2>2
    <3>2. j # i /\ j # i + 1
      BY <1>2, <2>2, <3>1
    <3> QED BY <3>1, <3>2
  <2> QED BY <2>1, <2>2, SetExtensionality
<1>7. United(pc.key, pc.off, pc.n, low, high, i) = Rest \cup {<<el[1], el[2], er[3]>>}
  BY <1>1, <1>2 DEF United
<1>8. ASSUME NEW key, NEW k, \A j \in 0 .. pc.n - 1 : key[j] = IF j = i THEN k ELSE pc.key[j]
      PROVE  Branches(key, pc.off, pc.n, low, high) = TwoFor(All, el, er, k)
  <2> DEFINE B1(j) == Branch(key, pc.off, pc.n, low, high, j)
             new == {<<el[1], el[2], k>>, <<er[1], k, er[3]>>}
  <2>1. /\ \A j \in 0 .. pc.n : j # 0 => j - 1 \in 0 .. pc.n - 1
        /\ \A j \in 0 .. pc.n : j # pc.n => j \in 0 .. pc.n - 1
        /\ \A j \in 0 .. pc.n : j # i + 1 => j - 1 # i
        /\ (i + 1) - 1 = i /\ i + 1 # 0 /\ i # pc.n
    BY <1>0, <1>1, <1>2
  <2>2. \A j \in 0 .. pc.n : j # i /\ j # i + 1 => B1(j) = B(j)
    BY <1>8, <2>1 DEF Branch
  <2>3. B1(i) = <<el[1], el[2], k>>
    <3>1. i - 1 # i
      BY <1>1, <1>2
    <3> QED BY <1>2, <1>8, <2>1, <3>1 DEF Branch
  <2>4. B1(i + 1) = <<er[1], k, er[3]>>
    <3>1. i + 1 # i
      BY <1>1, <1>2
    <3> QED BY <1>2, <1>8, <2>1, <3>1 DEF Branch
  <2>5. \A e : e \in Branches(key, pc.off, pc.n, low, high) <=> \E j \in 0 .. pc.n : e = B1(j)
    BY DEF Branches
  <2> HIDE DEF B1, B
  <2>6. ASSUME NEW e \in Branches(key, pc.off, pc.n, low, high) PROVE e \in Rest \cup new
    <3>1. PICK j \in 0 .. pc.n : e = B1(j)
      BY <2>5
    <3> QED BY <2>2, <2>3, <2>4, <3>1
  <2>7. ASSUME NEW e \in Rest \cup new PROVE e \in Branches(key, pc.off, pc.n, low, high)
    <3>1. CASE e \in new
      BY <1>2, <2>3, <2>4, <2>5, <3>1
    <3>2. CASE e \in Rest
      <4>1. PICK j \in (0 .. pc.n) \ {i, i + 1} : e = B(j)
        BY <3>2
      <4> QED BY <2>2, <2>5, <4>1
    <3> QED BY <2>7, <3>1, <3>2
  <2> HIDE DEF new, Rest
  <2>8. Branches(key, pc.off, pc.n, low, high) = Rest \cup new
    BY <2>6, <2>7, SetExtensionality
  <2> QED BY <1>6, <2>8 DEF TwoFor, Changed, new
<1> HIDE DEF Rest
<1> QED BY <1>6, <1>7, <1>8 DEF OneFor, Changed, All

(* A key is in one leaf. *)
LEMMA KeyIsInOne ==
    ASSUME NEW image \in Image, NEW top \in 1 .. MaxPage, NEW rows, NEW h, IsTree(image, top, rows, h),
           NEW e \in rows[h], NEW k \in KeysOf(image[e[1]]), NEW f \in rows[h], k \in KeysOf(image[f[1]])
    PROVE  e = f
<1>1. InOrderBelow(image, top) /\ Leaves(image, top) = rows[h]
  BY RowsAreEnough
<1>2. Holds(e, k) /\ Holds(f, k) /\ k \in Int
  BY <1>1, LeafFacts
<1> QED BY <1>1, <1>2, OneLeaf

(* The pages l and r of two neighbors once key k of page p is gone.        *)
TwoLeft(image, el, er, p, c, l, r) ==
    /\ l = IF p = el[1] THEN c ELSE image[el[1]]
    /\ r = IF p = er[1] THEN c ELSE image[er[1]]

(* One of the two has lost key k, and l and r are what merge_nodes gets.   *)
LoseKey(image, q, el, er, k, l, r) ==
    /\ k \in KeysOf(image[el[1]]) \/ k \in KeysOf(image[er[1]])
    /\ l.parent = q[1] /\ r.parent = q[1]
    /\ l.off[0] = image[el[1]].off[0] /\ r.off[0] = image[er[1]].off[0]
    /\ KeysOf(l) \cup KeysOf(r) = Minus(k, KeysOf(image[el[1]]) \cup KeysOf(image[er[1]]))

(* Of two neighbors one has lost its only key k; merge_nodes gets them.    *)
LEMMA NeighborsFit ==
    ASSUME NEW image \in Image, NEW top \in 1 .. MaxPage, NEW rows, NEW h, IsTree(image, top, rows, h),
           NEW q, NEW i, NEW el, NEW er, AreNeighbors(image, rows, h, q, i, el, er),
           NEW p, p = el[1] \/ p = er[1], NEW k \in KeysOf(image[p]), image[p].n = 1,
           NEW c, c = RemoveEntry(image[p], k),
           NEW l, NEW r, TwoLeft(image, el, er, p, c, l, r),
           NEW m, m = ShiftLeaf(l, r), ~m.back
    PROVE  Merged(l, r, el[2], el[3], er[3], m) /\ LoseKey(image, q, el, er, k, l, r)
<1> DEFINE L == image[el[1]]
           R == image[er[1]]
<1>1. /\ {el, er} \subseteq Under(image, q) /\ Under(image, q) \subseteq rows[h]
      /\ el[1] # er[1] /\ el[3] = er[2]
      /\ \A e \in Under(image, q) : /\ image[e[1]] \in Page
                                    /\ image[e[1]].leaf /\ image[e[1]].parent = q[1]
                                    /\ image[e[1]].n > 0 /\ image[e[1]].n < LeafOrder
                                    /\ SlotsInOrder(image[e[1]], e[2], e[3])
                                    /\ e[2] \in Int /\ e[3] \in Int /\ e[2] < e[3]
  BY NeighborFacts
<1>2. /\ L \in Page /\ L.leaf /\ L.parent = q[1] /\ L.n > 0 /\ L.n < LeafOrder /\ SlotsInOrder(L, el[2], el[3])
      /\ R \in Page /\ R.leaf /\ R.parent = q[1] /\ R.n > 0 /\ R.n < LeafOrder /\ SlotsInOrder(R, er[2], er[3])
      /\ el[2] \in Int /\ el[3] \in Int /\ el[2] < el[3] /\ er[2] \in Int /\ er[3] \in Int /\ er[2] < er[3]
      /\ el \in rows[h] /\ er \in rows[h] /\ el # er
  BY <1>1
<1> HIDE DEF L, R
<1>3. \A x \in KeysOf(L) : x \notin KeysOf(R)
  BY <1>2, KeyIsInOne DEF L, R
<1>4. NodeAssumption
  BY NodeAssumption
<1>5. ASSUME NEW C \in Page, C.leaf, NEW low \in Int, NEW high \in Int, SlotsInOrder(C, low, high),
             k \in KeysOf(C), C.n = 1, C.n < LeafOrder, NEW D, D = RemoveEntry(C, k)
      PROVE  /\ D \in Page /\ D.n = 0 /\ D.leaf /\ D.parent = C.parent /\ D.off = C.off
             /\ SlotsInOrder(D, low, high) /\ KeysOf(D) = KeysOf(C) \ {k}
  <2>1. D.off = C.off
    BY <1>5 DEF RemoveEntry, Page
  <2>2. D \in Page /\ D.n = 0 /\ D.leaf /\ D.parent = C.parent
    BY <1>5, LeafLosesKey
  <2>3. SlotsInOrder(D, low, high) /\ KeysOf(D) = KeysOf(C) \ {k}
    BY <1>5, LeafLosesKey
  <2> QED BY <2>1, <2>2, <2>3
<1>6. CASE p = el[1]
  <2>1. l = RemoveEntry(L, k) /\ r = R /\ k \in KeysOf(L) /\ L.n = 1
    BY <1>1, <1>6 DEF L, R, TwoLeft
  <2>2. /\ l \in Page /\ l.n = 0 /\ l.leaf /\ l.parent = L.parent /\ l.off = L.off
        /\ SlotsInOrder(l, el[2], el[3]) /\ KeysOf(l) = KeysOf(L) \ {k}
    BY <1>2, <1>5, <2>1
  <2>3. KeysOf(l) \cup KeysOf(r) = Minus(k, KeysOf(L) \cup KeysOf(R))
    BY <1>3, <2>1, <2>2 DEF Minus
  <2>4. Merged(l, r, el[2], el[3], er[3], m)
    <3>1. /\ l \in Page /\ r \in Page /\ l.leaf /\ r.leaf /\ l.n < LeafOrder /\ r.n < LeafOrder
          /\ el[2] \in Int /\ el[3] \in Int /\ er[3] \in Int /\ el[2] <= el[3] /\ el[3] <= er[3]
          /\ SlotsInOrder(l, el[2], el[3]) /\ SlotsInOrder(r, el[3], er[3])
          /\ l.n = 0 /\ r.n > 0
      BY <1>1, <1>2, <2>1, <2>2, NodeAssumption
    <3> QED BY <3>1, LeavesMerge
  <2> QED BY <1>2, <2>1, <2>2, <2>3, <2>4 DEF L, R, LoseKey
<1>7. CASE p # el[1]
  <2>1. r = RemoveEntry(R, k) /\ l = L /\ k \in KeysOf(R) /\ R.n = 1
    BY <1>1, <1>7 DEF L, R, TwoLeft
  <2>2. /\ r \in Page /\ r.n = 0 /\ r.leaf /\ r.parent = R.parent /\ r.off = R.off
        /\ SlotsInOrder(r, er[2], er[3]) /\ KeysOf(r) = KeysOf(R) \ {k}
    BY <1>2, <1>5, <2>1
  <2>3. KeysOf(l) \cup KeysOf(r) = Minus(k, KeysOf(L) \cup KeysOf(R))
    BY <1>3, <2>1, <2>2 DEF Minus
  <2>4. Merged(l, r, el[2], el[3], er[3], m)
    <3>1. /\ l \in Page /\ r \in Page /\ l.leaf /\ r.leaf /\ l.n < LeafOrder /\ r.n < LeafOrder
          /\ el[2] \in Int /\ el[3] \in Int /\ er[3] \in Int /\ el[2] <= el[3] /\ el[3] <= er[3]
          /\ SlotsInOrder(l, el[2], el[3]) /\ SlotsInOrder(r, el[3], er[3])
          /\ r.n = 0 /\ l.n > 0
      BY <1>1, <1>2, <2>1, <2>2, NodeAssumption
    <3> QED BY <3>1, LeavesMerge
  <2> QED BY <1>2, <2>1, <2>2, <2>3, <2>4 DEF L, R, LoseKey
<1> QED BY <1>6, <1>7

(* The row of leaves once new took the place of two neighbors. *)
RowsOf(rows, h, el, er, new) == [j \in 0 .. h |-> IF j = h THEN Changed(rows[h], {el, er}, new) ELSE rows[j]]

(* Page d has the branches new where the parent of el and er had these.    *)
LeadsTo(image, top, q, el, er, d, new) ==
    /\ d \in Page /\ ~d.leaf /\ d.parent = image[q[1]].parent /\ d.n < InternalOrder
    /\ d.n > 0 \/ q[1] = top
    /\ SlotsInOrder(d, q[2], q[3])
    /\ Subtrees(d, q[2], q[3]) = Changed(Under(image, q), {el, er}, new)

(* The leaves of these are in place, without key k.                        *)
Stand(image, image1, top, q, el, er, d, new, k) ==
    /\ k \in KeysOf(image[el[1]]) \/ k \in KeysOf(image[er[1]])
    /\ image1[q[1]] = d
    /\ \A x \in 1 .. MaxPage : x # el[1] /\ x # er[1] /\ x # q[1] => image1[x] = image[x]
    /\ \A f \in new : /\ EntryInOrder(image1, top, f) /\ image1[f[1]].leaf
                      /\ image1[f[1]].parent = q[1] /\ (f[1] = el[1] \/ f[1] = er[1])
    /\ RowKeys(image1, new) = Minus(k, KeysOf(image[el[1]]) \cup KeysOf(image[er[1]]))

(* Still a tree, of no other pages, and its keys without k; and its leaves *)
(* are still chained.                                                      *)
Fewer(image, image1, top, rows, rows1, h, k) ==
    /\ IsTree(image1, top, rows1, h)
    /\ RowKeys(image1, rows1[h]) = Minus(k, RowKeys(image, rows[h]))
    /\ \A x : InTree(rows1, h, x) => InTree(rows, h, x)
KeepsLinks(image, image1, row, row1) == Linked(image, row) => Linked(image1, row1)
Less(image, image1, top, rows, rows1, h, k) ==
    /\ Fewer(image, image1, top, rows, rows1, h, k)
    /\ KeepsLinks(image, image1, rows[h], rows1[h])

LEMMA TwoChange ==
    ASSUME NEW image \in Image, NEW top \in 1 .. MaxPage, NEW rows, NEW h, IsTree(image, top, rows, h),
           NEW q, NEW i, NEW el, NEW er, AreNeighbors(image, rows, h, q, i, el, er),
           NEW k, NEW d, NEW new, LeadsTo(image, top, q, el, er, d, new),
           NEW image1 \in Image, Stand(image, image1, top, q, el, er, d, new, k),
           NEW rows1, rows1 = RowsOf(rows, h, el, er, new)
    PROVE  Fewer(image, image1, top, rows, rows1, h, k)
<1>0. /\ d \in Page /\ ~d.leaf /\ d.parent = image[q[1]].parent /\ d.n < InternalOrder
      /\ d.n > 0 \/ q[1] = top
      /\ SlotsInOrder(d, q[2], q[3])
      /\ Subtrees(d, q[2], q[3]) = Changed(Under(image, q), {el, er}, new)
      /\ k \in KeysOf(image[el[1]]) \/ k \in KeysOf(image[er[1]])
      /\ image1[q[1]] = d
      /\ \A x \in 1 .. MaxPage : x # el[1] /\ x # er[1] /\ x # q[1] => image1[x] = image[x]
      /\ \A f \in new : /\ EntryInOrder(image1, top, f) /\ image1[f[1]].leaf
                        /\ image1[f[1]].parent = q[1] /\ (f[1] = el[1] \/ f[1] = er[1])
      /\ RowKeys(image1, new) = Minus(k, KeysOf(image[el[1]]) \cup KeysOf(image[er[1]]))
  BY DEF LeadsTo, Stand
<1>1. /\ {el, er} \subseteq Under(image, q) /\ Under(image, q) \subseteq rows[h]
      /\ el[1] # er[1] /\ el[1] # q[1] /\ er[1] # q[1]
  BY NeighborFacts
<1>2. /\ h \in 0 .. MaxPage - 1 /\ h \in Nat /\ h > 0 /\ q \in rows[h - 1]
      /\ h - 1 \in 0 .. h /\ h - 1 # h /\ h \in 0 .. h /\ \A j \in 0 .. h - 1 : j \in 0 .. h /\ j # h
  <2>1. h \in 0 .. MaxPage - 1 /\ MaxPage \in Nat
    BY PageNumbers DEF IsTree
  <2>2. h > 0 /\ q \in rows[h - 1]
    BY DEF AreNeighbors
  <2> QED BY <2>1, <2>2
<1>3. Once(rows, h)
  BY OnePlace
<1>4. el \in rows[h] /\ er \in rows[h]
  BY <1>1
<1>5. \A j \in 0 .. h : \A f \in rows[j] : f[1] \in 1 .. MaxPage
  BY DEF IsTree, EntryInOrder, Entry
<1>6. \A j \in 0 .. h - 1 : \A f \in rows[j] : f # q => image1[f[1]] = image[f[1]]
  <2> SUFFICES ASSUME NEW j \in 0 .. h - 1, NEW f \in rows[j], f # q PROVE image1[f[1]] = image[f[1]]
    OBVIOUS
  <2>1. f[1] # q[1] /\ f[1] # el[1] /\ f[1] # er[1]
    BY <1>2, <1>3, <1>4 DEF Once
  <2> QED BY <1>0, <1>2, <1>5, <2>1
<1>7. \A f \in rows[h] : f \notin {el, er} => image1[f[1]] = image[f[1]]
  <2> SUFFICES ASSUME NEW f \in rows[h], f # el, f # er PROVE image1[f[1]] = image[f[1]]
    OBVIOUS
  <2>1. f[1] # q[1] /\ f[1] # el[1] /\ f[1] # er[1]
    BY <1>2, <1>3, <1>4 DEF Once
  <2> QED BY <1>0, <1>2, <1>5, <2>1
<1>8. rows1 = [j \in 0 .. h |-> IF j = h THEN Changed(rows[h], {el, er}, new) ELSE rows[j]]
  BY DEF RowsOf
<1>9. IsTree(image1, top, rows1, h)
  <2> DEFINE old == {el, er}
  <2>1. old \subseteq Under(image, q)
    BY <1>1
  <2>2. Subtrees(d, q[2], q[3]) = Changed(Under(image, q), old, new)
    BY <1>0
  <2>3. \A f \in rows[h] : f \notin old => image1[f[1]] = image[f[1]]
    BY <1>7
  <2>4. rows1 = [j \in 0 .. h |-> IF j = h THEN Changed(rows[h], old, new) ELSE rows[j]]
    BY <1>8
  <2>5. \A f \in new : EntryInOrder(image1, top, f) /\ image1[f[1]].leaf /\ image1[f[1]].parent = q[1]
    BY <1>0
  <2> HIDE DEF old
  <2> QED BY <1>0, <1>2, <1>6, <2>1, <2>2, <2>3, <2>4, <2>5, LeavesChange
<1>10. RowKeys(image1, rows1[h]) = Minus(k, RowKeys(image, rows[h]))
  <2>1. rows1[h] = Changed(rows[h], {el, er}, new)
    BY <1>2, <1>8
  <2>2. RowKeys(image, {el, er}) = KeysOf(image[el[1]]) \cup KeysOf(image[er[1]])
    BY DEF RowKeys
  <2>3. \A f \in rows[h] : f \notin {el, er} => k \notin KeysOf(image[f[1]])
    BY <1>0, <1>4, KeyIsInOne
  <2> DEFINE old == {el, er}
  <2>4. /\ old \subseteq rows[h] /\ RowKeys(image1, new) = Minus(k, RowKeys(image, old))
        /\ rows1[h] = Changed(rows[h], old, new)
        /\ \A f \in rows[h] : f \notin old => image1[f[1]] = image[f[1]] /\ k \notin KeysOf(image[f[1]])
    BY <1>0, <1>4, <1>7, <2>1, <2>2, <2>3
  <2> HIDE DEF old
  <2> QED BY <2>4, KeysChange
<1>11. \A x : InTree(rows1, h, x) => InTree(rows, h, x)
  <2> SUFFICES ASSUME NEW j \in 0 .. h, NEW f \in rows1[j] PROVE InTree(rows, h, f[1])
    BY DEF InTree
  <2>1. CASE j # h
    <3>1. rows1[j] = rows[j]
      BY <1>8, <2>1
    <3> QED BY <3>1 DEF InTree
  <2>2. CASE j = h
    <3>1. f \in rows[h] \/ f \in new
      BY <1>8, <2>2 DEF Changed
    <3> QED BY <1>0, <1>2, <1>4, <3>1 DEF InTree
  <2> QED BY <2>1, <2>2
<1> QED BY <1>9, <1>10, <1>11 DEF Fewer

(* Leaves are different from their first key on, and up to their last.     *)
Apart(row) ==
    \A e, f \in row : /\ e[2] \in Int /\ e[3] \in Int /\ e[2] < e[3] /\ e[3] <= KeyMod
                      /\ e[2] = f[2] \/ e[3] = f[3] => e = f

LEMMA LeavesApart ==
    ASSUME NEW image \in Image, NEW top \in 1 .. MaxPage, NEW rows, NEW h, IsTree(image, top, rows, h)
    PROVE  Apart(rows[h])
<1>1. /\ h \in Nat /\ h \in 0 .. h /\ 0 \in 0 .. h /\ rows[0] = {<<top, 0, KeyMod>>}
      /\ \A e \in rows[h] : EntryInOrder(image, top, e)
  <2>1. h \in Nat
    BY PageNumbers DEF IsTree
  <2> QED BY <2>1 DEF IsTree
<1>2. KeyMod \in Int /\ KeyMod > 0
  BY NodeAssumption
<1>3. ASSUME NEW e \in rows[h] PROVE e[2] \in Int /\ e[3] \in Int /\ e[2] < e[3] /\ e[3] <= KeyMod
  <2>1. EntryInOrder(image, top, e) /\ e[2] \in Int /\ e[3] \in Int /\ e[3] <= KeyMod
    <3>1. EntryInOrder(image, top, e)
      BY <1>1
    <3> QED BY <3>1, <1>2 DEF EntryInOrder, Entry, Bound
  <2>2. CASE image[e[1]].n > 0
    BY <2>1, <2>2, EntryHasKeys
  <2>3. CASE ~(image[e[1]].n > 0)
    <3>1. e[1] = top
      BY <2>1, <2>3 DEF EntryInOrder
    <3>2. e = <<top, 0, KeyMod>>
      <4>1. Once(rows, h)
        BY OnePlace
      <4> DEFINE g == <<top, 0, KeyMod>>
      <4>2. g \in rows[0] /\ g[1] = e[1]
        BY <1>1, <3>1
      <4> HIDE DEF g
      <4>3. g = e
        BY <1>1, <4>1, <4>2 DEF Once
      <4> QED BY <4>3 DEF g
    <3> QED BY <1>2, <2>1, <3>2
  <2> QED BY <2>1, <2>2, <2>3
<1>4. ASSUME NEW e \in rows[h], NEW f \in rows[h], e[2] = f[2] \/ e[3] = f[3] PROVE e = f
  <2>1. ASSUME NEW k \in Int, Holds(e, k), Holds(f, k) PROVE e = f
    BY <1>1, <2>1, OneEntry
  <2>2. CASE e[2] = f[2]
    <3>1. Holds(e, e[2]) /\ Holds(f, e[2]) /\ e[2] \in Int
      BY <1>3, <2>2 DEF Holds
    <3> QED BY <2>1, <3>1
  <2>3. CASE e[3] = f[3]
    <3>1. Holds(e, e[3] - 1) /\ Holds(f, e[3] - 1) /\ e[3] - 1 \in Int
      BY <1>3, <2>3 DEF Holds
    <3> QED BY <2>1, <3>1
  <2> QED BY <1>4, <2>2, <2>3
<1> QED BY <1>3, <1>4 DEF Apart

(* Where the chain leads from a leaf. *)
Behind(image, row, e) ==
    LET x == image[e[1]].off[0]
    IN  IF e[3] = KeyMod THEN x = 0 ELSE \E f \in row : f[1] = x /\ f[2] = e[3]

(* What takes the place of el and er begins where el began, and its leaves *)
(* are chained: then all leaves are.                                       *)
Replaces(image, image1, row, row1, el, er, new) ==
    /\ el \in row /\ er \in row /\ el[3] = er[2] /\ row1 = Changed(row, {el, er}, new)
    /\ \E f \in new : f[1] = el[1] /\ f[2] = el[2]
    /\ \A f \in row : f \notin {el, er} => image1[f[1]] = image[f[1]]
    /\ \A f \in new : Behind(image1, row1, f)

LEMMA LinksChange ==
    ASSUME NEW image, NEW image1, NEW row, NEW row1, NEW el, NEW er, NEW new,
           Apart(row), Linked(image, row), Replaces(image, image1, row, row1, el, er, new)
    PROVE  Linked(image1, row1)
<1>0. /\ el \in row /\ er \in row /\ el[3] = er[2] /\ row1 = Changed(row, {el, er}, new)
      /\ \E f \in new : f[1] = el[1] /\ f[2] = el[2]
      /\ \A f \in row : f \notin {el, er} => image1[f[1]] = image[f[1]]
      /\ \A f \in new : Behind(image1, row1, f)
  BY DEF Replaces
<1>1. \A f : f \in row1 <=> (f \in row /\ f # el /\ f # er) \/ f \in new
  BY <1>0 DEF Changed
<1>2. ASSUME NEW f \in row, f # el, f # er PROVE Behind(image1, row1, f)
  <2>1. Behind(image, row, f) /\ image1[f[1]] = image[f[1]]
    BY <1>0, <1>2 DEF Linked, Behind
  <2>2. CASE f[3] = KeyMod
    BY <2>1, <2>2 DEF Behind
  <2>3. CASE f[3] # KeyMod
    <3>1. PICK g \in row : g[1] = image[f[1]].off[0] /\ g[2] = f[3]
      BY <2>1, <2>3 DEF Behind
    <3>2. g # er
      <4>1. g = er => f[3] = el[3]
        BY <1>0, <3>1
      <4> QED BY <1>0, <1>2, <4>1 DEF Apart
    <3>3. \E b \in row1 : b[1] = g[1] /\ b[2] = g[2]
      BY <1>0, <1>1, <3>2
    <3> QED BY <2>1, <2>3, <3>1, <3>3 DEF Behind
  <2> QED BY <2>2, <2>3
<1>3. \A f \in row1 : Behind(image1, row1, f)
  BY <1>0, <1>1, <1>2
<1> QED BY <1>3 DEF Linked, Behind

(* The leaf behind el is er, and the one behind er is none of them. *)
LEMMA LinkOfTwo ==
    ASSUME NEW image, NEW row, Apart(row), Linked(image, row),
           NEW el \in row, NEW er \in row, el[3] = er[2]
    PROVE  /\ el[3] # KeyMod /\ image[el[1]].off[0] = er[1]
           /\ IF er[3] = KeyMod THEN image[er[1]].off[0] = 0
              ELSE \E f \in row : f # el /\ f # er /\ f[1] = image[er[1]].off[0] /\ f[2] = er[3]
<1>1. /\ el[2] \in Int /\ el[3] \in Int /\ er[3] \in Int /\ el[2] < el[3] /\ er[2] < er[3] /\ er[3] <= KeyMod
      /\ \A e, f \in row : e[2] = f[2] \/ e[3] = f[3] => e = f
  BY DEF Apart
<1>2. el[3] # KeyMod
  BY <1>1, NodeAssumption
<1>3. image[el[1]].off[0] = er[1]
  <2>1. PICK f \in row : f[1] = image[el[1]].off[0] /\ f[2] = el[3]
    BY <1>2 DEF Linked
  <2>2. f = er
    BY <1>1, <2>1
  <2> QED BY <2>1, <2>2
<1>4. CASE er[3] = KeyMod
  BY <1>2, <1>3, <1>4 DEF Linked
<1>5. CASE er[3] # KeyMod
  <2>1. PICK f \in row : f[1] = image[er[1]].off[0] /\ f[2] = er[3]
    BY <1>5 DEF Linked
  <2>2. f # el /\ f # er
    BY <1>1, <2>1
  <2> QED BY <1>2, <1>3, <1>5, <2>1, <2>2
<1> QED BY <1>4, <1>5

(* One leaf for the two, which leads to where er led, *)
LEMMA LinksJoin ==
    ASSUME NEW image, NEW image1, NEW row, Apart(row), NEW el \in row, NEW er \in row, el[3] = er[2],
           NEW row1, row1 = Changed(row, {el, er}, {<<el[1], el[2], er[3]>>}),
           \A f \in row : f \notin {el, er} => image1[f[1]] = image[f[1]],
           image1[el[1]].off[0] = image[er[1]].off[0]
    PROVE  KeepsLinks(image, image1, row, row1)
<1> SUFFICES ASSUME Linked(image, row) PROVE Linked(image1, row1)
  BY DEF KeepsLinks
<1> DEFINE e == <<el[1], el[2], er[3]>>
           new == {e}
<1>1. e[1] = el[1] /\ e[2] = el[2] /\ e[3] = er[3]
  OBVIOUS
<1>2. \A f : f \in new <=> f = e
  OBVIOUS
<1>3. row1 = Changed(row, {el, er}, new)
  OBVIOUS
<1> HIDE DEF e, new
<1>4. Behind(image1, row1, e)
  <2>1. IF er[3] = KeyMod THEN image[er[1]].off[0] = 0
        ELSE \E f \in row : f # el /\ f # er /\ f[1] = image[er[1]].off[0] /\ f[2] = er[3]
    BY LinkOfTwo
  <2>2. \A f \in row : f # el /\ f # er => f \in row1
    BY <1>3 DEF Changed
  <2> QED BY <1>1, <2>1, <2>2 DEF Behind
<1>5. \A f \in new : Behind(image1, row1, f)
  BY <1>2, <1>4
<1>6. \E f \in new : f[1] = el[1] /\ f[2] = el[2]
  BY <1>1, <1>2
<1>7. Replaces(image, image1, row, row1, el, er, new)
  BY <1>3, <1>5, <1>6 DEF Replaces
<1> QED BY <1>7, LinksChange

(* or two with x between them, which lead to where they led. *)
LEMMA LinksBalance ==
    ASSUME NEW image, NEW image1, NEW row, Apart(row), NEW el \in row, NEW er \in row, el[3] = er[2],
           NEW x \in Int, x < KeyMod,
           NEW row1, row1 = Changed(row, {el, er}, {<<el[1], el[2], x>>, <<er[1], x, er[3]>>}),
           \A f \in row : f \notin {el, er} => image1[f[1]] = image[f[1]],
           image1[el[1]].off[0] = image[el[1]].off[0], image1[er[1]].off[0] = image[er[1]].off[0]
    PROVE  KeepsLinks(image, image1, row, row1)
<1> SUFFICES ASSUME Linked(image, row) PROVE Linked(image1, row1)
  BY DEF KeepsLinks
<1> DEFINE a == <<el[1], el[2], x>>
           b == <<er[1], x, er[3]>>
           new == {a, b}
<1>1. a[1] = el[1] /\ a[2] = el[2] /\ a[3] = x /\ b[1] = er[1] /\ b[2] = x /\ b[3] = er[3]
  OBVIOUS
<1>2. \A f : f \in new <=> f = a \/ f = b
  OBVIOUS
<1>3. row1 = Changed(row, {el, er}, new)
  OBVIOUS
<1> HIDE DEF a, b, new
<1>4. /\ image[el[1]].off[0] = er[1]
      /\ IF er[3] = KeyMod THEN image[er[1]].off[0] = 0
         ELSE \E f \in row : f # el /\ f # er /\ f[1] = image[er[1]].off[0] /\ f[2] = er[3]
  BY LinkOfTwo
<1>5. /\ \A f \in row : f # el /\ f # er => f \in row1
      /\ b \in row1
  BY <1>2, <1>3 DEF Changed
<1>6. x # KeyMod
  BY NodeAssumption
<1>7. Behind(image1, row1, a)
  BY <1>1, <1>4, <1>5, <1>6 DEF Behind
<1>8. Behind(image1, row1, b)
  BY <1>1, <1>4, <1>5 DEF Behind
<1>9. \A f \in new : Behind(image1, row1, f)
  BY <1>2, <1>7, <1>8
<1>10. \E f \in new : f[1] = el[1] /\ f[2] = el[2]
  BY <1>1, <1>2
<1>11. Replaces(image, image1, row, row1, el, er, new)
  BY <1>3, <1>9, <1>10 DEF Replaces
<1> QED BY <1>11, LinksChange

(* Only the two and their parent are written. *)
OthersStay(image, image1, q, el, er) ==
    \A x \in 1 .. MaxPage : x # el[1] /\ x # er[1] /\ x # q[1] => image1[x] = image[x]

(* Two neighbors among the leaves, and the other leaves as they were. *)
LEMMA NeighborLinks ==
    ASSUME NEW image \in Image, NEW top \in 1 .. MaxPage, NEW rows, NEW h, IsTree(image, top, rows, h),
           NEW q, NEW i, NEW el, NEW er, AreNeighbors(image, rows, h, q, i, el, er),
           NEW image1, OthersStay(image, image1, q, el, er)
    PROVE  /\ Apart(rows[h]) /\ el \in rows[h] /\ er \in rows[h] /\ el[3] = er[2] /\ h \in 0 .. h
           /\ er[3] <= KeyMod /\ er[3] \in Int
           /\ \A f \in rows[h] : f \notin {el, er} => image1[f[1]] = image[f[1]]
<1>1. el \in rows[h] /\ er \in rows[h] /\ el[3] = er[2]
  BY NeighborFacts
<1>2. Apart(rows[h])
  BY LeavesApart
<1>3. /\ h \in Nat /\ h > 0 /\ q \in rows[h - 1] /\ h - 1 \in 0 .. h /\ h \in 0 .. h /\ h - 1 # h
  BY PageNumbers DEF IsTree, AreNeighbors
<1>4. Once(rows, h)
  BY OnePlace
<1>5. ASSUME NEW f \in rows[h], f \notin {el, er} PROVE image1[f[1]] = image[f[1]]
  <2>1. f[1] # q[1] /\ f[1] # el[1] /\ f[1] # er[1]
    BY <1>1, <1>3, <1>4, <1>5 DEF Once
  <2>2. f[1] \in 1 .. MaxPage
    BY <1>3 DEF IsTree, EntryInOrder, Entry
  <2> QED BY <2>1, <2>2 DEF OthersStay
<1> QED BY <1>1, <1>2, <1>3, <1>5 DEF Apart

(* A leaf with keys in order is one between its separators. *)
LEMMA LeafStands ==
    ASSUME NEW image, NEW top, NEW p \in 1 .. MaxPage, NEW low \in Bound, NEW high \in Bound,
           image[p].leaf, image[p].n \in 1 .. LeafOrder - 1, SlotsInOrder(image[p], low, high),
           NEW e, e = <<p, low, high>>
    PROVE  EntryInOrder(image, top, e) /\ image[e[1]].leaf /\ e[1] = p
<1>1. e \in Entry /\ e[1] = p /\ e[2] = low /\ e[3] = high
  BY DEF Entry
<1>2. image[p].n > 0 /\ image[p].n < LeafOrder
  BY NodeAssumption
<1> QED BY <1>1, <1>2 DEF EntryInOrder

(* Page c without its separator i. *)
Lowered(c, i) == RemoveEntry(c, c.key[i])

(* The page above two neighbors loses the separator between them, *)
LEMMA SeparatorGoes ==
    ASSUME NEW c \in Page, ~c.leaf, c.n < InternalOrder,
           NEW low \in Int, NEW high \in Int, SlotsInOrder(c, low, high),
           \A e \in Subtrees(c, low, high) : e[2] < e[3],
           NEW i, NEW el, NEW er, Meet(c, low, high, i, el, er),
           NEW d, d = Lowered(c, i)
    PROVE  /\ d \in Page /\ ~d.leaf /\ d.parent = c.parent /\ d.n < InternalOrder
           /\ SlotsInOrder(d, low, high)
           /\ Subtrees(d, low, high) = OneFor(Subtrees(c, low, high), el, er)
<1>1. c.n > 0 /\ c.n \in Nat /\ i \in 0 .. c.n - 1
  BY PageFacts DEF Meet
<1>2. United(c.key, c.off, c.n, low, high, i) = OneFor(Subtrees(c, low, high), el, er)
  BY BranchesChange
<1>3. /\ d \in Page /\ d.n = c.n - 1 /\ d.leaf = c.leaf /\ d.parent = c.parent
      /\ SlotsInOrder(d, low, high)
  BY <1>1, PageLosesKey DEF Lowered
<1>4. Subtrees(d, low, high) = United(c.key, c.off, c.n, low, high, i)
  BY <1>1, PageLosesKey DEF Lowered
<1>5. d.n < InternalOrder
  BY <1>1, <1>3, NodeAssumption
<1> QED BY <1>2, <1>3, <1>4, <1>5

(* The parent of two neighbors that became one leaf loses their separator. *)
LEMMA ParentLowers ==
    ASSUME NEW image \in Image, NEW top \in 1 .. MaxPage, NEW rows, NEW h, IsTree(image, top, rows, h),
           NEW q, NEW i, NEW el, NEW er, AreNeighbors(image, rows, h, q, i, el, er),
           NEW d, d = Lowered(image[q[1]], i)
    PROVE  /\ d \in Page /\ ~d.leaf /\ d.parent = image[q[1]].parent
           /\ d.n < InternalOrder /\ SlotsInOrder(d, q[2], q[3])
           /\ Subtrees(d, q[2], q[3]) = OneFor(Under(image, q), el, er)
<1> DEFINE pc == image[q[1]]
<1>1. /\ q \in Entry /\ pc \in Page /\ ~pc.leaf /\ pc.n < InternalOrder
      /\ SlotsInOrder(pc, q[2], q[3])
      /\ \A x \in Under(image, q) : x[2] < x[3]
  BY NeighborFacts
<1>2. Meet(pc, q[2], q[3], i, el, er)
  BY DEF AreNeighbors, Meet
<1>3. q[2] \in Int /\ q[3] \in Int
  BY <1>1, NodeAssumption DEF Entry, Bound
<1>4. ASSUME NEW c, NEW low, NEW high, c = pc, low = q[2], high = q[3]
      PROVE  /\ d \in Page /\ ~d.leaf /\ d.parent = c.parent /\ d.n < InternalOrder
             /\ SlotsInOrder(d, low, high)
             /\ Subtrees(d, low, high) = OneFor(Subtrees(c, low, high), el, er)
  <2>1. /\ c \in Page /\ ~c.leaf /\ c.n < InternalOrder /\ low \in Int /\ high \in Int
        /\ SlotsInOrder(c, low, high) /\ Meet(c, low, high, i, el, er)
        /\ d = Lowered(c, i)
    BY <1>1, <1>2, <1>3, <1>4
  <2>2. \A x \in Subtrees(c, low, high) : x[2] < x[3]
    BY <1>1, <1>4 DEF Under
  <2> QED BY <2>1, <2>2, SeparatorGoes
<1>5. /\ d \in Page /\ ~d.leaf /\ d.parent = pc.parent /\ d.n < InternalOrder
      /\ SlotsInOrder(d, q[2], q[3])
      /\ Subtrees(d, q[2], q[3]) = OneFor(Subtrees(pc, q[2], q[3]), el, er)
  BY <1>4
<1> QED BY <1>5 DEF Under

LEMMA ParentJoins ==
    ASSUME NEW image \in Image, NEW top \in 1 .. MaxPage, NEW rows, NEW h, IsTree(image, top, rows, h),
           NEW q, NEW i, NEW el, NEW er, AreNeighbors(image, rows, h, q, i, el, er),
           NEW d, d = Lowered(image[q[1]], i), d.n > 0 \/ q[1] = top
    PROVE  LeadsTo(image, top, q, el, er, d, {<<el[1], el[2], er[3]>>})
<1>1. /\ d \in Page /\ ~d.leaf /\ d.parent = image[q[1]].parent /\ d.n < InternalOrder
      /\ SlotsInOrder(d, q[2], q[3])
      /\ Subtrees(d, q[2], q[3]) = OneFor(Under(image, q), el, er)
  BY ParentLowers
<1> QED BY <1>1 DEF LeadsTo, OneFor

(* The tree is whole when both are done. *)
LEMMA TreeJoins ==
    ASSUME NEW image \in Image, NEW top \in 1 .. MaxPage, NEW rows, NEW h, IsTree(image, top, rows, h),
           NEW q, NEW i, NEW el, NEW er, AreNeighbors(image, rows, h, q, i, el, er),
           NEW k, NEW l, NEW r, LoseKey(image, q, el, er, k, l, r),
           NEW m, Joined(l, r, el[2], er[3], m),
           NEW d, d = Lowered(image[q[1]], i), d.n > 0 \/ q[1] = top,
           NEW image1 \in Image, image1[q[1]] = d, image1[el[1]] = m.l,
           OthersStay(image, image1, q, el, er),
           NEW rows1, rows1 = RowsOf(rows, h, el, er, {<<el[1], el[2], er[3]>>})
    PROVE  Less(image, image1, top, rows, rows1, h, k)
<1> DEFINE e == <<el[1], el[2], er[3]>>
           new == {e}
<1>1. el \in Entry /\ er \in Entry
  <2>1. {el, er} \subseteq Under(image, q) /\ \A x \in Under(image, q) : x \in Entry
    BY NeighborFacts
  <2> QED BY <2>1
<1>2. el[1] \in 1 .. MaxPage /\ el[2] \in Bound /\ er[3] \in Bound
  BY <1>1 DEF Entry
<1>3. LeadsTo(image, top, q, el, er, d, new)
  BY ParentJoins
<1>4. EntryInOrder(image1, top, e) /\ image1[e[1]].leaf /\ e[1] = el[1]
  <2>1. /\ image1[el[1]].leaf /\ image1[el[1]].n \in 1 .. LeafOrder - 1
        /\ SlotsInOrder(image1[el[1]], el[2], er[3])
    BY DEF Joined
  <2>2. e \in Entry /\ e[1] = el[1] /\ e[2] = el[2] /\ e[3] = er[3]
    BY <1>2 DEF Entry
  <2>3. image1[el[1]].n > 0 /\ image1[el[1]].n < LeafOrder
    BY <2>1, NodeAssumption
  <2> HIDE DEF e
  <2> QED BY <2>1, <2>2, <2>3 DEF EntryInOrder
<1>5. image1[e[1]].parent = q[1]
  BY <1>4 DEF Joined, LoseKey
<1>6. RowKeys(image1, new) = Minus(k, KeysOf(image[el[1]]) \cup KeysOf(image[er[1]]))
  <2>1. RowKeys(image1, new) = KeysOf(image1[e[1]])
    BY DEF RowKeys
  <2> QED BY <1>4, <2>1 DEF Joined, LoseKey
<1>7. Stand(image, image1, top, q, el, er, d, new, k)
  <2>1. \A f \in new : /\ EntryInOrder(image1, top, f) /\ image1[f[1]].leaf
                        /\ image1[f[1]].parent = q[1] /\ (f[1] = el[1] \/ f[1] = er[1])
    BY <1>4, <1>5
  <2> HIDE DEF new
  <2> QED BY <1>6, <2>1 DEF Stand, LoseKey, OthersStay
<1>8. rows1 = RowsOf(rows, h, el, er, new)
  OBVIOUS
<1>9. Fewer(image, image1, top, rows, rows1, h, k)
  <2> HIDE DEF new, e
  <2> QED BY <1>3, <1>7, <1>8, TwoChange
<1>10. KeepsLinks(image, image1, rows[h], rows1[h])
  <2>1. /\ Apart(rows[h]) /\ el \in rows[h] /\ er \in rows[h] /\ el[3] = er[2] /\ h \in 0 .. h
        /\ \A f \in rows[h] : f \notin {el, er} => image1[f[1]] = image[f[1]]
    BY NeighborLinks
  <2>2. image1[el[1]].off[0] = image[er[1]].off[0]
    BY DEF Joined, LoseKey
  <2>3. rows1[h] = Changed(rows[h], {el, er}, {<<el[1], el[2], er[3]>>})
    BY <2>1 DEF RowsOf
  <2> DEFINE row == rows[h]
             row1 == rows1[h]
  <2> HIDE DEF row, row1
  <2>4. KeepsLinks(image, image1, row, row1)
    BY <2>1, <2>2, <2>3, LinksJoin DEF row, row1
  <2> QED BY <2>4 DEF row, row1
<1> QED BY <1>9, <1>10 DEF Less

(* The slot where replace_entry (bpt.c:1055) stops. *)
SlotOf(c, k) == FirstNot(LAMBDA j : c.key[j] < k, c.n)

(* replace_entry: the first key not below the new one is that of the       *)
(* separator behind, so the separator between the neighbors changes.       *)
LEMMA SeparatorFound ==
    ASSUME NEW c \in Page, ~c.leaf, c.n < InternalOrder,
           NEW low \in Int, NEW high \in Int, SlotsInOrder(c, low, high),
           NEW i \in 0 .. c.n - 1, NEW k \in KeyValue, c.key[i] < k,
           i + 1 < c.n => k < c.key[i + 1]
    PROVE  SlotOf(c, k) = i + 1
<1> DEFINE f == SlotOf(c, k)
<1>1. c.n \in Nat /\ k \in Int /\ i \in Nat /\ i < c.n
  BY PageFacts, KeysAreNumbers
<1>2. IsFirstNot(f, {j \in Nat : c.key[j] < k}, 0, c.n)
  BY <1>1, FirstNotSmaller DEF SlotOf
<1> HIDE DEF f
<1>3. \A j \in 0 .. c.n : c.key[j] \in Int
  BY PageFacts
<1>4. \A j, g \in 0 .. c.n - 1 : j < g => c.key[j] < c.key[g]
  <2>1. /\ \A j \in 0 .. c.n - 1 : c.key[j] \in Int
        /\ \A j \in 1 .. c.n - 1 : c.key[j - 1] < c.key[j]
    BY <1>1, <1>3 DEF SlotsInOrder
  <2> QED BY <1>1, <2>1, Increasing
<1>5. \A j \in 0 .. i : c.key[j] < k
  <2> SUFFICES ASSUME NEW j \in 0 .. i PROVE c.key[j] < k
    OBVIOUS
  <2>1. j = i \/ c.key[j] < c.key[i]
    BY <1>1, <1>4
  <2>2. c.key[j] \in Int /\ c.key[i] \in Int
    BY <1>1, <1>3
  <2> QED BY <1>1, <2>1, <2>2
<1>6. f \in 0 .. c.n /\ f > i
  BY <1>1, <1>2, <1>5 DEF IsFirstNot
<1>7. ~(f > i + 1)
  <2> SUFFICES ASSUME f > i + 1 PROVE FALSE
    OBVIOUS
  <2>1. c.key[i + 1] < k /\ i + 1 < c.n
    BY <1>1, <1>2, <1>6 DEF IsFirstNot
  <2>2. c.key[i + 1] \in Int
    BY <1>1, <1>3
  <2> QED BY <1>1, <2>1, <2>2
<1> QED BY <1>1, <1>6, <1>7 DEF f

(* Page c with another separator i. *)
Replaced(c, i, k) == [c EXCEPT !.key[i] = k]

(* or gets another one. *)
LEMMA SeparatorChanges ==
    ASSUME NEW c \in Page, ~c.leaf, c.n < InternalOrder,
           NEW low \in Int, NEW high \in Int, SlotsInOrder(c, low, high),
           \A e \in Subtrees(c, low, high) : e[2] < e[3],
           NEW i, NEW el, NEW er, Meet(c, low, high, i, el, er),
           NEW k \in KeyValue, el[3] < k, k < er[3],
           NEW d, d = Replaced(c, i, k)
    PROVE  /\ d \in Page /\ ~d.leaf /\ d.parent = c.parent /\ d.n = c.n
           /\ SlotsInOrder(d, low, high)
           /\ Subtrees(d, low, high) = TwoFor(Subtrees(c, low, high), el, er, k)
           /\ SlotOf(c, k) = i + 1
<1>1. /\ c.n \in Nat /\ i \in 0 .. c.n - 1 /\ i \in Nat /\ k \in Int /\ 0 .. c.n - 1 \subseteq KeySlot
      /\ KeySlot \subseteq Nat
  BY PageFacts, SlotFacts, KeysAreNumbers DEF Meet
<1>2. /\ el[3] = c.key[i] /\ er[3] = IF i + 1 = c.n THEN high ELSE c.key[i + 1]
  BY <1>1 DEF Meet, Branch
<1>3. c.key \in [KeySlot -> KeyValue] /\ \A j \in KeySlot : c.key[j] \in Int
  BY PageFacts DEF Page, KeyValue
<1>4. /\ d \in Page /\ d.leaf = c.leaf /\ d.parent = c.parent /\ d.n = c.n /\ d.off = c.off
      /\ d.key = [c.key EXCEPT ![i] = k]
  BY <1>1, <1>3 DEF Page, KeyValue, Replaced
<1>5. \A j \in KeySlot : d.key[j] = IF j = i THEN k ELSE c.key[j]
  BY <1>1, <1>3, <1>4
<1>6. /\ \A j \in 0 .. c.n - 1 : low <= c.key[j] /\ c.key[j] < high
      /\ \A j \in 1 .. c.n - 1 : c.key[j - 1] < c.key[j]
      /\ \A j \in KeySlot : j >= c.n => c.key[j] = 0
      /\ \A j \in OffSlot : j > (IF c.leaf THEN 0 ELSE c.n) => c.off[j] = 0
  BY DEF SlotsInOrder
<1>7. c.key[i] < k /\ (i + 1 < c.n => k < c.key[i + 1]) /\ (i + 1 = c.n => k < high)
  BY <1>1, <1>2
<1>8. low <= k /\ k < high
  <2>1. low <= c.key[i] /\ c.key[i] \in Int
    BY <1>1, <1>3, <1>6
  <2>2. i + 1 < c.n => c.key[i + 1] < high /\ c.key[i + 1] \in Int
    BY <1>1, <1>3, <1>6
  <2> QED BY <1>1, <1>7, <2>1, <2>2
<1>9. \A j \in 1 .. c.n - 1 : d.key[j - 1] < d.key[j]
  <2> SUFFICES ASSUME NEW j \in 1 .. c.n - 1 PROVE d.key[j - 1] < d.key[j]
    OBVIOUS
  <2>1. j \in KeySlot /\ j - 1 \in KeySlot /\ c.key[j - 1] < c.key[j]
        /\ c.key[j - 1] \in Int /\ c.key[j] \in Int
    BY <1>1, <1>3, <1>6
  <2>2. CASE j = i
    <3>1. d.key[j] = k /\ d.key[j - 1] = c.key[j - 1]
      BY <1>1, <1>5, <2>1, <2>2
    <3> QED BY <1>1, <1>7, <2>1, <2>2, <3>1
  <2>3. CASE j - 1 = i
    <3>1. d.key[j] = c.key[j] /\ d.key[j - 1] = k /\ i + 1 = j
      BY <1>1, <1>5, <2>1, <2>3
    <3> QED BY <1>1, <1>7, <2>3, <3>1
  <2>4. CASE j # i /\ j - 1 # i
    BY <1>5, <2>1, <2>4
  <2> QED BY <2>2, <2>3, <2>4
<1>10. SlotsInOrder(d, low, high)
  <2>1. \A j \in 0 .. d.n - 1 : low <= d.key[j] /\ d.key[j] < high
    BY <1>1, <1>4, <1>5, <1>6, <1>8
  <2>2. \A j \in KeySlot : j >= d.n => d.key[j] = 0
    BY <1>1, <1>4, <1>5, <1>6
  <2>3. \A j \in OffSlot : j > (IF d.leaf THEN 0 ELSE d.n) => d.off[j] = 0
    BY <1>4, <1>6
  <2> QED BY <1>4, <1>9, <2>1, <2>2, <2>3 DEF SlotsInOrder
<1>11. Subtrees(d, low, high) = TwoFor(Subtrees(c, low, high), el, er, k)
  <2>1. \A j \in 0 .. c.n - 1 : d.key[j] = IF j = i THEN k ELSE c.key[j]
    BY <1>1, <1>5
  <2>2. Branches(d.key, c.off, c.n, low, high) = TwoFor(Subtrees(c, low, high), el, er, k)
    <3> DEFINE key == d.key
    <3>1. \A j \in 0 .. c.n - 1 : key[j] = IF j = i THEN k ELSE c.key[j]
      BY <2>1
    <3> HIDE DEF key
    <3>2. Branches(key, c.off, c.n, low, high) = TwoFor(Subtrees(c, low, high), el, er, k)
      BY <3>1, BranchesChange
    <3> QED BY <3>2 DEF key
  <2> QED BY <1>4, <2>2 DEF Subtrees
<1>12. SlotOf(c, k) = i + 1
  BY <1>1, <1>7, SeparatorFound
<1> QED BY <1>4, <1>10, <1>11, <1>12

(* Page d is written by replace_entry for new_k_prime x.                   *)
Fits(c, i, x, d) == d \in Page /\ SlotOf(c, x) = i + 1

(* The parent of two neighbors between which keys were moved has the first *)
(* key of the right one as their separator.                                *)
LEMMA ParentBalances ==
    ASSUME NEW image \in Image, NEW top \in 1 .. MaxPage, NEW rows, NEW h, IsTree(image, top, rows, h),
           NEW q, NEW i, NEW el, NEW er, AreNeighbors(image, rows, h, q, i, el, er),
           NEW x \in KeyValue, el[3] < x, x < er[3],
           NEW d, d = Replaced(image[q[1]], i, x)
    PROVE  /\ Fits(image[q[1]], i, x, d)
           /\ LeadsTo(image, top, q, el, er, d, {<<el[1], el[2], x>>, <<er[1], x, er[3]>>})
<1> DEFINE pc == image[q[1]]
           new == {<<el[1], el[2], x>>, <<er[1], x, er[3]>>}
<1>1. /\ q \in Entry /\ pc \in Page /\ ~pc.leaf /\ pc.n < InternalOrder /\ pc.n \in Nat
      /\ SlotsInOrder(pc, q[2], q[3])
      /\ \A y \in Under(image, q) : y[2] < y[3]
  BY NeighborFacts
<1>2. Meet(pc, q[2], q[3], i, el, er)
  BY DEF AreNeighbors, Meet
<1>3. q[2] \in Int /\ q[3] \in Int
  BY <1>1, NodeAssumption DEF Entry, Bound
<1>4. pc.n > 0
  <2>1. i \in 0 .. pc.n - 1
    BY <1>2 DEF Meet
  <2> QED BY <1>1, <2>1
<1>5. ASSUME NEW c, NEW low, NEW high, c = pc, low = q[2], high = q[3]
      PROVE  /\ d \in Page /\ ~d.leaf /\ d.parent = c.parent /\ d.n = c.n
             /\ SlotsInOrder(d, low, high)
             /\ Subtrees(d, low, high) = TwoFor(Subtrees(c, low, high), el, er, x)
             /\ SlotOf(c, x) = i + 1
  <2>1. /\ c \in Page /\ ~c.leaf /\ c.n < InternalOrder /\ low \in Int /\ high \in Int
        /\ SlotsInOrder(c, low, high) /\ Meet(c, low, high, i, el, er)
        /\ d = Replaced(c, i, x)
    BY <1>1, <1>2, <1>3, <1>5
  <2>2. \A y \in Subtrees(c, low, high) : y[2] < y[3]
    BY <1>1, <1>5 DEF Under
  <2> QED BY <2>1, <2>2, SeparatorChanges
<1>6. /\ d \in Page /\ ~d.leaf /\ d.parent = pc.parent /\ d.n = pc.n
      /\ SlotsInOrder(d, q[2], q[3])
      /\ Subtrees(d, q[2], q[3]) = TwoFor(Subtrees(pc, q[2], q[3]), el, er, x)
      /\ SlotOf(pc, x) = i + 1
  BY <1>5
<1>7. Subtrees(d, q[2], q[3]) = Changed(Under(image, q), {el, er}, new)
  BY <1>6 DEF Under, TwoFor
<1> HIDE DEF new
<1>8. LeadsTo(image, top, q, el, er, d, new)
  BY <1>1, <1>4, <1>6, <1>7 DEF LeadsTo
<1> QED BY <1>6, <1>8 DEF new, Fits

(* The tree is whole when all three are done. *)
LEMMA TreeBalances ==
    ASSUME NEW image \in Image, NEW top \in 1 .. MaxPage, NEW rows, NEW h, IsTree(image, top, rows, h),
           NEW q, NEW i, NEW el, NEW er, AreNeighbors(image, rows, h, q, i, el, er),
           NEW k, NEW l, NEW r, LoseKey(image, q, el, er, k, l, r),
           NEW m, Balanced(l, r, el[2], el[3], er[3], m),
           NEW x \in KeyValue, x = m.r.key[0],
           NEW d, d = Replaced(image[q[1]], i, x),
           NEW image1 \in Image, image1[q[1]] = d, image1[el[1]] = m.l, image1[er[1]] = m.r,
           OthersStay(image, image1, q, el, er),
           NEW rows1, rows1 = RowsOf(rows, h, el, er, {<<el[1], el[2], x>>, <<er[1], x, er[3]>>})
    PROVE  Less(image, image1, top, rows, rows1, h, k)
<1> DEFINE e == <<el[1], el[2], x>>
           f == <<er[1], x, er[3]>>
           new == {e, f}
<1>1. el \in Entry /\ er \in Entry
  <2>1. {el, er} \subseteq Under(image, q) /\ \A y \in Under(image, q) : y \in Entry
    BY NeighborFacts
  <2> QED BY <2>1
<1>2. /\ el[1] \in 1 .. MaxPage /\ el[2] \in Bound /\ er[1] \in 1 .. MaxPage /\ er[3] \in Bound
      /\ x \in Bound
  <2>1. x \in Bound
    BY NodeAssumption DEF Bound, KeyValue
  <2> QED BY <1>1, <2>1 DEF Entry
<1>3. /\ el[3] < x /\ x < er[3]
      /\ m.l.leaf /\ m.l.parent = l.parent /\ m.l.n \in 1 .. LeafOrder - 1
      /\ m.r.leaf /\ m.r.parent = r.parent /\ m.r.n \in 1 .. LeafOrder - 1
      /\ SlotsInOrder(m.l, el[2], x) /\ SlotsInOrder(m.r, x, er[3])
      /\ KeysOf(m.l) \cup KeysOf(m.r) = KeysOf(l) \cup KeysOf(r)
  BY DEF Balanced
<1>4. LeadsTo(image, top, q, el, er, d, new)
  <2>1. el[3] < x /\ x < er[3]
    BY <1>3
  <2> QED BY <2>1, ParentBalances
<1>5. EntryInOrder(image1, top, e) /\ image1[e[1]].leaf /\ e[1] = el[1]
  BY <1>2, <1>3, LeafStands
<1>6. EntryInOrder(image1, top, f) /\ image1[f[1]].leaf /\ f[1] = er[1]
  BY <1>2, <1>3, LeafStands
<1>7. RowKeys(image1, new) = Minus(k, KeysOf(image[el[1]]) \cup KeysOf(image[er[1]]))
  <2>1. RowKeys(image1, new) = KeysOf(image1[e[1]]) \cup KeysOf(image1[f[1]])
    BY DEF RowKeys
  <2> QED BY <1>3, <1>5, <1>6, <2>1 DEF LoseKey
<1>8. Stand(image, image1, top, q, el, er, d, new, k)
  <2>1. \A y \in new : /\ EntryInOrder(image1, top, y) /\ image1[y[1]].leaf
                        /\ image1[y[1]].parent = q[1] /\ (y[1] = el[1] \/ y[1] = er[1])
    <3>1. image1[e[1]].parent = q[1] /\ image1[f[1]].parent = q[1]
      BY <1>3, <1>5, <1>6 DEF LoseKey
    <3> HIDE DEF e, f
    <3> QED BY <1>5, <1>6, <3>1
  <2> HIDE DEF new
  <2> QED BY <1>7, <2>1 DEF Stand, LoseKey, OthersStay
<1>9. rows1 = RowsOf(rows, h, el, er, new)
  OBVIOUS
<1>10. Fewer(image, image1, top, rows, rows1, h, k)
  <2> HIDE DEF new, e, f
  <2> QED BY <1>4, <1>8, <1>9, TwoChange
<1>11. KeepsLinks(image, image1, rows[h], rows1[h])
  <2>1. /\ Apart(rows[h]) /\ el \in rows[h] /\ er \in rows[h] /\ el[3] = er[2] /\ h \in 0 .. h
        /\ er[3] <= KeyMod /\ er[3] \in Int
        /\ \A y \in rows[h] : y \notin {el, er} => image1[y[1]] = image[y[1]]
    BY NeighborLinks
  <2>2. image1[el[1]].off[0] = image[el[1]].off[0] /\ image1[er[1]].off[0] = image[er[1]].off[0]
    BY DEF Balanced, LoseKey
  <2>3. rows1[h] = Changed(rows[h], {el, er}, {<<el[1], el[2], x>>, <<er[1], x, er[3]>>})
    BY <2>1 DEF RowsOf
  <2>4. x \in Int /\ x < KeyMod
    BY <1>3, <2>1, KeysAreNumbers, NodeAssumption
  <2> DEFINE row == rows[h]
             row1 == rows1[h]
  <2> HIDE DEF row, row1
  <2>5. KeepsLinks(image, image1, row, row1)
    <3>1. /\ Apart(row) /\ el \in row /\ er \in row /\ el[3] = er[2]
          /\ \A y \in row : y \notin {el, er} => image1[y[1]] = image[y[1]]
          /\ row1 = Changed(row, {el, er}, {<<el[1], el[2], x>>, <<er[1], x, er[3]>>})
      BY <2>1, <2>3 DEF row, row1
    <3> QED BY ONLY <2>2, <2>4, <3>1, LinksBalance
  <2> QED BY <2>5 DEF row, row1
<1> QED BY <1>10, <1>11 DEF Less

-----------------------------------------------------------------------------
(* The chain of leaves that print_leaves (bpt.c:181) and find_range follow *)
(* shows all leaves, from left to right.                                   *)

(* What is behind the pages of row, and the function Chain is defined by. *)
OneMore(image, row) ==
    [x \in PageNo |-> IF x = 0 THEN <<>> ELSE <<x>> \o row[image[x].off[0]]]
None == [x \in PageNo |-> <<>>]
IsChain(g, image) ==
    g = [most \in PageNo |->
            [x \in PageNo |-> IF x = 0 \/ most = 0 THEN <<>>
                              ELSE <<x>> \o g[most - 1][image[x].off[0]]]]

(* It exists, by induction over the number of leaves. *)
LEMMA ChainExists ==
    ASSUME NEW image
    PROVE  \E g : IsChain(g, image)
<1> DEFINE Ok(g, d) == g[0] = None /\ \A j \in 1 .. d : g[j] = OneMore(image, g[j - 1])
           S == {d \in PageNo : \E g : Ok(g, d)}
<1>1. 0 \in S
  <2> DEFINE g == [j \in {0} |-> None]
  <2>1. g[0] = None /\ \A j \in 1 .. 0 : FALSE
    OBVIOUS
  <2> HIDE DEF g
  <2>2. Ok(g, 0)
    BY <2>1
  <2> HIDE DEF Ok
  <2> QED BY <2>2, PageNumbers
<1>2. ASSUME NEW d \in 0 + 1 .. MaxPage, d - 1 \in S PROVE d \in S
  <2>1. PICK g : Ok(g, d - 1)
    BY <1>2
  <2> DEFINE f == [j \in PageNo |-> IF j < d THEN g[j] ELSE OneMore(image, g[d - 1])]
  <2>2. \A j \in PageNo : f[j] = IF j < d THEN g[j] ELSE OneMore(image, g[d - 1])
    OBVIOUS
  <2> HIDE DEF f
  <2>3. d \in PageNo /\ 0 \in PageNo /\ \A j \in 1 .. d : j \in PageNo /\ j - 1 \in PageNo
    BY PageNumbers
  <2>4. f[0] = None
    BY <2>1, <2>2, <2>3
  <2>5. ASSUME NEW j \in 1 .. d PROVE f[j] = OneMore(image, f[j - 1])
    <3>1. f[j - 1] = g[j - 1]
      BY <2>2, <2>3
    <3>2. CASE j = d
      BY <2>2, <2>3, <3>1, <3>2
    <3>3. CASE j # d
      <4>1. j \in 1 .. d - 1 /\ j < d
        BY <3>3
      <4> QED BY <2>1, <2>2, <2>3, <3>1, <4>1
    <3> QED BY <3>2, <3>3
  <2>6. Ok(f, d)
    BY <2>4, <2>5
  <2> HIDE DEF Ok
  <2> QED BY <2>3, <2>6
<1>3. MaxPage \in S
  <2> HIDE DEF S
  <2>1. \A d \in 0 .. MaxPage : d \in S
    BY <1>1, <1>2, IntervalInduction, PageNumbers
  <2> QED BY <2>1, PageNumbers
<1>4. PICK g : Ok(g, MaxPage)
  BY <1>3
<1> DEFINE f == [j \in PageNo |-> g[j]]
           B(j) == [x \in PageNo |-> IF x = 0 \/ j = 0 THEN <<>> ELSE <<x>> \o f[j - 1][image[x].off[0]]]
<1>5. \A j \in PageNo : f[j] = B(j)
  <2> SUFFICES ASSUME NEW j \in PageNo PROVE g[j] = B(j)
    OBVIOUS
  <2>1. CASE j = 0
    <3>1. g[j] = None
      BY <1>4, <2>1
    <3> QED BY <2>1, <3>1 DEF None
  <2>2. CASE j # 0
    <3>1. j \in 1 .. MaxPage /\ j - 1 \in PageNo
      BY <2>2, PageNumbers
    <3>2. g[j] = OneMore(image, g[j - 1]) /\ f[j - 1] = g[j - 1]
      BY <1>4, <3>1
    <3> HIDE DEF f
    <3> QED BY <2>2, <3>2 DEF OneMore
  <2> QED BY <2>1, <2>2
<1>6. f = [j \in PageNo |-> f[j]]
  OBVIOUS
<1> HIDE DEF f
<1>7. f = [j \in PageNo |-> B(j)]
  <2> HIDE DEF B
  <2> QED BY <1>5, <1>6
<1> QED BY <1>7 DEF IsChain

(* Chain shows what it shows one page shorter from the next page on. *)
LEMMA ChainSteps ==
    \E g : /\ \A p : Chain(p) = g[MaxPage][p]
           /\ \A most, x \in PageNo : g[most][x] = IF x = 0 \/ most = 0 THEN <<>>
                                                   ELSE <<x>> \o g[most - 1][pages[x].off[0]]
<1> DEFINE g == CHOOSE f : IsChain(f, pages)
<1>1. \A p : Chain(p) = g[MaxPage][p]
  BY DEF Chain, IsChain
<1>2. IsChain(g, pages)
  BY ChainExists
<1> HIDE DEF g
<1>3. \A most, x \in PageNo : g[most][x] = IF x = 0 \/ most = 0 THEN <<>>
                                           ELSE <<x>> \o g[most - 1][pages[x].off[0]]
  <2> SUFFICES ASSUME NEW most \in PageNo, NEW x \in PageNo
               PROVE  g[most][x] = IF x = 0 \/ most = 0 THEN <<>>
                                   ELSE <<x>> \o g[most - 1][pages[x].off[0]]
    OBVIOUS
  <2> DEFINE B(j) == [y \in PageNo |-> IF y = 0 \/ j = 0 THEN <<>>
                                       ELSE <<y>> \o g[j - 1][pages[y].off[0]]]
  <2>1. g = [j \in PageNo |-> B(j)]
    BY <1>2 DEF IsChain
  <2>2. g[most] = B(most)
    <3> HIDE DEF B
    <3> QED BY <2>1
  <2> QED BY <2>2
<1> QED BY <1>1, <1>3

(* The pages from leaf e of a row on. *)
Rest(row, e) == {x \in 1 .. MaxPage : \E f \in row : f[1] = x /\ f[2] >= e[2]}

(* c shows these, from left to right. *)
Displays(c, image, row, e) ==
    /\ c \in Seq(1 .. MaxPage) /\ Len(c) > 0 /\ c[1] = e[1]
    /\ \A x : x \in Rest(row, e) <=> \E i \in 1 .. Len(c) : c[i] = x
    /\ \A i \in 2 .. Len(c) : image[c[i - 1]].key[0] < image[c[i]].key[0]

(* The leaves of a tree are in a row. *)
InARow(image, row) ==
    \A e \in row :
        /\ e[1] \in 1 .. MaxPage /\ e[2] \in Int /\ e[3] \in Int /\ e[2] < e[3] /\ e[3] <= KeyMod
        /\ \A f \in row : /\ e # f => e[1] # f[1]
                          /\ e # f /\ f[2] >= e[2] => f[2] >= e[3]
                          /\ e[3] = f[2] => image[e[1]].key[0] < image[f[1]].key[0]

LEMMA LeavesInARow ==
    ASSUME NEW image \in Image, NEW top \in 1 .. MaxPage, NEW rows, NEW h, IsTree(image, top, rows, h)
    PROVE  InARow(image, rows[h])
<1>1. /\ h \in Nat /\ h \in 0 .. h /\ 0 \in 0 .. h /\ rows[0] = {<<top, 0, KeyMod>>}
      /\ \A e \in rows[h] : EntryInOrder(image, top, e)
  <2>1. h \in Nat
    BY PageNumbers DEF IsTree
  <2> QED BY <2>1 DEF IsTree
<1>2. Apart(rows[h]) /\ Once(rows, h)
  BY LeavesApart, OnePlace
<1>3. ASSUME NEW e \in rows[h]
      PROVE  e[1] \in 1 .. MaxPage /\ e[2] \in Int /\ e[3] \in Int /\ e[2] < e[3] /\ e[3] <= KeyMod
  <2>1. EntryInOrder(image, top, e)
    BY <1>1
  <2>2. e[1] \in 1 .. MaxPage
    BY <2>1 DEF EntryInOrder, Entry
  <2> QED BY <1>2, <2>2 DEF Apart
<1>4. ASSUME NEW e \in rows[h], NEW f \in rows[h], e # f PROVE e[1] # f[1]
  BY <1>1, <1>2, <1>4 DEF Once
<1>5. ASSUME NEW e \in rows[h], NEW f \in rows[h], e # f, f[2] >= e[2] PROVE f[2] >= e[3]
  <2> SUFFICES ASSUME ~(f[2] >= e[3]) PROVE FALSE
    OBVIOUS
  <2>1. Holds(e, f[2]) /\ Holds(f, f[2]) /\ f[2] \in Int
    BY <1>3, <1>5 DEF Holds
  <2> QED BY <1>1, <1>5, <2>1, OneEntry
<1>6. ASSUME NEW e \in rows[h], NEW f \in rows[h], e[3] = f[2]
      PROVE  image[e[1]].key[0] < image[f[1]].key[0]
  <2>1. e # f
    BY <1>3, <1>6
  <2>2. h # 0
    BY <1>1, <2>1
  <2>3. ASSUME NEW g \in rows[h]
        PROVE  image[g[1]].key[0] \in Int /\ g[2] <= image[g[1]].key[0] /\ image[g[1]].key[0] < g[3]
    <3>1. EntryInOrder(image, top, g)
      BY <1>1
    <3>2. g[1] # top
      <4> DEFINE r == <<top, 0, KeyMod>>
      <4>1. r \in rows[0] /\ r[1] = top
        BY <1>1
      <4> HIDE DEF r
      <4> QED BY <1>1, <1>2, <2>2, <4>1 DEF Once
    <3> DEFINE c == image[g[1]]
    <3>3. c.n > 0 /\ SlotsInOrder(c, g[2], g[3])
      BY <3>1, <3>2 DEF EntryInOrder
    <3>4. c \in Page /\ c.leaf /\ c.n < LeafOrder
      BY <1>1, <1>3, <3>1 DEF Image, IsTree, EntryInOrder
    <3> HIDE DEF c
    <3>5. c.n \in Nat /\ 0 \in 0 .. c.n - 1 /\ 0 \in KeySlot /\ \A j \in KeySlot : c.key[j] \in Int
      BY <3>3, <3>4, PageFacts, SlotFacts
    <3> QED BY <3>3, <3>5 DEF SlotsInOrder, c
  <2> QED BY <1>3, <1>6, <2>3
<1> QED BY <1>3, <1>4, <1>5, <1>6 DEF InARow

(* One page before a sequence of pages. *)
LEMMA PagePut ==
    ASSUME NEW x \in 1 .. MaxPage, NEW d \in Seq(1 .. MaxPage), NEW c, c = <<x>> \o d
    PROVE  /\ c \in Seq(1 .. MaxPage) /\ Len(c) = Len(d) + 1 /\ Len(d) \in Nat /\ c[1] = x
           /\ \A i \in 1 .. Len(d) : c[i + 1] = d[i]
OBVIOUS

(* The rest of a leaf is the leaf and the rest of the next one. *)
LEMMA RestShrinks ==
    ASSUME NEW image, NEW row, InARow(image, row), NEW e \in row
    PROVE  /\ e[1] \in Rest(row, e)
           /\ e[3] = KeyMod => Rest(row, e) = {e[1]}
           /\ \A f \in row : f[2] = e[3] => Rest(row, f) = Rest(row, e) \ {e[1]}
<1>1. \A a, b \in row : /\ a[1] \in 1 .. MaxPage /\ a[2] \in Int /\ a[3] \in Int /\ a[2] < a[3] /\ a[3] <= KeyMod
                        /\ a # b => a[1] # b[1]
                        /\ a # b /\ b[2] >= a[2] => b[2] >= a[3]
  BY DEF InARow
<1>2. \A x, f : x \in Rest(row, f) <=> x \in 1 .. MaxPage /\ \E b \in row : b[1] = x /\ b[2] >= f[2]
  BY DEF Rest
<1>3. e[1] \in Rest(row, e)
  BY <1>1, <1>2
<1>4. ASSUME e[3] = KeyMod, NEW x \in Rest(row, e) PROVE x = e[1]
  <2>1. PICK b \in row : b[1] = x /\ b[2] >= e[2]
    BY <1>2, <1>4
  <2>2. b = e
    BY <1>1, <1>4, <2>1, NodeAssumption
  <2> QED BY <2>1, <2>2
<1>5. ASSUME NEW f \in row, f[2] = e[3], NEW x \in Rest(row, f) PROVE x \in Rest(row, e) /\ x # e[1]
  <2>1. PICK b \in row : b[1] = x /\ b[2] >= f[2] /\ x \in 1 .. MaxPage
    BY <1>2, <1>5
  <2>2. b[2] \in Int /\ e[2] \in Int /\ e[3] \in Int /\ e[2] < e[3] /\ b[2] >= e[3]
    BY <1>1, <1>5, <2>1
  <2>3. b[2] >= e[2] /\ b # e
    BY <2>2
  <2> QED BY <1>1, <1>2, <2>1, <2>3
<1>6. ASSUME NEW f \in row, f[2] = e[3], NEW x \in Rest(row, e), x # e[1] PROVE x \in Rest(row, f)
  <2>1. PICK b \in row : b[1] = x /\ b[2] >= e[2] /\ x \in 1 .. MaxPage
    BY <1>2, <1>6
  <2>2. b[2] >= e[3]
    BY <1>1, <1>6, <2>1
  <2> QED BY <1>2, <1>6, <2>1, <2>2
<1>7. e[3] = KeyMod => Rest(row, e) = {e[1]}
  BY <1>3, <1>4
<1>8. ASSUME NEW f \in row, f[2] = e[3] PROVE Rest(row, f) = Rest(row, e) \ {e[1]}
  BY <1>5, <1>6, <1>8
<1> QED BY <1>3, <1>7, <1>8

(* A leaf before the leaves behind it. *)
LEMMA ShowsOneMore ==
    ASSUME NEW image, NEW row, InARow(image, row), NEW e \in row, NEW f \in row, f[2] = e[3],
           NEW d, Displays(d, image, row, f), NEW c, c = <<e[1]>> \o d
    PROVE  Displays(c, image, row, e)
<1>1. /\ d \in Seq(1 .. MaxPage) /\ Len(d) > 0 /\ d[1] = f[1]
      /\ \A x : x \in Rest(row, f) <=> \E i \in 1 .. Len(d) : d[i] = x
      /\ \A i \in 2 .. Len(d) : image[d[i - 1]].key[0] < image[d[i]].key[0]
  BY DEF Displays
<1>2. e[1] \in 1 .. MaxPage /\ image[e[1]].key[0] < image[f[1]].key[0]
  BY DEF InARow
<1>3. /\ c \in Seq(1 .. MaxPage) /\ Len(c) = Len(d) + 1 /\ Len(d) \in Nat /\ c[1] = e[1]
      /\ \A i \in 1 .. Len(d) : c[i + 1] = d[i]
  BY <1>1, <1>2, PagePut
<1>4. e[1] \in Rest(row, e) /\ Rest(row, f) = Rest(row, e) \ {e[1]}
  BY RestShrinks
<1>5. ASSUME NEW x \in Rest(row, e) PROVE \E i \in 1 .. Len(c) : c[i] = x
  <2>1. CASE x = e[1]
    BY <1>3, <2>1
  <2>2. CASE x # e[1]
    <3>1. PICK i \in 1 .. Len(d) : d[i] = x
      BY <1>1, <1>4, <1>5, <2>2
    <3>2. i + 1 \in 1 .. Len(c) /\ c[i + 1] = x
      BY <1>3, <3>1
    <3> QED BY <3>2
  <2> QED BY <2>1, <2>2
<1>6. ASSUME NEW i \in 1 .. Len(c) PROVE c[i] \in Rest(row, e)
  <2>1. CASE i = 1
    BY <1>3, <1>4, <2>1
  <2>2. CASE i # 1
    <3>1. i - 1 \in 1 .. Len(d) /\ (i - 1) + 1 = i
      BY <1>3, <2>2
    <3>2. c[i] = d[i - 1]
      BY <1>3, <3>1
    <3> QED BY <1>1, <1>4, <3>1, <3>2
  <2> QED BY <2>1, <2>2
<1>7. ASSUME NEW i \in 2 .. Len(c) PROVE image[c[i - 1]].key[0] < image[c[i]].key[0]
  <2>1. i - 1 \in 1 .. Len(d) /\ (i - 1) + 1 = i
    BY <1>3
  <2>2. c[i] = d[i - 1]
    BY <1>3, <2>1
  <2>3. CASE i = 2
    BY <1>1, <1>2, <1>3, <2>2, <2>3
  <2>4. CASE i # 2
    <3>1. i - 2 \in 1 .. Len(d) /\ (i - 2) + 1 = i - 1 /\ i - 1 \in 2 .. Len(d) /\ (i - 1) - 1 = i - 2
      BY <1>3, <2>4
    <3>2. c[i - 1] = d[i - 2]
      BY <1>3, <3>1
    <3>3. image[d[(i - 1) - 1]].key[0] < image[d[i - 1]].key[0]
      BY <1>1, <3>1
    <3> QED BY <2>2, <3>1, <3>2, <3>3
  <2> QED BY <2>3, <2>4
<1>8. \A x : x \in Rest(row, e) <=> \E i \in 1 .. Len(c) : c[i] = x
  BY <1>5, <1>6
<1>9. Len(c) > 0
  BY <1>3
<1> QED BY <1>3, <1>7, <1>8, <1>9 DEF Displays

(* The chain from a leaf on, which is long enough for the leaves behind. *)
LEMMA ChainShows ==
    ASSUME NEW image \in Image, NEW row, InARow(image, row), Linked(image, row), NEW g,
           \A most, x \in PageNo : g[most][x] = IF x = 0 \/ most = 0 THEN <<>>
                                                ELSE <<x>> \o g[most - 1][image[x].off[0]]
    PROVE  \A e \in row : Displays(g[MaxPage][e[1]], image, row, e)
<1> DEFINE S == {m \in PageNo : \A e \in row : Cardinality(Rest(row, e)) <= m => Displays(g[m][e[1]], image, row, e)}
<1>1. ASSUME NEW e \in row
      PROVE  IsFiniteSet(Rest(row, e)) /\ Cardinality(Rest(row, e)) \in Nat /\ Cardinality(Rest(row, e)) <= MaxPage
  <2>1. IsFiniteSet(1 .. MaxPage) /\ Cardinality(1 .. MaxPage) = MaxPage
    BY PageNumbers, FS_Interval
  <2>2. Rest(row, e) \in SUBSET (1 .. MaxPage)
    BY DEF Rest
  <2>3. IsFiniteSet(Rest(row, e)) /\ Cardinality(Rest(row, e)) <= MaxPage
    BY <2>1, <2>2, FS_Subset
  <2> QED BY <2>3, FS_CardinalityType
<1>2. ASSUME NEW e \in row PROVE e[1] \in 1 .. MaxPage /\ e[1] \in PageNo /\ e[1] # 0
  BY PageNumbers DEF InARow, PageNo
<1>3. 0 \in S
  <2>1. ASSUME NEW e \in row, Cardinality(Rest(row, e)) <= 0 PROVE FALSE
    <3>1. Cardinality(Rest(row, e)) = 0
      BY <1>1, <2>1
    <3>2. Rest(row, e) = {}
      BY <1>1, <3>1, FS_EmptySet
    <3> QED BY <3>2, RestShrinks
  <2> QED BY <2>1, PageNumbers
<1>4. ASSUME NEW m \in 0 + 1 .. MaxPage, m - 1 \in S PROVE m \in S
  <2> SUFFICES ASSUME NEW e \in row, Cardinality(Rest(row, e)) <= m PROVE Displays(g[m][e[1]], image, row, e)
    BY PageNumbers
  <2>1. m \in PageNo /\ m # 0 /\ m - 1 \in PageNo /\ m \in Nat
    BY PageNumbers
  <2> DEFINE x == image[e[1]].off[0]
             c == g[m][e[1]]
  <2>2. c = <<e[1]>> \o g[m - 1][x]
    BY <1>2, <2>1
  <2>3. IF e[3] = KeyMod THEN x = 0 ELSE \E f \in row : f[1] = x /\ f[2] = e[3]
    BY DEF Linked
  <2> HIDE DEF c, x
  <2>4. CASE e[3] = KeyMod
    <3>1. g[m - 1][x] = <<>>
      <4>1. 0 \in PageNo
        BY PageNumbers
      <4> QED BY <2>1, <2>3, <2>4, <4>1
    <3>2. <<>> \in Seq(1 .. MaxPage) /\ Len(<<>>) = 0
      OBVIOUS
    <3>3. c \in Seq(1 .. MaxPage) /\ Len(c) = 1 /\ c[1] = e[1]
      BY <1>2, <2>2, <3>1, <3>2, PagePut
    <3>4. Rest(row, e) = {e[1]}
      BY <2>4, RestShrinks
    <3>5. Displays(c, image, row, e)
      BY <3>3, <3>4 DEF Displays
    <3> QED BY <3>5 DEF c
  <2>5. CASE e[3] # KeyMod
    <3>1. PICK f \in row : f[1] = x /\ f[2] = e[3]
      BY <2>3, <2>5
    <3>2. Rest(row, f) = Rest(row, e) \ {e[1]} /\ e[1] \in Rest(row, e)
      BY <3>1, RestShrinks
    <3>3. Cardinality(Rest(row, f)) = Cardinality(Rest(row, e)) - 1
      BY <1>1, <3>2, FS_RemoveElement
    <3>4. Cardinality(Rest(row, f)) <= m - 1
      BY <1>1, <2>1, <3>3
    <3>5. Displays(g[m - 1][f[1]], image, row, f)
      BY <1>4, <3>4
    <3>6. Displays(c, image, row, e)
      BY <2>2, <3>1, <3>5, ShowsOneMore
    <3> QED BY <3>6 DEF c
  <2> QED BY <2>4, <2>5
<1>5. MaxPage \in S
  <2> HIDE DEF S
  <2>1. \A d \in 0 .. MaxPage : d \in S
    BY <1>3, <1>4, IntervalInduction, PageNumbers
  <2> QED BY <2>1, PageNumbers
<1> QED BY <1>1, <1>5

(* The leaf of key 1 is the first one: the tree has no key 0, so no leaf   *)
(* but an empty root could be before it.                                   *)
LEMMA NoLeafBefore ==
    ASSUME NEW image \in Image, NEW top \in 1 .. MaxPage, NEW rows, NEW h, IsTree(image, top, rows, h),
           RowKeys(image, rows[h]) \subseteq Key, NEW e \in rows[h], Holds(e, 1), NEW f \in rows[h]
    PROVE  f[2] >= e[2]
<1>1. /\ h \in Nat /\ h \in 0 .. h /\ 0 \in 0 .. h /\ rows[0] = {<<top, 0, KeyMod>>}
      /\ \A g \in rows[h] : EntryInOrder(image, top, g)
  <2>1. h \in Nat
    BY PageNumbers DEF IsTree
  <2> QED BY <2>1 DEF IsTree
<1>2. InARow(image, rows[h]) /\ Once(rows, h)
  BY LeavesInARow, OnePlace
<1>3. /\ e[2] \in Int /\ e[2] <= 1 /\ 1 < e[3] /\ e[3] \in Int
      /\ f[1] \in 1 .. MaxPage /\ f[2] \in Int /\ f[3] \in Int
  BY <1>2 DEF InARow, Holds
<1>4. f[2] >= 0
  <2>1. f \in Entry
    BY <1>1 DEF EntryInOrder
  <2> QED BY <2>1 DEF Entry, Bound
<1> SUFFICES ASSUME ~(f[2] >= e[2]) PROVE FALSE
  OBVIOUS
<1>5. e # f /\ f[2] = 0 /\ e[2] = 1
  BY <1>3, <1>4
<1>6. f[3] <= 1
  <2> SUFFICES ASSUME ~(f[3] <= 1) PROVE FALSE
    OBVIOUS
  <2>1. Holds(f, 1)
    BY <1>3, <1>5 DEF Holds
  <2> QED BY <1>1, <1>5, <2>1, OneEntry
<1>7. f[1] # top
  <2> DEFINE r == <<top, 0, KeyMod>>
  <2>1. r \in rows[0] /\ r[1] = top
    BY <1>1
  <2> HIDE DEF r
  <2>2. f[1] = top => h = 0
    BY <1>1, <1>2, <2>1 DEF Once
  <2>3. h # 0
    BY <1>1, <1>5
  <2> QED BY <2>2, <2>3
<1> DEFINE c == image[f[1]]
<1>8. c.n > 0 /\ SlotsInOrder(c, f[2], f[3])
  BY <1>1, <1>7 DEF EntryInOrder
<1>9. c \in Page /\ c.leaf
  BY <1>1, <1>3 DEF Image, IsTree
<1>10. RowKeys(image, rows[h]) = UNION {KeysOf(image[g[1]]) : g \in rows[h]}
  BY DEF RowKeys
<1>11. KeysOf(c) \subseteq Key
  BY <1>10
<1> HIDE DEF c
<1>12. c.n \in Nat /\ 0 \in 0 .. c.n - 1 /\ c.key[0] \in Int
  <2>1. c.n \in Nat /\ \A j \in 0 .. c.n : c.key[j] \in Int
    BY <1>9, PageFacts
  <2> QED BY <1>8, <2>1
<1>13. c.key[0] \in KeysOf(c)
  BY <1>12 DEF KeysOf, Values
<1>14. f[2] <= c.key[0] /\ c.key[0] < f[3]
  BY <1>8, <1>12 DEF SlotsInOrder
<1>15. c.key[0] >= 1
  <2>1. Key \subseteq 1 .. KeyMod - 1
    BY NodeAssumption
  <2> QED BY <1>11, <1>12, <1>13, <2>1
<1> QED BY <1>3, <1>6, <1>12, <1>14, <1>15

(* All leaves are chained. *)
LEMMA LeavesAreChained ==
    ASSUME pages \in Image, Top \in 1 .. MaxPage, NEW rows, NEW h, IsTree(pages, Top, rows, h),
           RowKeys(pages, rows[h]) \subseteq Key, Linked(pages, rows[h])
    PROVE  LeavesChained
<1> DEFINE row == rows[h]
<1>1. InOrderBelow(pages, Top) /\ Leaves(pages, Top) = row
  BY RowsAreEnough
<1>2. 1 \in KeyValue \ {0}
  BY NodeAssumption DEF KeyValue
<1>3. PICK e \in row : Holds(e, 1) /\ e[1] = FindLeaf(pages, Top, 1)
  <2> HIDE DEF row
  <2> QED BY <1>1, <1>2, FindLeafIsRight
<1>4. InARow(pages, row) /\ Linked(pages, row) /\ \A f \in row : f[2] >= e[2]
  BY <1>3, LeavesInARow, NoLeafBefore
<1> HIDE DEF row
<1>5. PICK g : /\ \A p : Chain(p) = g[MaxPage][p]
               /\ \A most, x \in PageNo : g[most][x] = IF x = 0 \/ most = 0 THEN <<>>
                                                       ELSE <<x>> \o g[most - 1][pages[x].off[0]]
  BY ChainSteps
<1> DEFINE chain == Chain(FindLeaf(pages, Top, 1))
<1>6. Displays(chain, pages, row, e)
  <2>1. Displays(g[MaxPage][e[1]], pages, row, e)
    BY <1>3, <1>4, <1>5, ChainShows
  <2>2. chain = g[MaxPage][e[1]]
    BY <1>3, <1>5
  <2> QED BY <2>1, <2>2
<1> DEFINE level == Levels(pages, Top)
           leaves == {p \in {f[1] : f \in UNION {level[j] : j \in PageNo}} : pages[p].leaf}
<1>7. \A p : p \in leaves <=> \E f \in row : f[1] = p
  <2>1. \A f : f \in row <=> f \in UNION {level[j] : j \in PageNo} /\ pages[f[1]].leaf
    BY <1>1 DEF Leaves
  <2> DEFINE all == UNION {level[j] : j \in PageNo}
  <2>2. \A p : p \in leaves <=> (\E f \in all : p = f[1]) /\ pages[p].leaf
    OBVIOUS
  <2>3. \A f : f \in row <=> f \in all /\ pages[f[1]].leaf
    BY <2>1
  <2> HIDE DEF all, leaves, level
  <2> QED BY <2>2, <2>3
<1>8. \A p : p \in Rest(row, e) <=> \E f \in row : f[1] = p
  BY <1>4 DEF Rest, InARow
<1> HIDE DEF chain
<1>9. \A p : p \in leaves <=> p \in {chain[i] : i \in 1 .. Len(chain)}
  <2> HIDE DEF leaves
  <2>1. \A p : p \in Rest(row, e) <=> \E i \in 1 .. Len(chain) : chain[i] = p
    BY <1>6 DEF Displays
  <2> QED BY <1>7, <1>8, <2>1
<1>10. leaves = {chain[i] : i \in 1 .. Len(chain)}
  <2> DEFINE shown == {chain[i] : i \in 1 .. Len(chain)}
  <2> HIDE DEF leaves, shown
  <2>1. \A p : p \in leaves <=> p \in shown
    BY <1>9 DEF shown
  <2>2. leaves = shown
    BY <2>1, SetExtensionality
  <2> QED BY <2>2 DEF shown
<1>11. \A i \in 2 .. Len(chain) : pages[chain[i - 1]].key[0] < pages[chain[i]].key[0]
  BY <1>6 DEF Displays
<1> QED BY <1>10, <1>11 DEF LeavesChained, chain, leaves, level
=============================================================================
