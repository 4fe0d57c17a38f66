-------------------------------- MODULE Node --------------------------------
(***************************************************************************)
(* The pages of the B+ tree of on-disk-bpt/bpt.c and what its functions do *)
(* to the arrays of one page.  A leaf_page and an in_page overlay the same *)
(* bytes (bpt.h), so one record stands for both: next_offset of a leaf is  *)
(* the word offsets[0] of an internal page, and a cleared page reads as an *)
(* internal page without keys.  A record is its key: values travel with    *)
(* their key everywhere.                                                   *)
(***************************************************************************)
EXTENDS Integers

CONSTANTS
    MaxPage,        \* bound: pages 1 .. MaxPage of the file
    LeafOrder,      \* LEAF_ORDER: a leaf holds LeafOrder - 1 records
    InternalOrder,  \* INTERNAL_ORDER: children of a full internal page
    Key,            \* the keys the user types
    IntMod,         \* 2^(bits of an int)
    KeyMod          \* 2^(bits of a key), more than IntMod

ASSUME NodeAssumption ==
    /\ MaxPage \in Nat \ {0}
    /\ LeafOrder \in Nat /\ LeafOrder >= 2
    /\ InternalOrder \in Nat /\ InternalOrder >= 3
    /\ IntMod \in Nat \ {0} /\ KeyMod \in Nat /\ KeyMod > IntMod
    /\ Key \subseteq 1 .. KeyMod - 1      \* bound: key 0 is NodeSearch.tla's

PageNo  == 0 .. MaxPage
(* The slot behind the last one is never written and reads as 0.           *)
KeySlot == 0 .. (IF LeafOrder > InternalOrder THEN LeafOrder ELSE InternalOrder) - 1
OffSlot == 0 .. InternalOrder - 1

Page == [parent : PageNo, leaf : BOOLEAN, n : KeySlot,
         key : [KeySlot -> 0 .. KeyMod - 1], off : [OffSlot -> PageNo]]

ZeroPage == [parent |-> 0, leaf |-> FALSE, n |-> 0,
             key |-> [i \in KeySlot |-> 0], off |-> [i \in OffSlot |-> 0]]

cut(length) == (length + 1) \div 2

(* int k_prime = tmp_keys[split - 1]: the low bits, sign extended when the *)
(* int becomes a uint64_t again.                                           *)
ToInt(k) == LET low == k % IntMod
            IN  IF low < IntMod \div 2 THEN low ELSE KeyMod - IntMod + low

-----------------------------------------------------------------------------
(* The binary search of find_leaf and find; NodeSearch.tla has its steps.  *)
Search(c, k) ==
    LET probe[range \in KeySlot \X KeySlot] ==
            LET p == range[1]
                q == range[2]
                i == (p + q) \div 2
            IN  IF c.key[i] = k   THEN [at |-> i, hit |-> TRUE]
                ELSE IF p >= q    THEN [at |-> i, hit |-> FALSE]
                ELSE IF k < c.key[i] THEN probe[<<p, i>>]
                ELSE probe[<<i + 1, q>>]
    IN  probe[<<0, c.n>>]

Child(c, k) == LET r == Search(c, k)
               IN  c.off[IF r.hit THEN r.at + 1 ELSE r.at]

(* while (i < limit && P) i++ *)
FirstNot(P(_), limit) ==
    LET scan[i \in 0 .. limit] == IF i < limit /\ P(i) THEN scan[i + 1] ELSE i
    IN  scan[0]

(* The first n slots of array a with x put before slot i, or without slot  *)
(* i; the slots behind them keep what they hold.                           *)
With(a, n, i, x) ==
    [j \in DOMAIN a |-> IF j = i THEN x ELSE IF i < j /\ j <= n THEN a[j - 1] ELSE a[j]]
(* Mutant: the slot given up keeps its key. *)
WithoutNotCleared(a, n, i) ==
    [j \in DOMAIN a |-> IF i <= j /\ j < n - 1 THEN a[j + 1] ELSE a[j]]
Without(a, n, i) ==
    [j \in DOMAIN a |-> IF j = n - 1 THEN 0 ELSE IF i <= j /\ j < n THEN a[j + 1] ELSE a[j]]
(* Mutant: the copy does not skip over the slot of x. *)
SplicedOver(a, size, i, x) == [j \in 0 .. size - 1 |-> IF j = i THEN x ELSE a[j % (size - 1)]]
(* The temporary array of a split: the slots of a and x in slot i. *)
Spliced(a, size, i, x) ==
    [j \in 0 .. size - 1 |-> IF j < i THEN a[j] ELSE IF j = i THEN x ELSE a[j - 1]]
(* Mutant: the loop that fills the page stops one slot too early. *)
PartShort(a, t, i, count) == [j \in DOMAIN a |-> IF j < count - 1 THEN t[i + j] ELSE 0]
(* count slots of the temporary array t from slot i on, zeros behind them. *)
Part(a, t, i, count) == [j \in DOMAIN a |-> IF j < count THEN t[i + j] ELSE 0]

(* Mutant: num_keys is not counted up. *)
LeafWithNotCounted(c, k) ==
    LET ip == FirstNot(LAMBDA i : c.key[i] < k, c.n)
    IN  [c EXCEPT !.key = With(@, c.n, ip, k)]

(* insert_into_leaf. *)
LeafWith(c, k) ==
    LET ip == FirstNot(LAMBDA i : c.key[i] < k, c.n)
    IN  [c EXCEPT !.key = With(@, c.n, ip, k), !.n = @ + 1]

(* insert_into_leaf_after_splitting: the two halves of a full leaf c and k. *)
LeafHalves(c, k, new) ==
    LET ip  == FirstNot(LAMBDA i : c.key[i] < k, LeafOrder - 1)
        tmp == Spliced(c.key, LeafOrder, ip, k)
        split == cut(LeafOrder - 1)
    IN  [left  |-> [c EXCEPT !.n = split,
                             !.key = Part(@, tmp, 0, split),
                             !.off[0] = new.at],
         right |-> [new.node EXCEPT !.leaf = TRUE,
                                    !.n = LeafOrder - split,
                                    !.key = Part(@, tmp, split, LeafOrder - split),
                                    !.off[0] = c.off[0],
                                    !.parent = c.parent]]

(* insert_into_node. *)
NodeWith(c, li, k, right) ==
    [c EXCEPT !.key = With(@, c.n, li, k),
              !.off = With(@, c.n + 1, li + 1, right),
              !.n = @ + 1]

(* insert_into_node_after_splitting: halves of a full internal page.       *)
NodeHalves(c, li, k, right, new) ==
    LET keys == Spliced(c.key, InternalOrder, li, k)
        offs == Spliced(c.off, InternalOrder + 1, li + 1, right)
        split == cut(InternalOrder)
    IN  [left  |-> [c EXCEPT !.n = split - 1,
                             !.key = Part(@, keys, 0, split - 1),
                             !.off = Part(@, offs, 0, split)],
         right |-> [new.node EXCEPT !.n = InternalOrder - split,
                             !.key = Part(@, keys, split, InternalOrder - split),
                             !.off = Part(@, offs, split, InternalOrder - split + 1),
                             !.parent = c.parent],
         middle |-> keys[split - 1]]

(* Mutant: the search for the key stops one slot too late. *)
RemoveNextEntry(c, k) ==
    LET i == FirstNot(LAMBDA j : c.key[j] <= k, c.n - 1)
    IN  [c EXCEPT !.n = @ - 1,
                  !.key = Without(@, c.n, i),
                  !.off = IF c.leaf THEN @ ELSE Without(@, c.n + 1, i + 1)]

(* remove_entry_from_node, for a key the page has. *)
RemoveEntry(c, k) ==
    LET i == FirstNot(LAMBDA j : c.key[j] # k, c.n - 1)
    IN  [c EXCEPT !.n = @ - 1,
                  !.key = Without(@, c.n, i),
                  !.off = IF c.leaf THEN @ ELSE Without(@, c.n + 1, i + 1)]

-----------------------------------------------------------------------------
(* The loop of merge_nodes that moves records from page r to its left      *)
(* neighbor l.  It has work only when r is not the empty one.  back: the   *)
(* branch that takes a record back from l ran.                             *)
ShiftLeaf(l0, r0) ==
    LET Move(i, t) ==
            IF t.l.n = 0
            THEN [t EXCEPT !.l.key[0] = t.r.key[i],
                           !.l.n = 1,
                           !.r.key = [[@ EXCEPT ![i] = t.r.key[i + 1]]
                                          EXCEPT ![t.r.n - 1] = 0],
                           !.r.n = @ - 1]
            ELSE [t EXCEPT !.r.key[i] = t.l.key[t.l.n - 1],
                           !.r.n = @ + 1,
                           !.l.key[t.r.n] = 0,
                           !.l.n = @ - 1,
                           !.back = TRUE]
        loop[i \in 0 .. LeafOrder] ==
            IF i = 0 THEN [l |-> l0, r |-> r0, back |-> FALSE]
            ELSE LET t == loop[i - 1]
                 IN  IF i - 1 < cut(t.r.n + t.l.n) /\ t.r.n # 0
                     THEN Move(i - 1, t) ELSE t
        done == loop[LeafOrder]
    IN  IF done.r.n = 0 THEN [done EXCEPT !.l.off[0] = done.r.off[0]] ELSE done

(* The same for internal pages, k_prime first.  Every offset is stored one *)
(* slot too far to the right; fits: no store was outside offsets[].        *)
ShiftNode(l0, r0, kp) ==
    LET Store(t, i, p) == IF i \in OffSlot THEN [t EXCEPT !.l.off[i] = p]
                          ELSE [t EXCEPT !.fits = FALSE]
        Move(i, t0) ==
            LET t == Store(t0, t0.l.n + 1, t0.r.off[i])
            IN  IF ~t.fits THEN t
                ELSE [t EXCEPT !.l.key[t.l.n] = t.r.key[i],
                               !.l.n = @ + 1,
                               !.r.key = [[@ EXCEPT ![i] = t.r.key[i + 1]]
                                              EXCEPT ![t.r.n - 1] = 0],
                               !.r.off = [[@ EXCEPT ![i] = t.r.off[i + 1]]
                                              EXCEPT ![t.r.n] = 0],
                               !.r.n = @ - 1]
        l1 == [l0 EXCEPT !.key[l0.n] = kp, !.n = @ + 1]
        loop[i \in 0 .. InternalOrder] ==
            IF i = 0 THEN [l |-> l1, r |-> r0, fits |-> TRUE]
            ELSE LET t == loop[i - 1]
                 IN  IF t.fits /\ i - 1 < cut(t.r.n + t.l.n) /\ t.r.n # 0
                     THEN Move(i - 1, t) ELSE t
        done == loop[InternalOrder]
    IN  IF done.fits THEN Store(done, done.l.n + 1, done.r.off[done.r.n]) ELSE done

-----------------------------------------------------------------------------
(* Keys in order and between the separators low and high above the page,   *)
(* and nothing but zeros behind them.                                      *)
SlotsInOrder(c, low, high) ==
    /\ \A i \in 0 .. c.n - 1 : low <= c.key[i] /\ c.key[i] < high
    /\ \A i \in 1 .. c.n - 1 : c.key[i - 1] < c.key[i]
    /\ \A i \in KeySlot : i >= c.n => c.key[i] = 0
    /\ \A i \in OffSlot : i > (IF c.leaf THEN 0 ELSE c.n) => c.off[i] = 0

(* Branch i of n keys and n + 1 offsets: a child and the keys below it, as *)
(* find_leaf goes down.                                                    *)
Branch(key, off, n, low, high, i) ==
    <<off[i], IF i = 0 THEN low ELSE key[i - 1], IF i = n THEN high ELSE key[i]>>
Branches(key, off, n, low, high) == {Branch(key, off, n, low, high, i) : i \in 0 .. n}

(* The branches of an internal page between the separators above it. *)
Subtrees(c, low, high) == Branches(c.key, c.off, c.n, low, high)
=============================================================================
