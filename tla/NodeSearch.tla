----------------------------- MODULE NodeSearch -----------------------------
(***************************************************************************)
(* The binary search that find_leaf runs in every internal page and find   *)
(* in the leaf (bpt.c; bpt3.c and find.c repeat it line by line with       *)
(* signed keys).  The loop compares slot i with the key BEFORE it tests    *)
(* p >= q, so it also reads slot num_keys, one past the keys of the page.  *)
(***************************************************************************)
EXTENDS Integers

CONSTANTS
    Cap,     \* keys in a full page: LEAF_ORDER - 1 or INTERNAL_ORDER - 1
    Key      \* the keys a user may give; unsigned in bpt.c, signed later

ASSUME SearchAssumption == Cap \in Nat /\ Key \subseteq Int

Slot == 0 .. Cap        \* the slots of a page and the one behind the last

(* A page: n keys in strictly increasing order, and anything behind them.  *)
(* bpt.c clears the slots it gives up.  In bpt3.c a removal clears the     *)
(* slot behind the shifted keys and then counts num_keys down twice, so    *)
(* that a key of the page stays in slot num_keys; and a page that is made  *)
(* keeps what its frame held before, even behind the array.                *)
IsPage(a, n) == \A j, k \in Slot : j < k /\ k < n => a[j] < a[k]

VARIABLES
    keys, num_keys,      \* the page that is searched
    key,                 \* the key searched for
    p, q, i,             \* the locals of the loop
    flag,                \* 1 when the loop gave up
    pc

vars == <<keys, num_keys, key, p, q, i, flag, pc>>
page == <<keys, num_keys, key>>

Init ==
    /\ keys \in [Slot -> Key \cup {0}]
    /\ num_keys \in Slot
    /\ IsPage(keys, num_keys)
    /\ key \in Key
    /\ p = 0
    /\ q = num_keys
    /\ i = num_keys \div 2
    /\ flag = 0
    /\ pc = "loop"

-----------------------------------------------------------------------------
(* while (key != keys[i]) is false. *)
Hit ==
    /\ pc = "loop"
    /\ key = keys[i]
    /\ pc' = "done"
    /\ UNCHANGED <<page, p, q, i, flag>>

(* Mutant: gives up while one slot is left. *)
GiveUpTooEarly ==
    /\ pc = "loop"
    /\ key # keys[i]
    /\ p + 1 >= q
    /\ flag' = 1
    /\ pc' = "done"
    /\ UNCHANGED <<page, p, q, i>>

GiveUp ==
    /\ pc = "loop"
    /\ key # keys[i]
    /\ p >= q
    /\ flag' = 1
    /\ pc' = "done"
    /\ UNCHANGED <<page, p, q, i>>

(* Mutant: the slot just compared is left out, as if q were inclusive. *)
GoLeftTooFar ==
    /\ pc = "loop"
    /\ p < q
    /\ key < keys[i]
    /\ q' = i - 1
    /\ i' = (p + q') \div 2
    /\ UNCHANGED <<page, p, flag, pc>>

GoLeft ==
    /\ pc = "loop"
    /\ p < q
    /\ key < keys[i]
    /\ q' = i
    /\ i' = (p + q') \div 2
    /\ UNCHANGED <<page, p, flag, pc>>

(* Mutant: the slot just compared stays in the range. *)
GoRightStuck ==
    /\ pc = "loop"
    /\ p < q
    /\ key > keys[i]
    /\ p' = i
    /\ i' = (p' + q) \div 2
    /\ UNCHANGED <<page, q, flag, pc>>

GoRight ==
    /\ pc = "loop"
    /\ p < q
    /\ key > keys[i]
    /\ p' = i + 1
    /\ i' = (p' + q) \div 2
    /\ UNCHANGED <<page, q, flag, pc>>

Next == Hit \/ GiveUp \/ GoLeft \/ GoRight

Spec == Init /\ [][Next]_vars

(* The loop is straight-line code of one thread: it keeps running. *)
FairSpec == Spec /\ WF_vars(Next)

-----------------------------------------------------------------------------
InPage == \E j \in Slot : j < num_keys /\ keys[j] = key

(* find returns slot i; find_leaf goes to offsets[i], or offsets[i + 1]    *)
(* after a hit.                                                            *)
Child == IF flag = 1 THEN i ELSE i + 1

(* A hit on the slot behind the keys. *)
Phantom == flag = 0 /\ i >= num_keys

TypeOK ==
    /\ keys \in [Slot -> Int]
    /\ num_keys \in Slot
    /\ key \in Int
    /\ p \in 0 .. num_keys /\ q \in 0 .. num_keys /\ i \in 0 .. num_keys
    /\ flag \in {0, 1}
    /\ pc \in {"loop", "done"}

(* A key of the page is found at its slot; for any other key the loop ends *)
(* with i at the place the key belongs: find_leaf then follows the child   *)
(* whose range holds the key, as it does after a hit on a separator.       *)
SearchCorrect ==
    pc = "done" /\ ~Phantom =>
        /\ flag = 0 <=> InPage
        /\ flag = 0 => keys[i] = key /\ i < num_keys
        /\ Child \in 0 .. num_keys
        /\ \A j \in Slot : j < num_keys => (j < Child <=> keys[j] <= key)

(* The slot behind the keys is taken for one of them exactly when it holds *)
(* the key searched for and every key of the page is smaller: the search   *)
(* then tells a key that is not there.  In bpt.c this is key 0 in an empty *)
(* page; in bpt3.c it is 0 in a page of negative keys, and a key that a    *)
(* removal left behind.                                                    *)
PhantomIsKeyBehind ==
    pc = "done" =>
        (Phantom <=> /\ key = keys[num_keys]
                     /\ \A j \in Slot : j < num_keys => keys[j] < key)

(* The search of any page for any key ends. *)
Terminates == <>(pc = "done")
=============================================================================
