-------------------------- MODULE NodeSearchProofs --------------------------
(***************************************************************************)
(* Proofs about NodeSearch.tla for every capacity, page and key.           *)
(***************************************************************************)
EXTENDS NodeSearch, TLAPS

(* The loop invariant: the keys left of p are smaller than the key, those  *)
(* from q on are larger, i is the middle, and the page does not change.    *)
LoopInv ==
    /\ p <= q
    /\ i = (p + q) \div 2
    /\ \A j \in Slot : j < p => keys[j] < key
    /\ \A j \in Slot : j >= q /\ j < num_keys => key < keys[j]

ExitInv ==
    /\ pc = "loop" => flag = 0
    /\ pc = "done" /\ flag = 0 => keys[i] = key
    /\ pc = "done" /\ flag = 1 => p >= q /\ keys[i] # key

IInv == TypeOK /\ IsPage(keys, num_keys) /\ LoopInv /\ ExitInv

(* The middle of p..q is in p..q, and before q if the range is not empty.  *)
LEMMA Middle ==
    ASSUME NEW l \in Nat, NEW r \in Nat, l <= r
    PROVE  /\ (l + r) \div 2 \in l .. r
           /\ l < r => (l + r) \div 2 < r
OBVIOUS

(* Before the first probe the whole page is bracketed.                     *)
LEMMA SearchInit == Init => IInv
<1> SUFFICES ASSUME Init PROVE IInv
  OBVIOUS
<1> USE SearchAssumption DEF Init, Slot
<1>1. num_keys \div 2 \in 0 .. num_keys /\ num_keys \in Nat
  BY Middle
<1>2. TypeOK
  <2>1. Key \cup {0} \subseteq Int
    OBVIOUS
  <2>2. keys \in [Slot -> Int] /\ key \in Int
    BY <2>1, Zenon
  <2>3. num_keys \in Slot /\ p \in 0 .. num_keys /\ q \in 0 .. num_keys
    BY <1>1
  <2> QED BY <1>1, <2>2, <2>3 DEF TypeOK
<1>3. LoopInv
  BY <1>1 DEF LoopInv
<1> QED BY <1>2, <1>3 DEF IInv, ExitInv

(* A probe keeps the key bracketed, and the page as it is.                 *)
LEMMA SearchStep == IInv /\ [Next]_vars => IInv'
<1> SUFFICES ASSUME IInv, [Next]_vars PROVE IInv'
  OBVIOUS
<1> USE SearchAssumption DEF Slot, IInv, page
<1>1. CASE Hit
  BY <1>1 DEF Hit, TypeOK, IsPage, LoopInv, ExitInv
<1>2. CASE GiveUp
  BY <1>2 DEF GiveUp, TypeOK, IsPage, LoopInv, ExitInv
<1>3. CASE GoLeft
  <2>1. p \in Nat /\ q \in Nat /\ i \in p .. q /\ i < q
    BY <1>3, Middle DEF GoLeft, TypeOK, LoopInv
  <2>2. (p + q') \div 2 \in p .. q' /\ q' = i
    BY <1>3, <2>1, Middle DEF GoLeft
  <2>3. TypeOK'
    BY <1>3, <2>1, <2>2 DEF GoLeft, TypeOK
  <2>4. \A j \in Slot : j >= i /\ j < num_keys => key < keys[j]
    BY <1>3, <2>1 DEF GoLeft, TypeOK, IsPage
  <2>5. LoopInv'
    BY <1>3, <2>1, <2>2, <2>4 DEF GoLeft, LoopInv
  <2> QED BY <1>3, <2>3, <2>5 DEF GoLeft, IsPage, ExitInv
<1>4. CASE GoRight
  <2>1. p \in Nat /\ q \in Nat /\ i \in p .. q /\ i < q
    BY <1>4, Middle DEF GoRight, TypeOK, LoopInv
  <2>2. (p' + q) \div 2 \in p' .. q /\ p' = i + 1
    BY <1>4, <2>1, Middle DEF GoRight
  <2>3. TypeOK'
    BY <1>4, <2>1, <2>2 DEF GoRight, TypeOK
  <2>4. \A j \in Slot : j < i + 1 => keys[j] < key
    BY <1>4, <2>1 DEF GoRight, TypeOK, IsPage
  <2>5. LoopInv'
    BY <1>4, <2>1, <2>2, <2>4 DEF GoRight, LoopInv
  <2> QED BY <1>4, <2>3, <2>5 DEF GoRight, IsPage, ExitInv
<1>5. CASE UNCHANGED vars
  BY <1>5 DEF vars, TypeOK, IsPage, LoopInv, ExitInv
<1> QED BY <1>1, <1>2, <1>3, <1>4, <1>5 DEF Next

(* So it is in every reachable state.                                      *)
THEOREM SearchInvariant == Spec => []IInv
<1> QED BY SearchInit, SearchStep, PTL DEF Spec

(* The indices stay inside the page and the slot behind it: the loop reads *)
(* no slot after num_keys.                                                 *)
THEOREM SearchTypeCorrect == Spec => []TypeOK
<1>1. IInv => TypeOK
  BY DEF IInv
<1> QED BY <1>1, SearchInvariant, PTL

(* In every page, full or empty, the search finds the key or its place.    *)
THEOREM SearchIsCorrect == Spec => []SearchCorrect
<1>1. IInv => SearchCorrect
  <2> SUFFICES ASSUME IInv, pc = "done", ~Phantom
               PROVE  /\ flag = 0 <=> InPage
                      /\ flag = 0 => keys[i] = key /\ i < num_keys
                      /\ Child \in 0 .. num_keys
                      /\ \A j \in Slot : j < num_keys => (j < Child <=> keys[j] <= key)
    BY DEF SearchCorrect
  <2> USE SearchAssumption DEF IInv, TypeOK, Slot
  <2>1. CASE flag = 0
    <3>1. keys[i] = key /\ i < num_keys /\ i \in Slot /\ Child = i + 1
      BY <2>1 DEF ExitInv, Phantom, Child
    <3>2. \A j \in Slot : j < num_keys => (j < i + 1 <=> keys[j] <= key)
      BY <3>1 DEF IsPage
    <3> QED BY <2>1, <3>1, <3>2 DEF InPage
  <2>2. CASE flag = 1
    <3>1. Child = i /\ p = q /\ i = p
      BY <2>2, Middle DEF ExitInv, LoopInv, Child
    <3>2. \A j \in Slot : j < num_keys => (j < i <=> keys[j] <= key) /\ keys[j] # key
      BY <3>1 DEF LoopInv
    <3> QED BY <2>2, <3>1, <3>2 DEF InPage
  <2> QED BY <2>1, <2>2
<1> QED BY <1>1, SearchInvariant, PTL

(* The slot behind the keys is taken for a key exactly when it holds the   *)
(* key searched for and all keys of the page are smaller, whatever was     *)
(* left behind there.                                                      *)
THEOREM PhantomIsLeftBehind == Spec => []PhantomIsKeyBehind
<1>1. IInv => PhantomIsKeyBehind
  <2> DEFINE Smaller == \A j \in Slot : j < num_keys => keys[j] < key
  <2> SUFFICES ASSUME IInv, pc = "done"
               PROVE  Phantom <=> key = keys[num_keys] /\ Smaller
    BY DEF PhantomIsKeyBehind
  <2> USE SearchAssumption DEF IInv, TypeOK, Slot
  <2>1. ASSUME Phantom
        PROVE  key = keys[num_keys] /\ Smaller
    <3>1. i = num_keys /\ keys[i] = key
      BY <2>1 DEF Phantom, ExitInv
    <3>2. p <= q /\ p \in Nat /\ q \in Nat /\ q <= num_keys /\ i \in p .. q
      BY Middle DEF LoopInv
    <3>3. ~(p < q)
      BY <3>1, <3>2, Middle DEF LoopInv
    <3>4. p = num_keys
      BY <3>1, <3>2, <3>3
    <3> QED BY <3>1, <3>4 DEF LoopInv
  <2>2. ASSUME key = keys[num_keys], Smaller
        PROVE  Phantom
    <3>1. q = num_keys
      <4>1. SUFFICES ASSUME q < num_keys PROVE FALSE
        OBVIOUS
      <4>2. q \in Slot /\ key < keys[q]
        BY <4>1 DEF LoopInv
      <4> QED BY <4>1, <4>2, <2>2
    <3>2. flag = 0
      <4>1. SUFFICES ASSUME flag = 1 PROVE FALSE
        OBVIOUS
      <4>2. i = num_keys
        BY <3>1, <4>1, Middle DEF ExitInv, LoopInv
      <4> QED BY <4>1, <4>2, <2>2 DEF ExitInv
    <3>3. ~(i < num_keys)
      BY <2>2, <3>2 DEF ExitInv
    <3> QED BY <3>2, <3>3 DEF Phantom
  <2> QED BY <2>1, <2>2
<1> QED BY <1>1, SearchInvariant, PTL
=============================================================================
