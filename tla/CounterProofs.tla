--------------------------- MODULE CounterProofs ---------------------------
(***************************************************************************)
(* Proofs about Counter.tla for every number of threads and increments.    *)
(***************************************************************************)
EXTENDS Counter, FiniteSetTheorems, TLAPS

(* A thread between lock and unlock is the holder; so there is one at most *)
(* and the counter it loaded is still the counter when it stores.          *)
Holder ==
    locks => \A t \in Thread :
        /\ pc[t] \in {"locked", "loaded", "stored"} => mutex = t
        /\ pc[t] = "loaded" => reg[t] = cnt_global

(* No register holds more than the increments that were stored. *)
Behind == \A t \in Thread : reg[t] <= stored

(* A thread in the middle of an increment has one left to make. *)
Owing ==
    \A t \in Thread :
        pc[t] \in {"locked", "loaded", "stored"} => cnt_local[t] < NUM_INCREMENT

Inv == TypeOK /\ Holder /\ Behind /\ Owing /\ NothingLost

(* The first state.                                                        *)
LEMMA CounterInit == Init => Inv
  BY CounterAssumption DEF Init, Inv, TypeOK, Holder, Behind, Owing, NothingLost, Thread

(* The actions of main change no thread that runs. *)
LEMMA MainStep ==
    ASSUME Inv, Main
    PROVE  Inv'
<1> USE CounterAssumption DEF Thread, Inv, TypeOK
<1>1. TypeOK'
  <2>1. CASE Create
    BY <2>1 DEF Create, Round
  <2>2. CASE Join
    BY <2>2 DEF Join, Round
  <2>3. CASE JoinNobody
    BY <2>3 DEF JoinNobody, Round
  <2> QED BY <2>1, <2>2, <2>3 DEF Main
<1>2. UNCHANGED <<locks, reg, cnt_local, mutex, cnt_global, stored>>
  BY DEF Main, Create, Join, JoinNobody
<1>3. \A t \in Thread : pc'[t] \in {"locked", "loaded", "stored"} => pc'[t] = pc[t]
  BY DEF Main, Create, Join, JoinNobody
<1>4. Holder'
  BY <1>2, <1>3 DEF Holder
<1>5. Behind' /\ Owing' /\ NothingLost'
  BY <1>2, <1>3 DEF Behind, Owing, NothingLost
<1> QED BY <1>1, <1>4, <1>5

(* One step of a thread. *)
LEMMA ThreadStep ==
    ASSUME Inv, NEW t \in Thread, Run(t)
    PROVE  Inv'
<1> USE CounterAssumption DEF Thread, Inv, TypeOK, mains
<1>1. CASE Lock(t)
  <2>4. Owing' BY <1>1 DEF Lock, Owing
  <2>1. TypeOK' BY <1>1 DEF Lock
  <2>2. Holder' BY <1>1 DEF Lock, Holder
  <2>3. Behind' /\ NothingLost' BY <1>1 DEF Lock, Behind, NothingLost
  <2> QED BY <2>1, <2>2, <2>3, <2>4
<1>2. CASE Load(t)
  <2>4. Owing' BY <1>2 DEF Load, Owing
  <2>1. TypeOK' BY <1>2 DEF Load
  <2>2. Holder' BY <1>2 DEF Load, Holder
  <2>3. Behind' /\ NothingLost' BY <1>2 DEF Load, Behind, NothingLost
  <2> QED BY <2>1, <2>2, <2>3, <2>4
<1>3. CASE StoreLocked(t)
  <2>4. Owing' BY <1>3 DEF StoreLocked, Owing
  <2>1. TypeOK' BY <1>3 DEF StoreLocked, NewValue
  <2>2. Holder' BY <1>3 DEF StoreLocked, Holder
  <2>3. Behind' /\ NothingLost' BY <1>3 DEF StoreLocked, NewValue, Behind, NothingLost, Holder
  <2> QED BY <2>1, <2>2, <2>3, <2>4
<1>4. CASE StoreRacing(t)
  <2>1. PICK m \in Rounds(t) :
          /\ cnt_global' = NewValue(t, m)
          /\ reg' = [reg EXCEPT ![t] = NewValue(t, m)]
          /\ stored' = stored + m
          /\ cnt_local' = [cnt_local EXCEPT ![t] = @ + m]
    BY <1>4 DEF StoreRacing
  <2>2. m \in Nat /\ m <= NUM_INCREMENT - cnt_local[t] /\ ~locks
    BY <1>4, <2>1 DEF Rounds, StoreRacing
  <2>3. TypeOK' BY <1>4, <2>1, <2>2 DEF StoreRacing, NewValue
  <2>4. Holder' BY <1>4, <2>2 DEF StoreRacing, Holder
  <2>5. Behind' /\ NothingLost'
    BY <1>4, <2>1, <2>2, SMTT(30) DEF StoreRacing, NewValue, Behind, NothingLost
  <2>6. Owing' BY <1>4, <2>1, <2>2 DEF StoreRacing, Owing
  <2> QED BY <2>3, <2>4, <2>5, <2>6
<1>5. CASE Unlock(t)
  <2>1. Owing' BY <1>5 DEF Unlock, Owing
  <2>2. TypeOK' BY <1>5 DEF Unlock, Owing
  <2>3. Holder' BY <1>5 DEF Unlock, Holder
  <2>4. Behind' /\ NothingLost' BY <1>5 DEF Unlock, Behind, NothingLost
  <2> QED BY <2>1, <2>2, <2>3, <2>4
<1>6. CASE Exit(t)
  <2>4. Owing' BY <1>6 DEF Exit, Owing
  <2>1. TypeOK' BY <1>6 DEF Exit
  <2>2. Holder' BY <1>6 DEF Exit, Holder
  <2>3. Behind' /\ NothingLost' BY <1>6 DEF Exit, Behind, NothingLost
  <2> QED BY <2>1, <2>2, <2>3, <2>4
<1> QED BY <1>1, <1>2, <1>3, <1>4, <1>5, <1>6 DEF Run

(* The invariant holds in every reachable state.                           *)
LEMMA CounterInvariant == Spec => []Inv
<1>1. Inv /\ [Next]_vars => Inv'
  <2>1. ASSUME Inv, UNCHANGED vars PROVE Inv'
    BY <2>1 DEF vars, Inv, TypeOK, Holder, Behind, Owing, NothingLost
  <2> QED BY <2>1, MainStep, ThreadStep DEF Next
<1> QED BY CounterInit, <1>1, PTL DEF Spec

(* No thread increments more often than its loop says, and every variable  *)
(* keeps its type.                                                         *)
THEOREM CounterTypeCorrect == Spec => []TypeOK
<1>1. Inv => TypeOK
  BY DEF Inv
<1> QED BY CounterInvariant, <1>1, PTL

(* cnt_global++ between lock and unlock loses no increment, and without    *)
(* the lock it only ever loses some.                                       *)
THEOREM NoIncrementLost == Spec => []NothingLost
<1>1. Inv => NothingLost
  BY DEF Inv
<1> QED BY CounterInvariant, <1>1, PTL

-----------------------------------------------------------------------------
(* The increments as a set: the j-th of thread t for every one it stored.  *)
Done(t) == cnt_local[t] + IF pc[t] = "stored" THEN 1 ELSE 0
Incs == {x \in Thread \X (1 .. NUM_INCREMENT) : x[2] <= Done(x[1])}

(* main has created the threads before i, or all, and joined those before i. *)
Joined(t) == pc[t] \in {"exited", "failed"}

Phases ==
    /\ main = "create" => \A t \in Thread : t >= i <=> pc[t] = "none"
    /\ main # "create" => \A t \in Thread : pc[t] # "none"
    /\ main = "join" => \A t \in Thread : t < i => Joined(t)
    /\ main = "print" => \A t \in Thread : Joined(t)

(* What the place of a thread says of its count. *)
Places ==
    \A t \in Thread :
        /\ pc[t] \in {"none", "failed"} => cnt_local[t] = 0
        /\ pc[t] = "exited" => cnt_local[t] = NUM_INCREMENT
        /\ pc[t] \in {"locked", "stored"} => locks

(* Without the mutex: a thread that has stored read 1 or more ever after,  *)
(* and a counter of 1 is the work of a thread that has one increment.      *)
Small ==
    /\ \A t \in Thread : cnt_local[t] > 0 => cnt_global >= 1
    /\ \A t \in Thread : pc[t] = "loaded" /\ cnt_local[t] > 0 => reg[t] >= 1
    /\ ~locks /\ cnt_global = 1 /\ NUM_INCREMENT >= 2 => \E t \in Thread : cnt_local[t] = 1

SumInv == IsFiniteSet(Incs) /\ stored = Cardinality(Incs)

CountInv == Phases /\ Places /\ Small /\ SumInv

(* The first state: nothing is stored.                                     *)
LEMMA CountInit == Init => CountInv
<1> SUFFICES ASSUME Init PROVE CountInv
  OBVIOUS
<1> USE CounterAssumption
<1>1. Phases /\ Places /\ Small
  BY DEF Init, Phases, Places, Small, Thread
<1>2. Incs = {}
  BY DEF Init, Incs, Done
<1>3. SumInv
  BY <1>2, FS_EmptySet DEF SumInv, Init
<1> QED BY <1>1, <1>3 DEF CountInv

(* Creating, joining and printing store nothing.                           *)
LEMMA CountMain ==
    ASSUME Inv, CountInv, Main
    PROVE  CountInv'
<1> USE CounterAssumption DEF CountInv
<1>1. /\ UNCHANGED <<locks, reg, cnt_local, mutex, cnt_global, stored>>
      /\ pc' = pc \/ Create
  BY DEF Main, Create, Join, JoinNobody
<1>2. Phases'
  <2>1. CASE Create
    BY <2>1 DEF Create, Round, Phases, Thread, Joined, Inv, TypeOK
  <2>2. CASE Join
    BY <2>2 DEF Join, Round, Phases, Thread, Joined, Inv, TypeOK
  <2>3. CASE JoinNobody
    BY <2>3 DEF JoinNobody, Round, Phases, Thread, Joined, Inv, TypeOK
  <2> QED BY <2>1, <2>2, <2>3 DEF Main
<1>3. \A t \in Thread : pc'[t] = pc[t] \/ (pc[t] = "none" /\ pc'[t] \in {"loop", "failed"})
  BY <1>1 DEF Create, Phases, Inv, TypeOK, Thread
<1>4. Places'
  BY <1>1, <1>3 DEF Places
<1>5. Small'
  BY <1>1, <1>3 DEF Small
<1>6. Incs' = Incs
  BY <1>1, <1>3 DEF Incs, Done
<1> QED BY <1>1, <1>2, <1>4, <1>5, <1>6 DEF SumInv

(* One step of a thread: a store adds one pair to the set of increments    *)
(* done, and every other step none.                                        *)
LEMMA CountThread ==
    ASSUME Inv, CountInv, NEW t \in Thread, Run(t)
    PROVE  CountInv'
<1> USE CounterAssumption DEF CountInv, mains
<1>1. Phases'
  <2>1. UNCHANGED <<locks, main, i>>
    BY DEF Run, Lock, Load, StoreLocked, StoreRacing, Unlock, Exit
  <2>2. /\ \A s \in Thread \ {t} : pc'[s] = pc[s]
        /\ pc[t] \notin {"none", "failed", "exited"} /\ pc'[t] \notin {"none", "failed"}
    BY DEF Run, Lock, Load, StoreLocked, StoreRacing, Unlock, Exit, Inv, TypeOK
  <2> QED BY <2>1, <2>2 DEF Phases, Joined
<1>2. CASE Lock(t) \/ Load(t) \/ Exit(t)
  <2>1. /\ UNCHANGED <<locks, cnt_local, cnt_global, stored>>
        /\ pc \in [Thread -> {"none", "failed", "loop", "locked", "loaded", "stored", "exited"}]
        /\ reg \in [Thread -> Nat] /\ cnt_global \in Nat
    BY <1>2 DEF Lock, Load, Exit, Inv, TypeOK
  <2>2. Places'
    BY <1>2, <2>1 DEF Lock, Load, Exit, Places
  <2>3. Small'
    BY <1>2, <2>1 DEF Lock, Load, Exit, Small
  <2>4. Incs' = Incs
    BY <1>2, <2>1 DEF Lock, Load, Exit, Incs, Done
  <2> QED BY <1>1, <2>1, <2>2, <2>3, <2>4 DEF SumInv
<1>3. CASE StoreLocked(t)
  <2> DEFINE x == <<t, cnt_local[t] + 1>>
  <2>1. Places' /\ Small'
    BY <1>3 DEF StoreLocked, NewValue, Places, Small, Inv, TypeOK
  <2>2. cnt_local[t] \in Nat /\ cnt_local[t] < NUM_INCREMENT
    BY <1>3 DEF StoreLocked, Inv, TypeOK, Owing
  <2>3. \A s \in Thread : Done(s)' = Done(s) + IF s = t THEN 1 ELSE 0
    BY <1>3 DEF StoreLocked, Done, Inv, TypeOK
  <2>4. Done(t) = cnt_local[t] /\ \A s \in Thread : Done(s) \in Nat
    BY <1>3 DEF StoreLocked, Done, Inv, TypeOK
  <2>5. Incs' = Incs \cup {x} /\ x \notin Incs
    <3> HIDE DEF Done
    <3> QED BY <2>2, <2>3, <2>4 DEF Incs
  <2>6. stored' = stored + 1
    BY <1>3 DEF StoreLocked
  <2> QED BY <1>1, <2>1, <2>5, <2>6, FS_AddElement DEF SumInv
<1>4. CASE StoreRacing(t)
  <2>1. PICK m \in Rounds(t) :
          /\ cnt_global' = NewValue(t, m)
          /\ reg' = [reg EXCEPT ![t] = NewValue(t, m)]
          /\ stored' = stored + m
          /\ cnt_local' = [cnt_local EXCEPT ![t] = @ + m]
    BY <1>4 DEF StoreRacing
  <2>2. m \in Nat /\ m >= 1 /\ m <= NUM_INCREMENT - cnt_local[t] /\ ~locks
    BY <1>4, <2>1 DEF Rounds, StoreRacing
  <2> DEFINE New == {t} \X (cnt_local[t] + 1 .. cnt_local[t] + m)
  <2>3. /\ cnt_local \in [Thread -> Nat] /\ reg \in [Thread -> Nat] /\ cnt_global \in Nat
        /\ pc \in [Thread -> {"none", "failed", "loop", "locked", "loaded", "stored", "exited"}]
    BY DEF Inv, TypeOK
  <2>4. /\ pc[t] = "loaded" /\ locks' = locks
        /\ \E next \in {"loop", "loaded"} : pc' = [pc EXCEPT ![t] = next]
    BY <1>4 DEF StoreRacing
  <2>5. cnt_global' = reg[t] + m /\ reg'[t] = reg[t] + m /\ cnt_local'[t] = cnt_local[t] + m
    BY <2>1, <2>3 DEF NewValue
  <2>6. \A s \in Thread \ {t} : reg'[s] = reg[s] /\ cnt_local'[s] = cnt_local[s] /\ pc'[s] = pc[s]
    BY <2>1, <2>3, <2>4
  <2>7. pc'[t] \in {"loop", "loaded"}
    BY <2>3, <2>4
  <2>8. Places'
    BY <2>2, <2>4, <2>6, <2>7 DEF Places
  <2>9. Small'
    <3>1. \A s \in Thread : cnt_local'[s] > 0 => cnt_global' >= 1
      BY <2>2, <2>3, <2>5
    <3>2. \A s \in Thread : pc'[s] = "loaded" /\ cnt_local'[s] > 0 => reg'[s] >= 1
      BY <2>2, <2>3, <2>5, <2>6 DEF Small
    <3>3. cnt_global' = 1 => cnt_local'[t] = 1
      BY <2>2, <2>3, <2>4, <2>5 DEF Small
    <3> QED BY <3>1, <3>2, <3>3 DEF Small
  <2>10. \A s \in Thread : Done(s) = cnt_local[s] /\ Done(s)' = cnt_local'[s]
    <3>1. \A s \in Thread : pc[s] # "stored" /\ pc'[s] # "stored"
      BY <2>2, <2>4, <2>6, <2>7 DEF Places
    <3>2. \A s \in Thread : cnt_local[s] \in Nat /\ cnt_local'[s] \in Nat
      BY <2>2, <2>3, <2>5, <2>6
    <3> QED BY <3>1, <3>2 DEF Done
  <2>11. Incs' = Incs \cup New /\ Incs \cap New = {}
    <3>1. \A s \in Thread, j \in 1 .. NUM_INCREMENT :
              <<s, j>> \in Incs' <=> <<s, j>> \in Incs \cup New
      <4> HIDE DEF Done
      <4> QED BY <2>2, <2>3, <2>5, <2>6, <2>10 DEF Incs
    <3>2. Incs \subseteq Thread \X (1 .. NUM_INCREMENT) /\ Incs' \subseteq Thread \X (1 .. NUM_INCREMENT)
      BY DEF Incs
    <3>3. New \subseteq Thread \X (1 .. NUM_INCREMENT)
      BY <2>2, <2>3
    <3>4. Incs \cap New = {}
      <4> HIDE DEF Done
      <4> QED BY <2>3, <2>10 DEF Incs
    <3> HIDE DEF New
    <3> QED BY <3>1, <3>2, <3>3, <3>4
  <2>12. IsFiniteSet(New) /\ Cardinality(New) = m
    <3>1. IsFiniteSet({t}) /\ Cardinality({t}) = 1
      BY FS_Singleton
    <3> DEFINE a == cnt_local[t] + 1
               b == cnt_local[t] + m
    <3>2. a \in Int /\ b \in Int /\ b - a + 1 = m /\ ~(a > b)
      BY <2>2, <2>3
    <3> HIDE DEF a, b
    <3>3. IsFiniteSet(a .. b) /\ Cardinality(a .. b) = m
      BY <3>2, FS_Interval
    <3>4. IsFiniteSet({t} \X (a .. b)) /\ Cardinality({t} \X (a .. b)) = 1 * m
      BY <3>1, <3>3, FS_Product
    <3> QED BY <2>2, <3>4 DEF a, b
  <2>13. SumInv'
    <3> HIDE DEF New
    <3>1. IsFiniteSet(Incs) /\ stored = Cardinality(Incs) /\ Cardinality(Incs) \in Nat
      BY FS_CardinalityType DEF SumInv
    <3>2. Cardinality(Incs \cap New) = 0
      BY <2>11, FS_EmptySet
    <3>3. IsFiniteSet(Incs \cup New) /\ Cardinality(Incs \cup New) = stored + m - 0
      BY <2>12, <3>1, <3>2, FS_Union
    <3> QED BY <2>1, <2>2, <2>11, <3>1, <3>3 DEF SumInv
  <2> QED BY <1>1, <2>8, <2>9, <2>13
<1>5. CASE Unlock(t)
  <2>1. Places'
    BY <1>5 DEF Unlock, Places, Inv, TypeOK
  <2>2. locks /\ stored >= 1 /\ cnt_global = stored
    <3>1. <<t, 1>> \in Incs
      BY <1>5 DEF Unlock, Incs, Done, Inv, TypeOK
    <3>2. Incs # {}
      BY <3>1
    <3> QED BY <1>5, <3>2, FS_EmptySet, FS_CardinalityType
            DEF SumInv, Unlock, Places, Inv, NothingLost
  <2>3. Small'
    BY <1>5, <2>2 DEF Unlock, Small, Inv, TypeOK
  <2>4. \A s \in Thread : Done(s)' = Done(s)
    BY <1>5 DEF Unlock, Done, Inv, TypeOK
  <2>5. Incs' = Incs /\ stored' = stored
    BY <1>5, <2>4 DEF Incs, Unlock
  <2> QED BY <1>1, <2>1, <2>3, <2>5 DEF SumInv
<1> QED BY <1>2, <1>3, <1>4, <1>5 DEF Run

(* Every increment that was stored is counted once, in every reachable     *)
(* state.                                                                  *)
LEMMA CountInvariant == Spec => []CountInv
<1>1. Inv /\ CountInv /\ [Next]_vars => CountInv'
  <2>1. ASSUME CountInv, UNCHANGED vars PROVE CountInv'
    BY <2>1 DEF vars, CountInv, Phases, Joined, Places, Small, SumInv, Incs, Done
  <2> QED BY <2>1, CountMain, CountThread DEF Next
<1> QED BY CountInit, CounterInvariant, <1>1, PTL DEF Spec

(* When main prints, the increments are those of the threads created. *)
LEMMA SumAtEnd ==
    ASSUME Inv, CountInv, main = "print"
    PROVE  stored = NUM_INCREMENT * Cardinality(Born)
<1> DEFINE J == 1 .. NUM_INCREMENT
<1>1. Incs = Born \X J
  <2>1. \A t \in Thread : Done(t) = IF t \in Born THEN NUM_INCREMENT ELSE 0
    BY CounterAssumption DEF CountInv, Phases, Places, Joined, Done, Born
  <2>2. Born \subseteq Thread
    BY DEF Born
  <2> HIDE DEF Done
  <2> QED BY <2>1, <2>2, CounterAssumption DEF Incs
<1>2. IsFiniteSet(Born) /\ Cardinality(Born) \in Nat
  <2>1. IsFiniteSet(Thread) /\ Born \in SUBSET Thread
    BY CounterAssumption, FS_Interval DEF Thread, Born
  <2> QED BY <2>1, FS_Subset, FS_CardinalityType
<1>3. IsFiniteSet(J) /\ Cardinality(J) = NUM_INCREMENT
  BY CounterAssumption, FS_Interval
<1> HIDE DEF J
<1>4. Cardinality(Incs) = Cardinality(Born) * NUM_INCREMENT
  BY <1>1, <1>2, <1>3, FS_Product
<1> QED BY <1>2, <1>4, CounterAssumption DEF CountInv, SumInv

(* With the mutex main prints the sum of what all created threads did      *)
(* (prac_mutex.cpp:15).                                                    *)
THEOREM SumIsExact == Spec => []ExactWithMutex
<1>1. Inv /\ CountInv => ExactWithMutex
  BY SumAtEnd DEF ExactWithMutex, Inv, NothingLost
<1> QED BY CounterInvariant, CountInvariant, <1>1, PTL

(* Without it main prints no more than the sum; and two increments per     *)
(* thread leave at least a 2 (prac_pthread.cpp:12).                        *)
THEOREM RaceIsBounded == Spec => []BoundsWithRace
<1>1. Inv /\ CountInv => BoundsWithRace
  <2> SUFFICES ASSUME Inv, CountInv, ~locks, main = "print"
               PROVE  /\ cnt_global <= NUM_INCREMENT * Cardinality(Born)
                      /\ Born # {} => cnt_global >= IF NUM_INCREMENT = 1 THEN 1 ELSE 2
    BY DEF BoundsWithRace
  <2>1. cnt_global <= NUM_INCREMENT * Cardinality(Born)
    BY SumAtEnd DEF Inv, NothingLost
  <2>2. cnt_global \in Nat
    BY DEF Inv, TypeOK
  <2>3. ASSUME NEW t \in Born
        PROVE  cnt_global >= 1
    BY CounterAssumption DEF CountInv, Phases, Places, Joined, Small, Born
  <2>4. NUM_INCREMENT >= 2 => cnt_global # 1
    BY CounterAssumption DEF CountInv, Phases, Places, Joined, Small
  <2> QED BY <2>1, <2>2, <2>3, <2>4, CounterAssumption
<1> QED BY CounterInvariant, CountInvariant, <1>1, PTL
=============================================================================
