------------------------------ MODULE Counter ------------------------------
(***************************************************************************)
(* The two thread exercises: threads that increment the global counter     *)
(* with the mutex (prac_mutex.cpp) and without it (prac_pthread.cpp).      *)
(***************************************************************************)
EXTENDS Integers, FiniteSets

CONSTANTS
    NUM_THREADS,
    NUM_INCREMENT

ASSUME CounterAssumption == NUM_THREADS \in Nat \ {0} /\ NUM_INCREMENT \in Nat \ {0}

Thread == 1 .. NUM_THREADS

VARIABLES
    locks,       \* TRUE: prac_mutex.cpp, FALSE: prac_pthread.cpp
    main, i,     \* main and its loop variable
    pc,          \* where each thread is
    reg,         \* the register through which a thread changes cnt_global
    cnt_local,
    mutex,       \* its holder, 0 if free
    cnt_global,
    stored       \* ghost: increments stored so far

vars == <<locks, main, i, pc, reg, cnt_local, mutex, cnt_global, stored>>
mains == <<locks, main, i>>

Init ==
    /\ locks \in BOOLEAN
    /\ main = "create" /\ i = 1
    /\ pc = [t \in Thread |-> "none"]
    /\ reg = [t \in Thread |-> 0] /\ cnt_local = [t \in Thread |-> 0]
    /\ mutex = 0 /\ cnt_global = 0 /\ stored = 0

-----------------------------------------------------------------------------
(* One round of a loop of main over the threads, then the next phase.      *)
Round(after) == IF i = NUM_THREADS THEN main' = after /\ i' = 1
                ELSE i' = i + 1 /\ UNCHANGED main

(* pthread_create reports an error by a positive number, which main takes  *)
(* for success.                                                            *)
Create ==
    /\ main = "create"
    /\ \E how \in {"loop", "failed"} : pc' = [pc EXCEPT ![i] = how]
    /\ Round("join")
    /\ UNCHANGED <<locks, reg, cnt_local, mutex, cnt_global, stored>>

Join ==
    /\ main = "join"
    /\ pc[i] = "exited"
    /\ Round("print")
    /\ UNCHANGED <<locks, pc, reg, cnt_local, mutex, cnt_global, stored>>

(* pthread_join of a variable that was never set fails or crashes. *)
JoinNobody ==
    /\ main = "join"
    /\ pc[i] = "failed"
    /\ \/ Round("print")
       \/ main' = "crashed" /\ UNCHANGED i
    /\ UNCHANGED <<locks, pc, reg, cnt_local, mutex, cnt_global, stored>>

Running == main \in {"create", "join"}

(* Mutant: nobody looks whether the mutex is free. *)
LockAnyway(t) ==
    /\ Running /\ locks
    /\ pc[t] = "loop" /\ cnt_local[t] < NUM_INCREMENT
    /\ mutex' = t
    /\ pc' = [pc EXCEPT ![t] = "locked"]
    /\ UNCHANGED <<mains, reg, cnt_local, cnt_global, stored>>

Lock(t) ==
    /\ Running /\ locks
    /\ pc[t] = "loop" /\ cnt_local[t] < NUM_INCREMENT
    /\ mutex = 0
    /\ mutex' = t
    /\ pc' = [pc EXCEPT ![t] = "locked"]
    /\ UNCHANGED <<mains, reg, cnt_local, cnt_global, stored>>

(* First half of cnt_global++. *)
Load(t) ==
    /\ Running
    /\ pc[t] = (IF locks THEN "locked" ELSE "loop") /\ cnt_local[t] < NUM_INCREMENT
    /\ reg' = [reg EXCEPT ![t] = cnt_global]
    /\ pc' = [pc EXCEPT ![t] = "loaded"]
    /\ UNCHANGED <<mains, cnt_local, mutex, cnt_global, stored>>

(* Mutant: the loop runs on. *)
RoundsTooMany(t) == 1 .. IF locks THEN 1 ELSE NUM_INCREMENT
(* The increments one store may stand for: without the mutex the counter   *)
(* is a data race, and a build may keep it in a register for several.      *)
Rounds(t) == 1 .. IF locks THEN 1 ELSE NUM_INCREMENT - cnt_local[t]

(* Mutant: the old value is stored. *)
OldValue(t, m) == reg[t]
NewValue(t, m) == reg[t] + m

(* Second half of cnt_global++, with the lock held. *)
StoreLocked(t) ==
    /\ Running /\ locks
    /\ pc[t] = "loaded"
    /\ cnt_global' = NewValue(t, 1)
    /\ stored' = stored + 1
    /\ pc' = [pc EXCEPT ![t] = "stored"]
    /\ UNCHANGED <<mains, reg, cnt_local, mutex>>

(* The same without a lock, and cnt_local++; the register may live on. *)
StoreRacing(t) ==
    /\ Running /\ ~locks
    /\ pc[t] = "loaded"
    /\ \E m \in Rounds(t) :
          /\ cnt_global' = NewValue(t, m)
          /\ reg' = [reg EXCEPT ![t] = NewValue(t, m)]
          /\ stored' = stored + m
          /\ cnt_local' = [cnt_local EXCEPT ![t] = @ + m]
    /\ \E next \in {"loop", "loaded"} :
          /\ next = "loaded" => cnt_local'[t] < NUM_INCREMENT
          /\ pc' = [pc EXCEPT ![t] = next]
    /\ UNCHANGED <<mains, mutex>>

(* Mutant: the mutex is not given back. *)
UnlockForgotten(t) ==
    /\ Running
    /\ pc[t] = "stored"
    /\ cnt_local' = [cnt_local EXCEPT ![t] = @ + 1]
    /\ pc' = [pc EXCEPT ![t] = "loop"]
    /\ UNCHANGED <<mains, reg, mutex, cnt_global, stored>>

(* pthread_mutex_unlock and cnt_local++. *)
Unlock(t) ==
    /\ Running
    /\ pc[t] = "stored"
    /\ mutex' = 0
    /\ cnt_local' = [cnt_local EXCEPT ![t] = @ + 1]
    /\ pc' = [pc EXCEPT ![t] = "loop"]
    /\ UNCHANGED <<mains, reg, cnt_global, stored>>

Exit(t) ==
    /\ Running
    /\ pc[t] = "loop" /\ cnt_local[t] = NUM_INCREMENT
    /\ pc' = [pc EXCEPT ![t] = "exited"]
    /\ UNCHANGED <<mains, reg, cnt_local, mutex, cnt_global, stored>>

Run(t) == Lock(t) \/ Load(t) \/ StoreLocked(t) \/ StoreRacing(t) \/ Unlock(t) \/ Exit(t)
Main == Create \/ Join \/ JoinNobody
Next == Main \/ \E t \in Thread : Run(t)

(* The scheduler forgets no thread.  A waiting thread gets the mutex in    *)
(* the end because the others need it a bounded number of times.           *)
Spec == Init /\ [][Next]_vars
FairSpec == Spec /\ WF_vars(Main) /\ \A t \in Thread : WF_vars(Run(t))

-----------------------------------------------------------------------------
Born == {t \in Thread : pc[t] \notin {"none", "failed"}}

TypeOK ==
    /\ locks \in BOOLEAN
    /\ main \in {"create", "join", "print", "crashed"} /\ i \in Thread
    /\ pc \in [Thread -> {"none", "failed", "loop", "locked", "loaded", "stored", "exited"}]
    /\ reg \in [Thread -> Nat]
    /\ cnt_local \in [Thread -> 0 .. NUM_INCREMENT]
    /\ mutex \in 0 .. NUM_THREADS
    /\ cnt_global \in Nat /\ stored \in Nat

(* The counter never gets ahead of the increments made, and with the mutex *)
(* none is lost on the way from load to store.                             *)
NothingLost == cnt_global <= stored /\ (locks => cnt_global = stored)

(* So with the mutex main prints the sum of the local counts of all the    *)
(* threads that were created.                                              *)
ExactWithMutex ==
    locks /\ main = "print" => cnt_global = NUM_INCREMENT * Cardinality(Born)

(* Without it main prints at most that sum, and at least 2 if two threads  *)
(* increment twice -- but no more than 2 for certain.                      *)
BoundsWithRace ==
    ~locks /\ main = "print" =>
        /\ cnt_global <= NUM_INCREMENT * Cardinality(Born)
        /\ Born # {} => cnt_global >= IF NUM_INCREMENT = 1 THEN 1 ELSE 2

(* main does not wait for ever: every thread gets the mutex as often as it *)
(* needs it, and a thread that was not created is not waited for.          *)
Ends == <>(main \in {"print", "crashed"})
=============================================================================
