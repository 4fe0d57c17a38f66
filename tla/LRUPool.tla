------------------------------ MODULE LRUPool ------------------------------
(***************************************************************************)
(* What the buffer pool of bpt3.c is meant to be: frames in the order of   *)
(* their last use, without pointers.                                       *)
(***************************************************************************)
EXTENDS Naturals, Sequences

CONSTANTS
    Frame,
    Page,
    NoPage    \* the tag of a frame that was never used

VARIABLES
    order,    \* the frames, the one used last at the end
    tag,      \* the page each frame is for
    pinned

lruVars == <<order, tag, pinned>>

Init ==
    /\ order \in Seq(Frame)
    /\ \A f \in Frame : \E k \in DOMAIN order : order[k] = f
    /\ \A j, k \in DOMAIN order : order[j] = order[k] => j = k
    /\ tag = [f \in Frame |-> NoPage]
    /\ pinned = [f \in Frame |-> FALSE]

(* The frames behind f move up one place. *)
ToEnd(f) ==
    \E i \in DOMAIN order :
        /\ order[i] = f
        /\ order' = [k \in DOMAIN order |-> IF k < i THEN order[k]
                                          ELSE IF k < Len(order) THEN order[k + 1] ELSE f]

(* A page that is in the pool. *)
Use(f) ==
    /\ tag[f] # NoPage
    /\ ToEnd(f)
    /\ pinned' = [pinned EXCEPT ![f] = TRUE]
    /\ UNCHANGED tag

(* Any other page takes the unpinned frame that was not used for longest. *)
Load(p) ==
    /\ \A f \in Frame : tag[f] # p
    /\ \E k \in DOMAIN order :
          /\ ~pinned[order[k]] /\ \A j \in 1 .. k - 1 : pinned[order[j]]
          /\ ToEnd(order[k])
          /\ tag' = [tag EXCEPT ![order[k]] = p]
          /\ pinned' = [pinned EXCEPT ![order[k]] = TRUE]

(* buf_put_page takes a pin back -- or pins a frame that was not pinned.   *)
Release(f) ==
    /\ tag[f] # NoPage
    /\ pinned' = [pinned EXCEPT ![f] = ~@]
    /\ UNCHANGED <<order, tag>>

Step == (\E f \in Frame : Use(f) \/ Release(f)) \/ (\E p \in Page : Load(p))
=============================================================================
