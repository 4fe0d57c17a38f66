----------------------------- MODULE Dictionary -----------------------------
(***************************************************************************)
(* What a database file promises to the user of the prompt: a set of keys  *)
(* that an "i" command enlarges by its key and a "d" command reduces by    *)
(* its key, in the step that takes the command; until the next command     *)
(* nothing changes.  Once broken, it promises nothing any more.            *)
(***************************************************************************)
CONSTANT Key

VARIABLES
    content,
    running,    \* the command that is executed
    broken

vars == <<content, running, broken>>

Idle == [kind |-> "none", key |-> 0]
Command == {Idle} \cup [kind : {"insert", "delete"}, key : Key]

Init == content = {} /\ running = Idle /\ broken = FALSE

Intact == ~broken /\ ~broken'

Insert(k) ==
    /\ Intact
    /\ running' = [kind |-> "insert", key |-> k]
    /\ k \notin content
    /\ content' = content \cup {k}

Delete(k) ==
    /\ Intact
    /\ running' = [kind |-> "delete", key |-> k]
    /\ k \in content
    /\ content' = content \ {k}

Return ==
    /\ Intact
    /\ running' = Idle
    /\ UNCHANGED content

Break ==
    /\ broken'
    /\ running' \in Command
    /\ content' \in SUBSET Key

Next == (\E k \in Key : Insert(k) \/ Delete(k)) \/ Return \/ Break

Spec == Init /\ [][Next]_vars
=============================================================================
