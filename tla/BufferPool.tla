---------------------------- MODULE BufferPool -----------------------------
(***************************************************************************)
(* The buffer pool of bpt3.c, as operators on its state s: the frames, the *)
(* doubly linked list in order of last use, pins and dirty marks.  A page  *)
(* is <<table, number>>; of its bytes the model keeps whose they are       *)
(* (shows) and whether the file has the same ones (bytes).                 *)
(***************************************************************************)
EXTENDS Integers, Sequences, FiniteSets

CONSTANTS
    BUFFER_SIZE,
    TABLE_COUNT,  \* the tables that header[] and root[] have room for
    MaxPage       \* bound of the model

ASSUME PoolAssumption ==
    BUFFER_SIZE \in Nat /\ BUFFER_SIZE >= 2 /\ TABLE_COUNT \in Nat \ {0} /\ MaxPage \in Nat

NULL == 0
Frame == 1 .. BUFFER_SIZE
Table == 1 .. TABLE_COUNT
PageNum == 0 .. MaxPage
Page == Table \X PageNum
NoPage == <<0, 0>>    \* calloc: no table is 0

(* The fields of buffer_t by frame, and the ends of the list. *)
PoolState ==
    [tag : [Frame -> Page \cup {NoPage}], shows : [Frame -> Page \cup {NoPage}],
     bytes : [Frame -> {"saved", "changed", "unmarked"}],
     is_dirty : [Frame -> BOOLEAN], is_pinned : [Frame -> BOOLEAN],
     next_of_LRU : [Frame -> Frame \cup {NULL}], prev_of_LRU : [Frame -> Frame \cup {NULL}],
     first_buf : Frame, last_buf : Frame,
     segv : BOOLEAN, lost : BOOLEAN, harm : BOOLEAN]

(* init_db.  bytes: "saved", "changed", or "unmarked" when a change was put *)
(* that was not marked.  Ghosts: lost, a changed page was overwritten;      *)
(* harm, a frame was given the bytes of another page than its tag's.        *)
init_db ==
    [tag |-> [f \in Frame |-> NoPage], shows |-> [f \in Frame |-> NoPage],
     bytes |-> [f \in Frame |-> "saved"],
     is_dirty |-> [f \in Frame |-> FALSE], is_pinned |-> [f \in Frame |-> FALSE],
     next_of_LRU |-> [f \in Frame |-> IF f = BUFFER_SIZE THEN NULL ELSE f + 1],
     prev_of_LRU |-> [f \in Frame |-> f - 1],
     first_buf |-> 1, last_buf |-> BUFFER_SIZE,
     segv |-> FALSE, lost |-> FALSE, harm |-> FALSE]

(* The frames met on the way from start along the pointers link. *)
Chain(link, start) ==
    LET nth[k \in Frame] ==
          IF k = 1 THEN start
          ELSE LET f == nth[k - 1] IN IF f = NULL THEN NULL ELSE link[f]
    IN  nth

(* while (f != NULL && f is not in S) f = link[f] *)
FirstOf(link, start, S) ==
    LET Step(f) == IF f = NULL \/ f \in S THEN f ELSE link[f]
        seen[k \in 0 .. BUFFER_SIZE] == IF k = 0 THEN start ELSE Step(seen[k - 1])
        Result(f) == IF f \in S THEN f ELSE NULL
    IN  Result(seen[BUFFER_SIZE])

(* Mutant: the loop ends before it compares the frame without a previous. *)
buf_find_frameButFirst(s, p) ==
    FirstOf(s.prev_of_LRU, s.last_buf, {f \in Frame \ {s.first_buf} : s.tag[f] = p})

buf_find_frame(s, p) ==
    FirstOf(s.prev_of_LRU, s.last_buf, {f \in Frame : s.tag[f] = p})

(* Mutant: pinned frames are reused. *)
VictimAnyFrame(s) == s.first_buf

(* The search for a frame to reuse has no end test: NULL is dereferenced   *)
(* when every frame is pinned.                                             *)
Victim(s) ==
    FirstOf(s.next_of_LRU, s.first_buf, {f \in Frame : ~s.is_pinned[f]})

Crash(s) == [s EXCEPT !.segv = TRUE]

(* file_read_page into a frame. *)
Read(s, f, p) ==
    [s EXCEPT !.shows[f] = p, !.bytes[f] = "saved",
              !.lost = @ \/ s.bytes[f] = "changed"]

(* Mutant: the last frame is not excepted. *)
MoveLastToo(s, f) ==
    LET nx == s.next_of_LRU[f]
    IN  [s EXCEPT !.next_of_LRU = [@ EXCEPT ![s.last_buf] = f, ![f] = NULL],
                  !.first_buf = nx, !.last_buf = f]

(* Mutant: the frame behind it keeps its pointer to it. *)
MoveOneWay(s, f) ==
    LET nx == s.next_of_LRU[f]
        pv == s.prev_of_LRU[f]
    IN  IF nx # NULL /\ pv # NULL
        THEN [s EXCEPT !.prev_of_LRU[f] = s.last_buf,
                       !.next_of_LRU = [@ EXCEPT ![pv] = nx, ![s.last_buf] = f, ![f] = NULL],
                       !.last_buf = f]
        ELSE s

(* Unlinks a frame and puts it at the end, unless it is there already. *)
MoveToEnd(s, f) ==
    LET nx == s.next_of_LRU[f]
        pv == s.prev_of_LRU[f]
    IN  IF nx # NULL /\ pv # NULL
        THEN [s EXCEPT !.prev_of_LRU = [@ EXCEPT ![nx] = pv, ![f] = s.last_buf],
                       !.next_of_LRU = [@ EXCEPT ![pv] = nx, ![s.last_buf] = f, ![f] = NULL],
                       !.last_buf = f]
        ELSE IF pv = NULL
        THEN [s EXCEPT !.prev_of_LRU = [@ EXCEPT ![nx] = NULL, ![f] = s.last_buf],
                       !.next_of_LRU = [@ EXCEPT ![s.last_buf] = f, ![f] = NULL],
                       !.first_buf = nx, !.last_buf = f]
        ELSE s

Pin(s, f) == [s EXCEPT !.is_pinned[f] = TRUE]

(* Mutant: it still passes for the old page. *)
ReuseKeepsTag(s, f, p) == [Read(s, f, p) EXCEPT !.is_dirty[f] = FALSE]

(* A frame that is reused is marked clean and not written. *)
Reuse(s, f, p) == [Read(s, f, p) EXCEPT !.tag[f] = p, !.is_dirty[f] = FALSE]

buf_get_page(s, p) ==
    LET Used(u, f) == MoveToEnd(Pin(u, f), f)
        Miss(f) == IF f = NULL THEN Crash(s) ELSE Used(Reuse(s, f, p), f)
        Hit(f) == IF f # NULL THEN Used(s, f) ELSE Miss(Victim(s))
    IN  Hit(buf_find_frame(s, p))

(* The frame through which the caller uses page p after buf_get_page(p). *)
Got(s, p) == buf_find_frame(buf_get_page(s, p), p)

(* The caller changes bytes of a page. *)
Changed(s, f) == [s EXCEPT !.bytes[f] = "changed"]

(* buf_find_frame with flag 1. *)
Marked(s, p) ==
    LET f == buf_find_frame(s, p) IN IF f = NULL THEN s ELSE [s EXCEPT !.is_dirty[f] = TRUE]

(* Mutant: as if is_pinned were a bool that is set and reset. *)
FlippedToFalse(pin) == FALSE

(* is_pinned-- on a bool turns it over. *)
Flipped(pin) == ~pin

(* Mutant: only the pin is taken back. *)
PutWithoutWriting(s, t, src) ==
    LET f == buf_find_frame(s, <<t, s.shows[src][2]>>)
    IN  IF f = NULL THEN Crash(s) ELSE [s EXCEPT !.is_pinned[f] = Flipped(@)]

(* buf_put_page(t, src->offset, src). *)
buf_put_page(s, t, src) ==
    LET Done(f, u) ==
            IF f = NULL THEN Crash(s)
            ELSE IF ~u.is_pinned[f] /\ s.is_dirty[f]
            THEN [u EXCEPT !.bytes[src] = "saved", !.is_dirty[f] = FALSE]
            ELSE IF s.bytes[f] = "changed" /\ ~s.is_dirty[f]
            THEN [u EXCEPT !.bytes[f] = "unmarked"]
            ELSE u
        Put(f) == Done(f, [s EXCEPT !.is_pinned[f] = Flipped(@)])
    IN  Put(buf_find_frame(s, <<t, s.shows[src][2]>>))

(* header[t] still points at the header page. *)
HeaderThere(s, t, h) == s.shows[h] = <<t, 0>>

(* file_alloc_page and file_free_page change header[t] and write it. *)
HeaderWritten(s, t, h) == [s EXCEPT !.bytes[h] = IF s.shows[h][1] = t THEN "saved" ELSE "changed"]

(* What buf_alloc_page and buf_free_page begin with: the frame they take   *)
(* for the header's, which they fill without giving it a new tag.          *)
HeaderFrame(s, p) == IF buf_find_frame(s, p) # NULL THEN buf_find_frame(s, p) ELSE Victim(s)

buf_alloc_page(s, t, h) ==
    LET p == <<t, s.shows[h][2]>>
        Fetched(b) == IF buf_find_frame(s, p) = NULL THEN Read(s, b, p)
                      ELSE IF s.is_dirty[b] THEN [s EXCEPT !.bytes[b] = "saved"] ELSE s
        Done(b) == IF b = NULL THEN Crash(s)
                   ELSE [HeaderWritten(Fetched(b), t, h) EXCEPT
                            !.harm = @ \/ ~HeaderThere(s, t, h)]
    IN  Done(HeaderFrame(s, p))

(* buf_free_page looks for the page instead of the header, and leaves the  *)
(* header's bytes in that page's frame.                                    *)
buf_free_page(s, t, h, p) ==
    LET hp == <<t, s.shows[h][2]>>
        b  == HeaderFrame(s, p)
        u  == IF buf_find_frame(s, p) = NULL THEN Read(s, b, hp) ELSE s
    IN  IF b = NULL THEN Crash(s)
        ELSE [Read(HeaderWritten(u, t, h), b, hp) EXCEPT !.harm = TRUE]
=============================================================================
