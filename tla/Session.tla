------------------------------ MODULE Session ------------------------------
(***************************************************************************)
(* main of bpt3.c: the tables, the command that changes between them, and  *)
(* the end of input.  The commands on a table use the buffer pool: they    *)
(* are every sequence of the calls the tree's functions make.              *)
(***************************************************************************)
EXTENDS BufferPool

CONSTANTS Name    \* the names a user types; no file has two of them

VARIABLES
    pool,
    header,         \* header[t]: the frame header_page * points into
    string,         \* the names of the open tables; table_id[i] is i
    current_table,
    flag,
    phase,          \* where main is
    tmp_buf, last_buf,  \* locals of close_table
    asked           \* ghost: the name in the last c command

sessionVars == <<string, current_table, flag, asked>>
closeVars == <<tmp_buf, last_buf>>
vars == <<pool, header, sessionVars, phase, closeVars>>

last_table == Len(string)

Init ==
    /\ pool = init_db
    /\ header = [t \in Table |-> NULL]
    /\ \E s \in Name : string = <<s>> /\ asked = s
    /\ current_table = 1 /\ flag = 0
    /\ phase = "open"
    /\ tmp_buf = NULL /\ last_buf = NULL

-----------------------------------------------------------------------------
(* open_table for string[current_table]: an existing file, whose free page *)
(* and root are read after the header, or a new one.                       *)
t == current_table

(* Once a frame passes for a page it does not hold nothing is promised for *)
(* what the program does; it is not followed any further.                  *)
Alive == ~pool.segv /\ ~pool.harm

OpenTable ==
    /\ Alive /\ phase = "open"
    /\ pool' = buf_get_page(pool, <<t, 0>>)
    /\ header' = [header EXCEPT ![t] = Got(pool, <<t, 0>>)]
    /\ phase' \in {"freepage", "make_header"}
    /\ UNCHANGED <<sessionVars, closeVars>>

OpenFreePage ==
    /\ Alive /\ phase = "freepage"
    /\ \E n \in PageNum : pool' = buf_get_page(pool, <<t, n>>)
    /\ phase' = "root"
    /\ UNCHANGED <<header, sessionVars, closeVars>>

OpenRoot ==
    /\ Alive /\ phase = "root"
    /\ \E n \in PageNum : pool' = buf_get_page(pool, <<t, n>>)
    /\ phase' = "prompt"
    /\ UNCHANGED <<header, sessionVars, closeVars>>

-----------------------------------------------------------------------------
(* The calls of the tree's functions, in any order.  A page is named by a  *)
(* pointer to its frame, and it is changed while it is pinned or directly  *)
(* before it is marked and put.                                            *)
AtPrompt == Alive /\ phase = "prompt" /\ UNCHANGED <<header, sessionVars, phase, closeVars>>
Mine == {f \in Frame : pool.shows[f][1] = t}

Get == AtPrompt /\ \E n \in PageNum : pool' = buf_get_page(pool, <<t, n>>)

Change == AtPrompt /\ \E f \in Mine : pool.is_pinned[f] /\ pool' = Changed(pool, f)

Put == AtPrompt /\ \E f \in Mine : pool' = buf_put_page(pool, t, f)

(* A change with its mark and its put; the mark is what this can forget.   *)
Saved(f) == buf_put_page(Marked(Changed(pool, f), <<t, pool.shows[f][2]>>), t, f)

Update == AtPrompt /\ \E f \in Mine : pool' = Saved(f)

Alloc == AtPrompt /\ pool' = buf_alloc_page(pool, t, header[t])

Free ==
    AtPrompt /\ \E f \in Mine : pool' = buf_free_page(pool, t, header[t], pool.shows[f])

(* make_header of a new file, and the updates of root_offset. *)
UpdateHeader ==
    /\ Alive /\ phase \in {"make_header", "prompt"} /\ phase' = "prompt"
    /\ pool' = [Saved(header[t]) EXCEPT !.harm = @ \/ ~HeaderThere(pool, t, header[t])]
    /\ UNCHANGED <<header, sessionVars, closeVars>>

-----------------------------------------------------------------------------
(* Command c.  It compares the name with those of the open tables: a file  *)
(* is known by the name it was opened with.  flag says that the name was   *)
(* found and is never reset; the arrays are too small for one table more   *)
(* than TABLE_COUNT.                                                       *)
Known(s) == {k \in 1 .. last_table : string[k] = s}

(* Mutant: only the flag is set. *)
SwitchFlagOnly(s) ==
    /\ Known(s) # {} /\ flag' = 1
    /\ UNCHANGED <<string, current_table, phase>>

SwitchTable(s) ==
    /\ Known(s) # {}
    /\ current_table' \in Known(s) /\ flag' = 1
    /\ UNCHANGED <<string, phase>>

OpenAnother(s) ==
    /\ Known(s) = {} /\ flag # 1
    /\ string' = Append(string, s) /\ current_table' = last_table + 1
    /\ phase' = IF last_table < TABLE_COUNT THEN "open" ELSE "corrupt"
    /\ UNCHANGED flag

StayPut(s) ==
    /\ Known(s) = {} /\ flag = 1
    /\ UNCHANGED <<string, current_table, flag, phase>>

ChangeFile ==
    /\ Alive /\ phase = "prompt"
    /\ \E s \in Name : asked' = s /\ (SwitchTable(s) \/ OpenAnother(s) \/ StayPut(s))
    /\ UNCHANGED <<pool, header, closeVars>>

Quit ==
    /\ Alive /\ phase = "prompt" /\ phase' = "exited"
    /\ UNCHANGED <<pool, header, sessionVars, closeVars>>

(* The end of input closes the first table, and starts at buf[0], which is *)
(* rarely the first of the list.                                           *)
ListEnd(s) == CHOOSE f \in Frame : s.next_of_LRU[f] = NULL

EndOfInput ==
    /\ Alive /\ phase = "prompt" /\ phase' = "close"
    /\ tmp_buf' = 1 /\ last_buf' = ListEnd(pool)
    /\ UNCHANGED <<pool, header, sessionVars>>

(* One round of close_table's loop, which links the list to itself. *)
CloseRound ==
    /\ phase = "close" /\ pool.next_of_LRU[tmp_buf] # NULL
    /\ LET next == [pool.next_of_LRU EXCEPT ![last_buf] = tmp_buf]
           mine == pool.tag[tmp_buf][1] = 1 /\ pool.is_dirty[tmp_buf]
       IN  /\ pool' = [pool EXCEPT !.next_of_LRU = next,
                                   !.bytes[tmp_buf] = IF mine THEN "saved" ELSE @]
           /\ last_buf' = tmp_buf /\ tmp_buf' = next[tmp_buf]
    /\ UNCHANGED <<header, sessionVars, phase>>

(* free(tmp_buf); free(last_buf): twice the same frame is an abort. *)
CloseEnd ==
    /\ phase = "close" /\ pool.next_of_LRU[tmp_buf] = NULL
    /\ phase' = IF tmp_buf = last_buf THEN "aborted" ELSE "exited"
    /\ UNCHANGED <<pool, header, sessionVars, closeVars>>

Open == OpenTable \/ OpenFreePage \/ OpenRoot
Call == Get \/ Change \/ Put \/ Update \/ Alloc \/ Free \/ UpdateHeader
Close == EndOfInput \/ CloseRound \/ CloseEnd
Next == Open \/ Call \/ ChangeFile \/ Quit \/ Close

(* close_table is straight-line code: once it runs it takes its next step. *)
Spec == Init /\ [][Next]_vars
FairSpec == Spec /\ WF_vars(CloseRound \/ CloseEnd)

-----------------------------------------------------------------------------
TypeOK ==
    /\ pool \in PoolState
    /\ header \in [Table -> Frame \cup {NULL}]
    /\ string \in Seq(Name) /\ current_table \in 1 .. TABLE_COUNT + 1 /\ flag \in {0, 1}
    /\ phase \in {"open", "freepage", "root", "make_header", "prompt", "close",
                  "exited", "aborted", "corrupt"}

(* A frame is reused without being written, yet no marked change is lost:  *)
(* what is marked and not written yet is pinned.                           *)
DirtyIsPinned == \A f \in Frame : pool.is_dirty[f] => pool.is_pinned[f]

(* So no change is lost but those that were put without a mark.            *)
LostOnlyUnmarked == pool.harm \/ ~pool.lost

(* Until a page is freed, or a header is used whose frame was reused, a    *)
(* frame has the bytes of the page it passes for.                          *)
FramesShowTheirPage == pool.harm \/ pool.shows = pool.tag

(* NULL is dereferenced only when every frame is pinned.                   *)
CrashesOnlyWhenFull == pool.segv => pool.harm \/ \A f \in Frame : pool.is_pinned[f]

(* The current table has the name that was asked for, unless the program   *)
(* had already come back to a table once and no table has that name.       *)
FollowsChange == string[current_table] = asked \/ (flag = 1 /\ Known(asked) = {})

(* A page of what is open under one name is never in two frames, whatever  *)
(* was got, reused, freed and changed to and however the list was          *)
(* relinked: two frames would be two versions of the page, and the one     *)
(* written last would win.                                                 *)
OneFramePerPage ==
    \A j, k \in 1 .. last_table, n \in PageNum, f, g \in Frame :
        /\ string[j] = string[k]
        /\ pool.tag[f] = <<j, n>> /\ pool.tag[g] = <<k, n>>
        => f = g

(* The doubly linked list behaves like the frames in order of last use.    *)
LRU == INSTANCE LRUPool WITH
    order  <- Chain(pool.next_of_LRU, pool.first_buf),
    tag    <- pool.tag,
    pinned <- pool.is_pinned

ImplementsLRUPool == LRU!Init /\ [][phase = "close" \/ LRU!Step]_(LRU!lruVars)

(* usage: "q -- Quit. (Or use Ctl-D.)" (bpt3.c:29).                        *)
EndOfInputEnds == (phase = "close") ~> (phase = "exited")
=============================================================================
