----------------------------- MODULE PooledTree -----------------------------
(***************************************************************************)
(* bpt3.c as a whole: the tree's functions on the buffer pool, the tables, *)
(* and the commands of main, with the bytes of pages in frames and files.  *)
(*                                                                         *)
(* A pointer to a page is the number of its frame, and what it points to   *)
(* is whatever the frame holds when it is used.  A command is a function   *)
(* from a state record s to another, composed of local operators on states *)
(* v, the steps between two calls; after a fatal end they have no effect.  *)
(* Every file is opened under one name, and a table is named by its file.  *)
(***************************************************************************)
EXTENDS BufferPool

CONSTANTS
    LeafOrder, InternalOrder, Key,
    IntMod, KeyMod,
    MaxRecords,     \* bound: keys in all files
    Sought          \* bound: the keys of find commands

VARIABLES
    s,              \* memory and files: see Started
    proc,           \* "down", "up", or "undefined" from where it is not followed
    current_table,
    flag,
    opened,         \* the tables of this process
    typed           \* ghost: the keys of the "i" commands for each table

vars == <<s, proc, current_table, flag, opened, typed>>

N == INSTANCE Node

(* header_page overlays page_t: free_offset is parent, root_offset is leaf *)
(* and n; num_pages lies in the reserved bytes of a node and stays there.  *)
(* Values are short: the keys of an internal page, which overlay the end   *)
(* of a leaf's first value, find zeros there.                              *)
Blank == [parent |-> 0, leaf |-> FALSE, n |-> 0, key |-> N!ZeroPage.key,
          off |-> N!ZeroPage.off, root |-> 0, num |-> 0]

(* A file is the sequence of its pages.  ret is the frame a function       *)
(* returned, new a page number; ghosts: touched, the pages this process    *)
(* asked for; stale, a frame was reused that a pointer still points to.    *)
Started(files, disk) ==
    [pool |-> init_db, data |-> [f \in Frame |-> Blank],
     header |-> [t \in Table |-> NULL], root |-> [t \in Table |-> NULL],
     files |-> files, disk |-> disk, end |-> "ok",
     ret |-> NULL, new |-> 0, touched |-> {}, stale |-> FALSE]

Stop(u, how) == IF u.end = "ok" THEN [u EXCEPT !.end = how] ELSE u

(* page->offset; root[t] of a table without a tree may be a private page.  *)
Off(u, f) == IF f = NULL THEN 0 ELSE u.pool.shows[f][2]
Root(u, t) == Off(u, u.root[t])

-----------------------------------------------------------------------------
(* The file manager.  read() behind the end of a file leaves the           *)
(* destination as it is; write() fills a gap with zeros.                   *)
file_read_page(u, t, n, dest) == IF n < Len(u.disk[t]) THEN u.disk[t][n + 1] ELSE dest

(* Mutant: the file was opened with O_APPEND. *)
file_write_pageAppends(u, t, n, src) == [u EXCEPT !.disk[t] = Append(@, src)]

file_write_page(u, t, n, src) ==
    LET old == u.disk[t]
        size == IF n < Len(old) THEN Len(old) ELSE n + 1
    IN  [u EXCEPT !.disk[t] = [i \in 1 .. size |->
            IF i = n + 1 THEN src ELSE IF i <= Len(old) THEN old[i] ELSE Blank]]

(* file_alloc_page: the pool's header page, or what lies there by now. *)
AllocFromFile(u, t) ==
    LET h == u.header[t]
        free == u.data[h].parent
        Counted(n, next) ==
            [u.data[h] EXCEPT !.num = n, !.parent = IF next # 0 THEN next ELSE n]
        Written(c) ==
            IF c.num > MaxPage THEN Stop(u, "full")
            ELSE [file_write_page(u, t, Off(u, h), c) EXCEPT !.data[h] = c, !.new = free]
    IN  IF u.end # "ok" THEN u
        ELSE Written(Counted(u.data[h].num + 1, file_read_page(u, t, free, Blank).parent))

-----------------------------------------------------------------------------
(* The calls of the pool (BufferPool.tla) with the bytes they move.        *)

Pointers(u) == {u.header[t] : t \in Table} \cup {u.root[t] : t \in Table}

(* The frame that buf_get_page returns is the last one of the list by now. *)
Get(u, t, n) ==
    LET p == <<t, n>>
        Used(pool) == [u EXCEPT !.pool = pool, !.ret = pool.last_buf, !.touched = @ \cup {p}]
        Loaded(v) == [v EXCEPT !.data[v.ret] = file_read_page(u, t, n, @),
                               !.stale = @ \/ v.ret \in Pointers(u)]
        Filled(v) == IF v.pool.segv THEN Stop(v, "segv")
                     ELSE IF buf_find_frame(u.pool, p) = NULL THEN Loaded(v) ELSE v
    IN  IF u.end # "ok" THEN u ELSE Filled(Used(buf_get_page(u.pool, p)))

Store(u, f, c) ==
    IF u.end # "ok" THEN u ELSE [u EXCEPT !.data[f] = c, !.pool = Changed(@, f)]

Mark(u, t, f) == IF u.end # "ok" THEN u ELSE [u EXCEPT !.pool = Marked(@, <<t, Off(u, f)>>)]

(* buf_put_page(t, page->offset, page). *)
Put(u, t, f) ==
    LET Written(v, g) ==
            IF g = NULL THEN Stop(v, "segv")
            ELSE IF u.pool.is_pinned[g] /\ u.pool.is_dirty[g]
            THEN file_write_page(v, t, Off(u, f), u.data[f])
            ELSE v
    IN  IF u.end # "ok" THEN u
        ELSE Written([u EXCEPT !.pool = buf_put_page(@, t, f)],
                     buf_find_frame(u.pool, <<t, Off(u, f)>>))

(* buf_alloc_page. *)
Alloc(u, t) ==
    LET h == u.header[t]
        p == <<t, Off(u, h)>>
        Fetched(v, b) ==
            IF b = NULL THEN Stop(v, "segv")
            ELSE IF buf_find_frame(u.pool, p) = NULL
            THEN [v EXCEPT !.data[b] = file_read_page(u, t, p[2], @),
                           !.stale = @ \/ b \in Pointers(u)]
            ELSE IF u.pool.is_dirty[b] THEN file_write_page(v, t, p[2], u.data[b])
            ELSE v
    IN  IF u.end # "ok" THEN u
        ELSE AllocFromFile(Fetched([u EXCEPT !.pool = buf_alloc_page(@, t, h)],
                                   HeaderFrame(u.pool, p)), t)

(* The header page as a node is not followed any further.                  *)
NotHeader(u) == IF u.end = "ok" /\ Off(u, u.ret) = 0 THEN Stop(u, "corrupt") ELSE u

(* make_page: what else the frame holds stays there. *)
MakePage(u, t) ==
    LET Taken(v) == NotHeader(Get(v, t, v.new))
        Inner(v) == Store(v, v.ret, [v.data[v.ret] EXCEPT !.parent = 0, !.leaf = FALSE,
                                                         !.n = 0, !.root = 0])
    IN  Inner(Taken(Alloc(u, t)))

-----------------------------------------------------------------------------
(* find_leaf: the leaf's frame, NULL without a tree.  No page of a tree is *)
(* visited twice; otherwise the search is endless.                         *)
FindLeaf(u, t, k) ==
    LET down[d \in 0 .. MaxPage] ==
            IF d = 0 THEN Get(u, t, Root(u, t))
            ELSE LET v == down[d - 1]
                     c == v.data[v.ret]
                 IN  IF v.end # "ok" \/ c.leaf THEN v
                     ELSE IF d = MaxPage THEN Stop(v, "corrupt")
                     ELSE NotHeader(Get(v, t, N!Child(c, k)))
    IN  IF u.end # "ok" \/ Root(u, t) = 0 THEN [u EXCEPT !.ret = NULL] ELSE down[MaxPage]

(* find has found it, or it would have if it had lived. *)
Found(u, k) == u.end = "ok" /\ u.ret # NULL /\ N!Search(u.data[u.ret], k).hit

(* The pages in the frames fs are marked, then put, in this order. *)
Save(u, t, fs) ==
    LET marked[i \in 0 .. Len(fs)] == IF i = 0 THEN u ELSE Mark(marked[i - 1], t, fs[i])
        put[i \in 0 .. Len(fs)] == IF i = 0 THEN marked[Len(fs)] ELSE Put(put[i - 1], t, fs[i])
    IN  put[Len(fs)]

(* Mutant: the header's root_offset is forgotten. *)
SetRootInMemory(u, t, f) == IF u.end # "ok" THEN u ELSE [u EXCEPT !.root[t] = f]

(* root[t] = page f, and the header's root_offset. *)
SetRoot(u, t, f) ==
    LET h == u.header[t]
        r == Off(u, f)
    IN  IF u.end # "ok" THEN u
        ELSE [Store(u, h, [u.data[h] EXCEPT !.root = r, !.leaf = r # 0, !.n = 0])
                 EXCEPT !.root[t] = f]

StartNewTree(u, t, k) ==
    LET Leaf(v) == Store(v, v.ret, [v.data[v.ret] EXCEPT !.leaf = TRUE, !.off[0] = 0,
                                                         !.key[0] = k, !.n = 1])
        Linked(v) == Save(SetRoot(v, t, v.ret), t, <<v.ret, v.header[t]>>)
    IN  Linked(Leaf(MakePage(u, t)))

(* A frame still pointed to by l or r was reused between u and v. *)
Moved(u, v, l, r) ==
    IF v.pool.shows[l] = u.pool.shows[l] /\ v.pool.shows[r] = u.pool.shows[r]
    THEN v ELSE [v EXCEPT !.stale = TRUE]

InsertIntoNewRoot(u, t, l, k, r) ==
    LET Filled(v) ==
            Store(v, v.ret, [v.data[v.ret] EXCEPT
                !.key = [N!ZeroPage.key EXCEPT ![0] = k],
                !.off[0] = Off(v, l), !.off[1] = Off(v, r), !.n = 1])
        Adopted(v, f) == Store(v, f, [v.data[f] EXCEPT !.parent = Off(v, v.ret)])
        Linked(v) == Save(SetRoot(v, t, v.ret), t, <<l, r, v.ret, v.header[t]>>)
    IN  Linked(Adopted(Adopted(Filled(Moved(u, MakePage(u, t), l, r)), l), r))

(* insert_into_node_after_splitting as far as free(child), which frees the *)
(* frame of the last child that the new page takes over.                   *)
SplitNode(u, t, p, li, k, r) ==
    LET Halves(v) == N!NodeHalves(v.data[p], li, k, Off(v, r),
                                  [at |-> v.new, node |-> v.data[v.ret]])
        Parent(v, new) ==
            Put(Store(v, v.ret, [v.data[v.ret] EXCEPT !.parent = new]), t, v.ret)
        Adopting(v, c) ==
            LET adopted[i \in 0 .. InternalOrder] ==
                    IF i = 0 THEN v
                    ELSE IF i - 1 > c.n THEN adopted[i - 1]
                    ELSE Parent(Get(adopted[i - 1], t, c.off[i - 1]), v.new)
            IN  adopted[InternalOrder]
        Split(v, half) ==
            Adopting(Store(Store(v, p, half.left), v.ret, half.right), half.right)
        Made(v) == IF v.end # "ok" THEN v ELSE Split(v, Halves(v))
    IN  Stop(Made(MakePage(u, t)), "freed")

InsertIntoParent(u, t, l, k, r) ==
    LET Into(v, p, c) ==
            LET li == N!FirstNot(LAMBDA i : c.off[i] # Off(v, l), c.n)    \* get_left_index
            IN  IF Off(v, p) = 0 THEN InsertIntoNewRoot(v, t, l, k, r)
                ELSE IF c.n < InternalOrder - 1
                THEN Save(Store(v, p, N!NodeWith(c, li, k, Off(v, r))), t, <<p>>)
                ELSE SplitNode(v, t, p, li, k, r)
        AtParent(v) == IF v.end # "ok" THEN v ELSE Into(v, v.ret, v.data[v.ret])
    IN  AtParent(Moved(u, Get(u, t, u.data[l].parent), l, r))

SplitLeaf(u, t, l, k) ==
    LET Halves(v) == N!LeafHalves(v.data[l], k, [at |-> Off(v, v.ret), node |-> v.data[v.ret]])
        Split(v, half) ==
            Save(Store(Store(v, l, half.left), v.ret, half.right), t, <<l, v.ret>>)
        Climb(v) == IF v.end # "ok" THEN v
                    ELSE InsertIntoParent(v, t, l, v.data[v.ret].key[0], v.ret)
        Made(v) == IF v.end # "ok" THEN v ELSE Climb(Split(v, Halves(v)))
    IN  Made(MakePage(u, t))

(* insert: a key that is found is refused. *)
Insert(u, t, k) ==
    LET Into(v) ==
            IF v.end # "ok" THEN v
            ELSE IF v.data[v.ret].n < LeafOrder - 1
            THEN Save(Store(v, v.ret, N!LeafWith(v.data[v.ret], k)), t, <<v.ret>>)
            ELSE SplitLeaf(v, t, v.ret, k)
        Searched(v) ==
            IF v.end # "ok" \/ Found(v, k) THEN v
            ELSE IF Root(v, t) = 0 THEN StartNewTree(v, t, k)
            ELSE Into(FindLeaf(v, t, k))
    IN  Searched(FindLeaf(u, t, k))

(* remove_entry_from_node for a leaf: page and page_leaf are the same frame *)
(* and count num_keys down twice.                                          *)
LeafWithout(c, k) == [N!RemoveEntry(c, k) EXCEPT !.n = @ - 1]

(* erase as far as free(page_leaf), which frees the frame of the leaf.  A   *)
(* key found behind the last one is not followed.                          *)
Erase(u, t, k) ==
    LET Removed(v, c) ==
            IF \E i \in 0 .. c.n - 1 : c.key[i] = k
            THEN Stop(Save(Store(v, v.ret, LeafWithout(c, k)), t, <<v.ret>>), "freed")
            ELSE Stop(v, "corrupt")
        AtLeaf(v) == Removed(v, v.data[v.ret])
        Searched(v) == IF Found(v, k) THEN AtLeaf(Get(v, t, Off(v, v.ret))) ELSE v
    IN  Searched(FindLeaf(FindLeaf(u, t, k), t, k))

-----------------------------------------------------------------------------
(* print_tree gets and puts every page of the tree, level by level.  It is *)
(* the only function that puts what was pinned by searches and marked by   *)
(* insert_into_new_root.                                                   *)

(* path_to_root, for the first page of a level. *)
PathToRoot(u, t, f) ==
    LET up[d \in 0 .. MaxPage] ==
            IF d = 0 THEN [u EXCEPT !.ret = f]
            ELSE LET v == up[d - 1]
                 IN  IF v.end # "ok" \/ Off(v, v.ret) = Root(v, t) THEN v
                     ELSE IF d = MaxPage THEN Stop(v, "corrupt")
                     ELSE Get(v, t, v.data[v.ret].parent)
    IN  up[MaxPage]

GetAndPut(u, t, n) == LET Seen(v) == Put(v, t, v.ret) IN Seen(Get(u, t, n))

(* Mutant: it only gets. *)
VisitGetsOnly(u, t, p) == Get(u, t, p)

(* One page p from the queue: itself and its parent. *)
Visit(u, t, p) ==
    LET Rank(v, n) == IF v.data[n].parent # 0 /\ Off(v, n) = v.data[v.ret].off[0]
                      THEN PathToRoot(v, t, n) ELSE v
        Queue(v, n) == IF v.data[n].leaf THEN v ELSE GetAndPut(v, t, Off(v, n))
        Keys(v, n) == IF v.end # "ok" THEN v ELSE Put(Queue(v, n), t, n)
        Parent(v, n) ==
            IF v.end # "ok" THEN v
            ELSE Keys(GetAndPut(Put(Rank(v, n), t, v.ret), t, Off(v, n)), n)
        Shown(v) == Parent(Get(v, t, v.data[v.ret].parent), v.ret)
    IN  Shown(Get(u, t, p))

PrintTree(u, t) ==
    LET Children(v, p) ==
            LET c == v.data[buf_find_frame(v.pool, <<t, p>>)]
            IN  IF c.leaf THEN <<>> ELSE [i \in 1 .. c.n + 1 |-> c.off[i - 1]]
        Visited(x, v) ==
            IF v.end # "ok" THEN [x EXCEPT !.u = v]
            ELSE [u |-> v, q |-> Tail(x.q) \o Children(v, Head(x.q))]
        Dequeue(x) == IF x.u.end # "ok" \/ x.q = <<>> THEN x
                      ELSE Visited(x, Visit(x.u, t, Head(x.q)))
        All(v) == LET pages[d \in 0 .. 2 * MaxPage] ==
                          IF d = 0 THEN [u |-> v, q |-> <<Root(v, t)>>]
                          ELSE Dequeue(pages[d - 1])
                  IN  pages[2 * MaxPage]
        Printed(x) == IF x.q # <<>> THEN Stop(x.u, "corrupt") ELSE Put(x.u, t, x.u.root[t])
        Begun(v) == IF v.end # "ok" THEN v
                    ELSE IF Root(v, t) = 0 THEN Put(v, t, v.root[t])
                    ELSE Printed(All(v))
        Rooted(v) == IF v.end # "ok" THEN v ELSE [v EXCEPT !.root[t] = v.ret]
    IN  Begun(Rooted(Get(u, t, Root(u, t))))

-----------------------------------------------------------------------------
(* The keys that num_keys counts on the path a process takes that opens    *)
(* the file, as print_tree shows them.  (A search also compares the slot   *)
(* behind them and may meet a key there that a delete left: NodeSearch.)   *)
DiskPage(t, n) == file_read_page(s, t, n, Blank)
ReachedOnDisk(t, k) ==       \* a set of one page
    LET down[d \in 0 .. MaxPage] ==
            IF d = 0 THEN {DiskPage(t, DiskPage(t, 0).root)}
            ELSE {IF c.leaf THEN c ELSE DiskPage(t, N!Child(c, k)) : c \in down[d - 1]}
    IN  down[MaxPage]
OnDisk(t) ==
    IF DiskPage(t, 0).root = 0 THEN {}
    ELSE {k \in Key : \E c \in ReachedOnDisk(t, k) :
             c.leaf /\ \E i \in 0 .. c.n - 1 : c.key[i] = k}

-----------------------------------------------------------------------------
(* open_table.  make_header counts on from what the frame holds.           *)
MakeHeader(u, t) ==
    LET Counted(v, c) ==
            IF c.num >= MaxPage THEN Stop(v, "full")
            ELSE Store([v EXCEPT !.header[t] = v.ret, !.root[t] = NULL], v.ret,
                       [c EXCEPT !.num = @ + 1, !.parent = c.num + 1,
                                 !.root = 0, !.leaf = FALSE, !.n = 0])
        Made(v) == IF v.end # "ok" THEN v
                   ELSE Save(Counted(v, v.data[v.ret]), t, <<v.ret>>)
    IN  Made(Get([u EXCEPT !.files = @ \cup {t}], t, 0))

OpenTable(u, t) ==
    LET Rooted(v) == IF v.end # "ok" THEN v ELSE [v EXCEPT !.root[t] = v.ret]
        RootRead(v, h) == Get(v, t, v.data[h].root)
        Freed(v, h) == RootRead(Get(v, t, v.data[h].num), h)
        Headed(v) == IF v.end # "ok" THEN v
                     ELSE Rooted(Freed([v EXCEPT !.header[t] = v.ret], v.ret))
    IN  IF t \in u.files THEN Headed(Get(u, t, 0)) ELSE MakeHeader(u, t)

-----------------------------------------------------------------------------
(* main. *)
Init ==
    /\ s = Started({}, [t \in Table |-> <<>>])
    /\ proc = "down"
    /\ current_table = 1 /\ flag = 0 /\ opened = {}
    /\ typed = [t \in Table |-> {}]

(* A command leads to u.  A process is not followed any further once a     *)
(* pointer is stale.                                                       *)
Run(u) ==
    /\ u.end # "full"                                    \* bound
    /\ proc' = CASE u.end = "ok" /\ ~u.stale -> "up"
                 [] u.end = "null" /\ ~u.stale -> "down"
                 [] OTHER -> "undefined"
    /\ s' = IF proc' = "down" THEN Started(u.files, u.disk)
            ELSE [u EXCEPT !.ret = NULL, !.new = 0]

(* Bound: tables are numbered in the order in which their files are made.  *)
InOrder(t) == 1 .. t - 1 \subseteq s.files

Start(t) ==
    /\ proc = "down" /\ InOrder(t)
    /\ Run(PrintTree(OpenTable(Started(s.files, s.disk), t), t))
    /\ current_table' = t /\ flag' = 0 /\ opened' = {t}
    /\ UNCHANGED typed

AtPrompt == proc = "up" /\ UNCHANGED <<current_table, flag, opened>>

InsertKey(k) ==
    /\ AtPrompt
    /\ Cardinality({x \in Table \X Key : x[2] \in typed[x[1]]}) < MaxRecords
    /\ typed' = [typed EXCEPT ![current_table] = @ \cup {k}]
    /\ Run(PrintTree(Insert(s, current_table, k), current_table))

DeleteKey(k) ==
    /\ AtPrompt
    /\ typed' = [typed EXCEPT ![current_table] = @ \ {k}]
    /\ Run(PrintTree(Erase(s, current_table, k), current_table))

(* printf of a NULL with %s may print (null) or die. *)
FindKey(k) ==
    LET u == FindLeaf(s, current_table, k)
    IN  /\ AtPrompt /\ UNCHANGED typed
        /\ \/ Run(u)
           \/ ~Found(u, k) /\ Run(Stop(u, "null"))

PrintAll == AtPrompt /\ UNCHANGED typed /\ Run(PrintTree(s, current_table))

(* Command c: see Session.tla. *)
Switch(t) ==
    /\ proc = "up" /\ t \in opened
    /\ current_table' = t /\ flag' = 1
    /\ UNCHANGED <<s, proc, opened, typed>>

OpenAnother(t) ==
    /\ proc = "up" /\ t \notin opened /\ flag # 1 /\ InOrder(t)
    /\ Run(OpenTable(s, t))
    /\ current_table' = t /\ opened' = opened \cup {t}
    /\ UNCHANGED <<flag, typed>>

(* Command q, or a kill at the prompt: the pool is not written. *)
Quit ==
    /\ proc = "up" /\ proc' = "down"
    /\ s' = Started(s.files, s.disk)
    /\ flag' = 0 /\ opened' = {}
    /\ UNCHANGED <<current_table, typed>>

Next ==
    \/ \E t \in Table : Start(t) \/ Switch(t) \/ OpenAnother(t)
    \/ \E k \in Key : InsertKey(k) \/ DeleteKey(k)
    \/ \E k \in Sought : FindKey(k)
    \/ PrintAll
    \/ Quit

Spec == Init /\ [][Next]_vars

-----------------------------------------------------------------------------
(* Properties.                                                             *)

TypeOK ==
    /\ s.pool.first_buf \in Frame /\ s.pool.last_buf \in Frame
    /\ \A t \in Table : s.header[t] \in {NULL} \cup Frame /\ s.root[t] \in {NULL} \cup Frame
    /\ \A t \in Table : Len(s.disk[t]) <= MaxPage + 1
    /\ s.end \in {"ok", "segv", "null", "corrupt", "freed"} /\ s.stale \in BOOLEAN
    /\ proc \in {"down", "up", "undefined"} /\ flag \in {0, 1}
    /\ current_table \in Table /\ opened \subseteq s.files

(* The pool never replaces a page without harm: the pointers are good      *)
(* exactly as long as all the pages the process has asked for fit into it, *)
(* and neither a death for want of a frame nor a tree that is not one      *)
(* comes before.                                                           *)
FitsIsSafe ==
    /\ s.end # "segv" => (s.stale <=> Cardinality(s.touched) > BUFFER_SIZE)
    /\ s.end \in {"segv", "corrupt"} => s.stale

(* Why: print_tree leaves every page of a tree pinned, except those that   *)
(* header[] and root[] point to; they are what is given up first.          *)
VictimIsPointedTo ==
    proc = "up" =>
        \A f \in Frame : s.pool.tag[f] # NoPage /\ ~s.pool.is_pinned[f] => f \in Pointers(s)

(* Changes that insert_into_new_root marks and does not write (its put     *)
(* pins the two leaves) are in the file at the prompt: print_tree puts     *)
(* them once more.                                                         *)
PromptIsSaved ==
    proc = "up" =>
        \A f \in Frame : LET p == s.pool.tag[f]
                         IN  p # NoPage /\ p[2] < Len(s.disk[p[1]])
                             => s.data[f] = s.disk[p[1]][p[2] + 1]

(* A find in any open table tells, through the pool, what a new process    *)
(* would find in the file.                                                 *)
FindTellsTheFile ==
    proc = "up" => \A t \in opened, k \in Key :
        LET u == FindLeaf(s, t, k)
        IN  u.end = "ok" /\ ~u.stale => (Found(u, k) <=> k \in OnDisk(t))

(* Each file holds exactly the keys typed into it, whatever splits,        *)
(* changes of table, deaths in printf and restarts there were.             *)
FilesHoldWhatWasTyped == proc # "undefined" => \A t \in Table : OnDisk(t) = typed[t]

-----------------------------------------------------------------------------
(* What the repository says and the code does not do.                      *)

(* "d <k> -- Delete key <k> and its associated value." (bpt3.c:25), and no *)
(* other key.                                                              *)
DeleteRemovesOnlyItsKey ==
    [][\A k \in Key : DeleteKey(k) =>
        OnDisk(current_table)' = OnDisk(current_table) \ {k}]_vars
=============================================================================
