----------------------------- MODULE BPlusTree -----------------------------
(***************************************************************************)
(* The B+ tree of on-disk-bpt/bpt.c in one database file: insert, delete,  *)
(* find, open_db and what a killed process leaves behind.                  *)
(*                                                                         *)
(* A command runs alone and reads back what it wrote, so it is modelled as *)
(* a function from a state record s to the one it leaves, together with    *)
(* the write()s it makes on the way, in their order.  The command's action *)
(* takes the effect on memory at once; the writes reach the file one Flush *)
(* at a time, and between two of them the process may be killed.           *)
(***************************************************************************)
EXTENDS Node, Sequences, FiniteSets

CONSTANTS
    Deletable,   \* bound: the keys the user deletes
    MaxCrash     \* bound: number of times the process ends

ASSUME TreeAssumption == Deletable \subseteq Key /\ MaxCrash \in Nat

VARIABLES
    proc,      \* the process: see Proc
    pages,     \* pages 1 .. MaxPage as the program reads and writes them
    header,    \* the global header, and page 0 once the command is over
    root,      \* the global root: a copy of the root page made long ago
    disk,      \* pages 1 .. MaxPage, as far as they are written
    diskHeader,\* page 0, as far as it is written
    todo,      \* the writes the running command has still to make
    end,       \* how the running command ends
    cmd,       \* the running command
    harm,      \* ghost: the damaging paths taken so far, see Harm
    crashes    \* ghost: times the process ended

vars == <<proc, pages, header, root, disk, diskHeader, todo, end, cmd, harm, crashes>>

(* "corrupt": page 0 was used as a node, or memory outside an array was    *)
(* written; the model does not follow the program any further.             *)
Proc == {"down", "up", "hung", "corrupt"}
End  == {"ok", "segv", "hung", "corrupt", "full"}

(* What the program can do to a tree that its later commands do not        *)
(* survive; the tag is set where the code does it.                         *)
Harm == {"truncated",       \* insert_into_node_after_splitting: int k_prime
         "staleSeparator",  \* replace_entry: no key of the parent replaced
         "scrambled",       \* merge_nodes: a record taken back from the left
         "lostSubtree",     \* merge_nodes: internal pages
         "staleRoot",       \* adjust_root: decided on an old copy of the root
         "cutShort",        \* a command that did not return
         "torn"}            \* killed between two writes of a command

NewHeader == [free |-> 1, root |-> 0, num |-> 1]
NullRoot  == [null |-> TRUE, at |-> 0, leaf |-> FALSE, n |-> 0, first |-> 0]
Idle      == [kind |-> "none", key |-> 0]
Nothing   == [child |-> 0, key |-> 0, new |-> 0]

(* The fields of root the program reads: offset, is_leaf, num_keys and     *)
(* offsets[0].                                                             *)
RootCopy(p, c) ==
    [null |-> FALSE, at |-> p, leaf |-> c.leaf, n |-> c.n, first |-> c.off[0]]

-----------------------------------------------------------------------------
(* The state record of a running command: pages, header and root as above, *)
(* log for the writes made, next for the level the command goes on with,   *)
(* new for the page made last.  After a fatal end the rest has no effect.  *)
Now == [pages |-> pages, header |-> header, root |-> root, log |-> <<>>,
        end |-> "ok", harm |-> {}, next |-> Nothing, new |-> 0]

Stop(s, how) == IF s.end = "ok"
                THEN [s EXCEPT !.end = how, !.harm = @ \cup {"cutShort"}] ELSE s
Hurt(s, tag) == IF s.end = "ok" THEN [s EXCEPT !.harm = @ \cup {tag}] ELSE s
Read(s, p)   == IF p = 0 THEN ZeroPage ELSE s.pages[p]

WritePage(s, p, c) ==
    IF s.end # "ok" THEN s
    ELSE [s EXCEPT !.pages[p] = c, !.log = Append(@, [at |-> p, is |-> c])]
WriteHeader(s) ==
    IF s.end # "ok" THEN s
    ELSE [s EXCEPT !.log = Append(@, [at |-> 0, is |-> s.header])]

(* Mutant: file_alloc_page forgets to write the header. *)
MakePageHeaderNotWritten(s) ==
    LET p == s.header.free
        h == [s.header EXCEPT !.free = s.header.num + 1, !.num = @ + 1]
    IN  IF p = 0 THEN Stop(s, "corrupt")
        ELSE IF h.num > MaxPage THEN Stop(s, "full")
        ELSE IF s.end # "ok" THEN s
        ELSE [s EXCEPT !.header = h, !.new = p]

(* file_alloc_page and make_page: the page keeps the arrays found there.   *)
MakePage(s) ==
    LET p == s.header.free
        w == Read(s, p).parent
        h == [s.header EXCEPT !.free = IF w # 0 THEN w ELSE s.header.num + 1,
                              !.num = @ + 1]
    IN  IF p = 0 THEN Stop(s, "corrupt")
        ELSE IF h.num > MaxPage THEN Stop(s, "full")
        ELSE IF s.end # "ok" THEN s
        ELSE WriteHeader([s EXCEPT !.header = h, !.new = p])
NewPage(s) == [at |-> s.new,
               node |-> [Read(s, s.new) EXCEPT !.parent = 0, !.leaf = FALSE, !.n = 0]]

(* file_free_page. *)
FreePage(s, p) ==
    LET s1 == WritePage(s, p, [ZeroPage EXCEPT !.parent = s.header.free])
    IN  IF s.end # "ok" THEN s
        ELSE WriteHeader([s1 EXCEPT !.header.free = 0, !.header.num = @ - 1])

(* find_leaf below page top: the leaf for key k; 0 if the search reaches   *)
(* the header page.  walk: the set of the one page after so many steps.    *)
FindLeaf(image, top, k) ==
    LET Below(p) == IF p = 0 \/ image[p].leaf THEN p ELSE Child(image[p], k)
        walk[most \in PageNo] == IF most = 0 THEN {top} ELSE {Below(p) : p \in walk[most - 1]}
    IN  CHOOSE p \in walk[MaxPage] : TRUE

(* find returns a value.  A cycle of internal pages has none.              *)
Finds(image, top, k) ==
    LET p == FindLeaf(image, top, k)
    IN  p # 0 /\ image[p].leaf /\ Search(image[p], k).hit

(* Runs step, which handles one level of the tree and leaves the next      *)
(* level to handle in s.next, up to the root.                              *)
Climb(step(_), s) ==
    LET level[d \in 0 .. MaxPage] ==
            IF d = 0 THEN s
            ELSE LET t == level[d - 1]
                 IN  IF t.end # "ok" \/ t.next = Nothing THEN t ELSE step(t)
    IN  level[MaxPage]

-----------------------------------------------------------------------------
(* Insertion.                                                              *)

(* Mutant: the header points to the new root before the root is written. *)
SetRootHeaderFirst(s, p, c) ==
    WritePage(WriteHeader([s EXCEPT !.root = RootCopy(p, c), !.header.root = p]), p, c)

(* Page c becomes the root: the page is written, then the header. *)
SetRoot(s, p, c) ==
    WriteHeader([WritePage(s, p, c) EXCEPT !.root = RootCopy(p, c), !.header.root = p])

StartNewTree(s0, k) ==
    LET s == MakePage(s0)
        c == [NewPage(s).node EXCEPT !.leaf = TRUE, !.off[0] = 0, !.key[0] = k, !.n = 1]
    IN  IF s.end # "ok" THEN s ELSE SetRoot(s, s.new, c)

InsertIntoNewRoot(s0, left, k, right) ==
    LET s == MakePage(s0)
        r == s.new
        c == [NewPage(s).node EXCEPT !.key[0] = k, !.off[0] = left, !.off[1] = right, !.n = 1]
        s1 == WritePage(s, left, [Read(s, left) EXCEPT !.parent = r])
        s2 == WritePage(s1, right, [Read(s1, right) EXCEPT !.parent = r])
    IN  IF s.end # "ok" THEN s
        ELSE [SetRoot(s2, r, c) EXCEPT !.next = Nothing]

(* The children of page p are told their parent, one read and write each;  *)
(* a child 0 is the header, whose free_offset on disk is overwritten.      *)
AdoptChildren(s, p, c) ==
    LET adopt[i \in 0 .. InternalOrder] ==
            IF i = 0 THEN s
            ELSE LET t == adopt[i - 1]
                     ch == c.off[i - 1]
                 IN  IF i - 1 > c.n \/ t.end # "ok" THEN t
                     ELSE IF ch = 0
                     THEN [t EXCEPT !.log = Append(@, [at |-> 0,
                                              is |-> [s.header EXCEPT !.free = p]])]
                     ELSE WritePage(t, ch, [Read(t, ch) EXCEPT !.parent = p])
    IN  adopt[InternalOrder]

SplitNode(s0, p, li, k, right) ==
    LET s == MakePage(s0)
        half == NodeHalves(Read(s, p), li, k, right, NewPage(s))
        s1 == AdoptChildren(s, s.new, half.right)
        s2 == WritePage(WritePage(s1, p, half.left), s.new, half.right)
        middle == ToInt(half.middle)
        s3 == IF middle # half.middle THEN Hurt(s2, "truncated") ELSE s2
    IN  IF s.end # "ok" THEN s
        ELSE [s3 EXCEPT !.next = [child |-> p, key |-> middle, new |-> s.new]]

(* insert_into_parent for the two halves in s.next. *)
InsertIntoParent(s) ==
    LET left == s.next.child
        k == s.next.key
        right == s.next.new
        p == Read(s, left).parent
        c == Read(s, p)
        li == FirstNot(LAMBDA i : c.off[i] # left, c.n)      \* get_left_index
    IN  IF p = 0 THEN InsertIntoNewRoot(s, left, k, right)
        ELSE IF c.n < InternalOrder - 1
        THEN [WritePage(s, p, NodeWith(c, li, k, right)) EXCEPT !.next = Nothing]
        ELSE SplitNode(s, p, li, k, right)

SplitLeaf(s0, leaf, k) ==
    LET s == MakePage(s0)
        half == LeafHalves(Read(s, leaf), k, NewPage(s))
        s1 == WritePage(WritePage(s, leaf, half.left), s.new, half.right)
    IN  IF s.end # "ok" THEN s
        ELSE Climb(InsertIntoParent,
                   [s1 EXCEPT !.next = [child |-> leaf, key |-> half.right.key[0],
                                        new |-> s.new]])

(* Mutant: a full leaf is taken for one with room. *)
HasRoomWhenFull(c) == c.n <= LeafOrder - 1
HasRoom(c) == c.n < LeafOrder - 1

(* insert, for a key that find does not find: root == NULL starts a tree;  *)
(* a root read from a file without a tree is not NULL, but find_leaf is.   *)
Insert(k) ==
    LET leaf == FindLeaf(pages, root.at, k)
    IN  IF root.null THEN StartNewTree(Now, k)
        ELSE IF root.at = 0 THEN Stop(Now, "segv")
        ELSE IF leaf = 0 THEN Stop(Now, "corrupt")
        ELSE IF ~pages[leaf].leaf THEN Stop(Now, "hung")
        ELSE IF HasRoom(pages[leaf])
        THEN WritePage(Now, leaf, LeafWith(pages[leaf], k))
        ELSE SplitLeaf(Now, leaf, k)

-----------------------------------------------------------------------------
(* Deletion.                                                               *)

(* adjust_root: num_keys is that of the copy.  In the last case root is    *)
(* set to NULL and then dereferenced.                                      *)
AdjustRoot(s) ==
    LET old == s.root
        c == [Read(s, old.first) EXCEPT !.parent = 0]
    IN  IF old.n > 0 THEN s
        ELSE IF old.leaf THEN Stop(Hurt(FreePage(s, old.at), "staleRoot"), "segv")
        ELSE IF old.first = 0 THEN Stop(s, "corrupt")
        ELSE Hurt(SetRoot(FreePage(s, old.at), old.first, c), "staleRoot")

(* get_neighbor_index: a binary search by page number, in offsets that are *)
(* in key order; -2 if it never ends.                                      *)
NeighborIndex(c, p) ==
    LET probe[at \in (0 .. InternalOrder + 1) \X (0 .. InternalOrder) \X (0 .. InternalOrder + 1)] ==
            LET l == at[1]
                r == at[2]
                fuel == at[3]
                i == (l + r) \div 2
            IN  IF c.off[i] = p THEN i - 1
                ELSE IF fuel = 0 THEN -2
                ELSE IF p < c.off[i] THEN probe[<<l, i, fuel - 1>>]
                ELSE probe[<<i + 1, r, fuel - 1>>]
    IN  probe[<<0, c.n, InternalOrder + 1>>]

(* replace_entry: the first key not below new_k_prime decides.  Without    *)
(* one the loop leaves the array through zeros, and the key it changes is  *)
(* outside the bytes that are written; the first key has none before it.   *)
ReplaceEntry(s, p, newKey) ==
    LET c == Read(s, p)
        i == FirstNot(LAMBDA j : c.key[j] < newKey, c.n)
    IN  IF i = c.n THEN Hurt(WritePage(s, p, c), "staleSeparator")
        ELSE IF i = 0 THEN Stop(s, "corrupt")
        ELSE WritePage(s, p, [c EXCEPT !.key[i - 1] = newKey])

(* merge_nodes for page right and its neighbor left under parent p.        *)
MergeNodes(s, left, right, p, kp) ==
    LET l == Read(s, left)
        r == Read(s, right)
        byLeaf == ShiftLeaf(l, r)
        byNode == ShiftNode(l, r, kp)
        moved == IF l.leaf THEN byLeaf ELSE byNode
        s1 == IF l.leaf THEN (IF byLeaf.back THEN Hurt(s, "scrambled") ELSE s)
              ELSE IF ~byNode.fits THEN Stop(s, "corrupt")
              ELSE AdoptChildren(Hurt(s, "lostSubtree"), left, byNode.l)
        s2 == WritePage(WritePage(s1, left, moved.l), right, moved.r)
    IN  IF moved.r.n = 0
        THEN [WriteHeader(FreePage(s2, right))
                 EXCEPT !.next = [child |-> p, key |-> kp, new |-> 0]]
        ELSE [ReplaceEntry(s2, p, moved.r.key[0]) EXCEPT !.next = Nothing]

(* delete_entry for the page and the key in s.next. *)
DeleteEntry(s) ==
    LET p == s.next.child
        c == RemoveEntry(Read(s, p), s.next.key)
        s1 == [WritePage(s, p, c) EXCEPT !.next = Nothing]
        parent == c.parent
        pc == Read(s, parent)
        ni == NeighborIndex(pc, p)
        kp == pc.key[IF ni = -1 THEN 0 ELSE ni]
        neighbor == pc.off[IF ni = -1 THEN 1 ELSE ni]
    IN  IF Read(s, p).n = 0 THEN Stop(s, "corrupt")
        ELSE IF p = s.root.at THEN AdjustRoot(s1)
        ELSE IF c.n > 0 THEN s1
        ELSE IF parent = 0 THEN Stop(s1, "corrupt")
        ELSE IF ni = -2 THEN Stop(s1, "hung")
        ELSE IF neighbor = 0 THEN Stop(s1, "corrupt")
        ELSE IF ni = -1 THEN MergeNodes(s1, p, neighbor, parent, kp)
        ELSE MergeNodes(s1, neighbor, p, parent, kp)

(* delete, for a key that find finds. *)
DeleteKey(k) ==
    Climb(DeleteEntry,
          [Now EXCEPT !.next = [child |-> FindLeaf(pages, root.at, k), key |-> k, new |-> 0]])

-----------------------------------------------------------------------------
(* The process.                                                            *)

Init ==
    /\ proc = "up"                       \* open_db has created the file
    /\ pages = [p \in 1 .. MaxPage |-> ZeroPage]
    /\ header = NewHeader
    /\ root = NullRoot
    /\ disk = pages
    /\ diskHeader = NewHeader
    /\ todo = <<>> /\ end = "ok" /\ cmd = Idle
    /\ harm = {} /\ crashes = 0

AtPrompt == proc = "up" /\ todo = <<>> /\ end = "ok"

(* A command c computes s. *)
Run(c, s) ==
    /\ s.end # "full"                                    \* bound
    /\ cmd' = c
    /\ pages' = s.pages
    /\ header' = s.header
    /\ root' = s.root
    /\ todo' = s.log
    /\ end' = s.end
    /\ harm' = harm \cup s.harm
    /\ UNCHANGED <<proc, disk, diskHeader, crashes>>

(* insert: a key that is found is refused and nothing changes. *)
CmdInsert(k) ==
    /\ AtPrompt
    /\ ~Finds(pages, root.at, k)
    /\ Run([kind |-> "insert", key |-> k], Insert(k))

(* delete: a key that is not found is reported and nothing changes. *)
CmdDelete(k) ==
    /\ AtPrompt
    /\ Finds(pages, root.at, k)
    /\ Run([kind |-> "delete", key |-> k], DeleteKey(k))

(* The next write() of the running command; after the last one it returns. *)
Flush ==
    /\ proc = "up"
    /\ todo # <<>>
    /\ LET w == Head(todo)
       IN  IF w.at = 0 THEN diskHeader' = w.is /\ UNCHANGED disk
           ELSE disk' = [disk EXCEPT ![w.at] = w.is] /\ UNCHANGED diskHeader
    /\ todo' = Tail(todo)
    /\ cmd' = IF Len(todo) = 1 /\ end = "ok" THEN Idle ELSE cmd
    /\ UNCHANGED <<proc, pages, header, root, end, harm, crashes>>

(* What the file holds is all there is. *)
MemoryGone ==
    /\ pages' = disk /\ header' = diskHeader /\ root' = NullRoot
    /\ todo' = <<>> /\ end' = "ok" /\ cmd' = Idle
    /\ UNCHANGED <<disk, diskHeader>>

(* The end of a command that does not return. *)
Fail ==
    /\ proc = "up" /\ todo = <<>> /\ end # "ok"
    /\ proc' = IF end = "segv" THEN "down" ELSE end
    /\ MemoryGone
    /\ UNCHANGED <<harm, crashes>>

(* The process is killed, or quits at the prompt. *)
Crash ==
    /\ proc \in {"up", "hung"}
    /\ crashes < MaxCrash                                \* bound
    /\ proc' = "down"
    /\ harm' = IF todo # <<>> THEN harm \cup {"torn"} ELSE harm
    /\ crashes' = crashes + 1
    /\ MemoryGone

(* open_db on the existing file.  Without a tree root_offset is 0 and root *)
(* becomes a copy of the header page.                                      *)
Open ==
    /\ proc = "down"
    /\ proc' = "up"
    /\ root' = LET p == diskHeader.root
               IN  RootCopy(p, IF p = 0 THEN ZeroPage ELSE disk[p])
    /\ UNCHANGED <<pages, header, disk, diskHeader, todo, end, cmd, harm, crashes>>

Next ==
    \/ \E k \in Key : CmdInsert(k)
    \/ \E k \in Deletable : CmdDelete(k)
    \/ Flush
    \/ Fail
    \/ Crash
    \/ Open

Spec == Init /\ [][Next]_vars

-----------------------------------------------------------------------------
(* Types. *)
HeaderType == [free : PageNo, root : PageNo, num : 0 .. MaxPage]

TypeOK ==
    /\ proc \in Proc
    /\ pages \in [1 .. MaxPage -> Page] /\ disk \in [1 .. MaxPage -> Page]
    /\ header \in HeaderType /\ diskHeader \in HeaderType
    /\ root.at \in PageNo /\ root.first \in PageNo
    /\ \A i \in 1 .. Len(todo) :
          IF todo[i].at = 0 THEN todo[i].is \in HeaderType
          ELSE todo[i].at \in 1 .. MaxPage /\ todo[i].is \in Page
    /\ end \in End \ {"full"}
    /\ harm \subseteq Harm

(* The keys find finds once the running command is over, and those that a  *)
(* process finds that opens the file as it is now.                         *)
Top     == IF proc = "down" THEN diskHeader.root ELSE root.at
Content == {k \in Key : Finds(pages, Top, k)}
OnDisk  == {k \in Key : Finds(disk, diskHeader.root, k)}

Sound == harm = {}

(* As long as none of the paths in Harm is taken, the tree is the set of   *)
(* keys the user put into it: the step that takes the command "i k" adds k *)
(* and no other key, the one that takes "d k" takes k and no other,        *)
(* whatever they split and merge, and no write, no return, no end of the   *)
(* process at the prompt and no reopening changes anything.                *)
Promise == INSTANCE Dictionary WITH
    content <- Content,
    running <- cmd,
    broken  <- ~Sound
ImplementsDictionary == Promise!Spec

-----------------------------------------------------------------------------
(* The tree under Top, as the program sees it.                             *)

(* The levels below page top: <<p, low, high>> for each page p, and the    *)
(* keys low .. high - 1 for which find_leaf comes to p.                    *)
Levels(image, top) ==
    LET level[j \in PageNo] ==
            IF j = 0 THEN {<<top, 0, KeyMod>>}
            ELSE UNION {IF image[e[1]].leaf THEN {} ELSE Subtrees(image[e[1]], e[2], e[3]) :
                           e \in level[j - 1]}
    IN  level

(* What is on one level: leaves or internal pages, only the root of them   *)
(* without keys, none overfull, each in order and with children that know  *)
(* their parent.                                                           *)
LevelInOrder(image, top, row) ==
    \A e \in row :
        LET c == image[e[1]]
        IN  /\ c.n > 0 \/ e[1] = top
            /\ c.n < IF c.leaf THEN LeafOrder ELSE InternalOrder
            /\ SlotsInOrder(c, e[2], e[3])
            /\ \A f \in row : image[f[1]].leaf = c.leaf
            /\ ~c.leaf => \A b \in Subtrees(c, e[2], e[3]) : b[1] # 0 /\ image[b[1]].parent = e[1]

InOrderBelow(image, top) ==
    LET level == Levels(image, top)
    IN  /\ image[top].parent = 0
        /\ \A j \in PageNo : LevelInOrder(image, top, level[j])
        /\ level[MaxPage] = {}

(* The sequence of leaves that starts at page p, by next_offset. *)
Chain(p) ==
    LET from[most \in PageNo] ==
            [x \in PageNo |-> IF x = 0 \/ most = 0 THEN <<>>
                              ELSE <<x>> \o from[most - 1][pages[x].off[0]]]
    IN  from[MaxPage][p]

(* All leaves are chained from left to right. *)
LeavesChained ==
    LET level  == Levels(pages, Top)
        leaves == {p \in {e[1] : e \in UNION {level[j] : j \in PageNo}} : pages[p].leaf}
        chain  == Chain(FindLeaf(pages, Top, 1))
    IN  /\ leaves = {chain[i] : i \in 1 .. Len(chain)}
        /\ \A i \in 2 .. Len(chain) : pages[chain[i - 1]].key[0] < pages[chain[i]].key[0]

(* insert_into_parent climbs by parent_offset, get_neighbor_index and      *)
(* merge_nodes trust n, offsets and next_offset: until a path in Harm is   *)
(* taken, every command leaves a B+ tree with correct links of all kinds   *)
(* (only the root may be empty, since merges are delayed).                 *)
WellFormed == Sound /\ Top # 0 => InOrderBelow(pages, Top) /\ LeavesChained

-----------------------------------------------------------------------------
(* The file between two writes.                                            *)

(* The page that will be handed out next after a kill is referenced by no  *)
(* page that a search reaches: file_alloc_page writes the header before    *)
(* anyone links the page.  (free_offset 0 is the damage file_free_page     *)
(* does, see FileManager.tla.)                                             *)
FrontierAhead ==
    LET reached == {FindLeaf(disk, diskHeader.root, k) : k \in Key}
    IN  diskHeader.free # 0 /\ "lostSubtree" \notin harm =>
            /\ diskHeader.root < diskHeader.free
            /\ \A p \in reached : p < diskHeader.free
            /\ \A p \in reached \ {0} : \A i \in OffSlot : disk[p].off[i] < diskHeader.free

(* At every write of an insertion the file is searchable: whoever opens it *)
(* then reaches a leaf for every key, never the header, never a page that  *)
(* was allocated and not yet written.                                      *)
InsertKeepsFileSearchable ==
    Sound /\ cmd.kind # "delete" /\ diskHeader.root # 0 =>
        \A k \in Key : LET p == FindLeaf(disk, diskHeader.root, k)
                       IN  p # 0 /\ disk[p].leaf

(* A kill in the middle of a command makes nothing appear, and what it     *)
(* makes disappear (besides the key of the command) is one run of          *)
(* neighboring keys: the part a split or a merge is moving.                *)
KillLosesOneRange ==
    LET lost == Content \ (OnDisk \cup {cmd.key})
    IN  Sound =>
        /\ OnDisk \subseteq Content \cup {cmd.key}
        /\ \A a, c \in lost : \A b \in Content :
              a < b /\ b < c => b \in lost \cup {cmd.key}

-----------------------------------------------------------------------------
(* What the repository says and the code does not do.                      *)

(* "d <k> -- Delete key <k> and its associated value." (bpt.c:21), and no  *)
(* other key.                                                              *)
DeleteRemovesOnlyItsKey ==
    [][\A k \in Deletable : CmdDelete(k) => Content' = Content \ {k}]_vars
=============================================================================
