---------------------------- MODULE FileManager ----------------------------
(***************************************************************************)
(* The file manager of on-disk-bpt/bpt.c: the pages of one database file,  *)
(* the header page (page 0) with its copy in memory, and the free page     *)
(* list.  A page is reduced to its first word after the page number, the   *)
(* bytes that bpt.h reads as parent_offset in a node, next_page_offset in  *)
(* a free page and free_offset in the header.  The callers (the tree) are  *)
(* an environment that allocates, frees, overwrites pages it owns and      *)
(* rewrites the header; the process may be killed between two write()s.    *)
(***************************************************************************)
EXTENDS Integers, FiniteSets

CONSTANTS
    MaxPage,     \* bound: largest page number the model follows
    MaxFrees,    \* bound: number of calls of file_free_page
    MaxCrash     \* bound: number of times the process is killed

ASSUME BoundsAssumption ==
    /\ MaxPage \in Nat \ {0}
    /\ MaxFrees \in Nat
    /\ MaxCrash \in Nat

Page   == 0 .. MaxPage
Header == [free : Page, num : Int]
NoHeader == [free |-> 0, num |-> 0]     \* calloc(), or an empty file

VARIABLES
    phase,    \* where the process is: see Phase
    hdr,      \* the global header: free_offset and num_pages in memory
    dhdr,     \* the same fields of page 0 on disk
    word,     \* on disk, the first word of the body of every other page
    last,     \* what the last call of file_alloc_page returned
    owners,   \* ghost: how many live allocations of each page there are
    frees,    \* ghost: calls of file_free_page so far
    leaks,    \* ghost: frees cut short before the header was written
    torn,     \* ghost: the file was created but its header never written
    zero,     \* ghost: page 0 was handed out at some time
    crashes   \* ghost: times killed

vars == <<phase, hdr, dhdr, word, last, owners, frees, leaks, torn, zero, crashes>>
ghosts == <<frees, leaks, torn, zero, crashes>>

(* absent: no file; creating: open(O_CREAT) done, header not yet written;  *)
(* freeing: file_free_page between its two writes.                         *)
Phase == {"absent", "creating", "up", "freeing", "down"}

Init ==
    /\ phase = "absent"
    /\ hdr = NoHeader
    /\ dhdr = NoHeader
    /\ word = [p \in Page \ {0} |-> 0]
    /\ last = 0
    /\ owners = [p \in Page |-> 0]
    /\ frees = 0 /\ leaks = 0 /\ torn = FALSE /\ zero = FALSE /\ crashes = 0

-----------------------------------------------------------------------------
(* The first word of page p as read(2) returns it: page 0 is the header.   *)
FirstWord(p) == IF p = 0 THEN dhdr.free ELSE word[p]

(* open_db on a missing file: make_header computes the header in memory ... *)
CreateFile ==
    /\ phase = "absent"
    /\ phase' = "creating"
    /\ hdr' = [free |-> 1, num |-> 1]
    /\ torn' = TRUE
    /\ UNCHANGED <<dhdr, word, last, owners, frees, leaks, zero, crashes>>

(* ... and writes it. *)
WriteNewHeader ==
    /\ phase = "creating"
    /\ phase' = "up"
    /\ dhdr' = hdr
    /\ torn' = FALSE
    /\ UNCHANGED <<hdr, word, last, owners, frees, leaks, zero, crashes>>

(* open_db on an existing file. *)
OpenFile ==
    /\ phase = "down"
    /\ phase' = "up"
    /\ hdr' = dhdr
    /\ UNCHANGED <<dhdr, word, last, owners, ghosts>>

(* Mutant: a page is skipped. *)
AfterAllocSkipsPage(h, w) ==
    [free |-> IF w # 0 THEN w ELSE h.num + 2, num |-> h.num + 1]
(* Mutant: the next page is the one just handed out. *)
AfterAllocSamePage(h, w) ==
    [free |-> IF w # 0 THEN w ELSE h.num, num |-> h.num + 1]

(* What file_alloc_page makes of header h when the page at its free_offset *)
(* has first word w.                                                       *)
AfterAlloc(h, w) ==
    [free |-> IF w # 0 THEN w ELSE h.num + 1, num |-> h.num + 1]

Alloc ==
    /\ phase = "up"
    /\ hdr.num + 1 \in 1 .. MaxPage                     \* bound
    /\ last' = hdr.free
    /\ hdr' = AfterAlloc(hdr, FirstWord(hdr.free))
    /\ dhdr' = hdr'
    /\ owners' = [owners EXCEPT ![hdr.free] = @ + 1]
    /\ zero' = (zero \/ hdr.free = 0)
    /\ UNCHANGED <<phase, word, frees, leaks, torn, crashes>>

(* Mutant: the page given back is still counted. *)
AfterFreeNotCounted(h, p) == [free |-> 0, num |-> h.num]

(* file_free_page clears the whole struct before linking it, page number   *)
(* included, so the free_offset it then stores in the header is 0.         *)
AfterFree(h, p) == [free |-> 0, num |-> h.num - 1]

(* First write of file_free_page: the cleared page, linked to the old head. *)
FreePage(p) ==
    /\ phase = "up"
    /\ owners[p] > 0
    /\ frees < MaxFrees                                 \* bound
    /\ phase' = "freeing"
    /\ IF p = 0
         THEN dhdr' = [free |-> hdr.free, num |-> 0] /\ UNCHANGED word
         ELSE word' = [word EXCEPT ![p] = hdr.free] /\ UNCHANGED dhdr
    /\ hdr' = AfterFree(hdr, p)
    /\ owners' = [owners EXCEPT ![p] = @ - 1]
    /\ frees' = frees + 1
    /\ UNCHANGED <<last, leaks, torn, zero, crashes>>

(* Its second write: the header. *)
FreeHeader ==
    /\ phase = "freeing"
    /\ phase' = "up"
    /\ dhdr' = hdr
    /\ UNCHANGED <<hdr, word, last, owners, ghosts>>

(* A caller writes a node into a page it owns; the first word is a parent. *)
WriteNode(p, parent) ==
    /\ phase = "up"
    /\ owners[p] > 0
    /\ parent = 0 \/ owners[parent] > 0
    /\ IF p = 0
         THEN dhdr' = [dhdr EXCEPT !.free = parent] /\ UNCHANGED word
         ELSE word' = [word EXCEPT ![p] = parent] /\ UNCHANGED dhdr
    /\ UNCHANGED <<phase, hdr, last, owners, ghosts>>

(* A caller writes the header (a new root offset, or again after a free). *)
SaveHeader ==
    /\ phase = "up"
    /\ dhdr' = hdr
    /\ UNCHANGED <<phase, hdr, word, last, owners, ghosts>>

(* The process ends, by a kill or by a normal exit: memory is gone. *)
Crash ==
    /\ phase \in {"creating", "up", "freeing"}
    /\ crashes < MaxCrash                               \* bound
    /\ phase' = "down"
    /\ hdr' = NoHeader
    /\ leaks' = IF phase = "freeing" THEN leaks + 1 ELSE leaks
    /\ crashes' = crashes + 1
    /\ UNCHANGED <<dhdr, word, last, owners, frees, torn, zero>>

Next ==
    \/ CreateFile
    \/ WriteNewHeader
    \/ OpenFile
    \/ Alloc
    \/ \E p \in Page : FreePage(p)
    \/ FreeHeader
    \/ \E p, parent \in Page : WriteNode(p, parent)
    \/ SaveHeader
    \/ Crash

Spec == Init /\ [][Next]_vars

-----------------------------------------------------------------------------
(* Every variable keeps its type; num_pages is an integer here so that     *)
(* NumPagesCountsOwners can say it never goes below zero.                  *)
TypeOK ==
    /\ phase \in Phase
    /\ hdr \in Header
    /\ dhdr \in Header
    /\ word \in [Page \ {0} -> Page]
    /\ last \in Page
    /\ owners \in [Page -> Nat]
    /\ frees \in Nat /\ leaks \in Nat /\ crashes \in Nat
    /\ torn \in BOOLEAN /\ zero \in BOOLEAN

(* Until file_free_page is called for the first time, and provided the     *)
(* header made it to disk, no page has two owners, page 0 has none, and    *)
(* the page handed out next is past every page in use -- in memory and, so *)
(* that a kill and a reopen change nothing, on disk.                       *)
FreshUntilFirstFree ==
    frees = 0 /\ ~torn =>
        /\ \A p \in Page : owners[p] <= 1
        /\ owners[0] = 0
        /\ phase = "up" => \A p \in Page : owners[p] > 0 => p < hdr.free
        /\ phase = "down" => \A p \in Page : owners[p] > 0 => p < dhdr.free

(* A page with two owners takes two calls of file_free_page (the first     *)
(* makes the allocator hand out page 0, the second makes num_pages fall    *)
(* behind the end of the file), or a reopen after page 0 was handed out.   *)
TwoOwnersNeedTwoFrees ==
    (\E p \in Page \ {0} : owners[p] > 1) => frees >= 2 \/ (zero /\ crashes > 0)

(* The live allocations: the k-th of page p. *)
Live == UNION {{p} \X (1 .. owners[p]) : p \in Page}

(* num_pages counts the header, the live allocations and the frees a kill  *)
(* cut short, in memory and on disk, as long as page 0 is only the header; *)
(* so the uint64_t never wraps below zero.                                 *)
NumPagesCountsOwners ==
    LET inUse == Cardinality(Live) + leaks + IF torn THEN 0 ELSE 1
    IN  /\ phase \in {"up", "freeing"} /\ ~(zero /\ crashes > 0) => hdr.num = inUse
        /\ phase \in {"up", "down"} /\ ~zero => dhdr.num = inUse

(* What the comments "Allocate an on-disk page from the free page list"    *)
(* (bpt.c:203) and "Free an on-disk page to the free page list"            *)
(* (bpt.c:226) say: a page handed out is neither the header nor in use.    *)
AllocTakesFreePages ==
    [][Alloc => last' # 0 /\ owners[last'] = 0]_vars
=============================================================================
