# A TLA+ verification of the on-disk B+ tree

The repository holds three generations of one program, a B+ tree of
(integer key, 120 byte value) records in a file of 4096 byte pages behind a
small command prompt, and two thread exercises:

| generation | files (under `src/on-disk-bpt/`) | state of the code |
|---|---|---|
| 1 | `bpt.c`, `bpt.h` | one table, every page access is a `read` or `write`; builds and runs |
| 2 | `_bpt.h`, `utility.c`, `file.c`, `buffer.c`, `open.c`, `close.c`, `find.c`, `insert.c`, `delete.c`, `main.c` | the split version with a buffer pool; its header defines a variable, so the objects do not link |
| 3 | `bpt3.c`, `bpt3.h` | one file again, up to 10 tables, a buffer pool of 10 frames; it includes `"bpt.h"` (`bpt3.c:1`), so it builds only with `bpt3.h` renamed to that |

The modules here model generation 1 as far as its file is concerned, the search
loop that all three share, the buffer pool, the tables and the main loop of
generation 3, generation 3 as a whole (tree, pool, tables, files and commands)
as far as it is defined, and the thread exercises.

## Inventory

| part | state it keeps | operations | talks to | what makes it correct |
|---|---|---|---|---|
| file manager (`bpt.c:205-260`) | page 0 (`free_offset`, `root_offset`, `num_pages`) on disk and as the global `header`; the free list, linked through the first word of free pages | `file_alloc_page`, `file_free_page`, `file_read_page`, `file_write_page` | called by the tree for every page | a page handed out has no other owner and is not the header; the frontier on disk is ahead of every linked page when the process dies |
| opening (`bpt.c:265-299`) | `fp`, `header`, `root` | `open_db`, `make_header` | the file manager | a reopened file continues where the last process stopped |
| search (`bpt.c:304-385`) | locals `p`, `q`, `i`, `flag` | `find_leaf`, `find` | reads pages | finds exactly the keys of the page, follows the right child, ends |
| insertion (`bpt.c:390-751`) | pages; `root`; `header->root_offset` | `insert` and its splits up to the root | file manager, search | adds its key and nothing else; order, separators, parent and sibling links stay correct; the file is searchable after each write |
| deletion (`bpt.c:756-1098`) | the same | `delete`: removal, delayed merges, redistribution, new roots | file manager, search | removes its key and nothing else; ends |
| prompt (`bpt.c:1123-1189`) | none | `i`, `d`, `f`, `t`, `q` | the tree | a key twice is refused, an absent key is reported |
| buffer pool (`bpt3.c:280-481`, `buffer.c`) | frames with page, pin, dirty mark; LRU list | `buf_get_page`, `buf_put_page`, `buf_find_frame`, `buf_alloc_page`, `buf_free_page` | file manager below, tree above | a page is in one frame; a pinned frame is not reused; a marked change reaches the file |
| tables and command loop (`bpt3.c:486-574`, `1438-1521`) | `header[]`, `root[]`, `table_id[]`, `last_table`, `flag` | `open_table`, `close_table`, commands `c`, `i`, `d`, ... | pool, tree | a command works on the table chosen last; the end of input ends the program |
| thread exercises (`prac_mutex.cpp`, `prac_pthread.cpp`) | `cnt_global` | 10 threads increment it | mutex | with the mutex no increment is lost |

What is hard here. Nothing in generation 1 runs concurrently, and nothing is
logged or made atomic: a command is a sequence of page writes and the process
may be killed between any two of them. Inside a command the difficulties are
the ones of index structures: off-by-one errors at page boundaries, cascades of
splits and merges through parent links kept in every page, and copies of pages
in memory (`header`, `root`) beside their originals in the file. `PROJECT.json`
lists the hazards at their lines with the properties that cover them.

## Modules

    FileManager        allocation, the header, the free list, kills
      FileManagerProofs
    NodeSearch         the binary search loop, one action per branch
      MCNodeSearch, NodeSearchProofs
    Node               operators: what the tree does to the arrays of a page
      NodeProofs
      BPlusTree        commands, the order of their writes, kills, reopening
        INSTANCE Dictionary (what the tree promises)
        TreeProofs     (extends NodeProofs too)
        CommandProofs  (extends TreeProofs)
    BufferPool         operators: the calls of generation 3's pool
      Session          main, tables, command c, every sequence of pool calls
        MCSession
        SessionProofs  (the pool and the sessions)
        INSTANCE LRUPool (what the list of frames promises)
      PooledTree       generation 3 as a whole: its tree over its pool
        MCPooledTree
        INSTANCE Node (the same arrays as in generation 1)
    Counter            the thread exercises
      CounterProofs
    Intervals          induction over intervals of numbers, for the proofs

### FileManager

`hdr` and `dhdr` are the header in memory and on disk, `word[p]` the first word
of every other page: `parent_offset` of a node and `next_page_offset` of a free
page are the same bytes, and `file_alloc_page` reads whatever is there. The
file has two writes per operation at most; `phase` says where between them the
process is. Callers are an environment: they own what `Alloc` returned, write
nodes into it with any owned page (or none) as parent, save the header, and
give pages back. `owners`, `frees`, `leaks`, `torn`, `zero` and `crashes` are
ghosts.

The model contains the defect of `file_free_page` as it is: `memset` clears the
page number before it is stored in `free_offset`, so after any free the next
page handed out is page 0, the header itself. So the natural property, that a
page handed out is free, fails (`free_list`). What does hold is checked in
`file_manager`: everything is correct until the first free
(`FreshUntilFirstFree`), page 0 is the only
collision one free alone can cause within one run of the process
(`TwoOwnersNeedTwoFrees`), and `num_pages` counts correctly as long as nobody
overwrites page 0 (`NumPagesCountsOwners`).

### NodeSearch

One action per branch of the loop of `find`; `find_leaf` has the same loop in
internal pages. The loop compares slot `i` before it tests `p >= q`, so it
reads slot `num_keys`, behind the last key. What it finds there differs: `bpt.c`
clears the slots it gives up; in `bpt3.c` a removal counts `num_keys` down twice
(1077, 1078), which leaves a key of the page in that slot, and a page that is made
keeps the bytes its frame had before. So a page (`IsPage`) has anything behind its keys, and
`PhantomIsKeyBehind` says when the slot is taken for a key: exactly when it holds the
key searched for and every key of the page is smaller. In `bpt.c` that is key 0 in an
empty page. In `bpt3.c` it is also key 0 in a page of negative keys, and a key that was left behind:
after `i 1`, `i 2`, `d 1` the page counts no key and `find` still hits 2 in slot 0.
`SearchCorrect` is about every other search.

### Node and BPlusTree

`Node` has the operators for one page or two: `LeafWith`, `LeafHalves`,
`NodeWith`, `NodeHalves`, `RemoveEntry`, `ShiftLeaf`, `ShiftNode`. A page is one record for
leaves and internal pages, because the C structs overlay: `next_offset` is
`offsets[0]`. Only keys are modelled, since values travel with them. Keys go
through `ToInt` where the code stores them in an `int`.

`BPlusTree` has one action per command. A command runs alone and reads its own
writes, so it is a function from a state record `s` to another, built from the
same steps as the C functions (`Insert` calls `SplitLeaf`, which climbs by
`InsertIntoParent`, and so on), with `s.log` the page writes in program order.
The command's action sets the memory view (`pages`, `header`, `root`) and hands
the log to `todo`; `Flush` moves one write at a time to `disk`, `Crash` may
come between any two, and `Open` starts over from what `disk` holds.
`root` is kept apart from the page it was copied from, because `adjust_root`
reads `num_keys` from the copy.

Where the program leaves what a model can follow (a node written over the header
page, a store outside an array) the state is `corrupt`; a NULL
access is `segv` and ends the process; a loop that never ends is `hung`. These are
end states of commands, with the writes made before them.
Deadlock checking is off in the tree runs because such a process really stops, and because keys and pages run out.

The code has several paths after which the tree is not what it should be. Each sets a tag
in the ghost `harm` at the place in the code where it happens
(`truncated`, `staleSeparator`, `scrambled`, `lostSubtree`, `staleRoot`,
`cutShort`, `torn`). The properties say: as long as no tag is set, everything is right.
They are checked for all command sequences within the bounds, so there
a command that changes another key than its own, changes none, or breaks the order, the parents or the
chain of leaves has taken one of the tagged paths; without a tag it would violate `ImplementsDictionary` or `WellFormed`.
What happens after a tag is set no property judges. `delete_one_key` shows one such path; the
hazards of the others in `PROJECT.json` name no property, and their notes name the tag.
Two of the paths end a command (`cutShort`) in a way the code's comments do not expect.
`get_neighbor_index` (`bpt.c:873`) bisects page numbers as if they were sorted, and never ends (`hung`) for a leaf
whose number is smaller than that of its left neighbor. And in a file that was closed
without a tree, `open_db` makes `root` a copy of page 0, so the first `insert`
skips `start_new_tree` (`bpt.c:733`) and dereferences NULL (`segv`).

`Dictionary` is the abstract specification: a set of keys and the command that runs. `Insert(k)` takes the
command `i k` and adds `k`, `Delete(k)` takes `d k` and removes `k`, both in one step and for a `k` that is
absent or present before; `Return` goes back to the prompt and changes nothing; `Break` is for a file that
promises nothing any more. `ImplementsDictionary` is the refinement, with `content` the keys `find` finds,
`running` the model's `cmd`, and `broken` the statement that a tag is set. Since `cmd` is mapped, a step that takes a command cannot be a
stutter and cannot change another key than the command's. Every single write of the command, a kill or quit at the prompt and a reopening
are stuttering steps: nothing may change.

The operators were compared with the compiled program on
1000 random command scripts with quits and reopenings, for five pairs
of orders: all final files agree page by page, and all 20,000 page writes
agree in order and content.

### BufferPool, LRUPool and Session

`BufferPool` keeps the pool of `bpt3.c:280-481` in a record `s`: for every frame
its tag (`table_id`, `page_num`), its mark, its pin and the two pointers of the list of
last use, and `first_buf` and `last_buf`. A page is a pair of table and number.
Of a frame's bytes the model keeps whose they are (`shows`) and how they relate
to the file (`bytes`: `saved`, `changed`, or `unmarked` for a change that was put
without a mark and will never be written). `is_pinned` and `is_dirty` are of
type `bool` in C, so `is_pinned--` turns a pin over (`Flipped`): putting a page twice
pins it. A frame is marked directly before it is put, as in all the tree's functions.

`Session` is `main` of `bpt3.c`. `open_table`, command `c`, `q`, and the end of
input with the rounds of `close_table` are actions; `phase` says where `main` is.
A command on a table is any sequence of the calls the tree's functions make
(`Get`, `Change`, `Put`, `Update`, `Alloc`, `Free`, `UpdateHeader`), which
includes every sequence they do make. Table `k` of the model is the `k`-th one opened,
descriptor `k + 2` of the program, and `TABLE_COUNT` is the number of tables
`header[]` has room for: 7 in the program, whose array has 10 places and whose first descriptor is 3.

What the pool does wrong is in the model as it is:

- `buf_free_page` looks for the page instead of the header and reads the header
  into that page's frame, which keeps its tag. `header[t]` points into a frame
  that is reused once it is put, so the header may be read from and written to another
  page's bytes. From there on (`harm`) the model follows the program no further.
- The search for a frame to reuse dereferences NULL when every frame is pinned (`segv`).
- `flag` of command `c` is never reset: after the first return to a table, no
  further file is opened, and the commands that follow work on the old
  table. `usage` says "c <s>  -- Change current file to <s> file"
  (`bpt3.c:28`). `FollowsChange` states exactly when a change is ignored.
- `close_table` links the list to itself and never ends, unless it starts at the
  last frame, which it then frees twice (`end_of_input`).

`LRUPool` is what the pool should be: frames in order of last use, `Use`,
`Load` and `Release`. `ImplementsLRUPool` shows that the pointers implement it, until `close_table`
takes the list apart. The abstract pool inherits one quirk: `Release` may pin.

The pool's operators were compared with the compiled functions on
400 random call sequences (10,185 calls, 4 frames, 2 tables): all fields agree after every call.

### PooledTree

`PooledTree` composes `BufferPool` with the page operators of `Node`: the
functions of `bpt3.c` one by one (`FindLeaf`, `MakePage`, `SplitLeaf`,
`InsertIntoParent`, `InsertIntoNewRoot`, `Erase`, `PrintTree`, `OpenTable`, ...), with every
call of the pool they make, in their order. Now a frame has bytes (`s.data`), and so has
a file (`s.disk`). A pointer to a page is the number of its frame, and what it points to is
whatever the frame holds when it is used; `header[]` and `root[]` are such
pointers, and so are the leaf and its new neighbor while a split climbs. The
header page is the same record as a node, because the C structs overlay
(`free_offset` is `parent_offset`), and a read behind the end of a file leaves the
frame's old bytes. The actions are the commands `i`, `d`, `f`, `t`, `c` and `q`, the
start of a process, and a death inside `printf` (`find` of an absent key
returns NULL, which is printed with `%s`; a compiler may turn that into `puts(NULL)`,
so both outcomes are in `FindKey`). A kill at the prompt is the same step as `q`, since `q`
writes nothing either.

`print_tree`, which runs after every `i` and `d`, is part of the command and not
only output: it is what puts the pages that searches got and never
put, and what writes the parent links that `insert_into_new_root` marks and
does not write.

A process is followed until one of these happens, and is `undefined` from there on:

- A frame is reused that `header[]`, `root[]` or a pointer in the middle of a split still
  points to (`s.stale`).
- A delete or the split of an internal page frees a pool frame (`end` is `freed`).
  `erase` of a key that is there always does, so `merge_nodes`, `adjust_root` and `replace_entry` are never
  reached in a defined state.
- The pool follows a NULL frame (`segv`), or a node is read from the header page, or a walk over the tree
  does not end (`corrupt`). `FitsIsSafe` shows that these two come only after the first.

Frames are interchangeable: nothing tells `buf[2]` from `buf[5]` but its place in
the list and the pointers to it. `MCPooledTree` gives TLC the frames in list order as its `VIEW`.

The model was compared with the compiled program on more than 900 random scripts of commands and
restarts (orders 2 to 4, 4 to 12 frames, 2 to 6 tables; over 13,000 commands): after each command the tags,
pins, marks, list order and bytes of all frames and the bytes of all files agree, up to the point
where the process is not followed any further. What the model says of the 10
frames of the program happens there too: with six tables `a.db` to `f.db`, each opened by `c` and
given `i 1`, the return to `a.db` and `f 1` crash it.

### Counter

One action for each lock, load, store and unlock of a thread. Without the mutex
`cnt_global++` is a data race: a build may keep the counter in a register over
several rounds, so a store stands for one or more increments and the register may live on.
`pthread_create` reports failure by a positive number, which `main` takes
for success; then it joins a thread that was never set (`JoinNobody`).

## Runs

| run | bounds | shows |
|---|---|---|
| `file_manager` | pages 0..4, 2 frees, 2 kills | the allocator's properties, every interleaving of callers' writes and kills |
| `free_list` | pages 0..3, 1 free | violated: `AllocTakesFreePages` (comments `bpt.c:203`, `226`) |
| `node_search` | up to 4 keys of -3..3 | every sorted page with anything behind its keys, every key: `SearchCorrect`, `PhantomIsKeyBehind`, `Terminates` |
| `tree_deletes` | orders 3/3, keys 1..5, 1 kill, 3 bit `int` | all tree properties with splits of internal pages, merges, kills and truncated separators |
| `tree_inserts` | orders 3/3, keys 1..8 | all 8! insertion orders, splits that cascade over two levels and more |
| `tree_order4` | orders 4/4 of `bpt.h`, keys 1..6 | dictionary and structure with the real orders |
| `delete_one_key` | orders 4/4, keys 1..4 | violated: `DeleteRemovesOnlyItsKey` (`usage`, `bpt.c:21`) |
| `session` | 3 frames, 2 tables, pages 0..1, 3 names | every sequence of pool calls and `c` commands: `LostOnlyUnmarked`, `ImplementsLRUPool`, ... |
| `counter` | 3 threads, 2 increments | both programs: `ExactWithMutex`, `BoundsWithRace`, `Ends` |
| `end_of_input` | 3 frames, 1 table, pages 0..1 | violated: `EndOfInputEnds` (`usage`, `bpt3.c:29`) |
| `pooled_tree` | 7 frames, 2 tables, pages 0..7, orders 2/3, 4 keys in all | all of `bpt3.c`: `FitsIsSafe`, `PromptIsSaved`, `FilesHoldWhatWasTyped`, ... |
| `pooled_delete` | 10 frames, 1 table, orders 4/4, keys 1..3 | violated: `DeleteRemovesOnlyItsKey` (`usage`, `bpt3.c:25`) |

Why the bounds are enough. Order 3 is the smallest for which an
internal page splits; 5 keys fill 4 leaves and split the internal root, and
deletions empty each of them in every order. Redistribution that
takes records back from a left neighbor needs leaves with 3 records, hence
`tree_order4`. Truncation depends only on whether a separator fits the low half of an
`int`: with `IntMod` 8 keys 4 and 5 do not. In `tree_inserts` the
`int` is wide enough for every key, so no tag is ever set and the properties are unconditional there.
The allocator needs two frees before a page has two owners, and two kills to reopen
a file twice.

With 3 frames the list has a first, a middle and a last frame, which are
the three cases of the pointer code, and 2 tables of 2 pages are more pages than frames, so frames
are reused and can all be pinned. Three names and two tables reach the return to a
table, the ignored change, and one table more than the arrays hold (`corrupt`).
Three threads wait for one mutex in every order, and two increments are the least with
which one thread's old value can erase several of another's.

In `pooled_tree` leaves of one record split at every key after the first, so four keys
reach a new root and the split of an internal page. Seven frames hold one table whole
and two only when they are small: both ends of `FitsIsSafe`, a
tree that fits until it frees a frame and a page too many, are reached. The
bounds are `MaxRecords`, the keys in all files, and `Sought`, the keys of `f`; tables are
numbered in the order their files are made (`InOrder`). The six properties also passed once with leaves of
two records and five keys (277,660 states). Deadlock checking is off in both `pooled` runs
because an undefined process has no next step.

The file is bounded by `MaxPage`: a command that would need more pages is not
taken (`Run`), and `Alloc` stops. Key 0 is left to `NodeSearch`.

Fairness. `NodeSearch!FairSpec` and `Session!FairSpec` assume that
straight-line code of one thread takes its next step (the search loop, the
rounds of `close_table`; nobody is obliged to type a command). `Counter!FairSpec` assumes that the scheduler
forgets neither `main` nor a thread. Weak fairness is enough for the mutex, because each thread takes
it a bounded number of times. All other properties are safety.
Deadlock checking is off in `session`, `end_of_input` and `counter` because those programs end.

### The properties of the tree

- `WellFormed`: on every level (`Levels`, the pages with the separators above them) keys are sorted and between
  the separators, with zeros behind them; all pages of a level are leaves or none is; only the root may
  have no keys, none has too many; children know their parents (`InOrderBelow`). And the leaves are
  chained in the order of their keys (`LeavesChained`).
- `FrontierAhead`: in the file, at every single write, the page to be handed
  out next is behind every page a search reaches or links.
- `InsertKeepsFileSearchable`: after any prefix of the writes of an insertion
  whoever opens the file reaches a leaf for every key. The order of the writes (pages first, the
  header last) is what makes it true.
- `KillLosesOneRange`: what a kill in the middle of a command can cost is one
  run of neighboring keys, besides the key of the command; keys never appear.
- `TypeOK`: also that no array of a page is left and that `num_pages` stays in the file.

### The properties of the pool

- `DirtyIsPinned`: what is marked and not yet written is pinned. It is the reason why a
  frame may be reused without being written, and no line of the code says so.
- `LostOnlyUnmarked`: hence no change is lost but those put without a mark.
- `FramesShowTheirPage`: a frame has the bytes of the page it passes for, until
  a page is freed or a header whose frame was reused is used.
- `CrashesOnlyWhenFull`: a NULL frame means that every frame is pinned.
- `OneFramePerPage`: a page is never in two frames, whose versions would overwrite each other. It
  depends on every search reaching the whole list, however it was relinked, and on command `c` coming back to an open table
  instead of opening it again.
- `FollowsChange`: command `c` leads to the table asked for, up to the flag that is never reset.

### The properties of generation 3 as a whole

- `FitsIsSafe`: the pointers are good exactly as long as all pages the process
  ever asked for, of all its tables, fit into the pool together; the pool never replaces a page
  without harm.
- `VictimIsPointedTo`: the reason. After a command everything is pinned except the
  frames that `header[]` and `root[]` point to, so these are replaced first.
- `PromptIsSaved`: at the prompt no frame is ahead of its file, although
  `insert_into_new_root` leaves its two leaves marked and pinned: `print_tree` turns their pins over and
  writes them.
- `FindTellsTheFile`: what `f` answers from the pool in any open table is what a new process
  would answer from the file.
- `FilesHoldWhatWasTyped`: every file holds the keys typed into it and no other, over splits, changes of
  table, restarts and deaths. A delete that frees nothing (of an absent key) changes nothing.

## Proofs

Everything below holds for every value of the constants that the `ASSUME`s
of the modules admit: any number of pages, frames, tables, threads, frees and kills, any
order of the tree and any width of a key. No theorem of a specification (`Spec => ...`) has another
hypothesis.

Loops of the source are recursive functions here (`f[i \in S] == ... f[i + 1] ...`). TLA+
takes such a definition as a `CHOOSE`, so a proof about one has two parts: a function
that satisfies the equation exists, and every function that does has the
property. Both are inductions over the slots, the levels or the steps. The library's
induction theorems take an operator, which the provers cannot instantiate;
`Intervals` states induction over an interval for the members of a set instead (`IntervalInduction`),
from the fact that a set of numbers has a least element.

### Allocation (`FileManagerProofs`)

`TypeCorrect` is inductive as it stands. `FreshUntilFirstFree` is not: after a kill
the header comes from the disk, and a fresh page must have first
word 0, or `file_alloc_page` would take it for a list element. `FrontierInv` adds that before the first
free the header in memory equals the one on disk between operations, that its
`free` equals its `num`, and that no page from there on has an owner or a nonzero first
word. `FreshPages` follows.

`TwoOwners` (`Spec => []TwoOwnersNeedTwoFrees`) needs to know where one free leads:
`DetourInv` says that, while at most one free happened, the header either hands out the frontier
(`Straight`) or hands out page 0 first and has the frontier one behind (`Detour`); after page 0 was taken the
allocator is straight again. A header cleared by a kill during creation is a detour too.

`PagesAreCounted` (`Spec => []NumPagesCountsOwners`): `CountedInv` adds to it the exact value of
`num_pages` in memory and on disk in every phase, with the header on disk one ahead between the two writes of
a free. The number of owners is the cardinality of a set of pairs (`Live`), so that an
allocation adds one element and a free takes one away.

### Search (`NodeSearchProofs`)

`SearchTypeCorrect`, `SearchIsCorrect` and
`PhantomIsLeftBehind`. The inductive invariant `SearchInvariant` is the classical one, every key left of `p` is smaller and
every key from `q` on is larger than the key searched for, with the middle index `i` fixed to `(p + q) \div 2`; the lemma
`Middle` keeps `i` in range.

### Threads (`CounterProofs`)

`NoIncrementLost` rests on an invariant that a thread between lock and unlock
is the mutex's holder and that what it loaded is still the counter (`Holder`), that no register is ahead
of the increments stored (`Behind`), and that a thread in the middle of an increment has one left (`Owing`).
`SumIsExact` (`ExactWithMutex`) and `RaceIsBounded` (`BoundsWithRace`) are about the sum over the
threads. `CountInv` counts the increments as a set of pairs of a thread and a number (`Incs`): a
store adds one element, and when `main` prints, the set is all threads created times all rounds. That two increments per
thread leave at least a 2 needs `Small`: a counter of 1 is the
work of a thread that has an increment to make.

### Buffer pool and tables (`SessionProofs`)

`MarkedFramesArePinned` rests on `Safe`, which
is `DirtyIsPinned` of any pool with its types: one lemma per call of the pool says that it keeps `Safe`.
`buf_put_page` needs less before it (`SafeBut`), since `Update` marks a frame
that may be unpinned directly before. `ChangeIsFollowed` follows from an
invariant about the names (`Names`).

The rest follows from one invariant of the pool, `PoolInv`:

- the types (`PoolState`);
- `Linked`: the frames in the order the `next_of_LRU` pointers list them are all frames, each once, and
  the `prev_of_LRU` pointers list them backwards. `Relinked` is the core: the pointer assignments of
  `buf_get_page` (`bpt3.c:411-426`) take one element out of such a list and put it at the end, with all cases
  of the first, a middle and the last element;
- `Unique`: no page has two frames, because `buf_get_page` reads a page only after the search along
  the list found none, and the list reaches every frame;
- `Clean`: until frames are mixed up (`harm`), every frame shows its page, no change was
  lost, a changed frame is pinned, and a crash found everything pinned.

Each call keeps it (`GetKeeps`, `PutKeeps`, `MarkAndPutKeeps`, `AllocKeeps`, `FreeKeeps`). `SessionInv` puts it together
with what `main` knows (every open table has its header in a frame, `HeaderPart`) and with the rounds of
`close_table`, which destroy the list (`ClosePart`). `Unique` and `Clean` stay true even then, and
after a reused header was used or a frame was freed (`PoolPart`). It gives `SessionTypes`, `PagesHaveOneFrame`, `NoMarkedChangeIsLost`,
`FramesKeepTheirPage` and `CrashMeansFull`.

`PoolRefinesLRU` is the refinement `Spec => ImplementsLRUPool`, step by step: with the abstract order read off the
pointers by `Order`, a hit or a miss of `buf_get_page` is `Use` or `Load`, a put is `Release`, every other call
stutters.

### Pages of the tree (`NodeProofs`)

`SlotsInOrder(c, low, high)` is what `WellFormed` asks of one page: keys increasing,
between the separators above, zeros behind them. Each page operation keeps it:
`LeafTakesKey`, `LeafSplits`, `NodeTakesKey`, `NodeSplits` and `PageLosesKey` say with which keys
and, for internal pages, which branches (`Subtrees`: a child with the keys below it) the page or the two halves are left.
An insertion divides one branch, a split shares the branches out, a removal unites two. `SearchIsExact`
and `SearchGoesDown` are about the same `Search` that the tree uses: it hits the keys of the page at their slots,
and `find_leaf` goes to the child whose branch holds the key.

### The tree (`TreeProofs`, `CommandProofs`)

`TreeProofs` is about trees and single operations on them, `CommandProofs` about the process: whole commands, the
writes, and the theorems of `Spec`. `InOrderBelow(image, top)` is the part of `WellFormed` about the levels of a tree; TLC checks it at every
state of the three tree runs. From it:

- `FindLeafIsRight`, `FindIsExact`: `find_leaf` ends on the leaf whose separators enclose the key, and
  `find` finds exactly the keys in the leaves. `Levels` goes on after the last level (with empty ones), which is
  awkward to reason about; `IsTree(rows, h)` is the same with the height `h` made explicit, and `RowsExist` and
  `FromAbove` translate. No leaf is on two levels and no key belongs to two leaves.
- `OnePlace`: every page is in one place of the tree. It is why a page can be rewritten without
  another part of the tree noticing, and it is not part of `InOrderBelow`: the parent links and the
  separators imply it, level by level from the root.
- `InsertIntoLeaf`, `DeleteFromLeaf`: for a process that has a tree in order (`Ready`), the command `i` of a key
  whose leaf has room, and `d` of a key whose leaf keeps others, leave a tree in order, set no tag of `harm`, and
  change `Content` by exactly their key. These are the two steps of `ImplementsDictionary` that nearly every
  command takes; the deletion's proof unfolds the climb (`DeleteOnce`) and shows that it ends at
  the leaf. In a tree of one leaf the deletion asks that the copy `root` has a key, since
  `adjust_root` looks at the copy: `root.n = 0` there is the defect the tag `staleRoot` stands for.
- A split climbs the tree with one page too many on a row: the row has both halves, the parent still the old
  branch. `HalfDone(image, top, rows, h, i, w, k, right)` says so for row `i`. `LeafIsHalfDone` starts there
  in the row of leaves, with the new key in one of the halves; `NodeIsHalfDone` takes it one row up, with the children
  of the new page told their parent; `ParentTakesChild` and `RootGrows` end it with a whole tree (`IsTree`).

- A deletion climbs with a page too few. `LeafStays`: the leaf keeps keys. Otherwise it is empty and shares its
  parent with a neighbor, the one that `get_neighbor_index` finds (a binary search by page number in offsets that are in key order: if it does not
  end, the command hangs, which is `cutShort`). `MergeArrives`: the two leaves of `merge_nodes`
  become one that covers the keys of both, and the parent has one separator more than branches (`Pending`) until the
  next call of `delete_entry` takes it. If that leaves an internal page without keys, its merge is the
  defect `lostSubtree`, and if an old copy of the root is asked, `staleRoot`; so a climb that stays out of `Harm` ends one
  level above the leaves at most (`InteriorsHurt`, `SeparatorLoses`).

- `TreeIsADictionary`, `TreeStaysInOrder`: `Spec => ImplementsDictionary` and "the tree is in order until
  a path in `Harm` is taken", for every order, file size, set of keys and set of keys to delete. The argument:
  1. A command in the model is a record that is passed from one call to the next. `Running(s)` says of
     it that nothing in `Harm` happened and that its log *tells* every page that differs from the pages
     it began with: flushing the log gives what the process has in its pages (`ToldPages`, `ToldHeader`; `Shows`).
     Each call that reads, makes, frees, writes a page or sets the root keeps that (`WriteRuns`, `MakeRuns`, `SetRootRuns`, `AdoptRuns`).
  2. `Room`: the pages from `header.free` on are clear and in no row of the tree, so that
     `file_alloc_page` hands out a page that is not in the tree yet (`ClearAhead`), and the tree is lower than the number of pages used, which is what lets
     `Climb`, a function over `0 .. MaxPage`, come to the root. A freed page sets `header.free` to 0, and then
     `file_alloc_page` uses page 0 as a node: no insertion that splits gets past it unharmed.
  3. `OnTheWay(s, keys, up)`: the tree is half done `up` rows above its leaves, and has these keys; `Arrived(s, keys)`:
     it is whole. `OneLevelUp` is one call of `insert_into_parent`, `InsertArrives` the induction over the levels;
     `HalfMerged` and `DeleteArrives` are the same for `delete_entry`.
     `Over` is the other way a command can end: the file is full, or something in `Harm` happened.
  4. `KeptInv` is the inductive invariant of the specification: while `harm` is empty, the tree, `Room`, the root's copy at the
     tree's root, and the writes still to do that turn the file into the pages. `ImplementsDictionary` alone is not inductive:
     what is found after the next split depends on pages that no search reads yet (`Room`) and on parents
     (`IsTree`), and what is found after reopening depends on the file, not on the pages.
  Each step maps to one of `Dictionary`: a command in the tree's order to `Insert` or `Delete` of its key
  (`CommandsAreTyped`: the command that runs is one of `Dictionary`'s), the last write to `Return`, every other step to a stutter, and one
  that sets a tag of `harm`, or comes after it, to `Break`. There is no hypothesis besides these.
- `TreeIsWellFormed`: `Spec => []WellFormed`. Besides the order of the tree it is about the chain of leaves. `Linked` says it
  in the terms of the rows: the `next_offset` of each leaf is the page of the entry that begins where this one ends, and 0 for
  the last. In this form a split or a merge touches two entries, and it is carried along with `IsTree` and `HalfDone`
  through both climbs. `Chain` turns it into what `print_leaves` would walk: the first leaf, then every other, each once, by
  induction over the number (the cardinality) of the leaves that are left.
- `FileStaysSearchable`: `Spec => []InsertKeepsFileSearchable`. While an insertion is being written, the file is neither the
  old tree nor the new one. What it has after every write is a rank for each page, the height above the leaves, such that each
  child of a page known by then has a smaller rank (`LeadsDown`, `FileSafe`), so that `find_leaf`
  goes down and ends (`SearchEnds`). `LogSafe` says of the writes still to do, in their order, that each one leads only to
  pages that are known when it comes: the halves of a split are written before the parent that gets the new one, a new root
  page before the header that names it. `TreeRanks` gives the ranks of a whole tree, `MakeLogs` the rank of a page
  when it is made (nothing leads there yet, by `Ahead`), `OneLevelLogs` and `ClimbLogs` take both up the climb. `FileInv`
  is the inductive invariant, on top of `KeptInv`: it speaks of the writes to come, since
  the property alone does not say that the next write finds its child in the file.

### Only model-checked

- Liveness: termination of the search and of the threads, the endless `close_table`.
- `KillLosesOneRange`: which keys a kill costs depends on the content of the file between any two writes, of deletions too,
  where pages that are freed are written over while the file still leads to them. `FileInv` bounds where a search of the
  file goes, not what it finds.
- `FrontierAhead` and `TypeOK` of `BPlusTree`: both also speak of the states after a path in `Harm`. There the
  database is no tree any more, and which pages a command still reaches, and so whether a counter stays in its
  type, is not a consequence of `KeptInv`.
- `PooledTree`. Its pool is the one `SessionProofs` is about; its tree works through pointers
  into frames, and what is true of it depends on what fits into the pool.
- The four runs that end with a violation.

## Not modelled, and why

- Generation 1's printing (`print_tree`, the queue, `path_to_root`) reads
  and changes nothing. A damaged tree can make it loop or crash; the model
  takes the command to be over before it. `print_leaves` and `height` are never called.
- `destroy_tree` and `shutdown_db`: never called.
- Generation 3 after a freed frame: its functions call `free` on pointers
  that `buf_get_page` turned into pointers to frames (`bpt3.c:910`, `1084`, `1111`, `1258-1260`,
  `1311-1312`), and the frames stay in the list. The behaviour is undefined from there on;
  the compiled program hangs on `i 1` to `i 10` because of it. Everything `erase` does after the first removal
  lies behind it.
- Generation 3 after a frame was reused that is still pointed to. The program goes on, with one page's bytes under another
  page's number; `Session` has the first steps of that (`harm`), for any calls.
- Kills in the middle of a command of generation 3; those of generation 1 are modelled.
- A file that cannot be opened or created in generation 3 (`header[-1]` is stored to).
- Generation 2 (`buffer.c`, `insert.c`, `delete.c`, ...). Its header defines variables, so the objects do not
  link and there is no program. Where its files differ from `bpt3.c`, they ignore
  the page `buf_get_page` returns and work on one that was never filled.
- One file under two names (`c ./a.db` after `a.db`): command `c` compares the strings (`bpt3.c:1489`) and opens the file
  a second time, as another table with its own header and frames. In `Session` and `PooledTree` a file has one name.
- `num_keys` below 0: in generation 3 a delete from a leaf that counts one key writes -1, and then frees
  a frame. What a later process does with such a page is not followed.
- Values, `scanf` parsing, key 0 in the tree (see `NodeSearch`).
- Short or failing `read`/`write`: the code ignores the results.
- `project1.sql`, `project2-1.txt`: queries and design notes.

## Plan

1. `FileManager`, `NodeSearch`, `Node`, `BPlusTree`, `Dictionary` (done).
2. `BufferPool`, `LRUPool`, `Session`, `Counter` (done).
3. `PooledTree` (done as far as the program is defined).
4. Proofs of allocation, search, threads, pool and tables: every invariant of their runs and the
   refinement of the pool (done).
5. Proofs of the pages and of commands that change one leaf (done).
6. Proofs of insertions that split and deletions that merge, up to `ImplementsDictionary` for every database (done).
7. Proofs of the chain of leaves and of the writes of an insertion one by one (done).
8. Left: what a kill costs (`KillLosesOneRange`), the frontier after a damage, and the same
   proofs for the tree over the pool.
