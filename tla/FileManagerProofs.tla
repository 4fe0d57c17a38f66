------------------------- MODULE FileManagerProofs -------------------------
(***************************************************************************)
(* Proofs about FileManager.tla for every MaxPage, MaxFrees and MaxCrash.  *)
(***************************************************************************)
EXTENDS FileManager, FiniteSetTheorems, TLAPS

(* The first word of any page is a page number. *)
LEMMA FirstWordType ==
    ASSUME TypeOK, NEW p \in Page
    PROVE  FirstWord(p) \in Page
BY DEF TypeOK, Header, FirstWord, Page

(* TypeOK holds in every reachable state: in particular the header never   *)
(* points past the pages the model follows, whatever words the callers     *)
(* leave in the pages that the allocator mistakes for free pages.          *)
THEOREM TypeCorrect == Spec => []TypeOK
<1>1. Init => TypeOK
  <2> SUFFICES ASSUME Init PROVE TypeOK
    OBVIOUS
  <2>1. NoHeader \in Header /\ 0 \in Page
    BY BoundsAssumption DEF NoHeader, Header, Page
  <2>2. word \in [Page \ {0} -> Page] /\ owners \in [Page -> Nat]
    BY <2>1 DEF Init
  <2> QED BY <2>1, <2>2 DEF Init, TypeOK, Phase
<1>2. TypeOK /\ [Next]_vars => TypeOK'
  <2> SUFFICES ASSUME TypeOK, [Next]_vars PROVE TypeOK'
    OBVIOUS
  <2> USE BoundsAssumption DEF TypeOK, Phase, Page, ghosts
  <2>1. CASE CreateFile
    BY <2>1 DEF CreateFile, Header
  <2>2. CASE WriteNewHeader
    BY <2>2 DEF WriteNewHeader
  <2>3. CASE OpenFile
    BY <2>3 DEF OpenFile
  <2>4. CASE Alloc
    <3>1. hdr' \in Header
      BY <2>4, FirstWordType, SMTT(30) DEF Alloc, AfterAlloc, Header
    <3>2. owners' \in [Page -> Nat]
      BY <2>4 DEF Alloc, Header
    <3> QED BY <2>4, <3>1, <3>2 DEF Alloc, Header
  <2>5. ASSUME NEW p \in Page, FreePage(p) PROVE TypeOK'
    <3>1. hdr' \in Header
      BY <2>5 DEF FreePage, AfterFree, Header
    <3>2. dhdr' \in Header /\ word' \in [Page \ {0} -> Page]
      <4>1. hdr.free \in Page
        BY DEF Header
      <4>2. CASE p = 0
        BY <2>5, <4>1, <4>2 DEF FreePage, Header
      <4>3. CASE p # 0
        BY <2>5, <4>1, <4>3 DEF FreePage
      <4> QED BY <4>2, <4>3
    <3>3. owners' \in [Page -> Nat]
      BY <2>5 DEF FreePage
    <3> QED BY <2>5, <3>1, <3>2, <3>3 DEF FreePage
  <2>6. CASE FreeHeader
    BY <2>6 DEF FreeHeader
  <2>7. ASSUME NEW p \in Page, NEW parent \in Page, WriteNode(p, parent)
        PROVE  TypeOK'
    BY <2>7 DEF WriteNode, Header
  <2>8. CASE SaveHeader
    BY <2>8 DEF SaveHeader
  <2>9. CASE Crash
    BY <2>9 DEF Crash, NoHeader, Header
  <2>10. CASE UNCHANGED vars
    BY <2>10 DEF vars
  <2> QED BY <2>1, <2>2, <2>3, <2>4, <2>5, <2>6, <2>7, <2>8, <2>9, <2>10 DEF Next
<1> QED BY <1>1, <1>2, PTL DEF Spec

-----------------------------------------------------------------------------
(* The strengthening of FreshUntilFirstFree.  Its core is the "frontier":  *)
(* as long as nothing was freed, free_offset equals num_pages, the pages   *)
(* from there on have no owner, and their first word is still 0 -- which   *)
(* is why file_alloc_page takes the branch that advances the frontier.     *)
Frontier(n) ==
    /\ n >= 1
    /\ \A p \in Page : owners[p] > 0 => p < n
    /\ \A p \in Page \ {0} : p >= n => word[p] = 0

NothingYet ==
    phase \in {"absent", "creating"} =>
        /\ frees = 0
        /\ \A p \in Page : owners[p] = 0
        /\ \A p \in Page \ {0} : word[p] = 0
        /\ phase = "creating" => hdr = [free |-> 1, num |-> 1] /\ torn

SingleOwners ==
    frees = 0 /\ ~torn =>
        /\ \A p \in Page : owners[p] <= 1
        /\ owners[0] = 0

DiskFrontier ==
    frees = 0 /\ ~torn /\ phase # "absent" =>
        /\ phase \in {"up", "down"}
        /\ phase = "up" => hdr = dhdr
        /\ dhdr.free = dhdr.num
        /\ Frontier(dhdr.num)

FrontierInv == TypeOK /\ NothingYet /\ SingleOwners /\ DiskFrontier

(* A new file: all pages from the frontier on are fresh.                   *)
LEMMA FrontierInit == Init /\ TypeOK => FrontierInv
<1> SUFFICES ASSUME Init, TypeOK
             PROVE  NothingYet /\ SingleOwners /\ DiskFrontier
  BY DEF FrontierInv
<1>1. 0 \in Page
  BY BoundsAssumption DEF Page
<1>2. NothingYet /\ SingleOwners
  BY <1>1 DEF Init, NothingYet, SingleOwners
<1>3. DiskFrontier
  BY DEF Init, DiskFrontier
<1> QED BY <1>2, <1>3

(* Every action, a crash included, leaves them fresh until the first       *)
(* free.                                                                   *)
LEMMA FrontierStep == FrontierInv /\ TypeOK' /\ [Next]_vars => FrontierInv'
<1> SUFFICES ASSUME FrontierInv, TypeOK', [Next]_vars
             PROVE  NothingYet' /\ SingleOwners' /\ DiskFrontier'
  BY DEF FrontierInv
<1> USE BoundsAssumption DEF FrontierInv, TypeOK, Page, ghosts
<1>1. CASE CreateFile
  BY <1>1 DEF CreateFile, NothingYet, SingleOwners, DiskFrontier
<1>2. CASE WriteNewHeader
  <2>1. NothingYet' /\ SingleOwners'
    BY <1>2 DEF WriteNewHeader, NothingYet, SingleOwners
  <2>2. DiskFrontier'
    BY <1>2 DEF WriteNewHeader, NothingYet, DiskFrontier, Frontier
  <2> QED BY <2>1, <2>2
<1>3. CASE OpenFile
  BY <1>3 DEF OpenFile, NothingYet, SingleOwners, DiskFrontier, Frontier
<1>4. CASE Alloc
  <2>1. NothingYet'
    BY <1>4 DEF Alloc, NothingYet
  <2> SUFFICES ASSUME frees = 0, ~torn PROVE SingleOwners' /\ DiskFrontier'
    BY <1>4, <2>1 DEF Alloc, SingleOwners, DiskFrontier
  <2> DEFINE n == hdr.num
  <2>2. hdr = dhdr /\ hdr.free = n /\ Frontier(n) /\ n \in 1 .. MaxPage
    BY <1>4 DEF Alloc, DiskFrontier, Frontier, Header
  <2>21. n \in Int /\ n \in Page \ {0} /\ ~(n < n) /\ n >= n
    <3> HIDE DEF n
    <3> QED BY <2>2
  <2>22. /\ \A p \in Page : owners[p] > 0 => p < n
         /\ \A p \in Page \ {0} : p >= n => word[p] = 0
    BY <2>2 DEF Frontier
  <2> HIDE DEF n
  <2>3. FirstWord(n) = 0 /\ owners[n] = 0
    <3>1. ~(owners[n] > 0) /\ owners[n] \in Nat
      BY <2>21, <2>22
    <3>2. word[n] = 0 /\ n # 0
      BY <2>21, <2>22
    <3> QED BY <3>1, <3>2 DEF FirstWord
  <2>4. hdr' = [free |-> n + 1, num |-> n + 1]
    BY <1>4, <2>2, <2>3 DEF Alloc, AfterAlloc, n
  <2>5. owners' = [owners EXCEPT ![n] = 1]
    BY <1>4, <2>2, <2>3 DEF Alloc
  <2>6. SingleOwners'
    <3>1. n # 0 /\ \A p \in Page : owners[p] <= 1
      BY <2>21 DEF SingleOwners
    <3>2. owners[0] = 0 /\ 0 \in Page
      BY DEF SingleOwners
    <3> QED BY <2>5, <2>21, <3>1, <3>2 DEF SingleOwners
  <2>7. DiskFrontier'
    <3>1. /\ phase' = "up" /\ hdr' = dhdr' /\ word' = word
          /\ dhdr'.free = n + 1 /\ dhdr'.num = n + 1
      BY <1>4, <2>4 DEF Alloc
    <3>2. \A p \in Page : owners'[p] > 0 => p < n + 1
      BY <2>5, <2>21, <2>22
    <3>3. \A p \in Page \ {0} : p >= n + 1 => word'[p] = 0
      BY <2>21, <2>22, <3>1
    <3> QED BY <2>2, <2>21, <3>1, <3>2, <3>3 DEF DiskFrontier, Frontier
  <2> QED BY <2>6, <2>7
<1>5. ASSUME NEW p \in Page, FreePage(p)
      PROVE  NothingYet' /\ SingleOwners' /\ DiskFrontier'
  BY <1>5 DEF FreePage, NothingYet, SingleOwners, DiskFrontier
<1>6. CASE FreeHeader
  BY <1>6 DEF FreeHeader, NothingYet, SingleOwners, DiskFrontier
<1>7. ASSUME NEW p \in Page, NEW parent \in Page, WriteNode(p, parent)
      PROVE  NothingYet' /\ SingleOwners' /\ DiskFrontier'
  <2>1. NothingYet' /\ SingleOwners'
    BY <1>7 DEF WriteNode, NothingYet, SingleOwners
  <2> SUFFICES ASSUME frees = 0, ~torn PROVE DiskFrontier'
    BY <1>7, <2>1 DEF WriteNode, DiskFrontier
  <2>2. p # 0 /\ p < dhdr.num
    BY <1>7 DEF WriteNode, SingleOwners, DiskFrontier, Frontier
  <2> DEFINE n == dhdr.num
  <2>3. /\ hdr' = hdr /\ dhdr' = dhdr /\ owners' = owners /\ phase' = phase
        /\ word' = [word EXCEPT ![p] = parent] /\ phase = "up"
    BY <1>7, <2>2 DEF WriteNode
  <2>4. Frontier(n) /\ n \in Int
    BY <2>3 DEF DiskFrontier, Header
  <2>5. \A r \in Page \ {0} : r >= n => word'[r] = 0
    BY <2>2, <2>3, <2>4 DEF Frontier
  <2> QED BY <2>3, <2>4, <2>5 DEF DiskFrontier, Frontier
<1>8. CASE SaveHeader
  BY <1>8 DEF SaveHeader, NothingYet, SingleOwners, DiskFrontier, Frontier
<1>9. CASE Crash
  BY <1>9 DEF Crash, NothingYet, SingleOwners, DiskFrontier, Frontier
<1>10. CASE UNCHANGED vars
  BY <1>10 DEF vars, NothingYet, SingleOwners, DiskFrontier, Frontier
<1> QED BY <1>1, <1>2, <1>3, <1>4, <1>5, <1>6, <1>7, <1>8, <1>9, <1>10 DEF Next

(* So they are in every reachable state.                                   *)
THEOREM FrontierInvariant == Spec => []FrontierInv
<1> QED BY FrontierInit, FrontierStep, TypeCorrect, PTL DEF Spec

(* FreshUntilFirstFree holds for every number of pages and of kills.       *)
THEOREM FreshPages == Spec => []FreshUntilFirstFree
<1>1. FrontierInv => FreshUntilFirstFree
  BY DEF FrontierInv, TypeOK, NothingYet, SingleOwners, DiskFrontier, Frontier,
         FreshUntilFirstFree, Header, Page
<1> QED BY <1>1, FrontierInvariant, PTL

-----------------------------------------------------------------------------
(* The strengthening of TwoOwnersNeedTwoFrees.  One call of file_free_page *)
(* makes page 0 the next page to hand out, which counts for one: then the  *)
(* allocator is back at the frontier, and it has not passed it before.     *)
Ahead(n) ==
    /\ n >= 1
    /\ \A p \in Page \ {0} : owners[p] > 0 => p < n
    /\ \A p \in Page \ {0} : p >= n => word[p] = 0

(* A header that hands out the frontier, and one that hands out page 0     *)
(* before it: after a free, or because a kill left a file without header.  *)
Straight(h) == h.free = h.num /\ Ahead(h.num)
Detour(h) ==
    /\ h.free = 0 /\ ~zero /\ Ahead(h.num + 1)
    /\ frees = 0 => crashes > 0 /\ h.num = 0

OneFree == frees <= 1 /\ ~(zero /\ crashes > 0)

ZeroHistory ==
    /\ owners[0] > 0 => zero
    /\ zero /\ frees = 0 => crashes > 0
    /\ phase = "down" => crashes > 0
    /\ phase \in {"absent", "creating"} => ~zero /\ dhdr = NoHeader

OneFreeInv ==
    OneFree =>
        /\ \A p \in Page \ {0} : owners[p] <= 1
        /\ phase = "up" => Straight(hdr) \/ Detour(hdr)
        /\ phase = "up" /\ ~zero => dhdr = hdr
        /\ phase = "freeing" => Detour(hdr) /\ Straight(dhdr) /\ frees = 1
        /\ phase = "down" => Straight(dhdr) \/ Detour(dhdr)

DetourInv == TypeOK /\ NothingYet /\ ZeroHistory /\ OneFreeInv

(* A new file has no detour.                                               *)
LEMMA DetourInit == Init /\ TypeOK => DetourInv
<1> SUFFICES ASSUME Init, TypeOK
             PROVE  NothingYet /\ ZeroHistory /\ OneFreeInv
  BY DEF DetourInv
<1>1. 0 \in Page
  BY BoundsAssumption DEF Page
<1> QED BY <1>1 DEF Init, NothingYet, ZeroHistory, OneFreeInv

(* The page numbers an allocation deals with. *)
LEMMA AllocAtFrontier ==
    ASSUME TypeOK, Alloc, Straight(hdr)
    PROVE  /\ hdr.num \in Page \ {0} /\ hdr.free = hdr.num
           /\ ~(owners[hdr.num] > 0) /\ word[hdr.num] = 0
           /\ hdr' = [free |-> hdr.num + 1, num |-> hdr.num + 1]
<1>1. hdr.num \in 1 .. MaxPage /\ hdr.num \in Int
  BY BoundsAssumption DEF Alloc, Straight, Ahead, TypeOK, Header
<1>2. hdr.num \in Page \ {0} /\ ~(hdr.num < hdr.num) /\ hdr.num >= hdr.num
  BY <1>1, BoundsAssumption DEF Page
<1>3. ~(owners[hdr.num] > 0) /\ word[hdr.num] = 0
  BY <1>2 DEF Straight, Ahead
<1>4. hdr' = [free |-> hdr.num + 1, num |-> hdr.num + 1]
  BY <1>2, <1>3 DEF Alloc, AfterAlloc, FirstWord, Straight
<1> QED BY <1>2, <1>3, <1>4 DEF Straight

(* A free makes a detour of the free list, and only a second one can make  *)
(* a second owner.                                                         *)
LEMMA DetourStep == DetourInv /\ TypeOK' /\ [Next]_vars => DetourInv'
<1> SUFFICES ASSUME DetourInv, TypeOK', [Next]_vars
             PROVE  NothingYet' /\ ZeroHistory' /\ OneFreeInv'
  BY DEF DetourInv
<1> USE BoundsAssumption DEF DetourInv, TypeOK, Page, ghosts
<1>1. CASE CreateFile
  BY <1>1 DEF CreateFile, NothingYet, ZeroHistory, OneFreeInv
<1>2. CASE WriteNewHeader
  <2>1. NothingYet' /\ ZeroHistory'
    BY <1>2 DEF WriteNewHeader, NothingYet, ZeroHistory
  <2>2. Straight(hdr)' /\ dhdr' = hdr'
    BY <1>2 DEF WriteNewHeader, NothingYet, Straight, Ahead
  <2>3. \A p \in Page \ {0} : owners'[p] <= 1
    BY <1>2 DEF WriteNewHeader, NothingYet
  <2> QED BY <1>2, <2>1, <2>2, <2>3 DEF OneFreeInv, WriteNewHeader
<1>3. CASE OpenFile
  BY <1>3 DEF OpenFile, NothingYet, ZeroHistory, OneFreeInv, OneFree, Straight, Detour, Ahead
<1>4. CASE Alloc
  <2>1. NothingYet' /\ ZeroHistory'
    <3>1. NothingYet'
      BY <1>4 DEF Alloc, NothingYet
    <3>2. hdr.free \in Page /\ phase' = "up" /\ phase = "up" /\ frees' = frees /\ crashes' = crashes
      BY <1>4 DEF Alloc, Header
    <3>3. owners'[0] > 0 => zero'
      <4>1. CASE hdr.free = 0
        BY <1>4, <4>1 DEF Alloc
      <4>2. CASE hdr.free # 0
        <5>1. 0 \in Page /\ owners'[0] = owners[0]
          BY <1>4, <4>2 DEF Alloc
        <5>2. zero => zero'
          BY <1>4 DEF Alloc
        <5> QED BY <5>1, <5>2 DEF ZeroHistory
      <4> QED BY <4>1, <4>2
    <3>4. zero' /\ frees = 0 => crashes > 0
      <4>1. SUFFICES ASSUME ~zero, frees = 0, crashes = 0, hdr.free = 0 PROVE FALSE
        BY <1>4 DEF Alloc, ZeroHistory
      <4>2. Straight(hdr) \/ Detour(hdr)
        BY <3>2, <4>1 DEF OneFreeInv, OneFree
      <4> QED BY <4>1, <4>2 DEF Straight, Detour, Ahead
    <3> QED BY <3>1, <3>2, <3>3, <3>4 DEF ZeroHistory
  <2> SUFFICES ASSUME OneFree' PROVE OneFreeInv'
    BY <2>1 DEF OneFreeInv
  <2>2. phase = "up" /\ phase' = "up" /\ word' = word /\ dhdr' = hdr' /\ OneFree
    BY <1>4 DEF Alloc, OneFree
  <2>3. CASE Straight(hdr)
    <3> DEFINE n == hdr.num
    <3>0. /\ hdr.num \in Page \ {0} /\ hdr.free = hdr.num /\ ~(owners[hdr.num] > 0)
          /\ hdr' = [free |-> hdr.num + 1, num |-> hdr.num + 1]
      BY <1>4, <2>3, AllocAtFrontier
    <3>1. /\ n \in Page \ {0} /\ hdr.free = n /\ ~(owners[n] > 0)
          /\ hdr'.free = n + 1 /\ hdr'.num = n + 1
      BY <3>0
    <3>2. Ahead(n)
      BY <2>3 DEF Straight
    <3> HIDE DEF n
    <3>3. owners' = [owners EXCEPT ![n] = owners[n] + 1] /\ owners[n] = 0
      BY <1>4, <3>1 DEF Alloc
    <3>4. \A p \in Page \ {0} : owners'[p] <= 1
      BY <2>2, <3>1, <3>3 DEF OneFreeInv
    <3>5. Ahead(hdr.num)'
      <4>1. \A p \in Page \ {0} : owners'[p] > 0 => p < n + 1
        BY <3>1, <3>2, <3>3 DEF Ahead
      <4>2. n + 1 >= 1 /\ \A p \in Page \ {0} : p >= n + 1 => word'[p] = 0
        BY <2>2, <3>1, <3>2 DEF Ahead
      <4> QED BY <3>1, <4>1, <4>2 DEF Ahead
    <3>6. Straight(hdr)'
      BY <3>1, <3>5 DEF Straight
    <3> QED BY <2>2, <3>4, <3>6 DEF OneFreeInv
  <2>4. CASE Detour(hdr)
    <3>1. /\ hdr.free = 0 /\ ~zero /\ Ahead(hdr.num + 1) /\ dhdr = hdr
      BY <2>2, <2>4 DEF OneFreeInv, Detour
    <3>2. hdr' = [free |-> hdr.num + 1, num |-> hdr.num + 1]
      BY <1>4, <3>1 DEF Alloc, AfterAlloc, FirstWord
    <3>3. \A p \in Page \ {0} : owners'[p] = owners[p]
      BY <1>4, <3>1 DEF Alloc
    <3>4. \A p \in Page \ {0} : owners'[p] <= 1
      BY <2>2, <3>3 DEF OneFreeInv
    <3>5. Straight(hdr)'
      BY <2>2, <3>1, <3>2, <3>3 DEF Straight, Ahead
    <3> QED BY <2>2, <3>4, <3>5 DEF OneFreeInv
  <2> QED BY <2>2, <2>3, <2>4 DEF OneFreeInv
<1>5. ASSUME NEW p \in Page, FreePage(p)
      PROVE  NothingYet' /\ ZeroHistory' /\ OneFreeInv'
  <2>1. NothingYet' /\ ZeroHistory'
    BY <1>5 DEF FreePage, NothingYet, ZeroHistory
  <2> SUFFICES ASSUME OneFree' PROVE OneFreeInv'
    BY <2>1 DEF OneFreeInv
  <2>2. frees = 0 /\ OneFree /\ phase = "up" /\ phase' = "freeing" /\ frees' = 1 /\ ~zero /\ ~zero'
    BY <1>5 DEF FreePage, OneFree, ZeroHistory
  <2>3. p # 0 /\ dhdr = hdr
    BY <1>5, <2>2 DEF FreePage, ZeroHistory, OneFreeInv
  <2> DEFINE n == hdr.num
  <2>4. /\ dhdr' = dhdr /\ word' = [word EXCEPT ![p] = hdr.free]
        /\ hdr' = [free |-> 0, num |-> n - 1] /\ owners' = [owners EXCEPT ![p] = owners[p] - 1]
    BY <1>5, <2>3 DEF FreePage, AfterFree
  <2>5. Straight(hdr)
    <3>1. Straight(hdr) \/ Detour(hdr)
      BY <2>2 DEF OneFreeInv
    <3>2. ~Detour(hdr)
      BY <1>5, <2>2, <2>3 DEF Detour, Ahead, FreePage
    <3> QED BY <3>1, <3>2
  <2>6. n \in Int /\ Ahead(n) /\ hdr.free = n
    BY <2>5 DEF Straight, Header
  <2>7. p < n
    BY <1>5, <2>3, <2>6 DEF Ahead, FreePage
  <2> HIDE DEF n
  <2>8. /\ n >= 1
        /\ \A r \in Page \ {0} : owners'[r] > 0 => r < n
        /\ \A r \in Page \ {0} : r >= n => word'[r] = 0
        /\ \A r \in Page \ {0} : owners'[r] <= 1
    BY <2>2, <2>3, <2>4, <2>6, <2>7, SMTT(30) DEF Ahead, OneFreeInv
  <2>9. hdr'.free = 0 /\ hdr'.num + 1 = n /\ dhdr'.free = n /\ dhdr'.num = n
    BY <2>3, <2>4, <2>6, SMTT(30) DEF n
  <2>10. Detour(hdr)' /\ Straight(dhdr)'
    <3>1. Ahead(hdr.num + 1)' /\ Ahead(dhdr.num)'
      BY <2>8, <2>9 DEF Ahead
    <3> QED BY <2>2, <2>9, <3>1 DEF Detour, Straight
  <2> QED BY <2>2, <2>8, <2>10 DEF OneFreeInv
<1>6. CASE FreeHeader
  BY <1>6 DEF FreeHeader, NothingYet, ZeroHistory, OneFreeInv, OneFree, Straight, Detour, Ahead
<1>7. ASSUME NEW p \in Page, NEW parent \in Page, WriteNode(p, parent)
      PROVE  NothingYet' /\ ZeroHistory' /\ OneFreeInv'
  <2>1. NothingYet' /\ ZeroHistory'
    BY <1>7 DEF WriteNode, NothingYet, ZeroHistory
  <2> SUFFICES ASSUME OneFree PROVE OneFreeInv'
    BY <1>7, <2>1 DEF WriteNode, OneFreeInv, OneFree
  <2>2. /\ phase = "up" /\ phase' = "up" /\ UNCHANGED <<hdr, owners, zero, frees, crashes>>
        /\ owners[p] > 0
    BY <1>7 DEF WriteNode
  <2>3. ~zero => dhdr' = dhdr
    BY <1>7, <2>2 DEF WriteNode, ZeroHistory
  <2>4. \A n \in Int : Ahead(n) => Ahead(n)'
    <3> SUFFICES ASSUME NEW n \in Int, Ahead(n) PROVE Ahead(n)'
      OBVIOUS
    <3>1. p # 0 => p < n
      BY <2>2 DEF Ahead
    <3>2. \A r \in Page \ {0} : r >= n => word'[r] = 0
      BY <1>7, <3>1 DEF WriteNode, Ahead
    <3> QED BY <2>2, <3>2 DEF Ahead
  <2>5. hdr.num \in Int /\ hdr.num + 1 \in Int
    BY DEF Header
  <2>6. Straight(hdr)' \/ Detour(hdr)'
    <3>1. Straight(hdr) \/ Detour(hdr)
      BY <2>2 DEF OneFreeInv
    <3>2. Ahead(hdr.num) => Ahead(hdr.num)'
      BY <2>2, <2>4, <2>5 DEF Ahead
    <3>3. Ahead(hdr.num + 1) => Ahead(hdr.num + 1)'
      BY <2>2, <2>4, <2>5 DEF Ahead
    <3> QED BY <2>2, <3>1, <3>2, <3>3 DEF Straight, Detour
  <2> QED BY <2>2, <2>3, <2>6 DEF OneFreeInv
<1>8. CASE SaveHeader
  BY <1>8 DEF SaveHeader, NothingYet, ZeroHistory, OneFreeInv, OneFree, Straight, Detour, Ahead
<1>9. CASE Crash
  <2>1. NothingYet' /\ ZeroHistory'
    BY <1>9 DEF Crash, NothingYet, ZeroHistory
  <2> SUFFICES ASSUME OneFree' PROVE OneFreeInv'
    BY <2>1 DEF OneFreeInv
  <2>2. /\ OneFree /\ ~zero /\ phase' = "down"
        /\ UNCHANGED <<dhdr, word, owners, frees, zero>>
    BY <1>9 DEF Crash, OneFree
  <2>3. crashes' > 0 /\ \A n \in Int : Ahead(n)' <=> Ahead(n)
    BY <1>9, <2>2 DEF Crash, Ahead
  <2>4. Straight(dhdr)' \/ Detour(dhdr)'
    <3>1. CASE phase = "creating"
      <4>1. dhdr.free = 0 /\ dhdr.num = 0 /\ dhdr'.free = 0 /\ dhdr'.num = 0
        BY <2>2, <3>1 DEF ZeroHistory, NoHeader
      <4>2. Ahead(1)'
        BY <2>2, <3>1 DEF NothingYet, Ahead
      <4>3. Ahead(dhdr.num + 1)'
        BY <4>1, <4>2
      <4> QED BY <2>2, <2>3, <4>1, <4>3 DEF Detour
    <3>2. CASE phase \in {"up", "freeing"}
      <4>1. Straight(dhdr) \/ Detour(dhdr)
        BY <2>2, <3>2 DEF OneFreeInv
      <4>2. dhdr.num \in Int /\ dhdr.num + 1 \in Int
        BY DEF Header
      <4>3. (Ahead(dhdr.num) => Ahead(dhdr.num)') /\ (Ahead(dhdr.num + 1) => Ahead(dhdr.num + 1)')
        BY <2>2 DEF Ahead
      <4> QED BY <2>2, <2>3, <4>1, <4>3 DEF Straight, Detour
    <3> QED BY <1>9, <3>1, <3>2 DEF Crash
  <2>5. \A p \in Page \ {0} : owners'[p] <= 1
    BY <2>2 DEF OneFreeInv
  <2> QED BY <2>2, <2>4, <2>5 DEF OneFreeInv
<1>10. CASE UNCHANGED vars
  BY <1>10 DEF vars, NothingYet, ZeroHistory, OneFreeInv, OneFree, Straight, Detour, Ahead
<1> QED BY <1>1, <1>2, <1>3, <1>4, <1>5, <1>6, <1>7, <1>8, <1>9, <1>10 DEF Next

(* A page handed out twice needs two calls of file_free_page, or a kill    *)
(* after page 0 was handed out (bpt.c:207-240).                            *)
THEOREM TwoOwners == Spec => []TwoOwnersNeedTwoFrees
<1>1. DetourInv => TwoOwnersNeedTwoFrees
  BY DEF DetourInv, TypeOK, OneFreeInv, OneFree, TwoOwnersNeedTwoFrees
<1> QED BY DetourInit, DetourStep, TypeCorrect, <1>1, PTL DEF Spec

-----------------------------------------------------------------------------
(* The strengthening of NumPagesCountsOwners.  Between the two writes of   *)
(* file_free_page the header on disk is one ahead, and that one becomes a  *)
(* leak if the process is killed there; a file without a header counts     *)
(* nothing.                                                                *)
InUse == Cardinality(Live) + leaks + IF torn THEN 0 ELSE 1

Counted ==
    /\ IsFiniteSet(Live)
    /\ phase = "absent" => InUse = 1 /\ ~torn
    /\ phase = "creating" => InUse = 0 /\ torn
    /\ phase \in {"up", "freeing"} /\ ~(zero /\ crashes > 0) => hdr.num = InUse
    /\ phase \in {"up", "down"} /\ ~zero => dhdr.num = InUse
    /\ phase = "freeing" /\ ~zero => dhdr.num = InUse + 1

CountedInv == DetourInv /\ Counted

(* A live allocation is a page and the number of one of its owners. *)
LEMMA LiveMembers ==
    \A x : x \in Live <=> \E p \in Page : \E k \in 1 .. owners[p] : x = <<p, k>>
BY DEF Live

(* One more owner is one more live allocation ... *)
LEMMA LiveAfterAlloc ==
    ASSUME TypeOK, NEW q \in Page, IsFiniteSet(Live),
           owners' = [owners EXCEPT ![q] = @ + 1]
    PROVE  IsFiniteSet(Live') /\ Cardinality(Live') = Cardinality(Live) + 1
<1> DEFINE x == <<q, owners[q] + 1>>
<1>1. /\ owners[q] \in Nat /\ owners'[q] = owners[q] + 1
      /\ \A p \in Page : p # q => owners'[p] = owners[p]
  BY DEF TypeOK
<1>2. \A y : y \in Live' <=> \E p \in Page : \E k \in 1 .. owners'[p] : y = <<p, k>>
  BY DEF Live
<1>3. x \notin Live
  <2> SUFFICES ASSUME NEW p \in Page, NEW k \in 1 .. owners[p], x = <<p, k>>
               PROVE  FALSE
    BY LiveMembers
  <2>1. p = q /\ k = owners[q] + 1
    OBVIOUS
  <2> QED BY <1>1, <2>1
<1>4. Live' = Live \cup {x}
  <2>1. ASSUME NEW y \in Live' PROVE y \in Live \cup {x}
    <3>0. PICK p \in Page : \E k \in 1 .. owners'[p] : y = <<p, k>>
      BY <1>2
    <3>1. PICK k \in 1 .. owners'[p] : y = <<p, k>>
      BY <3>0
    <3>2. CASE p # q
      BY <1>1, <3>1, <3>2, LiveMembers
    <3>3. CASE p = q /\ k = owners[q] + 1
      BY <3>1, <3>3
    <3>4. CASE p = q /\ k # owners[q] + 1
      <4>1. k \in 1 .. owners[p]
        BY <1>1, <3>4
      <4> QED BY <3>1, <4>1, LiveMembers
    <3> QED BY <3>2, <3>3, <3>4
  <2>2. ASSUME NEW y \in Live PROVE y \in Live'
    <3>0. PICK p \in Page : \E k \in 1 .. owners[p] : y = <<p, k>>
      BY LiveMembers
    <3>1. PICK k \in 1 .. owners[p] : y = <<p, k>>
      BY <3>0
    <3>2. k \in 1 .. owners'[p]
      BY <1>1, owners[p] \in Nat DEF TypeOK
    <3> QED BY <1>2, <3>1, <3>2
  <2>3. x \in Live'
    <3>1. owners[q] + 1 \in 1 .. owners'[q]
      BY <1>1
    <3> QED BY <1>2, <3>1
  <2> QED BY <2>1, <2>2, <2>3
<1> HIDE DEF x
<1> QED BY <1>3, <1>4, FS_AddElement

(* ... and one owner less is one live allocation less. *)
LEMMA LiveAfterFree ==
    ASSUME TypeOK, NEW q \in Page, IsFiniteSet(Live), owners[q] > 0,
           owners' = [owners EXCEPT ![q] = @ - 1]
    PROVE  IsFiniteSet(Live') /\ Cardinality(Live') = Cardinality(Live) - 1
<1> DEFINE x == <<q, owners[q]>>
<1>1. /\ owners[q] \in Nat /\ owners'[q] = owners[q] - 1 /\ owners[q] > 0
      /\ \A p \in Page : p # q => owners'[p] = owners[p]
  BY DEF TypeOK
<1>2. \A y : y \in Live' <=> \E p \in Page : \E k \in 1 .. owners'[p] : y = <<p, k>>
  BY DEF Live
<1>3. x \in Live
  <2>1. owners[q] \in 1 .. owners[q]
    BY <1>1
  <2> QED BY <2>1, LiveMembers
<1>4. Live' = Live \ {x}
  <2>1. ASSUME NEW y \in Live' PROVE y \in Live \ {x}
    <3>0. PICK p \in Page : \E k \in 1 .. owners'[p] : y = <<p, k>>
      BY <1>2
    <3>1. PICK k \in 1 .. owners'[p] : y = <<p, k>>
      BY <3>0
    <3>2. owners[p] \in Nat
      BY DEF TypeOK
    <3>3. k \in 1 .. owners[p] /\ ~(p = q /\ k = owners[q])
      BY <1>1, <3>2
    <3>4. y # x
      BY <3>1, <3>3
    <3> QED BY <3>1, <3>3, <3>4, LiveMembers
  <2>2. ASSUME NEW y \in Live \ {x} PROVE y \in Live'
    <3>0. PICK p \in Page : \E k \in 1 .. owners[p] : y = <<p, k>>
      BY LiveMembers
    <3>1. PICK k \in 1 .. owners[p] : y = <<p, k>>
      BY <3>0
    <3>2. ~(p = q /\ k = owners[q])
      BY <2>2, <3>1
    <3>3. k \in 1 .. owners'[p]
      BY <1>1, <3>2
    <3> QED BY <1>2, <3>1, <3>3
  <2> QED BY <2>1, <2>2
<1> HIDE DEF x
<1> QED BY <1>3, <1>4, FS_RemoveElement

(* A new file has no live allocation.                                      *)
LEMMA CountedInit == Init /\ TypeOK => CountedInv
<1> SUFFICES ASSUME Init, TypeOK PROVE Counted
  BY DetourInit DEF CountedInv
<1>1. Live = {}
  <2> SUFFICES ASSUME NEW x \in Live PROVE FALSE
    OBVIOUS
  <2>0. PICK p \in Page : \E k \in 1 .. owners[p] : x = <<p, k>>
    BY LiveMembers
  <2>1. PICK k \in 1 .. owners[p] : x = <<p, k>>
    BY <2>0
  <2> QED BY <2>1 DEF Init
<1> QED BY <1>1, FS_EmptySet DEF Init, Counted, InUse

(* Every action counts the page it takes or gives back.                    *)
LEMMA CountedStep == CountedInv /\ TypeOK' /\ [Next]_vars => CountedInv'
<1> SUFFICES ASSUME CountedInv, TypeOK', [Next]_vars PROVE Counted'
  BY DetourStep DEF CountedInv
<1>0. TypeOK /\ NothingYet /\ ZeroHistory /\ Counted
  BY DEF CountedInv, DetourInv
<1>c. /\ IsFiniteSet(Live) /\ Cardinality(Live) \in Nat
      /\ leaks \in Nat /\ crashes \in Nat /\ InUse \in Int
      /\ hdr.num \in Int /\ dhdr.num \in Int
  BY <1>0, FS_CardinalityType, SMTT(30) DEF Counted, TypeOK, Header, InUse
(* What an action that changes no owner leaves alone. *)
<1>s. owners' = owners => Live' = Live
  BY DEF Live
<1>1. CASE CreateFile
  BY <1>0, <1>c, <1>s, <1>1 DEF CreateFile, Counted, InUse
<1>2. CASE WriteNewHeader
  <2>1. IsFiniteSet(Live)' /\ InUse' = 1 /\ hdr'.num = 1 /\ dhdr' = hdr' /\ phase' = "up"
    BY <1>0, <1>c, <1>s, <1>2 DEF WriteNewHeader, Counted, InUse, NothingYet
  <2> QED BY <2>1 DEF Counted
<1>3. CASE OpenFile
  BY <1>0, <1>c, <1>s, <1>3 DEF OpenFile, Counted, InUse, ZeroHistory, ghosts
<1>4. CASE Alloc
  <2>1. hdr.free \in Page /\ owners' = [owners EXCEPT ![hdr.free] = @ + 1]
    BY <1>0, <1>4 DEF Alloc, TypeOK, Header
  <2>2. IsFiniteSet(Live') /\ Cardinality(Live') = Cardinality(Live) + 1
    BY <1>0, <1>c, <2>1, LiveAfterAlloc
  <2>3. InUse' = InUse + 1
    BY <1>4, <1>c, <2>2 DEF Alloc, InUse
  <2>4. hdr'.num = hdr.num + 1 /\ dhdr' = hdr' /\ phase = "up" /\ phase' = "up"
    BY <1>4 DEF Alloc, AfterAlloc
  <2>5. (zero => zero') /\ crashes' = crashes
    BY <1>4 DEF Alloc
  <2>6. ~(zero /\ crashes > 0) => hdr'.num = InUse'
    BY <1>0, <1>c, <2>3, <2>4 DEF Counted
  <2> QED BY <2>2, <2>4, <2>5, <2>6 DEF Counted
<1>5. ASSUME NEW p \in Page, FreePage(p) PROVE Counted'
  <2>1. owners[p] > 0 /\ owners' = [owners EXCEPT ![p] = @ - 1]
    BY <1>5 DEF FreePage
  <2>2. IsFiniteSet(Live') /\ Cardinality(Live') = Cardinality(Live) - 1
    BY <1>0, <1>c, <2>1, LiveAfterFree
  <2>3. InUse' = InUse - 1
    BY <1>5, <1>c, <2>2 DEF FreePage, InUse
  <2>4. /\ phase = "up" /\ phase' = "freeing" /\ hdr'.num = hdr.num - 1
        /\ zero' = zero /\ crashes' = crashes
    BY <1>5 DEF FreePage, AfterFree
  <2>5. ~zero => dhdr' = dhdr
    BY <1>0, <1>5, <2>1 DEF FreePage, ZeroHistory
  <2> QED BY <1>0, <1>c, <2>2, <2>3, <2>4, <2>5 DEF Counted
<1>6. CASE FreeHeader
  BY <1>0, <1>c, <1>s, <1>6 DEF FreeHeader, Counted, InUse, ghosts
<1>7. ASSUME NEW p \in Page, NEW parent \in Page, WriteNode(p, parent)
      PROVE  Counted'
  <2>1. /\ phase = "up" /\ phase' = "up" /\ owners[p] > 0
        /\ UNCHANGED <<hdr, owners, leaks, torn, zero, crashes>>
    BY <1>7 DEF WriteNode, ghosts
  <2>2. Live' = Live /\ InUse' = InUse
    BY <1>s, <2>1 DEF InUse
  <2>3. ~zero => dhdr' = dhdr
    BY <1>0, <1>7, <2>1 DEF WriteNode, ZeroHistory
  <2> QED BY <1>0, <2>1, <2>2, <2>3 DEF Counted
<1>8. CASE SaveHeader
  BY <1>0, <1>c, <1>s, <1>8 DEF SaveHeader, Counted, InUse, ghosts
<1>9. CASE Crash
  <2>1. /\ phase' = "down" /\ UNCHANGED <<dhdr, owners, torn, zero>> /\ Live' = Live
        /\ leaks' = IF phase = "freeing" THEN leaks + 1 ELSE leaks
    BY <1>9, <1>s DEF Crash
  <2>2. CASE phase = "creating"
    BY <1>0, <1>c, <2>1, <2>2 DEF Counted, InUse, ZeroHistory, NoHeader
  <2>3. CASE phase = "up"
    BY <1>0, <1>c, <2>1, <2>3 DEF Counted, InUse
  <2>4. CASE phase = "freeing"
    BY <1>0, <1>c, <2>1, <2>4 DEF Counted, InUse
  <2> QED BY <1>9, <2>2, <2>3, <2>4 DEF Crash
<1>10. CASE UNCHANGED vars
  BY <1>0, <1>s, <1>10 DEF vars, Counted, InUse
<1> QED BY <1>1, <1>2, <1>3, <1>4, <1>5, <1>6, <1>7, <1>8, <1>9, <1>10 DEF Next

(* num_pages is the number of pages in use, in memory and on disk, for any *)
(* number of pages, frees and kills, until page 0 has been handed out; so  *)
(* the uint64_t of bpt.c:223-240 is never decremented below zero.          *)
THEOREM PagesAreCounted == Spec => []NumPagesCountsOwners
<1>1. CountedInv => NumPagesCountsOwners
  BY DEF CountedInv, Counted, InUse, NumPagesCountsOwners
<1> QED BY CountedInit, CountedStep, TypeCorrect, <1>1, PTL DEF Spec
=============================================================================
