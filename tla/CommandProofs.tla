--------------------------- MODULE CommandProofs ----------------------------
(***************************************************************************)
(* The process of BPlusTree.tla, for every order, size of file and set of  *)
(* keys. The climb of insert makes the tree whole again; that of delete    *)
(* does so, too, or takes one of the paths in Harm. As long as no such     *)
(* path is taken, the database is a set of keys, its tree always in order, *)
(* with its leaves in a chain, and the file searchable between any two     *)
(* writes of an insertion.                                                 *)
(***************************************************************************)
EXTENDS TreeProofs

-----------------------------------------------------------------------------
(* The writes of a command.                                                *)

(* Flushing log turns what was at p from x0 into x. *)
Shows(log, p, x0, x) ==
    \/ x = x0 /\ \A i \in 1 .. Len(log) : log[i].at # p
    \/ \E i \in 1 .. Len(log) : /\ log[i].at = p /\ log[i].is = x
                                /\ \A j \in i + 1 .. Len(log) : log[j].at # p

(* Write c at q. *)
WriteOf(q, c) == [at |-> q, is |-> c]

(* One more write. *)
LEMMA ShowsNext ==
    ASSUME NEW S, NEW log \in Seq(S), NEW q, NEW c, NEW e \in S, e = WriteOf(q, c)
    PROVE  /\ Append(log, e) \in Seq(S)
           /\ \A x0 : Shows(Append(log, e), q, x0, c)
           /\ \A p, x0, x : p # q /\ Shows(log, p, x0, x) => Shows(Append(log, e), p, x0, x)
<1> DEFINE log1 == Append(log, e)
           n == Len(log)
<1>1. /\ log1 \in Seq(S) /\ n \in Nat /\ Len(log1) = n + 1 /\ log1[n + 1] = e
      /\ \A i \in 1 .. n : log1[i] = log[i]
  OBVIOUS
<1>2. e.at = q /\ e.is = c
  BY DEF WriteOf
<1> HIDE DEF log1, n
<1>3. ASSUME NEW x0 PROVE Shows(log1, q, x0, c)
  <2>1. n + 1 \in 1 .. Len(log1) /\ \A j \in (n + 1) + 1 .. Len(log1) : FALSE
    BY <1>1
  <2> QED BY <1>1, <1>2, <2>1 DEF Shows
<1>4. ASSUME NEW p, NEW x0, NEW x, p # q, Shows(log, p, x0, x) PROVE Shows(log1, p, x0, x)
  <2>1. \A i \in 1 .. n + 1 : i \in 1 .. n \/ i = n + 1
    BY <1>1
  <2>2. CASE x = x0 /\ \A i \in 1 .. n : log[i].at # p
    <3>1. \A i \in 1 .. n + 1 : log1[i].at # p
      BY <1>1, <1>2, <1>4, <2>1, <2>2
    <3> QED BY <1>1, <2>2, <3>1 DEF Shows
  <2>3. CASE \E i \in 1 .. n : /\ log[i].at = p /\ log[i].is = x
                               /\ \A j \in i + 1 .. n : log[j].at # p
    <3>1. PICK i \in 1 .. n : /\ log[i].at = p /\ log[i].is = x
                              /\ \A j \in i + 1 .. n : log[j].at # p
      BY <2>3
    <3>2. i \in 1 .. n + 1 /\ log1[i].at = p /\ log1[i].is = x
      BY <1>1, <3>1
    <3>3. \A j \in i + 1 .. n + 1 : log1[j].at # p
      <4>1. \A j \in i + 1 .. n + 1 : j = n + 1 \/ (j \in i + 1 .. n /\ j \in 1 .. n)
        BY <1>1
      <4> QED BY <1>1, <1>2, <1>4, <3>1, <4>1
    <3> QED BY <1>1, <3>2, <3>3 DEF Shows
  <2> QED BY <1>4, <2>2, <2>3 DEF Shows, n
<1> QED BY <1>1, <1>3, <1>4 DEF log1

(* The first write is carried out. *)
LEMMA ShowsRest ==
    ASSUME NEW S, NEW log \in Seq(S), log # <<>>, NEW p, NEW x0, NEW x, Shows(log, p, x0, x)
    PROVE  Shows(Tail(log), p, IF Head(log).at = p THEN Head(log).is ELSE x0, x)
<1> DEFINE log1 == Tail(log)
           n == Len(log)
           first == Head(log)
           x1 == IF first.at = p THEN first.is ELSE x0
<1> SUFFICES Shows(log1, p, x1, x)
  OBVIOUS
<1>1. /\ n \in Nat \ {0} /\ Len(log1) = n - 1 /\ first = log[1]
      /\ \A i \in 1 .. n - 1 : log1[i] = log[i + 1]
  OBVIOUS
<1> HIDE DEF log1, n, first
<1>2. CASE x = x0 /\ \A i \in 1 .. n : log[i].at # p
  <2>1. first.at # p /\ \A i \in 1 .. n - 1 : log1[i].at # p
    <3>1. 1 \in 1 .. n /\ \A i \in 1 .. n - 1 : i + 1 \in 1 .. n
      BY <1>1
    <3> QED BY <1>1, <1>2, <3>1
  <2> QED BY <1>1, <1>2, <2>1 DEF Shows
<1>3. CASE \E i \in 1 .. n : /\ log[i].at = p /\ log[i].is = x
                             /\ \A j \in i + 1 .. n : log[j].at # p
  <2>1. PICK i \in 1 .. n : /\ log[i].at = p /\ log[i].is = x
                            /\ \A j \in i + 1 .. n : log[j].at # p
    BY <1>3
  <2>2. CASE i = 1
    <3>1. \A j \in 1 .. n - 1 : j + 1 \in i + 1 .. n
      BY <1>1, <2>2
    <3>2. \A j \in 1 .. n - 1 : log1[j].at # p
      BY <1>1, <2>1, <3>1
    <3>3. first.at = p /\ first.is = x
      BY <1>1, <2>1, <2>2
    <3>4. x = x1
      BY <3>3
    <3> HIDE DEF x1
    <3> QED BY <1>1, <3>2, <3>4 DEF Shows
  <2>3. CASE i # 1
    <3>1. i - 1 \in 1 .. n - 1 /\ (i - 1) + 1 = i
      BY <1>1, <2>3
    <3>2. \A j \in (i - 1) + 1 .. n - 1 : j + 1 \in i + 1 .. n /\ j \in 1 .. n - 1
      BY <1>1, <3>1
    <3>3. log1[i - 1].at = p /\ log1[i - 1].is = x
      BY <1>1, <2>1, <3>1
    <3>4. \A j \in (i - 1) + 1 .. n - 1 : log1[j].at # p
      BY <1>1, <2>1, <3>2
    <3>5. \E m \in 1 .. Len(log1) : /\ log1[m].at = p /\ log1[m].is = x
                                     /\ \A j \in m + 1 .. Len(log1) : log1[j].at # p
      BY <1>1, <3>1, <3>3, <3>4
    <3> HIDE DEF x1
    <3> QED BY <3>5 DEF Shows
  <2> QED BY <2>2, <2>3
<1> QED BY <1>2, <1>3 DEF Shows, log1, n, first

(* No writes, no change. *)
LEMMA ShowsNothing == \A p, x0, x : Shows(<<>>, p, x0, x) <=> x = x0
BY DEF Shows

-----------------------------------------------------------------------------
(* The states of a command that goes well.                                 *)
(* (num_of_pages counts pages, and is only read while free_offset is not 0.) *)
HeadType == [free : PageNo, root : PageNo, num : Int]
Writes == [at : PageNo, is : Page \cup HeadType]
Copy   == [null : BOOLEAN, at : PageNo, leaf : BOOLEAN, n : KeySlot, first : PageNo]
Later  == [child : PageNo, key : KeyValue, new : PageNo]

Command == [pages : Image, header : HeadType, root : Copy, log : Seq(Writes),
            end : End, harm : SUBSET Harm, next : Later, new : PageNo]

(* It has written what it changed since it began. *)
ToldPages(s) == \A p \in 1 .. MaxPage : Shows(s.log, p, pages[p], s.pages[p])
ToldHeader(s) == Shows(s.log, 0, header, s.header)
Unharmed(s) == s \in Command /\ s.end = "ok" /\ s.harm = {}
Running(s) == Unharmed(s) /\ ToldPages(s) /\ ToldHeader(s)

(* What does not change from s to t. *)
SameTree(s, t) == t.pages = s.pages /\ t.root = s.root /\ t.next = s.next
SameFile(s, t) == t.header = s.header /\ t.root = s.root /\ t.next = s.next /\ t.new = s.new

(* A page is written. *)
LEMMA WriteRuns ==
    ASSUME NEW s, Running(s), NEW p \in 1 .. MaxPage, NEW c \in Page,
           NEW t, t = WritePage(s, p, c)
    PROVE  Running(t) /\ SameFile(s, t) /\ t.pages = Written(s.pages, p, c)
<1> DEFINE e == [at |-> p, is |-> c]
<1>1. /\ s \in Command /\ s.end = "ok" /\ s.harm = {} /\ s.pages \in Image /\ s.log \in Seq(Writes)
  BY DEF Running, Unharmed, Command
<1>2. t = [s EXCEPT !.pages = [s.pages EXCEPT ![p] = c], !.log = Append(s.log, e)]
  BY <1>1 DEF WritePage
<1>3. e \in Writes /\ e = WriteOf(p, c) /\ p # 0
  BY PageNumbers DEF Writes, WriteOf
<1> HIDE DEF e
<1>4. /\ Append(s.log, e) \in Seq(Writes)
      /\ \A x0 : Shows(Append(s.log, e), p, x0, c)
      /\ \A q, x0, x : q # p /\ Shows(s.log, q, x0, x) => Shows(Append(s.log, e), q, x0, x)
  BY <1>1, <1>3, ShowsNext
<1>5. [s.pages EXCEPT ![p] = c] = Written(s.pages, p, c) /\ Written(s.pages, p, c) \in Image
  BY <1>1 DEF Written, Image
<1>6. t = [s EXCEPT !.pages = Written(s.pages, p, c), !.log = Append(s.log, e)]
  BY <1>2, <1>5
<1>7. /\ t \in Command /\ t.end = "ok" /\ t.harm = {} /\ SameFile(s, t)
      /\ t.pages = Written(s.pages, p, c) /\ t.log = Append(s.log, e)
  BY <1>1, <1>4, <1>5, <1>6 DEF Command, SameFile
<1>8. ToldPages(t)
  <2> SUFFICES ASSUME NEW q \in 1 .. MaxPage PROVE Shows(t.log, q, pages[q], t.pages[q])
    BY DEF ToldPages
  <2>1. Shows(s.log, q, pages[q], s.pages[q])
    BY DEF Running, ToldPages
  <2>2. t.pages[q] = IF q = p THEN c ELSE s.pages[q]
    BY <1>1, <1>7 DEF Written, Image
  <2> QED BY <1>4, <1>7, <2>1, <2>2
<1>9. ToldHeader(t)
  <2>1. Shows(s.log, 0, header, s.header)
    BY DEF Running, ToldHeader
  <2>2. t.header = s.header
    BY <1>7 DEF SameFile
  <2> QED BY <1>3, <1>4, <1>7, <2>1, <2>2 DEF ToldHeader
<1> QED BY <1>7, <1>8, <1>9 DEF Running, Unharmed

(* The header is written. *)
LEMMA HeaderRuns ==
    ASSUME NEW s, Unharmed(s), ToldPages(s), NEW t, t = WriteHeader(s)
    PROVE  Running(t) /\ SameTree(s, t) /\ SameFile(s, t)
<1> DEFINE e == [at |-> 0, is |-> s.header]
<1>1. s \in Command /\ s.end = "ok" /\ s.harm = {} /\ s.header \in HeadType /\ s.log \in Seq(Writes)
  BY DEF Unharmed, Command
<1>2. t = [s EXCEPT !.log = Append(s.log, e)]
  BY <1>1 DEF WriteHeader
<1>3. e \in Writes /\ e = WriteOf(0, s.header)
  BY <1>1, PageNumbers DEF Writes, WriteOf, PageNo
<1> HIDE DEF e
<1>4. /\ Append(s.log, e) \in Seq(Writes)
      /\ \A x0 : Shows(Append(s.log, e), 0, x0, s.header)
      /\ \A q, x0, x : q # 0 /\ Shows(s.log, q, x0, x) => Shows(Append(s.log, e), q, x0, x)
  BY <1>1, <1>3, ShowsNext
<1>5. /\ t \in Command /\ t.end = "ok" /\ t.harm = {} /\ SameTree(s, t) /\ SameFile(s, t)
      /\ t.pages = s.pages /\ t.header = s.header /\ t.log = Append(s.log, e)
  BY <1>1, <1>2, <1>4 DEF Command, SameTree, SameFile
<1>6. ToldPages(t)
  <2> SUFFICES ASSUME NEW q \in 1 .. MaxPage PROVE Shows(t.log, q, pages[q], t.pages[q])
    BY DEF ToldPages
  <2>1. Shows(s.log, q, pages[q], s.pages[q]) /\ q # 0
    BY DEF ToldPages
  <2> QED BY <1>4, <1>5, <2>1
<1>7. ToldHeader(t)
  BY <1>4, <1>5 DEF ToldHeader
<1> QED BY <1>5, <1>6, <1>7 DEF Running, Unharmed

(* A command that came to its end, or to what Harm has tags for. *)
Hurting(s) == "harm" \in DOMAIN s /\ s.harm # {}
Over(s) == s.end = "full" \/ Hurting(s)

(* The next page to be made is as clear as all behind it.                  *)
ClearAhead(head, image) ==
    head.free # 0 => /\ head.free = head.num
                     /\ \A p \in 1 .. MaxPage : p >= head.free => image[p] = ZeroPage

(* The header once page p was made. *)
HeaderAfter(p, top) == [free |-> p + 1, root |-> top, num |-> p + 1]

(* An empty page is a page. *)
LEMMA ZeroIsPage == ZeroPage \in Page /\ ~ZeroPage.leaf /\ ZeroPage.parent = 0 /\ ZeroPage.n = 0
                    /\ ZeroFrom(ZeroPage.off, 1)
<1>1. /\ 0 \in PageNo /\ 0 \in KeySlot /\ 0 \in 0 .. KeyMod - 1
  BY NodeAssumption DEF PageNo, KeySlot
<1>2. ZeroPage \in Page
  BY <1>1 DEF ZeroPage, Page
<1> QED BY <1>2 DEF ZeroPage, ZeroFrom

(* Records are what their fields are.                                      *)
LEMMA SameHeader ==
    \A a, b \in HeadType : a.free = b.free /\ a.root = b.root /\ a.num = b.num => a = b
BY DEF HeadType
LEMMA SamePage ==
    \A c, d \in Page : /\ c.parent = d.parent /\ c.leaf = d.leaf /\ c.n = d.n
                       /\ c.key = d.key /\ c.off = d.off
                       => c = d
BY DEF Page

(* A page is made. *)
LEMMA MakeRuns ==
    ASSUME NEW s, Running(s), ClearAhead(s.header, s.pages), NEW t, t = MakePage(s)
    PROVE  \/ t.end # "ok" /\ Over(t)
           \/ /\ Running(t) /\ SameTree(s, t) /\ t.new = s.header.free
              /\ t.new \in 1 .. MaxPage /\ t.new + 1 \in 1 .. MaxPage
              /\ t.header = HeaderAfter(t.new, s.header.root)
              /\ NewPage(t) = Fresh(t.new, ZeroPage)
<1> DEFINE p == s.header.free
           w == Read(s, p).parent
           h == [s.header EXCEPT !.free = IF w # 0 THEN w ELSE s.header.num + 1, !.num = @ + 1]
           u == [s EXCEPT !.header = h, !.new = p]
<1>1. /\ s \in Command /\ s.end = "ok" /\ s.harm = {} /\ s.header \in HeadType /\ s.pages \in Image
      /\ p \in PageNo /\ s.header.num \in Int
  BY DEF Running, Unharmed, Command, HeadType
<1>2. CASE p = 0
  <2>1. t = Stop(s, "corrupt")
    BY <1>2 DEF MakePage
  <2>2. t.end = "corrupt" /\ Hurting(t)
    BY <1>1, <2>1 DEF Stop, Hurting, Command
  <2> QED BY <2>2 DEF Over
<1>3. CASE p # 0
  <2>1. p \in 1 .. MaxPage /\ p \in Nat /\ s.header.num = p /\ s.pages[p] = ZeroPage
    <3>1. p \in 1 .. MaxPage /\ p \in Nat /\ p >= p
      BY <1>1, <1>3, PageNumbers DEF PageNo
    <3> QED BY <1>3, <3>1 DEF ClearAhead
  <2>2. Read(s, p) = ZeroPage /\ w = 0
    BY <1>3, <2>1, ZeroIsPage DEF Read
  <2>3. h.num = p + 1 /\ h.free = p + 1 /\ h.root = s.header.root
    BY <1>1, <2>1, <2>2 DEF HeadType
  <2>4. CASE h.num > MaxPage
    <3>1. t = Stop(s, "full")
      BY <1>3, <2>4 DEF MakePage
    <3>2. t.end = "full"
      BY <1>1, <3>1 DEF Stop, Command
    <3> QED BY <3>2 DEF Over
  <2>5. CASE ~(h.num > MaxPage)
    <3>1. t = WriteHeader(u)
      BY <1>1, <1>3, <2>5 DEF MakePage
    <3>2. p + 1 \in 1 .. MaxPage /\ h \in HeadType
      <4>1. p + 1 \in 1 .. MaxPage /\ p + 1 \in PageNo
        BY <2>1, <2>3, <2>5, PageNumbers DEF PageNo
      <4>2. \A x \in PageNo : \A y \in Int : [s.header EXCEPT !.free = x, !.num = y] \in HeadType
        BY <1>1 DEF HeadType
      <4>3. h = [s.header EXCEPT !.free = p + 1, !.num = s.header.num + 1]
        BY <2>1, <2>2
      <4>4. s.header.num + 1 \in Int
        BY <1>1
      <4> QED BY <4>1, <4>2, <4>3, <4>4, Zenon
    <3>h. h = HeaderAfter(p, s.header.root)
      <4>1. HeaderAfter(p, s.header.root) \in HeadType
        BY <1>1, <3>2 DEF HeadType, HeaderAfter, PageNo
      <4>2. h.num = p + 1 /\ h.free = p + 1 /\ h.root = s.header.root
        BY <2>3
      <4> HIDE DEF h
      <4> QED BY <3>2, <4>1, <4>2, SameHeader DEF HeaderAfter
    <3> HIDE DEF h
    <3>3. Unharmed(u) /\ u.pages = s.pages /\ u.log = s.log /\ SameTree(s, u) /\ u.new = p /\ u.header = h
      BY <1>1, <3>2 DEF Unharmed, Command, SameTree
    <3>4. ToldPages(u)
      BY <3>3 DEF Running, ToldPages
    <3> HIDE DEF u
    <3>5. Running(t) /\ SameTree(u, t) /\ SameFile(u, t)
      BY <3>1, <3>3, <3>4, HeaderRuns
    <3>6. SameTree(s, t) /\ t.new = p /\ t.header = h
      BY <3>3, <3>5 DEF SameTree, SameFile
    <3>7. NewPage(t) = Fresh(p, ZeroPage)
      <4>1. Read(t, p) = ZeroPage
        BY <1>3, <2>1, <3>6 DEF Read, SameTree
      <4>2. [ZeroPage EXCEPT !.parent = 0, !.leaf = FALSE, !.n = 0] = ZeroPage
        <5> DEFINE z == [ZeroPage EXCEPT !.parent = 0, !.leaf = FALSE, !.n = 0]
        <5>1. z \in Page /\ z.parent = 0 /\ z.leaf = FALSE /\ z.n = 0 /\ z.key = ZeroPage.key /\ z.off = ZeroPage.off
          BY ZeroIsPage DEF Page
        <5> HIDE DEF z
        <5>2. z = ZeroPage
          <6>1. ZeroPage.parent = 0 /\ ZeroPage.leaf = FALSE /\ ZeroPage.n = 0
            BY DEF ZeroPage
          <6> QED BY <5>1, <6>1, ZeroIsPage, SamePage
        <5> QED BY <5>2 DEF z
      <4> QED BY <3>6, <4>1, <4>2 DEF NewPage, Fresh
    <3> QED BY <2>1, <3>2, <3>h, <3>5, <3>6, <3>7
  <2> QED BY <2>4, <2>5
<1> QED BY <1>2, <1>3

(* The root is written and then the header. *)
LEMMA SetRootRuns ==
    ASSUME NEW s, Running(s), NEW p \in 1 .. MaxPage, NEW c \in Page, NEW t, t = SetRoot(s, p, c)
    PROVE  /\ Running(t) /\ t.pages = Written(s.pages, p, c) /\ t.next = s.next
           /\ t.header = [s.header EXCEPT !.root = p]
           /\ t.root.at = p /\ ~t.root.null
<1> DEFINE v == WritePage(s, p, c)
           u == [v EXCEPT !.root = RootCopy(p, c), !.header.root = p]
<1>1. Running(v) /\ SameFile(s, v) /\ v.pages = Written(s.pages, p, c)
  BY WriteRuns
<1>2. t = WriteHeader(u)
  BY DEF SetRoot
<1> HIDE DEF v
<1>3. v \in Command /\ v.end = "ok" /\ v.harm = {} /\ v.header \in HeadType
  BY <1>1 DEF Running, Unharmed, Command
<1>4. RootCopy(p, c) \in Copy /\ RootCopy(p, c).at = p /\ ~RootCopy(p, c).null
  <2>1. p \in PageNo /\ c.leaf \in BOOLEAN /\ c.n \in KeySlot /\ c.off[0] \in PageNo
    <3>1. 0 \in OffSlot
      BY NodeAssumption DEF OffSlot
    <3> QED BY <3>1, PageNumbers DEF Page, PageNo
  <2> QED BY <2>1 DEF RootCopy, Copy
<1>5. [v.header EXCEPT !.root = p] \in HeadType
  BY <1>3 DEF HeadType, PageNo
<1> HIDE DEF RootCopy
<1>6. /\ Unharmed(u) /\ u.pages = v.pages /\ u.log = v.log /\ u.next = v.next
      /\ u.header = [v.header EXCEPT !.root = p] /\ u.root = RootCopy(p, c)
  BY <1>3, <1>4, <1>5 DEF Unharmed, Command
<1>7. ToldPages(u)
  BY <1>1, <1>6 DEF Running, ToldPages
<1> HIDE DEF u
<1>8. Running(t) /\ SameTree(u, t) /\ SameFile(u, t)
  BY <1>2, <1>6, <1>7, HeaderRuns
<1> QED BY <1>1, <1>4, <1>6, <1>8 DEF SameTree, SameFile

-----------------------------------------------------------------------------
(* One child is told its parent, and the function that AdoptChildren is    *)
(* defined by.                                                             *)
AdoptNext(s, p, c, i, t) ==
    LET ch == c.off[i - 1]
    IN  IF i - 1 > c.n \/ t.end # "ok" THEN t
        ELSE IF ch = 0
        THEN [t EXCEPT !.log = Append(@, [at |-> 0, is |-> [s.header EXCEPT !.free = p]])]
        ELSE WritePage(t, ch, [Read(t, ch) EXCEPT !.parent = p])
IsAdoption(g, s, p, c) ==
    g = [i \in 0 .. InternalOrder |-> IF i = 0 THEN s ELSE AdoptNext(s, p, c, i, g[i - 1])]

(* It exists, by induction over the number of children. *)
LEMMA AdoptionExists ==
    ASSUME NEW s, NEW p, NEW c
    PROVE  \E g : IsAdoption(g, s, p, c)
<1> DEFINE H(i, t) == AdoptNext(s, p, c, i, t)
           N == InternalOrder
           Ok(g, d) == g[0] = s /\ \A i \in 1 .. d : g[i] = H(i, g[i - 1])
           S == {d \in 0 .. N : \E g : Ok(g, d)}
<1>n. N \in Nat /\ 0 \in 0 .. N
  BY NodeAssumption
<1> HIDE DEF H, N
<1>1. 0 \in S
  <2> DEFINE g == [j \in {0} |-> s]
  <2>1. g[0] = s /\ \A j \in 1 .. 0 : FALSE
    OBVIOUS
  <2> HIDE DEF g
  <2>2. Ok(g, 0)
    BY <2>1
  <2> HIDE DEF Ok
  <2> QED BY <1>n, <2>2
<1>2. ASSUME NEW d \in 0 + 1 .. N, d - 1 \in S PROVE d \in S
  <2>1. PICK g : Ok(g, d - 1)
    BY <1>2
  <2> DEFINE f == [j \in 0 .. N |-> IF j < d THEN g[j] ELSE H(d, g[d - 1])]
  <2>2. \A j \in 0 .. N : f[j] = IF j < d THEN g[j] ELSE H(d, g[d - 1])
    OBVIOUS
  <2> HIDE DEF f
  <2>3. d \in 0 .. N /\ 0 < d /\ \A j \in 1 .. d : j \in 0 .. N /\ j - 1 \in 0 .. N /\ j - 1 < d
    BY <1>n
  <2>4. f[0] = s
    BY <1>n, <2>1, <2>2, <2>3
  <2>5. ASSUME NEW j \in 1 .. d PROVE f[j] = H(j, f[j - 1])
    <3>1. f[j - 1] = g[j - 1]
      BY <2>2, <2>3
    <3>2. CASE j = d
      BY <2>2, <2>3, <3>1, <3>2
    <3>3. CASE j # d
      <4>1. j \in 1 .. d - 1 /\ j < d
        BY <2>3, <3>3
      <4> QED BY <2>1, <2>2, <2>3, <3>1, <4>1
    <3> QED BY <3>2, <3>3
  <2>6. Ok(f, d)
    BY <2>4, <2>5
  <2> HIDE DEF Ok
  <2> QED BY <2>3, <2>6
<1>3. N \in S
  <2> HIDE DEF S
  <2>1. \A d \in 0 .. N : d \in S
    BY <1>n, <1>1, <1>2, IntervalInduction
  <2> QED BY <1>n, <2>1
<1>4. PICK g : Ok(g, N)
  BY <1>3
<1> DEFINE f == [j \in 0 .. N |-> g[j]]
<1>5. \A j \in 0 .. N : f[j] = IF j = 0 THEN s ELSE H(j, f[j - 1])
  <2> SUFFICES ASSUME NEW j \in 0 .. N PROVE g[j] = IF j = 0 THEN s ELSE H(j, f[j - 1])
    OBVIOUS
  <2>1. j # 0 => j \in 1 .. N /\ j - 1 \in 0 .. N
    BY <1>n
  <2> QED BY <1>4, <2>1
<1>6. f = [j \in 0 .. N |-> f[j]]
  OBVIOUS
<1> HIDE DEF f
<1>7. f = [j \in 0 .. N |-> IF j = 0 THEN s ELSE H(j, f[j - 1])]
  BY <1>5, <1>6
<1> QED BY <1>7 DEF IsAdoption, H, N

(* Child by child. *)
LEMMA AdoptSteps ==
    ASSUME NEW s, NEW p, NEW c
    PROVE  \E g : /\ AdoptChildren(s, p, c) = g[InternalOrder]
                  /\ g[0] = s /\ \A i \in 1 .. InternalOrder : g[i] = AdoptNext(s, p, c, i, g[i - 1])
<1> DEFINE adopt == CHOOSE g : IsAdoption(g, s, p, c)
<1>1. AdoptChildren(s, p, c) = adopt[InternalOrder]
  BY DEF AdoptChildren, IsAdoption, AdoptNext
<1>2. IsAdoption(adopt, s, p, c)
  BY AdoptionExists
<1> HIDE DEF adopt
<1>3. adopt[0] = s /\ \A i \in 1 .. InternalOrder : adopt[i] = AdoptNext(s, p, c, i, adopt[i - 1])
  <2>1. 0 \in 0 .. InternalOrder /\ \A i \in 1 .. InternalOrder : i \in 0 .. InternalOrder /\ i # 0
    BY NodeAssumption
  <2> QED BY <1>2, <2>1 DEF IsAdoption
<1> QED BY <1>1, <1>3

(* Pages S are told their parent p. *)
AdoptImage(image, S, p) == [x \in 1 .. MaxPage |-> IF x \in S THEN Adopted(image[x], p) ELSE image[x]]
Some(c, i) == {c.off[j] : j \in {m \in 0 .. c.n : m < i}}

(* All children of page c are. *)
LEMMA AdoptRuns ==
    ASSUME NEW s, Running(s), NEW p \in PageNo, NEW c, c.n \in 0 .. InternalOrder - 1,
           \A x \in Children(c) : x \in 1 .. MaxPage,
           NEW t, t = AdoptChildren(s, p, c)
    PROVE  Running(t) /\ SameFile(s, t) /\ t.pages = AdoptImage(s.pages, Children(c), p)
<1>1. PICK g : /\ t = g[InternalOrder] /\ g[0] = s
               /\ \A i \in 1 .. InternalOrder : g[i] = AdoptNext(s, p, c, i, g[i - 1])
  BY AdoptSteps
<1> DEFINE Done(i) == /\ Running(g[i]) /\ SameFile(s, g[i])
                      /\ g[i].pages = AdoptImage(s.pages, Some(c, i), p)
           S == {i \in 0 .. InternalOrder : Done(i)}
<1>2. InternalOrder \in Nat /\ c.n \in Nat /\ c.n < InternalOrder
  BY NodeAssumption
<1>3. s.pages \in Image
  BY DEF Running, Unharmed, Command
<1>4. 0 \in S
  <2>1. Some(c, 0) = {}
    BY <1>2 DEF Some
  <2>2. s.pages = AdoptImage(s.pages, {}, p)
    BY <1>3 DEF AdoptImage, Image
  <2>3. 0 \in 0 .. InternalOrder
    BY <1>2
  <2> QED BY <1>1, <2>1, <2>2, <2>3 DEF SameFile
<1>5. ASSUME NEW i \in 0 + 1 .. InternalOrder, i - 1 \in S PROVE i \in S
  <2> DEFINE u == g[i - 1]
             v == g[i]
             ch == c.off[i - 1]
             image == s.pages
  <2>1. /\ Running(u) /\ SameFile(s, u) /\ u.pages = AdoptImage(image, Some(c, i - 1), p)
        /\ v = AdoptNext(s, p, c, i, u) /\ i \in 0 .. InternalOrder /\ i - 1 \in Nat /\ i \in Nat
    BY <1>1, <1>2, <1>5
  <2> HIDE DEF u, v
  <2>2. u.end = "ok" /\ u.pages \in Image
    BY <2>1 DEF Running, Unharmed, Command
  <2>3. CASE i - 1 > c.n
    <3>1. v = u
      BY <2>1, <2>3 DEF AdoptNext
    <3>2. Some(c, i) = Some(c, i - 1)
      <4>1. \A m \in 0 .. c.n : m < i <=> m < i - 1
        BY <1>2, <2>1, <2>3
      <4> QED BY <4>1 DEF Some
    <3> QED BY <2>1, <3>1, <3>2 DEF v
  <2>4. CASE ~(i - 1 > c.n)
    <3>1. i - 1 \in 0 .. c.n
      BY <1>2, <2>1, <2>4
    <3>2. ch \in 1 .. MaxPage /\ ch # 0
      BY <3>1, PageNumbers DEF Children
    <3>3. v = WritePage(u, ch, [Read(u, ch) EXCEPT !.parent = p])
      BY <2>1, <2>2, <2>4, <3>2 DEF AdoptNext
    <3> HIDE DEF ch
    <3>4. image[ch] \in Page /\ \A x \in 1 .. MaxPage : image[x] \in Page
      BY <1>3, <3>2 DEF Image
    <3>5. [Read(u, ch) EXCEPT !.parent = p] = Adopted(image[ch], p)
      <4>1. Read(u, ch) = IF ch \in Some(c, i - 1) THEN Adopted(image[ch], p) ELSE image[ch]
        BY <2>1, <3>2 DEF Read, AdoptImage
      <4>2. [Adopted(image[ch], p) EXCEPT !.parent = p] = Adopted(image[ch], p)
        <5> DEFINE a == Adopted(image[ch], p)
                   b == [a EXCEPT !.parent = p]
        <5>1. a \in Page /\ a.parent = p
          BY <3>4, AdoptedIsSame
        <5> HIDE DEF a
        <5>2. /\ b \in Page /\ b.parent = a.parent /\ b.leaf = a.leaf /\ b.n = a.n
              /\ b.key = a.key /\ b.off = a.off
          BY <5>1 DEF Page
        <5> HIDE DEF b
        <5>3. b = a
          BY <5>1, <5>2, SamePage
        <5> QED BY <5>3 DEF a, b
      <4> QED BY <4>1, <4>2 DEF Adopted
    <3>6. Adopted(image[ch], p) \in Page
      BY <3>4, AdoptedIsSame
    <3>7. Running(v) /\ SameFile(u, v) /\ v.pages = Written(u.pages, ch, Adopted(image[ch], p))
      BY <2>1, <3>2, <3>3, <3>5, <3>6, WriteRuns
    <3>8. Some(c, i) = Some(c, i - 1) \cup {ch}
      <4>1. \A m \in 0 .. c.n : m < i <=> m < i - 1 \/ m = i - 1
        BY <1>2, <2>1
      <4> QED BY <3>1, <4>1 DEF Some, ch
    <3>9. v.pages = AdoptImage(image, Some(c, i), p)
      <4>1. \A x \in 1 .. MaxPage : v.pages[x] = IF x = ch THEN Adopted(image[ch], p) ELSE u.pages[x]
        BY <2>2, <3>7 DEF Written, Image
      <4>2. \A x \in 1 .. MaxPage : u.pages[x] = IF x \in Some(c, i - 1) THEN Adopted(image[x], p) ELSE image[x]
        BY <2>1 DEF AdoptImage
      <4>3. \A x \in 1 .. MaxPage : v.pages[x] = IF x \in Some(c, i) THEN Adopted(image[x], p) ELSE image[x]
        BY <3>8, <4>1, <4>2
      <4>4. v.pages = [x \in 1 .. MaxPage |-> v.pages[x]]
        BY <2>2, <3>7 DEF Written, Image
      <4> QED BY <4>3, <4>4 DEF AdoptImage
    <3>10. SameFile(s, v)
      BY <2>1, <3>7 DEF SameFile
    <3> QED BY <2>1, <3>7, <3>9, <3>10 DEF v
  <2> QED BY <2>3, <2>4
<1>6. InternalOrder \in S
  <2> HIDE DEF S
  <2>1. \A i \in 0 .. InternalOrder : i \in S
    BY <1>2, <1>4, <1>5, IntervalInduction
  <2> QED BY <1>2, <2>1
<1>7. Some(c, InternalOrder) = Children(c)
  <2>1. \A m \in 0 .. c.n : m < InternalOrder
    BY <1>2
  <2> QED BY <2>1 DEF Some, Children
<1> QED BY <1>1, <1>6, <1>7

-----------------------------------------------------------------------------
(* A tag of Harm is never taken back.                                      *)
LEMMA HurtsOn ==
    /\ \A s, p, c : Hurting(s) => Hurting(WritePage(s, p, c))
    /\ \A s : Hurting(s) => Hurting(WriteHeader(s))
    /\ \A s, how : Hurting(s) => Hurting(Stop(s, how))
    /\ \A s, tag : Hurting(s) => Hurting(Hurt(s, tag))
    /\ \A s, x : Hurting(s) => Hurting([s EXCEPT !.next = x])
<1>1. \A s, p, c : Hurting(s) => Hurting(WritePage(s, p, c))
  BY DEF Hurting, WritePage
<1>2. \A s : Hurting(s) => Hurting(WriteHeader(s))
  BY DEF Hurting, WriteHeader
<1>3. \A s, how : Hurting(s) => Hurting(Stop(s, how))
  BY DEF Hurting, Stop
<1>4. \A s, tag : Hurting(s) => Hurting(Hurt(s, tag))
  BY DEF Hurting, Hurt
<1>5. \A s, x : Hurting(s) => Hurting([s EXCEPT !.next = x])
  BY DEF Hurting
<1> QED BY <1>1, <1>2, <1>3, <1>4, <1>5

(* What happened in Harm stays in the record of the command. *)
LEMMA MakeHurts == \A s : Hurting(s) => Hurting(MakePage(s))
<1> SUFFICES ASSUME NEW s, Hurting(s) PROVE Hurting(MakePage(s))
  OBVIOUS
<1>1. \A h, p : Hurting([s EXCEPT !.header = h, !.new = p])
  BY DEF Hurting
<1>2. /\ \A h, p : Hurting(WriteHeader([s EXCEPT !.header = h, !.new = p]))
      /\ Hurting(Stop(s, "corrupt")) /\ Hurting(Stop(s, "full"))
  BY <1>1, HurtsOn, Zenon
<1> QED BY <1>2, Zenon DEF MakePage

(* So it does when a root is set, *)
LEMMA SetRootHurts == \A s, p, c : Hurting(s) => Hurting(SetRoot(s, p, c))
<1> SUFFICES ASSUME NEW s, NEW p, NEW c, Hurting(s) PROVE Hurting(SetRoot(s, p, c))
  OBVIOUS
<1> DEFINE v == WritePage(s, p, c)
           u == [v EXCEPT !.root = RootCopy(p, c), !.header.root = p]
<1>1. Hurting(v)
  BY HurtsOn
<1> HIDE DEF v
<1>2. Hurting(u)
  BY <1>1 DEF Hurting
<1> HIDE DEF u
<1>3. Hurting(WriteHeader(u))
  BY <1>2, HurtsOn
<1> QED BY <1>3 DEF SetRoot, u, v

(* when children are told their parent, *)
LEMMA AdoptHurts == \A s, p, c : Hurting(s) => Hurting(AdoptChildren(s, p, c))
<1> SUFFICES ASSUME NEW s, NEW p, NEW c, Hurting(s) PROVE Hurting(AdoptChildren(s, p, c))
  OBVIOUS
<1>1. PICK g : /\ AdoptChildren(s, p, c) = g[InternalOrder] /\ g[0] = s
               /\ \A i \in 1 .. InternalOrder : g[i] = AdoptNext(s, p, c, i, g[i - 1])
  BY AdoptSteps
<1> DEFINE S == {i \in 0 .. InternalOrder : Hurting(g[i])}
<1>2. InternalOrder \in Nat /\ 0 \in S
  BY <1>1, NodeAssumption
<1>3. ASSUME NEW i \in 0 + 1 .. InternalOrder, i - 1 \in S PROVE i \in S
  <2>1. i \in 0 .. InternalOrder /\ g[i] = AdoptNext(s, p, c, i, g[i - 1]) /\ Hurting(g[i - 1])
    BY <1>1, <1>2, <1>3
  <2>2. \A t, x : Hurting(t) => Hurting([t EXCEPT !.log = x])
    BY DEF Hurting
  <2>3. Hurting(AdoptNext(s, p, c, i, g[i - 1]))
    BY <2>1, <2>2, HurtsOn DEF AdoptNext
  <2> QED BY <2>1, <2>3
<1> HIDE DEF S
<1>4. \A i \in 0 .. InternalOrder : i \in S
  BY <1>2, <1>3, IntervalInduction
<1> QED BY <1>1, <1>2, <1>4 DEF S

(* The writes of insert_into_node_after_splitting once the page is made. *)
SplitWrites(t, p, half) ==
    LET t1 == AdoptChildren(t, t.new, half.right)
        t2 == WritePage(WritePage(t1, p, half.left), t.new, half.right)
        middle == ToInt(half.middle)
        t3 == IF middle # half.middle THEN Hurt(t2, "truncated") ELSE t2
    IN  [t3 EXCEPT !.next = [child |-> p, key |-> middle, new |-> t.new]]

(* SplitNode makes a page and then writes, unless the file was full. *)
LEMMA SplitNodeIs ==
    ASSUME NEW s, NEW p, NEW li, NEW k, NEW right, NEW t, t = MakePage(s),
           NEW half, half = NodeHalves(Read(t, p), li, k, right, NewPage(t))
    PROVE  SplitNode(s, p, li, k, right) = IF t.end # "ok" THEN t ELSE SplitWrites(t, p, half)
BY DEF SplitNode, SplitWrites

(* and when one level is climbed. *)
LEMMA InsertHurts == \A s : Hurting(s) => Hurting(InsertIntoParent(s))
<1> SUFFICES ASSUME NEW s, Hurting(s) PROVE Hurting(InsertIntoParent(s))
  OBVIOUS
<1>1. \A left, k, right : Hurting(InsertIntoNewRoot(s, left, k, right))
  <2> SUFFICES ASSUME NEW left, NEW k, NEW right PROVE Hurting(InsertIntoNewRoot(s, left, k, right))
    OBVIOUS
  <2> DEFINE t == MakePage(s)
  <2>1. Hurting(t)
    BY MakeHurts
  <2> HIDE DEF t
  <2>2. \A p, c, q, d, r, e, x :
            Hurting([SetRoot(WritePage(WritePage(t, p, c), q, d), r, e) EXCEPT !.next = x])
    BY <2>1, HurtsOn, SetRootHurts
  <2> QED BY <2>1, <2>2 DEF InsertIntoNewRoot, t
<1>2. \A p, li, k, right : Hurting(SplitNode(s, p, li, k, right))
  <2> SUFFICES ASSUME NEW p, NEW li, NEW k, NEW right PROVE Hurting(SplitNode(s, p, li, k, right))
    OBVIOUS
  <2> DEFINE t == MakePage(s)
             half == NodeHalves(Read(t, p), li, k, right, NewPage(t))
             t1 == AdoptChildren(t, t.new, half.right)
             t2 == WritePage(WritePage(t1, p, half.left), t.new, half.right)
  <2>1. Hurting(t)
    BY MakeHurts
  <2>2. SplitNode(s, p, li, k, right) = IF t.end # "ok" THEN t ELSE SplitWrites(t, p, half)
    BY SplitNodeIs
  <2> HIDE DEF t, half
  <2>3. Hurting(t1)
    BY <2>1, AdoptHurts
  <2> HIDE DEF t1
  <2>4. Hurting(t2) /\ Hurting(Hurt(t2, "truncated"))
    BY <2>3, HurtsOn
  <2>5. SplitWrites(t, p, half) =
            [(IF ToInt(half.middle) # half.middle THEN Hurt(t2, "truncated") ELSE t2)
                EXCEPT !.next = [child |-> p, key |-> ToInt(half.middle), new |-> t.new]]
    BY DEF SplitWrites, t1, t2
  <2> HIDE DEF t2
  <2>6. Hurting(SplitWrites(t, p, half))
    BY <2>4, <2>5, HurtsOn
  <2> QED BY <2>1, <2>2, <2>6
<1>3. \A p, c : Hurting([WritePage(s, p, c) EXCEPT !.next = Nothing])
  BY HurtsOn
<1> QED BY <1>1, <1>2, <1>3 DEF InsertIntoParent

-----------------------------------------------------------------------------
(* The climb of an insertion.                                              *)

(* There is room for the pages to come: none is in use, and a tree of h    *)
(* levels below its root has at least as many pages.                       *)
Room(head, image, rows, h, more) ==
    /\ ClearAhead(head, image)
    /\ head.free # 0 => h + more <= head.free /\ \A x : InTree(rows, h, x) => x \in 1 .. head.free - 1

Rooted(s) == ~s.root.null /\ s.root.at \in 1 .. MaxPage /\ s.header.root = s.root.at

(* The tree is whole and has these keys. *)
HasTree(s, keys) ==
    \E rows, h : /\ IsTree(s.pages, s.root.at, rows, h) /\ Room(s.header, s.pages, rows, h, 2)
                 /\ RowKeys(s.pages, rows[h]) = keys /\ Linked(s.pages, rows[h])
Arrived(s, keys) == Running(s) /\ Rooted(s) /\ s.next = Nothing /\ HasTree(s, keys)

(* Or two halves wait for their parent, i rows below the root.             *)
HasHalf(s, keys, rows, h, i, w) ==
    /\ HalfDone(s.pages, s.root.at, rows, h, i, w, s.next.key, s.next.new) /\ w[1] = s.next.child
    /\ Room(s.header, s.pages, rows, h, 3)
    /\ RowKeys(s.pages, rows[h]) = keys /\ Linked(s.pages, rows[h])
OnTheWay(s, keys, up) ==
    /\ Running(s) /\ Rooted(s) /\ s.next # Nothing /\ s.next.new \in 1 .. MaxPage
    /\ \E rows, h, w : up <= h /\ HasHalf(s, keys, rows, h, h - up, w)

(* Nothing else was done when a level is done. *)
LEMMA NextRuns ==
    ASSUME NEW s, Running(s), NEW x \in Later, NEW t, t = [s EXCEPT !.next = x]
    PROVE  /\ Running(t) /\ t.next = x
           /\ t.pages = s.pages /\ t.header = s.header /\ t.root = s.root /\ t.new = s.new
<1>1. s \in Command /\ s.end = "ok" /\ s.harm = {}
  BY DEF Running, Unharmed
<1>2. /\ t \in Command /\ t.end = "ok" /\ t.harm = {} /\ t.next = x /\ t.log = s.log
      /\ t.pages = s.pages /\ t.header = s.header /\ t.root = s.root /\ t.new = s.new
  BY <1>1 DEF Command
<1>3. ToldPages(t) /\ ToldHeader(t)
  BY <1>2 DEF Running, ToldPages, ToldHeader
<1> QED BY <1>2, <1>3 DEF Running, Unharmed

(* No row is left to do. *)
Ended(s) == [s EXCEPT !.next = Nothing]

(* Nothing left to do is something to be done next. *)
LEMMA NothingIsLater == Nothing \in Later
BY NodeAssumption DEF Nothing, Later, PageNo, KeyValue

(* More pages in use, and the rest still clear. *)
LEMMA RoomAfter ==
    ASSUME NEW image, NEW image1, NEW rows, NEW rows1, NEW h \in Nat, NEW h1 \in Nat, NEW r \in 1 .. MaxPage,
           NEW head, ClearAhead(head, image), head.free = r, head.free # 0,
           h1 + 2 <= r, \A x : InTree(rows, h, x) => x \in 1 .. r - 1,
           \A x : InTree(rows1, h1, x) => InTree(rows, h, x) \/ x = r,
           \A x \in 1 .. MaxPage : x # r /\ ~InTree(rows, h, x) => image1[x] = image[x],
           NEW head1, head1.free = r + 1, head1.num = r + 1
    PROVE  Room(head1, image1, rows1, h1, 3)
<1>1. r \in Nat /\ r + 1 # 0 /\ h1 + 3 <= r + 1
  BY PageNumbers
<1>2. ASSUME NEW x, InTree(rows1, h1, x) PROVE x \in 1 .. (r + 1) - 1
  <2>1. x = r \/ x \in 1 .. r - 1
    BY <1>2
  <2> QED BY <1>1, <2>1
<1>3. ASSUME NEW x \in 1 .. MaxPage, x >= r + 1 PROVE image1[x] = ZeroPage
  <2>1. x >= r /\ x # r /\ ~(x \in 1 .. r - 1)
    BY <1>1, <1>3
  <2> QED BY <2>1 DEF ClearAhead
<1> QED BY <1>1, <1>2, <1>3 DEF Room, ClearAhead

(* Both halves are pages of the rows. *)
LEMMA HalvesAreIn ==
    ASSUME NEW image, NEW top, NEW rows, NEW h, NEW i, NEW w, NEW k, NEW right,
           HalfDone(image, top, rows, h, i, w, k, right)
    PROVE  InTree(rows, h, w[1]) /\ InTree(rows, h, right)
<1> DEFINE a == <<w[1], w[2], k>>
           b == <<right, k, w[3]>>
<1>1. i \in 0 .. h /\ a \in rows[i] /\ b \in rows[i] /\ a[1] = w[1] /\ b[1] = right
  BY DEF HalfDone
<1> HIDE DEF a, b
<1> QED BY <1>1 DEF InTree

(* A page of the tree is written again. *)
LEMMA RoomKept ==
    ASSUME NEW image \in Image, NEW rows, NEW h \in Nat, NEW head, head.free \in PageNo,
           NEW more \in Nat, NEW less \in Nat, less <= more,
           Room(head, image, rows, h, more), NEW p, InTree(rows, h, p), NEW c,
           NEW image1, image1 = Written(image, p, c)
    PROVE  Room(head, image1, rows, h, less)
<1>1. /\ ClearAhead(head, image) /\ head.free \in Nat
      /\ head.free # 0 => h + more <= head.free /\ \A x : InTree(rows, h, x) => x \in 1 .. head.free - 1
  BY PageNumbers DEF Room
<1>2. ASSUME head.free # 0, NEW x \in 1 .. MaxPage, x >= head.free PROVE image1[x] = ZeroPage
  <2>1. x # p
    <3>1. p \in 1 .. head.free - 1
      BY <1>1, <1>2
    <3> QED BY <1>1, <1>2, <3>1
  <2>2. image1[x] = image[x]
    BY <2>1 DEF Written, Image
  <2> QED BY <1>1, <1>2, <2>2 DEF ClearAhead
<1>3. ClearAhead(head, image1)
  BY <1>1, <1>2 DEF ClearAhead
<1>4. head.free # 0 => h + less <= head.free
  BY <1>1
<1> QED BY <1>1, <1>3, <1>4 DEF Room

(* The parent has room for the new page. *)
LEMMA RoomyParent ==
    ASSUME NEW s, Running(s), Rooted(s), NEW keys, NEW rows, NEW h, NEW i, NEW w,
           HasHalf(s, keys, rows, h, i, w), i > 0, s.next.new \in 1 .. MaxPage,
           NEW p, p = s.pages[w[1]].parent, s.pages[p].n < InternalOrder - 1,
           NEW d, d = NodeWith(s.pages[p], LeftIndex(s.pages[p], w[1]), s.next.key, s.next.new),
           NEW t, t = Ended(WritePage(s, p, d))
    PROVE  Arrived(t, keys)
<1> DEFINE image == s.pages
           top == s.root.at
           image1 == Written(image, p, d)
           v == WritePage(s, p, d)
<1>1. /\ HalfDone(image, top, rows, h, i, w, s.next.key, s.next.new)
      /\ Room(s.header, image, rows, h, 3) /\ RowKeys(image, rows[h]) = keys
  BY DEF HasHalf
<1>2. image \in Image
  BY DEF Running, Unharmed, Command
<1>3. /\ InTree(rows, h, p) /\ p \in 1 .. MaxPage /\ d \in Page /\ image1 \in Image
      /\ IsTree(image1, top, rows, h) /\ RowKeys(image1, rows[h]) = keys
  <2> DEFINE k == s.next.key
             right == s.next.new
  <2>1. HalfDone(image, top, rows, h, i, w, k, right) /\ d = NodeWith(image[p], LeftIndex(image[p], w[1]), k, right)
        /\ p = image[w[1]].parent /\ image[p].n < InternalOrder - 1 /\ right \in 1 .. MaxPage
    BY <1>1
  <2> HIDE DEF k, right, image, top
  <2>2. /\ InTree(rows, h, p) /\ p \in 1 .. MaxPage /\ d \in Page /\ image1 \in Image
        /\ IsTree(image1, top, rows, h) /\ RowKeys(image1, rows[h]) = RowKeys(image, rows[h])
    BY <1>2, <2>1, ParentTakesChild
  <2> QED BY <1>1, <2>2
<1>4. Running(v) /\ SameFile(s, v) /\ v.pages = image1
  <2>1. v = WritePage(s, p, d) /\ image1 = Written(s.pages, p, d)
    OBVIOUS
  <2> HIDE DEF v, image1
  <2>2. Running(s) /\ p \in 1 .. MaxPage /\ d \in Page
    BY <1>3
  <2>3. Running(v) /\ SameFile(s, v) /\ v.pages = Written(s.pages, p, d)
    BY ONLY <2>1, <2>2, WriteRuns
  <2> QED BY ONLY <2>1, <2>3
<1> HIDE DEF v, image1
<1>5. /\ Running(t) /\ t.next = Nothing
      /\ t.pages = image1 /\ t.header = s.header /\ t.root = s.root
  <2>1. t = [v EXCEPT !.next = Nothing]
    BY DEF v, Ended
  <2>2. /\ Running(t) /\ t.next = Nothing
        /\ t.pages = v.pages /\ t.header = v.header /\ t.root = v.root
    <3>1. Running(v) /\ Nothing \in Later
      BY <1>4, NothingIsLater
    <3>2. ASSUME NEW x \in Later, NEW u, u = [v EXCEPT !.next = x]
          PROVE  /\ Running(u) /\ u.next = x
                 /\ u.pages = v.pages /\ u.header = v.header /\ u.root = v.root
      BY <3>1, <3>2, NextRuns
    <3> QED BY <2>1, <3>1, <3>2
  <2> QED BY <1>4, <2>2, Zenon DEF SameFile
<1>6. Room(s.header, image1, rows, h, 2)
  <2> DEFINE head == s.header
  <2>1. head.free \in PageNo
    BY DEF Running, Unharmed, Command, HeadType
  <2>2. h \in Nat
    BY <1>1, PageNumbers DEF HalfDone
  <2>3. Room(head, image, rows, h, 3) /\ image1 = Written(image, p, d)
    BY <1>1 DEF image1
  <2>4. image \in Image /\ InTree(rows, h, p)
    BY <1>2, <1>3
  <2> HIDE DEF head, image
  <2>5. ASSUME NEW c, image1 = Written(image, p, c) PROVE Room(head, image1, rows, h, 2)
    BY <2>1, <2>2, <2>3, <2>4, <2>5, RoomKept
  <2> QED BY <2>3, <2>5 DEF head
<1>l. Linked(image1, rows[h])
  <2> DEFINE k == s.next.key
             right == s.next.new
  <2>1. /\ HalfDone(image, top, rows, h, i, w, k, right) /\ Linked(image, rows[h])
        /\ image1 = Written(image, p, d) /\ p = image[w[1]].parent
    BY <1>1 DEF image1, HasHalf
  <2> HIDE DEF k, right, image, top
  <2> QED BY <1>2, <2>1, ParentKeepsLinks
<1>7. HasTree(t, keys)
  BY <1>3, <1>5, <1>6, <1>l, Zenon DEF HasTree
<1> QED BY <1>5, <1>7, Zenon DEF Arrived, Rooted

(* The page that gets two children is the new root. *)
WithTwo(c, left, k, right) == [c EXCEPT !.key[0] = k, !.off[0] = left, !.off[1] = right, !.n = 1]

LEMMA NewRootIs ==
    ASSUME NEW k \in KeyValue, NEW left \in 1 .. MaxPage, NEW right \in 1 .. MaxPage, NewRoot(left, k, right) \in Page
    PROVE  WithTwo(ZeroPage, left, k, right) = NewRoot(left, k, right)
<1> DEFINE z == [ZeroPage EXCEPT !.key[0] = k, !.off[0] = left, !.off[1] = right, !.n = 1]
           e == NewRoot(left, k, right)
<1>2. 0 \in KeySlot /\ 1 \in KeySlot /\ 0 \in OffSlot /\ 1 \in OffSlot
  BY NodeAssumption DEF KeySlot, OffSlot
<1>3. /\ ZeroPage.key = [j \in KeySlot |-> 0] /\ ZeroPage.off = [j \in OffSlot |-> 0]
      /\ ZeroPage.parent = 0 /\ ZeroPage.leaf = FALSE
  BY DEF ZeroPage
<1>4. /\ e.parent = 0 /\ e.leaf = FALSE /\ e.n = 1
      /\ e.key = [j \in KeySlot |-> IF j = 0 THEN k ELSE 0]
      /\ e.off = [j \in OffSlot |-> IF j = 0 THEN left ELSE IF j = 1 THEN right ELSE 0]
  BY DEF NewRoot
<1>5. k \in 0 .. KeyMod - 1 /\ left \in PageNo /\ right \in PageNo
  BY PageNumbers DEF KeyValue
<1> HIDE DEF e
<1>6. /\ z \in Page /\ z.parent = ZeroPage.parent /\ z.leaf = ZeroPage.leaf /\ z.n = 1
      /\ z.key = [ZeroPage.key EXCEPT ![0] = k]
      /\ z.off = [[ZeroPage.off EXCEPT ![0] = left] EXCEPT ![1] = right]
  BY <1>2, <1>5, ZeroIsPage DEF Page
<1> HIDE DEF z
<1>7. z.key = e.key
  <2>1. 0 \in KeySlot /\ ZeroPage.key = [j \in KeySlot |-> 0]
    BY <1>2, <1>3
  <2>2. z.key = [j \in KeySlot |-> IF j = 0 THEN k ELSE 0]
    <3>1. z.key = [ZeroPage.key EXCEPT ![0] = k]
      BY <1>6
    <3> QED BY <2>1, <3>1
  <2> QED BY <1>4, <2>2
<1>8. z.off = e.off
  <2> DEFINE f == [ZeroPage.off EXCEPT ![0] = left]
  <2>1. f = [j \in OffSlot |-> IF j = 0 THEN left ELSE 0]
    BY <1>2, <1>3
  <2> HIDE DEF f
  <2>2. [f EXCEPT ![1] = right] = [j \in OffSlot |-> IF j = 1 THEN right ELSE IF j = 0 THEN left ELSE 0]
    BY <1>2, <2>1
  <2>3. z.off = [f EXCEPT ![1] = right]
    BY <1>6 DEF f
  <2>4. \A j \in OffSlot : (IF j = 1 THEN right ELSE IF j = 0 THEN left ELSE 0)
                             = IF j = 0 THEN left ELSE IF j = 1 THEN right ELSE 0
    OBVIOUS
  <2> QED BY <1>4, <2>2, <2>3, <2>4
<1>9. z = e
  <2>1. e \in Page
    BY DEF e
  <2>2. z \in Page /\ z.parent = e.parent /\ z.leaf = e.leaf /\ z.n = e.n /\ z.key = e.key /\ z.off = e.off
    BY <1>3, <1>4, <1>6, <1>7, <1>8
  <2> QED BY ONLY <2>1, <2>2, SamePage
<1> QED BY <1>9 DEF z, e, WithTwo

(* The root was split. *)
LEMMA RootIsMade ==
    ASSUME NEW s, Running(s), Rooted(s), NEW keys, NEW rows, NEW h, NEW w,
           HasHalf(s, keys, rows, h, 0, w), s.next.new \in 1 .. MaxPage,
           NEW t, t = InsertIntoNewRoot(s, w[1], s.next.key, s.next.new)
    PROVE  Over(t) \/ Arrived(t, keys)
<1> DEFINE image == s.pages
           top == s.root.at
           k == s.next.key
           left == w[1]
           right == s.next.new
           u == MakePage(s)
           r == u.new
           c == [NewPage(u).node EXCEPT !.key[0] = k, !.off[0] = left, !.off[1] = right, !.n = 1]
           u1 == WritePage(u, left, [Read(u, left) EXCEPT !.parent = r])
           u2 == WritePage(u1, right, [Read(u1, right) EXCEPT !.parent = r])
           v == SetRoot(u2, r, c)
<1>1. t = IF u.end # "ok" THEN u ELSE [v EXCEPT !.next = Nothing]
  BY DEF InsertIntoNewRoot
<1>2. /\ HalfDone(image, top, rows, h, 0, w, k, right) /\ right \in 1 .. MaxPage
      /\ Room(s.header, image, rows, h, 3) /\ RowKeys(image, rows[h]) = keys
      /\ image \in Image /\ h \in Nat
  <2>1. HalfDone(image, top, rows, h, 0, w, k, right)
    BY DEF HasHalf
  <2>2. h \in Nat
    BY <2>1, PageNumbers DEF HalfDone
  <2>3. image \in Image
    BY DEF Running, Unharmed, Command
  <2> QED BY <2>1, <2>2, <2>3 DEF HasHalf
<1>3. \/ u.end # "ok" /\ Over(u)
      \/ /\ Running(u) /\ SameTree(s, u) /\ r = s.header.free
         /\ r \in 1 .. MaxPage /\ r + 1 \in 1 .. MaxPage
         /\ u.header = HeaderAfter(r, s.header.root) /\ NewPage(u) = Fresh(r, ZeroPage)
  BY <1>2, MakeRuns DEF Room
<1> HIDE DEF u
<1>4. CASE u.end # "ok" /\ Over(u)
  BY <1>1, <1>4
<1>5. CASE /\ Running(u) /\ SameTree(s, u) /\ r = s.header.free
           /\ r \in 1 .. MaxPage /\ r + 1 \in 1 .. MaxPage
           /\ u.header = HeaderAfter(r, s.header.root) /\ NewPage(u) = Fresh(r, ZeroPage)
  <2>1. t = [v EXCEPT !.next = Nothing]
    BY <1>1, <1>5 DEF Running, Unharmed
  <2>2. /\ u.pages = image /\ r \in Nat /\ r # 0 /\ h + 3 <= r /\ h + 1 \in 0 .. MaxPage - 1
        /\ \A x : InTree(rows, h, x) => x \in 1 .. r - 1
        /\ ~InTree(rows, h, r) /\ ClearAhead(s.header, image)
    <3>1. r \in Nat /\ MaxPage \in Nat /\ r # 0 /\ r < MaxPage
      BY <1>5, PageNumbers
    <3>2. h + 3 <= r /\ ClearAhead(s.header, image) /\ \A x : InTree(rows, h, x) => x \in 1 .. r - 1
      BY <1>2, <1>5, <3>1 DEF Room
    <3>3. h + 1 \in 0 .. MaxPage - 1
      BY <1>2, <3>1, <3>2
    <3>4. r \notin 1 .. r - 1
      BY <3>1
    <3> QED BY <1>5, <3>1, <3>2, <3>3, <3>4 DEF SameTree
  <2> DEFINE image1 == RootImage(image, r, left, k, right)
             rows1 == RowsBelow(r, rows, h)
  <2>3. /\ image1 \in Image /\ NewRoot(left, k, right) \in Page /\ IsTree(image1, r, rows1, h + 1)
        /\ RowKeys(image1, rows1[h + 1]) = keys
        /\ \A x : InTree(rows1, h + 1, x) => InTree(rows, h, x) \/ x = r
        /\ left \in 1 .. MaxPage /\ left # right /\ left # r /\ right # r
    <3> HIDE DEF image, top, k, right, r
    <3> QED BY <1>2, <1>5, <2>2, RootGrows
  <2>l. Linked(image1, rows1[h + 1])
    <3>1. Linked(image, rows[h])
      BY DEF HasHalf
    <3> HIDE DEF image, top, k, right, r
    <3> QED BY <1>2, <1>5, <2>2, <3>1, RootKeepsLinks
  <2>4. c = NewRoot(left, k, right)
    <3>1. NewPage(u).node = ZeroPage
      BY <1>5 DEF Fresh
    <3>2. c = WithTwo(ZeroPage, left, k, right)
      BY <3>1 DEF WithTwo
    <3>3. k \in KeyValue /\ left \in 1 .. MaxPage /\ right \in 1 .. MaxPage
      BY <1>2, <2>3 DEF HalfDone
    <3> HIDE DEF c, k, left, right
    <3> QED BY <2>3, <3>2, <3>3, NewRootIs
  <2> HIDE DEF c
  <2>5. image[left] \in Page /\ image[right] \in Page /\ r \in PageNo
    <3>1. image \in Image /\ left \in 1 .. MaxPage /\ right \in 1 .. MaxPage /\ r \in 1 .. MaxPage
      BY <1>2, <1>5, <2>3
    <3> HIDE DEF image, left, right, r
    <3> QED BY <3>1, PageNumbers DEF Image
  <2>6. Adopted(image[left], r) \in Page /\ Adopted(image[right], r) \in Page
    BY <2>5, AdoptedIsSame
  <2>7. Running(u1) /\ SameFile(u, u1) /\ u1.pages = Written(image, left, Adopted(image[left], r))
    <3>1. [Read(u, left) EXCEPT !.parent = r] = Adopted(image[left], r)
      <4>1. left # 0
        BY <2>3, PageNumbers
      <4> QED BY <2>2, <4>1 DEF Read, Adopted
    <3>2. Running(u) /\ left \in 1 .. MaxPage /\ u.pages = image
      BY <1>5, <2>2, <2>3
    <3> HIDE DEF left, r, image
    <3>3. u1 = WritePage(u, left, Adopted(image[left], r))
      BY <3>1
    <3> HIDE DEF u1
    <3> QED BY <2>6, <3>2, <3>3, WriteRuns
  <2> HIDE DEF u1
  <2>8. Running(u2) /\ SameFile(u1, u2) /\ u2.pages = Written(u1.pages, right, Adopted(image[right], r))
    <3>1. right # 0 /\ u1.pages[right] = image[right]
      BY <1>2, <2>3, <2>7, PageNumbers DEF Written, Image
    <3>2. [Read(u1, right) EXCEPT !.parent = r] = Adopted(image[right], r)
      BY <3>1 DEF Read, Adopted
    <3> QED BY <1>2, <2>6, <2>7, <3>2, WriteRuns
  <2> HIDE DEF u2
  <2>9. /\ Running(v) /\ v.pages = Written(u2.pages, r, c)
        /\ v.header = [u2.header EXCEPT !.root = r] /\ v.root.at = r /\ ~v.root.null
    BY <1>5, <2>3, <2>4, <2>8, SetRootRuns
  <2> HIDE DEF v
  <2>10. v.pages = image1
    <3>1. /\ image \in Image /\ u1.pages = Written(image, left, Adopted(image[left], r))
          /\ u2.pages = Written(u1.pages, right, Adopted(image[right], r))
          /\ v.pages = Written(u2.pages, r, NewRoot(left, k, right)) /\ left # right
      BY <1>2, <2>3, <2>4, <2>7, <2>8, <2>9
    <3> DEFINE root1 == NewRoot(left, k, right)
               a == Adopted(image[left], r)
               b == Adopted(image[right], r)
    <3>2. image1 = [x \in 1 .. MaxPage |-> IF x = r THEN root1
                        ELSE IF x \in {left, right} THEN Adopted(image[x], r) ELSE image[x]]
      BY DEF RootImage
    <3> HIDE DEF image1, image, left, right, r, root1
    <3>3. v.pages = [x \in 1 .. MaxPage |-> IF x = r THEN root1 ELSE IF x = right THEN b
                                             ELSE IF x = left THEN a ELSE image[x]]
      <4>1. u1.pages = [x \in 1 .. MaxPage |-> IF x = left THEN a ELSE image[x]]
        BY <3>1 DEF Written, Image
      <4> HIDE DEF a, b
      <4>2. u2.pages = [x \in 1 .. MaxPage |-> IF x = right THEN b ELSE IF x = left THEN a ELSE image[x]]
        <5>1. u2.pages = Written(u1.pages, right, b)
          BY <3>1 DEF b
        <5> QED BY <4>1, <5>1, Zenon DEF Written
      <4>3. v.pages = Written(u2.pages, r, root1)
        BY <3>1 DEF root1
      <4> QED BY <4>2, <4>3, Zenon DEF Written
    <3>4. ASSUME NEW x \in 1 .. MaxPage
          PROVE  (IF x = r THEN root1 ELSE IF x = right THEN b ELSE IF x = left THEN a ELSE image[x])
                     = IF x = r THEN root1
                       ELSE IF x \in {left, right} THEN Adopted(image[x], r) ELSE image[x]
      OBVIOUS
    <3> HIDE DEF a, b
    <3> QED BY <3>2, <3>3, <3>4
  <2>11. /\ v.header.free = r + 1 /\ v.header.num = r + 1 /\ v.header.root = r
    <3>1. u2.header = HeaderAfter(r, s.header.root)
      BY <1>5, <2>7, <2>8 DEF SameFile
    <3> HIDE DEF r
    <3> QED BY <2>9, <3>1 DEF HeaderAfter
  <2>12. Room(v.header, image1, rows1, h + 1, 3)
    <3>1. \A x \in 1 .. MaxPage : x # r /\ ~InTree(rows, h, x) => image1[x] = image[x]
      <4>1. InTree(rows, h, left) /\ InTree(rows, h, right)
        BY <1>2, HalvesAreIn
      <4> QED BY <4>1 DEF RootImage
    <3>2. h + 1 \in Nat /\ (h + 1) + 2 <= r
      BY <1>2, <2>2
    <3>3. /\ h \in Nat /\ r \in 1 .. MaxPage /\ s.header.free = r /\ s.header.free # 0
          /\ ClearAhead(s.header, image)
          /\ \A x : InTree(rows, h, x) => x \in 1 .. r - 1
          /\ \A x : InTree(rows1, h + 1, x) => InTree(rows, h, x) \/ x = r
          /\ v.header.free = r + 1 /\ v.header.num = r + 1
      BY <1>2, <1>5, <2>2, <2>3, <2>11
    <3> HIDE DEF r, image, image1, rows1
    <3> QED BY <3>1, <3>2, <3>3, RoomAfter
  <2>13. Room(v.header, image1, rows1, h + 1, 2)
    <3>1. v.header.free \in Nat
      BY <2>2, <2>11
    <3> QED BY <1>2, <2>12, <3>1 DEF Room
  <2>14. /\ Running(t) /\ t.next = Nothing
         /\ t.pages = image1 /\ t.header = v.header /\ t.root = v.root
    BY <2>1, <2>9, <2>10, NextRuns, NothingIsLater
  <2>15. HasTree(t, keys)
    <3> HIDE DEF image1, rows1, r
    <3> QED BY <2>3, <2>9, <2>13, <2>14, <2>l DEF HasTree
  <2> QED BY <1>5, <2>9, <2>11, <2>14, <2>15 DEF Arrived, Rooted
<1> QED BY <1>3, <1>4, <1>5

(* What the writes of a split leave. *)
LEMMA SplitImageIs ==
    ASSUME NEW image, NEW p, NEW l, NEW new, NEW r, NEW S, p # new,
           NEW a, a = AdoptImage(image, S, new)
    PROVE  Written(Written(a, p, l), new, r) = SplitImage(image, p, l, new, r, S)
<1> DEFINE b == Written(a, p, l)
           d == Written(b, new, r)
<1>1. a = [x \in 1 .. MaxPage |-> IF x \in S THEN Adopted(image[x], new) ELSE image[x]]
  BY DEF AdoptImage
<1>2. b = [x \in 1 .. MaxPage |-> IF x = p THEN l ELSE
                                  IF x \in S THEN Adopted(image[x], new) ELSE image[x]]
  BY <1>1, Zenon DEF Written
<1> HIDE DEF b
<1>3. d = [x \in 1 .. MaxPage |-> IF x = new THEN r ELSE IF x = p THEN l ELSE
                                  IF x \in S THEN Adopted(image[x], new) ELSE image[x]]
  BY <1>2, Zenon DEF Written
<1> HIDE DEF d
<1>4. SplitImage(image, p, l, new, r, S)
          = [x \in 1 .. MaxPage |-> IF x = p THEN l ELSE IF x = new THEN r ELSE
                                    IF x \in S THEN Adopted(image[x], new) ELSE image[x]]
  BY DEF SplitImage
<1>5. \A x \in 1 .. MaxPage : (IF x = new THEN r ELSE IF x = p THEN l ELSE
                                  IF x \in S THEN Adopted(image[x], new) ELSE image[x])
                              = IF x = p THEN l ELSE IF x = new THEN r ELSE
                                    IF x \in S THEN Adopted(image[x], new) ELSE image[x]
  OBVIOUS
<1> QED BY <1>3, <1>4, <1>5 DEF b, d

(* The writes of insert_into_node_after_splitting are carried out.         *)
LEMMA SplitRuns ==
    ASSUME NEW s, Running(s), NEW p \in 1 .. MaxPage, s.new \in 1 .. MaxPage, p # s.new,
           NEW half, half.left \in Page, half.right \in Page, half.middle \in KeyValue,
           half.right.n \in 0 .. InternalOrder - 1,
           \A x \in Children(half.right) : x \in 1 .. MaxPage,
           NEW t, t = SplitWrites(s, p, half)
    PROVE  \/ Hurting(t)
           \/ /\ Running(t) /\ t.header = s.header /\ t.root = s.root
              /\ t.pages = SplitImage(s.pages, p, half.left, s.new, half.right, Children(half.right))
              /\ t.next = [child |-> p, key |-> half.middle, new |-> s.new]
<1> DEFINE l == half.left
           r == half.right
           m == half.middle
           new == s.new
           t1 == AdoptChildren(s, new, r)
           t2 == WritePage(t1, p, l)
           t3 == WritePage(t2, new, r)
           x == [child |-> p, key |-> ToInt(m), new |-> new]
<1>1. t = [(IF ToInt(m) # m THEN Hurt(t3, "truncated") ELSE t3) EXCEPT !.next = x]
  BY DEF SplitWrites
<1>2. Running(t1) /\ SameFile(s, t1) /\ t1.pages = AdoptImage(s.pages, Children(r), new)
  <2>1. new \in PageNo
    BY PageNumbers
  <2> HIDE DEF new, r
  <2> QED BY <2>1, AdoptRuns DEF new, r
<1>a. l \in Page /\ r \in Page /\ m \in KeyValue /\ new \in 1 .. MaxPage /\ p # new
  OBVIOUS
<1> HIDE DEF t1, l, r, m
<1>3. Running(t2) /\ SameFile(t1, t2) /\ t2.pages = Written(t1.pages, p, l)
  BY <1>2, <1>a, WriteRuns
<1> HIDE DEF t2, t3
<1>4. Running(t3) /\ SameFile(t2, t3) /\ t3.pages = Written(t2.pages, new, r)
  <2> HIDE DEF new
  <2> QED BY <1>3, <1>a, WriteRuns DEF t3
<1>5. CASE ToInt(m) # m
  <2>1. t = [Hurt(t3, "truncated") EXCEPT !.next = x]
    BY <1>1, <1>5
  <2>2. Hurting(Hurt(t3, "truncated"))
    <3>1. t3 \in Command /\ t3.end = "ok"
      BY <1>4 DEF Running, Unharmed
    <3>2. "harm" \in DOMAIN t3
      BY <3>1 DEF Command
    <3>3. Hurt(t3, "truncated") = [t3 EXCEPT !.harm = t3.harm \cup {"truncated"}]
      BY <3>1 DEF Hurt
    <3>4. /\ "harm" \in DOMAIN Hurt(t3, "truncated")
          /\ Hurt(t3, "truncated").harm = t3.harm \cup {"truncated"}
      BY <3>2, <3>3
    <3> QED BY <3>4 DEF Hurting
  <2> QED BY <2>1, <2>2, HurtsOn
<1>6. CASE ToInt(m) = m
  <2>1. t = [t3 EXCEPT !.next = x] /\ x = [child |-> p, key |-> m, new |-> new]
    BY <1>1, <1>6
  <2>2. x \in Later
    <3>1. p \in PageNo /\ new \in PageNo
      BY <1>a, PageNumbers
    <3> QED BY <1>a, <2>1, <3>1 DEF Later
  <2> HIDE DEF x
  <2>3. Running(t) /\ t.next = x /\ t.pages = t3.pages /\ t.header = t3.header /\ t.root = t3.root
    BY <1>4, <2>1, <2>2, NextRuns
  <2>4. t3.pages = SplitImage(s.pages, p, l, new, r, Children(r))
    BY <1>2, <1>3, <1>4, <1>a, SplitImageIs
  <2>5. t3.header = s.header /\ t3.root = s.root
    BY <1>2, <1>3, <1>4 DEF SameFile
  <2> QED BY <2>1, <2>3, <2>4, <2>5 DEF l, r, m
<1> QED BY <1>5, <1>6

(* The parent is full: two halves of it wait one row higher.               *)
LEMMA ParentIsSplit ==
    ASSUME NEW s, Running(s), Rooted(s), NEW keys, NEW rows, NEW h, NEW i, NEW w,
           HasHalf(s, keys, rows, h, i, w), i > 0, s.next.new \in 1 .. MaxPage,
           NEW p, p = s.pages[w[1]].parent, ~(s.pages[p].n < InternalOrder - 1),
           NEW t, t = SplitNode(s, p, LeftIndex(s.pages[p], w[1]), s.next.key, s.next.new)
    PROVE  \/ Over(t)
           \/ /\ Running(t) /\ Rooted(t) /\ t.next # Nothing /\ t.next.new \in 1 .. MaxPage
              /\ \E rows1, w1 : /\ HasHalf(t, keys, rows1, h, i - 1, w1)
                                /\ Grown(rows, rows1, h, i - 1, t.next.new)
<1> DEFINE image == s.pages
           top == s.root.at
           k == s.next.key
           right == s.next.new
           u == MakePage(s)
           r == u.new
           half == ParentHalves(image, p, w[1], k, right, r, ZeroPage)
           v == SplitWrites(u, p, half)
           S == Children(half.right)
           image1 == SplitImage(image, p, half.left, r, half.right, S)
<1>1. /\ HalfDone(image, top, rows, h, i, w, k, right) /\ right \in 1 .. MaxPage
      /\ Room(s.header, image, rows, h, 3) /\ RowKeys(image, rows[h]) = keys
      /\ image \in Image /\ h \in Nat
  <2>1. HalfDone(image, top, rows, h, i, w, k, right)
    BY DEF HasHalf
  <2>2. h \in Nat
    BY <2>1, PageNumbers DEF HalfDone
  <2>3. image \in Image
    BY DEF Running, Unharmed, Command
  <2> QED BY <2>1, <2>2, <2>3 DEF HasHalf
<1>p. p \in 1 .. MaxPage /\ p # 0
  <2> HIDE DEF image, top, k, right
  <2>1. PICK q \in rows[i - 1] : IsParent(image, top, rows, i, q, w, k, right)
    BY <1>1, ParentOfHalf
  <2>2. q[1] = image[w[1]].parent /\ q[1] \in 1 .. MaxPage
    BY <2>1 DEF IsParent
  <2> QED BY <2>2, PageNumbers DEF image
<1>2. \/ u.end # "ok" /\ Over(u)
      \/ /\ Running(u) /\ SameTree(s, u) /\ r = s.header.free
         /\ r \in 1 .. MaxPage /\ r + 1 \in 1 .. MaxPage
         /\ u.header = HeaderAfter(r, s.header.root) /\ NewPage(u) = Fresh(r, ZeroPage)
  BY <1>1, MakeRuns DEF Room
<1> HIDE DEF u
<1>3. \A x : x = NodeHalves(Read(u, p), LeftIndex(image[p], w[1]), k, right, NewPage(u))
             => t = IF u.end # "ok" THEN u ELSE SplitWrites(u, p, x)
  BY SplitNodeIs DEF u
<1>4. CASE u.end # "ok" /\ Over(u)
  BY <1>3, <1>4
<1>5. CASE /\ Running(u) /\ SameTree(s, u) /\ r = s.header.free
           /\ r \in 1 .. MaxPage /\ r + 1 \in 1 .. MaxPage
           /\ u.header = HeaderAfter(r, s.header.root) /\ NewPage(u) = Fresh(r, ZeroPage)
  <2>1. t = v
    <3>1. Read(u, p) = image[p]
      BY <1>p, <1>5 DEF Read, SameTree
    <3>2. half = NodeHalves(Read(u, p), LeftIndex(image[p], w[1]), k, right, NewPage(u))
      BY <1>5, <3>1 DEF ParentHalves
    <3>3. u.end = "ok"
      BY <1>5 DEF Running, Unharmed
    <3> HIDE DEF half
    <3> QED BY <1>3, <3>2, <3>3
  <2>2. /\ u.pages = image /\ u.root = s.root /\ r \in Nat /\ r # 0 /\ h + 3 <= r
        /\ \A x : InTree(rows, h, x) => x \in 1 .. r - 1
        /\ ~InTree(rows, h, r) /\ ClearAhead(s.header, image)
    <3>1. r \in Nat /\ r # 0
      BY <1>5, PageNumbers
    <3>2. h + 3 <= r /\ ClearAhead(s.header, image) /\ \A x : InTree(rows, h, x) => x \in 1 .. r - 1
      BY <1>1, <1>5, <3>1 DEF Room
    <3>3. r \notin 1 .. r - 1
      BY <3>1
    <3> QED BY <1>5, <3>1, <3>2, <3>3 DEF SameTree
  <2>3. /\ image1 \in Image
        /\ \E q, rows1 : /\ HalfDone(image1, top, rows1, h, i - 1, q, half.middle, r)
                         /\ q[1] = p
                         /\ \A x : InTree(rows1, h, x) => InTree(rows, h, x) \/ x = r
                         /\ Grown(rows, rows1, h, i - 1, r)
                         /\ RowKeys(image1, rows1[h]) = RowKeys(image, rows[h])
                         /\ Linked(image, rows[h]) => Linked(image1, rows1[h])
        /\ half.left \in Page /\ half.right \in Page /\ half.middle \in KeyValue
        /\ half.right.n \in 0 .. InternalOrder - 1
        /\ \A x \in S : x \in 1 .. MaxPage /\ InTree(rows, h, x)
        /\ InTree(rows, h, p)
    <3>1. ~(image[p].n < InternalOrder - 1) /\ p = image[w[1]].parent
      OBVIOUS
    <3>2. half = ParentHalves(image, p, w[1], k, right, r, ZeroPage)
      OBVIOUS
    <3> HIDE DEF half
    <3>3. image1 = SplitImage(image, p, half.left, r, half.right, Children(half.right))
      OBVIOUS
    <3>4. /\ image \in Image /\ HalfDone(image, top, rows, h, i, w, k, right)
          /\ right \in 1 .. MaxPage /\ i > 0 /\ r \in 1 .. MaxPage
          /\ ~InTree(rows, h, r) /\ ZeroPage \in Page /\ ~ZeroPage.leaf
      BY <1>1, <1>5, <2>2, ZeroIsPage
    <3> HIDE DEF image, top, k, right, r, image1
    <3>5. image1 \in Image
      BY <3>1, <3>2, <3>3, <3>4, NodeIsHalfDone
    <3>6. \E q, rows1 : /\ HalfDone(image1, top, rows1, h, i - 1, q, half.middle, r)
                        /\ q[1] = p
                        /\ \A x : InTree(rows1, h, x) => InTree(rows, h, x) \/ x = r
                        /\ Grown(rows, rows1, h, i - 1, r)
                        /\ RowKeys(image1, rows1[h]) = RowKeys(image, rows[h])
                        /\ Linked(image, rows[h]) => Linked(image1, rows1[h])
      BY ONLY <3>1, <3>2, <3>3, <3>4, NodeIsHalfDone
    <3>7. /\ half.left \in Page /\ half.right \in Page /\ half.middle \in KeyValue
          /\ half.right.n \in 0 .. InternalOrder - 1
          /\ \A x \in Children(half.right) : x \in 1 .. MaxPage /\ InTree(rows, h, x)
          /\ InTree(rows, h, p)
      BY <3>1, <3>2, <3>3, <3>4, NodeIsHalfDone
    <3> QED BY <3>5, <3>6, <3>7
  <2> HIDE DEF half
  <2>4. PICK q, rows1 : /\ HalfDone(image1, top, rows1, h, i - 1, q, half.middle, r)
                        /\ q[1] = p
                        /\ \A x : InTree(rows1, h, x) => InTree(rows, h, x) \/ x = r
                        /\ Grown(rows, rows1, h, i - 1, r)
                        /\ RowKeys(image1, rows1[h]) = RowKeys(image, rows[h])
                        /\ Linked(image, rows[h]) => Linked(image1, rows1[h])
    BY <2>3
  <2>5. p # r
    BY <2>2, <2>3
  <2>6. \/ Hurting(v)
        \/ /\ Running(v) /\ v.header = u.header /\ v.root = u.root
           /\ v.pages = image1
           /\ v.next = [child |-> p, key |-> half.middle, new |-> r]
    <3>1. /\ Running(u) /\ p \in 1 .. MaxPage /\ r \in 1 .. MaxPage /\ p # r
          /\ half.left \in Page /\ half.right \in Page /\ half.middle \in KeyValue
          /\ half.right.n \in 0 .. InternalOrder - 1
          /\ \A x \in Children(half.right) : x \in 1 .. MaxPage
          /\ image1 = SplitImage(u.pages, p, half.left, r, half.right, Children(half.right))
      BY <1>p, <1>5, <2>2, <2>3, <2>5
    <3> HIDE DEF image1
    <3>2. \/ Hurting(v)
          \/ /\ Running(v) /\ v.header = u.header /\ v.root = u.root
             /\ v.pages = SplitImage(u.pages, p, half.left, u.new, half.right, Children(half.right))
             /\ v.next = [child |-> p, key |-> half.middle, new |-> u.new]
      <4> HIDE DEF image
      <4> QED BY <3>1, SplitRuns
    <3> QED BY <3>1, <3>2
  <2> HIDE DEF v
  <2>7. CASE Hurting(v)
    BY <2>1, <2>7 DEF Over
  <2>8. CASE /\ Running(v) /\ v.header = u.header /\ v.root = u.root
             /\ v.pages = image1
             /\ v.next = [child |-> p, key |-> half.middle, new |-> r]
    <3>1. Rooted(v)
      BY <1>5, <2>2, <2>8 DEF Rooted, HeaderAfter
    <3>2. v.next # Nothing /\ v.next.new = r /\ v.next.key = half.middle /\ v.next.child = p
      <4>1. v.next.child = p /\ v.next.key = half.middle /\ v.next.new = r
        BY <2>8
      <4>2. Nothing.child = 0
        BY DEF Nothing
      <4> QED BY <1>p, <4>1, <4>2
    <3>3. Room(v.header, image1, rows1, h, 3)
      <4>1. v.header.free = r + 1 /\ v.header.num = r + 1
        BY <1>5, <2>8 DEF HeaderAfter
      <4>2. ASSUME NEW x \in 1 .. MaxPage, x # r, ~InTree(rows, h, x) PROVE image1[x] = image[x]
        <5>1. x # p /\ x \notin S
          BY <2>3, <4>2
        <5> QED BY <4>2, <5>1 DEF SplitImage
      <4>3. h + 2 <= r
        BY <1>1, <2>2
      <4>4. s.header.free = r /\ s.header.free # 0 /\ r \in 1 .. MaxPage
        BY <1>5, <2>2
      <4>5. /\ h \in Nat /\ ClearAhead(s.header, image)
            /\ \A x : InTree(rows, h, x) => x \in 1 .. r - 1
            /\ \A x : InTree(rows1, h, x) => InTree(rows, h, x) \/ x = r
            /\ \A x \in 1 .. MaxPage : x # r /\ ~InTree(rows, h, x) => image1[x] = image[x]
        BY <1>1, <2>2, <2>4, <4>2
      <4> HIDE DEF image1, image, r
      <4> QED BY <4>1, <4>3, <4>4, <4>5, RoomAfter
    <3>4. HasHalf(v, keys, rows1, h, i - 1, q)
      <4>1. v.root.at = top /\ RowKeys(image1, rows1[h]) = keys
        BY <1>1, <2>2, <2>4, <2>8
      <4>2. Linked(image, rows[h])
        BY DEF HasHalf
      <4> HIDE DEF image1, image, r, top
      <4> QED BY <2>4, <2>8, <3>2, <3>3, <4>1, <4>2 DEF HasHalf
    <3>5. Grown(rows, rows1, h, i - 1, v.next.new)
      BY <2>4, <3>2
    <3> HIDE DEF image1, image, r, top
    <3> QED BY <1>5, <2>1, <2>8, <3>1, <3>2, <3>4, <3>5
  <2> QED BY <2>6, <2>7, <2>8, Zenon
<1> QED BY <1>2, <1>4, <1>5, Zenon

(* One level of the climb, and the function that Climb is defined by.      *)
InsertLevel(t) == IF t.end # "ok" \/ t.next = Nothing THEN t ELSE InsertIntoParent(t)
IsInsertClimb(g, s) == g = [j \in 0 .. MaxPage |-> IF j = 0 THEN s ELSE InsertLevel(g[j - 1])]

(* It exists, by induction over the number of levels. *)
LEMMA InsertClimbs ==
    ASSUME NEW s
    PROVE  \E g : IsInsertClimb(g, s)
<1> DEFINE H(t) == InsertLevel(t)
           Ok(g, d) == g[0] = s /\ \A j \in 1 .. d : g[j] = H(g[j - 1])
           S == {d \in PageNo : \E g : Ok(g, d)}
<1> HIDE DEF H
<1>1. 0 \in S
  <2> DEFINE g == [j \in {0} |-> s]
  <2>1. g[0] = s /\ \A j \in 1 .. 0 : FALSE
    OBVIOUS
  <2> HIDE DEF g
  <2>2. Ok(g, 0)
    BY <2>1
  <2> HIDE DEF Ok
  <2> QED BY <2>2, PageNumbers
<1>2. ASSUME NEW d \in 0 + 1 .. MaxPage, d - 1 \in S PROVE d \in S
  <2>1. PICK g : Ok(g, d - 1)
    BY <1>2
  <2> DEFINE f == [j \in PageNo |-> IF j < d THEN g[j] ELSE H(g[d - 1])]
  <2>2. \A j \in PageNo : f[j] = IF j < d THEN g[j] ELSE H(g[d - 1])
    OBVIOUS
  <2> HIDE DEF f
  <2>3. d \in PageNo /\ 0 \in PageNo /\ \A j \in 1 .. d : j \in PageNo /\ j - 1 \in PageNo
    BY PageNumbers
  <2>4. f[0] = s
    BY <2>1, <2>2, <2>3
  <2>5. ASSUME NEW j \in 1 .. d PROVE f[j] = H(f[j - 1])
    <3>1. f[j - 1] = g[j - 1]
      BY <2>2, <2>3
    <3>2. CASE j = d
      BY <2>2, <2>3, <3>1, <3>2
    <3>3. CASE j # d
      <4>1. j \in 1 .. d - 1 /\ j < d
        BY <3>3
      <4> QED BY <2>1, <2>2, <2>3, <3>1, <4>1
    <3> QED BY <3>2, <3>3
  <2>6. Ok(f, d)
    BY <2>4, <2>5
  <2> HIDE DEF Ok
  <2> QED BY <2>3, <2>6
<1>3. MaxPage \in S
  <2> HIDE DEF S
  <2>1. \A d \in 0 .. MaxPage : d \in S
    BY <1>1, <1>2, IntervalInduction, PageNumbers
  <2> QED BY <2>1, PageNumbers
<1>4. PICK g : Ok(g, MaxPage)
  BY <1>3
<1> DEFINE f == [j \in PageNo |-> g[j]]
<1>5. \A j \in PageNo : f[j] = IF j = 0 THEN s ELSE H(f[j - 1])
  <2> SUFFICES ASSUME NEW j \in PageNo PROVE g[j] = IF j = 0 THEN s ELSE H(f[j - 1])
    OBVIOUS
  <2>1. j # 0 => j \in 1 .. MaxPage /\ j - 1 \in PageNo
    BY PageNumbers
  <2> QED BY <1>4, <2>1
<1>6. f = [j \in PageNo |-> f[j]]
  OBVIOUS
<1> HIDE DEF f
<1>7. f = [j \in PageNo |-> IF j = 0 THEN s ELSE H(f[j - 1])]
  BY <1>5, <1>6
<1>8. 0 .. MaxPage = PageNo
  BY PageNumbers
<1> QED BY <1>7, <1>8 DEF IsInsertClimb, H

(* One level: insert_into_parent (bpt.c:649) ends the climb or leads to    *)
(* the row above.                                                          *)
LEMMA OneLevelUp ==
    ASSUME NEW s, NEW keys, NEW up \in Nat, OnTheWay(s, keys, up), NEW t, t = InsertIntoParent(s)
    PROVE  Over(t) \/ Arrived(t, keys) \/ OnTheWay(t, keys, up + 1)
<1> DEFINE image == s.pages
           top == s.root.at
           k == s.next.key
           right == s.next.new
           left == s.next.child
           p == Read(s, left).parent
           c == Read(s, p)
           li == LeftIndex(c, left)
<1>1. Running(s) /\ Rooted(s) /\ right \in 1 .. MaxPage /\ image \in Image
  BY DEF OnTheWay, Running, Unharmed, Command
<1>2. PICK rows, h, w : up <= h /\ HasHalf(s, keys, rows, h, h - up, w)
  BY DEF OnTheWay
<1> DEFINE i == h - up
<1>3. HalfDone(image, top, rows, h, i, w, k, right) /\ left = w[1] /\ HasHalf(s, keys, rows, h, i, w)
  BY <1>2 DEF HasHalf
<1>4. h \in Nat /\ i \in 0 .. h /\ h - (up + 1) = i - 1
  BY <1>2, <1>3, PageNumbers DEF HalfDone
<1>5. t = IF p = 0 THEN InsertIntoNewRoot(s, left, k, right)
          ELSE IF c.n < InternalOrder - 1
          THEN [WritePage(s, p, NodeWith(c, li, k, right)) EXCEPT !.next = Nothing]
          ELSE SplitNode(s, p, li, k, right)
  BY DEF InsertIntoParent, LeftIndex
<1>6. left \in 1 .. MaxPage /\ p = image[left].parent
  <2> HIDE DEF image, top, k, right, i
  <2>1. InTree(rows, h, left)
    BY <1>3, HalvesAreIn
  <2>2. \A j \in 0 .. h : \A e \in rows[j] : e[1] \in 1 .. MaxPage
    BY <1>3 DEF HalfDone, EntryInOrder, Entry
  <2>3. left \in 1 .. MaxPage
    BY <2>1, <2>2 DEF InTree
  <2>4. left # 0
    BY <2>3, PageNumbers
  <2> QED BY <2>3, <2>4 DEF Read, image
<1> HIDE DEF i
<1>7. CASE i = 0
  <2>1. p = 0
    <3>1. w = <<top, 0, KeyMod>> /\ image[top].parent = 0
      BY <1>3, <1>7 DEF HalfDone, Whole
    <3> QED BY <1>3, <1>6, <3>1
  <2>2. t = InsertIntoNewRoot(s, w[1], k, right) /\ HasHalf(s, keys, rows, h, 0, w)
    BY <1>3, <1>5, <1>7, <2>1
  <2> QED BY <1>1, <2>2, RootIsMade
<1>8. CASE i # 0
  <2>1. i > 0 /\ up + 1 <= h
    BY <1>4, <1>8 DEF i
  <2>2. p \in 1 .. MaxPage /\ p # 0
    <3> HIDE DEF top, k, right
    <3>1. PICK q \in rows[i - 1] : IsParent(image, top, rows, i, q, w, k, right)
      BY <1>1, <1>3, <2>1, ParentOfHalf
    <3>2. q[1] = image[w[1]].parent /\ q[1] \in 1 .. MaxPage
      BY <3>1, Zenon DEF IsParent
    <3> QED BY <1>3, <1>6, <3>2, PageNumbers
  <2>3. c = image[p] /\ p = image[w[1]].parent
    BY <1>3, <1>6, <2>2 DEF Read
  <2> HIDE DEF p, c
  <2>4. CASE c.n < InternalOrder - 1
    <3> DEFINE d == NodeWith(image[p], LeftIndex(image[p], w[1]), k, right)
    <3>1. t = Ended(WritePage(s, p, d))
      BY <1>3, <1>5, <2>2, <2>3, <2>4, Zenon DEF Ended
    <3>2. d = NodeWith(s.pages[p], LeftIndex(s.pages[p], w[1]), s.next.key, s.next.new)
      OBVIOUS
    <3> HIDE DEF d
    <3>3. /\ Running(s) /\ Rooted(s) /\ HasHalf(s, keys, rows, h, i, w) /\ i > 0
          /\ s.next.new \in 1 .. MaxPage
          /\ p = s.pages[w[1]].parent /\ s.pages[p].n < InternalOrder - 1
      BY <1>1, <1>3, <2>1, <2>3, <2>4
    <3> HIDE DEF left, k, right, image, top
    <3>4. Arrived(t, keys)
      BY <3>1, <3>2, <3>3, RoomyParent
    <3> QED BY <3>4
  <2>5. CASE ~(c.n < InternalOrder - 1)
    <3>1. t = SplitNode(s, p, LeftIndex(image[p], w[1]), k, right)
      BY <1>3, <1>5, <2>2, <2>3, <2>5
    <3>2. \/ Over(t)
          \/ /\ Running(t) /\ Rooted(t) /\ t.next # Nothing /\ t.next.new \in 1 .. MaxPage
             /\ \E rows1, w1 : /\ HasHalf(t, keys, rows1, h, i - 1, w1)
                               /\ Grown(rows, rows1, h, i - 1, t.next.new)
      <4> HIDE DEF left
      <4> QED BY <1>1, <1>3, <2>1, <2>3, <2>5, <3>1, ParentIsSplit, Zenon
    <3> QED BY <1>4, <2>1, <3>2 DEF OnTheWay
  <2> QED BY <2>4, <2>5
<1> QED BY <1>7, <1>8

(* The climb of an insertion arrives, or comes to an end before it does.   *)
LEMMA InsertArrives ==
    ASSUME NEW s, NEW keys, OnTheWay(s, keys, 0), NEW t, t = Climb(InsertIntoParent, s)
    PROVE  Over(t) \/ Arrived(t, keys)
<1> DEFINE level[d \in 0 .. MaxPage] == IF d = 0 THEN s ELSE InsertLevel(level[d - 1])
           S == {d \in 0 .. MaxPage : Over(level[d]) \/ Arrived(level[d], keys) \/ OnTheWay(level[d], keys, d)}
<1>1. t = level[MaxPage]
  BY DEF Climb, IsInsertClimb, InsertLevel
<1>2. IsInsertClimb(level, s)
  BY InsertClimbs, Zenon DEF IsInsertClimb
<1> HIDE DEF level
<1>3. level[0] = s /\ \A d \in 1 .. MaxPage : level[d] = InsertLevel(level[d - 1])
  <2>1. 0 \in 0 .. MaxPage /\ \A d \in 1 .. MaxPage : d \in 0 .. MaxPage /\ d # 0
    BY PageNumbers
  <2> QED BY <1>2, <2>1, Zenon DEF IsInsertClimb
<1>4. 0 \in S /\ MaxPage \in Nat
  BY <1>3, PageNumbers
<1>5. ASSUME NEW d \in 0 + 1 .. MaxPage, d - 1 \in S PROVE d \in S
  <2> DEFINE u == level[d - 1]
             v == level[d]
  <2>1. d \in 0 .. MaxPage /\ d - 1 \in Nat /\ (d - 1) + 1 = d /\ v = InsertLevel(u)
    BY <1>3, <1>4, <1>5
  <2>2. Over(u) \/ Arrived(u, keys) \/ OnTheWay(u, keys, d - 1)
    BY <1>5
  <2>3. Over(u) => Over(v)
    BY <2>1, InsertHurts DEF Over, InsertLevel
  <2>4. Arrived(u, keys) => v = u
    BY <2>1 DEF Arrived, InsertLevel
  <2>5. OnTheWay(u, keys, d - 1) => v = InsertIntoParent(u)
    BY <2>1 DEF OnTheWay, InsertLevel, Running, Unharmed
  <2> HIDE DEF u, v
  <2>6. OnTheWay(u, keys, d - 1) => Over(v) \/ Arrived(v, keys) \/ OnTheWay(v, keys, d)
    BY <2>1, <2>5, OneLevelUp
  <2>7. Over(v) \/ Arrived(v, keys) \/ OnTheWay(v, keys, d)
    BY <2>2, <2>3, <2>4, <2>6
  <2> QED BY <2>1, <2>7 DEF v
<1> HIDE DEF S
<1>6. \A d \in 0 .. MaxPage : d \in S
  BY <1>4, <1>5, IntervalInduction
<1>7. Over(t) \/ Arrived(t, keys) \/ OnTheWay(t, keys, MaxPage)
  BY <1>1, <1>4, <1>6 DEF S
<1>8. ~OnTheWay(t, keys, MaxPage)
  BY PageNumbers DEF OnTheWay, HasHalf, HalfDone
<1> QED BY <1>7, <1>8

-----------------------------------------------------------------------------
(* An insertion.                                                           *)

(* The leaf has room. *)
LEMMA RoomyLeaf ==
    ASSUME NEW s, Running(s), Rooted(s), s.next = Nothing,
           NEW rows, NEW h, IsTree(s.pages, s.root.at, rows, h), Room(s.header, s.pages, rows, h, 2),
           Linked(s.pages, rows[h]),
           NEW e \in rows[h], NEW k \in KeyValue, Holds(e, k), k \notin KeysOf(s.pages[e[1]]),
           HasRoom(s.pages[e[1]]),
           NEW t, t = WritePage(s, e[1], LeafWith(s.pages[e[1]], k))
    PROVE  Arrived(t, Plus(k, RowKeys(s.pages, rows[h])))
<1> DEFINE image == s.pages
           top == s.root.at
           leaf == e[1]
           c == image[leaf]
           d == LeafWith(c, k)
           image1 == Written(image, leaf, d)
<1>1. image \in Image /\ s.header.free \in PageNo /\ top \in 1 .. MaxPage /\ h \in Nat /\ h \in 0 .. h
  <2>1. h \in Nat
    BY PageNumbers DEF IsTree
  <2> QED BY <2>1 DEF Running, Unharmed, Command, HeadType, Rooted
<1>2. /\ leaf \in 1 .. MaxPage /\ e[2] \in Int /\ e[3] \in Int /\ c \in Page /\ c.leaf
      /\ SlotsInOrder(c, e[2], e[3]) /\ e[2] <= k /\ k < e[3]
  <2>1. EntryInOrder(image, top, e) /\ image[e[1]].leaf
    BY <1>1 DEF IsTree
  <2>2. e \in Entry /\ SlotsInOrder(c, e[2], e[3])
    BY <2>1 DEF EntryInOrder
  <2>3. leaf \in 1 .. MaxPage /\ e[2] \in Int /\ e[3] \in Int
    BY <2>2, NodeAssumption DEF Entry, Bound
  <2> QED BY <1>1, <2>1, <2>2, <2>3 DEF Image, Holds
<1>3. d \in Page /\ SlotsInOrder(d, e[2], e[3]) /\ KeysOf(d) = KeysOf(c) \cup {k}
  <2>1. c.n < LeafOrder - 1 /\ k \notin KeysOf(c)
    BY DEF HasRoom
  <2> HIDE DEF c
  <2> QED BY <1>2, <2>1, LeafTakesKey
<1>4. d.leaf /\ d.parent = c.parent /\ d.n < LeafOrder /\ d.n > 0
  <2>1. c.n \in Nat /\ c.n < LeafOrder - 1 /\ LeafOrder \in Nat
    BY <1>2, PageFacts, NodeAssumption DEF HasRoom
  <2>2. d.leaf = c.leaf /\ d.parent = c.parent /\ d.n = c.n + 1
    BY <1>2 DEF LeafWith, Page
  <2> QED BY <1>2, <2>1, <2>2
<1>5. Running(t) /\ SameFile(s, t) /\ t.pages = image1
  <2> HIDE DEF d, leaf, image
  <2> QED BY <1>2, <1>3, WriteRuns DEF d, leaf, image
<1>l. d.off = c.off
  <2> HIDE DEF c
  <2> QED BY <1>2 DEF LeafWith, Page, d
<1> HIDE DEF d
<1>6. /\ image1 \in Image /\ IsTree(image1, top, rows, h)
      /\ \A f \in rows[h] : image1[f[1]] = IF f = e THEN d ELSE image[f[1]]
  <2>1. IsTree(image, top, rows, h) /\ d.parent = image[e[1]].parent
        /\ image1 = Written(image, e[1], d)
    BY <1>4
  <2> HIDE DEF image, top, image1
  <2> QED BY <1>1, <1>3, <1>4, <2>1, LeafRewritten
<1>7. RowKeys(image1, rows[h]) = Plus(k, RowKeys(image, rows[h]))
  <2>1. \A x : x \in RowKeys(image1, rows[h]) <=> \E f \in rows[h] : x \in KeysOf(image1[f[1]])
    BY DEF RowKeys
  <2>2. \A x : x \in RowKeys(image, rows[h]) <=> \E f \in rows[h] : x \in KeysOf(image[f[1]])
    BY DEF RowKeys
  <2>3. \A x : x \in KeysOf(d) <=> x = k \/ x \in KeysOf(image[e[1]])
    BY <1>3
  <2> HIDE DEF image, image1
  <2>4. \A x : x \in RowKeys(image1, rows[h]) <=> x = k \/ x \in RowKeys(image, rows[h])
    BY <1>6, <2>1, <2>2, <2>3
  <2>5. \A x : x \in Plus(k, RowKeys(image, rows[h])) <=> x = k \/ x \in RowKeys(image, rows[h])
    BY DEF Plus
  <2> QED BY <2>4, <2>5, SetExtensionality
<1>8. Room(s.header, image1, rows, h, 2)
  <2>1. InTree(rows, h, leaf)
    BY <1>1 DEF InTree
  <2>2. Room(s.header, image, rows, h, 2) /\ image1 = Written(image, leaf, d)
    OBVIOUS
  <2> HIDE DEF image, image1, leaf
  <2> QED BY <1>1, <2>1, <2>2, RoomKept
<1>L. Linked(image1, rows[h])
  <2>1. \A f \in rows[h] : image1[f[1]].off[0] = image[f[1]].off[0]
    BY <1>6, <1>l
  <2> HIDE DEF image, image1
  <2> QED BY <2>1, LinksStay DEF image
<1> HIDE DEF image1
<1>9. t.header = s.header /\ t.root = s.root /\ t.next = Nothing
  BY <1>5 DEF SameFile
<1>10. HasTree(t, Plus(k, RowKeys(image, rows[h])))
  BY <1>5, <1>6, <1>7, <1>8, <1>9, <1>L DEF HasTree
<1> QED BY <1>5, <1>9, <1>10 DEF Arrived, Rooted

(* The writes of insert_into_leaf_after_splitting once the page is made.   *)
LeafWrites(t, leaf, half) ==
    [WritePage(WritePage(t, leaf, half.left), t.new, half.right)
        EXCEPT !.next = [child |-> leaf, key |-> half.right.key[0], new |-> t.new]]

(* SplitLeaf makes a page, writes the halves and climbs. *)
LEMMA SplitLeafIs ==
    ASSUME NEW s, NEW leaf, NEW k, NEW t, t = MakePage(s),
           NEW half, half = LeafHalves(Read(t, leaf), k, NewPage(t))
    PROVE  SplitLeaf(s, leaf, k)
               = IF t.end # "ok" THEN t ELSE Climb(InsertIntoParent, LeafWrites(t, leaf, half))
BY DEF SplitLeaf, LeafWrites

(* A leaf that is split is chained to its new half, and that to what was   *)
(* behind it.                                                              *)
LEMMA SplitKeepsLinks ==
    ASSUME NEW image \in Image, NEW top \in 1 .. MaxPage, NEW rows, NEW h, IsTree(image, top, rows, h),
           Linked(image, rows[h]), NEW e \in rows[h], NEW new \in 1 .. MaxPage, ~InTree(rows, h, new),
           NEW m \in KeyValue, NEW l, NEW r, l.off[0] = new, r.off[0] = image[e[1]].off[0],
           NEW image1, image1 = Written(Written(image, e[1], l), new, r),
           NEW rows1, rows1 = SplitRows(rows, h, h, e, m, new)
    PROVE  Linked(image1, rows1[h])
<1>1. h \in Nat /\ h \in 0 .. h /\ Once(rows, h) /\ m # KeyMod
  <2>1. h \in Nat /\ h \in 0 .. h
    BY PageNumbers DEF IsTree
  <2>2. Once(rows, h)
    BY OnePlace
  <2>3. m # KeyMod
    BY NodeAssumption DEF KeyValue
  <2> QED BY <2>1, <2>2, <2>3
<1>2. \A f \in rows[h] : f[1] \in 1 .. MaxPage /\ f[1] # new
  BY <1>1 DEF InTree, IsTree, EntryInOrder, Entry
<1>3. /\ image1[e[1]].off[0] = new /\ image1[new].off[0] = image[e[1]].off[0]
      /\ \A f \in rows[h] : f # e => image1[f[1]].off[0] = image[f[1]].off[0]
  <2>1. \A f \in rows[h] : f # e => f[1] # e[1]
    BY <1>1 DEF Once
  <2>2. \A x \in 1 .. MaxPage : image1[x] = IF x = new THEN r ELSE IF x = e[1] THEN l ELSE image[x]
    BY <1>2 DEF Written, Image
  <2> QED BY <1>2, <2>1, <2>2
<1> DEFINE el == <<e[1], e[2], m>>
           er == <<new, m, e[3]>>
           row1 == (rows[h] \ {e}) \cup {el, er}
<1>4. rows1[h] = row1
  BY <1>1 DEF SplitRows
<1> DEFINE Ahead(f) == LET x == image[f[1]].off[0]
                       IN  IF f[3] = KeyMod THEN x = 0 ELSE \E g \in rows[h] : g[1] = x /\ g[2] = f[3]
           Ahead1(f) == LET x == image1[f[1]].off[0]
                        IN  IF f[3] = KeyMod THEN x = 0 ELSE \E g \in row1 : g[1] = x /\ g[2] = f[3]
<1>5. \A g \in rows[h] : \E g1 \in row1 : g1[1] = g[1] /\ g1[2] = g[2]
  <2> SUFFICES ASSUME NEW g \in rows[h] PROVE \E g1 \in row1 : g1[1] = g[1] /\ g1[2] = g[2]
    OBVIOUS
  <2>1. el \in row1 /\ el[1] = e[1] /\ el[2] = e[2] /\ (g # e => g \in row1)
    OBVIOUS
  <2> HIDE DEF row1, el, er
  <2> QED BY <2>1
<1>6. \A f \in rows[h] : Ahead(f)
  BY DEF Linked
<1>7. ASSUME NEW f \in rows[h], f # e PROVE Ahead1(f)
  <2>1. Ahead(f) /\ image1[f[1]].off[0] = image[f[1]].off[0]
    BY <1>3, <1>6, <1>7
  <2> HIDE DEF row1
  <2> QED BY <1>5, <2>1
<1>8. Ahead1(el)
  <2>1. image1[el[1]].off[0] = er[1] /\ er[2] = el[3] /\ er \in row1 /\ el[3] # KeyMod
    BY <1>1, <1>3
  <2> HIDE DEF row1, el, er
  <2> QED BY <2>1
<1>9. Ahead1(er)
  <2>1. image1[er[1]].off[0] = image[e[1]].off[0] /\ er[3] = e[3] /\ Ahead(e)
    BY <1>3, <1>6
  <2> HIDE DEF row1, el, er
  <2> QED BY <1>5, <2>1
<1>10. \A f \in row1 : Ahead1(f)
  BY <1>7, <1>8, <1>9
<1> QED BY <1>4, <1>10 DEF Linked

(* The halves of a leaf.                                                   *)
LEMMA HalvesLink ==
    ASSUME NEW c \in Page, c.leaf, NEW k, NEW r, NEW node \in Page,
           NEW half, half = LeafHalves(c, k, Fresh(r, node))
    PROVE  half.left.off[0] = r /\ half.right.off[0] = c.off[0] /\ half.left.leaf /\ half.right.leaf
<1>1. PICK n1, k1 : half.left = [c EXCEPT !.n = n1, !.key = k1, !.off[0] = r]
  BY Zenon DEF LeafHalves, Fresh
<1>2. PICK n2, k2 : half.right = [node EXCEPT !.leaf = TRUE, !.n = n2, !.key = k2, !.off[0] = c.off[0],
                                              !.parent = c.parent]
  BY Zenon DEF LeafHalves, Fresh
<1>3. 0 \in OffSlot
  BY NodeAssumption DEF OffSlot
<1>4. half.left.off[0] = r /\ half.left.leaf
  BY <1>1, <1>3 DEF Page
<1>5. half.right.off[0] = c.off[0] /\ half.right.leaf
  BY <1>2, <1>3 DEF Page
<1> QED BY <1>4, <1>5

(* The leaf is full. *)
LEMMA LeafIsSplit ==
    ASSUME NEW s, Running(s), Rooted(s),
           NEW rows, NEW h, IsTree(s.pages, s.root.at, rows, h), Room(s.header, s.pages, rows, h, 2),
           Linked(s.pages, rows[h]),
           NEW e \in rows[h], NEW k \in KeyValue, Holds(e, k), k \notin KeysOf(s.pages[e[1]]),
           ~HasRoom(s.pages[e[1]]),
           NEW u, u = MakePage(s), NEW half, half = LeafHalves(Read(u, e[1]), k, NewPage(u)),
           NEW v, v = LeafWrites(u, e[1], half)
    PROVE  \/ u.end # "ok" /\ Over(u)
           \/ /\ u.end = "ok" /\ Running(u) /\ u.new \in 1 .. MaxPage /\ e[1] \in 1 .. MaxPage
              /\ half.left \in Page /\ half.right \in Page /\ half.left.leaf /\ half.right.leaf
              /\ Running(v) /\ Rooted(v) /\ v.next # Nothing /\ v.next.new = u.new
              /\ v.header = u.header
              /\ \E rows1 : /\ HasHalf(v, Plus(k, RowKeys(s.pages, rows[h])), rows1, h, h, e)
                            /\ Grown(rows, rows1, h, h, u.new)
<1> DEFINE image == s.pages
           top == s.root.at
           leaf == e[1]
           c == image[leaf]
           r == u.new
           m == half.right.key[0]
           image1 == Written(Written(image, leaf, half.left), r, half.right)
           rows1 == SplitRows(rows, h, h, e, m, r)
           keys == Plus(k, RowKeys(image, rows[h]))
<1>1. image \in Image /\ top \in 1 .. MaxPage /\ h \in Nat /\ h \in 0 .. h
  <2>1. h \in Nat
    BY PageNumbers DEF IsTree
  <2> QED BY <2>1 DEF Running, Unharmed, Command, Rooted
<1>2. leaf \in 1 .. MaxPage /\ leaf # 0 /\ c.n = LeafOrder - 1
  <2>1. EntryInOrder(image, top, e) /\ image[e[1]].leaf
    BY <1>1 DEF IsTree
  <2>2. leaf \in 1 .. MaxPage /\ leaf # 0
    BY <2>1, PageNumbers DEF EntryInOrder, Entry
  <2>3. c.n < LeafOrder
    BY <2>1 DEF EntryInOrder
  <2>4. c.n \in Nat
    <3>1. c \in Page
      BY <1>1, <2>2 DEF Image
    <3> HIDE DEF c
    <3> QED BY <3>1, PageFacts
  <2> QED BY <2>2, <2>3, <2>4, NodeAssumption DEF HasRoom
<1>3. \/ u.end # "ok" /\ Over(u)
      \/ /\ Running(u) /\ SameTree(s, u) /\ r = s.header.free
         /\ r \in 1 .. MaxPage /\ r + 1 \in 1 .. MaxPage
         /\ u.header = HeaderAfter(r, s.header.root) /\ NewPage(u) = Fresh(r, ZeroPage)
  BY MakeRuns DEF Room
<1>6. CASE /\ Running(u) /\ SameTree(s, u) /\ r = s.header.free
           /\ r \in 1 .. MaxPage /\ r + 1 \in 1 .. MaxPage
           /\ u.header = HeaderAfter(r, s.header.root) /\ NewPage(u) = Fresh(r, ZeroPage)
  <2>1. half = LeafHalves(c, k, Fresh(r, ZeroPage)) /\ u.end = "ok"
    <3>1. Read(u, leaf) = c
      BY <1>2, <1>6 DEF Read, SameTree
    <3> HIDE DEF c, r
    <3> QED BY <1>6, <3>1 DEF Running, Unharmed, leaf
  <2>2. /\ u.pages = image /\ u.root = s.root /\ r \in Nat /\ r # 0 /\ h + 2 <= r
        /\ \A x : InTree(rows, h, x) => x \in 1 .. r - 1
        /\ ~InTree(rows, h, r) /\ ClearAhead(s.header, image)
    <3>1. r \in Nat /\ r # 0
      BY <1>6, PageNumbers
    <3>2. h + 2 <= r /\ ClearAhead(s.header, image) /\ \A x : InTree(rows, h, x) => x \in 1 .. r - 1
      BY <1>6, <3>1 DEF Room
    <3>3. r \notin 1 .. r - 1
      BY <3>1
    <3> QED BY <1>6, <3>1, <3>2, <3>3 DEF SameTree
  <2>3. /\ image1 \in Image /\ HalfDone(image1, top, rows1, h, h, e, m, r)
        /\ RowKeys(image1, rows1[h]) = keys
        /\ \A x : InTree(rows1, h, x) => InTree(rows, h, x) \/ x = r
        /\ half.left \in Page /\ half.right \in Page /\ m \in KeyValue
        /\ InTree(rows, h, leaf)
    <3>1. half = LeafHalves(c, k, Fresh(r, ZeroPage)) /\ c = image[e[1]]
      BY <2>1
    <3>2. /\ IsTree(image, top, rows, h) /\ c.n = LeafOrder - 1
          /\ k \notin KeysOf(c) /\ e \in rows[h] /\ Holds(e, k) /\ k \in KeyValue
      BY <1>2
    <3>3. ZeroPage \in Page /\ ZeroFrom(ZeroPage.off, 1)
      BY ZeroIsPage
    <3>4. r \in 1 .. MaxPage /\ ~InTree(rows, h, r) /\ image \in Image
      BY <1>1, <1>6, <2>2
    <3> HIDE DEF r
    <3>5. image1 = Written(Written(image, e[1], half.left), r, half.right)
      OBVIOUS
    <3>7. m = half.right.key[0] /\ rows1 = SplitRows(rows, h, h, e, m, r)
      OBVIOUS
    <3> HIDE DEF image, image1, top, m, rows1, c, leaf, keys
    <3>6. image1 \in Image /\ HalfDone(image1, top, rows1, h, h, e, m, r)
      BY <3>1, <3>2, <3>3, <3>4, <3>5, <3>7, LeafIsHalfDone
    <3>8. RowKeys(image1, rows1[h]) = Plus(k, RowKeys(image, rows[h]))
      BY <3>1, <3>2, <3>3, <3>4, <3>5, <3>7, LeafIsHalfDone
    <3>9. \A x : InTree(rows1, h, x) => InTree(rows, h, x) \/ x = r
      BY <3>1, <3>2, <3>3, <3>4, <3>5, <3>7, LeafIsHalfDone
    <3>10. half.left \in Page /\ half.right \in Page /\ m \in KeyValue /\ InTree(rows, h, e[1])
      BY <3>1, <3>2, <3>3, <3>4, <3>5, <3>7, LeafIsHalfDone
    <3> QED BY <3>6, <3>9, <3>8, <3>10 DEF keys, leaf
  <2>h. half.left.off[0] = r /\ half.right.off[0] = c.off[0] /\ half.left.leaf /\ half.right.leaf
    <3>1. c \in Page /\ c.leaf
      BY <1>1, <1>2 DEF Image, IsTree
    <3> HIDE DEF c, r
    <3> QED BY <2>1, <3>1, ZeroIsPage, HalvesLink
  <2>l. Linked(image1, rows1[h])
    <3>1. /\ half = LeafHalves(c, k, Fresh(r, ZeroPage)) /\ c = image[e[1]]
          /\ image1 = Written(Written(image, e[1], half.left), r, half.right)
          /\ IsTree(image, top, rows, h) /\ Linked(image, rows[h])
      BY <2>1
    <3>2. half.left.off[0] = r /\ half.right.off[0] = c.off[0]
      BY <2>h
    <3> HIDE DEF r, image, image1, c, m
    <3> QED BY <1>1, <1>6, <2>2, <2>3, <3>1, <3>2, SplitKeepsLinks
  <2>4. leaf # r
    BY <2>2, <2>3
  <2> DEFINE u1 == WritePage(u, leaf, half.left)
             u2 == WritePage(u1, r, half.right)
             x == [child |-> leaf, key |-> m, new |-> r]
  <2>5. Running(u1) /\ SameFile(u, u1) /\ u1.pages = Written(image, leaf, half.left)
    <3> HIDE DEF image, leaf
    <3> QED BY <1>2, <1>6, <2>2, <2>3, WriteRuns
  <2>6. v = [u2 EXCEPT !.next = x]
    BY DEF LeafWrites, leaf
  <2> HIDE DEF u1
  <2>7. Running(u2) /\ SameFile(u1, u2) /\ u2.pages = image1
    <3>1. Running(u1) /\ r \in 1 .. MaxPage /\ half.right \in Page
      BY <1>6, <2>3, <2>5
    <3>2. Running(u2) /\ SameFile(u1, u2) /\ u2.pages = Written(u1.pages, r, half.right)
      <4> HIDE DEF r
      <4> QED BY <3>1, WriteRuns
    <3> QED BY <2>5, <3>2
  <2> HIDE DEF u2, image1
  <2>8. x \in Later
    <3>1. leaf \in PageNo /\ r \in PageNo
      BY <1>2, <1>6, PageNumbers
    <3> HIDE DEF leaf, r, m
    <3> QED BY <2>3, <3>1 DEF Later
  <2>9. /\ Running(v) /\ v.next = x
        /\ v.pages = image1 /\ v.header = u.header /\ v.root = s.root
    <3>1. Running(v) /\ v.next = x /\ v.pages = u2.pages /\ v.header = u2.header /\ v.root = u2.root
      <4> HIDE DEF x
      <4> QED BY <2>6, <2>7, <2>8, NextRuns
    <3>2. u2.header = u.header /\ u2.root = s.root
      BY <2>2, <2>5, <2>7 DEF SameFile
    <3> QED BY <2>7, <3>1, <3>2
  <2>10. /\ Rooted(v) /\ v.next # Nothing
         /\ v.next.child = leaf /\ v.next.key = m /\ v.next.new = r
    <3>1. v.next.child = leaf /\ v.next.key = m /\ v.next.new = r
      BY <2>9
    <3>2. Nothing.child = 0
      BY DEF Nothing
    <3>3. Rooted(v)
      BY <1>6, <2>9 DEF Rooted, HeaderAfter
    <3> QED BY <1>2, <3>1, <3>2, <3>3
  <2>11. Room(v.header, image1, rows1, h, 3)
    <3>1. v.header.free = r + 1 /\ v.header.num = r + 1
      BY <1>6, <2>9 DEF HeaderAfter
    <3>2. ASSUME NEW y \in 1 .. MaxPage, y # r, ~InTree(rows, h, y) PROVE image1[y] = image[y]
      <4>1. y # leaf
        BY <2>3, <3>2
      <4> QED BY <1>1, <3>2, <4>1 DEF Written, Image, image1
    <3>3. s.header.free = r /\ s.header.free # 0 /\ r \in 1 .. MaxPage
      BY <1>6, <2>2
    <3>4. /\ h \in Nat /\ ClearAhead(s.header, image) /\ h + 2 <= r
          /\ \A y : InTree(rows, h, y) => y \in 1 .. r - 1
          /\ \A y : InTree(rows1, h, y) => InTree(rows, h, y) \/ y = r
          /\ \A y \in 1 .. MaxPage : y # r /\ ~InTree(rows, h, y) => image1[y] = image[y]
      BY <1>1, <2>2, <2>3, <3>2
    <3> HIDE DEF image1, image, r, rows1
    <3> QED BY <3>1, <3>3, <3>4, RoomAfter
  <2>12. HasHalf(v, keys, rows1, h, h, e)
    <3>1. v.root.at = top
      BY <2>9
    <3> HIDE DEF rows1, r, m, keys, top
    <3> QED BY <2>3, <2>9, <2>10, <2>11, <2>l, <3>1 DEF HasHalf
  <2>13. Grown(rows, rows1, h, h, r)
    <3> HIDE DEF m, r
    <3> QED BY <1>1, SplitGrows
  <2> HIDE DEF rows1, image1
  <2> QED BY <1>2, <1>6, <2>1, <2>3, <2>h, <2>9, <2>10, <2>12, <2>13 DEF keys, image
<1> QED BY <1>3, <1>6

LEMMA FullLeaf ==
    ASSUME NEW s, Running(s), Rooted(s),
           NEW rows, NEW h, IsTree(s.pages, s.root.at, rows, h), Room(s.header, s.pages, rows, h, 2),
           Linked(s.pages, rows[h]),
           NEW e \in rows[h], NEW k \in KeyValue, Holds(e, k), k \notin KeysOf(s.pages[e[1]]),
           ~HasRoom(s.pages[e[1]]),
           NEW t, t = SplitLeaf(s, e[1], k)
    PROVE  Over(t) \/ Arrived(t, Plus(k, RowKeys(s.pages, rows[h])))
<1> DEFINE u == MakePage(s)
           half == LeafHalves(Read(u, e[1]), k, NewPage(u))
           v == LeafWrites(u, e[1], half)
           keys == Plus(k, RowKeys(s.pages, rows[h]))
<1>1. t = IF u.end # "ok" THEN u ELSE Climb(InsertIntoParent, v)
  BY SplitLeafIs
<1>2. \/ u.end # "ok" /\ Over(u)
      \/ /\ u.end = "ok" /\ u.new \in 1 .. MaxPage
         /\ Running(v) /\ Rooted(v) /\ v.next # Nothing /\ v.next.new = u.new
         /\ \E rows1 : HasHalf(v, keys, rows1, h, h, e)
  <2>1. u = MakePage(s) /\ half = LeafHalves(Read(u, e[1]), k, NewPage(u)) /\ v = LeafWrites(u, e[1], half)
    OBVIOUS
  <2> HIDE DEF u, half, v
  <2> QED BY <2>1, LeafIsSplit
<1> HIDE DEF u, half, v, keys
<1>3. CASE u.end # "ok" /\ Over(u)
  BY <1>1, <1>3
<1>4. CASE u.end = "ok" /\ OnTheWay(v, keys, 0)
  BY <1>1, <1>4, InsertArrives DEF keys
<1>5. h \in Nat
  BY PageNumbers DEF IsTree
<1>6. h - 0 = h /\ 0 <= h
  BY <1>5
<1>7. u.end = "ok" => OnTheWay(v, keys, 0)
  BY <1>2, <1>6 DEF OnTheWay
<1> QED BY <1>2, <1>3, <1>4, <1>7

(* The first leaf. *)
FirstLeaf(k) ==
    [parent |-> 0, leaf |-> TRUE, n |-> 1,
     key |-> [j \in KeySlot |-> IF j = 0 THEN k ELSE 0], off |-> [j \in OffSlot |-> 0]]

Started(c, k) == [c EXCEPT !.leaf = TRUE, !.off[0] = 0, !.key[0] = k, !.n = 1]

(* The first leaf of a file is an empty page with one key. *)
LEMMA FirstLeafIs ==
    ASSUME NEW k \in KeyValue \ {0}
    PROVE  /\ FirstLeaf(k) \in Page
           /\ Started(ZeroPage, k) = FirstLeaf(k)
           /\ FirstLeaf(k).n < LeafOrder /\ SlotsInOrder(FirstLeaf(k), 0, KeyMod)
           /\ KeysOf(FirstLeaf(k)) = {k}
<1> DEFINE z == Started(ZeroPage, k)
           e == FirstLeaf(k)
<1>1. 0 \in KeySlot /\ 1 \in KeySlot /\ 0 \in OffSlot /\ 1 < LeafOrder /\ KeySlot \subseteq Nat
  BY NodeAssumption DEF KeySlot, OffSlot
<1>2. k \in 0 .. KeyMod - 1 /\ k # 0 /\ 0 \in PageNo /\ 0 \in 0 .. KeyMod - 1 /\ KeyMod \in Nat
  BY PageNumbers, NodeAssumption DEF KeyValue
<1>3. /\ ZeroPage.key = [j \in KeySlot |-> 0] /\ ZeroPage.off = [j \in OffSlot |-> 0]
      /\ ZeroPage.parent = 0
  BY DEF ZeroPage
<1>4. /\ e.parent = 0 /\ e.leaf = TRUE /\ e.n = 1
      /\ e.key = [j \in KeySlot |-> IF j = 0 THEN k ELSE 0]
      /\ e.off = [j \in OffSlot |-> 0]
  BY DEF FirstLeaf
<1>5. e \in Page
  BY <1>1, <1>2 DEF FirstLeaf, Page
<1>6. z = e
  <2>1. /\ z \in Page /\ z.parent = ZeroPage.parent /\ z.leaf = TRUE /\ z.n = 1
        /\ z.key = [ZeroPage.key EXCEPT ![0] = k]
        /\ z.off = [ZeroPage.off EXCEPT ![0] = 0]
    BY <1>1, <1>2, ZeroIsPage DEF Page, Started
  <2> HIDE DEF z, e
  <2>2. z.key = e.key
    <3>1. 0 \in KeySlot /\ ZeroPage.key = [j \in KeySlot |-> 0]
      BY <1>1, <1>3
    <3> QED BY <1>4, <2>1, <3>1
  <2>3. z.off = e.off
    <3>1. 0 \in OffSlot /\ ZeroPage.off = [j \in OffSlot |-> 0]
      BY <1>1, <1>3
    <3>2. z.off = [ZeroPage.off EXCEPT ![0] = 0]
      BY <2>1
    <3>3. z.off = [j \in OffSlot |-> 0]
      BY <3>1, <3>2
    <3> QED BY <1>4, <3>3
  <2> QED BY <1>3, <1>4, <1>5, <2>1, <2>2, <2>3, SamePage
<1> HIDE DEF z, e
<1>7. SlotsInOrder(e, 0, KeyMod)
  <2>1. \A i \in 0 .. e.n - 1 : 0 <= e.key[i] /\ e.key[i] < KeyMod
    <3>1. \A i \in 0 .. e.n - 1 : i = 0
      BY <1>4
    <3> QED BY <1>1, <1>2, <1>4, <3>1
  <2>2. \A i \in 1 .. e.n - 1 : e.key[i - 1] < e.key[i]
    BY <1>4
  <2>3. \A i \in KeySlot : i >= e.n => e.key[i] = 0
    BY <1>1, <1>4
  <2>4. \A i \in OffSlot : i > (IF e.leaf THEN 0 ELSE e.n) => e.off[i] = 0
    BY <1>4
  <2> QED BY <2>1, <2>2, <2>3, <2>4 DEF SlotsInOrder
<1>8. KeysOf(e) = {k}
  <2>1. \A i \in 0 .. e.n - 1 : i = 0
    BY <1>4
  <2>2. 0 \in 0 .. e.n - 1 /\ e.key[0] = k
    BY <1>1, <1>4
  <2> QED BY <2>1, <2>2 DEF KeysOf, Values
<1> QED BY <1>1, <1>4, <1>5, <1>6, <1>7, <1>8 DEF z, e

(* The tree is empty: start_new_tree (bpt.c:700). *)
LEMMA TreeStarts ==
    ASSUME NEW s, Running(s), s.next = Nothing, ClearAhead(s.header, s.pages),
           NEW k \in KeyValue \ {0}, NEW t, t = StartNewTree(s, k)
    PROVE  Over(t) \/ Arrived(t, Plus(k, {}))
<1> DEFINE image == s.pages
           u == MakePage(s)
           r == u.new
           c == Started(NewPage(u).node, k)
           d == FirstLeaf(k)
           image1 == Written(image, r, d)
           rows == [j \in {0} |-> {<<r, 0, KeyMod>>}]
<1>1. t = IF u.end # "ok" THEN u ELSE SetRoot(u, r, c)
  BY DEF StartNewTree, Started
<1>2. image \in Image
  BY DEF Running, Unharmed, Command
<1>3. \/ u.end # "ok" /\ Over(u)
      \/ /\ Running(u) /\ SameTree(s, u) /\ r = s.header.free
         /\ r \in 1 .. MaxPage /\ r + 1 \in 1 .. MaxPage
         /\ u.header = HeaderAfter(r, s.header.root) /\ NewPage(u) = Fresh(r, ZeroPage)
  BY MakeRuns
<1> HIDE DEF u
<1>4. CASE u.end # "ok" /\ Over(u)
  BY <1>1, <1>4
<1>5. CASE /\ Running(u) /\ SameTree(s, u) /\ r = s.header.free
           /\ r \in 1 .. MaxPage /\ r + 1 \in 1 .. MaxPage
           /\ u.header = HeaderAfter(r, s.header.root) /\ NewPage(u) = Fresh(r, ZeroPage)
  <2>1. c = d
    BY <1>5, FirstLeafIs DEF Fresh
  <2>2. d \in Page /\ d.parent = 0 /\ d.leaf = TRUE /\ d.n = 1
        /\ d.n < LeafOrder /\ SlotsInOrder(d, 0, KeyMod) /\ KeysOf(d) = {k}
    <3>1. d.parent = 0 /\ d.leaf = TRUE /\ d.n = 1
      BY DEF FirstLeaf
    <3> QED BY <3>1, FirstLeafIs
  <2>3. t = SetRoot(u, r, d)
    <3>1. u.end = "ok"
      BY <1>5 DEF Running, Unharmed
    <3> HIDE DEF c, d
    <3> QED BY <1>1, <2>1, <3>1
  <2> HIDE DEF d
  <2>4. /\ Running(t) /\ t.pages = image1 /\ t.next = Nothing
        /\ t.header = [u.header EXCEPT !.root = r] /\ t.root.at = r /\ ~t.root.null
    <3>1. u.pages = image /\ u.next = Nothing
      BY <1>5 DEF SameTree
    <3>2. /\ Running(t) /\ t.pages = Written(u.pages, r, d) /\ t.next = u.next
          /\ t.header = [u.header EXCEPT !.root = r] /\ t.root.at = r /\ ~t.root.null
      <4> HIDE DEF r
      <4> QED BY <1>5, <2>2, <2>3, SetRootRuns
    <3> QED BY <3>1, <3>2
  <2> HIDE DEF r
  <2>5. /\ t.header.free = r + 1 /\ t.header.num = r + 1 /\ t.header.root = r
    BY <1>5, <2>4 DEF HeaderAfter
  <2>6. image1[r] = d /\ \A x \in 1 .. MaxPage : x # r => image1[x] = image[x]
    BY <1>2, <1>5 DEF Written, Image
  <2> HIDE DEF image1
  <2> DEFINE e == <<r, 0, KeyMod>>
  <2>7. e \in Entry /\ e[1] = r /\ e[2] = 0 /\ e[3] = KeyMod
    <3>1. 0 \in Bound /\ KeyMod \in Bound
      BY NodeAssumption DEF Bound
    <3> QED BY <1>5, <3>1 DEF Entry
  <2>8. rows[0] = {e}
    OBVIOUS
  <2> HIDE DEF e, rows
  <2>9. IsTree(image1, r, rows, 0)
    <3>1. EntryInOrder(image1, r, e) /\ image1[e[1]].leaf
      BY <2>2, <2>6, <2>7 DEF EntryInOrder
    <3>2. 0 \in 0 .. MaxPage - 1 /\ image1[r].parent = 0
      BY <2>2, <2>6, PageNumbers
    <3>3. \A j \in 0 .. 0 : \A f \in rows[j] : EntryInOrder(image1, r, f) /\ (image1[f[1]].leaf <=> j = 0)
      BY <2>8, <3>1
    <3>4. rows[0] = {<<r, 0, KeyMod>>} /\ \A j \in 1 .. 0 : FALSE
      BY <2>8 DEF e
    <3> QED BY <3>2, <3>3, <3>4 DEF IsTree
  <2>10. Room(t.header, image1, rows, 0, 2)
    <3>1. r \in Nat /\ r >= 1
      BY <1>5, PageNumbers
    <3>2. \A x : InTree(rows, 0, x) => x = r
      BY <2>7, <2>8 DEF InTree
    <3>3. \A x \in 1 .. MaxPage : x >= r + 1 => image1[x] = ZeroPage
      <4>1. \A x \in 1 .. MaxPage : x >= r + 1 => x >= r /\ x # r
        BY <3>1, PageNumbers
      <4>2. s.header.free = r /\ s.header.free # 0
        BY <1>5, <3>1
      <4> QED BY <2>6, <4>1, <4>2 DEF ClearAhead
    <3> QED BY <2>5, <3>1, <3>2, <3>3 DEF Room, ClearAhead
  <2>11. RowKeys(image1, rows[0]) = Plus(k, {})
    <3>1. KeysOf(image1[e[1]]) = {k}
      BY <2>2, <2>6, <2>7
    <3> QED BY <2>8, <3>1 DEF RowKeys, Plus
  <2>l. Linked(image1, rows[0])
    <3>1. image1[r].off[0] = 0
      <4>1. 0 \in OffSlot
        BY NodeAssumption DEF OffSlot
      <4> QED BY <2>6, <4>1 DEF d, FirstLeaf
    <3> QED BY <2>7, <2>8, <3>1 DEF Linked
  <2>12. HasTree(t, Plus(k, {}))
    BY <2>4, <2>9, <2>10, <2>11, <2>l DEF HasTree
  <2> QED BY <1>5, <2>4, <2>5, <2>12 DEF Arrived, Rooted
<1> QED BY <1>3, <1>4, <1>5

-----------------------------------------------------------------------------
(* What holds while nothing in Harm has happened.                          *)

(* There is a tree in order or none, with room to grow, the writes to come *)
(* bring the file to what the program sees, and the header leads to where  *)
(* root points.                                                            *)
IsPages(image) == image = [p \in 1 .. MaxPage |-> image[p]]
HasRows(head, image) ==
    \E rows, h : /\ IsTree(image, head.root, rows, h) /\ Room(head, image, rows, h, 2)
                 /\ RowKeys(image, rows[h]) \subseteq Key /\ Linked(image, rows[h])
Kept ==
    /\ proc \in {"up", "down"} /\ end = "ok"
    /\ pages \in Image /\ header \in HeadType /\ root \in Copy
    /\ IsPages(disk) /\ todo \in Seq(Writes)
    /\ \A p \in 1 .. MaxPage : Shows(todo, p, disk[p], pages[p])
    /\ Shows(todo, 0, diskHeader, header)
    /\ proc = "down" => todo = <<>>
    /\ proc = "up" => root.at = header.root /\ (root.null => root.at = 0)
    /\ ClearAhead(header, pages)
    /\ header.root # 0 => HasRows(header, pages)
KeptInv == Sound => Kept

(* What find finds below a page, or nothing below none.                    *)
Found(image, top) == {k \in Key : Finds(image, top, k)}

(* Nothing is found without a root. *)
LEMMA NothingIsFound == \A image : Found(image, 0) = {}
<1> SUFFICES ASSUME NEW image, NEW k \in Key PROVE ~Finds(image, 0, k)
  BY DEF Found
<1>1. PICK walk : Leads(walk, image, 0, k, FindLeaf(image, 0, k))
  BY WalkSteps
<1> DEFINE S == {j \in PageNo : walk[j] = {0}}
<1>2. MaxPage \in Nat /\ 0 \in Nat /\ 0 \in S
  BY <1>1, PageNumbers DEF Leads
<1>3. ASSUME NEW j \in 0 + 1 .. MaxPage, j - 1 \in S PROVE j \in S
  <2>1. j \in PageNo /\ walk[j] = {Below(image, p, k) : p \in walk[j - 1]} /\ walk[j - 1] = {0}
    BY <1>1, <1>3, PageNumbers DEF Leads
  <2>2. Below(image, 0, k) = 0
    BY DEF Below
  <2>3. walk[j] = {0}
    BY <2>1, <2>2
  <2> QED BY <2>1, <2>3
<1> HIDE DEF S
<1>4. \A j \in 0 .. MaxPage : j \in S
  BY <1>2, <1>3, IntervalInduction
<1>5. walk[MaxPage] = {0}
  BY <1>2, <1>4 DEF S
<1>6. FindLeaf(image, 0, k) = 0
  BY <1>1, <1>5 DEF Leads
<1> QED BY <1>6 DEF Finds

(* find finds the keys of the last row. *)
LEMMA RowsAreFound ==
    ASSUME NEW image \in Image, NEW top \in 1 .. MaxPage, NEW rows, NEW h, IsTree(image, top, rows, h)
    PROVE  \A k \in Key : k \in Found(image, top) <=> k \in RowKeys(image, rows[h])
<1>1. InOrderBelow(image, top) /\ KeysBelow(image, top) = RowKeys(image, rows[h])
  BY RowsAreEnough DEF KeysBelow, RowKeys
<1>2. \A k \in Key : Finds(image, top, k) <=> k \in KeysBelow(image, top)
  BY <1>1, FindIsExact, KeysAreValues
<1> QED BY <1>1, <1>2 DEF Found

(* The prompt is a state in which nothing was written yet. *)
LEMMA NowRuns ==
    ASSUME pages \in Image, header \in HeadType, root \in Copy
    PROVE  Running(Now) /\ Now.next = Nothing
           /\ Now.pages = pages /\ Now.header = header /\ Now.root = root
<1>1. Now \in Command
  <2>1. 0 \in PageNo /\ "ok" \in End /\ <<>> \in Seq(Writes)
    BY PageNumbers DEF End
  <2> QED BY <2>1, NothingIsLater DEF Now, Command
<1>2. Now.end = "ok" /\ Now.harm = {} /\ Now.log = <<>> /\ Now.next = Nothing
      /\ Now.pages = pages /\ Now.header = header /\ Now.root = root
  BY DEF Now
<1>3. ToldPages(Now) /\ ToldHeader(Now)
  BY <1>2, ShowsNothing DEF ToldPages, ToldHeader
<1> QED BY <1>1, <1>2, <1>3 DEF Running, Unharmed

(* insert (bpt.c:720) for a key that is not there: the tree is whole again *)
(* and has one key more, or the command is over.                           *)
LEMMA InsertIsRight ==
    ASSUME Kept, proc = "up", NEW k \in Key, ~Finds(pages, root.at, k), NEW t, t = Insert(k)
    PROVE  \/ Over(t)
           \/ \E keys : /\ Arrived(t, Plus(k, keys)) /\ keys \subseteq Key
                        /\ \A x \in Key : x \in Found(pages, root.at) <=> x \in keys
<1> DEFINE top == root.at
           leaf == FindLeaf(pages, top, k)
<1>1. /\ pages \in Image /\ Running(Now) /\ Now.next = Nothing
      /\ Now.pages = pages /\ Now.header = header /\ Now.root = root
      /\ ClearAhead(header, pages) /\ root.at = header.root /\ (root.null => root.at = 0)
      /\ root \in Copy /\ k \in KeyValue \ {0}
  BY NowRuns, KeysAreValues DEF Kept
<1>2. t = IF root.null THEN StartNewTree(Now, k)
          ELSE IF top = 0 THEN Stop(Now, "segv")
          ELSE IF leaf = 0 THEN Stop(Now, "corrupt")
          ELSE IF ~pages[leaf].leaf THEN Stop(Now, "hung")
          ELSE IF HasRoom(pages[leaf])
          THEN WritePage(Now, leaf, LeafWith(pages[leaf], k))
          ELSE SplitLeaf(Now, leaf, k)
  BY DEF Insert
<1>3. CASE root.null
  <2>1. t = StartNewTree(Now, k) /\ top = 0
    BY <1>1, <1>2, <1>3
  <2>2. Over(t) \/ Arrived(t, Plus(k, {}))
    BY <1>1, <2>1, TreeStarts
  <2>3. Found(pages, root.at) = {}
    BY <2>1, NothingIsFound
  <2> QED BY <2>2, <2>3
<1>4. CASE ~root.null /\ top = 0
  <2>1. t = Stop(Now, "segv")
    BY <1>2, <1>4
  <2>2. Now.end = "ok" /\ Now \in Command
    BY <1>1 DEF Running, Unharmed
  <2>3. Hurting(t)
    BY <2>1, <2>2 DEF Stop, Hurting, Command
  <2> QED BY <2>3 DEF Over
<1>5. CASE ~root.null /\ top # 0
  <2>1. header.root = top /\ top \in 1 .. MaxPage
    <3>1. root.at \in PageNo
      BY <1>1 DEF Copy
    <3> QED BY <1>1, <1>5, <3>1, PageNumbers DEF PageNo
  <2>2. PICK rows, h : /\ IsTree(pages, top, rows, h) /\ Room(header, pages, rows, h, 2)
                       /\ RowKeys(pages, rows[h]) \subseteq Key /\ Linked(pages, rows[h])
    BY <1>5, <2>1 DEF Kept, HasRows
  <2>3. InOrderBelow(pages, top) /\ Leaves(pages, top) = rows[h]
    BY <1>1, <2>1, <2>2, RowsAreEnough
  <2>4. PICK e \in rows[h] : Holds(e, k) /\ e[1] = leaf
    BY <1>1, <2>1, <2>3, FindLeafIsRight
  <2>5. leaf \in 1 .. MaxPage /\ leaf # 0 /\ pages[leaf].leaf
    <3>1. leaf \in 1 .. MaxPage /\ pages[leaf].leaf
      BY <1>1, <2>1, <2>3, <2>4, LeafFacts
    <3> QED BY <3>1, PageNumbers
  <2>6. k \notin KeysOf(pages[leaf])
    <3>1. k \notin KeysBelow(pages, top)
      BY <1>1, <2>1, <2>3, FindIsExact
    <3> QED BY <2>3, <2>4, <3>1 DEF KeysBelow
  <2>7. t = IF HasRoom(pages[e[1]]) THEN WritePage(Now, e[1], LeafWith(pages[e[1]], k))
            ELSE SplitLeaf(Now, e[1], k)
    BY <1>2, <1>5, <2>4, <2>5
  <2>8. Rooted(Now)
    BY <1>1, <1>5, <2>1 DEF Rooted
  <2>9. /\ IsTree(Now.pages, Now.root.at, rows, h) /\ Room(Now.header, Now.pages, rows, h, 2)
        /\ k \notin KeysOf(Now.pages[e[1]]) /\ Linked(Now.pages, rows[h])
    BY <1>1, <2>2, <2>4, <2>6
  <2> HIDE DEF leaf
  <2>10. Over(t) \/ Arrived(t, Plus(k, RowKeys(pages, rows[h])))
    <3>1. CASE HasRoom(pages[e[1]])
      <4>1. t = WritePage(Now, e[1], LeafWith(Now.pages[e[1]], k)) /\ HasRoom(Now.pages[e[1]])
        BY <1>1, <2>7, <3>1
      <4>2. Arrived(t, Plus(k, RowKeys(Now.pages, rows[h])))
        BY <1>1, <2>4, <2>8, <2>9, <4>1, RoomyLeaf
      <4> QED BY <1>1, <4>2
    <3>2. CASE ~HasRoom(pages[e[1]])
      <4>1. t = SplitLeaf(Now, e[1], k) /\ ~HasRoom(Now.pages[e[1]])
        BY <1>1, <2>7, <3>2
      <4>2. Over(t) \/ Arrived(t, Plus(k, RowKeys(Now.pages, rows[h])))
        BY <1>1, <2>4, <2>8, <2>9, <4>1, FullLeaf
      <4> QED BY <1>1, <4>2
    <3> QED BY <3>1, <3>2
  <2>11. \A x \in Key : x \in Found(pages, root.at) <=> x \in RowKeys(pages, rows[h])
    BY <1>1, <2>1, <2>2, RowsAreFound
  <2> QED BY <2>2, <2>10, <2>11
<1> QED BY <1>3, <1>4, <1>5

(* The command that arrived at s has been computed. *)
LEMMA KeptThen ==
    ASSUME Kept, proc = "up", todo = <<>>, NEW s, NEW keys, Arrived(s, keys), keys \subseteq Key,
           pages' = s.pages, header' = s.header, root' = s.root, todo' = s.log, end' = s.end,
           proc' = "up", disk' = disk, diskHeader' = diskHeader
    PROVE  Kept' /\ \A x \in Key : x \in Found(s.pages, s.root.at) <=> x \in keys
<1>1. /\ s \in Command /\ s.end = "ok" /\ ToldPages(s) /\ ToldHeader(s)
      /\ ~s.root.null /\ s.root.at \in 1 .. MaxPage /\ s.header.root = s.root.at
  BY DEF Arrived, Running, Unharmed, Rooted
<1>2. PICK rows, h : /\ IsTree(s.pages, s.root.at, rows, h) /\ Room(s.header, s.pages, rows, h, 2)
                     /\ RowKeys(s.pages, rows[h]) = keys /\ Linked(s.pages, rows[h])
  BY DEF Arrived, HasTree
<1>3. Kept'
  <2>1. /\ proc' = "up" /\ end' = "ok" /\ pages' \in Image /\ header' \in HeadType /\ root' \in Copy
        /\ IsPages(disk') /\ todo' \in Seq(Writes) /\ root'.at = header'.root /\ ~root'.null
    BY <1>1 DEF Kept, Command, IsPages
  <2>2. \A p \in 1 .. MaxPage : Shows(todo', p, disk'[p], pages'[p])
    <3>1. \A p \in 1 .. MaxPage : disk[p] = pages[p]
      BY ShowsNothing DEF Kept
    <3> QED BY <1>1, <3>1 DEF ToldPages
  <2>3. Shows(todo', 0, diskHeader', header')
    <3>1. diskHeader = header
      BY ShowsNothing DEF Kept
    <3> QED BY <1>1, <3>1 DEF ToldHeader
  <2>4. HasRows(header', pages')
    BY <1>1, <1>2 DEF HasRows
  <2>5. ClearAhead(header', pages')
    BY <1>2 DEF Room
  <2> QED BY <2>1, <2>2, <2>3, <2>4, <2>5 DEF Kept
<1>4. \A x \in Key : x \in Found(s.pages, s.root.at) <=> x \in keys
  <2>1. s.pages \in Image
    BY <1>1 DEF Command
  <2> QED BY <1>1, <1>2, <2>1, RowsAreFound
<1> QED BY <1>3, <1>4

(* An insertion keeps this, and adds its key to what is found. *)
LEMMA InsertKeeps ==
    ASSUME Kept, NEW k \in Key, CmdInsert(k), harm' = {}
    PROVE  Kept' /\ k \notin Content /\ Content' = Content \cup {k}
<1> DEFINE s == Insert(k)
           top == root.at
<1>1. /\ AtPrompt /\ ~Finds(pages, top, k) /\ s.end # "full"
      /\ pages' = s.pages /\ header' = s.header /\ root' = s.root /\ todo' = s.log
      /\ end' = s.end /\ harm' = harm \cup s.harm
      /\ proc' = proc /\ disk' = disk /\ diskHeader' = diskHeader
  BY DEF CmdInsert, Run
<1>2. proc = "up" /\ todo = <<>>
  BY <1>1 DEF AtPrompt
<1>3. \/ Over(s)
      \/ \E keys : /\ Arrived(s, Plus(k, keys)) /\ keys \subseteq Key
                   /\ \A x \in Key : x \in Found(pages, root.at) <=> x \in keys
  BY <1>1, <1>2, InsertIsRight
<1> HIDE DEF s
<1>4. ~Over(s)
  BY <1>1 DEF Over, Hurting
<1>5. PICK keys : /\ Arrived(s, Plus(k, keys)) /\ keys \subseteq Key
                  /\ \A x \in Key : x \in Found(pages, root.at) <=> x \in keys
  BY <1>3, <1>4
<1>6. /\ pages' = s.pages /\ header' = s.header /\ root' = s.root /\ todo' = s.log /\ end' = s.end
      /\ proc' = "up" /\ disk' = disk /\ diskHeader' = diskHeader
  BY <1>1, <1>2
<1>7. Kept' /\ \A x \in Key : x \in Found(s.pages, s.root.at) <=> x \in Plus(k, keys)
  <2>1. Plus(k, keys) \subseteq Key
    BY <1>5 DEF Plus
  <2> QED BY <1>2, <1>5, <1>6, <2>1, KeptThen
<1>8. Content = Found(pages, top) /\ Content' = Found(s.pages, s.root.at)
  BY <1>1, <1>2 DEF Content, Top, Found
<1>9. \A x \in Key : x \in Found(s.pages, s.root.at) <=> x = k \/ x \in Found(pages, top)
  BY <1>5, <1>7 DEF Plus
<1>10. k \notin Found(pages, top) /\ Found(s.pages, s.root.at) \subseteq Key /\ Found(pages, top) \subseteq Key
  BY <1>1 DEF Found
<1> QED BY <1>7, <1>8, <1>9, <1>10

(* What is at p once write e is carried out. *)
Carried(e, p, x0) == IF e.at = p THEN e.is ELSE x0

(* A write reaches the file. *)
LEMMA FlushKeeps ==
    ASSUME Kept, Flush
    PROVE  Kept' /\ Content' = Content
<1> DEFINE w == Head(todo)
<1>1. /\ proc = "up" /\ todo # <<>> /\ todo \in Seq(Writes) /\ todo' = Tail(todo)
      /\ proc' = proc /\ pages' = pages /\ header' = header /\ root' = root /\ end' = end
      /\ IF w.at = 0 THEN diskHeader' = w.is /\ disk' = disk
         ELSE disk' = [disk EXCEPT ![w.at] = w.is] /\ diskHeader' = diskHeader
  BY DEF Flush, Kept
<1>2. \A p, x0, x : Shows(todo, p, x0, x) => Shows(todo', p, Carried(w, p, x0), x)
  <2> SUFFICES ASSUME NEW p, NEW x0, NEW x, Shows(todo, p, x0, x)
               PROVE  Shows(Tail(todo), p, Carried(w, p, x0), x)
    BY <1>1
  <2> QED BY <1>1, ShowsRest DEF Carried
<1>3. /\ IsPages(disk)
      /\ \A p \in 1 .. MaxPage : Shows(todo, p, disk[p], pages[p])
      /\ Shows(todo, 0, diskHeader, header)
  BY DEF Kept
<1> HIDE DEF w
<1>4. todo' \in Seq(Writes)
  BY <1>1
<1>5. IsPages(disk') /\ \A p \in 1 .. MaxPage : disk'[p] = Carried(w, p, disk[p])
  <2>1. CASE w.at = 0
    BY <1>1, <1>3, <2>1, PageNumbers DEF Carried
  <2>2. CASE w.at # 0
    <3>1. disk' = [disk EXCEPT ![w.at] = w.is]
      BY <1>1, <2>2
    <3> QED BY <1>3, <3>1 DEF IsPages, Carried
  <2> QED BY <2>1, <2>2
<1>6. \A p \in 1 .. MaxPage : Shows(todo', p, disk'[p], pages'[p])
  BY <1>1, <1>2, <1>3, <1>5
<1>7. Shows(todo', 0, diskHeader', header')
  <2>1. Shows(todo', 0, Carried(w, 0, diskHeader), header)
    BY <1>2, <1>3
  <2>2. diskHeader' = Carried(w, 0, diskHeader)
    BY <1>1 DEF Carried
  <2> QED BY <1>1, <2>1, <2>2
<1>8. HasRows(header, pages) => HasRows(header', pages')
  BY <1>1
<1>9. ClearAhead(header', pages')
  BY <1>1 DEF Kept
<1>10. Kept'
  BY <1>1, <1>4, <1>5, <1>6, <1>7, <1>8, <1>9 DEF Kept
<1>11. Content' = Content
  BY <1>1 DEF Content, Top
<1> QED BY <1>10, <1>11

(* What is on disk when nothing is left to write. *)
LEMMA AllIsWritten ==
    ASSUME Kept, todo = <<>>
    PROVE  disk = pages /\ diskHeader = header
<1>1. diskHeader = header /\ \A p \in 1 .. MaxPage : disk[p] = pages[p]
  BY ShowsNothing DEF Kept
<1>2. pages = [p \in 1 .. MaxPage |-> pages[p]] /\ disk = [p \in 1 .. MaxPage |-> disk[p]]
  BY DEF Kept, Image, IsPages
<1>3. [p \in 1 .. MaxPage |-> pages[p]] = [p \in 1 .. MaxPage |-> disk[p]]
  BY <1>1
<1> QED BY <1>1, <1>2, <1>3

(* The process ends with nothing left to write. *)
LEMMA CrashKeeps ==
    ASSUME Kept, Crash, harm' = {}
    PROVE  Kept' /\ Content' = Content
<1>1. /\ proc = "up" /\ proc' = "down" /\ pages' = disk /\ header' = diskHeader /\ root' = NullRoot
      /\ todo' = <<>> /\ end' = "ok" /\ disk' = disk /\ diskHeader' = diskHeader
  BY DEF Kept, Crash, MemoryGone
<1>2. todo = <<>>
  BY DEF Crash
<1>3. disk = pages /\ diskHeader = header
  BY <1>2, AllIsWritten
<1>4. root' \in Copy /\ todo' \in Seq(Writes)
  BY <1>1, NodeAssumption DEF NullRoot, Copy, PageNo, KeySlot
<1>5. HasRows(header, pages) => HasRows(header', pages')
  BY <1>1, <1>3
<1>6. Shows(todo', 0, diskHeader', header') /\ \A p \in 1 .. MaxPage : Shows(todo', p, disk'[p], pages'[p])
  BY <1>1, ShowsNothing
<1>7. pages' = pages /\ header' = header /\ ClearAhead(header', pages')
  BY <1>1, <1>3 DEF Kept
<1>8. Kept'
  BY <1>1, <1>4, <1>5, <1>6, <1>7 DEF Kept
<1>9. Top = header.root /\ Top' = header.root
  BY <1>1, <1>3 DEF Top, Kept
<1> QED BY <1>7, <1>8, <1>9 DEF Content

(* The file is opened, or opened again. *)
LEMMA OpenKeeps ==
    ASSUME Kept, Open
    PROVE  Kept' /\ Content' = Content
<1> DEFINE p == diskHeader.root
           c == IF p = 0 THEN ZeroPage ELSE disk[p]
<1>1. /\ proc = "down" /\ proc' = "up" /\ root' = RootCopy(p, c) /\ todo = <<>>
      /\ pages' = pages /\ header' = header /\ disk' = disk /\ diskHeader' = diskHeader
      /\ todo' = todo /\ end' = end
  BY DEF Kept, Open
<1>2. disk = pages /\ diskHeader = header
  BY <1>1, AllIsWritten
<1>3. p \in PageNo /\ c \in Page /\ 0 \in OffSlot
  <2>1. p \in PageNo /\ pages \in Image
    BY <1>2 DEF Kept, HeadType
  <2>2. p # 0 => p \in 1 .. MaxPage
    BY <2>1, PageNumbers
  <2> QED BY <1>2, <2>1, <2>2, ZeroIsPage, NodeAssumption DEF Image, OffSlot
<1>4. root' \in Copy /\ root'.at = p /\ ~root'.null
  <2>1. c.leaf \in BOOLEAN /\ c.n \in KeySlot /\ c.off[0] \in PageNo
    <3> HIDE DEF c
    <3> QED BY <1>3 DEF Page
  <2> HIDE DEF c
  <2> QED BY <1>1, <1>3, <2>1 DEF RootCopy, Copy
<1>5. HasRows(header, pages) => HasRows(header', pages')
  BY <1>1
<1>6. ClearAhead(header', pages')
  BY <1>1 DEF Kept
<1>7. Kept'
  BY <1>1, <1>2, <1>4, <1>5, <1>6 DEF Kept
<1>8. Top = p /\ Top' = p
  BY <1>1, <1>4 DEF Top
<1> QED BY <1>1, <1>7, <1>8 DEF Content

(* Nothing in Harm is forgotten. *)
LEMMA HarmStays == ASSUME [Next]_vars PROVE harm \subseteq harm'
<1>1. ASSUME NEW c, NEW s, Run(c, s) PROVE harm \subseteq harm'
  BY <1>1 DEF Run
<1>2. ASSUME Crash PROVE harm \subseteq harm'
  BY <1>2 DEF Crash
<1>3. ASSUME Flush \/ Fail \/ Open \/ UNCHANGED vars PROVE harm \subseteq harm'
  BY <1>3 DEF Flush, Fail, Open, vars
<1> QED BY <1>1, <1>2, <1>3 DEF Next, CmdInsert, CmdDelete

(* An empty file has no tree, and nothing in it. *)
LEMMA KeptInit == ASSUME Init PROVE Kept /\ harm = {} /\ Content = {}
<1>1. /\ proc = "up" /\ pages = [p \in 1 .. MaxPage |-> ZeroPage] /\ header = NewHeader /\ root = NullRoot
      /\ disk = pages /\ diskHeader = header /\ todo = <<>> /\ end = "ok" /\ harm = {}
  BY DEF Init
<1>2. /\ header.free = 1 /\ header.root = 0 /\ header.num = 1 /\ header \in HeadType
  BY <1>1, PageNumbers DEF NewHeader, HeadType
<1>3. pages \in Image /\ root \in Copy /\ root.at = 0 /\ todo \in Seq(Writes)
  BY <1>1, ZeroIsPage, NodeAssumption DEF Image, NullRoot, Copy, PageNo, KeySlot
<1>4. ClearAhead(header, pages)
  BY <1>1, <1>2 DEF ClearAhead
<1>5. Shows(todo, 0, diskHeader, header) /\ \A p \in 1 .. MaxPage : Shows(todo, p, disk[p], pages[p])
  BY <1>1, ShowsNothing
<1>6. IsPages(disk)
  BY <1>1 DEF IsPages
<1>7. Content = {}
  BY <1>1, <1>3, NothingIsFound DEF Content, Top, Found
<1> QED BY <1>1, <1>2, <1>3, <1>4, <1>5, <1>6, <1>7 DEF Kept

-----------------------------------------------------------------------------
(* What happened in Harm stays in the record of a deletion: when a page is *)
(* freed,                                                                  *)
LEMMA FreeHurts == \A s, p : Hurting(s) => Hurting(FreePage(s, p))
<1> SUFFICES ASSUME NEW s, NEW p, Hurting(s) PROVE Hurting(FreePage(s, p))
  OBVIOUS
<1> DEFINE v == WritePage(s, p, [ZeroPage EXCEPT !.parent = s.header.free])
           u == [v EXCEPT !.header.free = 0, !.header.num = @ - 1]
<1>1. Hurting(v)
  BY HurtsOn
<1> HIDE DEF v
<1>2. Hurting(u)
  BY <1>1 DEF Hurting
<1> HIDE DEF u
<1>3. Hurting(WriteHeader(u))
  BY <1>2, HurtsOn
<1> QED BY <1>3 DEF FreePage, u, v

(* a separator replaced,                                                   *)
LEMMA ReplaceHurts == \A s, p, k : Hurting(s) => Hurting(ReplaceEntry(s, p, k))
BY HurtsOn DEF ReplaceEntry

(* the root adjusted,                                                      *)
LEMMA AdjustHurts == \A s : Hurting(s) => Hurting(AdjustRoot(s))
<1> SUFFICES ASSUME NEW s, Hurting(s) PROVE Hurting(AdjustRoot(s))
  OBVIOUS
<1>1. \A p : Hurting(Stop(Hurt(FreePage(s, p), "staleRoot"), "segv"))
  BY FreeHurts, HurtsOn
<1>2. Hurting(Stop(s, "corrupt"))
  BY HurtsOn
<1>3. \A p, q, c : Hurting(Hurt(SetRoot(FreePage(s, p), q, c), "staleRoot"))
  BY FreeHurts, SetRootHurts, HurtsOn
<1> QED BY <1>1, <1>2, <1>3 DEF AdjustRoot

(* merge_nodes once it has moved the records into the pages of moved.      *)
MergeWrites(s1, left, right, p, kp, moved) ==
    LET s2 == WritePage(WritePage(s1, left, moved.l), right, moved.r)
    IN  IF moved.r.n = 0
        THEN [WriteHeader(FreePage(s2, right)) EXCEPT !.next = [child |-> p, key |-> kp, new |-> 0]]
        ELSE [ReplaceEntry(s2, p, moved.r.key[0]) EXCEPT !.next = Nothing]

LEMMA MergeIs ==
    ASSUME NEW s, NEW left, NEW right, NEW p, NEW kp,
           NEW l, l = Read(s, left), NEW r, r = Read(s, right)
    PROVE  MergeNodes(s, left, right, p, kp) =
               IF l.leaf
               THEN LET m == ShiftLeaf(l, r)
                    IN  MergeWrites(IF m.back THEN Hurt(s, "scrambled") ELSE s, left, right, p, kp, m)
               ELSE LET m == ShiftNode(l, r, kp)
                    IN  MergeWrites(IF ~m.fits THEN Stop(s, "corrupt")
                                    ELSE AdoptChildren(Hurt(s, "lostSubtree"), left, m.l),
                                    left, right, p, kp, m)
BY DEF MergeNodes, MergeWrites

(* two pages merged,                                                       *)
LEMMA WritesHurt ==
    \A s, left, right, p, kp, moved : Hurting(s) => Hurting(MergeWrites(s, left, right, p, kp, moved))
<1> SUFFICES ASSUME NEW s, NEW left, NEW right, NEW p, NEW kp, NEW moved, Hurting(s)
             PROVE  Hurting(MergeWrites(s, left, right, p, kp, moved))
  OBVIOUS
<1> DEFINE s2 == WritePage(WritePage(s, left, moved.l), right, moved.r)
<1>1. Hurting(s2)
  BY HurtsOn
<1> HIDE DEF s2
<1>2. \A x : Hurting([WriteHeader(FreePage(s2, right)) EXCEPT !.next = x])
  BY <1>1, FreeHurts, HurtsOn
<1>3. \A k, x : Hurting([ReplaceEntry(s2, p, k) EXCEPT !.next = x])
  BY <1>1, ReplaceHurts, HurtsOn
<1> QED BY <1>2, <1>3 DEF MergeWrites, s2

LEMMA MergeHurts ==
    \A s, left, right, p, kp : Hurting(s) => Hurting(MergeNodes(s, left, right, p, kp))
<1> SUFFICES ASSUME NEW s, NEW left, NEW right, NEW p, NEW kp, Hurting(s)
             PROVE  Hurting(MergeNodes(s, left, right, p, kp))
  OBVIOUS
<1> DEFINE l == Read(s, left)
           r == Read(s, right)
           byLeaf == ShiftLeaf(l, r)
           byNode == ShiftNode(l, r, kp)
<1> HIDE DEF l, r, byLeaf, byNode
<1>1. Hurting(IF byLeaf.back THEN Hurt(s, "scrambled") ELSE s)
  BY HurtsOn
<1>2. Hurting(IF ~byNode.fits THEN Stop(s, "corrupt") ELSE AdoptChildren(Hurt(s, "lostSubtree"), left, byNode.l))
  BY HurtsOn, AdoptHurts
<1>3. MergeNodes(s, left, right, p, kp) =
          IF l.leaf
          THEN MergeWrites(IF byLeaf.back THEN Hurt(s, "scrambled") ELSE s, left, right, p, kp, byLeaf)
          ELSE MergeWrites(IF ~byNode.fits THEN Stop(s, "corrupt")
                           ELSE AdoptChildren(Hurt(s, "lostSubtree"), left, byNode.l),
                           left, right, p, kp, byNode)
  BY MergeIs DEF l, r, byLeaf, byNode
<1> QED BY <1>1, <1>2, <1>3, WritesHurt

(* and when one level is climbed. *)
LEMMA DeleteHurts == \A s : Hurting(s) => Hurting(DeleteEntry(s))
<1> SUFFICES ASSUME NEW s, Hurting(s) PROVE Hurting(DeleteEntry(s))
  OBVIOUS
<1>1. \A p, c : Hurting([WritePage(s, p, c) EXCEPT !.next = Nothing])
  BY HurtsOn
<1>2. \A p, c : LET s1 == [WritePage(s, p, c) EXCEPT !.next = Nothing]
                IN  /\ Hurting(AdjustRoot(s1)) /\ Hurting(s1)
                    /\ \A how : Hurting(Stop(s1, how))
                    /\ \A left, right, parent, kp : Hurting(MergeNodes(s1, left, right, parent, kp))
  BY <1>1, AdjustHurts, MergeHurts, HurtsOn
<1>3. Hurting(Stop(s, "corrupt"))
  BY HurtsOn
<1> QED BY <1>2, <1>3 DEF DeleteEntry

-----------------------------------------------------------------------------
(* A page is freed: no page is made any more. *)
LEMMA FreeRuns ==
    ASSUME NEW s, Running(s), NEW p \in 1 .. MaxPage, NEW t, t = FreePage(s, p)
    PROVE  /\ Running(t) /\ t.header.free = 0 /\ t.header.root = s.header.root
           /\ t.root = s.root /\ t.next = s.next
           /\ \E z \in Page : t.pages = Written(s.pages, p, z)
<1> DEFINE z == [ZeroPage EXCEPT !.parent = s.header.free]
           v == WritePage(s, p, z)
           u == [v EXCEPT !.header.free = 0, !.header.num = @ - 1]
<1>1. s \in Command /\ s.end = "ok" /\ s.header \in HeadType /\ s.header.free \in PageNo
  BY DEF Running, Unharmed, Command, HeadType
<1>2. z \in Page
  BY <1>1, ZeroIsPage DEF Page
<1> HIDE DEF z
<1>3. Running(v) /\ SameFile(s, v) /\ v.pages = Written(s.pages, p, z)
  BY <1>2, WriteRuns
<1>4. t = WriteHeader(u)
  BY <1>1 DEF FreePage, z
<1> HIDE DEF v
<1>5. v \in Command /\ v.end = "ok" /\ v.harm = {} /\ ToldPages(v) /\ v.header \in HeadType
  BY <1>3 DEF Running, Unharmed, Command
<1>6. /\ u.pages = v.pages /\ u.log = v.log /\ u.end = v.end /\ u.harm = v.harm
      /\ u.root = v.root /\ u.next = v.next
      /\ u.header.free = 0 /\ u.header.root = v.header.root
  BY <1>5 DEF Command, HeadType
<1>7. u \in Command
  <2>1. [v.header EXCEPT !.free = 0, !.num = @ - 1] \in HeadType
    <3>1. ASSUME NEW w \in HeadType PROVE [w EXCEPT !.free = 0, !.num = @ - 1] \in HeadType
      <4>1. 0 \in PageNo /\ w.num - 1 \in Int
        BY PageNumbers DEF HeadType
      <4>2. [w EXCEPT !.free = 0] \in HeadType /\ [w EXCEPT !.free = 0].num = w.num
        BY <4>1 DEF HeadType
      <4>3. [[w EXCEPT !.free = 0] EXCEPT !.num = w.num - 1] \in HeadType
        BY <4>1, <4>2 DEF HeadType
      <4>4. [w EXCEPT !.free = 0, !.num = @ - 1] = [[w EXCEPT !.free = 0] EXCEPT !.num = w.num - 1]
        BY <4>2
      <4> QED BY <4>3, <4>4
    <3> QED BY <1>5, <3>1, Zenon
  <2>2. u = [v EXCEPT !.header = [v.header EXCEPT !.free = 0, !.num = @ - 1]]
    BY <1>5 DEF Command, HeadType
  <2> QED BY <1>5, <2>1, <2>2 DEF Command
<1>8. Unharmed(u) /\ ToldPages(u)
  BY <1>5, <1>6, <1>7 DEF Unharmed, ToldPages
<1> HIDE DEF u
<1>9. Running(t) /\ SameTree(u, t) /\ SameFile(u, t)
  BY <1>4, <1>8, HeaderRuns
<1> QED BY <1>2, <1>3, <1>6, <1>9 DEF SameTree, SameFile

(* What merge_nodes leaves of two leaves. *)
Step(p, k) == [child |-> p, key |-> k, new |-> 0]

(* merge_nodes (bpt.c:886) for two leaves: the right one is empty and      *)
(* freed, and the separator is to be deleted next; or the separator is     *)
(* replaced; or something in Harm has happened.                            *)
MergedTo(s, t, left, right, p, kp, m, d) ==
    \/ Hurting(t)
    \/ /\ ~m.back /\ m.r.n = 0 /\ Running(t) /\ t.next = Step(p, kp)
       /\ t.header.free = 0 /\ t.header.root = s.header.root /\ t.root = s.root
       /\ \E z \in Page : t.pages = Written(Written(Written(s.pages, left, m.l), right, m.r), right, z)
    \/ /\ ~m.back /\ m.r.n # 0 /\ Running(t) /\ t.next = Nothing
       /\ t.header = s.header /\ t.root = s.root
       /\ t.pages = Written(Written(Written(s.pages, left, m.l), right, m.r), p, d)

LEMMA LeavesAreMerged ==
    ASSUME NEW s, Running(s), NEW left \in 1 .. MaxPage, NEW right \in 1 .. MaxPage,
           NEW p \in 1 .. MaxPage, p # left, p # right, NEW kp \in KeyValue,
           NEW l, l = s.pages[left], NEW r, r = s.pages[right], l.leaf,
           NEW m, m = ShiftLeaf(l, r),
           ~m.back => m.l \in Page /\ m.r \in Page,
           NEW x, x = m.r.key[0],
           NEW d, d = Replaced(s.pages[p], SlotOf(s.pages[p], x) - 1, x),
           ~m.back /\ m.r.n # 0 => d \in Page,
           NEW t, t = MergeNodes(s, left, right, p, kp)
    PROVE  MergedTo(s, t, left, right, p, kp, m, d)
<1>1. s \in Command /\ s.end = "ok" /\ s.pages \in Image
  BY DEF Running, Unharmed, Command
<1>2. Read(s, left) = l /\ Read(s, right) = r
  BY <1>1, PageNumbers DEF Read
<1>3. t = MergeWrites(IF m.back THEN Hurt(s, "scrambled") ELSE s, left, right, p, kp, m)
  BY <1>2, MergeIs
<1>4. CASE m.back
  <2>1. Hurting(Hurt(s, "scrambled"))
    BY <1>1 DEF Hurt, Hurting, Command
  <2> QED BY <1>3, <1>4, <2>1, WritesHurt DEF MergedTo
<1>5. CASE ~m.back
  <2> DEFINE s1 == WritePage(s, left, m.l)
             s2 == WritePage(s1, right, m.r)
             image2 == Written(Written(s.pages, left, m.l), right, m.r)
  <2>1. t = IF m.r.n = 0
            THEN [WriteHeader(FreePage(s2, right)) EXCEPT !.next = Step(p, kp)]
            ELSE [ReplaceEntry(s2, p, x) EXCEPT !.next = Nothing]
    BY <1>3, <1>5 DEF MergeWrites, Step
  <2>w. m.l \in Page /\ m.r \in Page
    BY <1>5
  <2>2. Running(s1) /\ SameFile(s, s1) /\ s1.pages = Written(s.pages, left, m.l)
    BY <2>w, WriteRuns
  <2> HIDE DEF s1
  <2>3. Running(s2) /\ SameFile(s1, s2) /\ s2.pages = Written(s1.pages, right, m.r)
    <3>1. Running(s1) /\ right \in 1 .. MaxPage /\ m.r \in Page /\ s2 = WritePage(s1, right, m.r)
      BY <2>2, <2>w
    <3> HIDE DEF s2
    <3>2. Running(s2) /\ SameFile(s1, s2) /\ s2.pages = Written(s1.pages, right, m.r)
      BY ONLY <3>1, WriteRuns
    <3> QED BY <3>2
  <2> HIDE DEF s2
  <2>4. s2.pages = image2 /\ s2.header = s.header /\ s2.root = s.root
    BY <2>2, <2>3 DEF SameFile
  <2>5. CASE m.r.n = 0
    <3> DEFINE s3 == FreePage(s2, right)
               s4 == WriteHeader(s3)
    <3>1. /\ Running(s3) /\ s3.header.free = 0 /\ s3.header.root = s2.header.root
          /\ s3.root = s2.root /\ s3.next = s2.next
          /\ \E z \in Page : s3.pages = Written(s2.pages, right, z)
      BY <2>3, FreeRuns
    <3> HIDE DEF s3
    <3>2. Running(s4) /\ SameTree(s3, s4) /\ SameFile(s3, s4)
      BY <3>1, HeaderRuns DEF Running
    <3> HIDE DEF s4
    <3>3. Step(p, kp) \in Later
      BY PageNumbers DEF Step, Later
    <3>4. t = [s4 EXCEPT !.next = Step(p, kp)]
      BY <2>1, <2>5 DEF s3, s4
    <3>5. /\ Running(t) /\ t.next = Step(p, kp)
          /\ t.pages = s4.pages /\ t.header = s4.header /\ t.root = s4.root
      BY <3>2, <3>3, <3>4, NextRuns
    <3>6. t.header.free = 0 /\ t.header.root = s.header.root /\ t.root = s.root
      BY <2>4, <3>1, <3>2, <3>5 DEF SameFile
    <3>7. \E z \in Page : t.pages = Written(image2, right, z)
      BY <2>4, <3>1, <3>2, <3>5 DEF SameTree
    <3> QED BY <1>5, <2>5, <3>5, <3>6, <3>7 DEF MergedTo
  <2>6. CASE m.r.n # 0
    <3> DEFINE c == s.pages[p]
               f == SlotOf(c, x)
    <3>1. Read(s2, p) = c
      <4>1. image2[p] = c
        BY <1>1 DEF Written, Image
      <4> QED BY <2>4, <4>1, PageNumbers DEF Read
    <3>2. ReplaceEntry(s2, p, x) = IF f = c.n THEN Hurt(WritePage(s2, p, c), "staleSeparator")
                                   ELSE IF f = 0 THEN Stop(s2, "corrupt")
                                   ELSE WritePage(s2, p, d)
      BY <3>1 DEF ReplaceEntry, SlotOf, Replaced
    <3>3. s2 \in Command /\ s2.end = "ok"
      BY <2>3 DEF Running, Unharmed
    <3> HIDE DEF f
    <3>4. CASE f = c.n
      <4>1. c \in Page
        BY <1>1 DEF Image
      <4> DEFINE v == WritePage(s2, p, c)
      <4>2. Running(v)
        BY <2>3, <4>1, WriteRuns
      <4>3. v \in Command /\ v.end = "ok"
        BY <4>2 DEF Running, Unharmed
      <4> HIDE DEF v
      <4>4. Hurting(Hurt(v, "staleSeparator"))
        BY <4>3 DEF Hurt, Hurting, Command
      <4>5. t = [Hurt(v, "staleSeparator") EXCEPT !.next = Nothing]
        BY <2>1, <2>6, <3>2, <3>4 DEF v
      <4> QED BY <4>4, <4>5, HurtsOn DEF MergedTo
    <3>5. CASE f # c.n /\ f = 0
      <4>1. Hurting(Stop(s2, "corrupt"))
        BY <3>3 DEF Stop, Hurting, Command
      <4>2. t = [Stop(s2, "corrupt") EXCEPT !.next = Nothing]
        BY <2>1, <2>6, <3>2, <3>5
      <4> QED BY <4>1, <4>2, HurtsOn DEF MergedTo
    <3>6. CASE f # c.n /\ f # 0
      <4> DEFINE v == WritePage(s2, p, d)
      <4>0. d \in Page
        BY <1>5, <2>6
      <4>1. Running(v) /\ SameFile(s2, v) /\ v.pages = Written(s2.pages, p, d)
        <5>1. Running(s2) /\ p \in 1 .. MaxPage /\ d \in Page
          BY <2>3, <4>0
        <5>2. v = WritePage(s2, p, d)
          OBVIOUS
        <5> HIDE DEF image2, v
        <5>3. Running(v) /\ SameFile(s2, v) /\ v.pages = Written(s2.pages, p, d)
          BY ONLY <5>1, <5>2, WriteRuns
        <5> QED BY <5>3
      <4>2. t = [v EXCEPT !.next = Nothing]
        BY <2>1, <2>6, <3>2, <3>6, Zenon
      <4> HIDE DEF v
      <4>3. /\ Running(t) /\ t.next = Nothing
            /\ t.pages = v.pages /\ t.header = v.header /\ t.root = v.root
        BY <4>1, <4>2, NextRuns, NothingIsLater
      <4>4. t.header = s.header /\ t.root = s.root
        BY <2>4, <4>1, <4>3 DEF SameFile
      <4>5. t.pages = Written(image2, p, d)
        BY <2>4, <4>1, <4>3
      <4> QED BY <1>5, <2>6, <4>3, <4>4, <4>5 DEF MergedTo
    <3> QED BY <3>4, <3>5, <3>6
  <2> QED BY <2>5, <2>6
<1> QED BY <1>4, <1>5

(* The paths that a command does not come back from. *)
LEMMA StopsHurt ==
    ASSUME NEW s, Running(s)
    PROVE  /\ \A tag : Hurting(Hurt(s, tag))
           /\ \A how : Hurting(Stop(s, how))
<1>1. s \in Command /\ s.end = "ok"
  BY DEF Running, Unharmed
<1>2. ASSUME NEW tag PROVE Hurting(Hurt(s, tag))
  BY <1>1 DEF Hurt, Hurting, Command
<1>3. ASSUME NEW how PROVE Hurting(Stop(s, how))
  BY <1>1 DEF Stop, Hurting, Command
<1> QED BY <1>2, <1>3

(* adjust_root (bpt.c:820) with a copy of the root that has no keys. *)
LEMMA StaleRootHurts ==
    ASSUME NEW s, Running(s), Rooted(s), ~(s.root.n > 0), NEW t, t = AdjustRoot(s)
    PROVE  Hurting(t)
<1> DEFINE old == s.root
           v == FreePage(s, old.at)
           c == [Read(s, old.first) EXCEPT !.parent = 0]
           u == SetRoot(v, old.first, c)
<1>1. t = IF old.leaf THEN Stop(Hurt(v, "staleRoot"), "segv")
          ELSE IF old.first = 0 THEN Stop(s, "corrupt")
          ELSE Hurt(u, "staleRoot")
  BY DEF AdjustRoot
<1>2. s \in Command /\ s.pages \in Image /\ s.root \in Copy
  BY DEF Running, Unharmed, Command
<1>3. Running(v)
  BY FreeRuns DEF Rooted
<1> HIDE DEF v
<1>4. Hurting(Stop(Hurt(v, "staleRoot"), "segv"))
  BY <1>3, StopsHurt, HurtsOn
<1>5. Hurting(Stop(s, "corrupt"))
  BY StopsHurt
<1>6. CASE old.first # 0
  <2>1. old.first \in 1 .. MaxPage
    BY <1>2, <1>6, PageNumbers DEF Copy, PageNo
  <2>2. c \in Page
    <3>1. Read(s, old.first) \in Page
      BY <1>2, <1>6, <2>1 DEF Read, Image
    <3> QED BY <3>1, PageNumbers DEF Page
  <2> HIDE DEF c
  <2>3. Running(u)
    BY <1>3, <2>1, <2>2, SetRootRuns
  <2> HIDE DEF u
  <2> QED BY <1>1, <1>4, <1>6, <2>3, StopsHurt
<1> QED BY <1>1, <1>4, <1>5, <1>6

(* A page's neighbors are internal pages: those below its parent. *)
InteriorAbove(image, parent) ==
    \/ parent = 0
    \/ /\ parent \in 1 .. MaxPage /\ image[parent].n \in 0 .. InternalOrder
       /\ \A j \in OffSlot : LET x == image[parent].off[j]
                             IN  x = 0 \/ (x \in 1 .. MaxPage /\ ~image[x].leaf)

(* They are those of every internal page, however its leaves are written.  *)
LEMMA InteriorStays ==
    ASSUME NEW image \in Image, NEW top \in 1 .. MaxPage, NEW rows, NEW h, IsTree(image, top, rows, h),
           h > 0, NEW q \in rows[h - 1],
           NEW image1, \A x \in 1 .. MaxPage : ~image[x].leaf => image1[x] = image[x]
    PROVE  InteriorAbove(image1, image[q[1]].parent)
<1>1. h \in Nat /\ h - 1 \in 0 .. h /\ h - 1 # h /\ image[top].parent = 0 /\ rows[0] = {<<top, 0, KeyMod>>}
  BY PageNumbers DEF IsTree
<1>2. CASE h - 1 = 0
  BY <1>1, <1>2 DEF InteriorAbove
<1>3. CASE h - 1 # 0
  <2>1. h - 1 \in 1 .. h /\ (h - 1) - 1 \in 0 .. h
    BY <1>1, <1>3
  <2>2. PICK g \in rows[(h - 1) - 1] :
              /\ image[q[1]].parent = g[1] /\ g \in Entry
              /\ image[g[1]] \in Page /\ ~image[g[1]].leaf /\ image[g[1]].n < InternalOrder
              /\ SlotsInOrder(image[g[1]], g[2], g[3])
    BY <2>1, FromAbove
  <2> DEFINE c == image[g[1]]
  <2>3. g[1] \in 1 .. MaxPage /\ image1[g[1]] = c
    BY <2>2 DEF Entry
  <2>4. c.n \in 0 .. InternalOrder /\ c.n \in Nat
    BY <2>2, PageFacts, NodeAssumption
  <2>5. ASSUME NEW j \in OffSlot, c.off[j] # 0
        PROVE  c.off[j] \in 1 .. MaxPage /\ ~image[c.off[j]].leaf
    <3>1. j \in 0 .. c.n
      <4>1. ~(j > c.n)
        BY <2>2, <2>5 DEF SlotsInOrder
      <4> QED BY <2>4, <4>1 DEF OffSlot
    <3> DEFINE f == Branch(c.key, c.off, c.n, g[2], g[3], j)
    <3>2. f \in Under(image, g) /\ f[1] = c.off[j]
      BY <3>1 DEF Under, Subtrees, Branches, Branch
    <3> HIDE DEF f, c
    <3>3. f \in rows[h - 1]
      BY <2>1, <2>2, <3>2 DEF IsTree, UnderRow
    <3>4. f \in Entry /\ ~image[f[1]].leaf
      BY <1>1, <3>3 DEF IsTree, EntryInOrder
    <3> QED BY <3>2, <3>4 DEF Entry
  <2>6. \A j \in OffSlot : c.off[j] = 0 \/ (c.off[j] \in 1 .. MaxPage /\ ~image1[c.off[j]].leaf)
    BY <2>5
  <2> QED BY <2>2, <2>3, <2>4, <2>6 DEF InteriorAbove
<1> QED BY <1>2, <1>3

(* A tree of no more pages has as much room. *)
LEMMA RoomLess ==
    ASSUME NEW image, NEW image1, NEW rows, NEW rows1, NEW h \in Nat, NEW head, head.free \in PageNo,
           Room(head, image, rows, h, 2),
           \A x : InTree(rows1, h, x) => InTree(rows, h, x),
           \A x \in 1 .. MaxPage : ~InTree(rows, h, x) => image1[x] = image[x]
    PROVE  Room(head, image1, rows1, h, 2)
<1>1. CASE head.free = 0
  BY <1>1 DEF Room, ClearAhead
<1>2. CASE head.free # 0
  <2>1. /\ head.free \in Nat /\ h + 2 <= head.free /\ head.free = head.num
        /\ \A x : InTree(rows, h, x) => x \in 1 .. head.free - 1
        /\ \A p \in 1 .. MaxPage : p >= head.free => image[p] = ZeroPage
    BY <1>2, PageNumbers DEF Room, ClearAhead
  <2>2. ASSUME NEW p \in 1 .. MaxPage, p >= head.free PROVE image1[p] = ZeroPage
    <3>1. p \notin 1 .. head.free - 1
      BY <2>1, <2>2
    <3> QED BY <2>1, <2>2, <3>1
  <2> QED BY <2>1, <2>2 DEF Room, ClearAhead
<1> QED BY <1>1, <1>2

-----------------------------------------------------------------------------
(* The climb of a deletion.                                                *)

(* The leaf keeps keys, or is the root. *)
LEMMA LeafStays ==
    ASSUME NEW s, Running(s), Rooted(s),
           NEW rows, NEW h, IsTree(s.pages, s.root.at, rows, h), Room(s.header, s.pages, rows, h, 2),
           Linked(s.pages, rows[h]),
           NEW e \in rows[h], NEW k \in KeysOf(s.pages[e[1]]),
           NEW c, c = RemoveEntry(s.pages[e[1]], k), c.n > 0 \/ e[1] = s.root.at,
           NEW t, t = Ended(WritePage(s, e[1], c))
    PROVE  Arrived(t, Minus(k, RowKeys(s.pages, rows[h])))
<1> DEFINE image == s.pages
           top == s.root.at
           leaf == e[1]
           b == image[leaf]
           image1 == Written(image, leaf, c)
           v == WritePage(s, leaf, c)
<1>1. image \in Image /\ s.header.free \in PageNo /\ top \in 1 .. MaxPage /\ h \in Nat /\ h \in 0 .. h
  <2>1. h \in Nat
    BY PageNumbers DEF IsTree
  <2> QED BY <2>1 DEF Running, Unharmed, Command, HeadType, Rooted
<1>2. /\ leaf \in 1 .. MaxPage /\ e[2] \in Int /\ e[3] \in Int /\ b \in Page /\ b.leaf
      /\ b.n < LeafOrder /\ SlotsInOrder(b, e[2], e[3])
  <2>1. EntryInOrder(image, top, e) /\ image[e[1]].leaf
    BY <1>1 DEF IsTree
  <2>2. e \in Entry /\ SlotsInOrder(b, e[2], e[3]) /\ b.n < LeafOrder
    BY <2>1 DEF EntryInOrder
  <2>3. leaf \in 1 .. MaxPage /\ e[2] \in Int /\ e[3] \in Int
    BY <2>2, NodeAssumption DEF Entry, Bound
  <2> QED BY <1>1, <2>1, <2>2, <2>3 DEF Image
<1>3. /\ c \in Page /\ c.n = b.n - 1 /\ c.leaf /\ c.parent = b.parent
      /\ SlotsInOrder(c, e[2], e[3]) /\ KeysOf(c) = KeysOf(b) \ {k}
  <2> HIDE DEF b
  <2>1. k \in KeysOf(b) /\ c = RemoveEntry(b, k)
    BY DEF b
  <2> QED BY <1>2, <2>1, LeafLosesKey
<1>4. c.n < LeafOrder
  BY <1>2, <1>3, PageFacts, NodeAssumption
<1>5. Running(v) /\ SameFile(s, v) /\ v.pages = image1
  <2> HIDE DEF leaf, image
  <2> QED BY <1>2, <1>3, WriteRuns DEF leaf, image
<1>6. /\ image1 \in Image /\ IsTree(image1, top, rows, h)
      /\ \A f \in rows[h] : image1[f[1]] = IF f = e THEN c ELSE image[f[1]]
  <2>1. IsTree(image, top, rows, h) /\ c.parent = image[e[1]].parent
        /\ image1 = Written(image, e[1], c) /\ (c.n > 0 \/ e[1] = top)
    BY <1>3
  <2> HIDE DEF image, top, image1
  <2> QED BY <1>1, <1>3, <1>4, <2>1, LeafRewritten
<1>7. RowKeys(image1, rows[h]) = Minus(k, RowKeys(image, rows[h]))
  <2> DEFINE old == {e}
  <2>1. Changed(rows[h], old, old) = rows[h]
    BY DEF Changed
  <2>2. RowKeys(image1, old) = KeysOf(c) /\ RowKeys(image, old) = KeysOf(b)
    BY <1>6 DEF RowKeys
  <2>3. \A f \in rows[h] : f \notin old => image1[f[1]] = image[f[1]] /\ k \notin KeysOf(image[f[1]])
    <3>1. IsTree(image, top, rows, h) /\ k \in KeysOf(image[e[1]])
      OBVIOUS
    <3> HIDE DEF image1, image, top
    <3> QED BY <1>1, <1>6, <3>1, KeyIsInOne
  <2>4. RowKeys(image1, old) = Minus(k, RowKeys(image, old)) /\ old \subseteq rows[h]
    BY <1>3, <2>2 DEF Minus
  <2> HIDE DEF old, image1, image
  <2>5. RowKeys(image1, Changed(rows[h], old, old)) = Minus(k, RowKeys(image, rows[h]))
    BY <2>3, <2>4, KeysChange
  <2> QED BY <2>1, <2>5
<1>8. Room(s.header, image1, rows, h, 2)
  <2>1. InTree(rows, h, leaf)
    BY <1>1 DEF InTree
  <2>2. Room(s.header, image, rows, h, 2) /\ image1 = Written(image, leaf, c)
    OBVIOUS
  <2> HIDE DEF image, image1, leaf
  <2> QED BY <1>1, <2>1, <2>2, RoomKept
<1>l. Linked(image1, rows[h])
  <2>1. c.off = b.off
    <3>1. \A a \in Page : a.leaf => RemoveEntry(a, k).off = a.off
      BY DEF RemoveEntry, Page
    <3> HIDE DEF b
    <3>2. c = RemoveEntry(b, k)
      BY DEF b
    <3> QED BY <1>2, <3>1, <3>2
  <2>2. \A f \in rows[h] : image1[f[1]].off[0] = image[f[1]].off[0]
    BY <1>6, <2>1
  <2>3. Linked(image, rows[h])
    OBVIOUS
  <2> HIDE DEF image1, image
  <2> QED BY <2>2, <2>3, LinksStay
<1> HIDE DEF image1, v
<1>9. /\ Running(t) /\ t.next = Nothing
      /\ t.pages = v.pages /\ t.header = v.header /\ t.root = v.root
  BY <1>5, NextRuns, NothingIsLater DEF Ended, v
<1>10. t.header = s.header /\ t.root = s.root
  BY <1>5, <1>9 DEF SameFile
<1>11. HasTree(t, Minus(k, RowKeys(image, rows[h])))
  BY <1>5, <1>6, <1>7, <1>8, <1>9, <1>10, <1>l DEF HasTree
<1> QED BY <1>9, <1>10, <1>11 DEF Arrived, Rooted

(* The separator of two leaves that became one waits to be deleted: when   *)
(* its page has another one, or is the root, the tree is then whole.       *)
Pending(s, keys, p, k, d) ==
    /\ s.next = Step(p, k) /\ s.pages[p].n # 0 /\ d \in Page /\ ~d.leaf
    /\ InteriorAbove(s.pages, d.parent)
    /\ d.n > 0 \/ p = s.root.at
           => \E rows, h : /\ IsTree(Written(s.pages, p, d), s.root.at, rows, h)
                           /\ RowKeys(Written(s.pages, p, d), rows[h]) = keys
                           /\ Linked(Written(s.pages, p, d), rows[h])
HalfMerged(s, keys) ==
    /\ Running(s) /\ Rooted(s) /\ s.header.free = 0 /\ MaxPage > 1
    /\ \E p \in 1 .. MaxPage, k \in KeyValue :
           \E d : d = RemoveEntry(s.pages[p], k) /\ Pending(s, keys, p, k, d)

(* One page is written and no other. *)
Puts(image1, image, p, c) ==
    image1 \in Image /\ \A x \in 1 .. MaxPage : image1[x] = IF x = p THEN c ELSE image[x]

LEMMA WrittenAt ==
    ASSUME NEW image \in Image, NEW p \in 1 .. MaxPage, NEW c \in Page, NEW image1, image1 = Written(image, p, c)
    PROVE  Puts(image1, image, p, c)
BY DEF Puts, Written, Image

(* Which pages of the tree these are, and what a deletion leaves of one.   *)
LEMMA NeighborPages ==
    ASSUME NEW image \in Image, NEW top \in 1 .. MaxPage, NEW rows, NEW h, IsTree(image, top, rows, h),
           NEW q, NEW i, NEW el, NEW er, AreNeighbors(image, rows, h, q, i, el, er),
           NEW left, left = el[1], NEW right, right = er[1], NEW up, up = q[1],
           NEW p, p = left \/ p = right, NEW k \in KeysOf(image[p]), NEW c, c = RemoveEntry(image[p], k)
    PROVE  /\ left \in 1 .. MaxPage /\ right \in 1 .. MaxPage /\ up \in 1 .. MaxPage
           /\ left # right /\ left # up /\ right # up
           /\ image[left].leaf /\ image[right].leaf /\ ~image[up].leaf
           /\ InTree(rows, h, left) /\ InTree(rows, h, right) /\ InTree(rows, h, up)
           /\ image[up].n # 0 /\ image[up].key[i] \in KeyValue
           /\ c \in Page /\ c.leaf
<1>1. /\ q \in Entry /\ image[up] \in Page /\ ~image[up].leaf /\ image[up].n \in Nat
      /\ image[up].n < InternalOrder
      /\ {el, er} \subseteq Under(image, q) /\ Under(image, q) \subseteq rows[h]
      /\ left # right /\ left # up /\ right # up
      /\ \A e \in Under(image, q) : /\ e \in Entry /\ image[e[1]] \in Page /\ image[e[1]].leaf
                                    /\ SlotsInOrder(image[e[1]], e[2], e[3])
                                    /\ e[2] \in Int /\ e[3] \in Int
  BY NeighborFacts
<1>2. h > 0 /\ h \in Nat /\ q \in rows[h - 1] /\ i \in 0 .. image[up].n - 1
  BY PageNumbers DEF IsTree, AreNeighbors
<1>3. /\ el \in rows[h] /\ er \in rows[h] /\ el \in Entry /\ er \in Entry
      /\ image[left].leaf /\ image[right].leaf
  BY <1>1
<1>4. left \in 1 .. MaxPage /\ right \in 1 .. MaxPage /\ up \in 1 .. MaxPage
  BY <1>1, <1>3 DEF Entry
<1>5. h \in 0 .. h /\ h - 1 \in 0 .. h
  BY <1>2
<1>6. InTree(rows, h, left) /\ InTree(rows, h, right) /\ InTree(rows, h, up)
  BY <1>2, <1>3, <1>5 DEF InTree
<1>7. image[up].n # 0 /\ image[up].key[i] \in KeyValue
  <2>1. image[up].n # 0
    BY <1>1, <1>2
  <2>2. \A j \in 0 .. image[up].n : image[up].key[j] \in KeyValue
    BY <1>1, PageFacts
  <2> QED BY <1>1, <1>2, <2>1, <2>2
<1>8. PICK e \in Under(image, q) : p = e[1]
  BY <1>1
<1>9. c \in Page /\ c.leaf
  <2>1. \A b, low, high : /\ b \in Page /\ b.leaf /\ low \in Int /\ high \in Int
                          /\ SlotsInOrder(b, low, high) /\ k \in KeysOf(b)
                          => RemoveEntry(b, k) \in Page /\ RemoveEntry(b, k).leaf
    BY LeafLosesKey
  <2>2. /\ image[p] \in Page /\ image[p].leaf /\ e[2] \in Int /\ e[3] \in Int
        /\ SlotsInOrder(image[p], e[2], e[3])
    BY <1>1, <1>8
  <2> QED BY <2>1, <2>2
<1> QED BY <1>1, <1>3, <1>4, <1>6, <1>7, <1>9

(* What merge_nodes has to start with, and what it computes. *)
LEMMA MergeFits ==
    ASSUME NEW image \in Image, NEW top \in 1 .. MaxPage, NEW rows, NEW h, IsTree(image, top, rows, h),
           NEW q, NEW i, NEW el, NEW er, AreNeighbors(image, rows, h, q, i, el, er),
           NEW p, p = el[1] \/ p = er[1], NEW k \in KeysOf(image[p]), image[p].n = 1,
           NEW c, c = RemoveEntry(image[p], k), NEW l, NEW r, TwoLeft(image, el, er, p, c, l, r),
           NEW m, m = ShiftLeaf(l, r), ~m.back
    PROVE  /\ LoseKey(image, q, el, er, k, l, r) /\ m.l \in Page /\ m.r \in Page
           /\ m.r.n = 0 => Joined(l, r, el[2], er[3], m)
           /\ m.r.n # 0 => Balanced(l, r, el[2], el[3], er[3], m)
<1>1. Merged(l, r, el[2], el[3], er[3], m)
  BY NeighborsFit
<1>2. LoseKey(image, q, el, er, k, l, r)
  BY NeighborsFit
<1>3. /\ m.r \in Page
      /\ m.r.n = 0 => Joined(l, r, el[2], er[3], m)
      /\ m.r.n # 0 => Balanced(l, r, el[2], el[3], er[3], m)
  BY <1>1 DEF Merged
<1>4. m.l \in Page
  BY <1>3 DEF Joined, Balanced
<1> QED BY <1>2, <1>3, <1>4

(* The file after the right one of two neighbors was freed, and after its  *)
(* separator is deleted, too.                                              *)
JoinShows(image, image1, image2, top, rows, h, up, d, k) ==
    /\ image1[up] = image[up]
    /\ \A x \in 1 .. MaxPage : ~image[x].leaf => image1[x] = image[x]
    /\ d.n > 0 \/ up = top
           => \E rows1 : Less(image, image2, top, rows, rows1, h, k)

LEMMA JoinedImage ==
    ASSUME NEW image \in Image, NEW top \in 1 .. MaxPage, NEW rows, NEW h, IsTree(image, top, rows, h),
           NEW q, NEW i, NEW el, NEW er, AreNeighbors(image, rows, h, q, i, el, er),
           NEW left, left = el[1], NEW right, right = er[1], NEW up, up = q[1],
           NEW p, p = left \/ p = right, NEW k \in KeysOf(image[p]), NEW c, c = RemoveEntry(image[p], k),
           NEW l, NEW r, LoseKey(image, q, el, er, k, l, r),
           NEW m, Joined(l, r, el[2], er[3], m), m.r \in Page, NEW z \in Page,
           NEW image1,
           image1 = Written(Written(Written(Written(image, p, c), left, m.l), right, m.r), right, z),
           NEW d, d = Lowered(image[up], i), NEW image2, image2 = Written(image1, up, d)
    PROVE  JoinShows(image, image1, image2, top, rows, h, up, d, k)
<1>1. /\ left \in 1 .. MaxPage /\ right \in 1 .. MaxPage /\ up \in 1 .. MaxPage
      /\ left # right /\ left # up /\ right # up
      /\ image[left].leaf /\ image[right].leaf /\ ~image[up].leaf
      /\ c \in Page
  BY NeighborPages
<1>2. m.l \in Page
  BY DEF Joined
<1>3. /\ image1 \in Image
      /\ \A x \in 1 .. MaxPage : image1[x] = IF x = right THEN z ELSE IF x = left THEN m.l ELSE image[x]
  <2> DEFINE a == Written(image, p, c)
             b == Written(a, left, m.l)
             e == Written(b, right, m.r)
  <2>1. Puts(a, image, p, c)
    BY <1>1, WrittenAt
  <2>2. image1 = Written(e, right, z)
    OBVIOUS
  <2> HIDE DEF a
  <2>3. a \in Image
    BY <2>1 DEF Puts
  <2>4. Puts(b, a, left, m.l)
    BY <1>1, <1>2, <2>3, WrittenAt
  <2> HIDE DEF b
  <2>5. b \in Image
    BY <2>4 DEF Puts
  <2>6. Puts(e, b, right, m.r)
    BY <1>1, <2>5, WrittenAt
  <2> HIDE DEF e
  <2>7. e \in Image
    BY <2>6 DEF Puts
  <2>8. Puts(image1, e, right, z)
    BY <1>1, <2>2, <2>7, WrittenAt
  <2> QED BY <2>1, <2>4, <2>6, <2>8 DEF Puts
<1>4. image1[up] = image[up] /\ \A x \in 1 .. MaxPage : ~image[x].leaf => image1[x] = image[x]
  BY <1>1, <1>3
<1>5. ASSUME d.n > 0 \/ up = top PROVE \E rows1 : Less(image, image2, top, rows, rows1, h, k)
  <2>1. d \in Page
    BY ParentLowers
  <2>2. Puts(image2, image1, up, d)
    BY <1>1, <1>3, <2>1, WrittenAt
  <2>3. image2[q[1]] = d /\ image2[el[1]] = m.l
    BY <1>1, <1>3, <2>2 DEF Puts
  <2>4. OthersStay(image, image2, q, el, er)
    BY <1>3, <2>2 DEF Puts, OthersStay
  <2> DEFINE rows1 == RowsOf(rows, h, el, er, {<<el[1], el[2], er[3]>>})
  <2>5. Less(image, image2, top, rows, rows1, h, k)
    BY <1>5, <2>2, <2>3, <2>4, TreeJoins DEF Puts
  <2> QED BY <2>5
<1> QED BY <1>4, <1>5 DEF JoinShows

(* The file after records moved from one to the other. *)
LEMMA BalancedImage ==
    ASSUME NEW image \in Image, NEW top \in 1 .. MaxPage, NEW rows, NEW h, IsTree(image, top, rows, h),
           NEW q, NEW i, NEW el, NEW er, AreNeighbors(image, rows, h, q, i, el, er),
           NEW left, left = el[1], NEW right, right = er[1], NEW up, up = q[1],
           NEW p, p = left \/ p = right, NEW k \in KeysOf(image[p]), NEW c, c = RemoveEntry(image[p], k),
           NEW l, NEW r, LoseKey(image, q, el, er, k, l, r),
           NEW m, Balanced(l, r, el[2], el[3], er[3], m), m.r \in Page,
           NEW x, x = m.r.key[0], NEW d, d = Replaced(image[up], SlotOf(image[up], x) - 1, x),
           NEW image1,
           image1 = Written(Written(Written(Written(image, p, c), left, m.l), right, m.r), up, d)
    PROVE  /\ d \in Page
           /\ \E rows1 : Less(image, image1, top, rows, rows1, h, k)
           /\ \A y \in 1 .. MaxPage : ~InTree(rows, h, y) => image1[y] = image[y]
<1>1. /\ left \in 1 .. MaxPage /\ right \in 1 .. MaxPage /\ up \in 1 .. MaxPage
      /\ left # right /\ left # up /\ right # up
      /\ InTree(rows, h, left) /\ InTree(rows, h, right) /\ InTree(rows, h, up)
      /\ c \in Page
  BY NeighborPages
<1>2. m.l \in Page /\ el[3] < x /\ x < er[3] /\ x \in KeyValue
  BY DEF Balanced
<1> DEFINE d1 == Replaced(image[q[1]], i, x)
<1>3. d1 \in Page /\ SlotOf(image[q[1]], x) = i + 1
  <2> HIDE DEF d1
  <2>1. d1 = Replaced(image[q[1]], i, x)
    BY DEF d1
  <2>2. Fits(image[q[1]], i, x, d1)
    BY <1>2, <2>1, ParentBalances
  <2> QED BY <2>2 DEF Fits
<1>4. d = d1 /\ d \in Page
  <2>1. i \in Int
    <3>1. i \in 0 .. image[q[1]].n - 1
      BY DEF AreNeighbors
    <3> QED BY <3>1
  <2>2. (i + 1) - 1 = i
    BY <2>1
  <2> QED BY <1>3, <2>2
<1> HIDE DEF d1
<1>5. /\ image1 \in Image
      /\ \A y \in 1 .. MaxPage : image1[y] = IF y = up THEN d ELSE IF y = right THEN m.r
                                             ELSE IF y = left THEN m.l ELSE image[y]
  <2> DEFINE a == Written(image, p, c)
             b == Written(a, left, m.l)
             e == Written(b, right, m.r)
  <2>1. Puts(a, image, p, c)
    BY <1>1, WrittenAt
  <2>2. image1 = Written(e, up, d)
    OBVIOUS
  <2> HIDE DEF a
  <2>3. a \in Image
    BY <2>1 DEF Puts
  <2>4. Puts(b, a, left, m.l)
    BY <1>1, <1>2, <2>3, WrittenAt
  <2> HIDE DEF b
  <2>5. b \in Image
    BY <2>4 DEF Puts
  <2>6. Puts(e, b, right, m.r)
    BY <1>1, <2>5, WrittenAt
  <2> HIDE DEF e
  <2>7. e \in Image
    BY <2>6 DEF Puts
  <2>8. Puts(image1, e, up, d)
    BY <1>1, <1>4, <2>2, <2>7, WrittenAt
  <2> QED BY <2>1, <2>4, <2>6, <2>8 DEF Puts
<1>6. \E rows1 : Less(image, image1, top, rows, rows1, h, k)
  <2>1. d = Replaced(image[q[1]], i, x)
    BY <1>4 DEF d1
  <2>2. image1[q[1]] = d /\ image1[el[1]] = m.l /\ image1[er[1]] = m.r
    BY <1>1, <1>5
  <2>3. OthersStay(image, image1, q, el, er)
    BY <1>5 DEF OthersStay
  <2> DEFINE rows1 == RowsOf(rows, h, el, er, {<<el[1], el[2], x>>, <<er[1], x, er[3]>>})
  <2>4. Less(image, image1, top, rows, rows1, h, k)
    BY <1>2, <1>5, <2>1, <2>2, <2>3, TreeBalances
  <2> QED BY <2>4
<1>7. \A y \in 1 .. MaxPage : ~InTree(rows, h, y) => image1[y] = image[y]
  BY <1>1, <1>5
<1> QED BY <1>4, <1>6, <1>7

(* merge_nodes for a leaf that lost its last key: the tree is whole again, *)
(* or whole once the separator is deleted, or something in Harm happened.  *)
LEMMA MergeArrives ==
    ASSUME NEW s, Running(s), Rooted(s),
           NEW rows, NEW h, IsTree(s.pages, s.root.at, rows, h), Room(s.header, s.pages, rows, h, 2),
           Linked(s.pages, rows[h]),
           NEW q, NEW i, NEW el, NEW er, AreNeighbors(s.pages, rows, h, q, i, el, er),
           NEW left, left = el[1], NEW right, right = er[1], NEW up, up = q[1],
           NEW p, p = left \/ p = right, NEW k \in KeysOf(s.pages[p]), s.pages[p].n = 1,
           NEW c, c = RemoveEntry(s.pages[p], k),
           NEW t, t = MergeNodes(Ended(WritePage(s, p, c)), left, right, up, s.pages[up].key[i]),
           NEW keys, keys = Minus(k, RowKeys(s.pages, rows[h]))
    PROVE  Hurting(t) \/ Arrived(t, keys) \/ HalfMerged(t, keys)
<1> DEFINE image == s.pages
           top == s.root.at
           kp == image[up].key[i]
           v == WritePage(s, p, c)
           s1 == Ended(v)
           image0 == Written(image, p, c)
           l == image0[left]
           r == image0[right]
           m == ShiftLeaf(l, r)
           x == m.r.key[0]
           d == Replaced(image0[up], SlotOf(image0[up], x) - 1, x)
<1>1. image \in Image /\ s.header.free \in PageNo /\ top \in 1 .. MaxPage /\ h \in Nat /\ h > 0 /\ MaxPage > 1
  <2>1. h \in Nat /\ h \in 0 .. MaxPage - 1 /\ MaxPage \in Nat
    BY PageNumbers DEF IsTree
  <2>2. h > 0
    BY DEF AreNeighbors
  <2> QED BY <2>1, <2>2 DEF Running, Unharmed, Command, HeadType, Rooted
<1>2. /\ left \in 1 .. MaxPage /\ right \in 1 .. MaxPage /\ up \in 1 .. MaxPage
      /\ left # right /\ left # up /\ right # up
      /\ image[left].leaf /\ image[right].leaf /\ ~image[up].leaf
      /\ image[up].n # 0 /\ kp \in KeyValue
      /\ c \in Page /\ c.leaf
  <2>1. IsTree(image, top, rows, h) /\ AreNeighbors(image, rows, h, q, i, el, er)
        /\ k \in KeysOf(image[p]) /\ c = RemoveEntry(image[p], k)
    OBVIOUS
  <2> HIDE DEF image, top
  <2> QED BY <1>1, <2>1, NeighborPages
<1>3. Running(v) /\ SameFile(s, v) /\ v.pages = image0
  BY <1>2, WriteRuns
<1> HIDE DEF v
<1>4. /\ Running(s1) /\ s1.pages = image0 /\ s1.header = s.header /\ s1.root = s.root
  BY <1>3, NextRuns, NothingIsLater DEF Ended, SameFile
<1> HIDE DEF s1
<1>5. Puts(image0, image, p, c)
  BY <1>1, <1>2, WrittenAt
<1> HIDE DEF image0
<1>6. /\ l = IF p = left THEN c ELSE image[left]
      /\ r = IF p = right THEN c ELSE image[right]
      /\ image0[up] = image[up]
  BY <1>2, <1>5 DEF Puts
<1>7. l.leaf /\ TwoLeft(image, el, er, p, c, l, r)
  BY <1>2, <1>6 DEF TwoLeft
<1> HIDE DEF l, r, m
<1>8. m = ShiftLeaf(l, r)
  BY DEF m
<1>9. ASSUME ~m.back
      PROVE  /\ LoseKey(image, q, el, er, k, l, r) /\ m.l \in Page /\ m.r \in Page
             /\ m.r.n = 0 => Joined(l, r, el[2], er[3], m)
             /\ m.r.n # 0 => Balanced(l, r, el[2], el[3], er[3], m)
  BY <1>1, <1>7, <1>8, <1>9, MergeFits
<1> DEFINE image1 == Written(Written(Written(image0, left, m.l), right, m.r), up, d)
<1>10. ASSUME ~m.back, m.r.n # 0
       PROVE  /\ d \in Page
              /\ \E rows1 : Less(image, image1, top, rows, rows1, h, k)
              /\ \A y \in 1 .. MaxPage : ~InTree(rows, h, y) => image1[y] = image[y]
  <2>1. /\ d = Replaced(image[up], SlotOf(image[up], x) - 1, x) /\ x = m.r.key[0]
        /\ image1 = Written(Written(Written(Written(image, p, c), left, m.l), right, m.r), up, d)
    BY <1>6 DEF image0
  <2>2. LoseKey(image, q, el, er, k, l, r) /\ Balanced(l, r, el[2], el[3], er[3], m) /\ m.r \in Page
    BY <1>9, <1>10
  <2>3. IsTree(image, top, rows, h) /\ AreNeighbors(image, rows, h, q, i, el, er)
        /\ k \in KeysOf(image[p]) /\ c = RemoveEntry(image[p], k)
    OBVIOUS
  <2> HIDE DEF d, x, image1, image, top
  <2> QED BY <1>1, <2>1, <2>2, <2>3, BalancedImage
<1>11. MergedTo(s1, t, left, right, up, kp, m, d)
  <2>1. t = MergeNodes(s1, left, right, up, kp)
    BY DEF s1, v
  <2>2. l = s1.pages[left] /\ r = s1.pages[right] /\ d = Replaced(s1.pages[up], SlotOf(s1.pages[up], x) - 1, x)
    BY <1>4 DEF l, r
  <2>3. ~m.back => m.l \in Page /\ m.r \in Page
    BY <1>9
  <2>4. ~m.back /\ m.r.n # 0 => d \in Page
    BY <1>10
  <2>5. x = m.r.key[0]
    OBVIOUS
  <2> HIDE DEF d, x, image1, image, top, kp
  <2>6. /\ left \in 1 .. MaxPage /\ right \in 1 .. MaxPage /\ up \in 1 .. MaxPage
        /\ up # left /\ up # right /\ kp \in KeyValue /\ l.leaf
    BY <1>2, <1>7
  <2> HIDE DEF s1
  <2> QED BY <1>4, <1>8, <2>1, <2>2, <2>3, <2>4, <2>5, <2>6, LeavesAreMerged
<1>12. CASE /\ ~m.back /\ m.r.n # 0 /\ Running(t) /\ t.next = Nothing
            /\ t.header = s.header /\ t.root = s.root /\ t.pages = image1
  <2>1. PICK rows1 : Less(image, image1, top, rows, rows1, h, k)
    BY <1>10, <1>12
  <2>2. /\ IsTree(image1, top, rows1, h) /\ RowKeys(image1, rows1[h]) = keys
        /\ \A y : InTree(rows1, h, y) => InTree(rows, h, y)
        /\ Linked(image1, rows1[h])
    BY <2>1 DEF Less, Fewer, KeepsLinks
  <2>3. Room(s.header, image1, rows1, h, 2)
    <3>1. \A y \in 1 .. MaxPage : ~InTree(rows, h, y) => image1[y] = image[y]
      BY <1>10, <1>12
    <3> HIDE DEF image1
    <3> QED BY <1>1, <2>2, <3>1, RoomLess
  <2> HIDE DEF image1
  <2>4. HasTree(t, keys) /\ Rooted(t)
    BY <1>12, <2>2, <2>3 DEF HasTree, Rooted
  <2> QED BY <1>12, <2>4 DEF Arrived
<1>13. CASE /\ ~m.back /\ m.r.n = 0 /\ Running(t) /\ t.next = Step(up, kp)
            /\ t.header.free = 0 /\ t.header.root = s.header.root /\ t.root = s.root
            /\ \E z \in Page : t.pages = Written(Written(Written(image0, left, m.l), right, m.r), right, z)
  <2>1. PICK z \in Page : t.pages = Written(Written(Written(image0, left, m.l), right, m.r), right, z)
    BY <1>13
  <2> DEFINE e == Lowered(image[up], i)
             image2 == Written(t.pages, up, e)
  <2>2. JoinShows(image, t.pages, image2, top, rows, h, up, e, k)
    <3> SUFFICES ASSUME NEW now, now = t.pages
                 PROVE  JoinShows(image, now, image2, top, rows, h, up, e, k)
      OBVIOUS
    <3>1. now = Written(Written(Written(Written(image, p, c), left, m.l), right, m.r), right, z)
      BY <2>1 DEF image0
    <3>2. LoseKey(image, q, el, er, k, l, r) /\ Joined(l, r, el[2], er[3], m) /\ m.r \in Page
      BY <1>9, <1>13
    <3>3. IsTree(image, top, rows, h) /\ AreNeighbors(image, rows, h, q, i, el, er)
          /\ k \in KeysOf(image[p]) /\ c = RemoveEntry(image[p], k)
          /\ e = Lowered(image[up], i) /\ image2 = Written(now, up, e)
      OBVIOUS
    <3>4. image \in Image /\ top \in 1 .. MaxPage /\ z \in Page
      BY <1>1, <2>1
    <3> HIDE DEF e, image2, image, top, image1, d, x, kp
    <3>5. ASSUME NEW b, b = Written(Written(Written(Written(image, p, c), left, m.l), right, m.r), right, z),
                 NEW f, f = Lowered(image[up], i), NEW g, g = Written(b, up, f)
          PROVE  JoinShows(image, b, g, top, rows, h, up, f, k)
      BY <3>2, <3>3, <3>4, <3>5, JoinedImage
    <3> QED BY <3>1, <3>3, <3>5
  <2>3. e = RemoveEntry(t.pages[up], kp) /\ t.pages[up].n # 0
    BY <1>2, <2>2 DEF JoinShows, Lowered
  <2>4. e \in Page /\ ~e.leaf /\ e.parent = image[up].parent
    <3> HIDE DEF e
    <3>1. e = Lowered(s.pages[q[1]], i)
      BY DEF e
    <3> QED BY <1>1, <3>1, ParentLowers
  <2>5. InteriorAbove(t.pages, e.parent)
    <3>1. q \in rows[h - 1] /\ IsTree(image, top, rows, h)
      BY DEF AreNeighbors
    <3>2. \A y \in 1 .. MaxPage : ~image[y].leaf => t.pages[y] = image[y]
      BY <2>2 DEF JoinShows
    <3>3. InteriorAbove(t.pages, image[q[1]].parent)
      <4> HIDE DEF image, top
      <4> QED BY <1>1, <3>1, <3>2, InteriorStays
    <3> QED BY <2>4, <3>3
  <2>6. e.n > 0 \/ up = t.root.at
            => \E rows1, h1 : /\ IsTree(Written(t.pages, up, e), t.root.at, rows1, h1)
                              /\ RowKeys(Written(t.pages, up, e), rows1[h1]) = keys
                              /\ Linked(Written(t.pages, up, e), rows1[h1])
    <3> SUFFICES ASSUME e.n > 0 \/ up = top
                 PROVE  \E rows1, h1 : /\ IsTree(image2, top, rows1, h1)
                                       /\ RowKeys(image2, rows1[h1]) = keys
                                       /\ Linked(image2, rows1[h1])
      BY <1>13
    <3>1. PICK rows1 : Less(image, image2, top, rows, rows1, h, k)
      BY <2>2 DEF JoinShows
    <3>2. /\ IsTree(image2, top, rows1, h) /\ RowKeys(image2, rows1[h]) = keys
          /\ Linked(image2, rows1[h])
      BY <3>1 DEF Less, Fewer, KeepsLinks
    <3> QED BY <3>2
  <2>7. Rooted(t)
    BY <1>13 DEF Rooted
  <2> HIDE DEF e, image2, image
  <2>8. Pending(t, keys, up, kp, e)
    BY <1>13, <2>3, <2>4, <2>5, <2>6, Zenon DEF Pending
  <2> QED BY <1>1, <1>2, <1>13, <2>3, <2>7, <2>8 DEF HalfMerged
<1> QED BY <1>4, <1>11, <1>12, <1>13, Zenon DEF MergedTo

(* One level of delete_entry (bpt.c:1017), u being what the page written   *)
(* leads to.                                                               *)
LEMMA DeleteIs ==
    ASSUME NEW s, NEW p, p # 0, NEW k, s.next = Step(p, k), s.pages[p].n # 0,
           NEW c, c = RemoveEntry(s.pages[p], k), NEW u, u = Ended(WritePage(s, p, c)),
           NEW parent, parent = c.parent, NEW pc, pc = Read(s, parent), NEW ni, ni = NeighborIndex(pc, p),
           NEW kp, kp = pc.key[IF ni = -1 THEN 0 ELSE ni],
           NEW x, x = pc.off[IF ni = -1 THEN 1 ELSE ni],
           NEW t, t = DeleteEntry(s)
    PROVE  t = IF p = s.root.at THEN AdjustRoot(u)
               ELSE IF c.n > 0 THEN u
               ELSE IF parent = 0 THEN Stop(u, "corrupt")
               ELSE IF ni = -2 THEN Stop(u, "hung")
               ELSE IF x = 0 THEN Stop(u, "corrupt")
               ELSE IF ni = -1 THEN MergeNodes(u, p, x, parent, kp)
               ELSE MergeNodes(u, x, p, parent, kp)
<1>1. s.next.child = p /\ s.next.key = k /\ Read(s, p) = s.pages[p]
  BY DEF Step, Read
<1> QED BY <1>1 DEF DeleteEntry, Ended

(* The first level: the leaf of the key. *)
LEMMA LeafLoses ==
    ASSUME NEW s, Running(s), Rooted(s),
           NEW rows, NEW h, IsTree(s.pages, s.root.at, rows, h), Room(s.header, s.pages, rows, h, 2),
           Linked(s.pages, rows[h]),
           NEW e \in rows[h], NEW k \in KeysOf(s.pages[e[1]]), s.next = Step(e[1], k),
           NEW t, t = DeleteEntry(s), NEW keys, keys = Minus(k, RowKeys(s.pages, rows[h]))
    PROVE  Hurting(t) \/ Arrived(t, keys) \/ HalfMerged(t, keys)
<1> DEFINE image == s.pages
           top == s.root.at
           p == e[1]
           b == image[p]
           c == RemoveEntry(b, k)
           v == WritePage(s, p, c)
           u == Ended(v)
           pc == Read(s, c.parent)
           ni == NeighborIndex(pc, p)
           kp == pc.key[IF ni = -1 THEN 0 ELSE ni]
           x == pc.off[IF ni = -1 THEN 1 ELSE ni]
<1>1. image \in Image /\ top \in 1 .. MaxPage /\ h \in Nat /\ h \in 0 .. h
  <2>1. h \in Nat
    BY PageNumbers DEF IsTree
  <2> QED BY <2>1 DEF Running, Unharmed, Command, Rooted
<1>2. /\ p \in 1 .. MaxPage /\ p # 0 /\ e[2] \in Int /\ e[3] \in Int /\ b \in Page /\ b.leaf
      /\ SlotsInOrder(b, e[2], e[3]) /\ (b.n > 0 \/ p = top)
  <2>1. EntryInOrder(image, top, e) /\ image[e[1]].leaf
    BY <1>1 DEF IsTree
  <2>2. e \in Entry /\ SlotsInOrder(b, e[2], e[3]) /\ (b.n > 0 \/ p = top)
    BY <2>1 DEF EntryInOrder
  <2>3. p \in 1 .. MaxPage /\ e[2] \in Int /\ e[3] \in Int
    BY <2>2, NodeAssumption DEF Entry, Bound
  <2> QED BY <1>1, <2>1, <2>2, <2>3, PageNumbers DEF Image
<1>3. c \in Page /\ c.n = b.n - 1 /\ c.leaf /\ c.parent = b.parent
  <2> HIDE DEF b
  <2>1. k \in KeysOf(b) /\ c = RemoveEntry(b, k)
    BY DEF b
  <2> QED BY <1>2, <2>1, LeafLosesKey
<1>4. b.n # 0 /\ b.n \in Nat
  <2>1. k \in KeysOf(b)
    OBVIOUS
  <2> HIDE DEF b
  <2>2. b.n \in Nat
    BY <1>2, PageFacts
  <2>3. b.n # 0
    BY <2>1, <2>2 DEF KeysOf, Values
  <2> QED BY <2>2, <2>3
<1>5. /\ Running(u) /\ Rooted(u) /\ u.root = s.root
  <2>1. Running(v) /\ SameFile(s, v)
    BY <1>2, <1>3, WriteRuns
  <2> HIDE DEF v
  <2>2. Running(u) /\ u.header = v.header /\ u.root = v.root
    BY <2>1, NextRuns, NothingIsLater DEF Ended
  <2> QED BY <2>1, <2>2 DEF SameFile, Rooted
<1>6. t = IF p = top THEN AdjustRoot(u)
          ELSE IF c.n > 0 THEN u
          ELSE IF c.parent = 0 THEN Stop(u, "corrupt")
          ELSE IF ni = -2 THEN Stop(u, "hung")
          ELSE IF x = 0 THEN Stop(u, "corrupt")
          ELSE IF ni = -1 THEN MergeNodes(u, p, x, c.parent, kp)
          ELSE MergeNodes(u, x, p, c.parent, kp)
  <2>1. s.next = Step(p, k) /\ p # 0 /\ s.pages[p].n # 0
        /\ c = RemoveEntry(s.pages[p], k) /\ u = Ended(WritePage(s, p, c))
        /\ pc = Read(s, c.parent) /\ ni = NeighborIndex(pc, p)
        /\ kp = pc.key[IF ni = -1 THEN 0 ELSE ni] /\ x = pc.off[IF ni = -1 THEN 1 ELSE ni]
    BY <1>2, <1>4
  <2> HIDE DEF p, c, v, u, pc, ni, kp, x, b, image
  <2> QED BY <2>1, DeleteIs
<1>7. c.n > 0 \/ p = top => Arrived(u, keys)
  <2> SUFFICES ASSUME c.n > 0 \/ p = top PROVE Arrived(u, keys)
    OBVIOUS
  <2>1. c = RemoveEntry(s.pages[e[1]], k) /\ (c.n > 0 \/ e[1] = s.root.at) /\ u = Ended(WritePage(s, e[1], c))
    OBVIOUS
  <2> HIDE DEF c, u, v
  <2> QED BY <2>1, LeafStays
<1>8. CASE p = top
  <2>1. t = AdjustRoot(u)
    BY <1>6, <1>8
  <2>2. ~(u.root.n > 0) => Hurting(t)
    <3> HIDE DEF u
    <3> QED BY <1>5, <2>1, StaleRootHurts
  <2>3. u.root.n > 0 => t = u
    BY <2>1 DEF AdjustRoot
  <2> QED BY <1>7, <1>8, <2>2, <2>3
<1>9. CASE p # top /\ c.n > 0
  BY <1>6, <1>7, <1>9
<1>10. CASE p # top /\ ~(c.n > 0)
  <2> HIDE DEF u, v, c
  <2>1. b.n = 1
    BY <1>3, <1>4, <1>10
  <2>2. h \in 1 .. h
    <3>1. h = 0 => e = <<top, 0, KeyMod>>
      BY <1>1 DEF IsTree
    <3> QED BY <1>1, <1>10, <3>1
  <2>3. PICK q \in rows[h - 1] :
           /\ e \in Under(image, q) /\ image[e[1]].parent = q[1]
           /\ q \in Entry /\ e \in Entry /\ q[1] # 0
           /\ image[q[1]] \in Page /\ ~image[q[1]].leaf /\ image[q[1]].n < InternalOrder
           /\ SlotsInOrder(image[q[1]], q[2], q[3])
    BY <1>1, <2>2, FromAbove
  <2>4. c.parent = q[1] /\ pc = image[q[1]] /\ c.parent # 0
    BY <1>3, <2>3 DEF Read
  <2>5. pc \in Page /\ ~pc.leaf /\ pc.n \in Nat /\ pc.n < InternalOrder /\ pc.n \in 0 .. InternalOrder
    <3>1. pc \in Page /\ ~pc.leaf /\ pc.n < InternalOrder
      BY <2>3, <2>4
    <3> HIDE DEF pc
    <3>2. pc.n \in Nat
      BY <3>1, PageFacts
    <3> QED BY <3>1, <3>2, NodeAssumption
  <2>6. \A i \in OffSlot : i > pc.n => pc.off[i] = 0
    BY <2>3, <2>4 DEF SlotsInOrder
  <2>7. ni = -2 \/ \E j \in 0 .. pc.n : pc.off[j] = p /\ ni = j - 1
    <3> HIDE DEF pc
    <3> QED BY <2>5, NeighborIsNext
  <2>8. \A how : Hurting(Stop(u, how))
    BY <1>5, StopsHurt
  <2>9. CASE ni = -2 \/ x = 0
    BY <1>6, <1>10, <2>4, <2>8, <2>9
  <2>10. CASE ~(ni = -2 \/ x = 0)
    <3>1. PICK j \in 0 .. pc.n : pc.off[j] = p /\ ni = j - 1
      BY <2>7, <2>10
    <3> HIDE DEF ni
    <3> DEFINE i == IF ni = -1 THEN 0 ELSE ni
               left == IF ni = -1 THEN p ELSE x
               right == IF ni = -1 THEN x ELSE p
               el == Branch(pc.key, pc.off, pc.n, q[2], q[3], i)
               er == Branch(pc.key, pc.off, pc.n, q[2], q[3], i + 1)
    <3>2. i \in 0 .. pc.n - 1 /\ i \in Nat
      <4>1. ni = -1 => pc.n # 0
        <5>1. 1 \in OffSlot
          BY NodeAssumption DEF OffSlot
        <5> QED BY <2>6, <2>10, <5>1
      <4> HIDE DEF pc
      <4> QED BY <2>5, <3>1, <4>1
    <3>3. left = pc.off[i] /\ right = pc.off[i + 1]
      <4> HIDE DEF pc
      <4> QED BY <2>5, <3>1
    <3>4. kp = pc.key[i] /\ t = MergeNodes(u, left, right, c.parent, kp)
      BY <1>6, <1>10, <2>4, <2>10
    <3> HIDE DEF i, left, right
    <3>5. el[1] = left /\ er[1] = right
      BY <3>2, <3>3 DEF Branch
    <3>6. AreNeighbors(image, rows, h, q, i, el, er)
      BY <2>2, <2>3, <2>4, <3>2 DEF AreNeighbors
    <3>7. p = left \/ p = right
      BY DEF left, right
    <3> HIDE DEF el, er
    <3>8. /\ s.pages[p].n = 1 /\ c = RemoveEntry(s.pages[p], k)
          /\ t = MergeNodes(Ended(WritePage(s, p, c)), left, right, q[1], s.pages[q[1]].key[i])
          /\ k \in KeysOf(s.pages[p])
      BY <2>1, <2>4, <3>4 DEF u, v, c
    <3>9. AreNeighbors(s.pages, rows, h, q, i, el, er)
      BY <3>6
    <3> HIDE DEF image, p
    <3> QED BY <3>5, <3>7, <3>8, <3>9, MergeArrives
  <2> QED BY <2>9, <2>10
<1> QED BY <1>8, <1>9, <1>10

(* Two pages are merged that are not leaves: the subtree is lost. *)
LEMMA InteriorsHurt ==
    ASSUME NEW s, Running(s), NEW left, NEW right, NEW p, NEW kp, NEW l, l = Read(s, left), ~l.leaf,
           NEW t, t = MergeNodes(s, left, right, p, kp)
    PROVE  Hurting(t)
<1> DEFINE r == Read(s, right)
           m == ShiftNode(l, r, kp)
           u == IF ~m.fits THEN Stop(s, "corrupt") ELSE AdoptChildren(Hurt(s, "lostSubtree"), left, m.l)
<1>1. Hurting(u)
  <2> HIDE DEF m
  <2>1. Hurting(Stop(s, "corrupt")) /\ Hurting(Hurt(s, "lostSubtree"))
    BY StopsHurt
  <2> QED BY <2>1, AdoptHurts
<1>2. t = MergeWrites(u, left, right, p, kp, m)
  BY MergeIs
<1> HIDE DEF u, m
<1> QED BY <1>1, <1>2, WritesHurt

(* The second level, and the last one: the separator goes, and the tree is *)
(* whole again, or its page would have to be merged, too.                  *)
LEMMA SeparatorLoses ==
    ASSUME NEW s, NEW keys, HalfMerged(s, keys), NEW t, t = DeleteEntry(s)
    PROVE  Hurting(t) \/ Arrived(t, keys)
<1>1. Running(s) /\ Rooted(s) /\ s.header.free = 0 /\ s.pages \in Image
  BY DEF HalfMerged, Running, Unharmed, Command
<1>0. PICK p \in 1 .. MaxPage, k \in KeyValue :
             \E d : d = RemoveEntry(s.pages[p], k) /\ Pending(s, keys, p, k, d)
  BY DEF HalfMerged
<1>2. PICK d : d = RemoveEntry(s.pages[p], k) /\ Pending(s, keys, p, k, d)
  BY <1>0
<1>3. /\ s.next = Step(p, k) /\ s.pages[p].n # 0 /\ d \in Page /\ ~d.leaf
      /\ InteriorAbove(s.pages, d.parent)
      /\ d.n > 0 \/ p = s.root.at
             => \E rows, h : /\ IsTree(Written(s.pages, p, d), s.root.at, rows, h)
                             /\ RowKeys(Written(s.pages, p, d), rows[h]) = keys
                             /\ Linked(Written(s.pages, p, d), rows[h])
  BY <1>2 DEF Pending
<1> DEFINE v == WritePage(s, p, d)
           u == Ended(v)
           parent == d.parent
           pc == Read(s, parent)
           ni == NeighborIndex(pc, p)
           kp == pc.key[IF ni = -1 THEN 0 ELSE ni]
           x == pc.off[IF ni = -1 THEN 1 ELSE ni]
<1>4. p # 0
  BY PageNumbers
<1>5. t = IF p = s.root.at THEN AdjustRoot(u)
          ELSE IF d.n > 0 THEN u
          ELSE IF parent = 0 THEN Stop(u, "corrupt")
          ELSE IF ni = -2 THEN Stop(u, "hung")
          ELSE IF x = 0 THEN Stop(u, "corrupt")
          ELSE IF ni = -1 THEN MergeNodes(u, p, x, parent, kp)
          ELSE MergeNodes(u, x, p, parent, kp)
  <2>1. u = Ended(WritePage(s, p, d)) /\ parent = d.parent
        /\ pc = Read(s, parent) /\ ni = NeighborIndex(pc, p)
        /\ kp = pc.key[IF ni = -1 THEN 0 ELSE ni] /\ x = pc.off[IF ni = -1 THEN 1 ELSE ni]
    OBVIOUS
  <2> HIDE DEF v, u, parent, pc, ni, kp, x
  <2> QED BY <1>2, <1>3, <1>4, <2>1, DeleteIs
<1>6. /\ Running(u) /\ Rooted(u) /\ u.next = Nothing /\ u.root = s.root /\ u.header = s.header
      /\ u.pages = Written(s.pages, p, d)
  <2>1. Running(v) /\ SameFile(s, v) /\ v.pages = Written(s.pages, p, d)
    BY <1>1, <1>3, WriteRuns
  <2> HIDE DEF v
  <2>2. /\ Running(u) /\ u.next = Nothing /\ u.header = v.header /\ u.root = v.root /\ u.pages = v.pages
    BY <2>1, NextRuns, NothingIsLater DEF Ended
  <2> QED BY <1>1, <2>1, <2>2 DEF SameFile, Rooted
<1> HIDE DEF u, v
<1>7. d.n > 0 \/ p = s.root.at => Arrived(u, keys)
  <2>1. \A rows, h : Room(u.header, u.pages, rows, h, 2)
    BY <1>1, <1>6 DEF Room, ClearAhead
  <2> QED BY <1>3, <1>6, <2>1 DEF Arrived, HasTree
<1>8. CASE p = s.root.at
  <2>1. t = AdjustRoot(u)
    BY <1>5, <1>8
  <2>2. ~(u.root.n > 0) => Hurting(t)
    BY <1>6, <2>1, StaleRootHurts
  <2>3. u.root.n > 0 => t = u
    BY <2>1 DEF AdjustRoot
  <2> QED BY <1>7, <1>8, <2>2, <2>3
<1>9. CASE p # s.root.at /\ d.n > 0
  BY <1>5, <1>7, <1>9
<1>10. \A how : Hurting(Stop(u, how))
  BY <1>6, StopsHurt
<1>11. CASE p # s.root.at /\ ~(d.n > 0) /\ (parent = 0 \/ ni = -2 \/ x = 0)
  BY <1>5, <1>10, <1>11
<1>12. CASE p # s.root.at /\ ~(d.n > 0) /\ ~(parent = 0 \/ ni = -2 \/ x = 0)
  <2>1. /\ parent \in 1 .. MaxPage /\ pc = s.pages[parent] /\ pc.n \in 0 .. InternalOrder
        /\ \A j \in OffSlot : pc.off[j] = 0 \/ (pc.off[j] \in 1 .. MaxPage /\ ~s.pages[pc.off[j]].leaf)
    BY <1>3, <1>12, Zenon DEF InteriorAbove, Read
  <2> HIDE DEF parent, pc
  <2>2. \E j \in 0 .. pc.n : pc.off[j] = p /\ ni = j - 1
    BY <1>12, <2>1, NeighborIsNext
  <2> HIDE DEF ni
  <2>3. (IF ni = -1 THEN 1 ELSE ni) \in OffSlot
    BY <2>1, <2>2, NodeAssumption DEF OffSlot
  <2>4. x \in 1 .. MaxPage /\ x # 0 /\ ~s.pages[x].leaf
    BY <1>12, <2>1, <2>3
  <2> HIDE DEF x
  <2>5. ~u.pages[p].leaf /\ ~u.pages[x].leaf
    BY <1>1, <1>3, <1>6, <2>4 DEF Written, Image
  <2>6. ~Read(u, p).leaf /\ ~Read(u, x).leaf
    BY <1>4, <2>4, <2>5 DEF Read
  <2>7. t = MergeNodes(u, p, x, parent, kp) \/ t = MergeNodes(u, x, p, parent, kp)
    BY <1>5, <1>12
  <2> HIDE DEF kp
  <2> QED BY <1>6, <2>6, <2>7, InteriorsHurt
<1> QED BY <1>8, <1>9, <1>11, <1>12

(* The climb of a deletion arrives, or does something in Harm. *)
LEMMA DeleteArrives ==
    ASSUME NEW s, Running(s), Rooted(s),
           NEW rows, NEW h, IsTree(s.pages, s.root.at, rows, h), Room(s.header, s.pages, rows, h, 2),
           Linked(s.pages, rows[h]),
           NEW e \in rows[h], NEW k \in KeysOf(s.pages[e[1]]), s.next = Step(e[1], k),
           NEW t, t = Climb(DeleteEntry, s), NEW keys, keys = Minus(k, RowKeys(s.pages, rows[h]))
    PROVE  Hurting(t) \/ Arrived(t, keys)
<1> DEFINE level[d \in 0 .. MaxPage] == IF d = 0 THEN s ELSE DeleteLevel(level[d - 1])
           S == {d \in 1 .. MaxPage : \/ Hurting(level[d]) \/ Arrived(level[d], keys)
                                      \/ d = 1 /\ HalfMerged(level[d], keys)}
<1>1. t = level[MaxPage]
  BY DEF Climb, IsDeleteClimb, DeleteLevel
<1>2. IsDeleteClimb(level, s)
  BY DeleteClimbs, Zenon DEF IsDeleteClimb
<1> HIDE DEF level
<1>3. level[0] = s /\ \A d \in 1 .. MaxPage : level[d] = DeleteLevel(level[d - 1])
  <2>1. 0 \in 0 .. MaxPage /\ \A d \in 1 .. MaxPage : d \in 0 .. MaxPage /\ d # 0
    BY PageNumbers
  <2> QED BY <1>2, <2>1, Zenon DEF IsDeleteClimb
<1>4. MaxPage \in Nat /\ MaxPage >= 1 /\ 1 \in 1 .. MaxPage /\ 1 - 1 = 0
  BY PageNumbers
<1>5. 1 \in S
  <2> DEFINE u == level[1]
  <2>1. u = DeleteLevel(s)
    BY <1>3, <1>4
  <2>2. s.end = "ok" /\ s.next # Nothing
    <3>1. s.end = "ok" /\ s.pages \in Image
      BY DEF Running, Unharmed, Command
    <3>2. h \in Nat /\ h \in 0 .. h
      BY PageNumbers DEF IsTree
    <3>3. EntryInOrder(s.pages, s.root.at, e)
      BY <3>2 DEF IsTree
    <3>4. e[1] # 0
      BY <3>3, PageNumbers DEF EntryInOrder, Entry
    <3>5. s.next.child = e[1] /\ Nothing.child = 0
      BY DEF Step, Nothing
    <3> QED BY <3>1, <3>4, <3>5
  <2>3. u = DeleteEntry(s)
    BY <2>1, <2>2 DEF DeleteLevel
  <2> HIDE DEF u
  <2>4. Hurting(u) \/ Arrived(u, keys) \/ HalfMerged(u, keys)
    BY <2>3, LeafLoses
  <2> QED BY <1>4, <2>4 DEF u
<1>6. ASSUME NEW d \in 1 + 1 .. MaxPage, d - 1 \in S PROVE d \in S
  <2> DEFINE u == level[d - 1]
             v == level[d]
  <2>1. d \in 1 .. MaxPage /\ v = DeleteLevel(u)
    BY <1>3, <1>4, <1>6
  <2>2. Hurting(u) \/ Arrived(u, keys) \/ HalfMerged(u, keys)
    BY <1>6
  <2>3. Hurting(u) => Hurting(v)
    BY <2>1, DeleteHurts DEF DeleteLevel
  <2>4. Arrived(u, keys) => v = u
    BY <2>1 DEF Arrived, DeleteLevel
  <2>5. HalfMerged(u, keys) => v = DeleteEntry(u)
    <3> SUFFICES ASSUME HalfMerged(u, keys) PROVE u.end = "ok" /\ u.next # Nothing
      BY <2>1 DEF DeleteLevel
    <3> HIDE DEF u
    <3>1. \E p \in 1 .. MaxPage, x \in KeyValue : u.next = Step(p, x)
      BY DEF HalfMerged, Pending
    <3>2. u.end = "ok"
      BY DEF HalfMerged, Running, Unharmed
    <3> QED BY <3>1, <3>2, PageNumbers DEF Step, Nothing
  <2> HIDE DEF u, v
  <2>6. HalfMerged(u, keys) => Hurting(v) \/ Arrived(v, keys)
    BY <2>5, SeparatorLoses
  <2>7. Hurting(v) \/ Arrived(v, keys)
    BY <2>2, <2>3, <2>4, <2>6
  <2> QED BY <2>1, <2>7 DEF v
<1> HIDE DEF S
<1>7. \A d \in 1 .. MaxPage : d \in S
  BY <1>4, <1>5, <1>6, IntervalInduction
<1>8. Hurting(t) \/ Arrived(t, keys) \/ (MaxPage = 1 /\ HalfMerged(t, keys))
  <2>1. MaxPage \in S
    BY <1>4, <1>7
  <2> QED BY <1>1, <2>1 DEF S
<1> QED BY <1>8 DEF HalfMerged

(* delete (bpt.c:1079) for a key that is there: the tree is whole again    *)
(* and has one key less, or something in Harm happened.                    *)
LEMMA DeleteIsRight ==
    ASSUME Kept, proc = "up", NEW k \in Key, Finds(pages, root.at, k), NEW t, t = DeleteKey(k)
    PROVE  \/ Hurting(t)
           \/ \E keys : /\ Arrived(t, Minus(k, keys)) /\ keys \subseteq Key
                        /\ \A x \in Key : x \in Found(pages, root.at) <=> x \in keys
<1> DEFINE top == root.at
           leaf == FindLeaf(pages, top, k)
           s == [Now EXCEPT !.next = Step(leaf, k)]
<1>1. /\ pages \in Image /\ Running(Now)
      /\ Now.pages = pages /\ Now.header = header /\ Now.root = root
      /\ root.at = header.root /\ (root.null => root.at = 0)
      /\ root \in Copy /\ k \in KeyValue \ {0}
  BY NowRuns, KeysAreValues DEF Kept
<1>2. t = Climb(DeleteEntry, s)
  BY DEF DeleteKey, Step
<1>3. top # 0 /\ ~root.null
  BY <1>1, NothingIsFound DEF Found
<1>4. header.root = top /\ top \in 1 .. MaxPage
  <2>1. root.at \in PageNo
    BY <1>1 DEF Copy
  <2> QED BY <1>1, <1>3, <2>1, PageNumbers DEF PageNo
<1>5. PICK rows, h : /\ IsTree(pages, top, rows, h) /\ Room(header, pages, rows, h, 2)
                     /\ RowKeys(pages, rows[h]) \subseteq Key /\ Linked(pages, rows[h])
  BY <1>3, <1>4 DEF Kept, HasRows
<1>6. InOrderBelow(pages, top) /\ Leaves(pages, top) = rows[h]
  BY <1>1, <1>4, <1>5, RowsAreEnough
<1>7. PICK e \in rows[h] : Holds(e, k) /\ e[1] = leaf
  BY <1>1, <1>4, <1>6, FindLeafIsRight
<1>8. leaf \in 1 .. MaxPage
  BY <1>1, <1>4, <1>6, <1>7, LeafFacts
<1>9. k \in KeysOf(pages[leaf])
  <2>1. /\ e[1] \in 1 .. MaxPage /\ e[2] \in Int /\ e[3] \in Int
        /\ pages[e[1]] \in Page /\ pages[e[1]].leaf /\ SlotsInOrder(pages[e[1]], e[2], e[3])
    BY <1>1, <1>4, <1>6, <1>7, LeafFacts
  <2>2. Search(pages[e[1]], k).hit
    BY <1>7 DEF Finds
  <2> QED BY <1>1, <1>7, <2>1, <2>2, SearchIsExact
<1> HIDE DEF leaf
<1>10. /\ Running(s) /\ s.next = Step(leaf, k)
       /\ s.pages = pages /\ s.header = header /\ s.root = root
  <2>1. Step(leaf, k) \in Later
    BY <1>1, <1>8, PageNumbers DEF Step, Later
  <2> QED BY <1>1, <2>1, NextRuns
<1> HIDE DEF s
<1>11. Rooted(s)
  BY <1>3, <1>4, <1>10 DEF Rooted
<1>12. Hurting(t) \/ Arrived(t, Minus(k, RowKeys(pages, rows[h])))
  <2>1. /\ IsTree(s.pages, s.root.at, rows, h) /\ Room(s.header, s.pages, rows, h, 2)
        /\ k \in KeysOf(s.pages[e[1]]) /\ s.next = Step(e[1], k) /\ Linked(s.pages, rows[h])
    BY <1>5, <1>7, <1>9, <1>10
  <2>2. Hurting(t) \/ Arrived(t, Minus(k, RowKeys(s.pages, rows[h])))
    BY <1>2, <1>10, <1>11, <2>1, DeleteArrives
  <2> QED BY <1>10, <2>2
<1>13. \A x \in Key : x \in Found(pages, root.at) <=> x \in RowKeys(pages, rows[h])
  BY <1>1, <1>4, <1>5, RowsAreFound
<1> QED BY <1>5, <1>12, <1>13

(* A deletion keeps this, too. *)
LEMMA DeleteKeeps ==
    ASSUME Kept, NEW k \in Key, CmdDelete(k), harm' = {}
    PROVE  Kept' /\ k \in Content /\ Content' = Content \ {k}
<1> DEFINE s == DeleteKey(k)
           top == root.at
<1>1. /\ AtPrompt /\ Finds(pages, top, k)
      /\ pages' = s.pages /\ header' = s.header /\ root' = s.root /\ todo' = s.log
      /\ end' = s.end /\ harm' = harm \cup s.harm
      /\ proc' = proc /\ disk' = disk /\ diskHeader' = diskHeader
  BY DEF CmdDelete, Run
<1>2. proc = "up" /\ todo = <<>>
  BY <1>1 DEF AtPrompt
<1>3. \/ Hurting(s)
      \/ \E keys : /\ Arrived(s, Minus(k, keys)) /\ keys \subseteq Key
                   /\ \A x \in Key : x \in Found(pages, root.at) <=> x \in keys
  BY <1>1, <1>2, DeleteIsRight
<1> HIDE DEF s
<1>4. ~Hurting(s)
  BY <1>1 DEF Hurting
<1>5. PICK keys : /\ Arrived(s, Minus(k, keys)) /\ keys \subseteq Key
                  /\ \A x \in Key : x \in Found(pages, root.at) <=> x \in keys
  BY <1>3, <1>4
<1>6. /\ pages' = s.pages /\ header' = s.header /\ root' = s.root /\ todo' = s.log /\ end' = s.end
      /\ proc' = "up" /\ disk' = disk /\ diskHeader' = diskHeader
  BY <1>1, <1>2
<1>7. Kept' /\ \A x \in Key : x \in Found(s.pages, s.root.at) <=> x \in Minus(k, keys)
  <2>1. Minus(k, keys) \subseteq Key
    BY <1>5 DEF Minus
  <2> QED BY <1>2, <1>5, <1>6, <2>1, KeptThen
<1>8. Content = Found(pages, top) /\ Content' = Found(s.pages, s.root.at)
  BY <1>1, <1>2 DEF Content, Top, Found
<1>9. \A x \in Key : x \in Found(s.pages, s.root.at) <=> x # k /\ x \in Found(pages, top)
  BY <1>5, <1>7 DEF Minus
<1>10. k \in Found(pages, top) /\ Found(s.pages, s.root.at) \subseteq Key /\ Found(pages, top) \subseteq Key
  BY <1>1 DEF Found
<1> QED BY <1>7, <1>8, <1>9, <1>10

-----------------------------------------------------------------------------
(* The whole process.                                                      *)

(* A command k of the prompt as BPlusTree and Dictionary record it. *)
Typed(kind, k) == [kind |-> kind, key |-> k]

(* What any step does while nothing in Harm happens: it takes a command    *)
(* and does just what that says, or leaves all keys as they are and at     *)
(* most returns.                                                           *)
LEMMA KeptStep ==
    ASSUME Kept, [Next]_vars, harm' = {}
    PROVE  /\ Kept'
           /\ \/ Content' = Content /\ cmd' \in {cmd, Idle}
              \/ \E k \in Key : /\ cmd' = Typed("insert", k)
                               /\ k \notin Content /\ Content' = Content \cup {k}
              \/ \E k \in Key : /\ cmd' = Typed("delete", k)
                               /\ k \in Content /\ Content' = Content \ {k}
<1>1. ASSUME NEW k \in Key, CmdInsert(k)
      PROVE  /\ Kept' /\ cmd' = Typed("insert", k)
             /\ k \notin Content /\ Content' = Content \cup {k}
  <2>1. cmd' = Typed("insert", k)
    BY <1>1 DEF CmdInsert, Run, Typed
  <2> QED BY <1>1, <2>1, InsertKeeps
<1>2. ASSUME NEW k \in Deletable, CmdDelete(k)
      PROVE  /\ k \in Key /\ Kept' /\ cmd' = Typed("delete", k)
             /\ k \in Content /\ Content' = Content \ {k}
  <2>1. k \in Key
    BY TreeAssumption
  <2>2. cmd' = Typed("delete", k)
    BY <1>2 DEF CmdDelete, Run, Typed
  <2> QED BY <1>2, <2>1, <2>2, DeleteKeeps
<1>3. ~Fail
  BY DEF Kept, Fail
<1>4. ASSUME UNCHANGED vars PROVE Kept' /\ Content' = Content /\ cmd' = cmd
  <2>1. Kept'
    <3>1. HasRows(header, pages) => HasRows(header', pages')
      BY <1>4 DEF vars
    <3> QED BY <1>4, <3>1 DEF vars, Kept
  <2> QED BY <1>4, <2>1 DEF vars, Content, Top
<1>5. ASSUME Flush \/ Crash \/ Open
      PROVE  Kept' /\ Content' = Content /\ cmd' \in {cmd, Idle}
  <2>1. cmd' \in {cmd, Idle}
    BY <1>5 DEF Flush, Crash, MemoryGone, Open
  <2> QED BY <1>5, <2>1, FlushKeeps, CrashKeeps, OpenKeeps
<1> QED BY <1>1, <1>2, <1>3, <1>4, <1>5 DEF Next

(* Kept holds as long as nothing in Harm has happened. *)
LEMMA KeptInvariant == Spec => []KeptInv
<1>1. Init => KeptInv
  BY KeptInit DEF KeptInv
<1>2. KeptInv /\ [Next]_vars => KeptInv'
  <2> SUFFICES ASSUME KeptInv, [Next]_vars, harm' = {} PROVE Kept'
    BY DEF KeptInv, Sound
  <2>1. harm = {}
    BY HarmStays
  <2> QED BY <2>1, KeptStep DEF KeptInv, Sound
<1> QED BY <1>1, <1>2, PTL DEF Spec

(* Whatever happens, cmd is a command of the prompt or none. *)
CmdType == cmd \in Promise!Command

LEMMA CommandsAreTyped == Spec => []CmdType
<1>1. Init => CmdType
  BY DEF Init, CmdType, Promise!Command, Promise!Idle, Idle
<1>2. CmdType /\ [Next]_vars => CmdType'
  <2> SUFFICES ASSUME CmdType, [Next]_vars PROVE cmd' \in Promise!Command
    BY DEF CmdType, Promise!Command, Promise!Idle
  <2> USE DEF CmdType, Promise!Command, Promise!Idle, Idle
  <2>1. ASSUME NEW k \in Key, CmdInsert(k) PROVE cmd' \in Promise!Command
    BY <2>1 DEF CmdInsert, Run
  <2>2. ASSUME NEW k \in Deletable, CmdDelete(k) PROVE cmd' \in Promise!Command
    BY <2>2, TreeAssumption DEF CmdDelete, Run
  <2>3. CASE Flush \/ Fail \/ Crash \/ Open \/ UNCHANGED vars
    BY <2>3 DEF Flush, Fail, Crash, MemoryGone, Open, vars
  <2> QED BY <2>1, <2>2, <2>3 DEF Next
<1> QED BY <1>1, <1>2, PTL DEF Spec

(* A database is a set of keys, for every order of its pages, number of    *)
(* pages and set of keys, as long as none of the paths in Harm is taken:   *)
(* the step that takes "i k" adds k and no other key, the step that takes  *)
(* "d k" takes k and no other, neither is without effect, whatever they    *)
(* split and merge, and no write, return, end of the process at the prompt *)
(* or reopening changes what find finds (bpt.c:720, bpt.c:1079 and what    *)
(* they call).                                                             *)
THEOREM TreeIsADictionary == Spec => ImplementsDictionary
<1>1. Init => Promise!Init
  BY KeptInit DEF Init, Promise!Init, Promise!Idle, Idle, Sound
<1>2. KeptInv /\ CmdType' /\ [Next]_vars => [Promise!Next]_(Promise!vars)
  <2> SUFFICES ASSUME KeptInv, cmd' \in Promise!Command, [Next]_vars
               PROVE  [Promise!Next]_(Promise!vars)
    BY DEF CmdType, Promise!Command, Promise!Idle
  <2>1. CASE harm' # {}
    <3>1. Content' \in SUBSET Key
      BY DEF Content
    <3> QED BY <2>1, <3>1 DEF Promise!Next, Promise!Break, Sound
  <2>2. CASE harm' = {}
    <3>1. harm = {}
      BY <2>2, HarmStays
    <3>2. Kept
      BY <3>1 DEF KeptInv, Sound
    <3>3. \/ Content' = Content /\ cmd' \in {cmd, Idle}
          \/ \E k \in Key : /\ cmd' = Typed("insert", k)
                           /\ k \notin Content /\ Content' = Content \cup {k}
          \/ \E k \in Key : /\ cmd' = Typed("delete", k)
                           /\ k \in Content /\ Content' = Content \ {k}
      BY <2>2, <3>2, KeptStep
    <3>4. Promise!Intact
      BY <2>2, <3>1 DEF Promise!Intact, Sound
    <3>5. CASE Content' = Content /\ cmd' = cmd
      BY <2>2, <3>1, <3>5 DEF Promise!vars, Sound
    <3>6. CASE Content' = Content /\ cmd' = Idle
      BY <3>4, <3>6 DEF Promise!Next, Promise!Return, Promise!Idle, Idle
    <3>7. ASSUME NEW k \in Key, cmd' = Typed("insert", k),
                 k \notin Content, Content' = Content \cup {k}
          PROVE  Promise!Next
      BY <3>4, <3>7 DEF Promise!Next, Promise!Insert, Typed
    <3>8. ASSUME NEW k \in Key, cmd' = Typed("delete", k),
                 k \in Content, Content' = Content \ {k}
          PROVE  Promise!Next
      BY <3>4, <3>8 DEF Promise!Next, Promise!Delete, Typed
    <3> QED BY <3>3, <3>5, <3>6, <3>7, <3>8
  <2> QED BY <2>1, <2>2
<1> QED BY <1>1, <1>2, KeptInvariant, CommandsAreTyped, PTL
        DEF Spec, ImplementsDictionary, Promise!Spec

(* As long as none of these paths is taken, the tree is in order at every  *)
(* write of every command, at the prompt and after it is opened again: all *)
(* its keys between its separators, all its parents known, no page         *)
(* overfull and none but the root empty.                                   *)
THEOREM TreeStaysInOrder == Spec => [](Sound /\ Top # 0 => InOrderBelow(pages, Top))
<1>1. KeptInv => (Sound /\ Top # 0 => InOrderBelow(pages, Top))
  <2> SUFFICES ASSUME Kept, Top # 0 PROVE InOrderBelow(pages, Top)
    BY DEF KeptInv
  <2>1. Top = header.root
    BY AllIsWritten DEF Kept, Top
  <2>2. header.root \in 1 .. MaxPage
    BY <2>1, PageNumbers DEF Kept, HeadType, PageNo
  <2>3. PICK rows, h : IsTree(pages, header.root, rows, h)
    BY <2>1 DEF Kept, HasRows
  <2> QED BY <2>1, <2>2, <2>3, RowsAreEnough DEF Kept
<1> QED BY <1>1, KeptInvariant, PTL

(* As long as none of the paths in Harm is taken, each write, command and  *)
(* opening leaves a B+ tree: in order, and all its leaves, and no others,  *)
(* chained from left to right (bpt.c:558, bpt.c:720, bpt.c:886).           *)
THEOREM TreeIsWellFormed == Spec => []WellFormed
<1>1. KeptInv => WellFormed
  <2> SUFFICES ASSUME Kept, Top # 0 PROVE InOrderBelow(pages, Top) /\ LeavesChained
    BY DEF KeptInv, WellFormed
  <2>1. Top = header.root
    BY AllIsWritten DEF Kept, Top
  <2>2. Top \in 1 .. MaxPage
    BY <2>1, PageNumbers DEF Kept, HeadType, PageNo
  <2>3. PICK rows, h : /\ IsTree(pages, Top, rows, h)
                       /\ RowKeys(pages, rows[h]) \subseteq Key /\ Linked(pages, rows[h])
    BY <2>1 DEF Kept, HasRows
  <2>4. pages \in Image
    BY DEF Kept
  <2>5. InOrderBelow(pages, Top)
    BY <2>2, <2>3, <2>4, RowsAreEnough
  <2>6. LeavesChained
    BY <2>2, <2>3, <2>4, LeavesAreChained
  <2> QED BY <2>5, <2>6
<1> QED BY <1>1, KeptInvariant, PTL

-----------------------------------------------------------------------------
(* The file between two writes of an insertion.                            *)

(* Page c at p is a leaf, or in order and leads to known pages, which are  *)
(* of lower rank.                                                          *)
LeadsDown(c, p, rank, known) ==
    /\ c \in Page
    /\ ~c.leaf => /\ c.n < InternalOrder
                  /\ \E low, high \in Int : SlotsInOrder(c, low, high)
                  /\ \A x \in Children(c) : x \in known /\ rank[x] < rank[p]

(* From the root a search comes to known pages only, and to lower and      *)
(* lower ones.                                                             *)
Rank == [1 .. MaxPage -> PageNo]
FileSafe(image, head, rank, known) ==
    /\ rank \in Rank /\ known \subseteq 1 .. MaxPage
    /\ head.root \in known \cup {0}
    /\ \A p \in known : LeadsDown(image[p], p, rank, known)

(* find_leaf (bpt.c:304) goes to a child of the page, whatever the key. *)
LEMMA ChildIsOne ==
    ASSUME NEW c \in Page, NEW low \in Int, NEW high \in Int, SlotsInOrder(c, low, high),
           NEW k \in KeyValue \ {0}
    PROVE  Child(c, k) \in Children(c)
<1> DEFINE r == Search(c, k)
<1>1. c.n \in Nat
  BY PageFacts
<1>2. /\ r.hit => r.at \in 0 .. c.n - 1
      /\ ~r.hit => PlaceOf(c.key, c.n, r.at, k)
  BY SearchIsExact
<1>3. Child(c, k) = c.off[IF r.hit THEN r.at + 1 ELSE r.at]
  BY DEF Child
<1> HIDE DEF r
<1>4. (IF r.hit THEN r.at + 1 ELSE r.at) \in 0 .. c.n
  <2>1. CASE r.hit
    BY <1>1, <1>2, <2>1
  <2>2. CASE ~r.hit
    BY <1>1, <1>2, <2>2 DEF PlaceOf
  <2> QED BY <2>1, <2>2
<1> QED BY <1>3, <1>4 DEF Children

(* So it ends, and on a leaf. *)
LEMMA SearchEnds ==
    ASSUME NEW image, NEW head, NEW rank, NEW known, FileSafe(image, head, rank, known),
           NEW top, top = head.root, top # 0, NEW k \in KeyValue \ {0},
           NEW p, p = FindLeaf(image, top, k)
    PROVE  p \in known /\ image[p].leaf
<1>w. PICK walk : Leads(walk, image, top, k, p)
  BY WalkSteps, Zenon
<1>1. /\ walk[0] = {top}
      /\ \A j \in 1 .. MaxPage : walk[j] = {Below(image, x, k) : x \in walk[j - 1]}
      /\ \A x : walk[MaxPage] = {x} => p = x
  BY <1>w DEF Leads
<1>2. /\ top \in known /\ 0 \notin known
      /\ \A x \in known : LeadsDown(image[x], x, rank, known) /\ rank[x] \in 0 .. MaxPage
  BY DEF FileSafe, Rank, PageNo
<1> DEFINE At(j, x) == x \in known /\ walk[j] = {x} /\ (~image[x].leaf => rank[x] + j <= rank[top])
           S == {j \in PageNo : \E x \in known : At(j, x)}
<1>3. 0 \in S
  <2>1. At(0, top)
    BY <1>1, <1>2
  <2> HIDE DEF At
  <2> QED BY <1>2, <2>1, PageNumbers
<1>4. ASSUME NEW j \in 0 + 1 .. MaxPage, j - 1 \in S PROVE j \in S
  <2>1. j \in PageNo /\ j \in 1 .. MaxPage
    BY PageNumbers
  <2>2. PICK x \in known : At(j - 1, x)
    BY <1>4
  <2>3. walk[j] = {Below(image, x, k)}
    BY <1>1, <2>1, <2>2
  <2>4. CASE image[x].leaf
    <3>1. At(j, x)
      BY <2>2, <2>3, <2>4 DEF Below
    <3> HIDE DEF At
    <3> QED BY <2>1, <3>1
  <2>5. CASE ~image[x].leaf
    <3>1. LeadsDown(image[x], x, rank, known)
      BY <1>2
    <3>2. PICK low, high \in Int : SlotsInOrder(image[x], low, high)
      BY <2>5, <3>1 DEF LeadsDown
    <3>3. image[x] \in Page
      BY <3>1 DEF LeadsDown
    <3> DEFINE y == Child(image[x], k)
    <3>4. y \in Children(image[x])
      BY <3>2, <3>3, ChildIsOne
    <3>5. walk[j] = {y}
      BY <1>2, <2>3, <2>5 DEF Below
    <3> HIDE DEF y
    <3>6. y \in known /\ rank[y] < rank[x]
      BY <2>5, <3>1, <3>4 DEF LeadsDown
    <3>7. rank[x] + (j - 1) <= rank[top]
      BY <2>2, <2>5
    <3>8. rank[y] + j <= rank[top]
      BY <1>2, <2>1, <3>6, <3>7
    <3>9. At(j, y)
      BY <3>5, <3>6, <3>8
    <3> HIDE DEF At
    <3> QED BY <2>1, <3>6, <3>9
  <2> QED BY <2>4, <2>5
<1>5. MaxPage \in S
  <2> HIDE DEF S
  <2>1. \A j \in 0 .. MaxPage : j \in S
    BY <1>3, <1>4, IntervalInduction, PageNumbers
  <2> QED BY <2>1, PageNumbers
<1>6. PICK x \in known : At(MaxPage, x)
  BY <1>5
<1>7. image[x].leaf
  <2>1. SUFFICES ASSUME ~image[x].leaf PROVE FALSE
    OBVIOUS
  <2>2. LeadsDown(image[x], x, rank, known) /\ image[x] \in Page
    BY <1>2 DEF LeadsDown
  <2>3. image[x].off[0] \in Children(image[x])
    BY <2>2, PageFacts DEF Children
  <2>4. image[x].off[0] \in known /\ rank[image[x].off[0]] < rank[x]
    BY <2>1, <2>2, <2>3 DEF LeadsDown
  <2>5. rank[x] + MaxPage <= rank[top]
    BY <1>6, <2>1
  <2> QED BY <1>2, <2>4, <2>5, PageNumbers
<1> QED BY <1>1, <1>6, <1>7

-----------------------------------------------------------------------------
(* The pages that are known after i writes. *)
Known(known, log, i) == known \cup ({log[j].at : j \in 1 .. i} \ {0})

(* A write of a page that leads to known ones, or of a header with a known *)
(* root, or none.                                                          *)
WriteSafe(e, rank, known) ==
    IF e.at = 0 THEN e.is.root \in known \cup {0} ELSE LeadsDown(e.is, e.at, rank, known)
LogSafe(log, rank, known) ==
    \A i \in 1 .. Len(log) : WriteSafe(log[i], rank, Known(known, log, i - 1))
SafeFile(image, head, log) ==
    \E rank, known : FileSafe(image, head, rank, known) /\ LogSafe(log, rank, known)

(* More known pages do no harm. *)
LEMMA MoreKnown ==
    ASSUME NEW c, NEW p, NEW rank, NEW known, NEW known1, known \subseteq known1, LeadsDown(c, p, rank, known)
    PROVE  LeadsDown(c, p, rank, known1)
BY DEF LeadsDown

(* One more write. *)
LEMMA SafeNext ==
    ASSUME NEW log \in Seq(Writes), NEW e \in Writes, NEW rank, NEW known, LogSafe(log, rank, known),
           WriteSafe(e, rank, Known(known, log, Len(log)))
    PROVE  /\ LogSafe(Append(log, e), rank, known)
           /\ Known(known, Append(log, e), Len(Append(log, e)))
                  = Known(known, log, Len(log)) \cup ({e.at} \ {0})
<1> DEFINE n == Len(log)
           log1 == Append(log, e)
<1>1. /\ n \in Nat /\ Len(log1) = n + 1 /\ log1[n + 1] = e
      /\ \A i \in 1 .. n : log1[i] = log[i]
  OBVIOUS
<1> HIDE DEF n, log1
<1>2. \A i \in 0 .. n : Known(known, log1, i) = Known(known, log, i)
  <2> SUFFICES ASSUME NEW i \in 0 .. n PROVE Known(known, log1, i) = Known(known, log, i)
    OBVIOUS
  <2>1. \A j \in 1 .. i : log1[j] = log[j]
    BY <1>1
  <2>2. {log1[j].at : j \in 1 .. i} = {log[j].at : j \in 1 .. i}
    BY <2>1
  <2> QED BY <2>2 DEF Known
<1>3. Known(known, log1, n + 1) = Known(known, log, n) \cup ({e.at} \ {0})
  <2>1. \A j : j \in 1 .. n + 1 <=> j \in 1 .. n \/ j = n + 1
    BY <1>1
  <2>2. {log1[j].at : j \in 1 .. n + 1} = {log[j].at : j \in 1 .. n} \cup {e.at}
    BY <1>1, <2>1
  <2> QED BY <2>2 DEF Known
<1>4. ASSUME NEW i \in 1 .. n + 1 PROVE WriteSafe(log1[i], rank, Known(known, log1, i - 1))
  <2>1. i - 1 \in 0 .. n
    BY <1>1
  <2>2. CASE i = n + 1
    <3>1. i - 1 = n
      BY <1>1, <2>2
    <3>2. Known(known, log1, i - 1) = Known(known, log, n)
      BY <1>2, <2>1, <3>1
    <3> QED BY <1>1, <2>2, <3>2 DEF n
  <2>3. CASE i # n + 1
    <3>1. i \in 1 .. n
      BY <1>1, <2>3
    <3>2. WriteSafe(log[i], rank, Known(known, log, i - 1))
      BY <3>1 DEF LogSafe, n
    <3> QED BY <1>1, <1>2, <2>1, <3>1, <3>2
  <2> QED BY <2>2, <2>3
<1> QED BY <1>1, <1>3, <1>4 DEF LogSafe, n, log1

(* The first write is carried out: the file is safe as it was. *)
LEMMA SafeRest ==
    ASSUME NEW S, NEW log \in Seq(S), log # <<>>, NEW rank, NEW known, LogSafe(log, rank, known),
           NEW known1, known1 = Known(known, log, 1)
    PROVE  LogSafe(Tail(log), rank, known1)
<1> DEFINE n == Len(log)
           log1 == Tail(log)
<1>1. /\ n \in Nat \ {0} /\ Len(log1) = n - 1
      /\ \A i \in 1 .. n - 1 : log1[i] = log[i + 1]
  OBVIOUS
<1> HIDE DEF n, log1
<1>2. ASSUME NEW i \in 0 .. n - 1 PROVE Known(known1, log1, i) = Known(known, log, i + 1)
  <2>1. \A j : j \in 1 .. i => log1[j] = log[j + 1] /\ j + 1 \in 1 .. i + 1
    BY <1>1
  <2>2. \A j : j \in 1 .. i + 1 => j = 1 \/ (j - 1 \in 1 .. i /\ (j - 1) + 1 = j)
    BY <1>1
  <2>3. {log[j].at : j \in 1 .. 1} = {log[1].at} /\ 1 \in 1 .. i + 1
    <3>1. \A j : j \in 1 .. 1 <=> j = 1
      OBVIOUS
    <3> QED BY <1>1, <3>1
  <2>4. {log[j].at : j \in 1 .. i + 1} = {log[1].at} \cup {log1[j].at : j \in 1 .. i}
    <3>1. ASSUME NEW j \in 1 .. i + 1 PROVE log[j].at \in {log[1].at} \cup {log1[m].at : m \in 1 .. i}
      <4>1. j = 1 \/ (j - 1 \in 1 .. i /\ log1[j - 1] = log[j])
        BY <2>1, <2>2
      <4> QED BY <4>1
    <3>2. ASSUME NEW j \in 1 .. i PROVE log1[j].at \in {log[m].at : m \in 1 .. i + 1}
      BY <2>1
    <3>3. log[1].at \in {log[m].at : m \in 1 .. i + 1}
      BY <2>3
    <3> QED BY <3>1, <3>2, <3>3
  <2> QED BY <2>3, <2>4 DEF Known
<1>3. ASSUME NEW i \in 1 .. n - 1 PROVE WriteSafe(log1[i], rank, Known(known1, log1, i - 1))
  <2>1. i - 1 \in 0 .. n - 1 /\ (i - 1) + 1 = i /\ i + 1 \in 1 .. n /\ (i + 1) - 1 = i
    BY <1>1
  <2>2. WriteSafe(log[i + 1], rank, Known(known, log, (i + 1) - 1))
    BY <2>1 DEF LogSafe, n
  <2> QED BY <1>1, <1>2, <2>1, <2>2
<1> QED BY <1>1, <1>3 DEF LogSafe, log1

(* A write reaches the file. *)
LEMMA FlushIsSafe ==
    ASSUME NEW image, NEW head, NEW log \in Seq(Writes), log # <<>>, SafeFile(image, head, log),
           NEW e, e = Head(log), NEW image1, NEW head1,
           e.at = 0 => head1 = e.is /\ image1 = image,
           e.at # 0 => head1 = head /\ \A p \in 1 .. MaxPage : image1[p] = IF p = e.at THEN e.is ELSE image[p]
    PROVE  SafeFile(image1, head1, Tail(log))
<1>1. PICK rank, known : FileSafe(image, head, rank, known) /\ LogSafe(log, rank, known)
  BY DEF SafeFile
<1> DEFINE known1 == Known(known, log, 1)
<1>2. LogSafe(Tail(log), rank, known1)
  BY <1>1, SafeRest
<1>3. e = log[1] /\ 1 \in 1 .. Len(log) /\ e \in Writes
  OBVIOUS
<1>4. known1 = known \cup ({e.at} \ {0})
  <2>1. \A j : j \in 1 .. 1 <=> j = 1
    OBVIOUS
  <2>2. {log[j].at : j \in 1 .. 1} = {e.at}
    BY <1>3, <2>1
  <2> QED BY <2>2 DEF Known
<1>5. WriteSafe(e, rank, known)
  <2>1. WriteSafe(log[1], rank, Known(known, log, 1 - 1))
    BY <1>1, <1>3 DEF LogSafe
  <2>2. \A j : j \notin 1 .. 1 - 1
    OBVIOUS
  <2>3. {log[j].at : j \in 1 .. 1 - 1} = {}
    BY <2>2
  <2>4. Known(known, log, 1 - 1) = known
    BY <2>3 DEF Known
  <2> QED BY <1>3, <2>1, <2>4
<1> HIDE DEF known1
<1>6. /\ rank \in Rank /\ known \subseteq 1 .. MaxPage /\ head.root \in known \cup {0}
      /\ \A p \in known : LeadsDown(image[p], p, rank, known)
  BY <1>1 DEF FileSafe
<1>7. e.at \in PageNo
  BY <1>3 DEF Writes
<1>8. FileSafe(image1, head1, rank, known1)
  <2>1. CASE e.at = 0
    <3>1. known1 = known /\ head1.root \in known \cup {0}
      BY <1>4, <1>5, <2>1 DEF WriteSafe
    <3> QED BY <1>6, <2>1, <3>1 DEF FileSafe
  <2>2. CASE e.at # 0
    <3>0. e.at \in 1 .. MaxPage
      BY <1>7, <2>2, PageNumbers
    <3>1. known1 \subseteq 1 .. MaxPage /\ known \subseteq known1 /\ head1.root \in known1 \cup {0}
      BY <1>4, <1>6, <2>2, <3>0
    <3>2. ASSUME NEW p \in known1 PROVE LeadsDown(image1[p], p, rank, known1)
      <4>1. CASE p = e.at
        <5>1. LeadsDown(e.is, p, rank, known)
          BY <1>5, <2>2, <4>1 DEF WriteSafe
        <5>2. image1[p] = e.is
          BY <2>2, <3>1, <4>1
        <5> QED BY <3>1, <5>1, <5>2, MoreKnown
      <4>2. CASE p # e.at
        <5>1. p \in known /\ image1[p] = image[p]
          BY <1>4, <2>2, <3>1, <4>2
        <5> QED BY <1>6, <3>1, <5>1, MoreKnown
      <4> QED BY <4>1, <4>2
    <3> QED BY <1>6, <3>1, <3>2 DEF FileSafe
  <2> QED BY <2>1, <2>2
<1> QED BY <1>2, <1>8 DEF SafeFile

-----------------------------------------------------------------------------
(* What a command knows when it has written its log: the pages it wrote    *)
(* and those that were known in the beginning.                             *)
Logged(s, rank, first, known) ==
    /\ FileSafe(pages, header, rank, first) /\ LogSafe(s.log, rank, first)
    /\ FileSafe(s.pages, s.header, rank, known)
    /\ known = Known(first, s.log, Len(s.log))

(* Nothing is written. *)
LEMMA SameLogs ==
    ASSUME NEW s, NEW rank, NEW first, NEW known, Logged(s, rank, first, known),
           NEW t, t.pages = s.pages, t.log = s.log, t.header.root = s.header.root
    PROVE  Logged(t, rank, first, known)
BY DEF Logged, FileSafe

(* A page is written that leads to known ones. *)
LEMMA WriteLogs ==
    ASSUME NEW s, Running(s), NEW rank, NEW first, NEW known, Logged(s, rank, first, known),
           NEW p \in 1 .. MaxPage, NEW c, LeadsDown(c, p, rank, known), NEW t, t = WritePage(s, p, c)
    PROVE  Logged(t, rank, first, known \cup {p})
<1> DEFINE e == [at |-> p, is |-> c]
           known1 == known \cup {p}
<1>0. c \in Page
  BY DEF LeadsDown
<1>1. /\ s \in Command /\ s.end = "ok" /\ s.pages \in Image /\ s.log \in Seq(Writes)
  BY DEF Running, Unharmed, Command
<1>2. t = [s EXCEPT !.pages = [s.pages EXCEPT ![p] = c], !.log = Append(s.log, e)]
  BY <1>1 DEF WritePage
<1>3. e \in Writes /\ e.at = p /\ e.is = c /\ p # 0
  BY <1>0, PageNumbers DEF Writes
<1> HIDE DEF e
<1>4. /\ t.pages = [s.pages EXCEPT ![p] = c] /\ t.log = Append(s.log, e) /\ t.header = s.header
  BY <1>1, <1>2 DEF Command
<1>5. /\ FileSafe(pages, header, rank, first) /\ LogSafe(s.log, rank, first)
      /\ FileSafe(s.pages, s.header, rank, known) /\ known = Known(first, s.log, Len(s.log))
  BY DEF Logged
<1>6. WriteSafe(e, rank, Known(first, s.log, Len(s.log)))
  BY <1>3, <1>5 DEF WriteSafe
<1>7. LogSafe(t.log, rank, first) /\ Known(first, t.log, Len(t.log)) = known \cup ({e.at} \ {0})
  <2>1. /\ s.log \in Seq(Writes) /\ e \in Writes /\ LogSafe(s.log, rank, first)
        /\ WriteSafe(e, rank, Known(first, s.log, Len(s.log))) /\ t.log = Append(s.log, e)
    BY <1>1, <1>3, <1>4, <1>5, <1>6
  <2>2. /\ LogSafe(t.log, rank, first)
        /\ Known(first, t.log, Len(t.log)) = Known(first, s.log, Len(s.log)) \cup ({e.at} \ {0})
    BY <2>1, SafeNext
  <2> QED BY <1>5, <2>2
<1>8. {e.at} \ {0} = {p}
  BY <1>3
<1>9. FileSafe(t.pages, t.header, rank, known1)
  <2>1. /\ rank \in Rank /\ known \subseteq 1 .. MaxPage /\ s.header.root \in known \cup {0}
        /\ \A q \in known : LeadsDown(s.pages[q], q, rank, known)
    BY <1>5 DEF FileSafe
  <2>2. known1 \subseteq 1 .. MaxPage /\ known \subseteq known1 /\ t.header.root \in known1 \cup {0}
    BY <1>4, <2>1
  <2>3. ASSUME NEW q \in known1 PROVE LeadsDown(t.pages[q], q, rank, known1)
    <3>1. CASE q = p
      <4>1. t.pages[q] = c
        BY <1>1, <1>4, <3>1 DEF Image
      <4> QED BY <2>2, <3>1, <4>1, MoreKnown
    <3>2. CASE q # p
      <4>1. q \in known /\ t.pages[q] = s.pages[q]
        BY <1>1, <1>4, <2>2, <3>2 DEF Image
      <4>2. LeadsDown(s.pages[q], q, rank, known)
        BY <2>1, <4>1
      <4> QED BY <2>2, <4>1, <4>2, MoreKnown
    <3> QED BY <3>1, <3>2
  <2> HIDE DEF known1
  <2> QED BY <2>1, <2>2, <2>3 DEF FileSafe
<1> QED BY <1>5, <1>7, <1>8, <1>9 DEF Logged

(* The header is written, with a known root. *)
LEMMA HeadLogs ==
    ASSUME NEW s, Unharmed(s), NEW rank, NEW first, NEW known, Logged(s, rank, first, known),
           NEW u, Unharmed(u), u.pages = s.pages, u.log = s.log, u.header.root \in known \cup {0},
           NEW t, t = WriteHeader(u)
    PROVE  Logged(t, rank, first, known)
<1> DEFINE e == [at |-> 0, is |-> u.header]
<1>1. u \in Command /\ u.end = "ok" /\ u.header \in HeadType /\ u.log \in Seq(Writes)
  BY DEF Unharmed, Command
<1>2. t = [u EXCEPT !.log = Append(u.log, e)]
  BY <1>1 DEF WriteHeader
<1>3. e \in Writes /\ e.at = 0 /\ e.is = u.header
  BY <1>1, PageNumbers DEF Writes, PageNo
<1> HIDE DEF e
<1>4. t.pages = s.pages /\ t.header = u.header /\ t.log = Append(s.log, e)
  BY <1>1, <1>2 DEF Command
<1>5. /\ FileSafe(pages, header, rank, first) /\ LogSafe(s.log, rank, first)
      /\ FileSafe(s.pages, s.header, rank, known) /\ known = Known(first, s.log, Len(s.log))
  BY DEF Logged
<1>6. WriteSafe(e, rank, Known(first, s.log, Len(s.log)))
  BY <1>3, <1>5 DEF WriteSafe
<1>7. LogSafe(t.log, rank, first) /\ Known(first, t.log, Len(t.log)) = known \cup ({e.at} \ {0})
  <2>1. /\ s.log \in Seq(Writes) /\ e \in Writes /\ LogSafe(s.log, rank, first)
        /\ WriteSafe(e, rank, Known(first, s.log, Len(s.log))) /\ t.log = Append(s.log, e)
    <3>1. s.log \in Seq(Writes)
      BY DEF Unharmed, Command
    <3> QED BY <1>3, <1>4, <1>5, <1>6, <3>1
  <2>2. /\ LogSafe(t.log, rank, first)
        /\ Known(first, t.log, Len(t.log)) = Known(first, s.log, Len(s.log)) \cup ({e.at} \ {0})
    BY <2>1, SafeNext
  <2> QED BY <1>5, <2>2
<1>8. known \cup ({e.at} \ {0}) = known
  BY <1>3
<1>9. FileSafe(t.pages, t.header, rank, known)
  BY <1>4, <1>5 DEF FileSafe
<1> QED BY <1>5, <1>7, <1>8, <1>9 DEF Logged

(* The root is written and then the header. *)
LEMMA SetRootLogs ==
    ASSUME NEW s, Running(s), NEW rank, NEW first, NEW known, Logged(s, rank, first, known),
           NEW p \in 1 .. MaxPage, NEW c, LeadsDown(c, p, rank, known), NEW t, t = SetRoot(s, p, c)
    PROVE  Logged(t, rank, first, known \cup {p})
<1> DEFINE v == WritePage(s, p, c)
           u == [v EXCEPT !.root = RootCopy(p, c), !.header.root = p]
<1>0. c \in Page
  BY DEF LeadsDown
<1>1. Running(v) /\ Logged(v, rank, first, known \cup {p})
  BY <1>0, WriteRuns, WriteLogs
<1>2. t = WriteHeader(u)
  BY DEF SetRoot
<1> HIDE DEF v
<1>3. v \in Command /\ v.end = "ok" /\ v.harm = {} /\ v.header \in HeadType /\ Unharmed(v)
  BY <1>1 DEF Running, Unharmed, Command
<1>4. RootCopy(p, c) \in Copy
  <2>1. p \in PageNo /\ c.leaf \in BOOLEAN /\ c.n \in KeySlot /\ c.off[0] \in PageNo
    <3>1. 0 \in OffSlot
      BY NodeAssumption DEF OffSlot
    <3> QED BY <1>0, <3>1, PageNumbers DEF Page, PageNo
  <2> QED BY <2>1 DEF RootCopy, Copy
<1>5. [v.header EXCEPT !.root = p] \in HeadType /\ [v.header EXCEPT !.root = p].root = p
  BY <1>3 DEF HeadType, PageNo
<1> HIDE DEF RootCopy
<1>6. /\ Unharmed(u) /\ u.pages = v.pages /\ u.log = v.log
      /\ u.header = [v.header EXCEPT !.root = p]
  BY <1>3, <1>4, <1>5 DEF Unharmed, Command
<1>7. u.header.root \in (known \cup {p}) \cup {0}
  BY <1>5, <1>6
<1> HIDE DEF u
<1> QED BY <1>1, <1>2, <1>3, <1>6, <1>7, HeadLogs

(* A page with another parent leads where it did. *)
LEMMA AdoptedLeads ==
    ASSUME NEW c, NEW p, NEW rank, NEW known, LeadsDown(c, p, rank, known), NEW q \in PageNo,
           NEW d, d = Adopted(c, q)
    PROVE  LeadsDown(d, p, rank, known)
<1>1. c \in Page
  BY DEF LeadsDown
<1>2. /\ d \in Page /\ d.n = c.n /\ d.leaf = c.leaf /\ d.off = c.off
      /\ \A low, high : SlotsInOrder(d, low, high) <=> SlotsInOrder(c, low, high)
  BY <1>1, AdoptedIsSame
<1>3. Children(d) = Children(c)
  BY <1>2 DEF Children
<1>4. CASE c.leaf
  BY <1>2, <1>4 DEF LeadsDown
<1>5. CASE ~c.leaf
  <2>1. PICK low, high \in Int : SlotsInOrder(c, low, high)
    BY <1>5 DEF LeadsDown
  <2>2. SlotsInOrder(d, low, high)
    BY <1>2, <2>1
  <2>3. c.n < InternalOrder /\ \A x \in Children(c) : x \in known /\ rank[x] < rank[p]
    BY <1>5 DEF LeadsDown
  <2> QED BY <1>2, <1>3, <2>2, <2>3 DEF LeadsDown
<1> QED BY <1>4, <1>5

(* Children of page c are told their parent. *)
LEMMA AdoptLogs ==
    ASSUME NEW s, Running(s), NEW rank, NEW first, NEW known, Logged(s, rank, first, known),
           NEW p \in PageNo, NEW c, c.n \in 0 .. InternalOrder - 1, \A x \in Children(c) : x \in known,
           NEW t, t = AdoptChildren(s, p, c)
    PROVE  Logged(t, rank, first, known)
<1>1. PICK g : /\ t = g[InternalOrder] /\ g[0] = s
               /\ \A i \in 1 .. InternalOrder : g[i] = AdoptNext(s, p, c, i, g[i - 1])
  BY AdoptSteps
<1> DEFINE Done(i) == Running(g[i]) /\ Logged(g[i], rank, first, known)
           S == {i \in 0 .. InternalOrder : Done(i)}
<1>2. InternalOrder \in Nat /\ c.n \in Nat /\ c.n < InternalOrder
  BY NodeAssumption
<1>3. known \subseteq 1 .. MaxPage
  BY DEF Logged, FileSafe
<1>4. 0 \in S
  BY <1>1, <1>2
<1>5. ASSUME NEW i \in 0 + 1 .. InternalOrder, i - 1 \in S PROVE i \in S
  <2> DEFINE u == g[i - 1]
             v == g[i]
             ch == c.off[i - 1]
  <2>1. /\ Running(u) /\ Logged(u, rank, first, known)
        /\ v = AdoptNext(s, p, c, i, u) /\ i \in 0 .. InternalOrder /\ i - 1 \in Nat /\ i \in Nat
    BY <1>1, <1>2, <1>5
  <2> HIDE DEF u, v
  <2>2. u.end = "ok" /\ u.pages \in Image
    BY <2>1 DEF Running, Unharmed, Command
  <2>3. CASE i - 1 > c.n
    <3>1. v = u
      BY <2>1, <2>3 DEF AdoptNext
    <3> QED BY <2>1, <3>1 DEF v
  <2>4. CASE ~(i - 1 > c.n)
    <3>1. i - 1 \in 0 .. c.n
      BY <1>2, <2>1, <2>4
    <3>2. ch \in known /\ ch \in 1 .. MaxPage /\ ch # 0
      <4>1. ch \in Children(c)
        BY <3>1 DEF Children
      <4>2. ch \in known
        BY <4>1
      <4> HIDE DEF ch
      <4> QED BY <1>3, <4>2
    <3>3. v = WritePage(u, ch, [Read(u, ch) EXCEPT !.parent = p])
      BY <2>1, <2>2, <2>4, <3>2 DEF AdoptNext
    <3> HIDE DEF ch
    <3>4. LeadsDown(u.pages[ch], ch, rank, known)
      BY <2>1, <3>2 DEF Logged, FileSafe
    <3>5. [Read(u, ch) EXCEPT !.parent = p] = Adopted(u.pages[ch], p)
      BY <3>2 DEF Read, Adopted
    <3> DEFINE d == Adopted(u.pages[ch], p)
    <3>6. LeadsDown(d, ch, rank, known)
      BY <3>4, AdoptedLeads
    <3>7. d \in Page
      BY <3>6 DEF LeadsDown
    <3>8. v = WritePage(u, ch, d)
      BY <3>3, <3>5
    <3> HIDE DEF d
    <3>9. Running(v)
      BY <2>1, <3>2, <3>7, <3>8, WriteRuns
    <3>10. Logged(v, rank, first, known \cup {ch})
      BY <2>1, <3>2, <3>6, <3>8, WriteLogs
    <3>11. known \cup {ch} = known
      BY <3>2
    <3> QED BY <2>1, <3>9, <3>10, <3>11 DEF v
  <2> QED BY <2>3, <2>4
<1>6. InternalOrder \in S
  <2> HIDE DEF S
  <2>1. \A i \in 0 .. InternalOrder : i \in S
    BY <1>2, <1>4, <1>5, IntervalInduction
  <2> QED BY <1>2, <2>1
<1> QED BY <1>1, <1>6

-----------------------------------------------------------------------------
(* A page that is not known yet may have any rank. *)
Ranked(rank, p, r) == [rank EXCEPT ![p] = r]

LEMMA NewRank ==
    ASSUME NEW s, NEW rank, NEW first, NEW known, Logged(s, rank, first, known),
           NEW p \in 1 .. MaxPage, p \notin known, NEW r \in PageNo, NEW rank1, rank1 = Ranked(rank, p, r)
    PROVE  /\ Logged(s, rank1, first, known)
           /\ rank1[p] = r /\ \A x \in known : rank1[x] = rank[x]
<1>1. /\ FileSafe(pages, header, rank, first) /\ LogSafe(s.log, rank, first)
      /\ FileSafe(s.pages, s.header, rank, known) /\ known = Known(first, s.log, Len(s.log))
  BY DEF Logged
<1>2. rank \in Rank /\ known \subseteq 1 .. MaxPage
  BY <1>1 DEF FileSafe
<1>3. rank1 \in Rank /\ rank1[p] = r /\ \A x \in known : rank1[x] = rank[x]
  BY <1>2 DEF Ranked, Rank
<1>4. ASSUME NEW c, NEW q \in known, NEW some, some \subseteq known, LeadsDown(c, q, rank, some)
      PROVE  LeadsDown(c, q, rank1, some)
  <2>1. c \in Page /\ rank1[q] = rank[q]
    BY <1>3, <1>4 DEF LeadsDown
  <2>2. CASE c.leaf
    BY <2>1, <2>2 DEF LeadsDown
  <2>3. CASE ~c.leaf
    <3>1. /\ c.n < InternalOrder /\ \E low, high \in Int : SlotsInOrder(c, low, high)
          /\ \A x \in Children(c) : x \in some /\ rank[x] < rank[q]
      BY <1>4, <2>3 DEF LeadsDown
    <3>2. \A x \in Children(c) : x \in some /\ rank1[x] < rank1[q]
      BY <1>3, <1>4, <2>1, <3>1
    <3> QED BY <2>1, <3>1, <3>2 DEF LeadsDown
  <2> QED BY <2>2, <2>3
<1>5. \A i \in 0 .. Len(s.log) : Known(first, s.log, i) \subseteq known
  <2>1. \A i \in 0 .. Len(s.log) : \A j \in 1 .. i : j \in 1 .. Len(s.log)
    OBVIOUS
  <2> QED BY <1>1, <2>1 DEF Known
<1>6. first \subseteq known
  BY <1>1 DEF Known
<1>7. FileSafe(pages, header, rank1, first)
  BY <1>1, <1>3, <1>4, <1>6 DEF FileSafe
<1>8. FileSafe(s.pages, s.header, rank1, known)
  BY <1>1, <1>3, <1>4 DEF FileSafe
<1>9. LogSafe(s.log, rank1, first)
  <2> SUFFICES ASSUME NEW i \in 1 .. Len(s.log)
               PROVE  WriteSafe(s.log[i], rank1, Known(first, s.log, i - 1))
    BY DEF LogSafe
  <2> DEFINE e == s.log[i]
             some == Known(first, s.log, i - 1)
  <2>1. WriteSafe(e, rank, some)
    BY <1>1 DEF LogSafe
  <2>2. some \subseteq known
    BY <1>5
  <2>3. e.at # 0 => e.at \in known
    BY <1>1 DEF Known
  <2> HIDE DEF e, some
  <2>4. ASSUME e.at = 0 PROVE WriteSafe(e, rank1, some)
    BY <2>1, <2>4 DEF WriteSafe
  <2>5. ASSUME e.at # 0 PROVE WriteSafe(e, rank1, some)
    BY <1>4, <2>1, <2>2, <2>3, <2>5 DEF WriteSafe
  <2> QED BY <2>4, <2>5 DEF e, some
<1> QED BY <1>1, <1>3, <1>7, <1>8, <1>9 DEF Logged

-----------------------------------------------------------------------------
(* The known pages are those of the tree, each of the rank of its row.     *)
OnRow(row, i, rank, known) == \A e \in row : e[1] \in known /\ rank[e[1]] = i
Ahead(head, known) == head.free # 0 => known \subseteq 1 .. head.free - 1
Placed(rows, h, rank, known) == \A j \in 0 .. h : OnRow(rows[j], h - j, rank, known)

(* A page with its children in the next row leads down.                    *)
LEMMA RowLeads ==
    ASSUME NEW image, NEW top, NEW e, EntryInOrder(image, top, e), image[e[1]] \in Page,
           NEW row, \A b \in Under(image, e) : \E f \in row : f[1] = b[1],
           NEW rank, NEW known, NEW i \in Int, OnRow(row, i, rank, known), rank[e[1]] = i + 1
    PROVE  LeadsDown(image[e[1]], e[1], rank, known)
<1> DEFINE c == image[e[1]]
<1>1. CASE c.leaf
  BY <1>1 DEF LeadsDown
<1>2. CASE ~c.leaf
  <2>1. c.n < InternalOrder /\ SlotsInOrder(c, e[2], e[3]) /\ e[2] \in Int /\ e[3] \in Int
    <3>1. e[2] \in Bound /\ e[3] \in Bound
      BY DEF EntryInOrder, Entry
    <3>2. e[2] \in Int /\ e[3] \in Int
      BY <3>1, NodeAssumption DEF Bound
    <3> QED BY <1>2, <3>2 DEF EntryInOrder
  <2>2. \A x \in Children(c) : \E b \in Under(image, e) : b[1] = x
    <3>1. \A j : Branch(c.key, c.off, c.n, e[2], e[3], j)[1] = c.off[j]
      BY DEF Branch
    <3>2. Under(image, e) = {Branch(c.key, c.off, c.n, e[2], e[3], j) : j \in 0 .. c.n}
      BY DEF Under, Subtrees, Branches
    <3>3. Children(c) = {c.off[j] : j \in 0 .. c.n}
      BY DEF Children
    <3> HIDE DEF c
    <3> QED BY <3>1, <3>2, <3>3
  <2>3. ASSUME NEW x \in Children(c) PROVE x \in known /\ rank[x] < rank[e[1]]
    <3>1. PICK f \in row : f[1] = x
      BY <2>2
    <3>2. x \in known /\ rank[x] = i
      BY <3>1 DEF OnRow
    <3> QED BY <3>2
  <2>4. \E low, high \in Int : SlotsInOrder(c, low, high)
    BY <2>1
  <2> HIDE DEF c
  <2>5. LeadsDown(c, e[1], rank, known)
    <3>1. c \in Page
      BY DEF c
    <3> QED BY <2>1, <2>3, <2>4, <3>1 DEF LeadsDown
  <2> QED BY <2>5 DEF c
<1> QED BY <1>1, <1>2

(* In a tree that is whole each page does, *)
LEMMA TreeLeads ==
    ASSUME NEW image \in Image, NEW top, NEW rows, NEW h, IsTree(image, top, rows, h),
           NEW rank, NEW known, NEW j \in 0 .. h, NEW e \in rows[j], rank[e[1]] = h - j,
           j # h => OnRow(rows[j + 1], h - (j + 1), rank, known)
    PROVE  LeadsDown(image[e[1]], e[1], rank, known)
<1>1. EntryInOrder(image, top, e) /\ (image[e[1]].leaf <=> j = h) /\ h \in Nat /\ image[e[1]] \in Page
  BY PageNumbers DEF IsTree, EntryInOrder, Entry, Image
<1>2. CASE j = h
  BY <1>1, <1>2 DEF LeadsDown
<1>3. CASE j # h
  <2>1. j + 1 \in 1 .. h /\ (j + 1) - 1 = j /\ h - (j + 1) \in Int /\ h - j = (h - (j + 1)) + 1
    BY <1>1, <1>3
  <2>2. rows[j + 1] = UnderRow(image, rows[j])
    BY <2>1 DEF IsTree
  <2>3. \A b \in Under(image, e) : \E f \in rows[j + 1] : f[1] = b[1]
    BY <2>2, InRows
  <2> DEFINE row == rows[j + 1]
             i == h - (j + 1)
  <2>4. /\ \A b \in Under(image, e) : \E f \in row : f[1] = b[1]
        /\ OnRow(row, i, rank, known) /\ i \in Int /\ rank[e[1]] = i + 1
    BY <1>3, <2>1, <2>3
  <2> HIDE DEF row, i
  <2> QED BY <1>1, <2>4, RowLeads
<1> QED BY <1>2, <1>3

(* and in one that is half done.                                           *)
LEMMA HalfLeads ==
    ASSUME NEW image \in Image, NEW top, NEW rows, NEW h, NEW i, NEW w, NEW k, NEW right,
           HalfDone(image, top, rows, h, i, w, k, right),
           NEW rank, NEW known, NEW j \in 0 .. h, NEW e \in rows[j], rank[e[1]] = h - j,
           j # h => OnRow(rows[j + 1], h - (j + 1), rank, known)
    PROVE  LeadsDown(image[e[1]], e[1], rank, known)
<1>1. EntryInOrder(image, top, e) /\ (image[e[1]].leaf <=> j = h) /\ h \in Nat /\ image[e[1]] \in Page
  BY PageNumbers DEF HalfDone, EntryInOrder, Entry, Image
<1>2. CASE j = h
  BY <1>1, <1>2 DEF LeadsDown
<1>3. CASE j # h
  <2>1. j + 1 \in 1 .. h /\ (j + 1) - 1 = j /\ h - (j + 1) \in Int /\ h - j = (h - (j + 1)) + 1
    BY <1>1, <1>3
  <2>2. \A b \in Under(image, e) : \E f \in rows[j + 1] : f[1] = b[1]
    <3>1. \A b \in Under(image, e) : b \in UnderRow(image, rows[j])
      BY InRows
    <3>2. CASE j + 1 # i
      <4>1. rows[j + 1] = UnderRow(image, rows[j])
        BY <2>1, <3>2 DEF HalfDone
      <4> QED BY <3>1, <4>1
    <3>3. CASE j + 1 = i
      <4>1. Whole(image, top, rows, i) = UnderRow(image, rows[j])
        BY <2>1, <3>3 DEF Whole
      <4>2. rows[i] = (UnderRow(image, rows[j]) \ {w}) \cup {<<w[1], w[2], k>>, <<right, k, w[3]>>}
        BY <4>1 DEF HalfDone
      <4>3. ASSUME NEW b \in Under(image, e) PROVE \E f \in rows[i] : f[1] = b[1]
        <5>1. CASE b = w
          <6>1. <<w[1], w[2], k>> \in rows[i] /\ <<w[1], w[2], k>>[1] = w[1]
            BY <4>2
          <6> QED BY <5>1, <6>1
        <5>2. CASE b # w
          BY <3>1, <4>2, <5>2
        <5> QED BY <5>1, <5>2
      <4> QED BY <3>3, <4>3
    <3> QED BY <3>2, <3>3
  <2> DEFINE row == rows[j + 1]
             m == h - (j + 1)
  <2>4. /\ \A b \in Under(image, e) : \E f \in row : f[1] = b[1]
        /\ OnRow(row, m, rank, known) /\ m \in Int /\ rank[e[1]] = m + 1
    BY <1>3, <2>1, <2>2
  <2> HIDE DEF row, m
  <2> QED BY <1>1, <2>4, RowLeads
<1> QED BY <1>2, <1>3

(* Page p gets its rank, and the known pages keep theirs. *)
Reranked(rank, rank1, p, r, known) == p \notin known /\ rank1[p] = r /\ \A x \in known : rank1[x] = rank[x]

(* A page is made: nothing leads to it yet, and it may have any rank.      *)
LEMMA MakeLogs ==
    ASSUME NEW s, Running(s), ClearAhead(s.header, s.pages), NEW rank, NEW first, NEW known,
           Logged(s, rank, first, known), Ahead(s.header, known),
           NEW t, t = MakePage(s), t.end = "ok", NEW r \in PageNo
    PROVE  /\ \E rank1 : Logged(t, rank1, first, known) /\ Reranked(rank, rank1, t.new, r, known)
           /\ Ahead(t.header, known \cup {t.new})
<1> DEFINE p == t.new
           rank1 == Ranked(rank, p, r)
<1>1. /\ Running(t) /\ SameTree(s, t) /\ p = s.header.free
      /\ p \in 1 .. MaxPage /\ p + 1 \in 1 .. MaxPage
      /\ t.header = HeaderAfter(p, s.header.root)
  BY MakeRuns
<1> HIDE DEF p
<1>2. p \in Nat /\ p # 0 /\ known \subseteq 1 .. p - 1
  BY <1>1, PageNumbers DEF Ahead
<1>3. p \notin known /\ t.header.free = p + 1 /\ t.header.root = s.header.root
  BY <1>1, <1>2 DEF HeaderAfter
<1>4. Ahead(t.header, known \cup {p})
  <2>1. \A x \in 1 .. p - 1 : x \in 1 .. (p + 1) - 1
    BY <1>2
  <2>2. p \in 1 .. (p + 1) - 1
    BY <1>2
  <2>3. known \cup {p} \subseteq 1 .. (p + 1) - 1
    BY <1>2, <2>1, <2>2
  <2> QED BY <1>3, <2>3 DEF Ahead
<1>5. /\ Logged(s, rank1, first, known)
      /\ rank1[p] = r /\ \A x \in known : rank1[x] = rank[x]
  BY <1>1, <1>3, NewRank
<1> HIDE DEF rank1
<1>6. Logged(t, rank1, first, known)
  <2> DEFINE w == Read(s, p).parent
             h == [s.header EXCEPT !.free = IF w # 0 THEN w ELSE s.header.num + 1, !.num = @ + 1]
             u == [s EXCEPT !.header = h, !.new = p]
  <2>1. /\ s \in Command /\ s.end = "ok" /\ s.harm = {} /\ s.header \in HeadType /\ Unharmed(s)
    BY DEF Running, Unharmed, Command
  <2>2. t = WriteHeader(u)
    <3>1. s.header.free = p /\ p # 0 /\ s.end = "ok"
      BY <1>1, <1>2, <2>1
    <3>2. ~(h.num > MaxPage)
      <4>1. h.num = p + 1
        BY <1>1, <1>2, <2>1 DEF Running, ClearAhead, HeadType
      <4>2. p + 1 \in 1 .. MaxPage /\ MaxPage \in Nat
        BY <1>1, PageNumbers
      <4> HIDE DEF h
      <4> QED BY <1>2, <4>1, <4>2
    <3> QED BY <3>1, <3>2 DEF MakePage
  <2>3. h.root = s.header.root
    BY <2>1 DEF HeadType
  <2>4. h = t.header /\ u.header = h /\ u.pages = s.pages /\ u.log = s.log /\ u.end = "ok" /\ u.harm = {}
    <3>1. u.header = h /\ u.pages = s.pages /\ u.log = s.log /\ u.end = "ok" /\ u.harm = {}
      BY <2>1 DEF Command
    <3> HIDE DEF h
    <3>2. t.header = h
      BY <2>1, <2>2, <3>1 DEF WriteHeader, Command
    <3> QED BY <3>1, <3>2
  <2>5. h \in HeadType /\ p \in PageNo
    <3>1. t.header \in HeadType
      BY <1>1 DEF Running, Unharmed, Command
    <3> HIDE DEF h
    <3> QED BY <1>1, <2>4, <3>1, PageNumbers DEF PageNo
  <2> HIDE DEF h
  <2>6. Unharmed(u)
    BY <2>1, <2>5 DEF Unharmed, Command
  <2> HIDE DEF u
  <2>7. u.header.root \in known \cup {0}
    <3>1. s.header.root \in known \cup {0}
      BY DEF Logged, FileSafe
    <3> QED BY <2>3, <2>4, <3>1
  <2> QED BY <1>5, <2>1, <2>2, <2>4, <2>6, <2>7, HeadLogs
<1> QED BY <1>3, <1>4, <1>5, <1>6 DEF Reranked, p

-----------------------------------------------------------------------------
(* The climb of an insertion, write by write.                              *)
Traced(s, rows, h, rank, first, known) ==
    Logged(s, rank, first, known) /\ Placed(rows, h, rank, known) /\ Ahead(s.header, known)
LogsSafely(s) == \E rank, first, known : Logged(s, rank, first, known)

(* The parent has room for the new page.                                   *)
LEMMA RoomyParentLogs ==
    ASSUME NEW s, Running(s), Rooted(s), NEW keys, NEW rows, NEW h, NEW i, NEW w,
           HasHalf(s, keys, rows, h, i, w), i > 0, s.next.new \in 1 .. MaxPage,
           NEW p, p = s.pages[w[1]].parent, s.pages[p].n < InternalOrder - 1,
           NEW rank, NEW first, NEW known, Traced(s, rows, h, rank, first, known),
           NEW d, d = NodeWith(s.pages[p], LeftIndex(s.pages[p], w[1]), s.next.key, s.next.new),
           NEW t, t = Ended(WritePage(s, p, d))
    PROVE  LogsSafely(t)
<1> DEFINE image == s.pages
           top == s.root.at
           k == s.next.key
           right == s.next.new
           image1 == Written(image, p, d)
           u == WritePage(s, p, d)
<1>1. /\ HalfDone(image, top, rows, h, i, w, k, right) /\ right \in 1 .. MaxPage /\ image \in Image
      /\ h \in Nat
  <2>1. HalfDone(image, top, rows, h, i, w, k, right)
    BY DEF HasHalf
  <2>2. h \in Nat
    BY <2>1, PageNumbers DEF HalfDone
  <2> QED BY <2>1, <2>2 DEF Running, Unharmed, Command
<1>2. /\ InTree(rows, h, p) /\ p \in 1 .. MaxPage /\ d \in Page
      /\ image1 \in Image /\ IsTree(image1, top, rows, h)
  <2> HIDE DEF image, top, k, right, image1
  <2>1. d = NodeWith(image[p], LeftIndex(image[p], w[1]), k, right) /\ image1 = Written(image, p, d)
        /\ p = image[w[1]].parent /\ image[p].n < InternalOrder - 1
    BY DEF image, k, right, image1
  <2> HIDE DEF image
  <2> QED BY <1>1, <2>1, ParentTakesChild
<1>3. PICK j \in 0 .. h : \E e \in rows[j] : e[1] = p
  BY <1>2 DEF InTree
<1>4. PICK e \in rows[j] : e[1] = p
  BY <1>3
<1>5. p \in known /\ rank[e[1]] = h - j
  BY <1>4 DEF Traced, Placed, OnRow
<1>6. j # h => OnRow(rows[j + 1], h - (j + 1), rank, known)
  <2>2. j # h => j + 1 \in 0 .. h
    BY <1>1
  <2> QED BY <2>2 DEF Traced, Placed
<1> HIDE DEF image1
<1>7. LeadsDown(image1[e[1]], e[1], rank, known)
  BY <1>2, <1>5, <1>6, TreeLeads
<1>8. image1[p] = d
  BY <1>1, <1>2 DEF Written, image1, Image
<1> HIDE DEF image, u
<1>9. Logged(u, rank, first, known)
  <2>1. LeadsDown(d, p, rank, known) /\ Logged(s, rank, first, known) /\ u = WritePage(s, p, d)
    BY <1>4, <1>7, <1>8 DEF u, Traced
  <2>2. Logged(u, rank, first, known \cup {p})
    BY <1>2, <2>1, WriteLogs
  <2>3. known \cup {p} = known
    BY <1>5
  <2> QED BY <2>2, <2>3
<1>10. t.pages = u.pages /\ t.log = u.log /\ t.header.root = u.header.root
  <2>1. Running(u)
    BY <1>2, WriteRuns DEF u
  <2>2. u \in Command
    BY <2>1 DEF Running, Unharmed
  <2> QED BY <2>2, Zenon DEF Ended, u, Command
<1>11. Logged(t, rank, first, known)
  BY <1>9, <1>10, SameLogs
<1> QED BY <1>11 DEF LogsSafely

(* The root was split. *)
LEMMA RootLogs ==
    ASSUME NEW s, Running(s), Rooted(s), NEW keys, NEW rows, NEW h, NEW w,
           HasHalf(s, keys, rows, h, 0, w), s.next.new \in 1 .. MaxPage,
           NEW rank, NEW first, NEW known, Traced(s, rows, h, rank, first, known),
           NEW t, t = InsertIntoNewRoot(s, w[1], s.next.key, s.next.new)
    PROVE  t.end # "ok" \/ LogsSafely(t)
<1> DEFINE image == s.pages
           top == s.root.at
           k == s.next.key
           left == w[1]
           right == s.next.new
           u == MakePage(s)
           r == u.new
           c == [NewPage(u).node EXCEPT !.key[0] = k, !.off[0] = left, !.off[1] = right, !.n = 1]
           u1 == WritePage(u, left, [Read(u, left) EXCEPT !.parent = r])
           u2 == WritePage(u1, right, [Read(u1, right) EXCEPT !.parent = r])
           v == SetRoot(u2, r, c)
<1>1. t = IF u.end # "ok" THEN u ELSE [v EXCEPT !.next = Nothing]
  BY DEF InsertIntoNewRoot
<1>2. /\ HalfDone(image, top, rows, h, 0, w, k, right) /\ right \in 1 .. MaxPage
      /\ Room(s.header, image, rows, h, 3) /\ ClearAhead(s.header, image)
      /\ image \in Image /\ h \in Nat /\ k \in KeyValue
  <2>1. HalfDone(image, top, rows, h, 0, w, k, right)
    BY DEF HasHalf
  <2>2. h \in Nat /\ k \in KeyValue
    BY <2>1, PageNumbers DEF HalfDone
  <2>3. image \in Image
    BY DEF Running, Unharmed, Command
  <2> QED BY <2>1, <2>2, <2>3 DEF HasHalf, Room
<1>3. \/ u.end # "ok" /\ Over(u)
      \/ /\ Running(u) /\ SameTree(s, u) /\ r = s.header.free
         /\ r \in 1 .. MaxPage /\ r + 1 \in 1 .. MaxPage
         /\ u.header = HeaderAfter(r, s.header.root) /\ NewPage(u) = Fresh(r, ZeroPage)
  BY <1>2, MakeRuns
<1>m. u = MakePage(s)
  OBVIOUS
<1> HIDE DEF u
<1>4. CASE u.end # "ok" /\ Over(u)
  BY <1>1, <1>4
<1>5. CASE /\ Running(u) /\ SameTree(s, u) /\ r = s.header.free
           /\ r \in 1 .. MaxPage /\ r + 1 \in 1 .. MaxPage
           /\ u.header = HeaderAfter(r, s.header.root) /\ NewPage(u) = Fresh(r, ZeroPage)
  <2>1. t = [v EXCEPT !.next = Nothing] /\ u.end = "ok"
    BY <1>1, <1>5 DEF Running, Unharmed
  <2>2. /\ u.pages = image /\ h + 1 \in 0 .. MaxPage - 1 /\ h + 1 \in PageNo /\ ~InTree(rows, h, r)
    <3>1. r \in Nat /\ MaxPage \in Nat /\ r # 0 /\ r < MaxPage
      BY <1>5, PageNumbers
    <3>2. h + 3 <= r /\ \A x : InTree(rows, h, x) => x \in 1 .. r - 1
      BY <1>2, <1>5, <3>1 DEF Room
    <3>3. h + 1 \in 0 .. MaxPage - 1 /\ h + 1 \in 0 .. MaxPage
      BY <1>2, <3>1, <3>2
    <3>4. r \notin 1 .. r - 1
      BY <3>1
    <3> QED BY <1>5, <3>2, <3>3, <3>4, PageNumbers DEF SameTree
  <2> DEFINE image1 == RootImage(image, r, left, k, right)
             rows1 == RowsBelow(r, rows, h)
  <2>3. /\ NewRoot(left, k, right) \in Page /\ IsTree(image1, r, rows1, h + 1) /\ image1 \in Image
        /\ left \in 1 .. MaxPage /\ left # right /\ left # r /\ right # r
    <3> HIDE DEF image, top, k, right, r
    <3> QED BY <1>2, <1>5, <2>2, RootGrows
  <2>4. c = NewRoot(left, k, right)
    <3>1. NewPage(u).node = ZeroPage
      BY <1>5 DEF Fresh
    <3>2. c = WithTwo(ZeroPage, left, k, right)
      BY <3>1 DEF WithTwo
    <3> HIDE DEF c, k, left, right
    <3> QED BY <1>2, <2>3, <3>2, NewRootIs
  <2> HIDE DEF c
  <2>p. PICK rank1 : Logged(u, rank1, first, known) /\ Reranked(rank, rank1, r, h + 1, known)
    <3>1. /\ Running(s) /\ ClearAhead(s.header, s.pages) /\ Logged(s, rank, first, known)
          /\ Ahead(s.header, known) /\ u = MakePage(s) /\ u.end = "ok" /\ h + 1 \in PageNo
      BY <1>2, <1>m, <2>1, <2>2 DEF Traced
    <3> QED BY <3>1, MakeLogs
  <2>5. /\ Logged(u, rank1, first, known) /\ r \notin known
        /\ rank1[r] = h + 1 /\ \A x \in known : rank1[x] = rank[x]
    <3> QED BY <2>p DEF Reranked
  <2>6. left \in known /\ right \in known /\ rank1[left] = h /\ rank1[right] = h
    <3>1. /\ 0 \in 0 .. h /\ OnRow(rows[0], h - 0, rank, known) /\ h - 0 = h
      BY <1>2 DEF Traced, Placed
    <3>2. <<w[1], w[2], k>> \in rows[0] /\ <<right, k, w[3]>> \in rows[0]
      BY <1>2 DEF HalfDone
    <3> HIDE DEF right, k
    <3> QED BY <2>5, <3>1, <3>2 DEF OnRow
  <2>7. LeadsDown(image[left], left, rank1, known) /\ LeadsDown(image[right], right, rank1, known)
    BY <2>2, <2>5, <2>6 DEF Logged, FileSafe
  <2>r. r \in PageNo /\ image[left] \in Page /\ image[right] \in Page
    BY <1>5, <2>7, PageNumbers DEF LeadsDown
  <2>8. LeadsDown(Adopted(image[left], r), left, rank1, known) /\ LeadsDown(Adopted(image[right], r), right, rank1, known)
    <3> HIDE DEF image, left, right, r
    <3> QED BY <2>7, <2>r, AdoptedLeads
  <2>a. Adopted(image[left], r) \in Page /\ Adopted(image[right], r) \in Page
    BY <2>r, AdoptedIsSame
  <2>9. Running(u1) /\ u1.pages = Written(image, left, Adopted(image[left], r)) /\ Logged(u1, rank1, first, known)
    <3>1. [Read(u, left) EXCEPT !.parent = r] = Adopted(image[left], r)
      <4>1. left # 0
        BY <2>3, PageNumbers
      <4> QED BY <2>2, <4>1 DEF Read, Adopted
    <3>2. Running(u) /\ left \in 1 .. MaxPage /\ u.pages = image
      BY <1>5, <2>2, <2>3
    <3> HIDE DEF left, r, image
    <3>3. u1 = WritePage(u, left, Adopted(image[left], r))
      BY <3>1
    <3> HIDE DEF u1
    <3>4. Running(u1) /\ u1.pages = Written(image, left, Adopted(image[left], r))
      BY <2>a, <3>2, <3>3, WriteRuns
    <3>5. Logged(u1, rank1, first, known \cup {left})
      BY <2>5, <2>8, <3>2, <3>3, WriteLogs
    <3>6. known \cup {left} = known
      BY <2>6
    <3> QED BY <3>4, <3>5, <3>6
  <2> HIDE DEF u1
  <2>10. Running(u2) /\ Logged(u2, rank1, first, known)
    <3>1. right # 0 /\ u1.pages[right] = image[right]
      BY <1>2, <2>3, <2>9, PageNumbers DEF Written, Image
    <3>2. [Read(u1, right) EXCEPT !.parent = r] = Adopted(image[right], r)
      BY <3>1 DEF Read, Adopted
    <3>3. u2 = WritePage(u1, right, Adopted(image[right], r))
      BY <3>2
    <3> HIDE DEF u2, image, r, right
    <3>4. Running(u2)
      BY <1>2, <2>a, <2>9, <3>3, WriteRuns
    <3>5. Logged(u2, rank1, first, known \cup {right})
      BY <1>2, <2>8, <2>9, <3>3, WriteLogs
    <3>6. known \cup {right} = known
      BY <2>6
    <3> QED BY <3>4, <3>5, <3>6
  <2> HIDE DEF u2
  <2>11. LeadsDown(c, r, rank1, known)
    <3>1. /\ rows1[0] = {<<r, 0, KeyMod>>} /\ rows1[1] = rows[0] /\ 0 \in 0 .. h + 1
          /\ (h + 1) - 0 = h + 1 /\ (h + 1) - (0 + 1) = h /\ 0 + 1 = 1
      BY <1>2 DEF RowsBelow
    <3>2. OnRow(rows[0], h, rank1, known)
      <4>1. 0 \in 0 .. h /\ OnRow(rows[0], h - 0, rank, known) /\ h - 0 = h
        BY <1>2 DEF Traced, Placed
      <4> QED BY <2>5, <4>1 DEF OnRow
    <3> DEFINE e == <<r, 0, KeyMod>>
    <3>3. e \in rows1[0] /\ e[1] = r /\ image1[r] = c
      BY <1>5, <2>4, <3>1 DEF RootImage
    <3> HIDE DEF image1, rows1, c, r
    <3>4. OnRow(rows1[0 + 1], (h + 1) - (0 + 1), rank1, known) /\ rank1[e[1]] = (h + 1) - 0
      BY <2>5, <3>1, <3>2
    <3> HIDE DEF e
    <3>5. LeadsDown(image1[e[1]], e[1], rank1, known)
      BY <2>3, <3>1, <3>3, <3>4, TreeLeads
    <3> QED BY <3>3, <3>5
  <2>12. Running(v) /\ Logged(v, rank1, first, known \cup {r})
    <3>1. c \in Page
      BY <2>11 DEF LeadsDown
    <3> HIDE DEF r
    <3> QED BY <1>5, <2>10, <2>11, <3>1, SetRootLogs, SetRootRuns
  <2> HIDE DEF v
  <2>13. t.pages = v.pages /\ t.log = v.log /\ t.header.root = v.header.root
    <3>1. v \in Command
      BY <2>12 DEF Running, Unharmed
    <3> QED BY <2>1, <3>1 DEF Command
  <2>14. Logged(t, rank1, first, known \cup {r})
    BY <2>12, <2>13, SameLogs
  <2> QED BY <2>14 DEF LogsSafely
<1> QED BY <1>3, <1>4, <1>5

(* The rows with the new page.                                             *)
LEMMA GrownPlaced ==
    ASSUME NEW rows, NEW rows1, NEW h, NEW i \in Int, NEW new, Grown(rows, rows1, h, i, new),
           NEW rank, NEW rank1, NEW known, Placed(rows, h, rank, known),
           Reranked(rank, rank1, new, h - i, known)
    PROVE  /\ Placed(rows1, h, rank1, known \cup {new})
           /\ \A j \in 0 .. h : j # i => OnRow(rows1[j], h - j, rank1, known)
<1>1. ASSUME NEW j \in 0 .. h, NEW e \in rows1[j]
      PROVE  \/ j = i /\ e[1] = new /\ rank1[e[1]] = h - j
             \/ e[1] \in known /\ rank1[e[1]] = h - j
  <2>1. CASE j = i /\ e[1] = new
    BY <2>1 DEF Reranked
  <2>2. CASE \E f \in rows[j] : f[1] = e[1]
    <3>1. PICK f \in rows[j] : f[1] = e[1]
      BY <2>2
    <3>2. f[1] \in known /\ rank[f[1]] = h - j
      BY <3>1 DEF Placed, OnRow
    <3> QED BY <3>1, <3>2 DEF Reranked
  <2> QED BY <2>1, <2>2 DEF Grown
<1>2. \A j \in 0 .. h : j # i => OnRow(rows1[j], h - j, rank1, known)
  BY <1>1 DEF OnRow
<1>3. \A j \in 0 .. h : OnRow(rows1[j], h - j, rank1, known \cup {new})
  BY <1>1 DEF OnRow
<1> QED BY <1>2, <1>3 DEF Placed

(* The writes of a split of an internal page.                              *)
LEMMA SplitWritesLog ==
    ASSUME NEW s, Running(s), NEW rank, NEW first, NEW known, Logged(s, rank, first, known),
           NEW p \in known, s.new \in 1 .. MaxPage, NEW half, half.right.n \in 0 .. InternalOrder - 1,
           LeadsDown(half.left, p, rank, known), LeadsDown(half.right, s.new, rank, known), ~half.right.leaf,
           NEW t, t = SplitWrites(s, p, half)
    PROVE  Logged(t, rank, first, known \cup {s.new})
<1> DEFINE l == half.left
           r == half.right
           m == half.middle
           new == s.new
           t1 == AdoptChildren(s, new, r)
           t2 == WritePage(t1, p, l)
           t3 == WritePage(t2, new, r)
           x == [child |-> p, key |-> ToInt(m), new |-> new]
<1>1. t = [(IF ToInt(m) # m THEN Hurt(t3, "truncated") ELSE t3) EXCEPT !.next = x]
  BY DEF SplitWrites
<1>2. /\ l \in Page /\ r \in Page /\ \A y \in Children(r) : y \in known
      /\ LeadsDown(l, p, rank, known) /\ LeadsDown(r, new, rank, known)
      /\ r.n \in 0 .. InternalOrder - 1 /\ new \in 1 .. MaxPage /\ new \in PageNo
  BY PageNumbers DEF LeadsDown
<1>3. known \subseteq 1 .. MaxPage
  BY DEF Logged, FileSafe
<1> HIDE DEF l, r, m, new, x
<1>4. Running(t1) /\ Logged(t1, rank, first, known)
  <2>1. \A y \in Children(r) : y \in 1 .. MaxPage
    BY <1>2, <1>3
  <2>2. Running(t1)
    BY <1>2, <2>1, AdoptRuns
  <2>3. Logged(t1, rank, first, known)
    BY <1>2, AdoptLogs
  <2> QED BY <2>2, <2>3
<1> HIDE DEF t1
<1>5. Running(t2) /\ Logged(t2, rank, first, known)
  <2>1. p \in 1 .. MaxPage /\ known \cup {p} = known
    BY <1>3
  <2>2. Running(t2)
    BY <1>2, <1>4, <2>1, WriteRuns
  <2>3. Logged(t2, rank, first, known \cup {p})
    BY <1>2, <1>4, <2>1, WriteLogs
  <2> QED BY <2>1, <2>2, <2>3
<1> HIDE DEF t2
<1>6. Running(t3) /\ Logged(t3, rank, first, known \cup {new})
  <2>1. Running(t3)
    BY <1>2, <1>5, WriteRuns
  <2>2. Logged(t3, rank, first, known \cup {new})
    BY <1>2, <1>5, WriteLogs
  <2> QED BY <2>1, <2>2
<1> HIDE DEF t3
<1>7. t.pages = t3.pages /\ t.log = t3.log /\ t.header.root = t3.header.root
  <2>1. t3 \in Command /\ t3.end = "ok"
    BY <1>6 DEF Running, Unharmed
  <2>2. CASE ToInt(m) # m
    <3>1. t = [Hurt(t3, "truncated") EXCEPT !.next = x]
      BY <1>1, <2>2
    <3>2. Hurt(t3, "truncated") = [t3 EXCEPT !.harm = t3.harm \cup {"truncated"}]
      BY <2>1 DEF Hurt
    <3> QED BY <2>1, <3>1, <3>2 DEF Command
  <2>3. CASE ToInt(m) = m
    <3>1. t = [t3 EXCEPT !.next = x]
      BY <1>1, <2>3
    <3> QED BY <2>1, <3>1 DEF Command
  <2> QED BY <2>2, <2>3
<1>8. Logged(t, rank, first, known \cup {new})
  BY <1>6, <1>7, SameLogs
<1> QED BY <1>8 DEF new

(* The parent is full.                                                     *)
LEMMA SplitLogs ==
    ASSUME NEW s, Running(s), Rooted(s), NEW keys, NEW rows, NEW h, NEW i, NEW w,
           HasHalf(s, keys, rows, h, i, w), i > 0, s.next.new \in 1 .. MaxPage,
           NEW p, p = s.pages[w[1]].parent, ~(s.pages[p].n < InternalOrder - 1),
           NEW rank, NEW first, NEW known, Traced(s, rows, h, rank, first, known),
           NEW t, t = SplitNode(s, p, LeftIndex(s.pages[p], w[1]), s.next.key, s.next.new)
    PROVE  \/ Over(t)
           \/ \E rows1, w1, rank1, known1 :
                 HasHalf(t, keys, rows1, h, i - 1, w1) /\ Traced(t, rows1, h, rank1, first, known1)
<1> DEFINE image == s.pages
           top == s.root.at
           k == s.next.key
           right == s.next.new
           u == MakePage(s)
           r == u.new
           half == ParentHalves(image, p, w[1], k, right, r, ZeroPage)
           image1 == SplitImage(image, p, half.left, r, half.right, Children(half.right))
<1> SUFFICES ASSUME ~Over(t)
             PROVE  \E rows1, w1, rank1, known1 :
                       HasHalf(t, keys, rows1, h, i - 1, w1) /\ Traced(t, rows1, h, rank1, first, known1)
  OBVIOUS
<1>1. /\ HalfDone(image, top, rows, h, i, w, k, right) /\ right \in 1 .. MaxPage
      /\ Room(s.header, image, rows, h, 3) /\ ClearAhead(s.header, image)
      /\ image \in Image /\ h \in Nat /\ i \in 1 .. h /\ h - (i - 1) \in PageNo /\ i - 1 \in 0 .. h /\ i \in 0 .. h
  <2>1. HalfDone(image, top, rows, h, i, w, k, right)
    BY DEF HasHalf
  <2>2. h \in 0 .. MaxPage - 1 /\ i \in 0 .. h
    BY <2>1 DEF HalfDone
  <2>3. h \in Nat /\ i \in 1 .. h /\ h - (i - 1) \in PageNo /\ i - 1 \in 0 .. h
    BY <2>2, PageNumbers
  <2>4. image \in Image
    BY DEF Running, Unharmed, Command
  <2> QED BY <2>1, <2>2, <2>3, <2>4 DEF HasHalf, Room
<1>2. PICK rows1, w1 : HasHalf(t, keys, rows1, h, i - 1, w1) /\ Grown(rows, rows1, h, i - 1, t.next.new)
  BY ParentIsSplit
<1>p. Running(t) /\ t.next.new \in 1 .. MaxPage
  BY ParentIsSplit
<1>3. \/ u.end # "ok" /\ Over(u)
      \/ /\ Running(u) /\ SameTree(s, u) /\ r = s.header.free
         /\ r \in 1 .. MaxPage /\ r + 1 \in 1 .. MaxPage
         /\ u.header = HeaderAfter(r, s.header.root) /\ NewPage(u) = Fresh(r, ZeroPage)
  BY <1>1, MakeRuns
<1>m. u = MakePage(s)
  OBVIOUS
<1> HIDE DEF u
<1>4. \A x : x = NodeHalves(Read(u, p), LeftIndex(image[p], w[1]), k, right, NewPage(u))
             => t = IF u.end # "ok" THEN u ELSE SplitWrites(u, p, x)
  BY <1>m, SplitNodeIs
<1>5. /\ Running(u) /\ SameTree(s, u) /\ r = s.header.free
      /\ r \in 1 .. MaxPage /\ u.end = "ok"
      /\ u.header = HeaderAfter(r, s.header.root) /\ NewPage(u) = Fresh(r, ZeroPage)
  <2>1. u.end # "ok" => t = u
    BY <1>4
  <2> QED BY <1>3, <2>1 DEF Running, Unharmed
<1>6. /\ u.pages = image /\ ~InTree(rows, h, r)
  <2>1. r \in Nat /\ r # 0
    BY <1>5, PageNumbers
  <2>2. \A x : InTree(rows, h, x) => x \in 1 .. r - 1
    BY <1>1, <1>5, <2>1 DEF Room
  <2>3. r \notin 1 .. r - 1
    BY <2>1
  <2> QED BY <1>5, <2>2, <2>3 DEF SameTree
<1>7. /\ half.left \in Page /\ half.right \in Page /\ half.middle \in KeyValue
      /\ half.right.n \in 0 .. InternalOrder - 1
      /\ \A x \in Children(half.right) : x \in 1 .. MaxPage
      /\ InTree(rows, h, p)
  <2>1. ~(image[p].n < InternalOrder - 1) /\ p = image[w[1]].parent
    OBVIOUS
  <2>2. half = ParentHalves(image, p, w[1], k, right, r, ZeroPage)
    OBVIOUS
  <2> HIDE DEF half
  <2>3. image1 = SplitImage(image, p, half.left, r, half.right, Children(half.right))
    OBVIOUS
  <2>4. ZeroPage \in Page /\ ~ZeroPage.leaf
    BY ZeroIsPage
  <2> HIDE DEF image, top, k, right, r, image1
  <2> QED BY <1>1, <1>5, <1>6, <2>1, <2>2, <2>3, <2>4, NodeIsHalfDone
<1>8. PICK j0 \in 0 .. h : \E e \in rows[j0] : e[1] = p
  BY <1>7 DEF InTree
<1>9. p \in known /\ known \subseteq 1 .. MaxPage
  BY <1>8 DEF Traced, Placed, OnRow, Logged, FileSafe
<1>10. p # r /\ p \in 1 .. MaxPage /\ p # 0
  BY <1>6, <1>7, <1>9, PageNumbers
<1>11. t = SplitWrites(u, p, half)
  <2>1. Read(u, p) = image[p]
    BY <1>6, <1>10 DEF Read
  <2>2. half = NodeHalves(Read(u, p), LeftIndex(image[p], w[1]), k, right, NewPage(u))
    BY <1>5, <2>1 DEF ParentHalves
  <2> HIDE DEF half
  <2> QED BY <1>4, <1>5, <2>2
<1> HIDE DEF half
<1>12. /\ t.header = u.header
       /\ t.pages = SplitImage(image, p, half.left, r, half.right, Children(half.right))
       /\ t.next = [child |-> p, key |-> half.middle, new |-> r]
  <2>1. ~Hurting(t)
    BY DEF Over
  <2> QED BY <1>5, <1>6, <1>7, <1>10, <1>11, <2>1, SplitRuns
<1>13. t.pages[p] = half.left /\ t.pages[r] = half.right /\ t.next.new = r /\ t.next.child = p
  <2>1. p \in 1 .. MaxPage /\ r \in 1 .. MaxPage /\ p # r
    BY <1>5, <1>10
  <2>2. t.next.new = r /\ t.next.child = p
    BY <1>12
  <2> HIDE DEF r, image
  <2>3. t.pages = SplitImage(image, p, half.left, r, half.right, Children(half.right))
    BY <1>12
  <2>4. t.pages[p] = half.left /\ t.pages[r] = half.right
    BY ONLY <2>1, <2>3 DEF SplitImage
  <2> QED BY ONLY <2>2, <2>4
<1> DEFINE g == h - (i - 1)
<1>14. PICK rank1 : Logged(u, rank1, first, known) /\ Reranked(rank, rank1, r, g, known)
  <2>1. /\ Running(s) /\ ClearAhead(s.header, s.pages) /\ Logged(s, rank, first, known)
        /\ Ahead(s.header, known) /\ u = MakePage(s) /\ u.end = "ok" /\ g \in PageNo
    BY <1>1, <1>m, <1>5 DEF Traced
  <2> HIDE DEF g
  <2> QED BY <2>1, MakeLogs
<1>15. /\ Placed(rows1, h, rank1, known \cup {r})
       /\ \A j \in 0 .. h : j # i - 1 => OnRow(rows1[j], h - j, rank1, known)
  <2> DEFINE i1 == i - 1
  <2>1. /\ Grown(rows, rows1, h, i1, r) /\ Placed(rows, h, rank, known) /\ i1 \in Int
        /\ Reranked(rank, rank1, r, h - i1, known)
    <3>1. Reranked(rank, rank1, r, h - i1, known)
      BY <1>14
    <3>2. Grown(rows, rows1, h, i1, r)
      <4>1. Grown(rows, rows1, h, i1, t.next.new)
        BY ONLY <1>2 DEF i1
      <4> HIDE DEF i1, r
      <4> QED BY ONLY <1>13, <4>1
    <3> QED BY <1>1, <3>1, <3>2 DEF Traced
  <2> HIDE DEF i1, r
  <2>2. /\ Placed(rows1, h, rank1, known \cup {r})
        /\ \A j \in 0 .. h : j # i1 => OnRow(rows1[j], h - j, rank1, known)
    BY <2>1, GrownPlaced
  <2> QED BY <2>2 DEF i1
<1>16. /\ LeadsDown(half.left, p, rank1, known) /\ LeadsDown(half.right, r, rank1, known)
       /\ ~half.right.leaf
  <2> DEFINE e == <<w1[1], w1[2], t.next.key>>
             f == <<t.next.new, t.next.key, w1[3]>>
             i1 == i - 1
             image2 == t.pages
             top2 == t.root.at
             k2 == t.next.key
  <2>1. HalfDone(image2, top2, rows1, h, i1, w1, k2, t.next.new) /\ w1[1] = t.next.child
    BY <1>2, Zenon DEF HasHalf
  <2>2. e \in rows1[i1] /\ f \in rows1[i1] /\ e[1] = p /\ f[1] = r
    BY <1>13, <2>1, Zenon DEF HalfDone
  <2>3. i1 \in 0 .. h /\ i1 # h /\ i1 + 1 = i /\ h - (i1 + 1) = h - i /\ i # i1 /\ h - i1 = g
    BY <1>1
  <2>4. image2 \in Image
    BY <1>p, Zenon DEF Running, Unharmed, Command
  <2>5. OnRow(rows1[i1 + 1], h - (i1 + 1), rank1, known)
    BY <1>1, <1>15, <2>3
  <2>6. rank1[e[1]] = h - i1 /\ rank1[f[1]] = h - i1
    <3>1. i1 \in 0 .. h /\ OnRow(rows1[i1], h - i1, rank1, known \cup {r})
      BY <1>15, <2>3, Zenon DEF Placed
    <3> HIDE DEF e, f, i1, r
    <3> QED BY <2>2, <3>1 DEF OnRow
  <2>7. ~image2[f[1]].leaf
    <3> HIDE DEF i1, f, image2, top2, k2
    <3> QED BY <2>1, <2>2, <2>3, Zenon DEF HalfDone
  <2>8. image2[e[1]] = half.left /\ image2[f[1]] = half.right
    BY <1>13, <2>2, Zenon
  <2> HIDE DEF e, f, i1, image2, top2, k2
  <2>9. LeadsDown(image2[e[1]], e[1], rank1, known) /\ LeadsDown(image2[f[1]], f[1], rank1, known)
    BY <2>1, <2>2, <2>3, <2>4, <2>5, <2>6, HalfLeads
  <2> QED BY <2>2, <2>7, <2>8, <2>9
<1>17. Logged(t, rank1, first, known \cup {r})
  BY <1>5, <1>7, <1>9, <1>11, <1>14, <1>16, SplitWritesLog
<1>18. Ahead(t.header, known \cup {r})
  <2>1. Ahead(u.header, known \cup {u.new})
    <3>1. /\ Running(s) /\ ClearAhead(s.header, s.pages) /\ Logged(s, rank, first, known)
          /\ Ahead(s.header, known) /\ u = MakePage(s) /\ u.end = "ok" /\ 0 \in PageNo
      BY <1>1, <1>m, <1>5, PageNumbers DEF Traced, PageNo
    <3> QED BY <3>1, MakeLogs
  <2> QED BY <1>12, <2>1
<1>19. Traced(t, rows1, h, rank1, first, known \cup {r})
  BY <1>15, <1>17, <1>18 DEF Traced
<1> QED BY <1>2, <1>19, Zenon

(* A page was split, up rows above the leaves, and what was written until  *)
(* then is safe.                                                           *)
Tracing(s, keys, up) ==
    /\ Running(s) /\ Rooted(s) /\ s.next # Nothing /\ s.next.new \in 1 .. MaxPage
    /\ \E rows, h, w, rank, first, known :
          up <= h /\ HasHalf(s, keys, rows, h, h - up, w) /\ Traced(s, rows, h, rank, first, known)
Ending(s) == s.next = Nothing /\ LogsSafely(s)

(* One level of the climb. *)
LEMMA OneLevelLogs ==
    ASSUME NEW s, NEW keys, NEW up \in Nat, Tracing(s, keys, up), NEW t, t = InsertIntoParent(s)
    PROVE  Over(t) \/ Ending(t) \/ Tracing(t, keys, up + 1)
<1> DEFINE image == s.pages
           top == s.root.at
           k == s.next.key
           right == s.next.new
           left == s.next.child
           p == Read(s, left).parent
           c == Read(s, p)
           li == LeftIndex(c, left)
<1>1. Running(s) /\ Rooted(s) /\ right \in 1 .. MaxPage /\ image \in Image
  BY DEF Tracing, Running, Unharmed, Command
<1>2. PICK rows, h, w, rank, first, known :
         up <= h /\ HasHalf(s, keys, rows, h, h - up, w) /\ Traced(s, rows, h, rank, first, known)
  BY DEF Tracing
<1> DEFINE i == h - up
<1>3. HalfDone(image, top, rows, h, i, w, k, right) /\ left = w[1] /\ HasHalf(s, keys, rows, h, i, w)
  BY <1>2 DEF HasHalf
<1>4. h \in Nat /\ i \in 0 .. h /\ h - (up + 1) = i - 1
  BY <1>2, <1>3, PageNumbers DEF HalfDone
<1>5. t = IF p = 0 THEN InsertIntoNewRoot(s, left, k, right)
          ELSE IF c.n < InternalOrder - 1
          THEN [WritePage(s, p, NodeWith(c, li, k, right)) EXCEPT !.next = Nothing]
          ELSE SplitNode(s, p, li, k, right)
  BY DEF InsertIntoParent, LeftIndex
<1>6. left \in 1 .. MaxPage /\ p = image[left].parent
  <2> HIDE DEF image, top, k, right, i
  <2>1. InTree(rows, h, left)
    BY <1>3, HalvesAreIn
  <2>2. \A j \in 0 .. h : \A e \in rows[j] : e[1] \in 1 .. MaxPage
    BY <1>3 DEF HalfDone, EntryInOrder, Entry
  <2>3. left \in 1 .. MaxPage
    BY <2>1, <2>2 DEF InTree
  <2>4. left # 0
    BY <2>3, PageNumbers
  <2> QED BY <2>3, <2>4 DEF Read, image
<1> HIDE DEF i
<1>7. CASE i = 0
  <2>1. p = 0
    <3>1. w = <<top, 0, KeyMod>> /\ image[top].parent = 0
      BY <1>3, <1>7 DEF HalfDone, Whole
    <3> QED BY <1>3, <1>6, <3>1
  <2>2. t = InsertIntoNewRoot(s, w[1], k, right) /\ HasHalf(s, keys, rows, h, 0, w)
    BY <1>3, <1>5, <1>7, <2>1
  <2>3. Over(t) \/ Arrived(t, keys)
    BY <1>1, <2>2, RootIsMade
  <2>4. t.end # "ok" \/ LogsSafely(t)
    BY <1>1, <1>2, <2>2, RootLogs
  <2>5. Arrived(t, keys) => t.end = "ok" /\ t.next = Nothing
    BY DEF Arrived, Running, Unharmed
  <2> QED BY <2>3, <2>4, <2>5 DEF Ending
<1>8. CASE i # 0
  <2>1. i > 0 /\ up + 1 <= h
    BY <1>4, <1>8 DEF i
  <2>2. p \in 1 .. MaxPage /\ p # 0
    <3> HIDE DEF top, k, right
    <3>1. PICK q \in rows[i - 1] : IsParent(image, top, rows, i, q, w, k, right)
      BY <1>1, <1>3, <2>1, ParentOfHalf
    <3>2. q[1] = image[w[1]].parent /\ q[1] \in 1 .. MaxPage
      BY <3>1 DEF IsParent
    <3> QED BY <1>3, <1>6, <3>2, PageNumbers
  <2>3. c = image[p] /\ p = image[w[1]].parent
    BY <1>3, <1>6, <2>2 DEF Read
  <2> HIDE DEF p, c
  <2>4. CASE c.n < InternalOrder - 1
    <3> DEFINE d == NodeWith(image[p], LeftIndex(image[p], w[1]), k, right)
    <3>1. t = Ended(WritePage(s, p, d))
      BY <1>3, <1>5, <2>2, <2>3, <2>4, Zenon DEF Ended
    <3>2. d = NodeWith(s.pages[p], LeftIndex(s.pages[p], w[1]), s.next.key, s.next.new)
      OBVIOUS
    <3> HIDE DEF d
    <3>3. /\ Running(s) /\ Rooted(s) /\ HasHalf(s, keys, rows, h, i, w) /\ i > 0
          /\ s.next.new \in 1 .. MaxPage
          /\ p = s.pages[w[1]].parent /\ s.pages[p].n < InternalOrder - 1
          /\ Traced(s, rows, h, rank, first, known)
      BY <1>1, <1>2, <1>3, <2>1, <2>3, <2>4
    <3> HIDE DEF left, k, right, image, top
    <3>4. LogsSafely(t)
      BY <3>1, <3>2, <3>3, RoomyParentLogs
    <3>5. Arrived(t, keys)
      BY <3>1, <3>2, <3>3, RoomyParent
    <3> QED BY <3>4, <3>5 DEF Ending, Arrived
  <2>5. CASE ~(c.n < InternalOrder - 1)
    <3>1. t = SplitNode(s, p, LeftIndex(image[p], w[1]), k, right)
      BY <1>3, <1>5, <2>2, <2>3, <2>5
    <3>2. \/ Over(t)
          \/ Running(t) /\ Rooted(t) /\ t.next # Nothing /\ t.next.new \in 1 .. MaxPage
      <4> HIDE DEF left
      <4> QED BY <1>1, <1>3, <2>1, <2>3, <2>5, <3>1, ParentIsSplit
    <3>3. \/ Over(t)
          \/ \E rows1, w1, rank1, known1 :
                HasHalf(t, keys, rows1, h, i - 1, w1) /\ Traced(t, rows1, h, rank1, first, known1)
      <4> HIDE DEF left
      <4> QED BY <1>1, <1>2, <1>3, <2>1, <2>3, <2>5, <3>1, SplitLogs
    <3> QED BY <1>4, <2>1, <3>2, <3>3 DEF Tracing
  <2> QED BY <2>4, <2>5
<1> QED BY <1>7, <1>8

(* The whole climb. *)
LEMMA ClimbLogs ==
    ASSUME NEW s, NEW keys, Tracing(s, keys, 0), NEW t, t = Climb(InsertIntoParent, s)
    PROVE  Over(t) \/ LogsSafely(t)
<1> DEFINE level[d \in 0 .. MaxPage] == IF d = 0 THEN s ELSE InsertLevel(level[d - 1])
           S == {d \in 0 .. MaxPage : Over(level[d]) \/ Ending(level[d]) \/ Tracing(level[d], keys, d)}
<1>1. t = level[MaxPage]
  BY DEF Climb, IsInsertClimb, InsertLevel
<1>2. IsInsertClimb(level, s)
  BY InsertClimbs, Zenon DEF IsInsertClimb
<1> HIDE DEF level
<1>3. level[0] = s /\ \A d \in 1 .. MaxPage : level[d] = InsertLevel(level[d - 1])
  <2>1. 0 \in 0 .. MaxPage /\ \A d \in 1 .. MaxPage : d \in 0 .. MaxPage /\ d # 0
    BY PageNumbers
  <2> QED BY <1>2, <2>1, Zenon DEF IsInsertClimb
<1>4. 0 \in S /\ MaxPage \in Nat
  BY <1>3, PageNumbers
<1>5. ASSUME NEW d \in 0 + 1 .. MaxPage, d - 1 \in S PROVE d \in S
  <2> DEFINE u == level[d - 1]
             v == level[d]
  <2>1. d \in 0 .. MaxPage /\ d - 1 \in Nat /\ (d - 1) + 1 = d /\ v = InsertLevel(u)
    BY <1>3, <1>4, <1>5
  <2>2. Over(u) \/ Ending(u) \/ Tracing(u, keys, d - 1)
    BY <1>5
  <2>3. Over(u) => Over(v)
    BY <2>1, InsertHurts DEF Over, InsertLevel
  <2>4. Ending(u) => v = u
    BY <2>1 DEF Ending, InsertLevel
  <2>5. Tracing(u, keys, d - 1) => v = InsertIntoParent(u)
    BY <2>1 DEF Tracing, InsertLevel, Running, Unharmed
  <2> HIDE DEF u, v
  <2>6. Tracing(u, keys, d - 1) => Over(v) \/ Ending(v) \/ Tracing(v, keys, d)
    BY <2>1, <2>5, OneLevelLogs
  <2>7. Over(v) \/ Ending(v) \/ Tracing(v, keys, d)
    BY <2>2, <2>3, <2>4, <2>6
  <2> QED BY <2>1, <2>7 DEF v
<1> HIDE DEF S
<1>6. \A d \in 0 .. MaxPage : d \in S
  BY <1>4, <1>5, IntervalInduction
<1>7. Over(t) \/ Ending(t) \/ Tracing(t, keys, MaxPage)
  BY <1>1, <1>4, <1>6 DEF S
<1>8. ~Tracing(t, keys, MaxPage)
  BY PageNumbers DEF Tracing, HasHalf, HalfDone
<1> QED BY <1>7, <1>8 DEF Ending

(* The leaf is full.                                                       *)
LEMMA FullLeafLogs ==
    ASSUME NEW s, Running(s), Rooted(s),
           NEW rows, NEW h, IsTree(s.pages, s.root.at, rows, h), Room(s.header, s.pages, rows, h, 2),
           Linked(s.pages, rows[h]),
           NEW e \in rows[h], NEW k \in KeyValue, Holds(e, k), k \notin KeysOf(s.pages[e[1]]),
           ~HasRoom(s.pages[e[1]]),
           NEW rank, NEW first, NEW known, Traced(s, rows, h, rank, first, known),
           NEW t, t = SplitLeaf(s, e[1], k)
    PROVE  Over(t) \/ LogsSafely(t)
<1> DEFINE u == MakePage(s)
           half == LeafHalves(Read(u, e[1]), k, NewPage(u))
           v == LeafWrites(u, e[1], half)
           keys == Plus(k, RowKeys(s.pages, rows[h]))
           r == u.new
<1>1. t = IF u.end # "ok" THEN u ELSE Climb(InsertIntoParent, v)
  BY SplitLeafIs
<1>2. \/ u.end # "ok" /\ Over(u)
      \/ /\ u.end = "ok" /\ Running(u) /\ r \in 1 .. MaxPage /\ e[1] \in 1 .. MaxPage
         /\ half.left \in Page /\ half.right \in Page /\ half.left.leaf /\ half.right.leaf
         /\ Running(v) /\ Rooted(v) /\ v.next # Nothing /\ v.next.new = r
         /\ v.header = u.header
         /\ \E rows1 : HasHalf(v, keys, rows1, h, h, e) /\ Grown(rows, rows1, h, h, r)
  <2>1. u = MakePage(s) /\ half = LeafHalves(Read(u, e[1]), k, NewPage(u)) /\ v = LeafWrites(u, e[1], half)
    OBVIOUS
  <2> HIDE DEF u, half, v
  <2>2. r = u.new /\ keys = Plus(k, RowKeys(s.pages, rows[h]))
    OBVIOUS
  <2> HIDE DEF r, keys
  <2> QED BY <2>1, <2>2, LeafIsSplit
<1>3. CASE u.end # "ok" /\ Over(u)
  BY <1>1, <1>3
<1>4. CASE /\ u.end = "ok" /\ Running(u) /\ r \in 1 .. MaxPage /\ e[1] \in 1 .. MaxPage
           /\ half.left \in Page /\ half.right \in Page /\ half.left.leaf /\ half.right.leaf
           /\ Running(v) /\ Rooted(v) /\ v.next # Nothing /\ v.next.new = r
           /\ v.header = u.header
           /\ \E rows1 : HasHalf(v, keys, rows1, h, h, e) /\ Grown(rows, rows1, h, h, r)
  <2> DEFINE u1 == WritePage(u, e[1], half.left)
             u2 == WritePage(u1, r, half.right)
  <2>1. h \in Nat /\ h \in Int /\ 0 \in 0 .. h /\ h \in 0 .. h /\ h - h = 0 /\ 0 \in PageNo /\ h - 0 = h
    <3>1. h \in Nat
      BY PageNumbers DEF IsTree
    <3> QED BY <3>1, PageNumbers DEF PageNo
  <2>2. PICK rows1 : HasHalf(v, keys, rows1, h, h, e) /\ Grown(rows, rows1, h, h, r)
    BY <1>4
  <2>3. e[1] \in known
    <3>1. OnRow(rows[h], h - h, rank, known)
      BY <2>1 DEF Traced, Placed
    <3> QED BY <3>1 DEF OnRow
  <2>4. v = [u2 EXCEPT !.next = [child |-> e[1], key |-> half.right.key[0], new |-> r]]
    BY DEF LeafWrites
  <2>5. /\ Running(s) /\ ClearAhead(s.header, s.pages) /\ Logged(s, rank, first, known)
        /\ Ahead(s.header, known) /\ u = MakePage(s) /\ u.end = "ok" /\ 0 \in PageNo
    BY <1>4, <2>1 DEF Traced, Room
  <2> HIDE DEF u, half, v, keys
  <2>6. /\ \E rank1 : Logged(u, rank1, first, known) /\ Reranked(rank, rank1, r, 0, known)
        /\ Ahead(u.header, known \cup {r})
    BY <2>5, MakeLogs
  <2>7. PICK rank1 : Logged(u, rank1, first, known) /\ Reranked(rank, rank1, r, 0, known)
    BY <2>6
  <2>8. Running(u1) /\ Logged(u1, rank1, first, known)
    <3>1. Running(u) /\ e[1] \in 1 .. MaxPage /\ half.left \in Page /\ u1 = WritePage(u, e[1], half.left)
          /\ LeadsDown(half.left, e[1], rank1, known)
      BY <1>4 DEF LeadsDown
    <3> HIDE DEF u1, r
    <3>2. Running(u1)
      BY <3>1, WriteRuns
    <3>3. Logged(u1, rank1, first, known \cup {e[1]})
      BY <2>7, <3>1, WriteLogs
    <3>4. known \cup {e[1]} = known
      BY <2>3
    <3> QED BY <3>2, <3>3, <3>4
  <2>9. Running(u2) /\ Logged(u2, rank1, first, known \cup {r})
    <3>1. Running(u1) /\ r \in 1 .. MaxPage /\ half.right \in Page /\ u2 = WritePage(u1, r, half.right)
          /\ LeadsDown(half.right, r, rank1, known)
      BY <1>4, <2>8 DEF LeadsDown
    <3> HIDE DEF u1, u2, r
    <3>2. Running(u2)
      BY <3>1, WriteRuns
    <3>3. Logged(u2, rank1, first, known \cup {r})
      BY <2>8, <3>1, WriteLogs
    <3> QED BY <3>2, <3>3
  <2> HIDE DEF u1, u2, r
  <2>10. Logged(v, rank1, first, known \cup {r})
    <3>1. v.pages = u2.pages /\ v.log = u2.log /\ v.header.root = u2.header.root
      BY <2>4, <2>9 DEF Running, Unharmed, Command
    <3> QED BY <2>9, <3>1, SameLogs
  <2>11. Placed(rows1, h, rank1, known \cup {r})
    <3>1. Placed(rows, h, rank, known) /\ Reranked(rank, rank1, r, h - h, known)
      BY <2>1, <2>7 DEF Traced
    <3> QED BY <2>1, <2>2, <3>1, GrownPlaced
  <2>12. Traced(v, rows1, h, rank1, first, known \cup {r})
    BY <1>4, <2>6, <2>10, <2>11 DEF Traced
  <2>13. Tracing(v, keys, 0)
    <3>1. 0 <= h /\ HasHalf(v, keys, rows1, h, h - 0, e)
      BY <2>1, <2>2
    <3> QED BY <1>4, <2>12, <3>1 DEF Tracing
  <2> QED BY <1>1, <1>4, <2>13, ClimbLogs
<1> HIDE DEF u, half, v, keys, r
<1> QED BY <1>2, <1>3, <1>4

(* The leaf has room. *)
LEMMA RoomyLeafLogs ==
    ASSUME NEW s, Running(s), Rooted(s),
           NEW rows, NEW h, IsTree(s.pages, s.root.at, rows, h),
           NEW e \in rows[h], NEW k \in KeyValue, Holds(e, k), k \notin KeysOf(s.pages[e[1]]),
           HasRoom(s.pages[e[1]]),
           NEW rank, NEW first, NEW known, Logged(s, rank, first, known),
           NEW t, t = WritePage(s, e[1], LeafWith(s.pages[e[1]], k))
    PROVE  LogsSafely(t)
<1> DEFINE image == s.pages
           top == s.root.at
           leaf == e[1]
           c == image[leaf]
           d == LeafWith(c, k)
<1>1. image \in Image /\ top \in 1 .. MaxPage /\ h \in Nat /\ h \in 0 .. h
  <2>1. h \in Nat
    BY PageNumbers DEF IsTree
  <2> QED BY <2>1 DEF Running, Unharmed, Command, Rooted
<1>2. /\ leaf \in 1 .. MaxPage /\ e[2] \in Int /\ e[3] \in Int /\ c \in Page /\ c.leaf
      /\ SlotsInOrder(c, e[2], e[3]) /\ e[2] <= k /\ k < e[3]
  <2>1. EntryInOrder(image, top, e) /\ image[e[1]].leaf
    BY <1>1 DEF IsTree
  <2>2. e \in Entry /\ SlotsInOrder(c, e[2], e[3])
    BY <2>1 DEF EntryInOrder
  <2>3. leaf \in 1 .. MaxPage /\ e[2] \in Int /\ e[3] \in Int
    BY <2>2, NodeAssumption DEF Entry, Bound
  <2> QED BY <1>1, <2>1, <2>2, <2>3 DEF Image, Holds
<1>3. d \in Page
  <2>1. c.n < LeafOrder - 1 /\ k \notin KeysOf(c)
    BY DEF HasRoom
  <2> HIDE DEF c
  <2> QED BY <1>2, <2>1, LeafTakesKey
<1>4. d.leaf
  BY <1>2 DEF LeafWith, Page
<1>5. t = WritePage(s, leaf, d)
  OBVIOUS
<1> HIDE DEF d, leaf
<1>6. LeadsDown(d, leaf, rank, known)
  BY <1>3, <1>4 DEF LeadsDown
<1>7. Logged(t, rank, first, known \cup {leaf})
  BY <1>2, <1>5, <1>6, WriteLogs
<1> QED BY <1>7 DEF LogsSafely

(* The tree is empty. *)
LEMMA StartLogs ==
    ASSUME NEW s, Running(s), s.next = Nothing, ClearAhead(s.header, s.pages),
           NEW k \in KeyValue \ {0},
           NEW rank, NEW first, NEW known, Logged(s, rank, first, known), Ahead(s.header, known),
           NEW t, t = StartNewTree(s, k)
    PROVE  Over(t) \/ LogsSafely(t)
<1> DEFINE u == MakePage(s)
           r == u.new
           c == Started(NewPage(u).node, k)
           d == FirstLeaf(k)
<1>1. t = IF u.end # "ok" THEN u ELSE SetRoot(u, r, c)
  BY DEF StartNewTree, Started
<1>3. \/ u.end # "ok" /\ Over(u)
      \/ /\ Running(u) /\ SameTree(s, u) /\ r = s.header.free
         /\ r \in 1 .. MaxPage /\ r + 1 \in 1 .. MaxPage
         /\ u.header = HeaderAfter(r, s.header.root) /\ NewPage(u) = Fresh(r, ZeroPage)
  BY MakeRuns
<1>m. u = MakePage(s)
  OBVIOUS
<1> HIDE DEF u
<1>4. CASE u.end # "ok" /\ Over(u)
  BY <1>1, <1>4
<1>5. CASE Running(u) /\ r \in 1 .. MaxPage /\ NewPage(u) = Fresh(r, ZeroPage)
  <2>1. u.end = "ok"
    BY <1>5 DEF Running, Unharmed
  <2>2. c = d
    BY <1>5, FirstLeafIs DEF Fresh
  <2>3. d \in Page /\ d.leaf
    <3>1. d.leaf = TRUE
      BY DEF FirstLeaf
    <3> QED BY <3>1, FirstLeafIs
  <2>4. t = SetRoot(u, r, d)
    <3> HIDE DEF c, d
    <3> QED BY <1>1, <2>1, <2>2
  <2> HIDE DEF c, d
  <2>5. PICK rank1 : Logged(u, rank1, first, known)
    <3>1. 0 \in PageNo
      BY PageNumbers DEF PageNo
    <3> QED BY <1>m, <2>1, <3>1, MakeLogs
  <2>6. LeadsDown(d, r, rank1, known)
    BY <2>3 DEF LeadsDown
  <2> HIDE DEF r
  <2>7. Logged(t, rank1, first, known \cup {r})
    BY <1>5, <2>4, <2>5, <2>6, SetRootLogs
  <2> QED BY <2>7 DEF LogsSafely
<1> QED BY <1>3, <1>4, <1>5

-----------------------------------------------------------------------------
(* The file at the prompt.                                                 *)

(* The row a page of the tree is in. *)
RowOf(rows, h, x) == CHOOSE j \in 0 .. h : \E f \in rows[j] : f[1] = x

(* A tree that is whole is searchable: its pages are known, and the rank   *)
(* of each is how far it is above the leaves.                              *)
LEMMA TreeRanks ==
    ASSUME NEW image \in Image, NEW head, head.root \in 1 .. MaxPage,
           NEW rows, NEW h, IsTree(image, head.root, rows, h), Room(head, image, rows, h, 2)
    PROVE  \E rank, known : /\ FileSafe(image, head, rank, known)
                            /\ Placed(rows, h, rank, known) /\ Ahead(head, known)
<1> DEFINE known == {x \in 1 .. MaxPage : InTree(rows, h, x)}
           rank == [x \in 1 .. MaxPage |-> IF InTree(rows, h, x) THEN h - RowOf(rows, h, x) ELSE 0]
<1>1. /\ h \in Nat /\ h \in 0 .. MaxPage - 1 /\ 0 \in 0 .. h /\ rows[0] = {<<head.root, 0, KeyMod>>}
      /\ MaxPage \in Nat /\ 0 .. MaxPage = PageNo
  BY PageNumbers DEF IsTree
<1>2. \A j \in 0 .. h : \A e \in rows[j] : e[1] \in 1 .. MaxPage
  BY DEF IsTree, EntryInOrder, Entry
<1>3. Once(rows, h)
  BY OnePlace
<1>4. ASSUME NEW x, InTree(rows, h, x)
      PROVE  RowOf(rows, h, x) \in 0 .. h /\ \E f \in rows[RowOf(rows, h, x)] : f[1] = x
  BY <1>4 DEF InTree, RowOf
<1>5. ASSUME NEW j \in 0 .. h, NEW e \in rows[j]
      PROVE  e[1] \in 1 .. MaxPage /\ InTree(rows, h, e[1]) /\ RowOf(rows, h, e[1]) = j
  <2>1. InTree(rows, h, e[1])
    BY <1>5 DEF InTree
  <2>2. RowOf(rows, h, e[1]) \in 0 .. h /\ \E f \in rows[RowOf(rows, h, e[1])] : f[1] = e[1]
    BY <1>4, <2>1
  <2>3. RowOf(rows, h, e[1]) = j
    BY <1>3, <1>5, <2>2 DEF Once
  <2> QED BY <1>2, <1>5, <2>1, <2>3
<1>6. rank \in Rank
  <2>1. ASSUME NEW x, InTree(rows, h, x) PROVE h - RowOf(rows, h, x) \in PageNo
    <3> DEFINE r == RowOf(rows, h, x)
    <3>1. r \in 0 .. h
      BY <1>4, <2>1
    <3> HIDE DEF r
    <3>2. h - r \in 0 .. MaxPage
      BY <1>1, <3>1
    <3> QED BY <1>1, <3>2 DEF r
  <2>2. 0 \in PageNo
    BY <1>1
  <2> QED BY <2>1, <2>2 DEF Rank
<1>7. \A x \in 1 .. MaxPage : InTree(rows, h, x) => rank[x] = h - RowOf(rows, h, x)
  OBVIOUS
<1>8. known \subseteq 1 .. MaxPage /\ \A x : x \in known <=> x \in 1 .. MaxPage /\ InTree(rows, h, x)
  OBVIOUS
<1> HIDE DEF rank, known
<1>9. ASSUME NEW j \in 0 .. h, NEW e \in rows[j] PROVE e[1] \in known /\ rank[e[1]] = h - j
  BY <1>5, <1>7, <1>8, <1>9
<1>10. Placed(rows, h, rank, known)
  BY <1>9 DEF Placed, OnRow
<1>11. ASSUME NEW p \in known PROVE LeadsDown(image[p], p, rank, known)
  <2>1. PICK j \in 0 .. h : \E f \in rows[j] : f[1] = p
    BY <1>8 DEF InTree
  <2>2. PICK e \in rows[j] : e[1] = p
    BY <2>1
  <2>3. j # h => OnRow(rows[j + 1], h - (j + 1), rank, known)
    <3>1. j # h => j + 1 \in 0 .. h
      BY <1>1
    <3> QED BY <1>10, <3>1 DEF Placed
  <2>4. rank[e[1]] = h - j
    BY <1>9
  <2>5. LeadsDown(image[e[1]], e[1], rank, known)
    BY <2>3, <2>4, TreeLeads
  <2> QED BY <2>2, <2>5
<1>12. head.root \in known
  <2> DEFINE e == <<head.root, 0, KeyMod>>
  <2>1. e \in rows[0] /\ e[1] = head.root
    BY <1>1
  <2> HIDE DEF e
  <2> QED BY <1>1, <1>9, <2>1
<1>13. FileSafe(image, head, rank, known)
  BY <1>6, <1>8, <1>11, <1>12 DEF FileSafe
<1>14. Ahead(head, known)
  BY <1>8 DEF Ahead, Room
<1> QED BY <1>10, <1>13, <1>14

(* So is a file without a tree.                                            *)
LEMMA NoTreeRanks ==
    ASSUME NEW image, NEW head, head.root = 0
    PROVE  \E rank : FileSafe(image, head, rank, {}) /\ Ahead(head, {})
<1> DEFINE rank == [x \in 1 .. MaxPage |-> 0]
<1>1. rank \in Rank
  BY PageNumbers DEF Rank
<1> HIDE DEF rank
<1>2. FileSafe(image, head, rank, {}) /\ Ahead(head, {})
  BY <1>1 DEF FileSafe, Ahead
<1> QED BY <1>2

(* At the prompt nothing was written yet. *)
LEMMA NowLogs ==
    ASSUME pages \in Image, header \in HeadType, root \in Copy,
           NEW rank, NEW known, FileSafe(pages, header, rank, known)
    PROVE  Logged(Now, rank, known, known)
<1>1. Now.pages = pages /\ Now.header = header /\ Now.log = <<>>
  BY DEF Now
<1>2. LogSafe(<<>>, rank, known)
  BY DEF LogSafe
<1>3. Known(known, <<>>, Len(<<>>)) = known
  BY DEF Known
<1> QED BY <1>1, <1>2, <1>3 DEF Logged

LEMMA KeptIsSafe ==
    ASSUME Kept
    PROVE  SafeFile(pages, header, <<>>)
<1>1. \E rank, known : FileSafe(pages, header, rank, known)
  <2>1. CASE header.root = 0
    BY <2>1, NoTreeRanks
  <2>2. CASE header.root # 0
    <3>1. header.root \in 1 .. MaxPage /\ pages \in Image
      BY <2>2, PageNumbers DEF Kept, HeadType, PageNo
    <3>2. PICK rows, h : IsTree(pages, header.root, rows, h) /\ Room(header, pages, rows, h, 2)
      BY <2>2 DEF Kept, HasRows
    <3> QED BY <3>1, <3>2, TreeRanks
  <2> QED BY <2>1, <2>2
<1>2. \A rank, known : LogSafe(<<>>, rank, known)
  BY DEF LogSafe
<1> QED BY <1>1, <1>2 DEF SafeFile

(* insert (bpt.c:720) writes what is safe, or is over. *)
LEMMA InsertIsSafe ==
    ASSUME Kept, proc = "up", NEW k \in Key, ~Finds(pages, root.at, k), NEW t, t = Insert(k)
    PROVE  Over(t) \/ SafeFile(pages, header, t.log)
<1> SUFFICES Over(t) \/ LogsSafely(t)
  BY DEF LogsSafely, Logged, SafeFile
<1> DEFINE top == root.at
           leaf == FindLeaf(pages, top, k)
<1>1. /\ pages \in Image /\ Running(Now) /\ Now.next = Nothing
      /\ Now.pages = pages /\ Now.header = header /\ Now.root = root
      /\ ClearAhead(header, pages) /\ root.at = header.root /\ (root.null => root.at = 0)
      /\ root \in Copy /\ header \in HeadType /\ k \in KeyValue \ {0}
  BY NowRuns, KeysAreValues DEF Kept
<1>2. t = IF root.null THEN StartNewTree(Now, k)
          ELSE IF top = 0 THEN Stop(Now, "segv")
          ELSE IF leaf = 0 THEN Stop(Now, "corrupt")
          ELSE IF ~pages[leaf].leaf THEN Stop(Now, "hung")
          ELSE IF HasRoom(pages[leaf])
          THEN WritePage(Now, leaf, LeafWith(pages[leaf], k))
          ELSE SplitLeaf(Now, leaf, k)
  BY DEF Insert
<1>3. CASE root.null
  <2>1. t = StartNewTree(Now, k) /\ header.root = 0
    BY <1>1, <1>2, <1>3
  <2>2. PICK rank : FileSafe(pages, header, rank, {}) /\ Ahead(header, {})
    BY <2>1, NoTreeRanks
  <2>3. Logged(Now, rank, {}, {}) /\ Ahead(Now.header, {})
    BY <1>1, <2>2, NowLogs
  <2> QED BY <1>1, <2>1, <2>3, StartLogs
<1>4. CASE ~root.null /\ top = 0
  <2>1. t = Stop(Now, "segv")
    BY <1>2, <1>4
  <2>2. Now.end = "ok" /\ Now \in Command
    BY <1>1 DEF Running, Unharmed
  <2>3. Hurting(t)
    BY <2>1, <2>2 DEF Stop, Hurting, Command
  <2> QED BY <2>3 DEF Over
<1>5. CASE ~root.null /\ top # 0
  <2>1. header.root = top /\ top \in 1 .. MaxPage
    <3>1. root.at \in PageNo
      BY <1>1 DEF Copy
    <3> QED BY <1>1, <1>5, <3>1, PageNumbers DEF PageNo
  <2>2. PICK rows, h : /\ IsTree(pages, top, rows, h) /\ Room(header, pages, rows, h, 2)
                       /\ RowKeys(pages, rows[h]) \subseteq Key /\ Linked(pages, rows[h])
    BY <1>5, <2>1 DEF Kept, HasRows
  <2>3. InOrderBelow(pages, top) /\ Leaves(pages, top) = rows[h]
    BY <1>1, <2>1, <2>2, RowsAreEnough
  <2>4. PICK e \in rows[h] : Holds(e, k) /\ e[1] = leaf
    BY <1>1, <2>1, <2>3, FindLeafIsRight
  <2>5. leaf \in 1 .. MaxPage /\ leaf # 0 /\ pages[leaf].leaf
    <3>1. leaf \in 1 .. MaxPage /\ pages[leaf].leaf
      BY <1>1, <2>1, <2>3, <2>4, LeafFacts
    <3> QED BY <3>1, PageNumbers
  <2>6. k \notin KeysOf(pages[leaf])
    <3>1. k \notin KeysBelow(pages, top)
      BY <1>1, <2>1, <2>3, FindIsExact
    <3> QED BY <2>3, <2>4, <3>1 DEF KeysBelow
  <2>7. t = IF HasRoom(pages[e[1]]) THEN WritePage(Now, e[1], LeafWith(pages[e[1]], k))
            ELSE SplitLeaf(Now, e[1], k)
    BY <1>2, <1>5, <2>4, <2>5
  <2>8. Rooted(Now)
    BY <1>1, <1>5, <2>1 DEF Rooted
  <2>9. /\ IsTree(Now.pages, Now.root.at, rows, h) /\ Room(Now.header, Now.pages, rows, h, 2)
        /\ k \notin KeysOf(Now.pages[e[1]]) /\ Linked(Now.pages, rows[h])
    BY <1>1, <2>2, <2>4, <2>6
  <2>10. PICK rank, known : /\ FileSafe(pages, header, rank, known)
                            /\ Placed(rows, h, rank, known) /\ Ahead(header, known)
    BY <1>1, <2>1, <2>2, TreeRanks
  <2>11. Logged(Now, rank, known, known)
    BY <1>1, <2>10, NowLogs
  <2>12. Traced(Now, rows, h, rank, known, known)
    BY <1>1, <2>10, <2>11 DEF Traced
  <2> HIDE DEF leaf, top
  <2>13. CASE HasRoom(pages[e[1]])
    <3>1. t = WritePage(Now, e[1], LeafWith(Now.pages[e[1]], k)) /\ HasRoom(Now.pages[e[1]])
      BY <1>1, <2>7, <2>13
    <3> QED BY <1>1, <2>4, <2>8, <2>9, <2>11, <3>1, RoomyLeafLogs
  <2>14. CASE ~HasRoom(pages[e[1]])
    <3>1. t = SplitLeaf(Now, e[1], k) /\ ~HasRoom(Now.pages[e[1]])
      BY <1>1, <2>7, <2>14
    <3> QED BY <1>1, <2>4, <2>8, <2>9, <2>12, <3>1, FullLeafLogs
  <2> QED BY <2>13, <2>14
<1> QED BY <1>3, <1>4, <1>5

(* What is on disk, and what is still to be written, while no command      *)
(* deletes.                                                                *)
FileInv == Sound /\ cmd.kind # "delete" => SafeFile(disk, diskHeader, todo)

(* A write of an insertion reaches the file, or the last one of a deletion. *)
LEMMA FlushLeavesSafe ==
    ASSUME Kept, harm = {}, FileInv, Kept', Flush, cmd'.kind # "delete"
    PROVE  SafeFile(disk', diskHeader', todo')
<1> DEFINE w == Head(todo)
<1>1. /\ todo # <<>> /\ todo \in Seq(Writes) /\ todo' = Tail(todo)
      /\ cmd' = IF Len(todo) = 1 /\ end = "ok" THEN Idle ELSE cmd
      /\ IF w.at = 0 THEN diskHeader' = w.is /\ disk' = disk
         ELSE disk' = [disk EXCEPT ![w.at] = w.is] /\ diskHeader' = diskHeader
  BY DEF Flush, Kept
<1>2. CASE cmd.kind = "delete"
  <2>1. Len(todo) = 1
    BY <1>1, <1>2
  <2>2. Tail(todo) = <<>>
    BY <1>1, <2>1
  <2>3. (todo = <<>>)'
    BY <1>1, <2>2
  <2>4. (disk = pages /\ diskHeader = header)'
    BY <2>3, AllIsWritten, PTL
  <2>5. SafeFile(pages, header, <<>>)'
    BY KeptIsSafe, PTL
  <2> QED BY <2>3, <2>4, <2>5
<1>3. CASE cmd.kind # "delete"
  <2>1. SafeFile(disk, diskHeader, todo)
    BY <1>3 DEF FileInv, Sound
  <2>2. w.at = 0 => diskHeader' = w.is /\ disk' = disk
    BY <1>1
  <2>3. w.at # 0 => diskHeader' = diskHeader /\ \A p \in 1 .. MaxPage : disk'[p] = IF p = w.at THEN w.is ELSE disk[p]
    BY <1>1 DEF Kept, IsPages
  <2>4. w = Head(todo)
    OBVIOUS
  <2> HIDE DEF w
  <2> QED BY <1>1, <2>1, <2>2, <2>3, <2>4, FlushIsSafe
<1> QED BY <1>2, <1>3

(* No step leaves the file unsearchable. *)
LEMMA FileStep ==
    ASSUME Kept, harm = {}, FileInv, [Next]_vars, Kept', harm' = {}
    PROVE  FileInv'
<1> SUFFICES ASSUME cmd'.kind # "delete" PROVE SafeFile(disk', diskHeader', todo')
  BY DEF FileInv
<1>1. ASSUME (todo = <<>>)' PROVE SafeFile(disk', diskHeader', todo')
  <2>1. (Kept /\ todo = <<>> => disk = pages /\ diskHeader = header)'
    BY AllIsWritten, PTL
  <2>2. (Kept => SafeFile(pages, header, <<>>))'
    BY KeptIsSafe, PTL
  <2> QED BY <1>1, <2>1, <2>2
<1>2. ASSUME NEW k \in Key, CmdInsert(k) PROVE SafeFile(disk', diskHeader', todo')
  <2> DEFINE s == Insert(k)
  <2>1. /\ proc = "up" /\ todo = <<>> /\ ~Finds(pages, root.at, k) /\ s.end # "full"
        /\ todo' = s.log /\ harm' = harm \cup s.harm /\ disk' = disk /\ diskHeader' = diskHeader
    BY <1>2 DEF CmdInsert, Run, AtPrompt
  <2>2. Over(s) \/ SafeFile(pages, header, s.log)
    BY <2>1, InsertIsSafe
  <2> HIDE DEF s
  <2>3. ~Over(s)
    BY <2>1 DEF Over, Hurting
  <2>4. disk = pages /\ diskHeader = header
    BY <2>1, AllIsWritten
  <2> QED BY <2>1, <2>2, <2>3, <2>4
<1>3. ASSUME NEW k \in Deletable, CmdDelete(k) PROVE FALSE
  BY <1>3 DEF CmdDelete, Run
<1>4. ~Fail
  BY DEF Kept, Fail
<1>5. ASSUME Crash \/ Open PROVE (todo = <<>>)'
  <2>1. Crash => todo' = <<>>
    BY DEF Crash, MemoryGone
  <2>2. Open => todo' = todo /\ proc = "down"
    BY DEF Open
  <2> QED BY <1>5, <2>1, <2>2 DEF Kept
<1>6. ASSUME UNCHANGED vars PROVE SafeFile(disk', diskHeader', todo')
  BY <1>6 DEF vars, FileInv, Sound
<1> QED BY <1>1, <1>2, <1>3, <1>4, <1>5, <1>6, FlushLeavesSafe DEF Next

(* At every write of an insertion, and whenever no command runs, the file  *)
(* leads every search to a leaf (the order of the writes in bpt.c:510 to   *)
(* bpt.c:700), as long as none of the paths in Harm is taken.              *)
THEOREM FileStaysSearchable == Spec => []InsertKeepsFileSearchable
<1>1. Init => FileInv
  <2>1. Init => Kept /\ todo = <<>>
    BY KeptInit DEF Init
  <2>2. Kept /\ todo = <<>> => SafeFile(disk, diskHeader, todo)
    BY KeptIsSafe, AllIsWritten
  <2> QED BY <2>1, <2>2 DEF FileInv
<1>2. KeptInv /\ KeptInv' /\ FileInv /\ [Next]_vars => FileInv'
  <2> SUFFICES ASSUME KeptInv, KeptInv', FileInv, [Next]_vars, harm' = {} PROVE FileInv'
    BY DEF FileInv, Sound
  <2>1. harm = {}
    BY HarmStays
  <2>2. Kept
    BY <2>1 DEF KeptInv, Sound
  <2>3. Kept'
    BY DEF KeptInv, Sound
  <2> QED BY <2>1, <2>2, <2>3, FileStep
<1>3. FileInv => InsertKeepsFileSearchable
  <2> SUFFICES ASSUME FileInv, Sound, cmd.kind # "delete", diskHeader.root # 0, NEW k \in Key
               PROVE  FindLeaf(disk, diskHeader.root, k) # 0 /\ disk[FindLeaf(disk, diskHeader.root, k)].leaf
    BY DEF InsertKeepsFileSearchable
  <2> DEFINE p == FindLeaf(disk, diskHeader.root, k)
  <2>1. PICK rank, known : FileSafe(disk, diskHeader, rank, known)
    BY DEF FileInv, SafeFile
  <2>2. k \in KeyValue \ {0}
    BY KeysAreValues
  <2>3. p \in known /\ disk[p].leaf
    BY <2>1, <2>2, SearchEnds
  <2> HIDE DEF p
  <2>4. p \in 1 .. MaxPage
    BY <2>1, <2>3 DEF FileSafe
  <2>5. p # 0
    BY <2>4, PageNumbers
  <2> QED BY <2>3, <2>5 DEF p
<1> QED BY <1>1, <1>2, <1>3, KeptInvariant, PTL DEF Spec
=============================================================================
