--------------------------- MODULE SessionProofs ----------------------------
(***************************************************************************)
(* The buffer pool and the tables, for every number of frames, tables,     *)
(* pages and files. First the calls of BufferPool.tla: what each does to   *)
(* the list, the tags and the pins, and that it keeps PoolInv, the         *)
(* invariant of the pool between two calls. Then the sessions of           *)
(* Session.tla that are made of them.                                      *)
(***************************************************************************)
EXTENDS Session, Intervals, TLAPS

(* path runs through all frames along the pointers link. *)
Path(link, start, path) ==
    /\ link \in [Frame -> Frame \cup {NULL}]
    /\ path \in [Frame -> Frame]
    /\ start = path[1]
    /\ \A k \in Frame : link[path[k]] = IF k = BUFFER_SIZE THEN NULL ELSE path[k + 1]

(* Following the pointers from the start lists the path.                   *)
LEMMA ChainIsPath ==
    ASSUME NEW link, NEW start, NEW path, Path(link, start, path)
    PROVE  Chain(link, start) = path
<1> USE PoolAssumption DEF Frame, NULL
<1> DEFINE At(g, k) == IF k = 1 THEN start
                       ELSE LET f == g[k - 1] IN IF f = NULL THEN NULL ELSE link[f]
           Eq(g) == g = [k \in Frame |-> At(g, k)]
<1>1. Chain(link, start) = CHOOSE g : Eq(g)
  BY Zenon DEF Chain
<1>2. Eq(path)
  <2>1. \A k \in Frame : path[k] = At(path, k)
    BY DEF Path
  <2> HIDE DEF At
  <2> QED BY <2>1 DEF Path
<1>3. ASSUME NEW g, Eq(g)
      PROVE  g = path
  <2> DEFINE S == {k \in Frame : g[k] = path[k]}
  <2>1. g[1] = path[1]
    BY <1>3 DEF Path
  <2>2. ASSUME NEW k \in 2 .. BUFFER_SIZE, g[k - 1] = path[k - 1]
        PROVE  g[k] = path[k]
    <3>1. At(g, k) = At(path, k)
      BY <2>2
    <3> HIDE DEF At
    <3> QED BY <1>2, <1>3, <3>1
  <2>3. \A k \in 1 .. BUFFER_SIZE : k \in S
    <3>1. 1 \in S /\ \A k \in 1 + 1 .. BUFFER_SIZE : k - 1 \in S => k \in S
      BY <2>1, <2>2
    <3> HIDE DEF S
    <3> QED BY <3>1, IntervalInduction
  <2> HIDE DEF At
  <2> QED BY <1>2, <1>3, <2>3
<1> HIDE DEF Eq
<1> QED BY <1>1, <1>2, <1>3

(* A search along the pointers stops at the first frame of S, or at the    *)
(* end of the list: by induction over the steps.                           *)
LEMMA FirstOfPath ==
    ASSUME NEW link, NEW start, NEW path, Path(link, start, path),
           NEW S \in SUBSET Frame, NEW n \in 1 .. BUFFER_SIZE + 1,
           n # BUFFER_SIZE + 1 => path[n] \in S, \A k \in 1 .. n - 1 : path[k] \notin S
    PROVE  FirstOf(link, start, S) = IF n = BUFFER_SIZE + 1 THEN NULL ELSE path[n]
<1> USE PoolAssumption DEF Frame, NULL
<1> DEFINE Step(f) == IF f = NULL \/ f \in S THEN f ELSE link[f]
           Eq(g) == g = [k \in 0 .. BUFFER_SIZE |-> IF k = 0 THEN start ELSE Step(g[k - 1])]
           seen == CHOOSE g : Eq(g)
           At(k) == IF k = BUFFER_SIZE + 1 THEN NULL ELSE path[k]
           w == [k \in 0 .. BUFFER_SIZE |-> IF k < n THEN At(k + 1) ELSE At(n)]
<1>1. FirstOf(link, start, S) = IF seen[BUFFER_SIZE] \in S THEN seen[BUFFER_SIZE] ELSE NULL
  BY DEF FirstOf
<1>2. w[0] = start /\ \A k \in 1 .. BUFFER_SIZE : w[k] = Step(w[k - 1])
  <2>1. At(1) = start /\ \A k \in 1 .. BUFFER_SIZE : At(k) \in Frame /\ link[At(k)] = At(k + 1)
    BY DEF Path
  <2>2. \A k \in 1 .. n - 1 : At(k) \notin S /\ At(k) # NULL
    BY <2>1
  <2>3. At(n) = NULL \/ At(n) \in S
    OBVIOUS
  <2> HIDE DEF At
  <2>4. \A k \in 1 .. BUFFER_SIZE : k < n => w[k] = At(k + 1) /\ w[k - 1] = At(k)
    OBVIOUS
  <2>5. \A k \in 1 .. BUFFER_SIZE : k >= n => w[k] = At(n) /\ w[k - 1] = At(n)
    OBVIOUS
  <2>6. w[0] = At(1)
    OBVIOUS
  <2> HIDE DEF w
  <2>7. ASSUME NEW k \in 1 .. BUFFER_SIZE, k < n
        PROVE  w[k] = Step(w[k - 1])
    BY <2>1, <2>2, <2>4, <2>7
  <2>8. ASSUME NEW k \in 1 .. BUFFER_SIZE, k >= n
        PROVE  w[k] = Step(w[k - 1])
    BY <2>3, <2>5, <2>8
  <2> QED BY <2>1, <2>6, <2>7, <2>8
<1> HIDE DEF Step, At
<1>3. Eq(w)
  <2>1. w = [k \in 0 .. BUFFER_SIZE |-> w[k]]
    OBVIOUS
  <2> HIDE DEF w
  <2>2. \A k \in 0 .. BUFFER_SIZE : w[k] = IF k = 0 THEN start ELSE Step(w[k - 1])
    BY <1>2
  <2> QED BY <2>1, <2>2
<1> HIDE DEF w
<1>4. ASSUME NEW g, Eq(g)
      PROVE  g = w
  <2> DEFINE T == {k \in 0 .. BUFFER_SIZE : g[k] = w[k]}
  <2>1. g[0] = w[0] /\ \A k \in 1 .. BUFFER_SIZE : g[k - 1] = w[k - 1] => g[k] = w[k]
    BY <1>2, <1>4
  <2>2. \A k \in 0 .. BUFFER_SIZE : k \in T
    <3>1. 0 \in T /\ \A k \in 0 + 1 .. BUFFER_SIZE : k - 1 \in T => k \in T
      BY <2>1
    <3> HIDE DEF T
    <3> QED BY <3>1, IntervalInduction
  <2> QED BY <1>3, <1>4, <2>2
<1>5. seen = w
  <2> HIDE DEF Eq
  <2> QED BY <1>3, <1>4
<1>6. w[BUFFER_SIZE] = At(n)
  BY DEF w, At
<1> QED BY <1>1, <1>5, <1>6 DEF At

-----------------------------------------------------------------------------
(* The list is doubly linked and runs through every frame; ord are the     *)
(* frames in its order.                                                    *)
Ordered(s, ord) ==
    /\ ord \in [Frame -> Frame]
    /\ \A f \in Frame : \E k \in Frame : ord[k] = f
    /\ \A j, k \in Frame : ord[j] = ord[k] => j = k
    /\ s.first_buf = ord[1] /\ s.last_buf = ord[BUFFER_SIZE]
    /\ \A k \in Frame : s.next_of_LRU[ord[k]] = IF k = BUFFER_SIZE THEN NULL ELSE ord[k + 1]
    /\ \A k \in Frame : s.prev_of_LRU[ord[k]] = IF k = 1 THEN NULL ELSE ord[k - 1]

Order(s) == Chain(s.next_of_LRU, s.first_buf)
Linked(s) == Ordered(s, Order(s))

(* Any order that fits the pointers is the one Order reads off them.       *)
LEMMA OrderIsChain ==
    ASSUME NEW s \in PoolState, NEW ord, Ordered(s, ord)
    PROVE  Order(s) = ord
<1>1. Path(s.next_of_LRU, s.first_buf, ord)
  BY DEF Path, Ordered, PoolState
<1> QED BY <1>1, ChainIsPath DEF Order

(* Place i of ord goes to the end. *)
ToEnd(ord, i) == [k \in Frame |-> IF k < i THEN ord[k]
                                  ELSE IF k < BUFFER_SIZE THEN ord[k + 1] ELSE ord[i]]

(* The pointers after a frame was moved to the end, without the pool. *)
Relink(N, i, F, null, ord, n0, p0, next, prev, new) ==
    /\ N \in Nat /\ N >= 2 /\ i \in 1 .. N /\ i # N /\ null \notin F
    /\ ord \in [1 .. N -> F]
    /\ \A j, k \in 1 .. N : ord[j] = ord[k] => j = k
    /\ \A k \in 1 .. N : n0[ord[k]] = IF k = N THEN null ELSE ord[k + 1]
    /\ \A k \in 1 .. N : p0[ord[k]] = IF k = 1 THEN null ELSE ord[k - 1]
    /\ \A g \in F : next[g] = IF g = ord[i] THEN null ELSE IF g = ord[N] THEN ord[i]
                              ELSE IF i # 1 /\ g = p0[ord[i]] THEN n0[ord[i]] ELSE n0[g]
    /\ \A g \in F : prev[g] = IF g = ord[i] THEN ord[N]
                              ELSE IF g = n0[ord[i]] THEN p0[ord[i]] ELSE p0[g]
    /\ \A k \in 1 .. N : new[k] = IF k < i THEN ord[k]
                                  ELSE IF k < N THEN ord[k + 1] ELSE ord[i]

(* Pointer surgery: what the changed pointers of a list say when element   *)
(* i was taken out and put at the end, stated for numbers and arrays       *)
(* only.                                                                   *)
LEMMA Relinked ==
    ASSUME NEW N, NEW i, NEW F, NEW null, NEW ord, NEW n0, NEW p0, NEW next, NEW prev, NEW new,
           Relink(N, i, F, null, ord, n0, p0, next, prev, new)
    PROVE  /\ \A k \in 1 .. N : next[new[k]] = IF k = N THEN null ELSE new[k + 1]
           /\ \A k \in 1 .. N : prev[new[k]] = IF k = 1 THEN null ELSE new[k - 1]
           /\ \A j, k \in 1 .. N : new[j] = new[k] => j = k
           /\ \A j \in 1 .. N : \E k \in 1 .. N : new[k] = ord[j]
           /\ new[1] = IF i = 1 THEN ord[2] ELSE ord[1]
           /\ new[N] = ord[i]
<1> USE DEF Relink
<1>0. \A k \in 1 .. N : ord[k] \in F
  OBVIOUS
<1>1. \A k \in 1 .. N : next[ord[k]] = IF k = i THEN null ELSE IF k = N THEN ord[i]
                                       ELSE IF k = i - 1 THEN ord[i + 1] ELSE ord[k + 1]
  BY SMTT(30)
<1>2. \A k \in 1 .. N : prev[ord[k]] = IF k = i THEN ord[N]
              ELSE IF k = i + 1 THEN IF i = 1 THEN null ELSE ord[i - 1]
              ELSE IF k = 1 THEN null ELSE ord[k - 1]
  OBVIOUS
<1>3. \A k \in 1 .. N : next[new[k]] = IF k = N THEN null ELSE new[k + 1]
  BY <1>1
<1>4. \A k \in 1 .. N : prev[new[k]] = IF k = 1 THEN null ELSE new[k - 1]
  BY <1>2
<1>5. \A j, k \in 1 .. N : new[j] = new[k] => j = k
  OBVIOUS
<1>6. ASSUME NEW j \in 1 .. N
      PROVE  \E k \in 1 .. N : new[k] = ord[j]
  <2>1. CASE j < i
    BY <2>1
  <2>2. CASE j = i
    <3>1. N \in 1 .. N /\ new[N] = ord[j]
      BY <2>2
    <3> QED BY <3>1
  <2>3. CASE j > i
    <3>1. j - 1 \in 1 .. N /\ new[j - 1] = ord[j]
      BY <2>3
    <3> QED BY <3>1
  <2> QED BY <2>1, <2>2, <2>3
<1>7. new[1] = (IF i = 1 THEN ord[2] ELSE ord[1]) /\ new[N] = ord[i]
  OBVIOUS
<1> QED BY <1>3, <1>4, <1>5, <1>6, <1>7

(* Relinking in buf_get_page (bpt3.c:411-426): after it the frames are in  *)
(* the same order but for the one moved, which is last.                    *)
LEMMA ToEndOrders ==
    ASSUME NEW s \in PoolState, NEW ord, Ordered(s, ord), NEW i \in Frame
    PROVE  LET u == MoveToEnd(s, ord[i])
           IN  u \in PoolState /\ Ordered(u, ToEnd(ord, i))
<1> DEFINE N == BUFFER_SIZE
           f == ord[i]
           nx == s.next_of_LRU[f]
           pv == s.prev_of_LRU[f]
           u == MoveToEnd(s, f)
           new == ToEnd(ord, i)
<1> SUFFICES u \in PoolState /\ Ordered(u, new)
  OBVIOUS
<1>1. N \in Nat /\ N >= 2 /\ i \in 1 .. N /\ N \in Frame /\ 1 \in Frame /\ NULL \notin Frame
  BY PoolAssumption DEF Frame, NULL
<1>2. /\ ord \in [1 .. N -> Frame]
      /\ \A j, k \in 1 .. N : ord[j] = ord[k] => j = k
      /\ \A k \in 1 .. N : s.next_of_LRU[ord[k]] = IF k = N THEN NULL ELSE ord[k + 1]
      /\ \A k \in 1 .. N : s.prev_of_LRU[ord[k]] = IF k = 1 THEN NULL ELSE ord[k - 1]
      /\ s.first_buf = ord[1] /\ s.last_buf = ord[N]
  BY DEF Ordered, Frame
<1>3. /\ f \in Frame
      /\ nx = IF i = N THEN NULL ELSE ord[i + 1]
      /\ pv = IF i = 1 THEN NULL ELSE ord[i - 1]
      /\ i # N => nx \in Frame
      /\ i # 1 => pv \in Frame
  <2> HIDE DEF nx, pv
  <2>1. nx = (IF i = N THEN NULL ELSE ord[i + 1]) /\ pv = IF i = 1 THEN NULL ELSE ord[i - 1]
    BY <1>1, <1>2 DEF nx, pv
  <2>2. \A k \in 1 .. N : ord[k] \in Frame
    BY <1>2
  <2>3. i # N => nx \in Frame
    BY <1>1, <2>1, <2>2
  <2>4. i # 1 => pv \in Frame
    BY <1>1, <2>1, <2>2
  <2> QED BY <1>1, <2>1, <2>2, <2>3, <2>4
<1>4. \A k \in 1 .. N : new[k] = IF k < i THEN ord[k] ELSE IF k < N THEN ord[k + 1] ELSE f
  BY DEF ToEnd, Frame
<1>5. new \in [Frame -> Frame]
  <2> HIDE DEF new, f
  <2>1. \A k \in 1 .. N : new[k] \in Frame
    BY <1>1, <1>2, <1>3, <1>4
  <2> QED BY <2>1 DEF new, ToEnd, Frame
<1>6. CASE i = N
  <2>1. u = s
    BY <1>1, <1>3, <1>6 DEF MoveToEnd
  <2>2. new = ord
    <3> HIDE DEF new
    <3>1. \A k \in 1 .. N : new[k] = ord[k]
      BY <1>1, <1>4, <1>6
    <3>2. (\A k \in Frame : new[k] = ord[k]) /\ ord \in [Frame -> Frame]
      BY <1>2, <3>1 DEF Frame
    <3> QED BY <1>5, <3>2
  <2> QED BY <2>1, <2>2
<1>7. CASE i # N
  <2> DEFINE prev == IF i = 1 THEN [s.prev_of_LRU EXCEPT ![nx] = NULL, ![f] = s.last_buf]
                     ELSE [s.prev_of_LRU EXCEPT ![nx] = pv, ![f] = s.last_buf]
             next == IF i = 1 THEN [s.next_of_LRU EXCEPT ![s.last_buf] = f, ![f] = NULL]
                     ELSE [s.next_of_LRU EXCEPT ![pv] = nx, ![s.last_buf] = f, ![f] = NULL]
             first == IF i = 1 THEN nx ELSE s.first_buf
  <2>1. u = [s EXCEPT !.prev_of_LRU = prev, !.next_of_LRU = next,
                      !.first_buf = first, !.last_buf = f]
    <3>1. CASE i = 1
      BY <1>1, <1>3, <1>7, <3>1 DEF MoveToEnd
    <3>2. CASE i # 1
      BY <1>1, <1>3, <1>7, <3>2 DEF MoveToEnd, PoolState
    <3> QED BY <3>1, <3>2
  <2>2. /\ prev \in [Frame -> Frame \cup {NULL}] /\ next \in [Frame -> Frame \cup {NULL}]
        /\ first \in Frame
    BY <1>3, <1>7 DEF PoolState
  <2>3. /\ \A g \in Frame : next[g] = IF g = f THEN NULL ELSE IF g = s.last_buf THEN f
                                   ELSE IF i # 1 /\ g = pv THEN nx ELSE s.next_of_LRU[g]
        /\ \A g \in Frame : prev[g] = IF g = f THEN s.last_buf ELSE IF g = nx THEN pv
                                   ELSE s.prev_of_LRU[g]
    BY <1>3, <1>7 DEF PoolState
  <2>4. u \in PoolState
    <3> HIDE DEF prev, next, first, u, new, nx, pv, f
    <3> QED BY <1>3, <2>1, <2>2 DEF PoolState
  <2>5. u.prev_of_LRU = prev /\ u.next_of_LRU = next /\ u.first_buf = first /\ u.last_buf = f
    <3> HIDE DEF prev, next, first, u, new, nx, pv, f
    <3> QED BY <2>1 DEF PoolState
  <2>6. /\ \A k \in 1 .. N : next[new[k]] = IF k = N THEN NULL ELSE new[k + 1]
        /\ \A k \in 1 .. N : prev[new[k]] = IF k = 1 THEN NULL ELSE new[k - 1]
        /\ \A j, k \in 1 .. N : new[j] = new[k] => j = k
        /\ \A j \in 1 .. N : \E k \in 1 .. N : new[k] = ord[j]
        /\ new[1] = IF i = 1 THEN ord[2] ELSE ord[1]
        /\ new[N] = ord[i]
    <3> HIDE DEF prev, next, first, u, new
    <3>1. \A g \in Frame : next[g] = IF g = ord[i] THEN NULL ELSE IF g = ord[N] THEN ord[i]
                 ELSE IF i # 1 /\ g = s.prev_of_LRU[ord[i]] THEN s.next_of_LRU[ord[i]]
                 ELSE s.next_of_LRU[g]
      BY <1>2, <2>3
    <3>2. \A g \in Frame : prev[g] = IF g = ord[i] THEN ord[N]
                 ELSE IF g = s.next_of_LRU[ord[i]] THEN s.prev_of_LRU[ord[i]]
                 ELSE s.prev_of_LRU[g]
      BY <1>2, <2>3
    <3> DEFINE n0 == s.next_of_LRU
               p0 == s.prev_of_LRU
    <3>3. Relink(N, i, Frame, NULL, ord, n0, p0, next, prev, new)
      BY <1>1, <1>2, <1>4, <1>7, <3>1, <3>2 DEF Relink
    <3> QED BY <3>3, Relinked
  <2>7. first = new[1]
    BY <1>1, <1>2, <1>3, <2>6
  <2>8. \A g \in Frame : \E k \in Frame : new[k] = g
    <3>1. \A g \in Frame : \E j \in 1 .. N : ord[j] = g
      BY DEF Ordered, Frame
    <3>2. \A j \in 1 .. N : \E k \in 1 .. N : new[k] = ord[j]
      BY <2>6
    <3> HIDE DEF prev, next, first, u, new, nx, pv, f
    <3> QED BY <3>1, <3>2 DEF Frame
  <2> HIDE DEF prev, next, first, u, new
  <2>9. Frame = 1 .. N
    BY DEF Frame
  <2> QED BY <1>5, <2>4, <2>5, <2>6, <2>7, <2>8, <2>9 DEF Ordered
<1> QED BY <1>6, <1>7

-----------------------------------------------------------------------------
(* A search returns NULL or a frame it looks for. *)
LEMMA FirstOfIsIn ==
    ASSUME NEW link, NEW start, NEW S
    PROVE  FirstOf(link, start, S) # NULL => FirstOf(link, start, S) \in S
  BY DEF FirstOf

(* A search along the list meets every frame. *)
LEMMA SearchFinds ==
    ASSUME NEW link, NEW start, NEW path, Path(link, start, path), NEW S \in SUBSET Frame
    PROVE  \/ /\ \A k \in Frame : path[k] \notin S
              /\ FirstOf(link, start, S) = NULL
           \/ \E n \in Frame : /\ path[n] \in S /\ \A k \in 1 .. n - 1 : path[k] \notin S
                               /\ FirstOf(link, start, S) = path[n]
<1> DEFINE T == {k \in Frame : path[k] \in S}
           N == BUFFER_SIZE
<1>0. N \in Nat /\ N >= 2
  BY PoolAssumption
<1>1. CASE T = {}
  <2>1. \A k \in Frame : path[k] \notin S
    BY <1>1
  <2>2. N + 1 \in 1 .. N + 1 /\ \A k \in 1 .. (N + 1) - 1 : path[k] \notin S
    BY <1>0, <2>1 DEF Frame
  <2>3. FirstOf(link, start, S) = NULL
    BY <2>2, FirstOfPath
  <2> QED BY <2>1, <2>3
<1>2. CASE T # {}
  <2>1. T \subseteq Nat
    BY DEF Frame
  <2>2. PICK n \in T : \A k \in T : n <= k
    <3> HIDE DEF T
    <3> QED BY <1>2, <2>1, LeastNumber
  <2>3. \A k \in 1 .. n - 1 : path[k] \notin S
    BY <1>0, <2>2 DEF Frame
  <2>4. n \in 1 .. N + 1 /\ n # N + 1
    BY <1>0 DEF Frame
  <2>5. FirstOf(link, start, S) = path[n]
    BY <2>2, <2>3, <2>4, FirstOfPath
  <2> QED BY <2>2, <2>3, <2>5
<1> QED BY <1>1, <1>2

(* buf_find_frame finds the page whenever a frame has its tag. *)
LEMMA FindIsComplete ==
    ASSUME NEW s \in PoolState, Linked(s), NEW p
    PROVE  LET f == buf_find_frame(s, p)
           IN  \/ f = NULL /\ \A g \in Frame : s.tag[g] # p
               \/ f # NULL /\ f \in Frame /\ s.tag[f] = p
<1> DEFINE N == BUFFER_SIZE
           ord == Order(s)
           path == [k \in Frame |-> ord[N + 1 - k]]
           S == {g \in Frame : s.tag[g] = p}
<1>0. N \in Nat /\ N >= 2 /\ \A k \in Frame : N + 1 - k \in Frame /\ N + 1 - (N + 1 - k) = k
  BY PoolAssumption DEF Frame
<1>1. /\ ord \in [Frame -> Frame]
      /\ \A g \in Frame : \E k \in Frame : ord[k] = g
      /\ \A k \in Frame : s.prev_of_LRU[ord[k]] = IF k = 1 THEN NULL ELSE ord[k - 1]
      /\ s.last_buf = ord[N]
  BY DEF Linked, Ordered
<1> HIDE DEF ord
<1>2. path \in [Frame -> Frame]
  BY <1>0, <1>1
<1>3. s.last_buf = path[1]
  BY <1>0, <1>1 DEF Frame
<1>4. \A k \in Frame : s.prev_of_LRU[path[k]] = IF k = N THEN NULL ELSE path[k + 1]
  <2> SUFFICES ASSUME NEW k \in Frame
               PROVE  s.prev_of_LRU[path[k]] = IF k = N THEN NULL ELSE path[k + 1]
    OBVIOUS
  <2>1. s.prev_of_LRU[ord[N + 1 - k]] = IF N + 1 - k = 1 THEN NULL ELSE ord[(N + 1 - k) - 1]
    BY <1>0, <1>1
  <2>2. (N + 1 - k = 1 <=> k = N) /\ (N + 1 - k) - 1 = N + 1 - (k + 1)
    BY <1>0 DEF Frame
  <2>3. k # N => k + 1 \in Frame
    BY <1>0 DEF Frame
  <2> QED BY <2>1, <2>2, <2>3
<1>5. Path(s.prev_of_LRU, s.last_buf, path)
  BY <1>2, <1>3, <1>4 DEF Path, PoolState
<1>6. \A g \in Frame : \E k \in Frame : path[k] = g
  BY <1>0, <1>1
<1>7. buf_find_frame(s, p) = FirstOf(s.prev_of_LRU, s.last_buf, S)
  BY DEF buf_find_frame
<1>8. S \in SUBSET Frame
  OBVIOUS
<1>9. \A k \in Frame : path[k] \in Frame
  BY <1>2
<1> HIDE DEF path
<1> QED BY <1>5, <1>6, <1>7, <1>8, <1>9, SearchFinds DEF Frame, NULL

(* Victim takes the first unpinned frame of the list. *)
LEMMA VictimIsFirst ==
    ASSUME NEW s \in PoolState, Linked(s)
    PROVE  LET ord == Order(s)
           IN  \/ Victim(s) = NULL /\ \A g \in Frame : s.is_pinned[g]
               \/ \E n \in Frame : /\ Victim(s) = ord[n] /\ ~s.is_pinned[ord[n]]
                                   /\ \A k \in 1 .. n - 1 : s.is_pinned[ord[k]]
<1> DEFINE N == BUFFER_SIZE
           ord == Order(s)
           S == {g \in Frame : ~s.is_pinned[g]}
<1>0. N \in Nat /\ N >= 2
  BY PoolAssumption
<1>1. ord \in [Frame -> Frame] /\ \A g \in Frame : \E k \in Frame : ord[k] = g
  BY DEF Linked, Ordered
<1>2. Path(s.next_of_LRU, s.first_buf, ord)
  BY DEF Path, Linked, Ordered, PoolState
<1>3. Victim(s) = FirstOf(s.next_of_LRU, s.first_buf, S)
  BY DEF Victim
<1>4. S \in SUBSET Frame
  OBVIOUS
<1>5. \/ (\A k \in Frame : ord[k] \notin S) /\ FirstOf(s.next_of_LRU, s.first_buf, S) = NULL
      \/ \E n \in Frame : /\ ord[n] \in S /\ \A k \in 1 .. n - 1 : ord[k] \notin S
                          /\ FirstOf(s.next_of_LRU, s.first_buf, S) = ord[n]
  <2> HIDE DEF ord, S
  <2> QED BY <1>2, <1>4, SearchFinds
<1> SUFFICES \/ Victim(s) = NULL /\ \A g \in Frame : s.is_pinned[g]
             \/ \E n \in Frame : /\ Victim(s) = ord[n] /\ ~s.is_pinned[ord[n]]
                                 /\ \A k \in 1 .. n - 1 : s.is_pinned[ord[k]]
  OBVIOUS
<1> HIDE DEF ord
<1>6. CASE (\A k \in Frame : ord[k] \notin S) /\ Victim(s) = NULL
  BY <1>1, <1>6
<1>7. CASE \E n \in Frame : /\ ord[n] \in S /\ \A k \in 1 .. n - 1 : ord[k] \notin S
                            /\ Victim(s) = ord[n]
  <2>1. PICK n \in Frame : /\ ord[n] \in S /\ \A k \in 1 .. n - 1 : ord[k] \notin S
                           /\ Victim(s) = ord[n]
    BY <1>7
  <2>2. \A k \in 1 .. n - 1 : ord[k] \in Frame
    <3>1. \A k \in 1 .. n - 1 : k \in Frame
      BY <1>0 DEF Frame
    <3> QED BY <1>1, <3>1
  <2> QED BY <2>1, <2>2
<1> QED BY <1>3, <1>5, <1>6, <1>7

-----------------------------------------------------------------------------
(* Two pools with the same list. *)
SameList(s, u) ==
    /\ u.next_of_LRU = s.next_of_LRU /\ u.prev_of_LRU = s.prev_of_LRU
    /\ u.first_buf = s.first_buf /\ u.last_buf = s.last_buf

(* Pools with the same pointers have the same order.                       *)
LEMMA LinkedIfSame ==
    ASSUME NEW s, NEW u, SameList(s, u)
    PROVE  Order(u) = Order(s) /\ (Linked(s) => Linked(u))
<1>1. Order(u) = Order(s)
  BY DEF Order, SameList
<1> QED BY <1>1 DEF Linked, Ordered, SameList

(* A page has one frame. *)
Unique(s) == \A f, g \in Frame : s.tag[f] = s.tag[g] /\ s.tag[f] # NoPage => f = g

(* MoveToEnd changes only the list. *)
SameFrames(s, u) ==
    /\ u.tag = s.tag /\ u.shows = s.shows /\ u.bytes = s.bytes
    /\ u.is_dirty = s.is_dirty /\ u.is_pinned = s.is_pinned
    /\ u.segv = s.segv /\ u.lost = s.lost /\ u.harm = s.harm

(* Moving a frame changes the pointers only.                               *)
LEMMA MoveKeepsFrames ==
    ASSUME NEW s \in PoolState, NEW f
    PROVE  SameFrames(s, MoveToEnd(s, f))
  BY DEF SameFrames, MoveToEnd, PoolState

(* ToEndOrders, for the order the pointers have.                           *)
LEMMA MoveIsToEnd ==
    ASSUME NEW s \in PoolState, Linked(s), NEW i \in Frame
    PROVE  LET u == MoveToEnd(s, Order(s)[i])
           IN  u \in PoolState /\ Linked(u) /\ Order(u) = ToEnd(Order(s), i)
<1> DEFINE u == MoveToEnd(s, Order(s)[i])
<1>1. u \in PoolState /\ Ordered(u, ToEnd(Order(s), i))
  BY ToEndOrders DEF Linked
<1>2. Order(u) = ToEnd(Order(s), i)
  BY <1>1, OrderIsChain
<1> QED BY <1>1, <1>2 DEF Linked

(* What buf_get_page does with a page that is in frame i of the list, ...  *)
Hits(s, u, p, i) ==
    LET f == Order(s)[i]
    IN  /\ s.tag[f] = p /\ u.tag = s.tag /\ u.shows = s.shows /\ u.bytes = s.bytes
        /\ u.lost = s.lost

(* ... and with one that it reads into that frame. *)
Loads(s, u, p, i) ==
    LET f == Order(s)[i]
    IN  /\ \A g \in Frame : s.tag[g] # p
        /\ ~s.is_pinned[f] /\ \A k \in 1 .. i - 1 : s.is_pinned[Order(s)[k]]
        /\ u.tag = [s.tag EXCEPT ![f] = p] /\ u.shows = [s.shows EXCEPT ![f] = p]
        /\ u.bytes = [s.bytes EXCEPT ![f] = "saved"]
        /\ u.lost = (s.lost \/ s.bytes[f] = "changed")

Takes(s, u, p, i) ==
    /\ i \in Frame /\ Order(s)[i] \in Frame
    /\ Order(u) = ToEnd(Order(s), i)
    /\ u.is_pinned = [s.is_pinned EXCEPT ![Order(s)[i]] = TRUE]
    /\ u.segv = s.segv /\ u.harm = s.harm
    /\ Hits(s, u, p, i) \/ Loads(s, u, p, i)

(* buf_get_page (bpt3.c:403): it crashes if all frames are pinned and      *)
(* none has the page, or else takes one frame, the page's own or the       *)
(* first unpinned one, pins it and puts it at the end.                     *)
LEMMA GetPage ==
    ASSUME NEW s \in PoolState, Linked(s), NEW p \in Page
    PROVE  LET u == buf_get_page(s, p)
           IN  /\ u \in PoolState /\ Linked(u)
               /\ \/ /\ u = Crash(s) /\ \A g \in Frame : s.is_pinned[g]
                     /\ \A g \in Frame : s.tag[g] # p
                  \/ \E i \in Frame : Takes(s, u, p, i)
<1> DEFINE hit == buf_find_frame(s, p)
           miss == Victim(s)
           u == buf_get_page(s, p)
           ord == Order(s)
<1> SUFFICES /\ u \in PoolState /\ Linked(u)
             /\ \/ /\ u = Crash(s) /\ \A g \in Frame : s.is_pinned[g]
                   /\ \A g \in Frame : s.tag[g] # p
                \/ \E i \in Frame : Takes(s, u, p, i)
  OBVIOUS
<1>1. ord \in [Frame -> Frame] /\ \A g \in Frame : \E k \in Frame : ord[k] = g
  BY DEF Linked, Ordered
<1>2. \/ hit = NULL /\ \A g \in Frame : s.tag[g] # p
      \/ hit # NULL /\ hit \in Frame /\ s.tag[hit] = p
  BY FindIsComplete
<1>3. NULL \notin Frame
  BY DEF NULL, Frame
<1>4. ASSUME NEW w \in PoolState, SameList(s, w), NEW i \in Frame
      PROVE  LET v == MoveToEnd(Pin(w, ord[i]), ord[i])
             IN  /\ v \in PoolState /\ Linked(v) /\ Order(v) = ToEnd(ord, i)
                 /\ v.is_pinned = [w.is_pinned EXCEPT ![ord[i]] = TRUE]
                 /\ v.tag = w.tag /\ v.shows = w.shows /\ v.bytes = w.bytes
                 /\ v.segv = w.segv /\ v.lost = w.lost /\ v.harm = w.harm
  <2> DEFINE x == Pin(w, ord[i])
             v == MoveToEnd(x, ord[i])
  <2>1. ord[i] \in Frame
    BY <1>1
  <2> HIDE DEF ord
  <2>2. /\ x \in PoolState /\ SameList(w, x)
        /\ x.is_pinned = [w.is_pinned EXCEPT ![ord[i]] = TRUE]
        /\ x.tag = w.tag /\ x.shows = w.shows /\ x.bytes = w.bytes
        /\ x.segv = w.segv /\ x.lost = w.lost /\ x.harm = w.harm
    BY <2>1 DEF Pin, PoolState, SameList
  <2> HIDE DEF x
  <2>3. SameList(s, x)
    BY <1>4, <2>2 DEF SameList
  <2>4. Linked(x) /\ Order(x) = ord
    BY <2>3, LinkedIfSame DEF ord
  <2>5. v \in PoolState /\ Linked(v) /\ Order(v) = ToEnd(ord, i)
    BY <2>2, <2>4, MoveIsToEnd
  <2>6. SameFrames(x, v)
    BY <2>2, MoveKeepsFrames
  <2> HIDE DEF v
  <2>7. /\ v \in PoolState /\ Linked(v) /\ Order(v) = ToEnd(ord, i)
        /\ v.is_pinned = [w.is_pinned EXCEPT ![ord[i]] = TRUE]
        /\ v.tag = w.tag /\ v.shows = w.shows /\ v.bytes = w.bytes
        /\ v.segv = w.segv /\ v.lost = w.lost /\ v.harm = w.harm
    BY <2>2, <2>5, <2>6 DEF SameFrames
  <2> QED BY <2>7 DEF v, x
<1>5. CASE hit # NULL
  <2>1. hit \in Frame /\ s.tag[hit] = p
    BY <1>2, <1>5
  <2>2. PICK i \in Frame : ord[i] = hit
    BY <1>1, <2>1
  <2>3. u = MoveToEnd(Pin(s, ord[i]), ord[i])
    BY <1>5, <2>2 DEF buf_get_page
  <2>4. SameList(s, s)
    BY DEF SameList
  <2>5. /\ u \in PoolState /\ Linked(u) /\ Order(u) = ToEnd(ord, i)
        /\ u.is_pinned = [s.is_pinned EXCEPT ![ord[i]] = TRUE]
        /\ u.tag = s.tag /\ u.shows = s.shows /\ u.bytes = s.bytes
        /\ u.segv = s.segv /\ u.lost = s.lost /\ u.harm = s.harm
    <3> HIDE DEF u
    <3> QED BY <1>4, <2>3, <2>4
  <2> HIDE DEF u, ord
  <2>6. Takes(s, u, p, i)
    BY <2>1, <2>2, <2>5 DEF Takes, Hits, ord
  <2> QED BY <2>5, <2>6
<1>6. CASE hit = NULL /\ miss = NULL
  <2>1. u = Crash(s)
    BY <1>6 DEF buf_get_page
  <2>2. \A g \in Frame : s.is_pinned[g] /\ s.tag[g] # p
    BY <1>1, <1>2, <1>3, <1>6, VictimIsFirst
  <2>3. Crash(s) \in PoolState /\ SameList(s, Crash(s))
    BY DEF Crash, PoolState, SameList
  <2>4. Linked(Crash(s))
    BY <2>3, LinkedIfSame
  <2> HIDE DEF u
  <2> QED BY <2>1, <2>2, <2>3, <2>4
<1>7. CASE hit = NULL /\ miss # NULL
  <2>1. PICK i \in Frame : /\ miss = ord[i] /\ ~s.is_pinned[ord[i]]
                           /\ \A k \in 1 .. i - 1 : s.is_pinned[ord[k]]
    BY <1>7, VictimIsFirst
  <2> DEFINE w == Reuse(s, ord[i], p)
  <2>2. u = MoveToEnd(Pin(w, ord[i]), ord[i])
    BY <1>7, <2>1 DEF buf_get_page
  <2>3. ord[i] \in Frame
    BY <1>1
  <2> HIDE DEF ord, u, miss, hit
  <2>4. /\ w \in PoolState /\ SameList(s, w)
        /\ w.tag = [s.tag EXCEPT ![ord[i]] = p] /\ w.shows = [s.shows EXCEPT ![ord[i]] = p]
        /\ w.bytes = [s.bytes EXCEPT ![ord[i]] = "saved"]
        /\ w.lost = (s.lost \/ s.bytes[ord[i]] = "changed")
        /\ w.is_pinned = s.is_pinned /\ w.segv = s.segv /\ w.harm = s.harm
    BY <2>3 DEF Reuse, Read, PoolState, SameList
  <2> HIDE DEF w
  <2>5. /\ u \in PoolState /\ Linked(u) /\ Order(u) = ToEnd(ord, i)
        /\ u.is_pinned = [w.is_pinned EXCEPT ![ord[i]] = TRUE]
        /\ u.tag = w.tag /\ u.shows = w.shows /\ u.bytes = w.bytes
        /\ u.segv = w.segv /\ u.lost = w.lost /\ u.harm = w.harm
    BY <1>4, <2>2, <2>4
  <2>6. \A g \in Frame : s.tag[g] # p
    BY <1>2, <1>7 DEF hit
  <2>7. Takes(s, u, p, i)
    BY <2>1, <2>3, <2>4, <2>5, <2>6 DEF Takes, Loads, ord
  <2> QED BY <2>5, <2>7
<1> QED BY <1>5, <1>6, <1>7

(* What buf_put_page does.  g is the frame it finds. *)
Released(s, u, g) ==
    /\ u \in PoolState /\ SameList(s, u)
    /\ u.tag = s.tag /\ u.shows = s.shows /\ u.lost = s.lost /\ u.harm = s.harm
    /\ g = NULL => u.segv /\ u.is_pinned = s.is_pinned
    /\ g # NULL => /\ g \in Frame /\ u.segv = s.segv
                   /\ u.is_pinned = [s.is_pinned EXCEPT ![g] = ~s.is_pinned[g]]

(* buf_put_page (bpt3.c:470) releases the frame found under the number     *)
(* that the source frame shows, and writes it if it is marked.             *)
LEMMA PutPage ==
    ASSUME NEW s \in PoolState, NEW tab, NEW src \in Frame
    PROVE  LET g == buf_find_frame(s, <<tab, s.shows[src][2]>>)
               u == buf_put_page(s, tab, src)
           IN  /\ Released(s, u, g)
               /\ g # NULL =>
                    u.bytes = IF s.is_pinned[g] /\ s.is_dirty[g]
                              THEN [s.bytes EXCEPT ![src] = "saved"]
                              ELSE IF s.bytes[g] = "changed" /\ ~s.is_dirty[g]
                              THEN [s.bytes EXCEPT ![g] = "unmarked"] ELSE s.bytes
<1> DEFINE g == buf_find_frame(s, <<tab, s.shows[src][2]>>)
           u == buf_put_page(s, tab, src)
           x == [s EXCEPT !.is_pinned[g] = ~s.is_pinned[g]]
           w == [x EXCEPT !.bytes[src] = "saved", !.is_dirty[g] = FALSE]
           n == [x EXCEPT !.bytes[g] = "unmarked"]
           Bytes == IF s.is_pinned[g] /\ s.is_dirty[g]
                    THEN [s.bytes EXCEPT ![src] = "saved"]
                    ELSE IF s.bytes[g] = "changed" /\ ~s.is_dirty[g]
                    THEN [s.bytes EXCEPT ![g] = "unmarked"] ELSE s.bytes
<1> SUFFICES Released(s, u, g) /\ (g # NULL => u.bytes = Bytes)
  OBVIOUS
<1>1. g = NULL \/ g \in Frame
  BY FirstOfIsIn DEF buf_find_frame
<1>2. CASE g = NULL
  <2>1. u = Crash(s)
    BY <1>2 DEF buf_put_page
  <2> HIDE DEF u, g
  <2> QED BY <1>2, <2>1 DEF Crash, PoolState, Released, SameList
<1>3. CASE g # NULL
  <2>1. u = IF ~x.is_pinned[g] /\ s.is_dirty[g] THEN w
            ELSE IF s.bytes[g] = "changed" /\ ~s.is_dirty[g] THEN n ELSE x
    BY <1>3 DEF buf_put_page, Flipped
  <2> HIDE DEF u, g, w, n
  <2>2. g \in Frame
    BY <1>1, <1>3
  <2>3. /\ x \in PoolState /\ SameList(s, x) /\ x.tag = s.tag /\ x.shows = s.shows
        /\ x.lost = s.lost /\ x.harm = s.harm /\ x.segv = s.segv
        /\ x.bytes = s.bytes /\ x.is_pinned = [s.is_pinned EXCEPT ![g] = ~s.is_pinned[g]]
    BY <2>2 DEF PoolState, SameList
  <2>4. x.is_pinned[g] = ~s.is_pinned[g]
    BY <2>2, <2>3 DEF PoolState
  <2> HIDE DEF x
  <2>5. /\ w \in PoolState /\ SameList(x, w) /\ w.tag = x.tag /\ w.shows = x.shows
        /\ w.lost = x.lost /\ w.harm = x.harm /\ w.segv = x.segv
        /\ w.bytes = [x.bytes EXCEPT ![src] = "saved"] /\ w.is_pinned = x.is_pinned
    BY <2>2, <2>3 DEF PoolState, SameList, w
  <2>6. /\ n \in PoolState /\ SameList(x, n) /\ n.tag = x.tag /\ n.shows = x.shows
        /\ n.lost = x.lost /\ n.harm = x.harm /\ n.segv = x.segv
        /\ n.bytes = [x.bytes EXCEPT ![g] = "unmarked"] /\ n.is_pinned = x.is_pinned
    BY <2>2, <2>3 DEF PoolState, SameList, n
  <2>7. CASE s.is_pinned[g] /\ s.is_dirty[g]
    <3>1. u = w
      BY <2>1, <2>4, <2>7
    <3> QED BY <1>3, <2>2, <2>3, <2>5, <2>7, <3>1 DEF Released, SameList
  <2>8. CASE ~(s.is_pinned[g] /\ s.is_dirty[g]) /\ s.bytes[g] = "changed" /\ ~s.is_dirty[g]
    <3>1. u = n
      BY <2>1, <2>4, <2>8
    <3> QED BY <1>3, <2>2, <2>3, <2>6, <2>8, <3>1 DEF Released, SameList
  <2>9. CASE ~(s.is_pinned[g] /\ s.is_dirty[g]) /\ ~(s.bytes[g] = "changed" /\ ~s.is_dirty[g])
    <3>1. u = x
      BY <2>1, <2>4, <2>9
    <3> QED BY <1>3, <2>2, <2>3, <2>9, <3>1 DEF Released
  <2> QED BY <2>7, <2>8, <2>9
<1> QED BY <1>2, <1>3

(* A change, its mark and its put: Saved of Session.tla, for any pool.     *)
MarkAndPut(s, tab, f) == buf_put_page(Marked(Changed(s, f), <<tab, s.shows[f][2]>>), tab, f)

(* The callers' change, mark and buf_put_page of one frame.                *)
LEMMA MarkAndPutPage ==
    ASSUME NEW s \in PoolState, NEW tab, NEW f \in Frame
    PROVE  LET g == buf_find_frame(s, <<tab, s.shows[f][2]>>)
               u == MarkAndPut(s, tab, f)
           IN  /\ Released(s, u, g)
               /\ g = f => u.bytes = [s.bytes EXCEPT ![f] = IF s.is_pinned[f] THEN "saved"
                                                            ELSE "changed"]
<1> DEFINE p == <<tab, s.shows[f][2]>>
           g == buf_find_frame(s, p)
           c == Changed(s, f)
           m == Marked(c, p)
           u == MarkAndPut(s, tab, f)
<1> SUFFICES /\ Released(s, u, g)
             /\ g = f => u.bytes = [s.bytes EXCEPT ![f] = IF s.is_pinned[f] THEN "saved"
                                                          ELSE "changed"]
  OBVIOUS
<1>1. g = NULL \/ g \in Frame
  BY FirstOfIsIn DEF buf_find_frame
<1>2. /\ c \in PoolState /\ SameList(s, c) /\ c.tag = s.tag /\ c.shows = s.shows
      /\ c.lost = s.lost /\ c.harm = s.harm /\ c.segv = s.segv /\ c.is_pinned = s.is_pinned
      /\ c.bytes = [s.bytes EXCEPT ![f] = "changed"]
  BY DEF Changed, PoolState, SameList
<1> HIDE DEF c
<1>3. buf_find_frame(c, p) = g
  BY <1>2 DEF buf_find_frame, SameList
<1>4. m = IF g = NULL THEN c ELSE [c EXCEPT !.is_dirty[g] = TRUE]
  BY <1>3 DEF Marked
<1>5. u = buf_put_page(m, tab, f)
  BY DEF MarkAndPut, c
<1> HIDE DEF g, m, u
<1>6. /\ m \in PoolState /\ SameList(c, m) /\ m.tag = c.tag /\ m.shows = c.shows
      /\ m.lost = c.lost /\ m.harm = c.harm /\ m.segv = c.segv /\ m.is_pinned = c.is_pinned
      /\ m.bytes = c.bytes /\ (g # NULL => m.is_dirty[g])
  <2>1. CASE g = NULL
    BY <1>2, <1>4, <2>1 DEF SameList
  <2>2. CASE g # NULL
    BY <1>1, <1>2, <1>4, <2>2 DEF SameList, PoolState
  <2> QED BY <2>1, <2>2
<1>7. buf_find_frame(m, <<tab, m.shows[f][2]>>) = g
  <2>1. buf_find_frame(m, p) = g
    BY <1>3, <1>6 DEF buf_find_frame, SameList
  <2> QED BY <1>2, <1>6, <2>1
<1>8. /\ Released(m, u, g)
      /\ g # NULL => u.bytes = IF m.is_pinned[g] /\ m.is_dirty[g]
                               THEN [m.bytes EXCEPT ![f] = "saved"]
                               ELSE IF m.bytes[g] = "changed" /\ ~m.is_dirty[g]
                               THEN [m.bytes EXCEPT ![g] = "unmarked"] ELSE m.bytes
  BY <1>5, <1>6, <1>7, PutPage
<1>9. Released(s, u, g)
  BY <1>2, <1>6, <1>8 DEF Released, SameList
<1>10. ASSUME g = f
       PROVE  u.bytes = [s.bytes EXCEPT ![f] = IF s.is_pinned[f] THEN "saved" ELSE "changed"]
  <2>1. g # NULL
    BY <1>10 DEF NULL, Frame
  <2>2. u.bytes = IF s.is_pinned[f] THEN [m.bytes EXCEPT ![f] = "saved"] ELSE m.bytes
    BY <1>2, <1>6, <1>8, <1>10, <2>1
  <2>3. m.bytes = [s.bytes EXCEPT ![f] = "changed"]
    BY <1>2, <1>6
  <2> QED BY <2>2, <2>3 DEF PoolState
<1> QED BY <1>9, <1>10

(* Allocating and freeing pages touch no tag, no pin and no list.          *)
SameUse(s, u) == SameList(s, u) /\ u.tag = s.tag /\ u.is_pinned = s.is_pinned

(* Where the allocator looks for the header.                               *)
LEMMA HeaderFrameIsFrame ==
    ASSUME NEW s \in PoolState, NEW p
    PROVE  /\ HeaderFrame(s, p) = NULL => buf_find_frame(s, p) = NULL /\ Victim(s) = NULL
           /\ HeaderFrame(s, p) # NULL => HeaderFrame(s, p) \in Frame
  BY FirstOfIsIn DEF HeaderFrame, buf_find_frame, Victim

(* buf_alloc_page (bpt3.c:337): no list, tag or pin changes; either it     *)
(* crashes, or harm is done, or the header was there.                      *)
LEMMA AllocPage ==
    ASSUME NEW s \in PoolState, NEW tab \in Table, NEW h \in Frame
    PROVE  LET u == buf_alloc_page(s, tab, h)
           IN  /\ u \in PoolState /\ SameUse(s, u)
               /\ \/ u = Crash(s) /\ Victim(s) = NULL
                  \/ u.harm
                  \/ /\ HeaderThere(s, tab, h) /\ u.harm = s.harm /\ u.segv = s.segv
                     /\ buf_find_frame(s, <<tab, 0>>) # h
                  \/ /\ u.harm = s.harm /\ u.segv = s.segv /\ u.lost = s.lost
                     /\ u.shows = s.shows
                     /\ u.bytes = [s.bytes EXCEPT ![h] = "saved"]
<1> DEFINE p == <<tab, s.shows[h][2]>>
           b == HeaderFrame(s, p)
           g == buf_find_frame(s, p)
           x == IF g = NULL THEN Read(s, b, p)
                ELSE IF s.is_dirty[b] THEN [s EXCEPT !.bytes[b] = "saved"] ELSE s
           y == HeaderWritten(x, tab, h)
           z == [y EXCEPT !.harm = @ \/ ~HeaderThere(s, tab, h)]
           u == buf_alloc_page(s, tab, h)
<1> SUFFICES /\ u \in PoolState /\ SameUse(s, u)
             /\ \/ u = Crash(s) /\ Victim(s) = NULL
                \/ u.harm
                \/ /\ HeaderThere(s, tab, h) /\ u.harm = s.harm /\ u.segv = s.segv
                   /\ buf_find_frame(s, <<tab, 0>>) # h
                \/ /\ u.harm = s.harm /\ u.segv = s.segv /\ u.lost = s.lost
                   /\ u.shows = s.shows
                   /\ u.bytes = [s.bytes EXCEPT ![h] = "saved"]
  OBVIOUS
<1>1. u = IF b = NULL THEN Crash(s) ELSE z
  BY DEF buf_alloc_page
<1>2. /\ b = NULL => g = NULL /\ Victim(s) = NULL
      /\ b # NULL => b \in Frame
  BY HeaderFrameIsFrame
<1>3. g # NULL => b = g
  BY DEF HeaderFrame
<1>4. p \in Page
  <2>1. s.shows[h] \in Page \cup {NoPage} /\ 0 \in PageNum
    BY PoolAssumption DEF PoolState, PageNum
  <2>2. s.shows[h][2] \in PageNum
    BY <2>1 DEF Page, NoPage
  <2> QED BY <2>2 DEF Page
<1>5. HeaderThere(s, tab, h) => p = <<tab, 0>>
  BY DEF HeaderThere
<1> HIDE DEF u, g, b, p
<1>6. CASE b = NULL
  <2>1. Crash(s) \in PoolState /\ SameUse(s, Crash(s))
    BY DEF Crash, PoolState, SameUse, SameList
  <2> QED BY <1>1, <1>2, <1>6, <2>1
<1>7. CASE b # NULL
  <2>1. /\ x \in PoolState /\ SameUse(s, x) /\ x.harm = s.harm /\ x.segv = s.segv
        /\ g # NULL => /\ x.lost = s.lost /\ x.shows = s.shows
                       /\ x.bytes = s.bytes \/ x.bytes = [s.bytes EXCEPT ![b] = "saved"]
    <3>1. CASE g = NULL
      BY <1>2, <1>4, <1>7, <3>1 DEF Read, PoolState, SameUse, SameList
    <3>2. CASE g # NULL
      BY <1>2, <1>7, <3>2 DEF PoolState, SameUse, SameList
    <3> QED BY <3>1, <3>2
  <2> HIDE DEF x
  <2>2. /\ y \in PoolState /\ SameUse(x, y) /\ y.harm = x.harm /\ y.segv = x.segv
        /\ y.lost = x.lost /\ y.shows = x.shows
        /\ y.bytes = [x.bytes EXCEPT ![h] = IF x.shows[h][1] = tab THEN "saved" ELSE "changed"]
    BY <2>1 DEF HeaderWritten, PoolState, SameUse, SameList
  <2> HIDE DEF y
  <2>3. /\ z \in PoolState /\ SameUse(y, z) /\ z.segv = y.segv
        /\ z.lost = y.lost /\ z.shows = y.shows /\ z.bytes = y.bytes
        /\ z.harm = (y.harm \/ ~HeaderThere(s, tab, h))
    BY <2>2 DEF PoolState, SameUse, SameList, HeaderThere
  <2> HIDE DEF z
  <2>4. u = z
    BY <1>1, <1>7
  <2>5. SameUse(s, u) /\ u \in PoolState
    BY <2>1, <2>2, <2>3, <2>4 DEF SameUse, SameList
  <2>6. CASE ~HeaderThere(s, tab, h)
    BY <2>3, <2>4, <2>5, <2>6
  <2>7. CASE HeaderThere(s, tab, h) /\ g # h
    <3>1. s.harm \in BOOLEAN
      BY DEF PoolState
    <3> QED BY <1>5, <2>1, <2>2, <2>3, <2>4, <2>5, <2>7, <3>1 DEF g
  <2>8. CASE HeaderThere(s, tab, h) /\ g = h
    <3>1. g # NULL /\ b = h
      BY <1>3, <2>8 DEF NULL, Frame
    <3>2. x.shows[h][1] = tab
      BY <2>1, <2>8, <3>1 DEF HeaderThere
    <3>3. y.bytes = [s.bytes EXCEPT ![h] = "saved"]
      BY <2>1, <2>2, <3>1, <3>2 DEF PoolState
    <3>4. s.harm \in BOOLEAN
      BY DEF PoolState
    <3> QED BY <2>1, <2>2, <2>3, <2>4, <2>5, <2>8, <3>1, <3>3, <3>4
  <2> QED BY <2>6, <2>7, <2>8
<1> QED BY <1>6, <1>7

(* buf_free_page (bpt3.c:372) does harm whenever it returns.               *)
LEMMA FreePage ==
    ASSUME NEW s \in PoolState, NEW tab \in Table, NEW h \in Frame, NEW q
    PROVE  LET u == buf_free_page(s, tab, h, q)
           IN  /\ u \in PoolState /\ SameUse(s, u)
               /\ u.harm \/ (u = Crash(s) /\ Victim(s) = NULL)
<1> DEFINE p == <<tab, s.shows[h][2]>>
           b == HeaderFrame(s, q)
           x == IF buf_find_frame(s, q) = NULL THEN Read(s, b, p) ELSE s
           y == HeaderWritten(x, tab, h)
           r == Read(y, b, p)
           z == [r EXCEPT !.harm = TRUE]
           u == buf_free_page(s, tab, h, q)
<1> SUFFICES /\ u \in PoolState /\ SameUse(s, u)
             /\ u.harm \/ (u = Crash(s) /\ Victim(s) = NULL)
  OBVIOUS
<1>1. u = IF b = NULL THEN Crash(s) ELSE z
  BY DEF buf_free_page
<1>2. (b = NULL => Victim(s) = NULL) /\ (b # NULL => b \in Frame)
  BY HeaderFrameIsFrame
<1>3. p \in Page
  <2>1. s.shows[h] \in Page \cup {NoPage} /\ 0 \in PageNum
    BY PoolAssumption DEF PoolState, PageNum
  <2>2. s.shows[h][2] \in PageNum
    BY <2>1 DEF Page, NoPage
  <2> QED BY <2>2 DEF Page
<1> HIDE DEF u, b, p
<1>4. CASE b = NULL
  <2>1. Crash(s) \in PoolState /\ SameUse(s, Crash(s))
    BY DEF Crash, PoolState, SameUse, SameList
  <2> QED BY <1>1, <1>2, <1>4, <2>1
<1>5. CASE b # NULL
  <2>1. x \in PoolState /\ SameUse(s, x)
    BY <1>2, <1>3, <1>5 DEF Read, PoolState, SameUse, SameList
  <2> HIDE DEF x
  <2>2. y \in PoolState /\ SameUse(x, y)
    BY <2>1 DEF HeaderWritten, PoolState, SameUse, SameList
  <2> HIDE DEF y
  <2>3. r \in PoolState /\ SameUse(y, r)
    BY <1>2, <1>3, <1>5, <2>2 DEF Read, PoolState, SameUse, SameList
  <2> HIDE DEF r
  <2>4. z \in PoolState /\ SameUse(r, z) /\ z.harm = TRUE
    BY <2>3 DEF PoolState, SameUse, SameList
  <2> HIDE DEF z
  <2>5. u = z
    BY <1>1, <1>5
  <2>6. SameUse(s, z)
    BY <2>1, <2>2, <2>3, <2>4 DEF SameUse, SameList
  <2>7. u.harm
    BY <2>4, <2>5
  <2> QED BY <2>4, <2>5, <2>6, <2>7
<1> QED BY <1>4, <1>5

-----------------------------------------------------------------------------
(* Unless the frames were mixed up: a frame shows its page, no change was  *)
(* lost, and one that is not saved is pinned; a crash found all pinned.    *)
Clean(s) ==
    \/ s.harm
    \/ /\ s.shows = s.tag /\ ~s.lost
       /\ \A f \in Frame : s.bytes[f] = "changed" => s.is_pinned[f]
       /\ s.segv => \A f \in Frame : s.is_pinned[f]

(* The invariant of the pool between two calls. *)
PoolInv(s) == s \in PoolState /\ Linked(s) /\ Unique(s) /\ Clean(s)

(* init_db (bpt3.c:280) makes a pool with the frames in the order of       *)
(* their numbers.                                                          *)
LEMMA InitPool == PoolInv(init_db) /\ Order(init_db) = [k \in Frame |-> k]
<1> DEFINE s == init_db
           ord == [k \in Frame |-> k]
<1>1. s \in PoolState
  BY PoolAssumption DEF init_db, PoolState, Frame, NULL
<1>2. Ordered(s, ord)
  BY PoolAssumption DEF init_db, Ordered, Frame, NULL
<1>3. Order(s) = ord
  BY <1>1, <1>2, OrderIsChain
<1>4. Unique(s) /\ Clean(s)
  BY DEF init_db, Unique, Clean
<1> QED BY <1>1, <1>2, <1>3, <1>4 DEF PoolInv, Linked

(* buf_get_page keeps the invariant.                                       *)
LEMMA GetKeeps ==
    ASSUME NEW s, PoolInv(s), ~s.segv, NEW p \in Page
    PROVE  PoolInv(buf_get_page(s, p))
<1> DEFINE u == buf_get_page(s, p)
<1>1. /\ u \in PoolState /\ Linked(u)
      /\ \/ /\ u = Crash(s) /\ \A g \in Frame : s.is_pinned[g]
            /\ \A g \in Frame : s.tag[g] # p
         \/ \E i \in Frame : Takes(s, u, p, i)
  BY GetPage DEF PoolInv
<1> HIDE DEF u
<1>2. CASE u = Crash(s) /\ \A g \in Frame : s.is_pinned[g]
  <2>1. u.tag = s.tag /\ u.is_pinned = s.is_pinned
    BY <1>2 DEF Crash, PoolInv, PoolState
  <2>2. Clean(u)
    BY <1>2 DEF Crash, PoolInv, PoolState, Clean
  <2> QED BY <1>1, <2>1, <2>2 DEF PoolInv, Unique, u
<1>3. ASSUME NEW i \in Frame, Takes(s, u, p, i)
      PROVE  PoolInv(u)
  <2> DEFINE f == Order(s)[i]
  <2>1. f \in Frame /\ s \in PoolState /\ Unique(s) /\ Clean(s)
    BY <1>3 DEF Takes, PoolInv
  <2>2. u.is_pinned = [s.is_pinned EXCEPT ![f] = TRUE] /\ u.segv = s.segv /\ u.harm = s.harm
    BY <1>3 DEF Takes
  <2>3. CASE Hits(s, u, p, i)
    <3>1. Unique(u)
      BY <2>1, <2>3 DEF Hits, Unique
    <3>2. Clean(u)
      BY <2>1, <2>2, <2>3 DEF Hits, Clean, PoolState
    <3> QED BY <1>1, <3>1, <3>2 DEF PoolInv
  <2>4. CASE Loads(s, u, p, i)
    <3> HIDE DEF f
    <3>1. /\ \A g \in Frame : s.tag[g] # p
          /\ ~s.is_pinned[f]
          /\ u.tag = [s.tag EXCEPT ![f] = p] /\ u.shows = [s.shows EXCEPT ![f] = p]
          /\ u.bytes = [s.bytes EXCEPT ![f] = "saved"]
          /\ u.lost = (s.lost \/ s.bytes[f] = "changed")
      BY <2>4 DEF Loads, f
    <3>2. Unique(u)
      BY <2>1, <3>1 DEF Unique, PoolState
    <3>3. Clean(u)
      <4>1. CASE s.harm
        BY <2>2, <4>1 DEF Clean
      <4>2. CASE ~s.harm
        <5>1. u.shows = u.tag /\ ~u.lost
          BY <2>1, <3>1, <4>2 DEF Clean
        <5>2. \A g \in Frame : u.bytes[g] = "changed" => u.is_pinned[g]
          BY <2>1, <2>2, <3>1, <4>2 DEF Clean, PoolState
        <5> QED BY <2>2, <5>1, <5>2 DEF Clean
      <4> QED BY <4>1, <4>2
    <3> QED BY <1>1, <3>2, <3>3 DEF PoolInv
  <2> QED BY <1>3, <2>3, <2>4 DEF Takes
<1> QED BY <1>1, <1>2, <1>3 DEF u

(* With ~harm a frame that shows a page is found under that page. *)
LEMMA FoundAtItself ==
    ASSUME NEW s, PoolInv(s), ~s.harm, NEW f \in Frame, NEW tab \in Table,
           s.shows[f][1] = tab
    PROVE  buf_find_frame(s, <<tab, s.shows[f][2]>>) = f
<1> DEFINE p == <<tab, s.shows[f][2]>>
           g == buf_find_frame(s, p)
<1>1. s.shows[f] = s.tag[f] /\ s.tag[f] \in Page \cup {NoPage}
  BY DEF PoolInv, Clean, PoolState
<1>2. s.tag[f] = p /\ p # NoPage
  BY <1>1 DEF Page, NoPage, Table
<1>3. g \in Frame /\ s.tag[g] = p
  <2> HIDE DEF p
  <2> QED BY <1>2, FindIsComplete DEF PoolInv
<1> QED BY <1>2, <1>3 DEF PoolInv, Unique

(* Releasing a frame keeps the invariant.                                  *)
LEMMA ReleasedKeeps ==
    ASSUME NEW s, PoolInv(s), ~s.segv, NEW u, NEW f \in Frame, Released(s, u, f),
           \A g \in Frame : u.bytes[g] = "changed" => u.is_pinned[g]
    PROVE  PoolInv(u)
<1>1. NULL # f
  BY DEF NULL, Frame
<1>2. Linked(u)
  BY LinkedIfSame DEF Released, PoolInv
<1>3. Unique(u) /\ Clean(u)
  BY <1>1 DEF PoolInv, Released, Unique, Clean
<1> QED BY <1>2, <1>3 DEF PoolInv, Released

(* buf_put_page of a frame that is the table's keeps it.                   *)
LEMMA PutKeeps ==
    ASSUME NEW s, PoolInv(s), ~s.segv, ~s.harm, NEW tab \in Table, NEW f \in Frame,
           s.shows[f][1] = tab
    PROVE  PoolInv(buf_put_page(s, tab, f))
<1> DEFINE u == buf_put_page(s, tab, f)
<1>1. buf_find_frame(s, <<tab, s.shows[f][2]>>) = f /\ f # NULL
  BY FoundAtItself DEF NULL, Frame
<1>2. /\ Released(s, u, f)
      /\ u.bytes = IF s.is_pinned[f] /\ s.is_dirty[f] THEN [s.bytes EXCEPT ![f] = "saved"]
                   ELSE IF s.bytes[f] = "changed" /\ ~s.is_dirty[f]
                   THEN [s.bytes EXCEPT ![f] = "unmarked"] ELSE s.bytes
  BY <1>1, PutPage DEF PoolInv
<1> HIDE DEF u
<1>3. u.is_pinned = [s.is_pinned EXCEPT ![f] = ~s.is_pinned[f]]
  BY <1>1, <1>2 DEF Released
<1>4. ASSUME NEW g \in Frame, u.bytes[g] = "changed"
      PROVE  u.is_pinned[g]
  <2>1. s.bytes[g] = "changed" => s.is_pinned[g]
    BY DEF PoolInv, Clean
  <2>2. s \in PoolState
    BY DEF PoolInv
  <2>3. CASE g # f
    BY <1>2, <1>3, <1>4, <2>1, <2>2, <2>3 DEF PoolState
  <2>4. CASE g = f
    <3>1. ~(s.is_pinned[f] /\ s.is_dirty[f]) /\ ~(s.bytes[f] = "changed" /\ ~s.is_dirty[f])
      BY <1>2, <1>4, <2>2, <2>4 DEF PoolState
    <3>2. s.bytes[f] = "changed"
      BY <1>2, <1>4, <2>4, <3>1
    <3> QED BY <2>1, <2>4, <3>1, <3>2
  <2> QED BY <2>3, <2>4
<1> QED BY <1>2, <1>4, ReleasedKeeps DEF u

(* The marked write of such a frame keeps it.                              *)
LEMMA MarkAndPutKeeps ==
    ASSUME NEW s, PoolInv(s), ~s.segv, ~s.harm, NEW tab \in Table, NEW f \in Frame,
           s.shows[f][1] = tab
    PROVE  PoolInv(MarkAndPut(s, tab, f))
<1> DEFINE u == MarkAndPut(s, tab, f)
<1>1. buf_find_frame(s, <<tab, s.shows[f][2]>>) = f /\ f # NULL
  BY FoundAtItself DEF NULL, Frame
<1>2. /\ Released(s, u, f)
      /\ u.bytes = [s.bytes EXCEPT ![f] = IF s.is_pinned[f] THEN "saved" ELSE "changed"]
  BY <1>1, MarkAndPutPage DEF PoolInv
<1> HIDE DEF u
<1>3. u.is_pinned = [s.is_pinned EXCEPT ![f] = ~s.is_pinned[f]]
  BY <1>1, <1>2 DEF Released
<1>4. ASSUME NEW g \in Frame, u.bytes[g] = "changed"
      PROVE  u.is_pinned[g]
  <2>1. s.bytes[g] = "changed" => s.is_pinned[g]
    BY DEF PoolInv, Clean
  <2>2. s \in PoolState
    BY DEF PoolInv
  <2>3. CASE g # f
    BY <1>2, <1>3, <1>4, <2>1, <2>2, <2>3 DEF PoolState
  <2>4. CASE g = f
    BY <1>2, <1>3, <1>4, <2>2, <2>4 DEF PoolState
  <2> QED BY <2>3, <2>4
<1> QED BY <1>2, <1>4, ReleasedKeeps DEF u

(* A pool whose frames are mixed up needs no more than its list and tags.  *)
LEMMA MixedUpKeeps ==
    ASSUME NEW s, PoolInv(s), NEW u \in PoolState, SameList(s, u), u.tag = s.tag, u.harm
    PROVE  PoolInv(u)
<1>1. Linked(u)
  BY LinkedIfSame DEF PoolInv
<1> QED BY <1>1 DEF PoolInv, Unique, Clean

(* A crash that found no frame to reuse. *)
LEMMA CrashKeeps ==
    ASSUME NEW s, PoolInv(s), Victim(s) = NULL
    PROVE  PoolInv(Crash(s))
<1>1. \A g \in Frame : s.is_pinned[g]
  <2>1. \A n \in Frame : Order(s)[n] \in Frame
    BY DEF PoolInv, Linked, Ordered
  <2> QED BY <2>1, VictimIsFirst DEF PoolInv, NULL, Frame
<1> DEFINE u == Crash(s)
<1>2. /\ u \in PoolState /\ SameList(s, u) /\ u.tag = s.tag /\ u.is_pinned = s.is_pinned
      /\ u.shows = s.shows /\ u.bytes = s.bytes /\ u.lost = s.lost /\ u.harm = s.harm
  BY DEF Crash, PoolInv, PoolState, SameList
<1> HIDE DEF u
<1>3. Linked(u)
  BY <1>2, LinkedIfSame DEF PoolInv
<1>4. Unique(u) /\ Clean(u)
  BY <1>1, <1>2 DEF PoolInv, Unique, Clean
<1> QED BY <1>2, <1>3, <1>4 DEF PoolInv, u

(* buf_alloc_page keeps it, also when it mixes up frames.                  *)
LEMMA AllocKeeps ==
    ASSUME NEW s, PoolInv(s), ~s.segv, ~s.harm, NEW tab \in Table, NEW h \in Frame
    PROVE  PoolInv(buf_alloc_page(s, tab, h))
<1> DEFINE u == buf_alloc_page(s, tab, h)
<1>1. /\ u \in PoolState /\ SameUse(s, u)
      /\ \/ u = Crash(s) /\ Victim(s) = NULL
         \/ u.harm
         \/ HeaderThere(s, tab, h) /\ buf_find_frame(s, <<tab, 0>>) # h
         \/ /\ u.harm = s.harm /\ u.segv = s.segv /\ u.lost = s.lost /\ u.shows = s.shows
            /\ u.bytes = [s.bytes EXCEPT ![h] = "saved"]
  BY AllocPage DEF PoolInv
<1> HIDE DEF u
<1>2. CASE u = Crash(s) /\ Victim(s) = NULL
  BY <1>2, CrashKeeps DEF u
<1>3. CASE u.harm
  BY <1>1, <1>3, MixedUpKeeps DEF SameUse, u
<1>4. ~(HeaderThere(s, tab, h) /\ buf_find_frame(s, <<tab, 0>>) # h)
  BY FoundAtItself DEF HeaderThere
<1>5. CASE /\ u.harm = s.harm /\ u.segv = s.segv /\ u.lost = s.lost /\ u.shows = s.shows
           /\ u.bytes = [s.bytes EXCEPT ![h] = "saved"]
  <2>1. Linked(u)
    BY <1>1, LinkedIfSame DEF PoolInv, SameUse
  <2>2. Unique(u)
    BY <1>1 DEF PoolInv, Unique, SameUse
  <2>3. Clean(u)
    BY <1>1, <1>5 DEF PoolInv, Clean, SameUse, PoolState
  <2> QED BY <1>1, <2>1, <2>2, <2>3 DEF PoolInv, u
<1> QED BY <1>1, <1>2, <1>3, <1>4, <1>5

(* buf_free_page keeps it.                                                 *)
LEMMA FreeKeeps ==
    ASSUME NEW s, PoolInv(s), NEW tab \in Table, NEW h \in Frame, NEW q
    PROVE  PoolInv(buf_free_page(s, tab, h, q))
<1> DEFINE u == buf_free_page(s, tab, h, q)
<1>1. /\ u \in PoolState /\ SameUse(s, u)
      /\ u.harm \/ (u = Crash(s) /\ Victim(s) = NULL)
  BY FreePage DEF PoolInv
<1> HIDE DEF u
<1> QED BY <1>1, CrashKeeps, MixedUpKeeps DEF SameUse, u

-----------------------------------------------------------------------------
(* The sessions.                                                           *)

(* The marks and pins of a pool, and two pools that have the same ones. *)
Pins(s) ==
    /\ {"is_dirty", "is_pinned", "tag", "shows", "prev_of_LRU", "last_buf"} \subseteq DOMAIN s
    /\ s.is_dirty \in [Frame -> BOOLEAN] /\ s.is_pinned \in [Frame -> BOOLEAN]

SamePins(s, u) ==
    DOMAIN u = DOMAIN s /\ u.is_dirty = s.is_dirty /\ u.is_pinned = s.is_pinned

(* DirtyIsPinned, of any pool. *)
Safe(s) == Pins(s) /\ \A f \in Frame : s.is_dirty[f] => s.is_pinned[f]

(* Safe speaks of marks and pins only.                                     *)
LEMMA SafeIfSame ==
    ASSUME NEW s, NEW u, Safe(s), SamePins(s, u)
    PROVE  Safe(u)
  BY DEF Safe, Pins, SamePins

-----------------------------------------------------------------------------
(* A page is found in a frame or not at all.                               *)
LEMMA FoundIsFrame ==
    ASSUME NEW s, NEW p
    PROVE  buf_find_frame(s, p) # NULL => buf_find_frame(s, p) \in Frame
  BY FirstOfIsIn DEF buf_find_frame

(* The frame that is reused is not pinned.                                 *)
LEMMA VictimIsUnpinned ==
    ASSUME NEW s
    PROVE  Victim(s) # NULL => Victim(s) \in Frame /\ ~s.is_pinned[Victim(s)]
  BY FirstOfIsIn DEF Victim

(* Reading, crashing, changing bytes and moving frames touch no pin. *)
LEMMA OtherFields ==
    ASSUME NEW s, NEW f, NEW p, Pins(s)
    PROVE  /\ SamePins(s, Crash(s))
           /\ SamePins(s, Read(s, f, p))
           /\ SamePins(s, Changed(s, f))
<1>1. SamePins(s, Crash(s)) BY DEF SamePins, Crash, Pins
<1>2. SamePins(s, Read(s, f, p)) BY DEF SamePins, Read, Pins
<1>3. SamePins(s, Changed(s, f)) BY DEF SamePins, Changed, Pins
<1> QED BY <1>1, <1>2, <1>3

(* Moving a frame along the list touches no mark and no pin.               *)
LEMMA MoveKeepsPins ==
    ASSUME NEW s, NEW f, Pins(s)
    PROVE  SamePins(s, MoveToEnd(s, f))
  BY DEF SamePins, MoveToEnd, Pins

-----------------------------------------------------------------------------
(* buf_get_page pins what it returns; a frame that is reused is clean.     *)
LEMMA GetIsSafe ==
    ASSUME NEW s, NEW p, Safe(s)
    PROVE  Safe(buf_get_page(s, p))
<1> DEFINE hit == buf_find_frame(s, p)
           miss == Victim(s)
<1>1. CASE hit # NULL
  <2>1. hit \in Frame BY <1>1, FoundIsFrame
  <2>2. Safe(Pin(s, hit)) BY <2>1 DEF Safe, Pins, Pin
  <2>3. SamePins(Pin(s, hit), MoveToEnd(Pin(s, hit), hit))
    BY <2>2, MoveKeepsPins DEF Safe
  <2>4. buf_get_page(s, p) = MoveToEnd(Pin(s, hit), hit) BY <1>1 DEF buf_get_page
  <2> QED BY <2>2, <2>3, <2>4, SafeIfSame
<1>2. CASE hit = NULL /\ miss = NULL
  <2>1. buf_get_page(s, p) = Crash(s) BY <1>2 DEF buf_get_page
  <2> QED BY <2>1, OtherFields, SafeIfSame DEF Safe
<1>3. CASE hit = NULL /\ miss # NULL
  <2> DEFINE r == Read(s, miss, p)
             u == Reuse(s, miss, p)
  <2>1. miss \in Frame BY <1>3, VictimIsUnpinned
  <2>2. Safe(r) BY OtherFields, SafeIfSame DEF Safe
  <2>3. Safe(u)
    <3> HIDE DEF r
    <3>1. u = [r EXCEPT !.tag[miss] = p, !.is_dirty[miss] = FALSE] BY DEF Reuse, r
    <3>2. Pins(u) BY <2>1, <2>2, <3>1 DEF Safe, Pins
    <3>3. u.is_pinned = r.is_pinned /\ u.is_dirty = [r.is_dirty EXCEPT ![miss] = FALSE]
      BY <2>2, <3>1 DEF Safe, Pins
    <3> QED BY <2>1, <2>2, <3>2, <3>3 DEF Safe, Pins
  <2>4. Safe(Pin(u, miss))
    <3> HIDE DEF u
    <3> QED BY <2>1, <2>3 DEF Safe, Pins, Pin
  <2>5. SamePins(Pin(u, miss), MoveToEnd(Pin(u, miss), miss))
    BY <2>4, MoveKeepsPins DEF Safe
  <2>6. buf_get_page(s, p) = MoveToEnd(Pin(u, miss), miss) BY <1>3 DEF buf_get_page
  <2> QED BY <2>4, <2>5, <2>6, SafeIfSame
<1> QED BY <1>1, <1>2, <1>3

(* buf_put_page writes what it unpins, and pins what was not pinned.  So   *)
(* it needs less than Safe: the frame it puts may be dirty and unpinned,   *)
(* if it was marked for this put.                                          *)
SafeBut(s, g) == Pins(s) /\ \A f \in Frame \ {g} : s.is_dirty[f] => s.is_pinned[f]

(* buf_put_page unpins a frame only after it has cleared its mark.         *)
LEMMA PutIsSafe ==
    ASSUME NEW s, NEW tab, NEW src, SafeBut(s, buf_find_frame(s, <<tab, s.shows[src][2]>>)),
           buf_find_frame(s, <<tab, s.shows[src][2]>>) = NULL => Safe(s)
    PROVE  Safe(buf_put_page(s, tab, src))
<1> DEFINE f == buf_find_frame(s, <<tab, s.shows[src][2]>>)
           u == [s EXCEPT !.is_pinned[f] = ~s.is_pinned[f]]
           w == [u EXCEPT !.bytes[src] = "saved", !.is_dirty[f] = FALSE]
           n == [u EXCEPT !.bytes[f] = "unmarked"]
<1>1. CASE f = NULL
  <2>1. buf_put_page(s, tab, src) = Crash(s) BY <1>1 DEF buf_put_page
  <2> QED BY <1>1, <2>1, OtherFields, SafeIfSame DEF Safe
<1>2. CASE f # NULL
  <2>1. f \in Frame BY <1>2, FoundIsFrame
  <2>2. buf_put_page(s, tab, src) =
          IF s.is_pinned[f] /\ s.is_dirty[f] THEN w
          ELSE IF s.bytes[f] = "changed" /\ ~s.is_dirty[f] THEN n ELSE u
    <3>1. buf_put_page(s, tab, src) =
            IF ~u.is_pinned[f] /\ s.is_dirty[f] THEN w
            ELSE IF s.bytes[f] = "changed" /\ ~s.is_dirty[f] THEN n ELSE u
      BY <1>2 DEF buf_put_page, Flipped
    <3> HIDE DEF f, w, n
    <3>2. u.is_pinned[f] = ~s.is_pinned[f]
      BY <2>1 DEF SafeBut, Pins
    <3> QED BY <3>1, <3>2
  <2>3. SafeBut(s, f)
    OBVIOUS
  <2> HIDE DEF f
  <2>4. /\ DOMAIN u = DOMAIN s
        /\ u.is_dirty = s.is_dirty
        /\ u.is_pinned = [s.is_pinned EXCEPT ![f] = ~s.is_pinned[f]]
    BY DEF SafeBut, Pins
  <2> HIDE DEF u
  <2>5. /\ DOMAIN w = DOMAIN s
        /\ w.is_dirty = [s.is_dirty EXCEPT ![f] = FALSE]
        /\ w.is_pinned = u.is_pinned
    BY <2>4 DEF SafeBut, Pins
  <2>6. DOMAIN n = DOMAIN s /\ n.is_dirty = s.is_dirty /\ n.is_pinned = u.is_pinned
    BY <2>4 DEF SafeBut, Pins
  <2> HIDE DEF w, n
  <2>7. \A g \in Frame : u.is_pinned[g] = IF g = f THEN ~s.is_pinned[f] ELSE s.is_pinned[g]
    BY <2>4 DEF SafeBut, Pins
  <2>8. u.is_pinned \in [Frame -> BOOLEAN]
    BY <2>1, <2>4 DEF SafeBut, Pins
  <2>9. CASE s.is_pinned[f] /\ s.is_dirty[f]
    <3>1. \A g \in Frame : w.is_dirty[g] => w.is_pinned[g]
      BY <2>1, <2>5, <2>7, <2>3 DEF SafeBut, Pins
    <3>2. Pins(w) BY <2>5, <2>8 DEF SafeBut, Pins
    <3>3. Safe(w) BY <3>1, <3>2 DEF Safe
    <3> QED BY <2>2, <2>9, <3>3
  <2>10. CASE ~(s.is_pinned[f] /\ s.is_dirty[f])
    <3>1. \A g \in Frame : u.is_dirty[g] => u.is_pinned[g]
      BY <2>1, <2>4, <2>10, <2>7, <2>3 DEF SafeBut, Pins
    <3>2. Pins(u) BY <2>4, <2>8 DEF SafeBut, Pins
    <3>3. Safe(u) BY <3>1, <3>2 DEF Safe
    <3>4. Safe(n) BY <2>4, <2>6, <3>3 DEF Safe, Pins
    <3> QED BY <2>2, <2>10, <3>3, <3>4
  <2> QED BY <2>9, <2>10
<1> QED BY <1>1, <1>2
(* Marking leaves only the marked frame possibly unpinned, and the put     *)
(* that follows it is for the same page.                                   *)
LEMMA SavedIsSafe ==
    ASSUME NEW f, Safe(pool)
    PROVE  Safe(Saved(f))
<1> DEFINE p == <<t, pool.shows[f][2]>>
           c == Changed(pool, f)
           g == buf_find_frame(pool, p)
           m == Marked(c, p)
<1>1. Safe(c) BY OtherFields, SafeIfSame DEF Safe
<1>2. buf_find_frame(c, p) = g
  <2>1. c.prev_of_LRU = pool.prev_of_LRU /\ c.last_buf = pool.last_buf /\ c.tag = pool.tag
    BY DEF Changed, Safe, Pins
  <2> QED BY <2>1 DEF buf_find_frame
<1>3. m = IF g = NULL THEN c ELSE [c EXCEPT !.is_dirty[g] = TRUE]
  BY <1>2 DEF Marked
<1> HIDE DEF c
<1>4. buf_find_frame(m, p) = g
  <2>1. m.prev_of_LRU = c.prev_of_LRU /\ m.last_buf = c.last_buf /\ m.tag = c.tag
    BY <1>1, <1>3 DEF Safe, Pins
  <2> QED BY <1>2, <2>1 DEF buf_find_frame
<1>5. m.shows = pool.shows
  <2>1. c.shows = pool.shows BY DEF c, Changed, Safe, Pins
  <2> QED BY <1>1, <1>3, <2>1 DEF Safe, Pins
<1>6. SafeBut(m, g)
  <2>1. CASE g = NULL
    BY <1>1, <1>3, <2>1 DEF Safe, SafeBut
  <2>2. CASE g # NULL
    <3>1. g \in Frame BY <2>2, FoundIsFrame
    <3> HIDE DEF g
    <3>2. m.is_pinned = c.is_pinned /\ m.is_dirty = [c.is_dirty EXCEPT ![g] = TRUE]
          /\ DOMAIN m = DOMAIN c
      BY <1>1, <1>3, <2>2 DEF Safe, Pins
    <3> QED BY <1>1, <3>1, <3>2 DEF Safe, SafeBut, Pins
  <2> QED BY <2>1, <2>2
<1>7. g = NULL => Safe(m) BY <1>1, <1>3
<1>8. Safe(buf_put_page(m, t, f))
  <2>1. <<t, m.shows[f][2]>> = p BY <1>5
  <2> QED BY <1>4, <1>6, <1>7, <2>1, PutIsSafe
<1> QED BY <1>8 DEF Saved, c

(* Allocating and freeing pages overwrites bytes, never marks or pins. *)
LEMMA AllocIsSafe ==
    ASSUME NEW s, NEW tab, NEW h, Safe(s)
    PROVE  Safe(buf_alloc_page(s, tab, h))
<1> DEFINE p == <<tab, s.shows[h][2]>>
           b == HeaderFrame(s, p)
           u == IF buf_find_frame(s, p) = NULL THEN Read(s, b, p)
                ELSE IF s.is_dirty[b] THEN [s EXCEPT !.bytes[b] = "saved"] ELSE s
           x == HeaderWritten(u, tab, h)
           y == [x EXCEPT !.harm = @ \/ ~HeaderThere(s, tab, h)]
<1>1. Safe(u)
  <2>1. SamePins(s, Read(s, b, p)) BY OtherFields DEF Safe
  <2>2. SamePins(s, [s EXCEPT !.bytes[b] = "saved"]) BY DEF SamePins, Safe, Pins
  <2> QED BY <2>1, <2>2, SafeIfSame
<1>2. Safe(x)
  <2> HIDE DEF u
  <2> QED BY <1>1, SafeIfSame DEF HeaderWritten, SamePins, Safe, Pins
<1>3. Safe(y)
  <2> HIDE DEF x
  <2> QED BY <1>2, SafeIfSame DEF SamePins, Safe, Pins
<1>4. Safe(Crash(s)) BY OtherFields, SafeIfSame DEF Safe
<1>5. buf_alloc_page(s, tab, h) = IF b = NULL THEN Crash(s) ELSE y BY DEF buf_alloc_page
<1> QED BY <1>3, <1>4, <1>5

(* The same for freeing.                                                   *)
LEMMA FreeIsSafe ==
    ASSUME NEW s, NEW tab, NEW h, NEW p, Safe(s)
    PROVE  Safe(buf_free_page(s, tab, h, p))
<1> DEFINE hp == <<tab, s.shows[h][2]>>
           b == HeaderFrame(s, p)
           u == IF buf_find_frame(s, p) = NULL THEN Read(s, b, hp) ELSE s
           x == HeaderWritten(u, tab, h)
           y == Read(x, b, hp)
           z == [y EXCEPT !.harm = TRUE]
<1>1. Safe(u) BY OtherFields, SafeIfSame DEF Safe
<1>2. Safe(x)
  <2> HIDE DEF u
  <2> QED BY <1>1, SafeIfSame DEF HeaderWritten, SamePins, Safe, Pins
<1>3. Safe(y)
  <2> HIDE DEF x
  <2> QED BY <1>2, OtherFields, SafeIfSame DEF Safe
<1>4. Safe(z)
  <2> HIDE DEF y
  <2> QED BY <1>3, SafeIfSame DEF SamePins, Safe, Pins
<1>5. Safe(Crash(s)) BY OtherFields, SafeIfSame DEF Safe
<1>6. buf_free_page(s, tab, h, p) = IF b = NULL THEN Crash(s) ELSE z BY DEF buf_free_page
<1> QED BY <1>4, <1>5, <1>6
-----------------------------------------------------------------------------
(* Every action keeps marked frames pinned. *)
LEMMA StepIsSafe ==
    ASSUME Safe(pool), [Next]_vars
    PROVE  Safe(pool')
<1>1. CASE Open
  BY <1>1, GetIsSafe DEF Open, OpenTable, OpenFreePage, OpenRoot
<1>2. CASE Call
  <2>1. CASE Get BY <2>1, GetIsSafe DEF Get
  <2>2. CASE Change BY <2>2, OtherFields, SafeIfSame DEF Change, Safe
  <2>3. CASE Put
    <3>1. PICK f \in Mine : pool' = buf_put_page(pool, t, f) BY <2>3 DEF Put
    <3>2. SafeBut(pool, buf_find_frame(pool, <<t, pool.shows[f][2]>>))
      BY DEF SafeBut, Safe
    <3> QED BY <3>1, <3>2, PutIsSafe
  <2>4. CASE Update BY <2>4, SavedIsSafe DEF Update
  <2>5. CASE Alloc BY <2>5, AllocIsSafe DEF Alloc
  <2>6. CASE Free BY <2>6, FreeIsSafe DEF Free
  <2>7. CASE UpdateHeader
    <3> DEFINE u == Saved(header[t])
               w == [u EXCEPT !.harm = @ \/ ~HeaderThere(pool, t, header[t])]
    <3>1. Safe(u) BY SavedIsSafe
    <3>2. Safe(w)
      <4> HIDE DEF u
      <4> QED BY <3>1, SafeIfSame DEF SamePins, Safe, Pins
    <3> QED BY <2>7, <3>2 DEF UpdateHeader
  <2> QED BY <1>2, <2>1, <2>2, <2>3, <2>4, <2>5, <2>6, <2>7 DEF Call
<1>3. CASE ChangeFile \/ Quit \/ EndOfInput \/ CloseEnd \/ UNCHANGED vars
  BY <1>3 DEF ChangeFile, Quit, EndOfInput, CloseEnd, vars
<1>4. CASE CloseRound
  <2>1. SamePins(pool, pool')
    BY <1>4 DEF CloseRound, SamePins, Safe, Pins
  <2> QED BY <2>1, SafeIfSame
<1> QED BY <1>1, <1>2, <1>3, <1>4 DEF Next, Close

(* A marked frame that was not written yet is pinned, so that no frame is  *)
(* reused while it is marked: buf_get_page needs no write (bpt3.c:444).    *)
THEOREM MarkedFramesArePinned == Spec => []DirtyIsPinned
<1>1. Init => Safe(pool)
  BY DEF Init, init_db, Safe, Pins
<1>2. Safe(pool) /\ [Next]_vars => Safe(pool)'
  BY StepIsSafe
<1>3. Safe(pool) => DirtyIsPinned
  BY DEF Safe, DirtyIsPinned
<1> QED BY <1>1, <1>2, <1>3, PTL DEF Spec

-----------------------------------------------------------------------------
(* The names of the open tables and the one in use. *)
NoNameTwice == \A j, k \in 1 .. last_table : string[j] = string[k] => j = k

Names ==
    /\ string \in Seq(Name) /\ current_table \in 1 .. last_table
    /\ NoNameTwice /\ FollowsChange

(* Each open table has a name of its own, and the current one is the last  *)
(* one chosen.                                                             *)
LEMMA NamesInvariant == Spec => []Names
<1> USE DEF last_table
<1>1. Init => Names
  BY DEF Init, Names, NoNameTwice, FollowsChange
<1>2. Names /\ [Next]_vars => Names'
  <2> SUFFICES ASSUME Names, [Next]_vars PROVE Names'
    OBVIOUS
  <2>1. CASE UNCHANGED sessionVars
    BY <2>1 DEF Names, NoNameTwice, FollowsChange, Known, sessionVars
  <2>2. CASE ChangeFile
    <3>1. PICK s \in Name : asked' = s /\ (SwitchTable(s) \/ OpenAnother(s) \/ StayPut(s))
      BY <2>2 DEF ChangeFile
    <3>2. CASE SwitchTable(s)
      BY <3>1, <3>2 DEF SwitchTable, Names, NoNameTwice, FollowsChange, Known
    <3>3. CASE OpenAnother(s)
      <4>1. /\ string' \in Seq(Name) /\ Len(string') = Len(string) + 1
            /\ string'[Len(string) + 1] = s
            /\ \A k \in 1 .. Len(string) : string'[k] = string[k] /\ string[k] # s
        BY <3>3 DEF OpenAnother, Names, Known
      <4> QED BY <3>1, <3>3, <4>1 DEF OpenAnother, Names, NoNameTwice, FollowsChange
    <3>4. CASE StayPut(s)
      BY <3>1, <3>4 DEF StayPut, Names, NoNameTwice, FollowsChange, Known
    <3> QED BY <3>1, <3>2, <3>3, <3>4
  <2>3. CASE Open \/ Call \/ Quit \/ Close \/ UNCHANGED vars
    <3>1. UNCHANGED sessionVars
      BY <2>3 DEF Open, OpenTable, OpenFreePage, OpenRoot, Call, Get, Change, Put, Update,
                  Alloc, Free, UpdateHeader, AtPrompt, Quit, Close, EndOfInput, CloseRound,
                  CloseEnd, vars
    <3> QED BY <2>1, <3>1
  <2> QED BY <2>2, <2>3 DEF Next
<1> QED BY <1>1, <1>2, PTL DEF Spec

(* Command c leads to the table with the name asked for, with one          *)
(* exception: a name that no table has is ignored once the program has     *)
(* come back to a table before.                                            *)
THEOREM ChangeIsFollowed == Spec => []FollowsChange
<1>1. Names => FollowsChange
  BY DEF Names
<1> QED BY NamesInvariant, <1>1, PTL

-----------------------------------------------------------------------------
(* The invariant of the pool and of what main knows about it. *)
Ended == phase \in {"close", "exited", "aborted"}

(* close_table links the list to itself; until then it is intact. *)
PoolPart == Clean(pool) /\ Unique(pool) /\ (Ended \/ Linked(pool))

ClosePart == phase = "close" => tmp_buf \in Frame /\ last_buf \in Frame

(* Every table that is open has its header in a frame. *)
HeaderPart ==
    /\ IF phase = "corrupt" THEN last_table = TABLE_COUNT + 1 ELSE last_table <= TABLE_COUNT
    /\ Alive /\ phase # "corrupt" =>
         \A k \in 1 .. last_table : header[k] \in Frame \/ (k = current_table /\ phase = "open")

SessionInv == TypeOK /\ PoolPart /\ ClosePart /\ HeaderPart

(* The first state: an empty pool and no table.                            *)
LEMMA InitSession == Init => SessionInv
<1> SUFFICES ASSUME Init PROVE SessionInv
  OBVIOUS
<1>1. PoolInv(pool)
  BY InitPool DEF Init
<1>2. TypeOK
  BY <1>1, PoolAssumption DEF Init, TypeOK, PoolInv
<1>3. PoolPart /\ ClosePart
  BY <1>1 DEF PoolPart, PoolInv, ClosePart, Init
<1>4. HeaderPart
  BY PoolAssumption DEF HeaderPart, Init, last_table
<1> QED BY <1>2, <1>3, <1>4 DEF SessionInv

(* Between two calls. *)
LEMMA Between ==
    ASSUME SessionInv, Names, ~Ended, phase # "corrupt"
    PROVE  PoolInv(pool) /\ t \in Table /\ \A n \in PageNum : <<t, n>> \in Page
<1>1. PoolInv(pool)
  BY DEF SessionInv, TypeOK, PoolPart, PoolInv
<1>2. t \in Table
  BY PoolAssumption DEF SessionInv, TypeOK, HeaderPart, Names, t, Table, last_table
<1> QED BY <1>1, <1>2 DEF Page

(* What a call leaves as it is. *)
LEMMA CallKeeps ==
    ASSUME SessionInv, Names, ~Ended, PoolInv(pool'), Alive, phase # "corrupt",
           phase' \in {"freepage", "root", "make_header", "prompt"},
           UNCHANGED <<sessionVars, closeVars>>,
           header' \in [Table -> Frame \cup {NULL}],
           Alive' => \A k \in 1 .. last_table : header'[k] \in Frame
    PROVE  SessionInv'
<1>1. TypeOK'
  BY DEF SessionInv, TypeOK, PoolInv, sessionVars
<1>2. PoolPart'
  BY DEF PoolPart, PoolInv
<1>3. ClosePart' /\ HeaderPart'
  BY DEF SessionInv, ClosePart, HeaderPart, sessionVars, last_table
<1> QED BY <1>1, <1>2, <1>3 DEF SessionInv

(* open_table pins the header of the new table and keeps the invariant.    *)
LEMMA OpenKeeps ==
    ASSUME SessionInv, Names, Open
    PROVE  SessionInv'
<1>1. CASE OpenTable
  <2> DEFINE p == <<t, 0>>
             u == buf_get_page(pool, p)
  <2>1. ~Ended /\ phase # "corrupt" /\ 0 \in PageNum
    BY <1>1, PoolAssumption DEF OpenTable, Ended, PageNum
  <2>2. PoolInv(pool) /\ t \in Table /\ p \in Page /\ ~pool.segv
    BY <1>1, <2>1, Between DEF OpenTable, Alive
  <2> HIDE DEF p
  <2>3. PoolInv(u)
    BY <2>2, GetKeeps
  <2>4. u.segv \/ buf_find_frame(u, p) \in Frame
    <3>1. (u = Crash(pool)) \/ \E i \in Frame : Takes(pool, u, p, i)
      BY <2>2, GetPage DEF PoolInv
    <3>2. u = Crash(pool) => u.segv
      BY <2>2 DEF Crash, PoolInv, PoolState
    <3> HIDE DEF u
    <3>3. ASSUME NEW i \in Frame, Takes(pool, u, p, i)
          PROVE  \E f \in Frame : u.tag[f] = p
      <4> DEFINE f == Order(pool)[i]
      <4>1. f \in Frame /\ (Hits(pool, u, p, i) \/ Loads(pool, u, p, i))
        BY <3>3 DEF Takes
      <4>2. u.tag[f] = p
        BY <2>2, <4>1 DEF Hits, Loads, PoolInv, PoolState
      <4> QED BY <4>1, <4>2
    <3> QED BY <2>3, <3>1, <3>2, <3>3, FindIsComplete DEF PoolInv
  <2>5. pool' = u /\ header' = [header EXCEPT ![t] = buf_find_frame(u, p)]
    BY <1>1 DEF OpenTable, Got, p
  <2> HIDE DEF u
  <2>6. header \in [Table -> Frame \cup {NULL}]
    BY DEF SessionInv, TypeOK
  <2>7. buf_find_frame(u, p) \in Frame \cup {NULL}
    BY FoundIsFrame
  <2>8. header' \in [Table -> Frame \cup {NULL}]
    BY <2>2, <2>5, <2>6, <2>7
  <2>9. Alive' => \A k \in 1 .. last_table : header'[k] \in Frame
    <3> SUFFICES ASSUME Alive', NEW k \in 1 .. last_table PROVE header'[k] \in Frame
      OBVIOUS
    <3>1. k \in Table
      BY <2>1, PoolAssumption DEF SessionInv, HeaderPart, TypeOK, last_table, Table
    <3>2. ~u.segv
      BY <2>5 DEF Alive
    <3>3. header[k] \in Frame \/ k = t
      BY <1>1, <2>1 DEF SessionInv, HeaderPart, OpenTable, t
    <3> QED BY <2>2, <2>4, <2>5, <2>6, <3>1, <3>2, <3>3
  <2>10. /\ Alive /\ phase' \in {"freepage", "root", "make_header", "prompt"}
         /\ UNCHANGED <<sessionVars, closeVars>>
    BY <1>1 DEF OpenTable
  <2> QED BY <2>1, <2>3, <2>5, <2>8, <2>9, <2>10, CallKeeps
<1>2. CASE OpenFreePage \/ OpenRoot
  <2>1. /\ ~Ended /\ phase \notin {"corrupt", "open"} /\ Alive
        /\ phase' \in {"freepage", "root", "make_header", "prompt"}
        /\ UNCHANGED <<sessionVars, closeVars>> /\ header' = header
    BY <1>2 DEF OpenFreePage, OpenRoot, Ended
  <2>2. PICK n \in PageNum : pool' = buf_get_page(pool, <<t, n>>)
    BY <1>2 DEF OpenFreePage, OpenRoot
  <2>3. PoolInv(pool')
    BY <2>1, <2>2, Between, GetKeeps DEF Alive
  <2>4. header' \in [Table -> Frame \cup {NULL}] /\ \A k \in 1 .. last_table : header'[k] \in Frame
    BY <2>1 DEF SessionInv, TypeOK, HeaderPart
  <2> QED BY <2>1, <2>3, <2>4, CallKeeps
<1> QED BY <1>1, <1>2 DEF Open

(* Each call of the tree's functions keeps the pool's invariant. *)
LEMMA CallKeepsPool ==
    ASSUME SessionInv, Names, Call
    PROVE  PoolInv(pool')
<1>1. /\ ~Ended /\ phase \notin {"corrupt", "open"} /\ ~pool.segv /\ ~pool.harm
  BY DEF Call, Get, Change, Put, Update, Alloc, Free, UpdateHeader, AtPrompt, Alive, Ended
<1>2. PoolInv(pool) /\ t \in Table /\ \A n \in PageNum : <<t, n>> \in Page
  BY <1>1, Between
<1>3. header[t] \in Frame
  BY <1>1 DEF SessionInv, HeaderPart, Alive, Names, t
<1>4. \A f \in Mine : f \in Frame /\ pool.shows[f][1] = t
  BY DEF Mine
<1>5. \A f : Saved(f) = MarkAndPut(pool, t, f)
  BY DEF Saved, MarkAndPut
<1>6. CASE Get
  BY <1>1, <1>2, <1>6, GetKeeps DEF Get
<1>7. CASE Change
  <2>1. PICK f \in Frame : pool.is_pinned[f] /\ pool' = Changed(pool, f)
    BY <1>4, <1>7 DEF Change
  <2> DEFINE u == Changed(pool, f)
  <2>2. /\ u \in PoolState /\ SameList(pool, u) /\ u.tag = pool.tag /\ u.shows = pool.shows
        /\ u.is_pinned = pool.is_pinned /\ u.lost = pool.lost /\ u.segv = pool.segv
        /\ u.harm = pool.harm /\ u.bytes = [pool.bytes EXCEPT ![f] = "changed"]
    BY <1>2 DEF Changed, PoolInv, PoolState, SameList
  <2> HIDE DEF u
  <2>3. Linked(u)
    BY <1>2, <2>2, LinkedIfSame DEF PoolInv
  <2>4. Unique(u) /\ Clean(u)
    BY <1>2, <2>1, <2>2 DEF PoolInv, Unique, Clean, PoolState
  <2> QED BY <2>1, <2>2, <2>3, <2>4 DEF PoolInv, u
<1>8. CASE Put
  BY <1>1, <1>2, <1>4, <1>8, PutKeeps DEF Put
<1>9. CASE Update
  BY <1>1, <1>2, <1>4, <1>5, <1>9, MarkAndPutKeeps DEF Update
<1>10. CASE Alloc
  BY <1>1, <1>2, <1>3, <1>10, AllocKeeps DEF Alloc
<1>11. CASE Free
  BY <1>2, <1>3, <1>11, FreeKeeps DEF Free
<1>12. CASE UpdateHeader
  <2> DEFINE h == header[t]
             u == MarkAndPut(pool, t, h)
             w == [u EXCEPT !.harm = @ \/ ~HeaderThere(pool, t, h)]
  <2>1. pool' = w
    BY <1>5, <1>12 DEF UpdateHeader
  <2>2. Released(pool, u, buf_find_frame(pool, <<t, pool.shows[h][2]>>))
    BY <1>2, <1>3, MarkAndPutPage DEF PoolInv
  <2>3. HeaderThere(pool, t, h) => PoolInv(u)
    BY <1>1, <1>2, <1>3, MarkAndPutKeeps DEF HeaderThere
  <2> HIDE DEF u, h
  <2>4. /\ w \in PoolState /\ SameList(u, w) /\ w.tag = u.tag
        /\ w.harm = (u.harm \/ ~HeaderThere(pool, t, h))
    BY <2>2 DEF Released, PoolState, SameList, HeaderThere
  <2>5. CASE ~HeaderThere(pool, t, h)
    <3> HIDE DEF w
    <3>1. SameList(pool, w) /\ w.tag = pool.tag /\ w.harm
      BY <2>2, <2>4, <2>5 DEF Released, SameList
    <3> QED BY <1>2, <2>1, <2>4, <3>1, MixedUpKeeps
  <2>6. CASE HeaderThere(pool, t, h)
    <3>1. u \in PoolState
      BY <2>2 DEF Released
    <3>2. w = u
      BY <2>6, <3>1 DEF PoolState
    <3> QED BY <2>1, <2>3, <2>6, <3>2
  <2> QED BY <2>5, <2>6
<1> QED BY <1>6, <1>7, <1>8, <1>9, <1>10, <1>11, <1>12 DEF Call

(* Quitting and closing keep the invariant, also between two frames of     *)
(* close_table.                                                            *)
LEMMA EndingKeeps ==
    ASSUME SessionInv, Names, Quit \/ Close
    PROVE  SessionInv'
<1>1. TypeOK /\ pool \in PoolState
  BY DEF SessionInv, TypeOK
<1>2. CASE Quit
  BY <1>2 DEF Quit, SessionInv, TypeOK, PoolPart, Ended, ClosePart, HeaderPart, sessionVars,
              closeVars, last_table, Alive
<1>3. CASE EndOfInput
  <2>1. PoolInv(pool)
    BY <1>3, Between DEF EndOfInput, Ended
  <2>2. \E f \in Frame : pool.next_of_LRU[f] = NULL
    <3>1. BUFFER_SIZE \in Frame /\ Order(pool)[BUFFER_SIZE] \in Frame
      BY <2>1, PoolAssumption DEF PoolInv, Linked, Ordered, Frame
    <3>2. pool.next_of_LRU[Order(pool)[BUFFER_SIZE]] = NULL
      BY <2>1, <3>1 DEF PoolInv, Linked, Ordered
    <3> QED BY <3>1, <3>2
  <2>3. ListEnd(pool) \in Frame /\ 1 \in Frame
    BY <2>2, PoolAssumption DEF ListEnd, Frame
  <2> QED BY <1>3, <2>1, <2>3 DEF EndOfInput, SessionInv, TypeOK, PoolPart, Ended, ClosePart,
              HeaderPart, sessionVars, last_table, Alive
<1>4. CASE CloseRound
  <2> DEFINE next == [pool.next_of_LRU EXCEPT ![last_buf] = tmp_buf]
             bytes == [pool.bytes EXCEPT ![tmp_buf] =
                         IF pool.tag[tmp_buf][1] = 1 /\ pool.is_dirty[tmp_buf]
                         THEN "saved" ELSE @]
  <2>1. tmp_buf \in Frame /\ last_buf \in Frame /\ phase' = phase /\ phase = "close"
    BY <1>4 DEF SessionInv, ClosePart, CloseRound
  <2>2. pool' = [pool EXCEPT !.next_of_LRU = next, !.bytes = bytes]
    BY <1>1, <1>4 DEF CloseRound, PoolState
  <2>3. next \in [Frame -> Frame \cup {NULL}] /\ next[tmp_buf] \in Frame
    BY <1>1, <1>4, <2>1 DEF CloseRound, PoolState
  <2>4. tmp_buf' = next[tmp_buf] /\ last_buf' = tmp_buf
    BY <1>4 DEF CloseRound
  <2>5. /\ bytes \in [Frame -> {"saved", "changed", "unmarked"}]
        /\ \A f \in Frame : bytes[f] = "changed" => pool.bytes[f] = "changed"
    BY <1>1, <2>1 DEF PoolState
  <2> HIDE DEF next, bytes
  <2>6. /\ pool' \in PoolState /\ pool'.bytes = bytes /\ pool'.shows = pool.shows
        /\ pool'.tag = pool.tag /\ pool'.is_pinned = pool.is_pinned
        /\ pool'.lost = pool.lost /\ pool'.segv = pool.segv /\ pool'.harm = pool.harm
    BY <1>1, <2>2, <2>3, <2>5 DEF PoolState
  <2>7. Clean(pool') /\ Unique(pool')
    BY <2>5, <2>6 DEF SessionInv, PoolPart, Clean, Unique
  <2>8. UNCHANGED <<header, sessionVars>>
    BY <1>4 DEF CloseRound
  <2>9. TypeOK'
    BY <1>1, <2>1, <2>6, <2>8 DEF TypeOK, sessionVars
  <2>10. PoolPart' /\ ClosePart'
    BY <2>1, <2>3, <2>4, <2>7 DEF PoolPart, ClosePart, Ended
  <2>11. HeaderPart'
    BY <2>1, <2>6, <2>8 DEF SessionInv, HeaderPart, Alive, sessionVars, last_table
  <2> QED BY <2>9, <2>10, <2>11 DEF SessionInv
<1>5. CASE CloseEnd
  BY <1>5 DEF CloseEnd, SessionInv, TypeOK, PoolPart, Ended, ClosePart, HeaderPart, sessionVars,
              closeVars, last_table, Alive
<1> QED BY <1>2, <1>3, <1>4, <1>5 DEF Close

(* change_file keeps the invariant: it only chooses a table that is open.  *)
LEMMA ChangeFileKeeps ==
    ASSUME SessionInv, Names, ChangeFile
    PROVE  SessionInv'
<1> USE DEF last_table
<1>1. UNCHANGED <<pool, header, tmp_buf, last_buf>> /\ phase = "prompt" /\ Alive /\ Alive'
  BY DEF ChangeFile, closeVars, Alive
<1>2. PICK s \in Name : SwitchTable(s) \/ OpenAnother(s) \/ StayPut(s)
  BY DEF ChangeFile
<1>3. /\ Len(string) \in Nat /\ Len(string) <= TABLE_COUNT /\ TABLE_COUNT \in Nat
      /\ current_table \in 1 .. Len(string)
      /\ \A k \in 1 .. Len(string) : header[k] \in Frame
  BY <1>1, PoolAssumption DEF SessionInv, TypeOK, HeaderPart, Names
<1>4. /\ string' \in Seq(Name) /\ flag' \in {0, 1}
      /\ \/ /\ phase' = "prompt" /\ Len(string') = Len(string)
            /\ current_table' \in 1 .. Len(string)
         \/ /\ Len(string') = Len(string) + 1 /\ current_table' = Len(string) + 1
            /\ phase' = IF Len(string) < TABLE_COUNT THEN "open" ELSE "corrupt"
  BY <1>1, <1>2, <1>3 DEF SwitchTable, OpenAnother, StayPut, Known, SessionInv, TypeOK
<1>5. current_table' \in 1 .. TABLE_COUNT + 1 /\ phase' \in {"prompt", "open", "corrupt"}
  BY <1>3, <1>4
<1>6. TypeOK'
  BY <1>1, <1>4, <1>5 DEF SessionInv, TypeOK
<1>7. PoolPart' /\ ClosePart'
  BY <1>1, <1>5 DEF SessionInv, PoolPart, ClosePart, Ended
<1>8. HeaderPart'
  BY <1>1, <1>3, <1>4 DEF HeaderPart
<1> QED BY <1>6, <1>7, <1>8 DEF SessionInv

(* The invariant holds in every reachable state.                           *)
LEMMA SessionInvariant == Spec => []SessionInv
<1>1. SessionInv /\ Names /\ [Next]_vars => SessionInv'
  <2> SUFFICES ASSUME SessionInv, Names, [Next]_vars PROVE SessionInv'
    OBVIOUS
  <2>1. CASE Call
    <3>1. /\ ~Ended /\ phase # "corrupt" /\ Alive /\ phase # "open" /\ header' = header
          /\ phase' = "prompt" /\ UNCHANGED <<sessionVars, closeVars>>
      BY <2>1 DEF Call, Get, Change, Put, Update, Alloc, Free, UpdateHeader, AtPrompt, Ended
    <3>2. header \in [Table -> Frame \cup {NULL}] /\ \A k \in 1 .. last_table : header[k] \in Frame
      BY <3>1 DEF SessionInv, TypeOK, HeaderPart
    <3> QED BY <2>1, <3>1, <3>2, CallKeepsPool, CallKeeps
  <2>2. CASE UNCHANGED vars
    BY <2>2 DEF vars, sessionVars, closeVars, SessionInv, TypeOK, PoolPart, Ended, ClosePart,
                HeaderPart, Alive, last_table
  <2> QED BY <2>1, <2>2, OpenKeeps, ChangeFileKeeps, EndingKeeps DEF Next
<1> QED BY InitSession, NamesInvariant, <1>1, PTL DEF Spec

(* The types of Session.tla, the pool's among them: no pointer of the list *)
(* leaves the frames, and no table is opened beyond the one for which      *)
(* header[] has no place (bpt3.c:1499).                                    *)
THEOREM SessionTypes == Spec => []TypeOK
<1>1. SessionInv => TypeOK
  BY DEF SessionInv
<1> QED BY SessionInvariant, <1>1, PTL

(* Although buf_get_page reuses frames without writing them                *)
(* (bpt3.c:444), a change is lost only if it was put without a mark, or    *)
(* after frames were mixed up.                                             *)
THEOREM NoMarkedChangeIsLost == Spec => []LostOnlyUnmarked
<1>1. SessionInv => LostOnlyUnmarked
  BY DEF SessionInv, PoolPart, Clean, LostOnlyUnmarked
<1> QED BY SessionInvariant, <1>1, PTL

(* A frame has the bytes of the page it passes for, until a page is freed  *)
(* or a header pointer is used whose frame was reused (bpt3.c:337-400).    *)
THEOREM FramesKeepTheirPage == Spec => []FramesShowTheirPage
<1>1. SessionInv => FramesShowTheirPage
  BY DEF SessionInv, PoolPart, Clean, FramesShowTheirPage
<1> QED BY SessionInvariant, <1>1, PTL

(* A page of what is open under one name has one frame, also after frames  *)
(* were mixed up: buf_get_page (bpt3.c:402) reads a page only after a      *)
(* search that reaches every frame, and command c (bpt3.c:1488) gives no   *)
(* name a second table.                                                    *)
THEOREM PagesHaveOneFrame == Spec => []OneFramePerPage
<1>1. SessionInv /\ Names => OneFramePerPage
  <2> SUFFICES ASSUME SessionInv, Names,
                      NEW j \in 1 .. last_table, NEW k \in 1 .. last_table, NEW n \in PageNum,
                      NEW f \in Frame, NEW g \in Frame, string[j] = string[k],
                      pool.tag[f] = <<j, n>>, pool.tag[g] = <<k, n>>
               PROVE  f = g
    BY DEF OneFramePerPage
  <2>1. j = k
    BY DEF Names, NoNameTwice
  <2>2. <<j, n>> # NoPage
    BY DEF NoPage
  <2> QED BY <2>1, <2>2 DEF SessionInv, PoolPart, Unique
<1> QED BY SessionInvariant, NamesInvariant, <1>1, PTL

(* The search for a frame to reuse dereferences NULL only when every frame *)
(* is pinned: the list reaches all of them.                                *)
THEOREM CrashMeansFull == Spec => []CrashesOnlyWhenFull
<1>1. SessionInv => CrashesOnlyWhenFull
  BY DEF SessionInv, PoolPart, Clean, CrashesOnlyWhenFull
<1> QED BY SessionInvariant, <1>1, PTL

-----------------------------------------------------------------------------
(* The refinement.  order stands for Order(pool). *)
LEMMA TakenIsStep ==
    ASSUME PoolInv(pool), NEW p \in Page, NEW i, Takes(pool, pool', p, i)
    PROVE  LRU!Step
<1> DEFINE ord == Order(pool)
           f == ord[i]
           N == BUFFER_SIZE
<1>1. i \in Frame /\ f \in Frame /\ ord \in [1 .. N -> Frame] /\ N \in Nat
  BY PoolAssumption DEF Takes, PoolInv, Linked, Ordered, Frame
<1>2. DOMAIN ord = 1 .. N /\ Len(ord) = N
  BY <1>1
<1>3. LRU!ToEnd(f)
  <2>1. Order(pool') = ToEnd(ord, i)
    BY DEF Takes
  <2>2. Chain(pool.next_of_LRU, pool.first_buf) = ord /\ Chain(pool'.next_of_LRU, pool'.first_buf) = Order(pool')
    BY DEF Order
  <2>3. ToEnd(ord, i) = [k \in 1 .. N |-> IF k < i THEN ord[k] ELSE IF k < N THEN ord[k + 1] ELSE f]
    BY DEF ToEnd, Frame
  <2>4. i \in DOMAIN ord
    BY <1>1, <1>2 DEF Frame
  <2> HIDE DEF ord
  <2> QED BY <1>2, <2>1, <2>2, <2>3, <2>4 DEF LRU!ToEnd
<1>4. pool'.is_pinned = [pool.is_pinned EXCEPT ![f] = TRUE]
  BY DEF Takes
<1>5. CASE Hits(pool, pool', p, i)
  <2>1. pool.tag[f] # NoPage /\ pool'.tag = pool.tag
    BY <1>5 DEF Hits, Page, NoPage, Table
  <2>2. LRU!Use(f)
    BY <1>3, <1>4, <2>1 DEF LRU!Use
  <2> QED BY <1>1, <2>2 DEF LRU!Step
<1>6. CASE Loads(pool, pool', p, i)
  <2>1. /\ \A g \in Frame : pool.tag[g] # p
        /\ ~pool.is_pinned[f] /\ \A k \in 1 .. i - 1 : pool.is_pinned[ord[k]]
        /\ pool'.tag = [pool.tag EXCEPT ![f] = p]
    BY <1>6 DEF Loads
  <2>2. i \in DOMAIN ord /\ ord = Chain(pool.next_of_LRU, pool.first_buf)
    BY <1>1, <1>2 DEF Frame, Order
  <2> HIDE DEF ord
  <2>3. LRU!Load(p)
    BY <1>3, <1>4, <2>1, <2>2 DEF LRU!Load
  <2> QED BY <2>3 DEF LRU!Step
<1> QED BY <1>5, <1>6 DEF Takes

(* A release is an LRU step, or nothing changes for a page that is not     *)
(* found.                                                                  *)
LEMMA ReleasedIsStep ==
    ASSUME PoolInv(pool), NEW tab \in Table, NEW n, NEW u,
           Released(pool, u, buf_find_frame(pool, <<tab, n>>)), SameUse(u, pool')
    PROVE  [LRU!Step]_(LRU!lruVars)
<1> DEFINE p == <<tab, n>>
           g == buf_find_frame(pool, p)
<1>1. Order(pool') = Order(pool) /\ pool'.tag = pool.tag /\ pool'.is_pinned = u.is_pinned
  BY LinkedIfSame DEF Released, SameUse
<1>2. CASE g = NULL
  <2>1. u.is_pinned = pool.is_pinned
    BY <1>2 DEF Released
  <2> QED BY <1>1, <2>1 DEF LRU!lruVars, Order
<1>3. CASE g # NULL
  <2>1. g \in Frame /\ u.is_pinned = [pool.is_pinned EXCEPT ![g] = ~pool.is_pinned[g]]
    BY <1>3 DEF Released
  <2>2. pool.tag[g] = p /\ p # NoPage
    BY <1>3, FindIsComplete DEF PoolInv, NoPage, Table
  <2> HIDE DEF g
  <2>3. LRU!Release(g)
    BY <1>1, <2>1, <2>2 DEF LRU!Release, Order
  <2> QED BY <2>1, <2>3 DEF LRU!Step
<1> QED BY <1>2, <1>3

(* Every outcome of buf_get_page is a step of the LRU pool, or a crash,    *)
(* which is none.                                                          *)
LEMMA GetIsStep ==
    ASSUME PoolInv(pool), NEW p \in Page, pool' = buf_get_page(pool, p)
    PROVE  [LRU!Step]_(LRU!lruVars)
<1>1. (pool' = Crash(pool)) \/ \E i \in Frame : Takes(pool, pool', p, i)
  BY GetPage DEF PoolInv
<1>2. CASE pool' = Crash(pool)
  <2>1. SameUse(pool, pool')
    BY <1>2 DEF Crash, PoolInv, PoolState, SameUse, SameList
  <2> QED BY <2>1 DEF SameUse, SameList, LRU!lruVars
<1> QED BY <1>1, <1>2, TakenIsStep

(* Calls that leave order, tags and pins as they are stutter.              *)
LEMMA SameUseStutters ==
    ASSUME SameUse(pool, pool')
    PROVE  UNCHANGED LRU!lruVars
  BY DEF SameUse, SameList, LRU!lruVars

(* init_db is the initial state of the LRU pool.                           *)
LEMMA InitIsLRU == Init => LRU!Init
<1> SUFFICES ASSUME Init PROVE LRU!Init
  OBVIOUS
<1> DEFINE N == BUFFER_SIZE
           ord == [k \in 1 .. N |-> k]
<1>1. Chain(pool.next_of_LRU, pool.first_buf) = ord
  BY InitPool DEF Init, Order, Frame
<1>2. ord \in Seq(Frame) /\ DOMAIN ord = 1 .. N /\ \A k \in 1 .. N : ord[k] = k
  BY PoolAssumption DEF Frame
<1>3. pool.tag = [f \in Frame |-> NoPage] /\ pool.is_pinned = [f \in Frame |-> FALSE]
  BY DEF Init, init_db
<1> HIDE DEF ord
<1>4. \A f \in Frame : \E k \in DOMAIN ord : ord[k] = f
  BY <1>2 DEF Frame
<1>5. \A j, k \in DOMAIN ord : ord[j] = ord[k] => j = k
  BY <1>2
<1> QED BY <1>1, <1>2, <1>3, <1>4, <1>5 DEF LRU!Init

(* Every call of the tree's functions is a step of the LRU pool.           *)
LEMMA CallIsStep ==
    ASSUME SessionInv, Names, Call
    PROVE  [LRU!Step]_(LRU!lruVars)
<1>1. ~Ended /\ phase \notin {"corrupt", "open"} /\ Alive
  BY DEF Call, Get, Change, Put, Update, Alloc, Free, UpdateHeader, AtPrompt, Ended
<1>2. PoolInv(pool) /\ t \in Table /\ \A n \in PageNum : <<t, n>> \in Page
  BY <1>1, Between
<1>3. header[t] \in Frame
  BY <1>1 DEF SessionInv, HeaderPart, Names, t
<1>4. \A f \in Mine : f \in Frame
  BY DEF Mine
<1>5. \A f : Saved(f) = MarkAndPut(pool, t, f)
  BY DEF Saved, MarkAndPut
<1>6. CASE Get
  BY <1>2, <1>6, GetIsStep DEF Get
<1>7. CASE Change
  <2>1. SameUse(pool, pool')
    BY <1>2, <1>7 DEF Change, Changed, PoolInv, PoolState, SameUse, SameList
  <2> QED BY <2>1, SameUseStutters
<1>8. CASE Put
  <2>1. PICK f \in Frame : pool' = buf_put_page(pool, t, f)
    BY <1>4, <1>8 DEF Put
  <2>2. Released(pool, pool', buf_find_frame(pool, <<t, pool.shows[f][2]>>))
    BY <1>2, <2>1, PutPage DEF PoolInv
  <2> QED BY <1>2, <2>2, ReleasedIsStep DEF SameUse, SameList
<1>9. CASE Update
  <2>1. PICK f \in Frame : pool' = MarkAndPut(pool, t, f)
    BY <1>4, <1>5, <1>9 DEF Update
  <2>2. Released(pool, pool', buf_find_frame(pool, <<t, pool.shows[f][2]>>))
    BY <1>2, <2>1, MarkAndPutPage DEF PoolInv
  <2> QED BY <1>2, <2>2, ReleasedIsStep DEF SameUse, SameList
<1>10. CASE Alloc
  BY <1>2, <1>3, <1>10, AllocPage, SameUseStutters DEF Alloc, PoolInv
<1>11. CASE Free
  BY <1>2, <1>3, <1>11, FreePage, SameUseStutters DEF Free, PoolInv
<1>12. CASE UpdateHeader
  <2> DEFINE h == header[t]
             u == MarkAndPut(pool, t, h)
             g == buf_find_frame(pool, <<t, pool.shows[h][2]>>)
             w == [u EXCEPT !.harm = @ \/ ~HeaderThere(pool, t, h)]
  <2>1. pool' = w
    BY <1>5, <1>12 DEF UpdateHeader
  <2>2. Released(pool, u, g)
    BY <1>2, <1>3, MarkAndPutPage DEF PoolInv
  <2> HIDE DEF u, h, g
  <2>3. SameUse(u, w)
    BY <2>2 DEF Released, PoolState, SameUse, SameList
  <2> HIDE DEF w
  <2> QED BY <1>2, <2>1, <2>2, <2>3, ReleasedIsStep DEF g
<1> QED BY <1>6, <1>7, <1>8, <1>9, <1>10, <1>11, <1>12 DEF Call

(* The doubly linked list with its ten pointers per move behaves like      *)
(* frames in order of last use: a hit puts the frame last, a miss takes    *)
(* the first unpinned one, and nothing else changes order, tags or pins.   *)
THEOREM PoolRefinesLRU == Spec => ImplementsLRUPool
<1>1. SessionInv /\ Names /\ [Next]_vars => [phase = "close" \/ LRU!Step]_(LRU!lruVars)
  <2> SUFFICES ASSUME SessionInv, Names, [Next]_vars
               PROVE  [phase = "close" \/ LRU!Step]_(LRU!lruVars)
    OBVIOUS
  <2>1. CASE Open
    <3>1. ~Ended /\ phase # "corrupt" /\ 0 \in PageNum
      BY <2>1, PoolAssumption DEF Open, OpenTable, OpenFreePage, OpenRoot, Ended, PageNum
    <3>2. \E n \in PageNum : pool' = buf_get_page(pool, <<t, n>>)
      BY <2>1, <3>1 DEF Open, OpenTable, OpenFreePage, OpenRoot
    <3> QED BY <3>1, <3>2, Between, GetIsStep
  <2>2. CASE Call
    BY <2>2, CallIsStep
  <2>3. CASE UNCHANGED pool
    BY <2>3 DEF LRU!lruVars
  <2>4. CASE CloseRound
    BY <2>4 DEF CloseRound
  <2> QED BY <2>1, <2>2, <2>3, <2>4
        DEF Next, ChangeFile, Quit, Close, EndOfInput, CloseEnd, vars
<1> QED BY InitIsLRU, SessionInvariant, NamesInvariant, <1>1, PTL DEF Spec, ImplementsLRUPool
=============================================================================
