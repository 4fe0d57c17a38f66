---------------------------- MODULE MCPooledTree ----------------------------
(* PooledTree; frames are interchangeable: a state is seen as the list of   *)
(* its frames in order of last use.                                         *)
EXTENDS PooledTree

Position(nth, f) == IF f = NULL THEN 0 ELSE CHOOSE i \in Frame : nth[i] = f

View ==
    LET nth == Chain(s.pool.next_of_LRU, s.pool.first_buf)
    IN  <<[i \in Frame |-> LET f == nth[i] IN
             <<s.pool.tag[f], s.pool.shows[f], s.pool.is_pinned[f], s.pool.is_dirty[f], s.data[f]>>],
          [t \in Table |-> <<Position(nth, s.header[t]), Position(nth, s.root[t])>>],
          s.files, s.disk, s.end, s.touched, s.stale,
          proc, current_table, flag, opened, typed>>
=============================================================================
