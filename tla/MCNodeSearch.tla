---------------------------- MODULE MCNodeSearch ----------------------------
(* Every page of at most Cap keys, searched for every key, signed keys.    *)
EXTENDS NodeSearch

MCKey == -3 .. 3
=============================================================================
