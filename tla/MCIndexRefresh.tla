---------------------------- MODULE MCIndexRefresh ----------------------------
(* Two workers and two indexes: every pair of requests of two workers to one *)
(* index, and an index that only one of them touches beside it.              *)
EXTENDS IndexRefresh

CONSTANTS i1, i2
MCIndex == {i1, i2}
==============================================================================
