---------------------------- MODULE MCWebBackend -----------------------------
(* Model checking of WebBackend.  Caches that live for two ticks of four;    *)
(* three sockets, so that one can be removed between two; three levels a     *)
(* side with room for two, prices that round to one level, to level zero and *)
(* that are ignored; executions small enough to reach their last two shares. *)
EXTENDS WebBackend, TLC

CONSTANTS c1, c2, h1, h2, s1, s2, s3, f1, f2

Symmetry == Permutations(Clients)
=============================================================================
