----------------------------- MODULE MCICache -----------------------------
(* Addresses for model checking the instruction cache. *)
EXTENDS ICache, TLC
CONSTANTS t1, t2, t3, io

Addr(tag, idx, off) == [tag |-> tag, idx |-> idx, off |-> off]

(* Three lines for two ways of a set, one of another set, and the second   *)
(* word of a pair outside of the cacheable memory.                         *)
FetchAddrs == {Addr(t1, 0, 1), Addr(t2, 0, 2), Addr(t3, 0, 1), Addr(t1, 1, 1), Addr(io, 0, 3)}
=============================================================================
