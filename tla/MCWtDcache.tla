---------------------------- MODULE MCWtDcache ----------------------------
(* Workloads for model checking the data cache: one set, two ways, three    *)
(* lines of two words, two of the words outside the cacheable regions.      *)
EXTENDS WtDcache, TLC

MCWords == [tag : {"a", "b", "c"}, idx : {0}, off : {0, 1}]
A0 == Word("a", 0, 0)
A1 == Word("a", 0, 1)
B0 == Word("b", 0, 0)
B1 == Word("b", 0, 1)
C0 == Word("c", 0, 0)
C1 == Word("c", 0, 1)

MCNonIdempotent == {B1, C1}
MCCacheable == MCWords \ MCNonIdempotent

Core(first, second, stores) ==
  [loads |-> [p \in RdPorts |-> IF p = 0 THEN first ELSE second], stores |-> stores,
   bytes |-> {Bytes}, amos |-> {}, kills |-> FALSE, flushes |-> FALSE,
   enables |-> {TRUE}, acks |-> BOOLEAN]

MCWorkloads ==
  { \* two ports miss on one line, with fences
    [Core({A0}, {A0}, {A0}) EXCEPT !.flushes = TRUE],
    \* lines replace each other
    Core({A0, B0, C0}, {}, {A0}),
    Core({A0, B0, C0}, {A1}, {}),
    \* partial words and atomic operations
    [Core({A0}, {}, {A0}) EXCEPT !.bytes = SUBSET Bytes \ {{}}, !.amos = {A0}],
    \* the cache is disabled and enabled again
    [Core({A0}, {}, {A0}) EXCEPT !.enables = BOOLEAN],
    \* the line of a store is loaded, and loads are killed
    [Core({A0}, {}, {A1}) EXCEPT !.kills = TRUE],
    \* two entries and two transactions
    Core({}, {}, {A0, B0}),
    \* non-idempotent words
    Core({C1}, {}, {C1, B1})}
=============================================================================
