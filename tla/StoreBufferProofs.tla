------------------------- MODULE StoreBufferProofs -------------------------
(* The store buffer is coherent and implements two queues, for every depth. *)
EXTENDS StoreBuffer, RingBufferProofs

(* The ring invariants need each other: a commit moves the head of the     *)
(* speculative queue, which has to be valid, into the commit queue.        *)
IInv == TypeOK /\ SpecRing /\ CommitRing /\ NoSpecOverflow

(* Pointers and counters stay in their ranges in any cycle. *)
LEMMA CycleTypes ==
  ASSUME TypeOK, NEW v \in BOOLEAN, NEW c \in BOOLEAN, NEW f \in BOOLEAN,
         NEW stall \in BOOLEAN, NEW gnt \in BOOLEAN, NEW s \in Stores,
         Cycle(v, s, c, f, stall, gnt),
         st_ready' = ready_o(v, c, f)
  PROVE  TypeOK'
<1>0. DEPTH_SPEC \in Nat /\ DEPTH_SPEC > 1 /\ DEPTH_COMMIT \in Nat /\ DEPTH_COMMIT > 1
  BY DepthsArePowersOfTwo
<1> USE <1>0 DEF TypeOK, SpecSlots, CommitSlots
<1>1. speculative_queue' \in [SpecSlots -> Entries]
  BY DEF Cycle, core_if, Entries
<1>2. speculative_read_pointer' \in SpecSlots /\ speculative_write_pointer' \in SpecSlots
  BY DEF Cycle, core_if, speculative_write_pointer_n, Inc
<1>3. speculative_status_cnt' \in 0..(2 * DEPTH_SPEC - 1)
  BY DEF Cycle, core_if, speculative_write_pointer_n, speculative_status_cnt_n, Count
<1>4. commit_queue' \in [CommitSlots -> Entries]
  <2>1. speculative_queue[speculative_read_pointer] \in Entries BY DEF TypeOK
  <2> QED BY <2>1 DEF Cycle, store_if, commit_read_pointer_n, committed_entry, Entries
<1>5. commit_read_pointer' \in CommitSlots /\ commit_write_pointer' \in CommitSlots
  BY DEF Cycle, store_if, commit_read_pointer_n, Inc, data_req, Entries
<1>6. commit_status_cnt' \in 0..(2 * DEPTH_COMMIT - 1)
  <2> DEFINE g == data_req /\ ~stall /\ gnt
  <2>1. g \in BOOLEAN /\ commit_status_cnt' = Count(commit_status_cnt, c, g, DEPTH_COMMIT)
    BY DEF Cycle, store_if, commit_read_pointer_n, data_req, Entries
  <2> HIDE DEF g
  <2> QED BY <2>1, CountRange
<1>7. st_ready' \in BOOLEAN
  BY DEF ready_o
<1> QED BY <1>1, <1>2, <1>3, <1>4, <1>5, <1>6, <1>7

(* The request of the data cache port and the counter of the commit queue  *)
(* say the same.                                                           *)
LEMMA RequestMeansPending ==
  ASSUME TypeOK, CommitRing
  PROVE  data_req <=> commit_status_cnt > 0
BY SMTT(30), DepthsArePowersOfTwo
   DEF TypeOK, CommitRing, Ring, Slot, data_req, CommitSlots

(* A commit finds a valid head. *)
LEMMA HeadIsValid ==
  ASSUME TypeOK, SpecRing, speculative_status_cnt > 0
  PROVE  speculative_queue[speculative_read_pointer].valid
<1>1. speculative_queue[Slot(speculative_read_pointer, 0, DEPTH_SPEC)].valid
  BY DepthsArePowersOfTwo DEF TypeOK, SpecRing, Ring
<1>2. Slot(speculative_read_pointer, 0, DEPTH_SPEC) = speculative_read_pointer
  BY DepthsArePowersOfTwo DEF TypeOK, SpecSlots, Slot
<1> QED BY <1>1, <1>2

(* A flush empties the speculative ring at its read pointer. *)
LEMMA FlushedRing ==
  ASSUME NEW d \in Nat, d > 0, NEW r \in 0..(d - 1), NEW q,
         \A i \in 0..(d - 1) : ~ q[i].valid
  PROVE  Ring(q, r, r, 0, d)
BY DEF Ring, Slot

LEMMA InitIInv == Init => IInv
BY DepthsArePowersOfTwo, ZeroIsAStore
   DEF Init, IInv, TypeOK, SpecRing, CommitRing, NoSpecOverflow, Ring, Slot,
       ResetEntry, SpecSlots, CommitSlots, Entries, Stores

LEMMA NextIInv == IInv /\ [Next]_vars => IInv'
<1> SUFFICES ASSUME IInv, [Next]_vars PROVE IInv'
  OBVIOUS
<1>1. CASE UNCHANGED vars
  BY <1>1 DEF vars, specvars, commitvars, IInv, TypeOK, SpecRing, CommitRing, NoSpecOverflow
<1>2. CASE Next
  <2> PICK v \in BOOLEAN, c \in BOOLEAN, f \in BOOLEAN, stall \in BOOLEAN,
           gnt \in BOOLEAN, s \in Stores :
        /\ v => st_ready /\ ~f
        /\ c => speculative_status_cnt > 0 /\ commit_ready_o /\ ~f
        /\ Cycle(v, s, c, f, stall, gnt)
        /\ st_ready' = ready_o(v, c, f)
    BY <1>2 DEF Next, CycleOfCore
  <2> DEFINE g == data_req /\ ~stall /\ gnt
  <2>0. TypeOK /\ SpecRing /\ CommitRing /\ NoSpecOverflow BY DEF IInv
  <2>1. TypeOK' BY <2>0, CycleTypes
  <2>2. SpecRing'
    <3>1. CASE f
      <4>1. /\ \A i \in SpecSlots : ~ speculative_queue'[i].valid
            /\ speculative_read_pointer' = speculative_read_pointer
            /\ speculative_write_pointer' = speculative_read_pointer
            /\ speculative_status_cnt' = 0
        BY <3>1 DEF Cycle, core_if, speculative_write_pointer_n, speculative_status_cnt_n
      <4> QED BY <2>0, <4>1, FlushedRing, DepthsArePowersOfTwo
              DEF SpecRing, SpecSlots, TypeOK
    <3>2. CASE ~f
      <4>1. /\ speculative_read_pointer' = IF c THEN Inc(speculative_read_pointer, DEPTH_SPEC)
                                           ELSE speculative_read_pointer
            /\ speculative_write_pointer' = IF v THEN Inc(speculative_write_pointer, DEPTH_SPEC)
                                            ELSE speculative_write_pointer
            /\ speculative_status_cnt' = Count(speculative_status_cnt, v, c, DEPTH_SPEC)
        BY <3>2 DEF Cycle, core_if, speculative_write_pointer_n, speculative_status_cnt_n
      <4>2. (v => speculative_status_cnt < DEPTH_SPEC) /\ (c => speculative_status_cnt > 0)
        BY <2>0 DEF NoSpecOverflow
      <4>3. v /\ c => speculative_read_pointer # speculative_write_pointer
        BY <2>0, <4>2, DepthsArePowersOfTwo DEF SpecRing, Ring, Slot, TypeOK, SpecSlots
      <4>4. \A i \in SpecSlots :
              speculative_queue'[i].valid <=>
                \/ v /\ i = speculative_write_pointer
                \/ speculative_queue[i].valid /\ ~(c /\ i = speculative_read_pointer)
        BY <2>0, <3>2, <4>3 DEF Cycle, core_if, TypeOK, Entries
      <4>5. Ring(speculative_queue',
                 IF c THEN Inc(speculative_read_pointer, DEPTH_SPEC)
                 ELSE speculative_read_pointer,
                 IF v THEN Inc(speculative_write_pointer, DEPTH_SPEC)
                 ELSE speculative_write_pointer,
                 Count(speculative_status_cnt, v, c, DEPTH_SPEC), DEPTH_SPEC)
        <5>1. /\ DEPTH_SPEC \in Nat /\ DEPTH_SPEC > 0 /\ speculative_status_cnt \in Nat
              /\ speculative_read_pointer \in 0..(DEPTH_SPEC - 1)
              /\ speculative_write_pointer \in 0..(DEPTH_SPEC - 1)
          BY <2>0, DepthsArePowersOfTwo DEF TypeOK, SpecSlots
        <5> QED BY ZenonT(30), <2>0, <4>2, <4>4, <5>1, RingStep DEF SpecRing, SpecSlots
      <4> QED BY <4>1, <4>5 DEF SpecRing
    <3> QED BY <3>1, <3>2
  <2>3. CommitRing'
    <3>1. /\ commit_read_pointer' = IF g THEN Inc(commit_read_pointer, DEPTH_COMMIT)
                                    ELSE commit_read_pointer
          /\ commit_write_pointer' = IF c THEN Inc(commit_write_pointer, DEPTH_COMMIT)
                                     ELSE commit_write_pointer
          /\ commit_status_cnt' = Count(commit_status_cnt, c, g, DEPTH_COMMIT)
      BY DEF Cycle, store_if, commit_read_pointer_n
    <3>2. (c => commit_status_cnt < DEPTH_COMMIT) /\ (g => commit_status_cnt > 0)
      BY <2>0, RequestMeansPending DEF commit_ready_o
    <3>3. c => speculative_queue[speculative_read_pointer].valid
      BY <2>0, HeadIsValid
    <3>4. \A i \in CommitSlots :
            commit_queue'[i].valid <=>
              \/ c /\ i = commit_write_pointer
              \/ commit_queue[i].valid /\ ~(g /\ i = commit_read_pointer)
      BY ZenonT(30), <3>3 DEF Cycle, store_if, commit_read_pointer_n, committed_entry
    <3>5. g \in BOOLEAN BY <2>0 DEF data_req, TypeOK, Entries
    <3> HIDE DEF g
    <3>6. Ring(commit_queue',
               IF g THEN Inc(commit_read_pointer, DEPTH_COMMIT) ELSE commit_read_pointer,
               IF c THEN Inc(commit_write_pointer, DEPTH_COMMIT) ELSE commit_write_pointer,
               Count(commit_status_cnt, c, g, DEPTH_COMMIT), DEPTH_COMMIT)
      <4>1. /\ DEPTH_COMMIT \in Nat /\ DEPTH_COMMIT > 0 /\ commit_status_cnt \in Nat
            /\ commit_read_pointer \in 0..(DEPTH_COMMIT - 1)
            /\ commit_write_pointer \in 0..(DEPTH_COMMIT - 1)
        BY <2>0, DepthsArePowersOfTwo DEF TypeOK, CommitSlots
      <4> QED BY ZenonT(30), <2>0, <3>2, <3>4, <3>5, <4>1, RingStep DEF CommitRing, CommitSlots
    <3> QED BY <3>1, <3>6 DEF CommitRing
  <2>4. NoSpecOverflow'
    <3>1. speculative_status_cnt <= DEPTH_SPEC /\ (v => speculative_status_cnt < DEPTH_SPEC)
      BY <2>0 DEF SpecRing, Ring, NoSpecOverflow
    <3> QED BY <2>0, <3>1, DepthsArePowersOfTwo
            DEF NoSpecOverflow, Cycle, core_if, ready_o, speculative_status_cnt_n,
                Count, TypeOK
  <2> QED BY <2>1, <2>2, <2>3, <2>4 DEF IInv
<1> QED BY <1>1, <1>2

(* Pointers, counters and valid flags of both queues stay coherent, and a  *)
(* store unit that obeys ready_o never overflows the speculative queue.    *)
THEOREM StoreBufferSafe == Spec => [](SpecRing /\ CommitRing /\ NoSpecOverflow)
<1>1. IInv => SpecRing /\ CommitRing /\ NoSpecOverflow BY DEF IInv
<1> QED BY InitIInv, NextIInv, <1>1, PTL DEF Spec

(* The speculative queue is a sequence of stores, its head the entry the   *)
(* read pointer names.                                                     *)
LEMMA SpecContents ==
  ASSUME TypeOK, SpecRing
  PROVE  /\ SpecStores \in Seq(Stores) /\ Len(SpecStores) = speculative_status_cnt
         /\ speculative_status_cnt > 0 =>
              Head(SpecStores) = speculative_queue[speculative_read_pointer].item
<1>1. /\ DEPTH_SPEC \in Nat /\ DEPTH_SPEC > 0
      /\ speculative_status_cnt \in 0..DEPTH_SPEC
      /\ speculative_read_pointer \in 0..(DEPTH_SPEC - 1)
      /\ Holds(speculative_queue, DEPTH_SPEC, Stores)
  BY DepthsArePowersOfTwo DEF TypeOK, SpecSlots, SpecRing, Ring, Entries, Holds
<1> QED BY ZenonT(30), <1>1, ContentsIsSeq DEF SpecStores

(* The commit queue is a sequence of stores. *)
LEMMA CommitContents ==
  ASSUME TypeOK, CommitRing
  PROVE  CommitStores \in Seq(Stores) /\ Len(CommitStores) = commit_status_cnt
<1>1. /\ DEPTH_COMMIT \in Nat /\ DEPTH_COMMIT > 0
      /\ commit_status_cnt \in 0..DEPTH_COMMIT
      /\ commit_read_pointer \in 0..(DEPTH_COMMIT - 1)
      /\ Holds(commit_queue, DEPTH_COMMIT, Stores)
  BY SMTT(30), DepthsArePowersOfTwo DEF TypeOK, CommitSlots, CommitRing, Ring, Entries, Holds
<1> QED BY ZenonT(30), <1>1, ContentsIsSeq DEF CommitStores

(* The type invariant of the store buffer. *)
THEOREM StoreBufferTypes == Spec => []TypeOK
<1>1. IInv => TypeOK BY DEF IInv
<1> QED BY InitIInv, NextIInv, <1>1, PTL DEF Spec

(* The address checker answers for exactly the stores both queues hold:    *)
(* a load is never let past an older store, nor held by one that is gone.  *)
THEOREM StoreBufferMatches == Spec => []MatchesArePending
<1>1. IInv => MatchesArePending
  <2> SUFFICES ASSUME IInv, NEW o \in Offsets
               PROVE  page_offset_matches(o) <=>
                        \/ \E k \in DOMAIN SpecStores : SpecStores[k].offset = o
                        \/ \E k \in DOMAIN CommitStores : CommitStores[k].offset = o
    BY DEF MatchesArePending
  <2>0. DEPTH_SPEC \in Nat /\ DEPTH_SPEC > 0 /\ DEPTH_COMMIT \in Nat /\ DEPTH_COMMIT > 0
    BY DepthsArePowersOfTwo
  <2>1. /\ speculative_status_cnt \in 0..DEPTH_SPEC
        /\ speculative_read_pointer \in 0..(DEPTH_SPEC - 1)
    BY <2>0 DEF IInv, TypeOK, SpecSlots, SpecRing, Ring
  <2>2. /\ commit_status_cnt \in 0..DEPTH_COMMIT
        /\ commit_read_pointer \in 0..(DEPTH_COMMIT - 1)
    BY <2>0 DEF IInv, TypeOK, CommitSlots, CommitRing, Ring
  <2>3. SearchFinds(speculative_queue, DEPTH_SPEC, o) <=> HoldsOffset(SpecStores, o)
    BY <2>0, <2>1, SearchFindsContents DEF IInv, SpecRing, SpecStores
  <2>4. SearchFinds(commit_queue, DEPTH_COMMIT, o) <=> HoldsOffset(CommitStores, o)
    BY <2>0, <2>2, SearchFindsContents DEF IInv, CommitRing, CommitStores
  <2> QED BY <2>3, <2>4 DEF page_offset_matches, SearchFinds, HoldsOffset, SpecSlots, CommitSlots
<1> QED BY InitIInv, NextIInv, <1>1, PTL DEF Spec

(* The reset state is two empty queues. *)
LEMMA InitQueues == Init => Queues!Init
BY DEF Init, Queues!Init, SpecStores, CommitStores, Contents

(* Every cycle of the ring buffers is a cycle of the queues. *)
LEMMA NextQueues == IInv /\ [Next]_vars => [Queues!Next]_(Queues!qvars)
<1> SUFFICES ASSUME IInv, [Next]_vars PROVE [Queues!Next]_(Queues!qvars)
  OBVIOUS
<1>1. CASE UNCHANGED vars
  BY <1>1 DEF vars, specvars, commitvars, Queues!qvars, SpecStores, CommitStores
<1>2. CASE Next
  <2> PICK v \in BOOLEAN, c \in BOOLEAN, f \in BOOLEAN, stall \in BOOLEAN,
           gnt \in BOOLEAN, s \in Stores :
        /\ v => st_ready /\ ~f
        /\ c => speculative_status_cnt > 0 /\ commit_ready_o /\ ~f
        /\ Cycle(v, s, c, f, stall, gnt)
        /\ st_ready' = ready_o(v, c, f)
    BY <1>2 DEF Next, CycleOfCore
  <2> DEFINE g == data_req /\ ~stall /\ gnt
             push == IF v THEN <<s>> ELSE <<>>
             head == speculative_queue[speculative_read_pointer].item
  <2>0. TypeOK /\ SpecRing /\ CommitRing /\ NoSpecOverflow BY DEF IInv
  <2>1. IInv' BY NextIInv
  <2>2. g \in BOOLEAN BY <2>0 DEF data_req, TypeOK, Entries
  <2>3. /\ (v => speculative_status_cnt < DEPTH_SPEC) /\ (c => speculative_status_cnt > 0)
        /\ (c => commit_status_cnt < DEPTH_COMMIT) /\ (g => commit_status_cnt > 0)
    BY <2>0, RequestMeansPending DEF NoSpecOverflow, commit_ready_o
  <2>4. /\ DEPTH_SPEC \in Nat /\ DEPTH_SPEC > 0
        /\ speculative_status_cnt \in 0..DEPTH_SPEC
        /\ speculative_read_pointer \in 0..(DEPTH_SPEC - 1)
        /\ speculative_write_pointer \in 0..(DEPTH_SPEC - 1)
        /\ speculative_write_pointer = Slot(speculative_read_pointer, speculative_status_cnt, DEPTH_SPEC)
        /\ Holds(speculative_queue, DEPTH_SPEC, Stores)
    BY <2>0, DepthsArePowersOfTwo DEF TypeOK, SpecSlots, SpecRing, Ring, Entries, Holds
  <2>5. /\ DEPTH_COMMIT \in Nat /\ DEPTH_COMMIT > 0
        /\ commit_status_cnt \in 0..DEPTH_COMMIT
        /\ commit_read_pointer \in 0..(DEPTH_COMMIT - 1)
        /\ commit_write_pointer \in 0..(DEPTH_COMMIT - 1)
        /\ commit_write_pointer = Slot(commit_read_pointer, commit_status_cnt, DEPTH_COMMIT)
        /\ Holds(commit_queue, DEPTH_COMMIT, Stores)
    BY SMTT(30), <2>0, DepthsArePowersOfTwo DEF TypeOK, CommitSlots, CommitRing, Ring, Entries, Holds
  <2>6. head \in Stores BY <2>4 DEF Holds
  <2>7. Wrote(speculative_queue', speculative_queue, v, speculative_write_pointer, s, DEPTH_SPEC)
    BY DEF Cycle, core_if, SpecSlots, Wrote
  <2>8. Wrote(commit_queue', commit_queue, c, commit_write_pointer, head, DEPTH_COMMIT)
    BY DEF Cycle, store_if, commit_read_pointer_n, committed_entry, CommitSlots, Wrote
  <2>9. /\ SpecStores \in Seq(Stores) /\ Len(SpecStores) = speculative_status_cnt
        /\ c => Head(SpecStores) = head
    <3>1. c => speculative_status_cnt > 0 BY <2>3
    <3> QED BY <2>0, <3>1, SpecContents
  <2>10. CommitStores \in Seq(Stores) /\ Len(CommitStores) = commit_status_cnt
    BY <2>0, CommitContents
  <2>11. SpecStores' = IF f THEN <<>> ELSE Queues!Popped(SpecStores, c) \o push
    <3>1. CASE f
      BY <3>1 DEF Cycle, core_if, speculative_write_pointer_n, speculative_status_cnt_n, SpecStores, Contents
    <3>2. CASE ~f
      <4>1. PushPop(speculative_queue, speculative_read_pointer, speculative_write_pointer,
                    speculative_status_cnt, speculative_queue', speculative_read_pointer',
                    speculative_status_cnt', v, c, s, DEPTH_SPEC, Stores)
        BY <2>3, <2>4, <2>7, <3>2 DEF Cycle, core_if, speculative_write_pointer_n, speculative_status_cnt_n, PushPop
      <4>2. SpecStores' = Contents(speculative_queue', speculative_read_pointer',
                                   speculative_status_cnt', DEPTH_SPEC)
        BY DEF SpecStores, Contents, Slot
      <4>3. SpecStores = Contents(speculative_queue, speculative_read_pointer,
                                  speculative_status_cnt, DEPTH_SPEC)
        BY DEF SpecStores
      <4>4. Contents(speculative_queue', speculative_read_pointer',
                     speculative_status_cnt', DEPTH_SPEC)
              = Moved(Contents(speculative_queue, speculative_read_pointer,
                               speculative_status_cnt, DEPTH_SPEC), v, c, s)
        BY <4>1, ContentsStep
      <4> QED BY ZenonT(30), <3>2, <4>2, <4>3, <4>4 DEF Queues!Popped, Moved
    <3> QED BY <3>1, <3>2
  <2>12. CommitStores' = Queues!Popped(CommitStores, g)
                           \o (IF c THEN <<Head(SpecStores)>> ELSE <<>>)
    <3>1. /\ commit_read_pointer' = IF g THEN Inc(commit_read_pointer, DEPTH_COMMIT)
                                    ELSE commit_read_pointer
          /\ commit_status_cnt' = Count(commit_status_cnt, c, g, DEPTH_COMMIT)
      BY DEF Cycle, store_if, commit_read_pointer_n
    <3> HIDE DEF g, head
    <3>2. PushPop(commit_queue, commit_read_pointer, commit_write_pointer, commit_status_cnt,
                  commit_queue', commit_read_pointer', commit_status_cnt',
                  c, g, head, DEPTH_COMMIT, Stores)
      BY <2>2, <2>3, <2>5, <2>6, <2>8, <3>1 DEF PushPop
    <3>3. CommitStores' = Queues!Popped(CommitStores, g) \o (IF c THEN <<head>> ELSE <<>>)
      <4>1. CommitStores' = Contents(commit_queue', commit_read_pointer',
                                     commit_status_cnt', DEPTH_COMMIT)
        BY DEF CommitStores, Contents, Slot
      <4>2. CommitStores = Contents(commit_queue, commit_read_pointer,
                                    commit_status_cnt, DEPTH_COMMIT)
        BY DEF CommitStores
      <4>3. Contents(commit_queue', commit_read_pointer', commit_status_cnt', DEPTH_COMMIT)
              = Moved(Contents(commit_queue, commit_read_pointer,
                               commit_status_cnt, DEPTH_COMMIT), c, g, head)
        BY <3>2, ContentsStep
      <4> QED BY <4>1, <4>2, <4>3 DEF Queues!Popped, Moved
    <3>4. (IF c THEN <<head>> ELSE <<>>) = (IF c THEN <<Head(SpecStores)>> ELSE <<>>)
      BY <2>9
    <3> QED BY <3>3, <3>4
  <2>13. Len(SpecStores') <= DEPTH_SPEC /\ Len(CommitStores') <= DEPTH_COMMIT
    <3>1. /\ speculative_status_cnt' \in Nat /\ speculative_status_cnt' <= DEPTH_SPEC
          /\ commit_status_cnt' \in Nat /\ commit_status_cnt' <= DEPTH_COMMIT
      BY <2>1 DEF IInv, TypeOK, SpecRing, CommitRing, Ring
    <3>2. Len(SpecStores') = speculative_status_cnt'
      BY <3>1 DEF SpecStores, Contents
    <3>3. Len(CommitStores') = commit_status_cnt'
      BY <3>1 DEF CommitStores, Contents
    <3> QED BY <3>1, <3>2, <3>3
  <2>14. (c => SpecStores # <<>> /\ ~f) /\ (g => CommitStores # <<>>)
    BY <2>3, <2>9, <2>10
  <2>15. Queues!Step(push, c, f, g)
    BY <2>11, <2>12, <2>13, <2>14 DEF Queues!Step
  <2>16. push \in {<<>>} \cup {<<x>> : x \in Stores}
    OBVIOUS
  <2> HIDE DEF g, push
  <2> QED BY <2>2, <2>15, <2>16 DEF Queues!Next
<1> QED BY <1>1, <1>2

(* The ring buffers implement the two queues of StoreQueues: stores reach  *)
(* the data cache in program order and once each, and a flush discards     *)
(* exactly the stores that have not been committed.                        *)
THEOREM StoreBufferImplementsQueues == Spec => ImplementsQueues
BY InitIInv, NextIInv, InitQueues, NextQueues, PTL
   DEF Spec, ImplementsQueues, Queues!Spec
=============================================================================
