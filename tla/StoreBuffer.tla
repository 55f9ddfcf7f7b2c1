---------------------------- MODULE StoreBuffer ----------------------------
(***************************************************************************)
(* The store buffer (core/store_buffer.sv): a speculative ring buffer of   *)
(* stores that have executed, and a commit ring buffer of stores that have *)
(* retired and wait for a grant of the data cache.  One step is one clock  *)
(* cycle.  A store is its page offset, bits [11:3] of the address, which   *)
(* loads are compared with, and a payload that stands for the rest of the  *)
(* address, the data, the byte enables and the size.                       *)
(***************************************************************************)
EXTENDS RingBuffer, Sequences

CONSTANTS DEPTH_SPEC, DEPTH_COMMIT, Offsets, Payloads

(* The pointers are $clog2(DEPTH) bits wide and wrap by overflow, which is *)
(* a step to entry 0 exactly when the depth is a power of two.             *)
ASSUME DepthsArePowersOfTwo ==
  /\ DEPTH_SPEC \in Nat /\ DEPTH_SPEC > 1 /\ \E k \in 1..8 : DEPTH_SPEC = 2^k
  /\ DEPTH_COMMIT \in Nat /\ DEPTH_COMMIT > 1 /\ \E k \in 1..8 : DEPTH_COMMIT = 2^k

ASSUME ZeroIsAStore == 0 \in Offsets /\ 0 \in Payloads

VARIABLES
  speculative_queue, speculative_read_pointer, speculative_write_pointer,
  speculative_status_cnt,
  commit_queue, commit_read_pointer, commit_write_pointer, commit_status_cnt,
  st_ready   \* the ready_o the store unit saw in the cycle before

specvars == <<speculative_queue, speculative_read_pointer,
              speculative_write_pointer, speculative_status_cnt>>
commitvars == <<commit_queue, commit_read_pointer, commit_write_pointer,
                commit_status_cnt>>
vars == <<specvars, commitvars, st_ready>>

SpecSlots == 0..(DEPTH_SPEC - 1)
CommitSlots == 0..(DEPTH_COMMIT - 1)
Stores == [offset : Offsets, payload : Payloads]
Entries == [valid : BOOLEAN, item : Stores]

ResetEntry == [valid |-> FALSE, item |-> [offset |-> 0, payload |-> 0]]

speculative_status_cnt_n(valid_i, commit_i, flush_i) ==
  IF flush_i THEN 0
  ELSE Count(speculative_status_cnt, valid_i, commit_i, DEPTH_SPEC)

ready_o(valid_i, commit_i, flush_i) ==
  speculative_status_cnt_n(valid_i, commit_i, flush_i) < DEPTH_SPEC \/ commit_i

(* Fault: a flush that restarts the write pointer like a reset does. *)
speculative_write_pointer_n_reset(valid_i, flush_i) ==
  IF flush_i THEN 0
  ELSE IF valid_i THEN Inc(speculative_write_pointer, DEPTH_SPEC)
  ELSE speculative_write_pointer

(* A flush moves the write pointer back to the read pointer. *)
speculative_write_pointer_n(valid_i, flush_i) ==
  IF flush_i THEN speculative_read_pointer
  ELSE IF valid_i THEN Inc(speculative_write_pointer, DEPTH_SPEC)
  ELSE speculative_write_pointer

(* Fault: the youngest speculative store is committed. *)
committed_entry_youngest ==
  speculative_queue[IF speculative_write_pointer = 0 THEN DEPTH_SPEC - 1
                    ELSE speculative_write_pointer - 1]

(* The entry a commit moves: the oldest speculative store. *)
committed_entry == speculative_queue[speculative_read_pointer]

commit_ready_o == commit_status_cnt < DEPTH_COMMIT
no_st_pending_o == commit_status_cnt = 0
store_buffer_empty_o == speculative_status_cnt = 0 /\ no_st_pending_o

(* Fault: the read pointer stays behind when the head has left. *)
commit_read_pointer_n_stuck(granted) == commit_read_pointer

commit_read_pointer_n(granted) ==
  IF granted THEN Inc(commit_read_pointer, DEPTH_COMMIT) ELSE commit_read_pointer

(* Fault: the request ignores the valid flag of the head. *)
data_req_unchecked == TRUE

data_req == commit_queue[commit_read_pointer].valid

(* Fault: only committed stores are compared. *)
page_offset_matches_committed(offset) ==
  \E i \in CommitSlots : commit_queue[i].valid /\ commit_queue[i].item.offset = offset

(* The address checker, without the store that arrives in the same cycle.  *)
page_offset_matches(offset) ==
  \/ \E i \in CommitSlots : commit_queue[i].valid /\ commit_queue[i].item.offset = offset
  \/ \E i \in SpecSlots : speculative_queue[i].valid /\ speculative_queue[i].item.offset = offset

Init ==
  /\ speculative_queue = [i \in SpecSlots |-> ResetEntry]
  /\ speculative_read_pointer = 0
  /\ speculative_write_pointer = 0
  /\ speculative_status_cnt = 0
  /\ commit_queue = [i \in CommitSlots |-> ResetEntry]
  /\ commit_read_pointer = 0
  /\ commit_write_pointer = 0
  /\ commit_status_cnt = 0
  /\ st_ready = TRUE

(* Speculative queue: take a store from the store unit, hand the oldest to *)
(* the commit queue, or drop them all.                                     *)
core_if(valid_i, store_i, commit_i, flush_i) ==
  /\ speculative_queue' =
       [i \in SpecSlots |->
          LET taken == IF valid_i /\ i = speculative_write_pointer
                       THEN [valid |-> TRUE, item |-> store_i]
                       ELSE speculative_queue[i]
              evicted == flush_i \/ (commit_i /\ i = speculative_read_pointer)
          IN  [valid |-> taken.valid /\ ~evicted, item |-> taken.item]]
  /\ speculative_read_pointer' =
       IF commit_i THEN Inc(speculative_read_pointer, DEPTH_SPEC)
       ELSE speculative_read_pointer
  /\ speculative_write_pointer' =
       speculative_write_pointer_n(valid_i, flush_i)
  /\ speculative_status_cnt' = speculative_status_cnt_n(valid_i, commit_i, flush_i)

(* Commit queue: the head leaves on a grant, the head of the speculative   *)
(* queue enters on a commit.                                               *)
store_if(commit_i, granted) ==
  /\ commit_queue' =
       [i \in CommitSlots |->
          IF commit_i /\ i = commit_write_pointer
          THEN committed_entry
          ELSE [valid |-> commit_queue[i].valid /\ ~(granted /\ i = commit_read_pointer),
                item |-> commit_queue[i].item]]
  /\ commit_read_pointer' = commit_read_pointer_n(granted)
  /\ commit_write_pointer' =
       IF commit_i THEN Inc(commit_write_pointer, DEPTH_COMMIT) ELSE commit_write_pointer
  /\ commit_status_cnt' = Count(commit_status_cnt, commit_i, granted, DEPTH_COMMIT)

(* One clock edge of the whole buffer.  data_gnt only matters while the    *)
(* head of the commit queue is requested and the LSU does not stall it.    *)
Cycle(valid_i, store_i, commit_i, flush_i, stall_st_pending_i, data_gnt) ==
  /\ core_if(valid_i, store_i, commit_i, flush_i)
  /\ store_if(commit_i, data_req /\ ~stall_st_pending_i /\ data_gnt)

(* The neighbours: the store unit presents a store only in a cycle after   *)
(* one in which it saw ready_o, and masks it with the flush; the commit    *)
(* stage retires a store that the speculative queue holds, only while      *)
(* commit_ready_o, and never in the cycle of a flush.                      *)
CycleOfCore(stall_st_pending_i, data_gnt) ==
  \E valid_i, commit_i, flush_i \in BOOLEAN, store_i \in Stores :
    /\ valid_i => st_ready /\ ~flush_i
    /\ commit_i => speculative_status_cnt > 0 /\ commit_ready_o /\ ~flush_i
    /\ Cycle(valid_i, store_i, commit_i, flush_i, stall_st_pending_i, data_gnt)
    /\ st_ready' = ready_o(valid_i, commit_i, flush_i)

Next == \E stall_st_pending_i, data_gnt \in BOOLEAN : CycleOfCore(stall_st_pending_i, data_gnt)

Spec == Init /\ [][Next]_vars

(***************************************************************************)
(* Properties.                                                             *)
(***************************************************************************)

TypeOK ==
  /\ speculative_queue \in [SpecSlots -> Entries]
  /\ speculative_read_pointer \in SpecSlots
  /\ speculative_write_pointer \in SpecSlots
  /\ speculative_status_cnt \in 0..(2 * DEPTH_SPEC - 1)
  /\ commit_queue \in [CommitSlots -> Entries]
  /\ commit_read_pointer \in CommitSlots
  /\ commit_write_pointer \in CommitSlots
  /\ commit_status_cnt \in 0..(2 * DEPTH_COMMIT - 1)
  /\ st_ready \in BOOLEAN

(* Valid flags, pointers and counter of the speculative queue never        *)
(* disagree, whatever mix of store, commit and flush a cycle brings: a     *)
(* flush that moved the wrong pointer, or left a flag behind, would show.  *)
SpecRing == Ring(speculative_queue, speculative_read_pointer,
                 speculative_write_pointer, speculative_status_cnt, DEPTH_SPEC)

(* The same of the commit queue, whose head leaves on a grant while        *)
(* another store may enter: so no_st_pending_o, which fences, AMOs and     *)
(* uncached loads wait for, is true only if no committed store is left.    *)
CommitRing == Ring(commit_queue, commit_read_pointer,
                   commit_write_pointer, commit_status_cnt, DEPTH_COMMIT)

(* The assertion speculative_buffer_overflow: a store unit that obeys the  *)
(* ready_o of the cycle before never writes into a full speculative queue, *)
(* although ready_o was computed before the store of that cycle arrived.   *)
NoSpecOverflow == st_ready => speculative_status_cnt < DEPTH_SPEC

SpecStores == Contents(speculative_queue, speculative_read_pointer,
                       speculative_status_cnt, DEPTH_SPEC)
CommitStores == Contents(commit_queue, commit_read_pointer,
                         commit_status_cnt, DEPTH_COMMIT)

(* The address checker stalls a load exactly when a store to the same page *)
(* offset is still in one of the two queues: never a missed older store,   *)
(* never a stall on a flushed or drained one.                              *)
MatchesArePending ==
  \A o \in Offsets :
    page_offset_matches(o) <=>
      \/ \E k \in DOMAIN SpecStores : SpecStores[k].offset = o
      \/ \E k \in DOMAIN CommitStores : CommitStores[k].offset = o

(* Read as two queues, the ring buffers implement StoreQueues: stores      *)
(* reach memory in the order they entered, once each, and a flush discards *)
(* the speculative ones only.                                              *)
Queues == INSTANCE StoreQueues
            WITH spec <- SpecStores, committed <- CommitStores,
                 SpecCapacity <- DEPTH_SPEC, CommitCapacity <- DEPTH_COMMIT

ImplementsQueues == Queues!Spec

(* The data cache grants the store port again and again, and the load unit *)
(* does not stall committed stores for ever.                               *)
FairSpec == Spec /\ WF_vars(CycleOfCore(FALSE, TRUE))

(* Every committed store leaves for memory, whatever is committed or       *)
(* flushed behind it.                                                      *)
CommittedStoresDrain ==
  \A i \in CommitSlots : commit_queue[i].valid ~> ~commit_queue[i].valid
=============================================================================
