-------------------------- MODULE WtDcacheWbuffer --------------------------
(***************************************************************************)
(* The write buffer of the write-through data cache                        *)
(* (core/cache_subsystem/wt_dcache_wbuffer.sv).  An entry collects the     *)
(* stores to one word, sends its dirty bytes to the memory as transactions *)
(* of one aligned block, looks its word up in the cache, and once a        *)
(* transaction is acknowledged writes the bytes into the line that was     *)
(* found and frees them.                                                   *)
(*                                                                         *)
(* Data is kept as the set of the bytes of a copy that are the latest ones *)
(* stored: the rest of the copy is out of date.                            *)
(***************************************************************************)
EXTENDS Integers, Sequences, FiniteSets, FiniteSetsExt

CONSTANTS Words,           \* the addresses: records of tag, idx and off
          NumBytes,        \* bytes of a word
          Depth,           \* WtDcacheWbufDepth
          MaxTx,           \* DCACHE_MAX_TX
          NonIdempotent,   \* the words of the non-idempotent regions
          Nothing

VARIABLES wbuffer_q, tx_stat_q, rtrn_id_fifo, ni_pending_q,
          check_q,         \* the slot whose lookup was granted in the last cycle
          check_q1,        \* and the one of the cycle before, with its answer
          wr_cl_q,         \* the set written by the miss unit in the last cycle
          dirty_lock_q     \* the entry to send, kept by the arbiter until its grant

wbuffer_vars == <<wbuffer_q, tx_stat_q, rtrn_id_fifo, ni_pending_q, check_q, check_q1,
                  wr_cl_q, dirty_lock_q>>

Bytes == 0 .. NumBytes - 1
Slots == 0 .. Depth - 1
TxIds == 0 .. MaxTx - 1

Free == [wtag |-> Nothing, valid |-> {}, dirty |-> {}, txblock |-> {}, checked |-> FALSE,
         hit_oh |-> {}, data |-> {}]
Idle == [vld |-> FALSE, ptr |-> 0, be |-> {}]

WbufferInit ==
  /\ wbuffer_q = [k \in Slots |-> Free]
  /\ tx_stat_q = [t \in TxIds |-> Idle]
  /\ rtrn_id_fifo = <<>>
  /\ ni_pending_q = {}
  /\ check_q = Nothing /\ check_q1 = Nothing
  /\ wr_cl_q = Nothing
  /\ dirty_lock_q = Nothing

valid == {k \in Slots : wbuffer_q[k].valid # {}}
tocheck == {k \in valid : ~wbuffer_q[k].checked}
empty_o == valid = {}

(* Fault: a byte with a transaction under way is sent again. *)
bdirty_unblocked(k) == wbuffer_q[k].dirty \cap wbuffer_q[k].valid

(* The bytes of an entry to send: none while one of its transactions is    *)
(* under way.                                                              *)
bdirty(k) ==
  IF wbuffer_q[k].txblock # {} THEN {} ELSE wbuffer_q[k].dirty \cap wbuffer_q[k].valid

dirty == {k \in Slots : bdirty(k) # {}}

(* toSize: all of the dirty bytes if they are an aligned block of one, two, *)
(* four or eight bytes, and otherwise the first of them.                   *)
Blocks == {(o * n) .. (o * n + n - 1) : o \in Bytes, n \in {1, 2, 4, 8}}
tx_be(k) == IF bdirty(k) \in Blocks THEN bdirty(k) ELSE {Min(bdirty(k))}

free_tx_slots == \E t \in TxIds : ~tx_stat_q[t].vld
miss_req_o == dirty # {} /\ free_tx_slots

(* The words with a transaction at the memory.                             *)
tx_paddr == {wbuffer_q[tx_stat_q[t].ptr].wtag : t \in {u \in TxIds : tx_stat_q[u].vld}}

(* What the arbiters may choose.  A locked one repeats its last choice.    *)
dirty_ptrs == IF dirty_lock_q # Nothing THEN {dirty_lock_q} ELSE IF dirty = {} THEN {0} ELSE dirty

(* The memory sees an identifier when it takes the request, and they are   *)
(* interchangeable: the arbiter's choice is the first free one.            *)
tx_id == Min({t \in TxIds : ~tx_stat_q[t].vld})

wbuffer_hit(w) == {k \in valid : wbuffer_q[k].wtag = w}
rdy(w) == wbuffer_hit(w) # {} \/ valid # Slots
wr_ptr(w) == Min(IF wbuffer_hit(w) # {} THEN wbuffer_hit(w) ELSE Slots \ valid)
ni_conflict(w) == w \in NonIdempotent /\ ni_pending_q # {}
store_gnt(w) == w # Nothing /\ rdy(w) /\ ~ni_conflict(w)

rtrn_id == Head(rtrn_id_fifo)
rtrn_ptr == tx_stat_q[rtrn_id].ptr
wr_data_be == tx_stat_q[rtrn_id].be \ wbuffer_q[rtrn_ptr].dirty

(* The transaction that came back first, once its entry is looked up.      *)
returns == rtrn_id_fifo # <<>> /\ wbuffer_q[rtrn_ptr].checked
wr_req_o == IF returns /\ wr_data_be # {} THEN wbuffer_q[rtrn_ptr].hit_oh ELSE {}
evict(wr_ack) == returns /\ (wr_req_o # {} => wr_ack)

(* Fault: only a write of this cycle is seen. *)
inval_hit_now(k, wr_cl) == k \in valid /\ wbuffer_q[k].wtag.idx = wr_cl

(* A line of the set of the entry's word is written in this cycle, or was  *)
(* in the last one.                                                        *)
inval_hit(k, wr_cl) == k \in valid /\ wbuffer_q[k].wtag.idx \in {wr_cl, wr_cl_q}

(* An entry after the bytes be of the word w are stored in it.             *)
Stored(e, w, be) ==
  [e EXCEPT !.wtag = w, !.valid = @ \cup be, !.dirty = @ \cup be, !.data = @ \cup be,
            !.checked = FALSE]

(* Fault: bytes stored while the transaction was under way are freed with  *)
(* it. *)
Evicted_all(e, be) ==
  LET v == e.valid \ be
  IN  IF v = {} THEN Free
      ELSE [e EXCEPT !.txblock = @ \ be, !.valid = v, !.dirty = @ \ be, !.data = @ \cap v]

(* An entry after its transaction for the bytes be is done: the bytes      *)
(* stored since stay.  What an entry without bytes holds is never read.    *)
Evicted(e, be) ==
  LET v == e.valid \ (be \ e.dirty)
  IN  IF v = {} THEN Free ELSE [e EXCEPT !.txblock = @ \ be, !.valid = v, !.data = @ \cap v]

Sent(e, be) == [e EXCEPT !.dirty = @ \ be, !.txblock = @ \cup be]

(* p_buffer, in the order of its statements.  in.gnt is the slot of the    *)
(* store that is granted, in.evict tells that a transaction is done.       *)
wbuffer_d(in) ==
  [k \in Slots |->
     LET e == wbuffer_q[k]
         looked == IF check_q1 # Nothing /\ check_q1.ptr = k /\ k \in valid
                   THEN [e EXCEPT !.checked = TRUE, !.hit_oh = check_q1.hit_oh] ELSE e
         inval == IF inval_hit(k, in.wr_cl) THEN [looked EXCEPT !.checked = FALSE] ELSE looked
         evicted == IF in.evict /\ rtrn_ptr = k
                    THEN Evicted(inval, tx_stat_q[rtrn_id].be) ELSE inval
         sent == IF in.miss_ack /\ in.dirty_ptr = k THEN Sent(evicted, tx_be(k)) ELSE evicted
     IN  IF in.gnt = k THEN Stored(sent, in.st, in.be) ELSE sent]

tx_stat_d(in) ==
  [t \in TxIds |->
     IF in.miss_ack /\ tx_id = t
     THEN [vld |-> TRUE, ptr |-> in.dirty_ptr, be |-> tx_be(in.dirty_ptr)]
     ELSE IF in.evict /\ rtrn_id = t THEN Idle ELSE tx_stat_q[t]]

ni_pending_d(in) ==
  LET left == IF in.evict /\ Evicted(wbuffer_q[rtrn_ptr], tx_stat_q[rtrn_id].be) = Free
              THEN ni_pending_q \ {rtrn_ptr} ELSE ni_pending_q
  IN  IF in.gnt = Nothing THEN left
      ELSE IF in.st \in NonIdempotent THEN left \cup {in.gnt} ELSE left \ {in.gnt}

(* The registers that follow from the inputs of a cycle, all but the data. *)
WbufferCycle(in) ==
  /\ tx_stat_q' = tx_stat_d(in)
  /\ rtrn_id_fifo' = (IF in.evict THEN Tail(rtrn_id_fifo) ELSE rtrn_id_fifo)
                     \o (IF in.rtrn = Nothing THEN <<>> ELSE <<in.rtrn>>)
  /\ ni_pending_q' = ni_pending_d(in)
  /\ check_q' = in.check_ptr
  /\ check_q1' = IF check_q = Nothing THEN Nothing ELSE [ptr |-> check_q, hit_oh |-> in.hit_oh]
  /\ wr_cl_q' = in.wr_cl
  /\ dirty_lock_q' = IF dirty # {} /\ ~in.miss_ack THEN in.dirty_ptr ELSE Nothing
=============================================================================
