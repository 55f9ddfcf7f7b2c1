-------------------------- MODULE WtDcacheMissunit --------------------------
(***************************************************************************)
(* The miss unit of the write-through data cache                           *)
(* (core/cache_subsystem/wt_dcache_missunit.sv).  It sends the misses of   *)
(* the read ports, the stores of the write buffer and the atomic           *)
(* operations to the memory, at most one load at a time, and writes the    *)
(* lines that come back; it empties the cache for a flush.                 *)
(***************************************************************************)
EXTENDS WtDcacheWbuffer

CONSTANTS NumSets,     \* DCACHE_NUM_WORDS
          Ways,
          Cacheable,   \* the words of the cacheable regions
          NumRd        \* the number of read ports; the write buffer's port is the next

VARIABLES state_q, cnt_q, enable_q, flush_ack_q, mshr_vld_q, mshr_vld_q1, mshr_q,
          mshr_rdrd_collision_q, miss_req_masked_q, amo_req_q, stores_inflight_q

missunit_vars == <<state_q, cnt_q, enable_q, flush_ack_q, mshr_vld_q, mshr_vld_q1, mshr_q,
                   mshr_rdrd_collision_q, miss_req_masked_q, amo_req_q, stores_inflight_q>>

Sets == 0 .. NumSets - 1
RdPorts == 0 .. NumRd - 1
WbPort == NumRd

Line(w) == <<w.tag, w.idx>>

MissunitInit ==
  /\ state_q = "FLUSH" /\ cnt_q = 0
  /\ enable_q = FALSE /\ flush_ack_q = FALSE
  /\ mshr_vld_q = FALSE /\ mshr_vld_q1 = FALSE /\ mshr_q = Nothing
  /\ mshr_rdrd_collision_q = {} /\ miss_req_masked_q = {}
  /\ amo_req_q = FALSE
  /\ stores_inflight_q = 0

miss_nc(w) == ~enable_q \/ w \notin Cacheable

(* m.miss maps the ports that request to the word they request.            *)
lock_reqs == state_q \in {"STORE_WAIT", "LOAD_WAIT"}
mask_reads == mshr_vld_q \/ state_q = "DRAIN"
miss_req_masked_d(m) ==
  IF lock_reqs THEN miss_req_masked_q
  ELSE IF mask_reads THEN DOMAIN m.miss \cap {WbPort} ELSE DOMAIN m.miss
miss_port_idx(m) == Min(miss_req_masked_d(m))
miss_paddr(m) == m.miss[miss_port_idx(m)]

(* p_rtrn_logic: an answer nobody waits for is dropped.                    *)
load_ack(m) == m.rtrn.rtype = "LOAD_ACK" /\ mshr_vld_q
store_ack(m) == m.rtrn.rtype = "STORE_ACK" /\ stores_inflight_q > 0
amo_ack(m) == m.rtrn.rtype = "ATOMIC_ACK" /\ amo_req_q
inv_vld(m) == m.rtrn.rtype = "INV_REQ"
flush_en == state_q = "FLUSH"
flush_done == cnt_q = NumSets - 1

(* Fault: the words are compared, not their lines. *)
mshr_rdrd_collision_word(m, p) == (mshr_vld_q \/ mshr_vld_q1) /\ mshr_q.paddr = m.miss[p]

(* The line port p requests is under way, or arrived in the last cycle.    *)
mshr_rdrd_collision(m, p) ==
  (mshr_vld_q \/ mshr_vld_q1) /\ Line(mshr_q.paddr) = Line(m.miss[p])

mshr_rdrd_collision_d(m) ==
  {p \in DOMAIN m.miss : p \in mshr_rdrd_collision_q \/ mshr_rdrd_collision(m, p)}

mshr_rdwr_collision(m) == mshr_vld_q /\ Line(mshr_q.paddr) = Line(m.miss[WbPort])

tx_rdwr_collision(m) == \E w \in tx_paddr : Line(w) = Line(miss_paddr(m))

flush_req(m) == m.flush_i \/ (m.enable_i /\ ~enable_q)
drained == empty_o /\ ~mshr_vld_q

(* A miss is taken in IDLE when neither a flush nor an atomic operation    *)
(* is requested.                                                           *)
serves(m) ==
  /\ state_q = "IDLE" /\ ~flush_req(m) /\ m.amo = Nothing
  /\ miss_req_masked_d(m) # {}
serves_load(m) == serves(m) /\ miss_port_idx(m) # WbPort /\ (~mshr_vld_q \/ load_ack(m))

miss_replay_o(m, p) ==
  serves_load(m) /\ p = miss_port_idx(m) /\ p \in mshr_rdrd_collision_d(m)

(* Fault: no store is sent while the buffer is drained. *)
mem_data_req_drain(m) ==
  CASE state_q = "AMO" -> "ATOMIC_REQ"
    [] state_q = "STORE_WAIT" -> "STORE_REQ"
    [] state_q = "LOAD_WAIT" -> "LOAD_REQ"
    [] serves(m) /\ miss_port_idx(m) = WbPort /\ ~mshr_rdwr_collision(m) -> "STORE_REQ"
    [] /\ serves_load(m) /\ miss_port_idx(m) \notin mshr_rdrd_collision_d(m)
       /\ ~tx_rdwr_collision(m) -> "LOAD_REQ"
    [] OTHER -> "NONE"

(* The kind of the request on the memory interface in this cycle.          *)
mem_data_req(m) ==
  CASE state_q = "AMO" -> "ATOMIC_REQ"
    [] state_q = "STORE_WAIT" -> "STORE_REQ"
    [] state_q = "LOAD_WAIT" -> "LOAD_REQ"
    [] state_q = "DRAIN" /\ miss_req_masked_d(m) # {} /\ ~mshr_rdwr_collision(m) -> "STORE_REQ"
    [] serves(m) /\ miss_port_idx(m) = WbPort /\ ~mshr_rdwr_collision(m) -> "STORE_REQ"
    [] /\ serves_load(m) /\ miss_port_idx(m) \notin mshr_rdrd_collision_d(m)
       /\ ~tx_rdwr_collision(m) -> "LOAD_REQ"
    [] OTHER -> "NONE"

(* m.req is this kind, and m.mem_data_ack the answer to it.                *)
sent(m, rtype) == m.req = rtype /\ m.mem_data_ack
mshr_allocate(m) == sent(m, "LOAD_REQ")
miss_ack_o(m, p) ==
  /\ sent(m, "STORE_REQ") \/ sent(m, "LOAD_REQ")
  /\ p = miss_port_idx(m)
miss_rtrn_vld_o(m, p) ==
  \/ load_ack(m) /\ p = mshr_q.miss_port_idx
  \/ store_ack(m) /\ p = WbPort

(* The write of a line: one way of the returned line, or all ways of a set *)
(* that is invalidated.                                                    *)
cl_write_en(m) == load_ack(m) /\ ~mshr_q.nc
wr_cl_we(m) ==
  IF flush_en \/ inv_vld(m) THEN Ways
  ELSE IF cl_write_en(m) THEN {mshr_q.repl_way} ELSE {}
wr_cl_vld(m) == load_ack(m) \/ wr_cl_we(m) # {}
wr_vld_bits(m) == IF flush_en \/ inv_vld(m) THEN {} ELSE wr_cl_we(m)
wr_cl_idx(m) ==
  IF ~wr_cl_vld(m) THEN Nothing
  ELSE IF flush_en THEN cnt_q ELSE IF inv_vld(m) THEN m.rtrn.idx ELSE mshr_q.paddr.idx

state_d(m) ==
  CASE state_q = "IDLE" ->
         IF flush_req(m) THEN (IF drained THEN "FLUSH" ELSE "DRAIN")
         ELSE IF m.amo # Nothing THEN (IF drained THEN "AMO" ELSE "DRAIN")
         ELSE IF m.mem_data_ack THEN "IDLE"
         ELSE CASE m.req = "STORE_REQ" -> "STORE_WAIT"
                [] m.req = "LOAD_REQ" -> "LOAD_WAIT"
                [] OTHER -> "IDLE"
    [] state_q \in {"STORE_WAIT", "LOAD_WAIT"} -> IF m.mem_data_ack THEN "IDLE" ELSE state_q
    [] state_q = "DRAIN" -> IF drained THEN "IDLE" ELSE "DRAIN"
    [] state_q = "FLUSH" -> IF flush_done THEN "IDLE" ELSE "FLUSH"
    [] state_q = "AMO" -> IF m.mem_data_ack THEN "AMO_WAIT" ELSE "AMO"
    [] state_q = "AMO_WAIT" -> IF amo_ack(m) THEN "IDLE" ELSE "AMO_WAIT"

flush_ack_o == flush_en /\ flush_done /\ flush_ack_q
amo_resp_ack(m) == state_q = "AMO_WAIT" /\ amo_ack(m)

(* The ways a miss may replace: the first that was not valid in the read   *)
(* of the tags, or else a random one.                                      *)
repl_ways(vld_bits) == IF vld_bits = Ways THEN Ways ELSE {Min(Ways \ vld_bits)}

MissunitCycle(m) ==
  /\ state_q' = state_d(m)
  /\ cnt_q' = IF flush_en THEN (cnt_q + 1) % NumSets ELSE 0
  /\ enable_q' = IF flush_en /\ flush_done THEN m.enable_i ELSE enable_q /\ m.enable_i
  /\ flush_ack_q' = IF state_q = "IDLE" /\ flush_req(m) /\ drained THEN m.flush_i
                    ELSE IF flush_en /\ flush_done THEN FALSE ELSE flush_ack_q
  /\ mshr_vld_q' = (mshr_allocate(m) \/ (mshr_vld_q /\ ~load_ack(m)))
  /\ mshr_vld_q1' = mshr_vld_q
  /\ mshr_q' = IF mshr_allocate(m)
               THEN [paddr |-> miss_paddr(m), nc |-> miss_nc(miss_paddr(m)), repl_way |-> m.way,
                     miss_port_idx |-> miss_port_idx(m)]
               ELSE IF mshr_vld_q THEN mshr_q ELSE Nothing
  /\ mshr_rdrd_collision_q' = mshr_rdrd_collision_d(m)
  /\ miss_req_masked_q' = IF state_d(m) \in {"STORE_WAIT", "LOAD_WAIT"}
                          THEN miss_req_masked_d(m) ELSE {}
  /\ amo_req_q' = (m.amo # Nothing)
  /\ stores_inflight_q' =
       stores_inflight_q + (IF sent(m, "STORE_REQ") THEN 1 ELSE 0) - (IF store_ack(m) THEN 1 ELSE 0)
=============================================================================
