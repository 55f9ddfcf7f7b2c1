------------------------------ MODULE WtDcache ------------------------------
(***************************************************************************)
(* The write-through data cache (core/cache_subsystem/wt_dcache.sv): the   *)
(* read port controllers, the write buffer, the miss unit and the memory   *)
(* arrays (wt_dcache_mem.sv), with the memory behind them.  A step is a    *)
(* clock cycle.                                                            *)
(*                                                                         *)
(* The core sends loads to the read ports, stores to the write buffer, and *)
(* requests flushes and atomic operations; the memory answers loads and    *)
(* stores in any order.  It reads a line when the request is sent and      *)
(* performs a store when it acknowledges it, the two extremes of what a    *)
(* memory may do.                                                          *)
(***************************************************************************)
EXTENDS WtDcacheMissunit

CONSTANTS Workloads,   \* what the core does, and the memory: see workload
          DrainCycles  \* a bound on the cycles to drain the cache

VARIABLES workload,    \* the words each port loads and that stores and atomic operations
                       \* access, the bytes a store writes, whether loads are killed and
                       \* fences flush, the values of enable_i and of mem_data_ack
          port_q,      \* the registers of the read port controllers
          cache_q,     \* tag, valid bit and data of every way of every set
          rd_q,        \* the last read of the arrays, and whose it was
          flush_i, amo_i,                    \* the core's standing requests
          memory, load_tx, store_tx, amo_tx, \* the memory, and what it is asked to do
          outdated,    \* a load was answered with bytes that are not the latest
          waited       \* the cycles the cache drains since the core stopped

mem_vars == <<memory, load_tx, store_tx, amo_tx>>
vars == <<workload, wbuffer_vars, missunit_vars, port_q, cache_q, rd_q, flush_i, amo_i, mem_vars, outdated, waited>>

Offs == {w.off : w \in Words}
Word(tag, idx, off) == [tag |-> tag, idx |-> idx, off |-> off]

Ctrl(p) == INSTANCE WtDcacheCtrl
  WITH state_q <- port_q[p].state, rd_ack_q <- port_q[p].rd_ack, id_q <- 0,
       address_idx_q <- port_q[p].w, address_tag_q <- port_q[p].w, NoOne <- Nothing

(* The states with a request to the miss unit. *)
Missing == {"MISS_REQ", "KILL_MISS_ACK"}

(* After reset the arrays hold anything; it is out of date.                *)
Init ==
  /\ workload \in Workloads
  /\ WbufferInit /\ MissunitInit
  /\ port_q = [p \in RdPorts |-> [state |-> "IDLE", rd_ack |-> FALSE, w |-> Nothing,
                                  rd_req |-> FALSE, vld_data |-> {}]]
  /\ \E tag \in {w.tag : w \in Words} :
       cache_q = [i \in Sets |-> [a \in Ways |->
                    [vld |-> TRUE, tag |-> tag, data |-> [o \in Offs |-> {}]]]]
  /\ rd_q = Nothing
  /\ flush_i = FALSE /\ amo_i = Nothing
  /\ memory = [w \in Words |-> Bytes]
  /\ load_tx = Nothing /\ store_tx = [t \in TxIds |-> Nothing] /\ amo_tx = Nothing
  /\ outdated = FALSE
  /\ waited = 0
-----------------------------------------------------------------------------
(* wt_dcache_mem: the arbitration of the reads, and of the writes of the   *)
(* write buffer against them.                                              *)

rd_req(p, ld) ==
  \/ port_q[p].state = "IDLE" /\ ld # Nothing
  \/ port_q[p].state \in {"READ", "REPLAY_READ", "REPLAY_REQ"}

(* The read ports go before the write buffer, which only reads tags.       *)
vld_sels(load) ==
  LET reads == {p \in RdPorts : rd_req(p, load[p].ld)}
  IN  IF reads # {} THEN reads ELSE IF tocheck # {} THEN {WbPort} ELSE {Nothing}

rd_vld_bits == {a \in Ways : rd_q.ways[a].vld}
rd_hit_oh == IF rd_q = Nothing THEN {} ELSE {a \in Ways : rd_q.ways[a].vld /\ rd_q.ways[a].tag = rd_q.w.tag}

wr_ack(m, sel, w) ==
  /\ wr_req_o # {} /\ wr_cl_we(m) = {}
  /\ sel \in RdPorts /\ ~wr_cl_vld(m) => w.off # wbuffer_q[rtrn_ptr].wtag.off

(* The arrays after the writes of a cycle.                                 *)
cache_d(m, ack) ==
  [i \in Sets |-> [a \in Ways |->
     IF wr_cl_idx(m) = i /\ a \in wr_cl_we(m)
     THEN IF cl_write_en(m) /\ a \in wr_vld_bits(m)
          THEN [vld |-> TRUE, tag |-> mshr_q.paddr.tag, data |-> m.rtrn.data]
          ELSE [cache_q[i][a] EXCEPT !.vld = FALSE]
     ELSE IF ack /\ a \in wr_req_o /\ wbuffer_q[rtrn_ptr].wtag.idx = i
     THEN [cache_q[i][a] EXCEPT
             !.data[wbuffer_q[rtrn_ptr].wtag.off] =
                (@ \ wr_data_be) \cup (wbuffer_q[rtrn_ptr].data \cap wr_data_be)]
     ELSE cache_q[i][a]]]

(* The word at the outputs: of the line that arrives, or of the way that   *)
(* hits, with the bytes the write buffer holds over it.                    *)
rd_data(m) ==
  LET w == IF wr_cl_vld(m) THEN mshr_q.paddr ELSE rd_q.w
      rdata == IF wr_cl_vld(m) THEN m.rtrn.data[w.off]
               ELSE rd_q.ways[Min(rd_hit_oh)].data
      hit == wbuffer_hit(w)
      e == wbuffer_q[Min(hit)]
  IN  IF hit = {} THEN rdata ELSE (rdata \ e.valid) \cup (e.data \cap e.valid)
-----------------------------------------------------------------------------
(* The core.  A load is killed at any time until it is answered.  A load   *)
(* behind an atomic operation to its word is flushed with all that follows *)
(* the operation, and is left out.                                         *)

Pending(p) == port_q[p].state \notin {"IDLE", "KILL_MISS", "KILL_MISS_ACK"}

Loads(p) ==
  LET new == [ld : (workload.loads[p] \ {amo_i}) \cup {Nothing}, kill : {FALSE}]
      kill == IF workload.kills THEN {[ld |-> Nothing, kill |-> TRUE]} ELSE {}
      wait == [ld |-> Nothing, kill |-> FALSE]
  IN  CASE port_q[p].state = "IDLE" -> new
        [] /\ port_q[p].state \in {"READ", "REPLAY_READ"}
           /\ port_q[p].rd_ack /\ rd_hit_oh # {} /\ enable_q -> new \cup kill
        [] port_q[p].state \in {"READ", "REPLAY_READ", "MISS_REQ", "MISS_WAIT", "REPLAY_REQ"} -> {wait} \cup kill
        [] OTHER -> {wait}

AllLoads ==
  {load \in [RdPorts -> UNION {Loads(p) : p \in RdPorts}] : \A p \in RdPorts : load[p] \in Loads(p)}

(* A store to a word with a load under way is younger than the load and    *)
(* still waits in the store buffer, and so does a store behind a fence or  *)
(* an atomic operation.                                                    *)
Stores(load) ==
  IF flush_i \/ amo_i # Nothing THEN {Nothing}
  ELSE {Nothing} \cup {w \in workload.stores : \A p \in RdPorts :
                         (Pending(p) => port_q[p].w # w) /\ load[p].ld # w}

(* The memory: an answer to one of its requests, or none in this cycle.    *)
Answers ==
  LET answers ==
        (IF load_tx = Nothing THEN {} ELSE {[rtype |-> "LOAD_ACK", data |-> load_tx.data]})
        \cup {[rtype |-> "STORE_ACK", tid |-> t] : t \in {u \in TxIds : store_tx[u] # Nothing}}
        \cup (CASE amo_tx = "sent" -> {[rtype |-> "INV_REQ", idx |-> amo_i.idx]}
                [] amo_tx = "invalidated" -> {[rtype |-> "ATOMIC_ACK"]}
                [] OTHER -> {})
  IN  IF FALSE \in workload.acks \/ answers = {} THEN answers \cup {[rtype |-> "NONE"]} ELSE answers

(* A cycle.  The copies of the bytes that are stored in it, or that an     *)
(* atomic operation writes, are out of date after it.                      *)
Cycle(load, st, be, m, sel, check, dirty_ptr) ==
  LET wr_cl == wr_cl_vld(m)
      r == [p \in RdPorts |->
              [rd_ack |-> sel = p /\ ~wr_cl, hit |-> rd_hit_oh # {} /\ enable_q, wr_cl_vld |-> wr_cl,
               miss_ack |-> miss_ack_o(m, p), miss_replay |-> miss_replay_o(m, p),
               miss_rtrn_vld |-> miss_rtrn_vld_o(m, p)]]
      port == [p \in RdPorts |-> [kill_req |-> load[p].kill, tag_valid |-> TRUE]]
      next == [p \in RdPorts |-> Ctrl(p)!state_d(port[p], r[p], load[p].ld # Nothing)]
      word == [p \in RdPorts |->
                 IF Ctrl(p)!data_gnt(port[p], r[p], load[p].ld # Nothing) THEN load[p].ld ELSE port_q[p].w]
      rd_w == CASE sel \in RdPorts -> word[sel]
                [] sel = WbPort -> wbuffer_q[check].wtag
                [] OTHER -> Nothing
      ack == wr_ack(m, sel, rd_w)
      gnt == IF store_gnt(st) THEN wr_ptr(st) ELSE Nothing
      new == IF gnt # Nothing THEN [w |-> st, be |-> be]
             ELSE [w |-> IF amo_ack(m) THEN amo_i ELSE Nothing, be |-> Bytes]
      age(c, w) == IF w = new.w THEN c \ new.be ELSE c
      in == [wr_cl |-> wr_cl_idx(m), evict |-> evict(ack), gnt |-> gnt, dirty_ptr |-> dirty_ptr,
             miss_ack |-> miss_ack_o(m, WbPort), st |-> st, be |-> be, hit_oh |-> rd_hit_oh,
             check_ptr |-> IF sel = WbPort /\ ~wr_cl THEN check ELSE Nothing,
             rtrn |-> IF store_ack(m) THEN m.rtrn.tid ELSE Nothing]
      cache == cache_d(m, ack)
      entries == wbuffer_d(in)
  IN  /\ WbufferCycle(in)
      /\ MissunitCycle(m)
      /\ wbuffer_q' = [k \in Slots |->
           IF k = gnt THEN entries[k]
           ELSE [entries[k] EXCEPT !.data = age(@, entries[k].wtag)]]
      /\ port_q' = [p \in RdPorts |->
           [state |-> next[p], rd_ack |-> next[p] \in {"READ", "REPLAY_READ"} /\ r[p].rd_ack,
            w |-> IF next[p] \in {"IDLE", "KILL_MISS"} THEN Nothing ELSE word[p],
            rd_req |-> next[p] \in Missing /\ port_q[p].state \notin Missing,
            vld_data |-> IF next[p] \notin Missing THEN {}
                         ELSE IF port_q[p].state \notin Missing \/ port_q[p].rd_req THEN rd_vld_bits
                         ELSE port_q[p].vld_data]]
      /\ rd_q' = IF sel = Nothing \/ wr_cl THEN Nothing
                 ELSE [w |-> rd_w, ways |-> [a \in Ways |->
                        [vld |-> cache_q[rd_w.idx][a].vld, tag |-> cache_q[rd_w.idx][a].tag,
                         data |-> age(cache_q[rd_w.idx][a].data[rd_w.off], rd_w)]]]
      /\ cache_q' = [i \in Sets |-> [a \in Ways |-> [cache[i][a] EXCEPT
           !.data = [o \in Offs |-> age(@[o], Word(cache[i][a].tag, i, o))]]]]
      /\ load_tx' = IF sent(m, "LOAD_REQ")
                    THEN [w |-> miss_paddr(m),
                          data |-> [o \in Offs |->
                            LET w == Word(miss_paddr(m).tag, miss_paddr(m).idx, o)
                            IN  age(memory[w], w)]]
                    ELSE IF load_tx = Nothing \/ load_ack(m) THEN Nothing
                    ELSE [load_tx EXCEPT !.data = [o \in Offs |->
                            age(@[o], Word(load_tx.w.tag, load_tx.w.idx, o))]]
      /\ store_tx' = [t \in TxIds |->
           IF in.miss_ack /\ t = tx_id
           THEN LET e == wbuffer_q[dirty_ptr] IN
                [w |-> e.wtag, be |-> tx_be(dirty_ptr), data |-> age(e.data, e.wtag)]
           ELSE IF store_tx[t] = Nothing \/ in.rtrn = t THEN Nothing
           ELSE [store_tx[t] EXCEPT !.data = age(@, store_tx[t].w)]]
      /\ amo_tx' = IF sent(m, "ATOMIC_REQ") THEN "sent"
                   ELSE IF inv_vld(m) THEN "invalidated"
                   ELSE IF amo_ack(m) THEN Nothing ELSE amo_tx
      /\ memory' = [w \in Words |->
           IF amo_ack(m) /\ w = amo_i THEN Bytes
           ELSE IF store_ack(m) /\ store_tx[m.rtrn.tid].w = w
           THEN age((memory[w] \ store_tx[m.rtrn.tid].be)
                    \cup (store_tx[m.rtrn.tid].data \cap store_tx[m.rtrn.tid].be), w)
           ELSE age(memory[w], w)]
      /\ outdated' = \E p \in RdPorts :
           /\ ~load[p].kill /\ Ctrl(p)!data_rvalid(port[p], r[p])
           /\ rd_data(m) # Bytes

(* The core stops for good, and the memory does at once what it is asked.  *)
Quiet == [loads |-> [p \in RdPorts |-> {}], stores |-> {}, bytes |-> {}, amos |-> {},
          kills |-> FALSE, flushes |-> FALSE, enables |-> {TRUE}, acks |-> {TRUE}]

Drained ==
  /\ empty_o /\ ~flush_i /\ amo_i = Nothing
  /\ \A p \in RdPorts : port_q[p].state = "IDLE"

(* The core keeps a flush or an atomic operation requested until the       *)
(* answer, and requests one when its earlier stores are in the write       *)
(* buffer and its earlier loads are answered.                              *)
MayRequest(load) ==
  /\ ~flush_i /\ amo_i = Nothing
  /\ \A p \in RdPorts : ~Pending(p) /\ load[p].ld = Nothing

Request(m, flush, amo) ==
  /\ UNCHANGED workload
  /\ waited' = IF workload = Quiet /\ ~Drained THEN waited + 1 ELSE 0
  /\ flush_i' = (flush \/ (flush_i /\ ~flush_ack_o))
  /\ amo_i' = IF amo # Nothing THEN amo ELSE IF amo_resp_ack(m) THEN Nothing ELSE amo_i

(* A cycle in which the core sends what load, st and be say and asks for   *)
(* the flush or the atomic operation, and the memory answers rtrn.         *)
Step(load, st, be, flush, amo, rtrn) ==
  \E enable_i \in workload.enables, dirty_ptr \in dirty_ptrs, sel \in vld_sels(load) :
    LET missing == {p \in RdPorts : port_q[p].state \in Missing}
        m0 == [miss |-> [p \in missing \cup (IF miss_req_o THEN {WbPort} ELSE {}) |->
                            IF p = WbPort THEN wbuffer_q[dirty_ptr].wtag ELSE port_q[p].w],
               rtrn |-> rtrn, flush_i |-> flush_i, enable_i |-> enable_i, amo |-> amo_i]
        req == mem_data_req(m0)
    IN  \E mem_data_ack \in IF req = "NONE" THEN {FALSE} ELSE workload.acks,
           way \in IF req = "LOAD_REQ" THEN repl_ways(port_q[miss_port_idx(m0)].vld_data) ELSE {0},
           check \in IF sel = WbPort THEN tocheck ELSE {Nothing} :
          LET m == [miss |-> m0.miss, rtrn |-> rtrn, flush_i |-> flush_i, enable_i |-> enable_i,
                    amo |-> amo_i, req |-> req, way |-> way, mem_data_ack |-> mem_data_ack]
          IN  Cycle(load, st, be, m, sel, check, dirty_ptr) /\ Request(m, flush, amo)

Stop ==
  /\ workload # Quiet /\ workload' = Quiet
  /\ UNCHANGED <<wbuffer_vars, missunit_vars, port_q, cache_q, rd_q, flush_i, amo_i, mem_vars,
                 outdated, waited>>

Next ==
  \/ \E load \in AllLoads, rtrn \in Answers :
     \E st \in Stores(load), flush \in IF workload.flushes /\ MayRequest(load) THEN BOOLEAN ELSE {FALSE} :
     \E be \in IF st = Nothing THEN {{}} ELSE workload.bytes,
        amo \in {Nothing} \cup (IF MayRequest(load) /\ ~flush THEN workload.amos ELSE {}) :
       Step(load, st, be, flush, amo, rtrn)
  \/ Stop

Spec == Init /\ [][Next]_vars
-----------------------------------------------------------------------------
(* Every load is answered with the latest bytes stored in its word,        *)
(* wherever they are: in the write buffer, in a line, in a line that       *)
(* arrives or behind a transaction under way (rd_data_o and the collision  *)
(* checks of the miss unit).                                               *)
LoadsReadTheLatest == ~outdated

(* A byte of a line or of the memory that is out of date is in the write   *)
(* buffer, so that no load sees it and it will be written: the entry is    *)
(* not freed before the memory and the line have its bytes.                *)
Covered(w, c) == \A b \in Bytes \ c : \E k \in wbuffer_hit(w) : b \in wbuffer_q[k].valid
StaleCopiesAreCovered ==
  /\ \A w \in Words : Covered(w, memory[w])
  /\ enable_q => \A i \in Sets, a \in Ways, o \in Offs :
       cache_q[i][a].vld => Covered(Word(cache_q[i][a].tag, i, o), cache_q[i][a].data[o])

(* What the assertions hot1, tx_status, tx_valid0, tx_valid1 and           *)
(* byteStates of the write buffer say together, and that it counts its     *)
(* transactions right: a word has one entry, a byte is empty, dirty, sent  *)
(* or both; a transaction has an entry of its own whose sent bytes are the *)
(* transaction's, and is either at the memory or waits in the return FIFO. *)
TransactionsAreBacked ==
  /\ \A k, l \in valid : wbuffer_q[k].wtag = wbuffer_q[l].wtag => k = l
  /\ \A k \in Slots : wbuffer_q[k].valid = wbuffer_q[k].dirty \cup wbuffer_q[k].txblock
  /\ \A k \in Slots : wbuffer_q[k].txblock =
       UNION {tx_stat_q[t].be : t \in {u \in TxIds : tx_stat_q[u].vld /\ tx_stat_q[u].ptr = k}}
  /\ \A t, u \in TxIds :
       t # u /\ tx_stat_q[t].vld /\ tx_stat_q[u].vld => tx_stat_q[t].ptr # tx_stat_q[u].ptr
  /\ \A t \in TxIds :
       LET places == {n \in DOMAIN rtrn_id_fifo : rtrn_id_fifo[n] = t}
       IN  Cardinality(places) + (IF store_tx[t] # Nothing THEN 1 ELSE 0)
             = (IF tx_stat_q[t].vld THEN 1 ELSE 0)
  /\ stores_inflight_q = Cardinality({t \in TxIds : store_tx[t] # Nothing})

(* No line is in two ways of a set (assertion hit_hot1 of wt_dcache_mem):  *)
(* two ports that miss on one line do not both load it.                    *)
OneCopyOfALine ==
  enable_q => \A i \in Sets, a, b \in Ways :
    cache_q[i][a].vld /\ cache_q[i][b].vld /\ cache_q[i][a].tag = cache_q[i][b].tag => a = b

(* When the core stops sending, every load is answered, the write buffer   *)
(* empties and a flush or an atomic operation is acknowledged, within a    *)
(* bounded number of cycles if the memory answers at once: no part of the  *)
(* cache waits for another that waits for it (p_fsm, DRAIN).               *)
DrainsInTime == waited <= DrainCycles
=============================================================================
