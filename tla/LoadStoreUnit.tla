--------------------------- MODULE LoadStoreUnit ---------------------------
(***************************************************************************)
(* The load store unit (core/load_store_unit.sv): the LSU control, the     *)
(* load unit and the store unit around one translation port, with the read *)
(* port of the write-through data cache.  One step is one clock cycle.     *)
(*                                                                         *)
(* The MMU (data_interface in core/cva6_mmu/cva6_mmu.sv, gen_no_mmu in     *)
(* load_store_unit.sv) and the PMP check behind it are their registers:    *)
(* what was asked in the last cycle, and by whom.  The verdict on an       *)
(* address is free in every cycle.  The store buffer is its two queues,    *)
(* which StoreBuffer models whole, with the page offsets of the stores.    *)
(***************************************************************************)
EXTENDS Naturals, Sequences, SequencesExt

CONSTANTS Ids, NoId,        \* transaction ids of the scoreboard
          Kinds,            \* the requests that occur, without their ids
          NrLoadBufEntries, MmuPresent, NonIdemPotenceEn, RVH,
          Translation,      \* the MMU translates load and store addresses
          StoresFault,      \* stores raise exceptions
          DEPTH_SPEC, DEPTH_COMMIT

(* The all-zero request of a cycle without one. *)
Nothing == [valid |-> FALSE, trans_id |-> NoId, fu |-> "NONE", amo |-> FALSE,
            ni |-> FALSE, misaligned |-> FALSE, ofs |-> 0]
Request(k, id) == [valid |-> TRUE, trans_id |-> id, fu |-> k.fu, amo |-> k.amo,
                   ni |-> k.ni, misaligned |-> k.misaligned, ofs |-> k.ofs]

ASSUME LsuFeatures ==
  /\ NoId \notin Ids
  /\ NrLoadBufEntries \in Nat \ {0}
  /\ MmuPresent \in BOOLEAN /\ NonIdemPotenceEn \in BOOLEAN
  /\ RVH \in BOOLEAN /\ Translation \in BOOLEAN /\ (Translation => MmuPresent)
  /\ StoresFault \in BOOLEAN
  /\ \A k \in Kinds : k.fu \in {"LOAD", "STORE"} /\ (k.amo => k.fu = "STORE")

VARIABLES
  mem_q, read_pointer_q, write_pointer_q, status_cnt_q,           \* LSU control
  ld_state_q, ldbuf, ldbuf_last_id_q,                             \* load unit
  st_state_q, trans_id_q, is_amo_q, amo_valid,                    \* store unit
  dc_state_q, id_q, rd_ack_q, address_idx_q, address_tag_q,       \* cache port
  speculative_queue, commit_queue,                                \* store buffer
  lsu_req_q, lsu_addr_q, dtlb_hit_q, misaligned_ex_q, ptw_active, \* MMU
  lsu_ready_q,                     \* what the issue stage saw in the cycle before
  owed, stray, silent, poisoned    \* history: see History

Byp == INSTANCE LsuBypass
Ld == INSTANCE LoadUnit WITH state_q <- ld_state_q
St == INSTANCE StoreUnit WITH state_q <- st_state_q
Dc == INSTANCE WtDcacheCtrl WITH state_q <- dc_state_q, NoOne <- NoId

machine == <<mem_q, read_pointer_q, write_pointer_q, status_cnt_q, ld_state_q, ldbuf,
  ldbuf_last_id_q, st_state_q, trans_id_q, is_amo_q, amo_valid, dc_state_q, id_q, rd_ack_q,
  address_idx_q, address_tag_q, speculative_queue, commit_queue, lsu_req_q, lsu_addr_q,
  dtlb_hit_q, misaligned_ex_q, ptw_active, lsu_ready_q>>
vars == <<machine, owed, stray, silent, poisoned>>

NoAddr == [owner |-> NoId, ni |-> FALSE, ofs |-> 0]

Init ==
  /\ Byp!Init /\ Ld!Init /\ St!Init /\ Dc!Init
  /\ speculative_queue = <<>> /\ commit_queue = <<>>
  /\ lsu_req_q = FALSE /\ lsu_addr_q = NoAddr /\ dtlb_hit_q = FALSE
  /\ misaligned_ex_q = FALSE /\ ptw_active = FALSE
  /\ lsu_ready_q = TRUE
  /\ owed = <<>> /\ stray = {} /\ silent = FALSE /\ poisoned = {}

(***************************************************************************)
(* Translation.                                                            *)
(***************************************************************************)

(* The MMU has an address to give a verdict on. *)
translating ==
  IF Translation THEN (dtlb_hit_q /\ lsu_req_q) \/ ptw_active ELSE lsu_req_q

(* The exception the MMU and the PMP report in this cycle, for the address *)
(* of the last one: a misaligned address, a page that is not accessible,   *)
(* a failed page table walk, or a refusal of the PMP.                      *)
mmu_exception(fault) ==
  \/ misaligned_ex_q
  \/ fault /\ translating

(* The misaligned exception on its way to the unit, gated with the request *)
(* in the MMU, which registers it only with the hypervisor extension.      *)
misaligned_ex_n(ctrl, translation_req) ==
  IF MmuPresent THEN RVH /\ ctrl.valid /\ ctrl.misaligned /\ translation_req
  ELSE ctrl.valid /\ ctrl.misaligned

(* Fault: the first address stays while translation is asked for. *)
lsu_addr_n_held(ctrl, translation_req) ==
  IF translation_req /\ lsu_req_q THEN lsu_addr_q
  ELSE [owner |-> ctrl.trans_id, ni |-> ctrl.ni, ofs |-> ctrl.ofs]

(* The address port follows the request that is presented. *)
lsu_addr_n(ctrl, translation_req) ==
  IF ctrl.fu = "NONE" THEN NoAddr
  ELSE [owner |-> ctrl.trans_id, ni |-> ctrl.ni, ofs |-> ctrl.ofs]

(* The page of the load is checked for idempotency in the cycle of the     *)
(* request; without an MMU the page number comes from a register.          *)
page_ni(ctrl) == IF MmuPresent THEN ctrl.ni ELSE lsu_addr_q.ni

(***************************************************************************)
(* The store buffer (core/store_buffer.sv).                                *)
(***************************************************************************)

Offsets(queue) == {queue[i] : i \in 1..Len(queue)}

(* Fault: the store that is posted in this cycle is not compared. *)
page_offset_matches_posted(ctrl) ==
  ctrl.ofs \in Offsets(speculative_queue) \cup Offsets(commit_queue)

(* A load is compared with the queues and with the store being posted. *)
page_offset_matches(ctrl) ==
  \/ ctrl.ofs \in Offsets(speculative_queue) \cup Offsets(commit_queue)
  \/ st_state_q = "VALID_STORE" /\ ctrl.ofs = lsu_addr_q.ofs

store_buffer_empty == speculative_queue = <<>> /\ commit_queue = <<>>

speculative_queue_n(push, commit, flush) ==
  IF flush THEN <<>>
  ELSE (IF commit THEN Tail(speculative_queue) ELSE speculative_queue)
         \o (IF push THEN <<lsu_addr_q.ofs>> ELSE <<>>)

commit_queue_n(commit, drain) ==
  (IF drain THEN Tail(commit_queue) ELSE commit_queue)
    \o (IF commit THEN <<Head(speculative_queue)>> ELSE <<>>)

(***************************************************************************)
(* History.  owed lists the requests that are owed an answer, in program   *)
(* order, and stray the ids that were answered without being owed.  silent *)
(* says that a misaligned request was answered without an exception.  A    *)
(* store that fails after it has left the LSU control dooms all younger    *)
(* requests: poisoned is their ids and its own, which stay in use until    *)
(* the flush, which settles everything; stray is not followed any more.    *)
(***************************************************************************)

OwedIds == {owed[i].id : i \in 1..Len(owed)}

History(req, flush, answers, storeFails) ==
  LET accepted == IF req.valid /\ poisoned = {}
                  THEN Append(owed, [id |-> req.trans_id, misaligned |-> req.misaligned])
                  ELSE owed
      ids == {a.trans_id : a \in answers}
      place == {i \in 1..Len(accepted) : accepted[i].id = trans_id_q}
      behind == IF storeFails /\ place # {}
                THEN {accepted[i].id : i \in (CHOOSE i \in place : TRUE)..Len(accepted)} ELSE {}
      doomed == behind \cup (IF storeFails THEN {trans_id_q} ELSE {})
                  \cup (IF req.valid /\ poisoned # {} THEN {req.trans_id} ELSE {})
  IN  IF flush THEN owed' = <<>> /\ stray' = {} /\ silent' = FALSE /\ poisoned' = {}
      ELSE /\ poisoned' = poisoned \cup doomed
           /\ owed' = SelectSeq(accepted, LAMBDA o : o.id \notin ids \cup doomed)
           /\ stray' = IF poisoned' # {} THEN {}
                       ELSE stray \cup {id \in ids : \A i \in 1..Len(accepted) : accepted[i].id # id}
           /\ silent' = (silent \/ \E a \in answers, i \in 1..Len(accepted) :
                           a.trans_id = accepted[i].id /\ accepted[i].misaligned /\ ~a.ex)

(***************************************************************************)
(* One clock cycle.  req is the request of the issue stage, flush, hit,    *)
(* fault, wb_not_ni and commit_tran_id are as in LoadUnit, r is the reply  *)
(* of the cache; the oldest stores of the queues commit and drain; an AMO  *)
(* is at commit and is acknowledged.  dtlb_hit_q is only looked at with    *)
(* lsu_req_q and is kept only then.                                        *)
(***************************************************************************)
Cycle(req, flush, hit, fault, wb_not_ni, commit_tran_id, r, commit, drain, amo_commit, ack) ==
  LET ctrl == Byp!lsu_ctrl_o(req)
      ex == mmu_exception(fault)
      p0 == [kill_req |-> Ld!kill_req(ex), tag_valid |-> Ld!tag_valid, tag |-> lsu_addr_q.owner,
             index |-> ctrl.trans_id, data_id |-> 0]
      l0 == [valid |-> ctrl.valid /\ ctrl.fu = "LOAD", ctrl |-> ctrl, ex |-> ex, hit |-> hit,
             ni |-> page_ni(ctrl), match |-> page_offset_matches(ctrl),
             st_empty |-> store_buffer_empty, wb_not_ni |-> wb_not_ni,
             commit_tran_id |-> commit_tran_id, flush |-> flush,
             gnt |-> FALSE, rvalid |-> Dc!data_rvalid(p0, r), rid |-> id_q]
      data_req == Ld!data_req(l0)
      port == [p0 EXCEPT !.data_id = Ld!ldbuf_windex(l0)]
      ld == [l0 EXCEPT !.gnt = Dc!data_gnt(port, r, data_req)]
      s0 == [valid |-> ctrl.valid /\ ctrl.fu = "STORE", ctrl |-> ctrl, ex |-> ex, hit |-> hit,
             flush |-> flush, amo_valid_commit |-> amo_commit, ack |-> ack, st_buffer_ready |-> FALSE]
      queue == speculative_queue_n(St!store_buffer_valid(s0), commit, flush)
      st == [s0 EXCEPT !.st_buffer_ready = Len(queue) < DEPTH_SPEC \/ commit]
      translation_req == CASE ctrl.fu = "LOAD" -> Ld!translation_req_o(ld)
                           [] ctrl.fu = "STORE" -> St!translation_req_o(st)
                           [] OTHER -> FALSE
  IN  /\ Byp!Cycle(req, Ld!pop_ld_o(ld), St!pop_st_o(st), flush)
      /\ Ld!Cycle(ld)
      /\ St!Cycle(st)
      /\ Dc!Cycle(port, r, data_req)
      /\ speculative_queue' = queue
      /\ commit_queue' = commit_queue_n(commit, drain)
      /\ lsu_req_q' = translation_req
      /\ lsu_addr_q' = lsu_addr_n(ctrl, translation_req)
      /\ dtlb_hit_q' = (Translation /\ hit /\ translation_req)
      /\ misaligned_ex_q' = misaligned_ex_n(ctrl, translation_req)
      /\ ptw_active' = (Translation /\ ~flush /\ ~hit /\ (translation_req \/ (ptw_active /\ ~fault)))
      /\ lsu_ready_q' = (Byp!ready_o /\ ~flush)
      /\ History(req, flush, Ld!rvalid_output(ld) \cup St!Answer(st),
                 st_state_q = "VALID_STORE" /\ ex)

(***************************************************************************)
(* The neighbours.  The issue stage sends a request in the cycle after it  *)
(* saw ready_o, under an id that is not in use.  The oldest instruction is *)
(* at commit only when the stores before it have committed, and never      *)
(* behind a store that failed.  A store commits while the commit queue has *)
(* room and never with a flush; an AMO is at commit when the stores before *)
(* it are, and is only flushed when it retires.                            *)
(***************************************************************************)

Requests ==
  {Nothing} \cup (IF lsu_ready_q THEN {Request(k, id) : k \in Kinds, id \in Ids \ (OwedIds \cup poisoned)} ELSE {})

(* A verdict matters while a unit looks at it. *)
Faults ==
  IF /\ translating
     /\ \/ StoresFault /\ st_state_q # "IDLE"
        \/ st_state_q = "IDLE" /\ ld_state_q \in {"SEND_TAG", "WAIT_TRANSLATION"}
  THEN BOOLEAN ELSE {FALSE}

(* Nobody looks at the hit in the cycle of a flush. *)
HitsWith(flush) == IF ~Translation THEN {TRUE} ELSE IF flush THEN {FALSE} ELSE BOOLEAN

NonIdempotentLoads == \E k \in Kinds : k.ni
MayCommit == speculative_queue # <<>> /\ Len(commit_queue) < DEPTH_COMMIT
MayCommitAmo == amo_valid /\ speculative_queue = <<>>
MayAck == St!amo_req(MayCommitAmo, commit_queue = <<>>)

OldestId(req) == IF owed = <<>> THEN req.trans_id ELSE owed[1].id

When(condition) == IF condition THEN BOOLEAN ELSE {FALSE}

Next ==
  \E req \in Requests, flush \in BOOLEAN : \E hit \in HitsWith(flush),
     fault \in Faults, wb_not_ni \in IF NonIdempotentLoads THEN BOOLEAN ELSE {TRUE},
     r \in Dc!Replies, commit \in When(MayCommit), drain \in When(commit_queue # <<>>),
     amo_commit \in When(MayCommitAmo), ack \in When(MayAck),
     oldest \in When(NonIdempotentLoads /\ speculative_queue = <<>> /\ poisoned = {}) :
    /\ ~(commit /\ flush)
    /\ ack => St!amo_req(amo_commit, commit_queue = <<>>)
    /\ amo_commit /\ flush => ack
    /\ Cycle(req, flush, hit, fault, wb_not_ni, IF oldest THEN OldestId(req) ELSE NoId,
             r, commit, drain, amo_commit, ack)

Spec == Init /\ [][Next]_vars

(* A cycle in which the neighbours ask for nothing new and do what they    *)
(* can for what is there.                                                  *)
Calm ==
  \E r \in {q \in Dc!Replies : q.rd_ack \/ q.miss_ack \/ q.miss_rtrn_vld} :
    /\ ~r.wr_cl_vld
    /\ Cycle(Nothing, FALSE, TRUE, FALSE, TRUE, OldestId(Nothing), r, MayCommit,
             commit_queue # <<>>, MayCommitAmo, MayAck)

(* The clock goes on. *)
FairSpec == Spec /\ WF_vars(Calm)

(***************************************************************************)
(* Properties.                                                             *)
(***************************************************************************)

(* Whatever is answered was asked for and not answered before: a load that *)
(* is killed and retried, flushed while the cache works on it, or refused  *)
(* by the MMU in the cycle another load returns, never comes back under an *)
(* id that is free or belongs to somebody else.                            *)
AnswersAreOwed == stray = {}

QueuedIds == {mem_q[i].trans_id : i \in {j \in 0..1 : status_cnt_q # 0 /\ mem_q[j].valid}}
LoadingIds == {ldbuf[i].trans_id : i \in {j \in Ld!Entries : ldbuf[j].valid /\ ~ldbuf[j].flushed}}

(* A request that is owed an answer is in the LSU control, in the load     *)
(* buffer or with the store unit, so it cannot get lost when the two units *)
(* pop the shared queue, or when a store fails that is older or younger.   *)
RequestsAreHeld ==
  OwedIds \subseteq QueuedIds \cup LoadingIds \cup {trans_id_q}

(* One translation port serves both units, and its answer comes a cycle    *)
(* after the question: the tag that is sent, and the address under which a *)
(* store is posted, are those of the load or store that goes with them.    *)
TranslationIsOwn ==
  poisoned = {} =>
    /\ ld_state_q = "SEND_TAG" => lsu_addr_q.owner = ldbuf[ldbuf_last_id_q].trans_id
    /\ st_state_q = "VALID_STORE" => lsu_addr_q.owner = trans_id_q

(* The cache works for exactly the entries of the load buffer, also after  *)
(* loads were killed: an entry is freed when its answer comes, killed or   *)
(* not, and no answer arrives for an entry that is free.                   *)
LoadBufferMatchesCache ==
  {i \in Ld!Entries : ldbuf[i].valid} =
    IF dc_state_q \in {"IDLE", "KILL_MISS", "KILL_MISS_ACK"} THEN {} ELSE {id_q}

(* A load is sent only when no older store to its page offset is on its    *)
(* way to the cache, also if it was checked cycles before it is sent.      *)
LoadsWaitForStores ==
  poisoned = {} /\ ld_state_q = "SEND_TAG" =>
    lsu_addr_q.ofs \notin Offsets(speculative_queue) \cup Offsets(commit_queue)

(* A load from a non-idempotent page is sent when it is the oldest         *)
(* instruction and every store has left the store buffer; until then it is *)
(* aborted and tried again.                                                *)
NonIdempotentOldest ==
  ld_state_q = "SEND_TAG" /\ lsu_addr_q.ni /\ NonIdemPotenceEn =>
    owed # <<>> /\ owed[1].id = lsu_addr_q.owner /\ store_buffer_empty

(* A store or AMO is posted a cycle after there was room for it, and the   *)
(* room is still there.                                                    *)
RoomWhenPosted ==
  st_state_q = "VALID_STORE" =>
    IF is_amo_q THEN ~amo_valid ELSE Len(speculative_queue) < DEPTH_SPEC

(* core/load_store_unit.sv:702: the misaligned exception "is passed to the *)
(* functional unit via the MMU": a misaligned request is never answered    *)
(* without an exception.                                                   *)
MisalignedIsReported == ~silent

(* When the neighbours ask for nothing more and do their part, every       *)
(* request is answered: no mix of waiting states, aborted loads and full   *)
(* buffers leaves the two units waiting for each other.                    *)
EverythingIsAnswered == <>[][Calm]_vars => []<>(owed = <<>>)
=============================================================================
