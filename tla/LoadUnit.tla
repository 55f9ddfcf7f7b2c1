------------------------------ MODULE LoadUnit ------------------------------
(***************************************************************************)
(* The load unit (core/load_unit.sv): the state machine that sends loads   *)
(* to the data cache, first the index and a cycle later the tag, and the   *)
(* buffer that remembers the outstanding ones until the cache answers.     *)
(*                                                                         *)
(* The inputs of a cycle are a record in: valid and ctrl are the request   *)
(* the LSU control presents, ex and hit come from the MMU, ni is the       *)
(* attribute of its physical page, match is the address check of the store *)
(* buffer, st_empty and wb_not_ni say that no store is in the store buffer *)
(* and no non-idempotent one in the write buffer, commit_tran_id names the *)
(* instruction at commit, gnt, rvalid and rid come from the cache.         *)
(***************************************************************************)
EXTENDS Naturals, FiniteSetsExt

CONSTANTS NrLoadBufEntries, MmuPresent, NonIdemPotenceEn,
          NoId   \* the transaction id of the all-zero request

VARIABLES state_q, ldbuf, ldbuf_last_id_q

load_vars == <<state_q, ldbuf, ldbuf_last_id_q>>

States == {"IDLE", "WAIT_GNT", "SEND_TAG", "WAIT_PAGE_OFFSET", "ABORT_TRANSACTION",
           "ABORT_TRANSACTION_NI", "WAIT_TRANSLATION", "WAIT_FLUSH", "WAIT_WB_EMPTY"}
Entries == 0..(NrLoadBufEntries - 1)
FreeEntry == [valid |-> FALSE, flushed |-> FALSE, trans_id |-> NoId]

LDBUF_FALLTHROUGH == NrLoadBufEntries = 1

Init ==
  /\ state_q = "IDLE"
  /\ ldbuf = [i \in Entries |-> FreeEntry]
  /\ ldbuf_last_id_q = 0

ldbuf_full == \A i \in Entries : ldbuf[i].valid

(* The first free entry; the leading zero counter gives 0 if there is none.*)
ldbuf_free_index ==
  IF ldbuf_full THEN 0 ELSE Min({i \in Entries : ~ldbuf[i].valid})

ldbuf_windex(in) == IF LDBUF_FALLTHROUGH /\ in.rvalid THEN in.rid ELSE ldbuf_free_index

accept_req(in) == in.valid /\ (~ldbuf_full \/ (LDBUF_FALLTHROUGH /\ in.rvalid))

(* Fault: a non-idempotent load may leave before it is the oldest. *)
stall_ni_early(in) == (~in.wb_not_ni \/ ~in.st_empty) /\ in.ni /\ NonIdemPotenceEn

stall_ni(in) ==
  /\ \/ ~in.wb_not_ni \/ ~in.st_empty
     \/ in.commit_tran_id # in.ctrl.trans_id
  /\ in.ni /\ NonIdemPotenceEn

tag_valid == state_q \in {"SEND_TAG", "WAIT_FLUSH", "ABORT_TRANSACTION", "ABORT_TRANSACTION_NI"}

kill_req(ex) ==
  \/ state_q \in {"WAIT_FLUSH", "ABORT_TRANSACTION", "ABORT_TRANSACTION_NI"}
  \/ state_q = "SEND_TAG" /\ ex

(* IDLE and SEND_TAG take a new load.                                      *)
Starts(in) == state_q \in {"IDLE", "SEND_TAG"} /\ accept_req(in)

data_req(in) == (Starts(in) /\ ~in.match) \/ state_q = "WAIT_GNT"

translation_req_o(in) == Starts(in) \/ state_q \in {"WAIT_GNT", "WAIT_TRANSLATION"}

(* The state after a grant: the tag follows in the next cycle, unless the  *)
(* translation is missing or the load has to wait.                         *)
Granted(in) ==
  IF MmuPresent /\ ~in.hit THEN "ABORT_TRANSACTION"
  ELSE IF stall_ni(in) THEN "ABORT_TRANSACTION_NI"
  ELSE "SEND_TAG"

state_d(in) ==
  IF in.flush THEN "WAIT_FLUSH"
  ELSE CASE state_q \in {"IDLE", "SEND_TAG"} ->
         IF ~accept_req(in) THEN "IDLE"
         ELSE IF in.match THEN "WAIT_PAGE_OFFSET"
         ELSE IF in.gnt THEN Granted(in) ELSE "WAIT_GNT"
    [] state_q = "WAIT_PAGE_OFFSET" -> IF in.match THEN state_q ELSE "WAIT_GNT"
    [] state_q = "WAIT_GNT" -> IF in.gnt THEN Granted(in) ELSE state_q
    [] state_q = "ABORT_TRANSACTION" -> "WAIT_TRANSLATION"
    [] state_q = "ABORT_TRANSACTION_NI" -> "WAIT_WB_EMPTY"
    [] state_q = "WAIT_WB_EMPTY" -> IF in.wb_not_ni THEN "WAIT_TRANSLATION" ELSE "IDLE"
    [] state_q = "WAIT_TRANSLATION" ->
         IF in.ex THEN "IDLE" ELSE IF in.hit THEN "WAIT_GNT" ELSE state_q
    [] state_q = "WAIT_FLUSH" -> "IDLE"

pop_ld_o(in) ==
  \/ data_req(in) /\ in.gnt /\ Granted(in) = "SEND_TAG"
  \/ state_q = "WAIT_TRANSLATION" /\ in.ex /\ ~in.rvalid

(* Fault: the answer to a killed request is taken for a result. *)
rvalid_output_killed(in) ==
  LET e == ldbuf[in.rid]
      excepts == in.ex /\ state_q = "SEND_TAG"
  IN  IF in.rvalid /\ ~e.flushed THEN {[trans_id |-> e.trans_id, ex |-> excepts]}
      ELSE IF state_q = "WAIT_TRANSLATION" /\ ~in.rvalid /\ in.ex /\ in.valid
      THEN {[trans_id |-> in.ctrl.trans_id, ex |-> TRUE]}
      ELSE {}

(* What is written back: {} or one answer.  A translation that failed      *)
(* before the load was sent is reported when no answer of the cache needs  *)
(* the port.                                                               *)
rvalid_output(in) ==
  LET e == ldbuf[in.rid]
      excepts == in.ex /\ state_q = "SEND_TAG"
      kept == ldbuf_last_id_q # in.rid \/ ~kill_req(in.ex)
  IN  IF in.rvalid /\ ~e.flushed /\ (kept \/ excepts)
      THEN {[trans_id |-> e.trans_id, ex |-> excepts]}
      ELSE IF state_q = "WAIT_TRANSLATION" /\ ~in.rvalid /\ in.ex /\ in.valid
      THEN {[trans_id |-> in.ctrl.trans_id, ex |-> TRUE]}
      ELSE {}

ldbuf_w(in) == data_req(in) /\ in.gnt

(* The next value of an entry.  The fields of a free entry are never read  *)
(* and are reset here.                                                     *)
ldbuf_comb(i, in) ==
  IF ldbuf_w(in) /\ i = ldbuf_windex(in)
  THEN [valid |-> TRUE, flushed |-> FALSE, trans_id |-> in.ctrl.trans_id]
  ELSE IF (in.rvalid /\ i = in.rid) \/ ~ldbuf[i].valid THEN FreeEntry
  ELSE [ldbuf[i] EXCEPT !.flushed = @ \/ in.flush]

Cycle(in) ==
  /\ state_q' = state_d(in)
  /\ ldbuf' = [i \in Entries |-> ldbuf_comb(i, in)]
  /\ ldbuf_last_id_q' = IF ldbuf_w(in) THEN ldbuf_windex(in) ELSE ldbuf_last_id_q
=============================================================================
