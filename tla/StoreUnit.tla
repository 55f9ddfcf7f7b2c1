----------------------------- MODULE StoreUnit -----------------------------
(***************************************************************************)
(* The store unit (core/store_unit.sv) with its AMO buffer                 *)
(* (core/amo_buffer.sv, a FIFO of one): the state machine that takes       *)
(* stores and atomic operations from the LSU control, waits for the        *)
(* translation and for room, and posts them to the store buffer or to the  *)
(* AMO buffer one cycle after their address was translated.                *)
(*                                                                         *)
(* The inputs of a cycle are a record in: valid and ctrl are the request   *)
(* presented, ex and hit come from the MMU, st_buffer_ready from the store *)
(* buffer, amo_valid_commit from the commit stage, ack from the cache.     *)
(***************************************************************************)
CONSTANTS MmuPresent, NoId

VARIABLES state_q, trans_id_q, is_amo_q, amo_valid

store_vars == <<state_q, trans_id_q, is_amo_q, amo_valid>>

States == {"IDLE", "VALID_STORE", "WAIT_TRANSLATION", "WAIT_STORE_READY"}

Init ==
  /\ state_q = "IDLE"
  /\ trans_id_q = NoId
  /\ is_amo_q = FALSE
  /\ amo_valid = FALSE

st_ready(in) == in.st_buffer_ready /\ ~amo_valid

(* Fault: an AMO follows at once although the AMO buffer has depth 1. *)
Takes_amo(in) == in.valid /\ state_q \in {"IDLE", "VALID_STORE"}

(* A new request is looked at: behind another one only if it is no AMO.    *)
Takes(in) ==
  /\ in.valid
  /\ state_q = "IDLE" \/ (state_q = "VALID_STORE" /\ ~in.ctrl.amo)

translation_req_o(in) == Takes(in) \/ state_q \in {"WAIT_STORE_READY", "WAIT_TRANSLATION"}

Excepts(in) == in.ex /\ state_q # "IDLE"

valid_o(in) == state_q = "VALID_STORE" \/ Excepts(in)

(* The answer: {} or the request of the cycle before.                      *)
Answer(in) ==
  IF valid_o(in) THEN {[trans_id |-> trans_id_q, ex |-> in.ex]} ELSE {}

st_valid(in) == state_q = "VALID_STORE" /\ ~in.flush /\ ~Excepts(in)

store_buffer_valid(in) == st_valid(in) /\ ~is_amo_q
amo_buffer_valid(in) == st_valid(in) /\ is_amo_q

pop_st_o(in) ==
  \/ Takes(in) /\ (in.hit \/ ~MmuPresent) /\ st_ready(in)
  \/ Excepts(in)

state_d(in) ==
  IF in.flush \/ Excepts(in) THEN "IDLE"
  ELSE IF Takes(in) THEN
         IF ~st_ready(in) THEN "WAIT_STORE_READY"
         ELSE IF MmuPresent /\ ~in.hit THEN "WAIT_TRANSLATION"
         ELSE "VALID_STORE"
  ELSE IF \/ state_q = "VALID_STORE"
          \/ state_q = "WAIT_STORE_READY" /\ st_ready(in) /\ in.hit
          \/ state_q = "WAIT_TRANSLATION" /\ in.hit
       THEN "IDLE"
  ELSE state_q

(* The AMO buffer sends its request when the AMO is at commit and all      *)
(* stores have drained.                                                    *)
amo_req(amo_valid_commit, no_st_pending) == no_st_pending /\ amo_valid_commit /\ amo_valid

flush_amo_buffer(in) == in.flush /\ ~in.amo_valid_commit

amo_valid_n(in) ==
  /\ ~flush_amo_buffer(in)
  /\ IF amo_valid THEN ~in.ack ELSE amo_buffer_valid(in)

(* trans_id_q and is_amo_q are only read while a request is under way, and *)
(* are reset otherwise.                                                    *)
Cycle(in) ==
  LET next == state_d(in) IN
  /\ state_q' = next
  /\ trans_id_q' = IF next = "IDLE" THEN NoId ELSE in.ctrl.trans_id
  /\ is_amo_q' = (next # "IDLE" /\ in.ctrl.amo)
  /\ amo_valid' = amo_valid_n(in)
=============================================================================
