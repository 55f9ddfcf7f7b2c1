----------------------------- MODULE LsuBypass -----------------------------
(***************************************************************************)
(* The LSU control (core/lsu_bypass.sv): a FIFO of two requests between    *)
(* the issue stage, which registers its outputs and so may send one more   *)
(* request after it last saw ready, and the load and the store unit.  An   *)
(* empty FIFO is bypassed.  The counter is two bits wide and the pointers  *)
(* one bit.                                                                *)
(***************************************************************************)
EXTENDS Naturals

CONSTANTS Nothing   \* the all-zero request, whose valid flag is clear

VARIABLES mem_q, read_pointer_q, write_pointer_q, status_cnt_q

bypass_vars == <<mem_q, read_pointer_q, write_pointer_q, status_cnt_q>>

Init ==
  /\ mem_q = [i \in 0..1 |-> Nothing]
  /\ read_pointer_q = 0
  /\ write_pointer_q = 0
  /\ status_cnt_q = 0

empty == status_cnt_q = 0

(* Fault: ready while there is room for one more request. *)
ready_o_late == status_cnt_q < 2

ready_o == empty

lsu_ctrl_o(lsu_req_i) == IF empty THEN lsu_req_i ELSE mem_q[read_pointer_q]

(* A request is written, and invalidated again if it leaves at once.       *)
mem_n(lsu_req_i, pop_ld, pop_st) ==
  LET written == IF lsu_req_i.valid THEN [mem_q EXCEPT ![write_pointer_q] = lsu_req_i]
                 ELSE mem_q
  IN  IF pop_ld /\ pop_st THEN [i \in 0..1 |-> Nothing]
      ELSE IF pop_ld \/ pop_st THEN [written EXCEPT ![read_pointer_q].valid = FALSE]
      ELSE written

Cycle(lsu_req_i, pop_ld, pop_st, flush) ==
  LET one(b) == IF b THEN 1 ELSE 0
      pushed == one(lsu_req_i.valid)
      popped == one(pop_ld) + one(pop_st)
  IN  /\ mem_q' = IF flush THEN [i \in 0..1 |-> Nothing] ELSE mem_n(lsu_req_i, pop_ld, pop_st)
      /\ read_pointer_q' = IF flush THEN 0 ELSE (read_pointer_q + popped) % 2
      /\ write_pointer_q' = IF flush THEN 0 ELSE (write_pointer_q + pushed) % 2
      /\ status_cnt_q' = IF flush THEN 0 ELSE (status_cnt_q + pushed + 4 - popped) % 4
=============================================================================
