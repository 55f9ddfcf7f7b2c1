---------------------------- MODULE CommitStage ----------------------------
(***************************************************************************)
(* The commit stage (core/commit_stage.sv), which has no state: what it    *)
(* acknowledges, starts and raises in a cycle.  in collects its inputs:    *)
(* the scoreboard entries instr of the commit ports, halt, flush_dcache,   *)
(* single_step, csr_exception, commit_lsu_ready, no_st_pending, amo_ack.   *)
(* An operation is an AMO, a fence, a return from a trap (RET) or "".      *)
(***************************************************************************)
EXTENDS Integers

CONSTANTS NrCommitPorts, WriteBackCache

is_amo(e) == e.instr.op = "AMO"
Fences == {"FENCE", "FENCE_I", "SFENCE_VMA", "HFENCE"}

First(in) == in.instr[0]

(* The first port retires an instruction without exception; keeps says it  *)
(* is not a cancelled one that is dropped.                                 *)
commits(in) == First(in).valid /\ ~in.halt /\ ~First(in).ex

keeps(in) == commits(in) /\ ~First(in).cancelled

(* A flush of the data cache makes the next instruction a FENCE.I. *)
acts_as_fence_i(in) ==
  \/ First(in).instr.op = "FENCE_I"
  \/ in.flush_dcache /\ WriteBackCache /\ First(in).instr.fu # "STORE"

fences(in) == First(in).instr.op \in Fences \/ acts_as_fence_i(in)

is_store(in) == First(in).instr.fu = "STORE" /\ ~is_amo(First(in))

(* A later assignment of the process overrides an earlier one: the AMO     *)
(* before the fences before the CSR access before the store.               *)
commit_ack_0(in) ==
  \/ First(in).valid /\ ~in.halt /\ First(in).ex /\ First(in).cancelled
  \/ /\ commits(in)
     /\ IF is_amo(First(in)) THEN in.amo_ack
        ELSE IF keeps(in) /\ fences(in) THEN in.no_st_pending
        ELSE IF keeps(in) /\ First(in).instr.fu = "CSR" THEN ~in.csr_exception
        ELSE is_store(in) => in.commit_lsu_ready

(* Fault: a second instruction retires beside one that flushes. *)
commit_ack_1_any(in) ==
  /\ NrCommitPorts = 2
  /\ commit_ack_0(in) /\ in.instr[1].valid /\ ~in.instr[1].ex
  /\ ~in.halt /\ ~in.flush_dcache /\ ~in.single_step
  /\ in.instr[1].instr.fu \in {"ALU", "LOAD", "CTRL_FLOW", "MULT", "FPU", "FPU_VEC"}

commit_ack_1(in) ==
  /\ NrCommitPorts = 2
  /\ commit_ack_0(in) /\ in.instr[1].valid /\ ~in.instr[1].ex
  /\ ~in.halt /\ ~in.flush_dcache /\ ~in.single_step
  /\ First(in).instr.fu # "CSR" /\ ~is_amo(First(in))
  /\ in.instr[1].instr.fu \in {"ALU", "LOAD", "CTRL_FLOW", "MULT", "FPU", "FPU_VEC"}

commit_ack(c, in) == IF c = 0 THEN commit_ack_0(in) ELSE commit_ack_1(in)

(* Fault: a CSR access that traps writes its destination. *)
we_gpr_trapping(c, in) ==
  IF c = 1 THEN commit_ack_1(in) /\ ~in.instr[1].cancelled
  ELSE IF commits(in) /\ is_amo(First(in)) THEN in.amo_ack
  ELSE keeps(in)

(* The ports that write the register file. *)
we_gpr(c, in) ==
  IF c = 1 THEN commit_ack_1(in) /\ ~in.instr[1].cancelled
  ELSE IF commits(in) /\ is_amo(First(in)) THEN in.amo_ack
  ELSE keeps(in) /\ (First(in).instr.fu = "CSR" => ~in.csr_exception)

(* Fault: an AMO commits a store, too. *)
commit_lsu_amo(in) == commits(in) /\ First(in).instr.fu = "STORE" /\ in.commit_lsu_ready

commit_lsu(in) == commits(in) /\ is_store(in) /\ in.commit_lsu_ready
commit_csr(in) == keeps(in) /\ First(in).instr.fu = "CSR" /\ ~in.csr_exception
amo_valid_commit(in) == commits(in) /\ is_amo(First(in))
flush_commit(in) == amo_valid_commit(in) /\ in.amo_ack

fence(in) == keeps(in) /\ First(in).instr.op = "FENCE" /\ in.no_st_pending
fence_i(in) == keeps(in) /\ acts_as_fence_i(in) /\ in.no_st_pending
fence_vma(in) == keeps(in) /\ First(in).instr.op \in {"SFENCE_VMA", "HFENCE"} /\ in.no_st_pending

exception(in) ==
  /\ First(in).valid /\ ~First(in).cancelled /\ ~in.halt
  /\ in.csr_exception \/ First(in).ex
============================================================================
