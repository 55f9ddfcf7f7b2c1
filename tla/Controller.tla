----------------------------- MODULE Controller -----------------------------
(***************************************************************************)
(* The controller (core/controller.sv): which stages are flushed and where *)
(* fetching goes on, and the flush of the data cache that a fence starts.  *)
(* in collects its inputs: mispredict, fence, fence_i, fence_vma,          *)
(* flush_csr, flush_commit, ex_valid, eret, halt_csr, flush_dcache_ack.    *)
(***************************************************************************)
CONSTANT DcacheFlushOnFence

VARIABLES fence_active, flush_dcache_o

(* Instructions with side effects on what has been fetched already. *)
restart(in) == in.fence \/ in.fence_i \/ in.fence_vma \/ in.flush_csr \/ in.flush_commit
trap(in) == in.ex_valid \/ in.eret

flush_id(in) == restart(in) \/ trap(in)
flush_ex(in) == flush_id(in)
flush_unissued_instr(in) == in.mispredict \/ flush_id(in)
set_pc_commit(in) == restart(in) /\ ~trap(in)

starts_flush(in) == DcacheFlushOnFence /\ (in.fence \/ in.fence_i)
acknowledged(in) == DcacheFlushOnFence /\ fence_active /\ in.flush_dcache_ack

(* Fault: the core goes on before the data cache has acknowledged. *)
halt_o_csr(in) == in.halt_csr

halt_o(in) == in.halt_csr \/ (DcacheFlushOnFence /\ fence_active)

Init == fence_active = FALSE /\ flush_dcache_o = FALSE

Cycle(in) ==
  /\ fence_active' = ((fence_active \/ starts_flush(in)) /\ ~acknowledged(in))
  /\ flush_dcache_o' = (starts_flush(in) \/ (DcacheFlushOnFence /\ fence_active /\ ~acknowledged(in)))
=============================================================================
