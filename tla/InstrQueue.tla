----------------------------- MODULE InstrQueue -----------------------------
(***************************************************************************)
(* The instruction queue between fetch and decode                          *)
(* (core/frontend/instr_queue.sv), with compressed instructions: one FIFO  *)
(* per slot of a fetch, filled and emptied in rotation, a FIFO of the      *)
(* predicted addresses of the control flow instructions in them, and the   *)
(* address of the next instruction, which is counted, not stored.          *)
(***************************************************************************)
EXTENDS InstrRealign, FiniteSets, FiniteSetsExt

CONSTANTS FETCH_FIFO_DEPTH, FETCH_ADDR_FIFO_DEPTH

VARIABLES build,           \* the build and the program, see Frontend
          instr_fifo, address_fifo,
          idx_is_q,        \* the FIFO the next instruction goes to
          idx_ds_q,        \* the FIFO the next instruction comes from
          pc_q, reset_address_q

queue_vars == <<instr_fifo, address_fifo, idx_is_q, idx_ds_q, pc_q, reset_address_q>>

INSTR_PER_FETCH == build.n
Fifos == 0 .. INSTR_PER_FETCH - 1

(* Addresses wrap at the end of the address space.                         *)
Address(a) == a % build.size

QueueInit ==
  /\ instr_fifo = [i \in Fifos |-> <<>>]
  /\ address_fifo = <<>>
  /\ idx_is_q = 0 /\ idx_ds_q = 0
  /\ pc_q = 0 /\ reset_address_q = TRUE

instr_queue_full(i) == Len(instr_fifo[i]) = FETCH_FIFO_DEPTH
full_address == Len(address_fifo) = FETCH_ADDR_FIFO_DEPTH

ready_o == (\A i \in Fifos : ~instr_queue_full(i)) /\ ~full_address

(* Input.  slots are the instructions of the fetch with their cf, cut      *)
(* behind the first one that is predicted taken.                           *)
fifo_pos(j) == (idx_is_q + (j - 1)) % INSTR_PER_FETCH
push_instr(slots) == {j \in DOMAIN slots : ~instr_queue_full(fifo_pos(j))}
push_address(slots) == \E j \in push_instr(slots) : slots[j].cf # "NoCF"
address_overflow(slots) == full_address /\ push_address(slots)

(* Fault: instructions are saved although their address is not. *)
push_instr_fifo_always(slots) == push_instr(slots)

push_instr_fifo(slots) == IF address_overflow(slots) THEN {} ELSE push_instr(slots)
shamt(slots) == Cardinality(push_instr_fifo(slots)) % INSTR_PER_FETCH

replay_o(slots) == push_instr(slots) # DOMAIN slots \/ address_overflow(slots)


replay_addr_o(slots) ==
  IF address_overflow(slots) THEN slots[1].addr ELSE slots[shamt(slots) + 1].addr

(* Output: port p of the decode stage sees the p-th next instruction.      *)
Ports == 0 .. build.ports - 1
idx_ds(p) == (idx_ds_q + p) % INSTR_PER_FETCH
waiting(p) == instr_fifo[idx_ds(p)] # <<>>
instr_data_out(p) ==
  IF waiting(p) THEN Head(instr_fifo[idx_ds(p)])
  ELSE [instr |-> Instr(Zeros, Zeros), cf |-> "NoCF", ex |-> FALSE, ex_vaddr |-> 0]
fetch_entry_is_cf(p) == instr_data_out(p).cf # "NoCF"

fetch_entry_valid_o(p) ==
  IF p = 0 THEN \E i \in Fifos : instr_fifo[i] # <<>>
  ELSE waiting(p) /\ ~(\A q \in Ports : fetch_entry_is_cf(q))

address_out == IF address_fifo = <<>> THEN 0 ELSE Head(address_fifo)

Size(instr) == IF instr.lo.long THEN 2 ELSE 1

pc_j[p \in 0 .. 2] ==
  IF p = 0 THEN pc_q
  ELSE IF fetch_entry_is_cf(p - 1) THEN address_out
  ELSE Address(pc_j[p - 1] + Size(instr_data_out(p - 1).instr))

fetch_entry_o(p) ==
  LET out == instr_data_out(p)
  IN  [address |-> pc_j[p], instr |-> out.instr, cf |-> out.cf, ex |-> out.ex,
       ex_vaddr |-> out.ex_vaddr, predict_address |-> address_out]

(* The next address: fire instructions were taken, or the first fetch      *)
(* after a flush is here.                                                  *)
pc_d(slots, fire) == IF slots # <<>> /\ reset_address_q THEN slots[1].addr ELSE pc_j[fire]

(* Fault: the FIFO of addresses is not flushed. *)
QueueFlush_instr ==
  /\ instr_fifo' = [i \in Fifos |-> <<>>]
  /\ UNCHANGED address_fifo
  /\ idx_is_q' = 0 /\ idx_ds_q' = 0
  /\ reset_address_q' = TRUE

QueueFlush ==
  /\ instr_fifo' = [i \in Fifos |-> <<>>]
  /\ address_fifo' = <<>>
  /\ idx_is_q' = 0 /\ idx_ds_q' = 0
  /\ reset_address_q' = TRUE

QueueCycle(slots, f, predict_address, fire, flush) ==
  LET pushed == push_instr_fifo(slots)
      into(i) == {j \in pushed : fifo_pos(j) = i}
      data_in(j) == [instr |-> slots[j].instr, cf |-> slots[j].cf,
                     ex |-> f.ex, ex_vaddr |-> IF f.ex THEN f.vaddr ELSE 0]
      popped(i) == \E p \in 0 .. fire - 1 : idx_ds(p) = i
      kept(i) == IF popped(i) /\ instr_fifo[i] # <<>> THEN Tail(instr_fifo[i]) ELSE instr_fifo[i]
      pop_address == \E p \in 0 .. fire - 1 : fetch_entry_is_cf(p)
  IN
  /\ pc_q' = pc_d(slots, fire)
  /\ IF flush THEN QueueFlush
     ELSE /\ instr_fifo' = [i \in Fifos |->
               kept(i) \o OneIf(into(i) # {}, data_in(Min(into(i))))]
          /\ address_fifo' =
               (IF pop_address /\ address_fifo # <<>> THEN Tail(address_fifo) ELSE address_fifo)
               \o OneIf(push_address(slots) /\ ~full_address, predict_address)
          /\ idx_is_q' = (idx_is_q + shamt(slots)) % INSTR_PER_FETCH
          /\ idx_ds_q' = idx_ds(fire)
          /\ reset_address_q' = (reset_address_q /\ slots = <<>>)
=============================================================================
