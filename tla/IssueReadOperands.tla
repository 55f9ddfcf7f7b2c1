------------------------- MODULE IssueReadOperands -------------------------
(***************************************************************************)
(* The issue stage (core/issue_read_operands.sv) without floating point    *)
(* and without offloading: the hazards that hold an instruction back,      *)
(* where its operands come from, and the registers that start the          *)
(* functional units in the next cycle.  in collects the inputs of a cycle: *)
(* decoded and sources (the registers read as rs1 or rs2) of the ports,    *)
(* flu_ready, lsu_ready, the write backs wb in flight, each with its port, *)
(* the registers we that commit writes, and flush_unissued.                *)
(***************************************************************************)
EXTENDS Integers, FiniteSets

CONSTANTS NR_SB_ENTRIES, NrIssuePorts, NrCommitPorts, SpeculativeSb, Instrs,
  OutOfRangeWraps

VARIABLES mem, commit_pointer, issue_pointer,
  fu_q   \* for each issue port the unit it starts, the operation and the transaction

Sb == INSTANCE Scoreboard

IssuePorts == Sb!IssuePorts
Slots == Sb!Slots

SuperscalarEn == NrIssuePorts = 2

(* The units of the fixed latency bus that answer in one cycle. *)
OneCycle == {"alu", "ctrl_flow", "csr"}
Units == OneCycle \cup {"alu2", "mult", "load", "store", "none"}

Idle == [unit |-> "none", op |-> "", id |-> 0]
mult_valid_q == \E p \in IssuePorts : fu_q[p].unit = "mult"

(* Fault: the cycle that a multiplication takes is not kept free. *)
busy_without_mult(in) ==
  (IF in.flu_ready THEN {} ELSE OneCycle \cup {"mult"})
    \cup (IF in.lsu_ready THEN {} ELSE {"load", "store"})

busy(in) ==
  (IF in.flu_ready THEN {} ELSE OneCycle \cup {"mult"})
    \cup (IF mult_valid_q THEN OneCycle ELSE {})
    \cup (IF in.lsu_ready THEN {} ELSE {"load", "store"})


(* What the instruction of the first port takes from the second.  Behind   *)
(* a branch neither a load, which may not be idempotent, nor a store, which *)
(* the store buffer could not drop alone.                                  *)
conflicts(d) ==
  CASE d.fu = "NONE" -> {"none"}
    [] d.fu = "CTRL_FLOW" ->
         IF SpeculativeSb THEN OneCycle \cup {"load", "store"}
         ELSE IF d.op = "ADD" THEN OneCycle ELSE Units
    [] d.fu = "ALU" -> {"alu2"}
    [] d.fu = "CSR" -> Units
    [] d.fu = "MULT" -> {"mult"}
    [] d.fu \in {"LOAD", "STORE"} -> {"load", "store"}
    [] OTHER -> {}

fus_busy(p, in) ==
  IF p = 0 THEN busy(in) ELSE busy(in) \cup {"csr"} \cup conflicts(in.decoded[0])

unit(p, in) ==
  LET fu == in.decoded[p].fu
  IN  CASE fu = "ALU" -> IF SuperscalarEn /\ "alu2" \notin fus_busy(p, in) THEN "alu2" ELSE "alu"
        [] fu = "CTRL_FLOW" -> "ctrl_flow"
        [] fu = "CSR" -> "csr"
        [] fu = "MULT" -> "mult"
        [] fu = "LOAD" -> "load"
        [] fu = "STORE" -> "store"
        [] OTHER -> "none"

fu_busy(p, in) == unit(p, in) \in fus_busy(p, in)

Least(S) == CHOOSE i \in S : \A j \in S : i <= j

(* The entries that will write register r; register 0 is always free.      *)
(* The arbiter takes the one with the lowest index.                        *)
Clobbers(r) == {i \in Slots : r # 0 /\ Sb!still_issued(i) /\ mem[i].rd = r}
rd_clobber(r) == IF Clobbers(r) = {} THEN "NONE" ELSE mem[Least(Clobbers(r))].instr.fu

(* Fault: an entry is forwarded before its result is there. *)
ForwardingEntries_early(r) == {i \in Slots : Sb!still_issued(i) /\ mem[i].rd = r}

(* The results that can be forwarded, write backs before entries. *)
ForwardingWb(r, in) ==
  {w \in in.wb : mem[w.id].rd = r /\ Sb!still_issued(w.id) /\ ~w.ex}
ForwardingEntries(r) == {i \in Slots : Sb!still_issued(i) /\ mem[i].valid /\ mem[i].rd = r}

rs_available(r, in) == ForwardingWb(r, in) # {} \/ ForwardingEntries(r) # {}
rs_has_raw(r) == rd_clobber(r) # "NONE"

(* The result of a CSR access is only known when it retires. *)
rs_valid(r, op, in) ==
  rs_available(r, in) /\ (rd_clobber(r) # "CSR" \/ op = "SFENCE_VMA")

(* Where an operand that has to be forwarded comes from: the entry, and    *)
(* the value it stands for.                                                *)
rs_res(r, in) ==
  LET wbs == ForwardingWb(r, in)
      first == CHOOSE w \in wbs : \A v \in wbs : w.port <= v.port
      entry == Least(ForwardingEntries(r))
  IN  IF wbs # {} THEN [id |-> first.id, result |-> first.result]
      ELSE [id |-> entry, result |-> mem[entry].result]

stall_raw(p, in) ==
  \/ \E r \in in.sources[p] : rs_has_raw(r) /\ ~rs_valid(r, in.decoded[p].op, in)
  \/ p = 1 /\ in.decoded[0].rd # 0 /\ in.decoded[0].rd \in in.sources[1]

stall_waw(p, in) ==
  \/ rd_clobber(in.decoded[p].rd) # "NONE" /\ in.decoded[p].rd \notin in.we
  \/ p = 1 /\ in.decoded[1].rd = in.decoded[0].rd /\ in.decoded[1].rd # 0

issue_instr_valid(p, in) == in.decoded[p] # Sb!Nothing /\ ~Sb!issue_full(p)

issue_ack_alone(p, in) ==
  /\ issue_instr_valid(p, in) /\ ~fu_busy(p, in)
  /\ in.decoded[p].ex \/ (~stall_raw(p, in) /\ ~stall_waw(p, in))

issue_ack(p, in) == \A q \in 0..p : issue_ack_alone(q, in)

(* Fault: a flush does not reach the registers that start the units. *)
start_n_unflushed(p, acked, in) ==
  IF p \in acked /\ ~in.decoded[p].ex
  THEN [unit |-> unit(p, in), op |-> in.decoded[p].op, id |-> Sb!issue_ptr(p)] ELSE Idle

(* The unit that port p starts in the next cycle. *)
start_n(p, acked, in) ==
  IF p \in acked /\ ~in.decoded[p].ex /\ ~in.flush_unissued
  THEN [unit |-> unit(p, in), op |-> in.decoded[p].op, id |-> Sb!issue_ptr(p)] ELSE Idle

Init == fu_q = [p \in IssuePorts |-> Idle]

Cycle(in) ==
  LET acked == {p \in IssuePorts : issue_ack(p, in)}
  IN  fu_q' = [p \in IssuePorts |-> start_n(p, acked, in)]
============================================================================
