-------------------------- MODULE FixedLatencyUnit --------------------------
(***************************************************************************)
(* The units that share the first write back port (core/ex_stage.sv,       *)
(* core/mult.sv, core/serdiv.sv, core/csr_buffer.sv): the ALU and the      *)
(* branch unit, which answer at once, the pipelined multiplier, the serial *)
(* divider and the buffer that keeps a CSR address until the access        *)
(* retires.  in collects the inputs of a cycle: flush, csr_commit, known   *)
(* (the result of the division needs no iteration) and cnt_zero (this is   *)
(* its last iteration).                                                    *)
(***************************************************************************)
EXTENDS Integers

CONSTANT NrIssuePorts

VARIABLES
  fu_q,      \* what the issue ports start
  mul,       \* output register of the multiplier: a set with a transaction or none
  div,       \* state of the divider and its transaction
  csr_reg    \* the CSR buffer: a set with a transaction or none

Ports == 0..(NrIssuePorts - 1)

Started(units) == {p \in Ports : fu_q[p].unit \in units}

one_cycle_select == Started({"alu", "ctrl_flow", "csr"})

(* The second port, if it selects one of these units, wins. *)
Chosen(ports) == CHOOSE p \in ports : \A q \in ports : q <= p

mult_op(ops, in) == {p \in Started({"mult"}) : fu_q[p].op \in ops /\ ~in.flush}
mul_valid_op(in) == mult_op({"MUL"}, in)
div_valid_op(in) == mult_op({"DIV"}, in)

(* The divider is not ready any more in the cycle a request reaches it. *)
in_rdy(in) == div.state = "IDLE" /\ div_valid_op(in) = {}

div_valid(in) == div.state = "FINISH" \/ (div.state = "DIVIDE" /\ in.known)

mult_valid(in) == mul # {} \/ div_valid(in)
mult_trans_id == IF mul # {} THEN CHOOSE i \in mul : TRUE ELSE div.id

(* Fault: the buffer is ready while it holds an access. *)
csr_ready_always(in) == TRUE

csr_ready(in) == (csr_reg = {} /\ Started({"csr"}) = {}) \/ in.csr_commit

flu_ready(in) == csr_ready(in) /\ in_rdy(in)

flu_valid(in) == one_cycle_select # {} \/ mult_valid(in)

flu_trans_id(in) ==
  IF Started({"alu", "csr"}) = {} /\ mult_valid(in) THEN mult_trans_id
  ELSE IF one_cycle_select # {} THEN fu_q[Chosen(one_cycle_select)].id ELSE 0

div_n(in) ==
  CASE in.flush -> [div EXCEPT !.state = "IDLE"]
    [] div.state = "IDLE" /\ ~in.flush ->
         IF div_valid_op(in) = {} THEN div
         ELSE [state |-> "DIVIDE", id |-> fu_q[Chosen(div_valid_op(in))].id]
    [] div_valid(in) /\ ~in.flush -> [div EXCEPT !.state = IF mul = {} THEN "IDLE" ELSE "FINISH"]
    [] OTHER -> [div EXCEPT !.state = IF in.cnt_zero THEN "FINISH" ELSE "DIVIDE"]

csr_reg_n(in) ==
  IF in.flush THEN {}
  ELSE IF Started({"csr"}) # {} THEN {fu_q[Chosen(Started({"csr"}))].id}
  ELSE IF in.csr_commit THEN {} ELSE csr_reg

Init ==
  /\ mul = {} /\ csr_reg = {}
  /\ div = [state |-> "IDLE", id |-> 0]

Cycle(in) ==
  /\ mul' = {fu_q[p].id : p \in mul_valid_op(in)}
  /\ div' = div_n(in)
  /\ csr_reg' = csr_reg_n(in)

(* Who drives the write back port in a cycle. *)
Drivers(in) == {fu_q[p].id : p \in one_cycle_select} \cup mul \cup (IF div_valid(in) /\ mul = {} THEN {div.id} ELSE {})
=============================================================================
