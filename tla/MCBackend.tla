---- MODULE MCBackend ----
(* Instruction mixes for model checking the back end. *)
EXTENDS Backend

Offer(fu, op, rd, sources) ==
  [instr |-> [fu |-> fu, op |-> op, rd |-> rd, ex |-> FALSE, macro |-> "no"], sources |-> sources]

(* What answers at different times, around branches. *)
FlowOffers == {Offer("ALU", "", 1, {}), Offer("CTRL_FLOW", "", 0, {1}), Offer("LOAD", "", 1, {}),
               Offer("MULT", "MUL", 0, {}), Offer("MULT", "DIV", 1, {1})}

(* Everything with an effect outside of the scoreboard. *)
EffectOffers == {Offer("LOAD", "", 1, {}), Offer("STORE", "", 0, {1}), Offer("STORE", "AMO", 1, {}),
                 Offer("CSR", "CSR", 1, {}), Offer("CSR", "RET", 0, {}),
                 Offer("CSR", "FENCE", 0, {}), Offer("ALU", "", 1, {1})}

(* An address is read from a CSR and flushed from the TLB. *)
SfenceOffers == {Offer("CSR", "CSR", 1, {}), Offer("CSR", "SFENCE_VMA", 0, {1})}
====
