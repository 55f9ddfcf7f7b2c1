---- MODULE MCScoreboard ----
(* Instruction mixes for model checking the scoreboard. *)
EXTENDS Scoreboard

Plain(fu, rd, ex) == [fu |-> fu, op |-> "", rd |-> rd, ex |-> ex, macro |-> "no"]

(* Branches, which may cancel what is behind them, instructions without a *)
(* unit, and instructions that decoding rejects.                           *)
SuperscalarInstrs ==
  {Plain("CTRL_FLOW", 0, FALSE), Plain("NONE", 0, FALSE), Plain("NONE", 0, TRUE)}

Move(place, ex) == [fu |-> "ALU", op |-> "", rd |-> 1, ex |-> ex, macro |-> place]

(* Pairs of moves; an interrupt may be decoded on the second of a pair.    *)
ZcmpInstrs == {Move("no", FALSE), Move("first", FALSE), Move("last", FALSE), Move("last", TRUE)}
====
