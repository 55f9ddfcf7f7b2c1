--------------------------- MODULE ReorderBuffer ---------------------------
(***************************************************************************)
(* What the scoreboard promises the rest of the core: a queue of           *)
(* instructions in program order.  They enter at the tail, become done in  *)
(* any order, may be squashed, and leave from the head once done, at most  *)
(* Width in a cycle; or the whole queue is dropped.                        *)
(***************************************************************************)
EXTENDS Integers, Sequences

CONSTANTS Capacity, Width

VARIABLE rob   \* a sequence of records [instr, done, squashed]

Keeps(old, new) ==
  /\ new.instr = old.instr
  /\ old.done => new.done
  /\ old.squashed => new.squashed

(* out instructions leave, all of them done, and the others keep their     *)
(* order behind them; whatever follows those is new.                       *)
Advance(out) ==
  /\ Len(rob') \in (Len(rob) - out)..(Len(rob) - out + Width)
  /\ Len(rob') <= Capacity
  /\ \A k \in 1..out : rob[k].done
  /\ \A k \in 1..(Len(rob) - out) : Keeps(rob[k + out], rob'[k])

Init == rob = << >>

Next ==
  \/ rob' = << >>
  \/ \E out \in 0..Width : out <= Len(rob) /\ Advance(out)

Spec == Init /\ [][Next]_rob
============================================================================
