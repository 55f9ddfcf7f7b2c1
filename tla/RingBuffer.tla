----------------------------- MODULE RingBuffer -----------------------------
(***************************************************************************)
(* The arithmetic of the ring buffers of the core: d entries, a read and a *)
(* write pointer that wrap, and a counter that can also hold d.  Entries   *)
(* are records with a valid flag and the item they hold.                   *)
(***************************************************************************)
EXTENDS Integers

(* p + 1'b1 on a pointer of a buffer with d entries. *)
Inc(p, d) == IF p = d - 1 THEN 0 ELSE p + 1

(* A status counter of $clog2(d) + 1 bits after adding up and subtracting  *)
(* down, each 0 or 1.                                                      *)
Count(cnt, up, down, d) ==
  LET n == cnt + (IF up THEN 1 ELSE 0) - (IF down THEN 1 ELSE 0)
  IN  IF n < 0 THEN n + 2 * d ELSE IF n >= 2 * d THEN n - 2 * d ELSE n

(* The slot k places after read pointer r of a buffer with d entries. *)
Slot(r, k, d) == IF r + k < d THEN r + k ELSE r + k - d

(* A ring buffer is coherent when its counter fits, its write pointer is   *)
(* the counter's distance ahead of its read pointer, and exactly the       *)
(* entries between the two are valid.                                      *)
Ring(queue, r, w, cnt, d) ==
  /\ cnt <= d
  /\ w = Slot(r, cnt, d)
  /\ \A k \in 0..(d - 1) : queue[Slot(r, k, d)].valid <=> k < cnt

(* The items of a ring buffer from the oldest to the youngest. *)
Contents(queue, r, cnt, d) == [k \in 1..cnt |-> queue[Slot(r, k - 1, d)].item]

=============================================================================
