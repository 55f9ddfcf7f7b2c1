---------------------------- MODULE InstrRealign ----------------------------
(***************************************************************************)
(* The re-aligner of the fetch stage (core/instr_realign.sv): it cuts the  *)
(* half words of one fetch into compressed and full instructions, for      *)
(* fetches of 32 and of 64 bit, and keeps the first half of an instruction *)
(* that crosses the border of two fetches.                                 *)
(*                                                                         *)
(* Addresses count half words.  A half word is a record: `at' is the       *)
(* address it was stored at, Nothing if it comes with a fetch that         *)
(* faulted; `long' says that its two lowest bits are 11; `kind' is what    *)
(* instr_scan makes of the instruction it begins.                          *)
(***************************************************************************)
EXTENDS Naturals, Sequences

CONSTANT Nothing

Zeros == [at |-> Nothing, long |-> FALSE, kind |-> "none"]

(* The upper half of a compressed instruction is not looked at.            *)
Instr(lo, hi) == [lo |-> lo, hi |-> IF lo.long THEN hi ELSE Zeros]

OneIf(cond, x) == IF cond THEN <<x>> ELSE <<>>

(* The places of data_i at which valid instructions begin, for a fetch     *)
(* from place k of the n of its block, which is at place 0 of data_i;      *)
(* unaligned: the half word at place 0 ends the saved instruction.  The    *)
(* valid instructions fill the lowest slots.                               *)
realign_bp_32(k, unaligned, compressed) ==
  IF k = 0 THEN <<0>> \o OneIf((compressed[0] \/ unaligned) /\ compressed[1], 1)
  ELSE OneIf(compressed[0], 0)

realign_bp_64(k, unaligned, compressed) ==
  CASE k = 0 ->
         IF unaligned \/ compressed[0]
         THEN IF compressed[1] THEN <<0, 1, 2>> \o OneIf(compressed[2] /\ compressed[3], 3)
              ELSE <<0, 1>> \o OneIf(compressed[3], 3)
         ELSE <<0, 2>> \o OneIf(compressed[2] /\ compressed[3], 3)
    [] k = 1 ->
         IF compressed[0] THEN <<0, 1>> \o OneIf(compressed[1] /\ compressed[2], 2)
         ELSE <<0>> \o OneIf(compressed[2], 2)
    [] k = 2 -> <<0>> \o OneIf(compressed[0] /\ compressed[1], 1)
    [] k = 3 -> OneIf(compressed[0], 0)

(* The last half word of the block begins an instruction it does not end.  *)
unaligned_32(k, unaligned, compressed) ==
  IF k = 0 THEN (compressed[0] \/ unaligned) /\ ~compressed[1] ELSE ~compressed[0]

unaligned_64(k, unaligned, compressed) ==
  CASE k = 0 ->
         IF unaligned \/ compressed[0]
         THEN ~compressed[3] /\ (compressed[1] => compressed[2])
         ELSE compressed[2] /\ ~compressed[3]
    [] k = 1 -> ~compressed[2] /\ (compressed[0] => compressed[1])
    [] k = 2 -> compressed[0] /\ ~compressed[1]
    [] k = 3 -> ~compressed[0]

Slot(addr, instr) == [addr |-> addr, instr |-> instr]

(* The valid slots of a fetch f = [vaddr, data, ...]; saved is the saved   *)
(* first half [addr, half], or Nothing.                                    *)
re_align(n, f, saved) ==
  LET unaligned == saved # Nothing
      compressed == [i \in 0 .. n - 1 |-> ~f.data[i].long]
      places == IF n = 2 THEN realign_bp_32(f.vaddr % n, unaligned, compressed)
                ELSE realign_bp_64(f.vaddr % n, unaligned, compressed)
      half(i) == IF i < n THEN f.data[i] ELSE Zeros
  IN  [j \in 1 .. Len(places) |->
         IF places[j] = 0 /\ unaligned THEN Slot(saved.addr, Instr(saved.half, half(0)))
         ELSE Slot(f.vaddr + places[j], Instr(half(places[j]), half(places[j] + 1)))]

(* What is saved for the next fetch.                                       *)
unaligned_d(n, f, saved) ==
  LET compressed == [i \in 0 .. n - 1 |-> ~f.data[i].long]
      k == f.vaddr % n
      crosses == IF n = 2 THEN unaligned_32(k, saved # Nothing, compressed)
                 ELSE unaligned_64(k, saved # Nothing, compressed)
  IN  IF crosses THEN [addr |-> (f.vaddr - k) + n - 1, half |-> f.data[(n - 1) - k]] ELSE Nothing
=============================================================================
