----------------------------- MODULE Scoreboard -----------------------------
(***************************************************************************)
(* The scoreboard (core/scoreboard.sv): the ring of issued instructions.   *)
(* One step is one clock cycle.  An instruction is its functional unit and *)
(* destination, whether decoding found an exception, and its place in a    *)
(* pair of moves that a Zcmp instruction expands to.  The result is only   *)
(* known to be the instruction's own ("own") or anything else ("other").   *)
(***************************************************************************)
EXTENDS RingBuffer, FiniteSets, Sequences

CONSTANTS NR_SB_ENTRIES, NrIssuePorts, NrCommitPorts, SpeculativeSb, Instrs,
  OutOfRangeWraps   \* what a write beside the entries may do in the builds considered

ASSUME SizesOfTheScoreboard ==
  /\ NR_SB_ENTRIES \in Nat /\ NR_SB_ENTRIES > 1 /\ NR_SB_ENTRIES % 2 = 0
  /\ NrIssuePorts \in 1..2 /\ NrCommitPorts \in 1..2
  /\ SpeculativeSb \in BOOLEAN /\ OutOfRangeWraps \in SUBSET BOOLEAN
  (* No configuration of the core has both Zcmp and superscalar issue. *)
  /\ SpeculativeSb => \A d \in Instrs : d.macro = "no"

(* The two moves that a Zcmp instruction expands to are additions. *)
ASSUME DecodedInstructions ==
  \A d \in Instrs : d.ex \in BOOLEAN /\ (d.macro # "no" => d.fu = "ALU")

VARIABLES mem, commit_pointer, issue_pointer

vars == <<mem, commit_pointer, issue_pointer>>

Slots == 0..(NR_SB_ENTRIES - 1)
IssuePorts == 0..(NrIssuePorts - 1)
CommitPorts == 0..(NrCommitPorts - 1)

Results == {"own", "other"}

(* No instruction on a decode port. *)
Nothing == [fu |-> "", op |-> "", rd |-> 0, ex |-> FALSE, macro |-> "no"]

sb_mem_t == [issued : BOOLEAN, cancelled : BOOLEAN,
             instr : Instrs \cup {Nothing}, rd : {0} \cup {d.rd : d \in Instrs},
             valid : BOOLEAN, ex : BOOLEAN, result : Results]

ResetEntry == [issued |-> FALSE, cancelled |-> FALSE, instr |-> Nothing, rd |-> 0,
               valid |-> FALSE, ex |-> FALSE, result |-> "other"]

still_issued(i) == mem[i].issued /\ ~mem[i].cancelled

AllIssued(S) == \A i \in S : mem[i].issued

(* The second port needs two free slots, which are neighbours: one even    *)
(* and one odd.                                                            *)
issue_full(p) ==
  IF p = 0 THEN AllIssued(Slots)
  ELSE \/ AllIssued({i \in Slots : i % 2 = 0})
       \/ AllIssued({i \in Slots : i % 2 = 1})

(* Fault: both issue ports write the same entry. *)
issue_ptr_same(p) == issue_pointer

issue_ptr(p) == Slot(issue_pointer, p, NR_SB_ENTRIES)

commit_instr_o(c) == mem[commit_pointer[c]]
commit_drop_o(c) == commit_instr_o(c).cancelled

(* The instruction of decode port p enters the scoreboard.  in collects    *)
(* the inputs of a cycle: decoded and issue_ack of the issue ports,        *)
(* flush_unissued, the write backs wb, the mispredict flag bmiss with the  *)
(* transaction flu_id of the fixed latency unit, commit_ack, flush, and    *)
(* x_no_rd, an offloaded instruction accepted without a write back.        *)
taken(p, in) ==
  /\ in.decoded[p] # Nothing
  /\ in.issue_ack[p]
  /\ ~issue_full(p)
  /\ ~in.flush_unissued

num_issue(in) ==
  (IF taken(0, in) THEN 1 ELSE 0) + (IF NrIssuePorts = 2 /\ taken(1, in) THEN 1 ELSE 0)

(* The decoder marks an instruction with an exception as done. *)
Fresh(d) == [issued |-> TRUE, cancelled |-> FALSE, instr |-> d, rd |-> d.rd,
             valid |-> d.ex, ex |-> d.ex, result |-> "other"]

Issue(i, in) ==
  LET ports == {p \in IssuePorts : i = issue_ptr(p) /\ taken(p, in)}
  IN  IF ports # {} THEN Fresh(in.decoded[CHOOSE p \in ports : TRUE]) ELSE mem[i]

Retiring(i, in) == {w \in in.wb : w.id = i /\ mem[i].issued}

DoubleMove(i, place) == mem[i].instr.macro = place

(* The write back of a second move also completes the first one, the entry *)
(* before it: mem_n[8'(trans_id) - 1].  For transaction 0 that index is    *)
(* outside of the scoreboard.  What the write then does is the choice      *)
(* wrap: nothing, as the language has it, or it reaches the last entry     *)
(* when the index is cut to its width.                                     *)
CompletesFirstMove(i, in) ==
  \E w \in in.wb :
    /\ mem[w.id].issued /\ DoubleMove(w.id, "last")
    /\ IF w.id = 0 THEN in.wrap /\ i = NR_SB_ENTRIES - 1 ELSE i = w.id - 1

(* Fault: an instruction without functional unit waits for one. *)
valid_n_units(i, e, wbs, in) ==
  IF CompletesFirstMove(i, in) THEN TRUE
  ELSE IF wbs # {} THEN ~DoubleMove(i, "first")
  ELSE e.valid

(* e is what issue left in entry i, wbs what is written back to it. *)
valid_n(i, e, wbs, in) ==
  IF CompletesFirstMove(i, in) THEN TRUE
  ELSE IF wbs # {} THEN ~DoubleMove(i, "first")
  ELSE e.valid \/ (mem[i].issued /\ mem[i].instr.fu = "NONE")

rd_n(i, e, wbs, in) ==
  IF in.x_no_rd /\ i = issue_pointer THEN 0
  ELSE IF wbs # {} /\ mem[i].instr.fu = "CVXIF" THEN (CHOOSE w \in wbs : TRUE).rd
  ELSE e.rd

after_flu_wb(in) == Slot(in.flu_id, 1, NR_SB_ENTRIES)

(* Fault: the comparison with the issue pointer is missing. *)
Cancels_always(i, in) == SpeculativeSb /\ in.bmiss /\ i = after_flu_wb(in)

(* Fault: the branch is cancelled in place of the instruction behind it. *)
Cancels_branch(i, in) == SpeculativeSb /\ in.bmiss /\ i = in.flu_id

(* The one instruction that may have been issued behind a branch. *)
Cancels(i, in) ==
  SpeculativeSb /\ in.bmiss /\ i = after_flu_wb(in) /\ i # issue_pointer

(* Fault: only the entry of the first commit port is released. *)
Leaves_first(i, in) == in.flush \/ (in.commit_ack[0] /\ i = commit_pointer[0])

Leaves(i, in) ==
  in.flush \/ \E c \in CommitPorts : in.commit_ack[c] /\ i = commit_pointer[c]

(* What an entry holds beside its flags is only looked at while the entry  *)
(* is in use, and left out otherwise.                                      *)
issue_fifo(i, in) ==
  LET e == Issue(i, in)
      wbs == Retiring(i, in)
      leaves == Leaves(i, in)
      stays == e.issued /\ ~leaves
  IN  [issued |-> stays,
       cancelled |-> (e.cancelled \/ Cancels(i, in)) /\ ~leaves,
       valid |-> valid_n(i, e, wbs, in) /\ ~leaves,
       instr |-> IF stays THEN e.instr ELSE Nothing,
       rd |-> IF stays THEN rd_n(i, e, wbs, in) ELSE 0,
       ex |-> stays /\ (e.ex \/ \E w \in wbs : w.ex),
       result |-> IF ~stays THEN "other"
                  ELSE IF wbs # {} THEN (CHOOSE w \in wbs : TRUE).result ELSE e.result]

num_commit(in) ==
  (IF in.commit_ack[0] THEN 1 ELSE 0) + (IF NrCommitPorts = 2 /\ in.commit_ack[1] THEN 1 ELSE 0)

(* A flush, like a reset, points both commit ports at entry 0. *)
commit_pointer_n(c, in) ==
  IF in.flush THEN 0
  ELSE Slot(Slot(commit_pointer[0], num_commit(in), NR_SB_ENTRIES), c, NR_SB_ENTRIES)

(* Fault: a pointer that is not cut to its width. *)
issue_pointer_n_wide(in) == IF in.flush THEN 0 ELSE issue_pointer + num_issue(in)

issue_pointer_n(in) == IF in.flush THEN 0 ELSE issue_ptr(num_issue(in))

Init ==
  /\ mem = [i \in Slots |-> ResetEntry]
  /\ commit_pointer = [c \in CommitPorts |-> 0]
  /\ issue_pointer = 0

Cycle(in) ==
  /\ mem' = [i \in Slots |-> issue_fifo(i, in)]
  /\ commit_pointer' = [c \in CommitPorts |-> commit_pointer_n(c, in)]
  /\ issue_pointer' = issue_pointer_n(in)

(***************************************************************************)
(* The neighbours.                                                         *)
(***************************************************************************)

(* A functional unit still has to return something for entry i. *)
Pending(i) == mem[i].issued /\ ~mem[i].valid /\ mem[i].result = "other"

(* The moves of a pair go through the same unit, one after the other. *)
Returnable(i) ==
  /\ Pending(i) /\ mem[i].instr.fu # "NONE"
  /\ DoubleMove(i, "last") => ~Pending(Slot(i, NR_SB_ENTRIES - 1, NR_SB_ENTRIES))

(* The commit stage retires a valid entry without exception, or drops a    *)
(* cancelled one; the second port only behind the first.                   *)
MayCommit(c) == commit_instr_o(c).valid /\ (~commit_instr_o(c).ex \/ commit_drop_o(c))

(* The issue stage acknowledges in order what there is place for, and the  *)
(* macro decoder emits the two moves of a pair one after the other.        *)
Previous(p, decoded) ==
  IF p > 0 THEN decoded[p - 1].macro
  ELSE LET youngest == mem[Slot(issue_pointer, NR_SB_ENTRIES - 1, NR_SB_ENTRIES)]
       IN  IF youngest.issued THEN youngest.instr.macro ELSE "no"

InOrder(decoded) ==
  \A p \in IssuePorts :
    decoded[p] # Nothing =>
      /\ ~issue_full(p)
      /\ p > 0 => decoded[p - 1] # Nothing
      /\ (decoded[p].macro = "last") <=> (Previous(p, decoded) = "first")

(* Of the units modelled only the load store unit reports an exception. *)
MayFault(ids) == {i \in ids : mem[i].issued /\ mem[i].instr.fu \in {"LOAD", "STORE"}}

Decoded == [IssuePorts -> Instrs \cup {Nothing}]

(* A cycle of the core: acked commit ports retire, the units of ids write  *)
(* back, mispredicted is the branch among them that missed, if any.        *)
CycleOfCore(decoded, acked, ids, mispredicted, flush, wrap) ==
  \E ex \in SUBSET MayFault(ids), x_no_rd \in BOOLEAN :
    /\ InOrder(decoded)
    /\ x_no_rd => decoded[0].fu = "CVXIF"
    /\ \A c \in 0..(acked - 1) : MayCommit(c)
    /\ Cycle([decoded |-> decoded,
              issue_ack |-> [p \in IssuePorts |-> decoded[p] # Nothing],
              flush_unissued |-> mispredicted # {} \/ flush,
              wb |-> {[id |-> i, ex |-> i \in ex, result |-> "own", rd |-> mem[i].rd] : i \in ids},
              bmiss |-> mispredicted # {},
              flu_id |-> IF mispredicted = {} THEN 0 ELSE CHOOSE i \in mispredicted : TRUE,
              commit_ack |-> [c \in CommitPorts |-> c < acked],
              flush |-> flush,
              x_no_rd |-> x_no_rd,
              wrap |-> wrap])

(* At most two units write back in a cycle, also to entries that a flush   *)
(* has emptied since.                                                      *)
WriteBacks == {ids \in SUBSET {i \in Slots : Returnable(i) \/ ~mem[i].issued} : Cardinality(ids) <= 2}

(* A branch that resolves is the youngest or the one before it. *)
Mispredicted(ids) ==
  {{}} \cup {{i} : i \in {j \in ids : /\ mem[j].issued /\ ~mem[j].cancelled
                                      /\ mem[j].instr.fu = "CTRL_FLOW"
                                      /\ issue_pointer \in {Slot(j, 1, NR_SB_ENTRIES), Slot(j, 2, NR_SB_ENTRIES)}}}

Next ==
  \E decoded \in Decoded, acked \in 0..NrCommitPorts, ids \in WriteBacks,
     flush \in BOOLEAN, wrap \in OutOfRangeWraps :
    \E mispredicted \in Mispredicted(ids) :
      CycleOfCore(decoded, acked, ids, mispredicted, flush, wrap)

Spec == Init /\ [][Next]_vars

(* A cycle of progress: the oldest instruction retires or traps if it can, *)
(* and the oldest one that a functional unit works on is written back.     *)
Trapping == commit_instr_o(0).valid /\ ~MayCommit(0)

OldestReturnable ==
  {i \in Slots : Returnable(i) /\ \A j \in Slots :
     Returnable(j) => (i + NR_SB_ENTRIES - commit_pointer[0]) % NR_SB_ENTRIES
                        <= (j + NR_SB_ENTRIES - commit_pointer[0]) % NR_SB_ENTRIES}

Progress ==
  CycleOfCore([p \in IssuePorts |-> Nothing], IF MayCommit(0) THEN 1 ELSE 0,
              OldestReturnable, {}, Trapping, FALSE)

(* Such cycles come again and again, between any others. *)
FairSpec == Spec /\ WF_vars(Progress)

(* The first of two moves also depends on the second being issued. *)
Issues ==
  \E decoded \in Decoded, ids \in WriteBacks, wrap \in OutOfRangeWraps :
    decoded[0] # Nothing /\ CycleOfCore(decoded, 0, ids, {}, FALSE, wrap)

FairMoves == FairSpec /\ WF_vars(Issues)

(***************************************************************************)
(* Properties.                                                             *)
(***************************************************************************)

TypeOK ==
  /\ mem \in [Slots -> sb_mem_t]
  /\ commit_pointer \in [CommitPorts -> Slots]
  /\ issue_pointer \in Slots

(* How many instructions the pointers say are in flight; when they are     *)
(* equal the oldest entry tells a full scoreboard from an empty one.       *)
Occupied ==
  LET d == issue_pointer - commit_pointer[0]
  IN  IF d > 0 THEN d
      ELSE IF d < 0 \/ mem[commit_pointer[0]].issued THEN d + NR_SB_ENTRIES ELSE 0

(* The entries marked issued are exactly those from the commit pointer to  *)
(* the issue pointer, though issue, two retirements, a cancellation and a  *)
(* flush each write the flags: so issue never overwrites an instruction    *)
(* that has not retired, and retirement meets them in program order.       *)
IssuedIsARing ==
  \A k \in Slots : mem[Slot(commit_pointer[0], k, NR_SB_ENTRIES)].issued <=> k < Occupied

(* The commit stage looks at valid and cancelled, never at issued: an      *)
(* entry that has left may show neither, also when a mispredicted branch   *)
(* has nothing behind it or a write back comes after a flush.              *)
FlagsOnlyIfIssued ==
  \A i \in Slots : mem[i].valid \/ mem[i].cancelled => mem[i].issued

(* Reset and flush point both commit ports at entry 0.  The second port    *)
(* shows the instruction behind the first again before one can retire, so  *)
(* none retires twice.                                                     *)
SecondPortFollows ==
  NrCommitPorts = 2 /\ (\E i \in Slots : mem[i].valid) =>
    commit_pointer[1] = Slot(commit_pointer[0], 1, NR_SB_ENTRIES)

(* Testing the even and the odd entries apart tells exactly whether two    *)
(* neighbouring entries are free for the second issue port.                *)
FullMeansNoPair ==
  NrIssuePorts = 2 => (issue_full(1) <=> Occupied >= NR_SB_ENTRIES - 1)

InFlight ==
  [k \in 1..Occupied |->
     LET e == mem[Slot(commit_pointer[0], k - 1, NR_SB_ENTRIES)]
     IN  [instr |-> e.instr, done |-> e.valid, squashed |-> e.cancelled]]

Queue == INSTANCE ReorderBuffer WITH rob <- InFlight, Capacity <- NR_SB_ENTRIES, Width <- 2

(* The scoreboard is a queue in program order: instructions are retired    *)
(* once each, in the order they were issued, and only when they are done.  *)
ImplementsReorderBuffer == Queue!Spec

(* Whatever is issued retires or is flushed: unless the scoreboard is      *)
(* empty again and again, the commit pointer passes every entry for ever,  *)
(* also those that no functional unit works on.                            *)
EveryInstructionLeaves ==
  \/ []<>(Occupied = 0)
  \/ []<><<commit_pointer'[0] # commit_pointer[0]>>_vars

(* docs/01_cva6_user/RISCV_Instructions_RVZcmp.rst:139: a double move moves *)
(* both registers, so neither of its two moves may stay behind.            *)
DoubleMovesRetire == \A i \in Slots : DoubleMove(i, "first") /\ mem[i].issued ~> ~mem[i].issued

=============================================================================
