------------------------------ MODULE Backend ------------------------------
(***************************************************************************)
(* The back end of the core (core/cva6.sv, core/issue_stage.sv,            *)
(* core/ex_stage.sv): scoreboard, issue stage, fixed latency units, commit *)
(* stage and controller wired together.  Decoding, the load store unit and *)
(* the CSR file are inputs: an instruction with the registers it reads is  *)
(* offered on each issue port, loads and stores come back in some later    *)
(* cycle, and a CSR access may trap or flush.                              *)
(***************************************************************************)
EXTENDS Integers, FiniteSets, Sequences

CONSTANTS NR_SB_ENTRIES, NrIssuePorts, NrCommitPorts, SpeculativeSb,
  DcacheFlushOnFence, WriteBackCache, OutOfRangeWraps,
  Offers,        \* what decoding may offer: instructions with the registers they read
  SingleStep,    \* whether a debugger may step the core
  LsuCapacity    \* loads and stores the load store unit takes at a time

VARIABLES mem, commit_pointer, issue_pointer, fu_q, mul, div, csr_reg,
  fence_active, flush_dcache_o,
  loads,     \* transactions of loads in the load store unit
  stores,    \* of stores there, oldest first
  spec,      \* of stores in the speculative queue of the store buffer
  bad,       \* history: entries issued with an operand they should not have read
  doomed     \* history: entries younger than a mispredicted branch

Instrs == {o.instr : o \in Offers}

Sb == INSTANCE Scoreboard
Iro == INSTANCE IssueReadOperands
Flu == INSTANCE FixedLatencyUnit
Cs == INSTANCE CommitStage
Ctl == INSTANCE Controller

machine == <<mem, commit_pointer, issue_pointer, fu_q, mul, div, csr_reg,
             fence_active, flush_dcache_o, loads, stores, spec>>
vars == <<machine, bad, doomed>>

Slots == Sb!Slots
IssuePorts == Sb!IssuePorts
CommitPorts == Sb!CommitPorts

Oldest == Sb!commit_instr_o(0)

(* The place of entry i in program order. *)
Age(i) == Sb!Slot(i, NR_SB_ENTRIES - commit_pointer[0], NR_SB_ENTRIES)

(***************************************************************************)
(* The wiring.  e is what the CSR file and the store buffer tell the       *)
(* commit stage, u what the functional units do and offer what decoding    *)
(* offers; c, k, f, w and i are the inputs of the commit stage, of the     *)
(* controller and of the fixed latency units, the write backs, and the     *)
(* inputs of the issue stage, each a combinational function of the others. *)
(***************************************************************************)

CommitInput(e) ==
  [instr |-> [port \in CommitPorts |-> Sb!commit_instr_o(port)],
   halt |-> Ctl!halt_o(e), flush_dcache |-> flush_dcache_o, single_step |-> e.single_step,
   csr_exception |-> e.csr_exception, commit_lsu_ready |-> e.commit_lsu_ready,
   no_st_pending |-> e.no_st_pending, amo_ack |-> e.amo_ack]

ControlInput(e, u, c) ==
  [mispredict |-> u.mispredict,
   fence |-> Cs!fence(c), fence_i |-> Cs!fence_i(c), fence_vma |-> Cs!fence_vma(c),
   flush_commit |-> Cs!flush_commit(c), ex_valid |-> Cs!exception(c),
   flush_csr |-> Cs!commit_csr(c) /\ e.flush_csr,
   eret |-> Cs!commit_csr(c) /\ Oldest.instr.op = "RET",
   halt_csr |-> e.halt_csr, flush_dcache_ack |-> e.flush_dcache_ack]

FluInput(u, c, k) ==
  [flush |-> Ctl!flush_ex(k), csr_commit |-> Cs!commit_csr(c),
   known |-> u.known, cnt_zero |-> u.cnt_zero]

(* A CSR access and an AMO write back something that is not their result. *)
WriteBack(port, i, ex) ==
  [port |-> port, id |-> i, ex |-> ex, rd |-> mem[i].rd,
   result |-> IF mem[i].instr.fu = "CSR" \/ mem[i].instr.op = "AMO" THEN "other" ELSE "own"]

WriteBacks(u, f) ==
  (IF Flu!flu_valid(f) THEN {WriteBack(0, Flu!flu_trans_id(f), FALSE)} ELSE {})
    \cup {WriteBack(1, i, i \in u.faults) : i \in u.stored}
    \cup {WriteBack(2, i, i \in u.faults) : i \in u.loaded}
    \cup (LET ports == Flu!Started({"alu2"})
          IN  IF ports = {} THEN {} ELSE {WriteBack(3, fu_q[Flu!Chosen(ports)].id, FALSE)})

LsuRoom == Cardinality(loads) + Len(stores) + Cardinality(Flu!Started({"load", "store"})) < LsuCapacity

Decode(offer, i) ==
  [i EXCEPT !.decoded = [p \in IssuePorts |-> offer[p].instr],
            !.sources = [p \in IssuePorts |-> offer[p].sources]]

IssueInput(c, k, f, w) ==
  [decoded |-> << >>, sources |-> << >>,
   flu_ready |-> Flu!flu_ready(f), lsu_ready |-> LsuRoom, wb |-> w,
   we |-> {Sb!commit_instr_o(port).rd : port \in {q \in CommitPorts : Cs!we_gpr(q, c)}},
   flush_unissued |-> Ctl!flush_unissued_instr(k)]

ScoreboardInput(u, c, k, f, i) ==
  [decoded |-> i.decoded, issue_ack |-> [p \in IssuePorts |-> Iro!issue_ack(p, i)],
   flush_unissued |-> i.flush_unissued, wb |-> i.wb,
   bmiss |-> u.mispredict, flu_id |-> Flu!flu_trans_id(f),
   commit_ack |-> [port \in CommitPorts |-> Cs!commit_ack(port, c)],
   flush |-> Ctl!flush_id(k), x_no_rd |-> FALSE, wrap |-> FALSE]

(***************************************************************************)
(* The load store unit as the back end sees it.  A flush empties it; a     *)
(* store goes to the speculative queue when it writes back, and from there *)
(* to memory when it retires.                                              *)
(***************************************************************************)

AsSeq(S) == IF S = {} THEN << >> ELSE <<CHOOSE i \in S : TRUE>>

LsuCycle(u, c, f) ==
  LET Entering(unit) == {fu_q[p].id : p \in Flu!Started({unit})}
      left == SelectSeq(stores, LAMBDA i : i \notin u.stored)
      kept == IF Cs!commit_lsu(c) /\ spec # << >> THEN Tail(spec) ELSE spec
      queued == {i \in u.stored \ u.faults : mem[i].instr.op # "AMO"}
  IN  /\ loads' = IF f.flush THEN {} ELSE (loads \ u.loaded) \cup Entering("load")
      /\ stores' = IF f.flush THEN << >> ELSE left \o AsSeq(Entering("store"))
      /\ spec' = IF f.flush THEN << >> ELSE kept \o AsSeq(queued)

(***************************************************************************)
(* History.                                                                *)
(***************************************************************************)

Writers(r) == {i \in Slots : Sb!still_issued(i) /\ mem[i].rd = r}
Youngest(S) == CHOOSE i \in S : \A j \in S : Age(j) <= Age(i)

(* The issue stage takes register r for port p from the youngest older     *)
(* instruction that writes it, or from the register file if there is none. *)
ReadsRight(r, p, i) ==
  /\ ~(p = 1 /\ i.decoded[0].rd = r)
  /\ IF Iro!rs_has_raw(r)
     THEN /\ Writers(r) # {}
          /\ Iro!rs_res(r, i) = [id |-> Youngest(Writers(r)), result |-> "own"]
     ELSE Writers(r) = {}

History(u, i, s) ==
  LET entering == {p \in IssuePorts : Sb!taken(p, s)}
      misread == {p \in entering : \E r \in i.sources[p] : ~ReadsRight(r, p, i)}
      younger == IF u.mispredict THEN {j \in Slots : mem[j].issued /\ Age(j) > Age(s.flu_id)} ELSE {}
  IN  /\ bad' = {j \in bad \cup {Sb!issue_ptr(p) : p \in misread} : mem'[j].issued}
      /\ doomed' = {j \in doomed \cup younger : mem'[j].issued}

Init ==
  /\ Sb!Init /\ Iro!Init /\ Flu!Init /\ Ctl!Init
  /\ loads = {} /\ stores = << >> /\ spec = << >>
  /\ bad = {} /\ doomed = {}

NoOffer == [instr |-> Sb!Nothing, sources |-> {}]

(* One clock cycle.  An instruction that is not acknowledged is offered    *)
(* again: a cycle with it is the same as a cycle without.                  *)
Cycle(e, u, offers) ==
  LET c == CommitInput(e)
      k == ControlInput(e, u, c)
      f == FluInput(u, c, k)
      w == WriteBacks(u, f)
      waiting == IssueInput(c, k, f, w)
  IN  /\ Flu!Cycle(f)
      /\ Ctl!Cycle(k)
      /\ LsuCycle(u, c, f)
      /\ \E offer \in offers :
           LET i == Decode(offer, waiting)
               s == ScoreboardInput(u, c, k, f, i)
           IN  /\ \A p \in IssuePorts : offer[p] # NoOffer => s.issue_ack[p]
               /\ Sb!Cycle(s)
               /\ Iro!Cycle(i)
               /\ History(u, i, s)

(***************************************************************************)
(* The surroundings.                                                       *)
(***************************************************************************)

(* Decoding offers nothing on the second port without the first. *)
Decoded == {o \in [IssuePorts -> Offers \cup {NoOffer}] :
              \A p \in IssuePorts : p > 0 /\ o[p] # NoOffer => o[p - 1] # NoOffer}

When(condition) == IF condition THEN BOOLEAN ELSE {FALSE}
AtMostOne(S) == {{}} \cup {{i} : i \in S}

OldestIs(ops) == Oldest.valid /\ Oldest.instr.op \in ops
StoreIsOldest == Oldest.valid /\ Oldest.instr.fu = "STORE"

(* What the CSR file and the store buffer tell the commit stage. *)
CommitChoices ==
  {[halt_csr |-> halt, single_step |-> step, csr_exception |-> ex, flush_csr |-> flush,
    commit_lsu_ready |-> ~busy, no_st_pending |-> ~busy,
    amo_ack |-> ~busy /\ ~halt /\ OldestIs({"AMO"}), flush_dcache_ack |-> ack] :
     halt \in When(Oldest.valid), step \in When(SingleStep),
     ex \in When(OldestIs({"CSR", "RET"})), flush \in When(OldestIs({"CSR"})),
     busy \in When(OldestIs(Cs!Fences) \/ StoreIsOldest),
     ack \in When(fence_active)}

(* What the functional units do. *)
UnitChoices ==
  UNION {{[loaded |-> loaded, stored |-> stored, faults |-> faults,
           known |-> known, cnt_zero |-> cnt_zero, mispredict |-> mispredict] :
            faults \in SUBSET (loaded \cup stored)} :
           loaded \in AtMostOne(loads),
           stored \in AtMostOne({stores[k] : k \in 1..(IF stores = << >> THEN 0 ELSE 1)}),
           known \in When(div.state = "DIVIDE"), cnt_zero \in When(div.state = "DIVIDE"),
           mispredict \in When(\E p \in Flu!Started({"ctrl_flow"}) : fu_q[p].op # "ADD")}

Next == \E e \in CommitChoices, u \in UnitChoices : Cycle(e, u, Decoded)

Spec == Init /\ [][Next]_vars

(***************************************************************************)
(* Properties.                                                             *)
(***************************************************************************)

(* What the commit stage may do in the next cycle. *)
CommitInputs == {CommitInput(choice) : choice \in CommitChoices}

(* Every instruction that retires has read its operands from the youngest  *)
(* older instruction that writes them, although entries are searched by    *)
(* index and not by age, results come back out of order and a speculative  *)
(* instruction may have been cancelled in between.                         *)
RetiredReadRight ==
  \A c \in CommitInputs, port \in CommitPorts :
    Cs!commit_ack(port, c) /\ commit_pointer[port] \in bad => Sb!commit_drop_o(port)

(* core/ex_stage.sv:703: the registers for the TLB flush store the rs1 and  *)
(* rs2 parameters of an SFENCE.VMA, so it retires having read them right.  *)
SfenceReadsItsParameters ==
  \A c \in CommitInputs : Cs!fence_vma(c) => commit_pointer[0] \notin bad

(* The transactions at work in the units. *)
InUnits ==
  {fu_q[p].id : p \in Flu!Started(Iro!Units \ {"none"})} \cup mul \cup loads
    \cup {stores[k] : k \in 1..Len(stores)} \cup (IF div.state = "IDLE" THEN {} ELSE {div.id})

(* The units work on exactly the entries that wait for a result: after any *)
(* mix of flush and misprediction no unit returns a result for an entry    *)
(* that has been given to another instruction, and no entry waits for a    *)
(* unit that has forgotten it.                                             *)
UnitsAndEntriesAgree ==
  InUnits = {i \in Slots : mem[i].issued /\ ~mem[i].valid}

(* The ALU, the branch unit, the CSR buffer, the multiplier and the        *)
(* divider share one write back port without arbitration: the issue stage  *)
(* must never let two of them answer in the same cycle.                    *)
OneDriverOfTheFlu ==
  \A u \in UnitChoices : Cardinality(Flu!Drivers(u)) <= 1

(* Whatever is younger than a mispredicted branch is cancelled, though the *)
(* scoreboard only cancels the one entry behind the branch.                *)
WrongPathIsCancelled == \A i \in doomed : mem[i].cancelled


(* Fetching goes on behind the instruction on the first commit port when   *)
(* it flushes: it must have retired, and nothing behind it, or an          *)
(* instruction would be executed twice or not at all.                      *)
RestartsAfterOne ==
  \A e \in CommitChoices :
    LET c == CommitInput(e)
    IN  Ctl!set_pc_commit(ControlInput(e, [mispredict |-> FALSE], c)) =>
          Cs!commit_ack_0(c) /\ ~Cs!commit_ack_1(c)

(* Precise exceptions: nothing retires or is written in the cycle that     *)
(* takes one.                                                              *)
TrapsAreAlone ==
  \A c \in CommitInputs : Cs!exception(c) =>
    \A port \in CommitPorts : ~Cs!commit_ack(port, c) /\ ~Cs!we_gpr(port, c)

(* The oldest store of the speculative queue is the one that retires, and  *)
(* it does not retire together with a flush that would drop the queue.     *)
StoreRetiresItsOwn ==
  \A e \in CommitChoices :
    LET c == CommitInput(e)
    IN  Cs!commit_lsu(c) =>
          /\ spec # << >> /\ spec[1] = commit_pointer[0]
          /\ ~Ctl!flush_ex(ControlInput(e, [mispredict |-> FALSE], c))

(* A CSR access retires with its own address in the CSR buffer, which is   *)
(* free for the next one in that very cycle.                               *)
CsrRetiresItsOwn ==
  \A c \in CommitInputs :
    Cs!commit_csr(c) /\ Oldest.instr.op \notin Cs!Fences => csr_reg = {commit_pointer[0]}

(* The request to flush the data cache is registered and stays until the   *)
(* cache acknowledges; meanwhile the core is halted, so no instruction can *)
(* retire, trap or be taken for another FENCE.I under a flush.             *)
NothingRetiresUnderAFlush ==
  /\ fence_active => flush_dcache_o
  /\ flush_dcache_o => \A c \in CommitInputs :
       ~Cs!exception(c) /\ ~Cs!fence_i(c) /\ \A port \in CommitPorts : ~Cs!commit_ack(port, c)
============================================================================
