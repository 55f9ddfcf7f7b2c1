------------------------------ MODULE Frontend ------------------------------
(***************************************************************************)
(* The fetch stage (core/frontend/frontend.sv) with its re-aligner and its *)
(* instruction queue, one clock cycle per step.  The instruction cache is  *)
(* kept to its handshake, the tables of the branch prediction may predict  *)
(* anything, the decode stage takes what it likes and the rest of the core *)
(* may redirect the fetch in any cycle.                                    *)
(*                                                                         *)
(* build.n instructions are fetched at most (INSTR_PER_FETCH), build.ports *)
(* are offered to the decode stage (NrIssuePorts).  The program is         *)
(* build.mem, the half words of the address space, with the target of a    *)
(* branch or jump; the fetch of a block of build.faults faults.            *)
(***************************************************************************)
EXTENDS InstrQueue

CONSTANTS Builds,
          DryCycles    \* bound of NeverDryForLong

VARIABLES npc_q,
          fetched,     \* icache_*_q: the fetch that arrived in the last cycle, or Nothing
          unaligned_q, \* the saved half of the re-aligner, or Nothing
          icache,      \* the cache: idle, or the fetch it works on
          expected,    \* the address of the next instruction for decode
          onpath,      \* whether expected still means anything, see Path
          dry          \* the cycles decode has been without instruction

frontend_vars == <<npc_q, fetched, unaligned_q, icache>>
vars == <<build, queue_vars, frontend_vars, expected, onpath, dry>>

BootAddr == 0
Addresses == 0 .. build.size - 1
Block(a) == a - (a % INSTR_PER_FETCH)

Idle == [state |-> "IDLE", vaddr |-> 0]

(* npc_rst_load_q: the first fetch is from the boot address.               *)
Init ==
  /\ build \in Builds
  /\ QueueInit
  /\ npc_q = BootAddr
  /\ fetched = Nothing /\ unaligned_q = Nothing
  /\ icache = Idle
  /\ expected = BootAddr /\ onpath = TRUE /\ dry = 0

-----------------------------------------------------------------------------
(* Branch prediction.  A guess says which branches are predicted taken and *)
(* which indirect jumps have an entry in the BTB, by slot, and where       *)
(* indirect jumps and returns go; 0 is the answer of an empty return       *)
(* address stack.                                                          *)
slots_in == IF fetched = Nothing THEN <<>>
            ELSE LET s == re_align(INSTR_PER_FETCH, fetched, unaligned_q)
                 IN  [j \in DOMAIN s |-> [s[j] EXCEPT !.addr = Address(@)]]

Kind(slot) == slot.instr.lo.kind
Guesses ==
  LET guessed == {j \in DOMAIN slots_in : Kind(slots_in[j]) \in {"branch", "jalr"}}
      indirect == \E j \in DOMAIN slots_in : Kind(slots_in[j]) \in {"jalr", "return"}
  IN  [taken : SUBSET guessed, to : IF indirect THEN build.targets \cup {0} ELSE {0}]

cf_type(g, j) ==
  CASE Kind(slots_in[j]) = "jump" -> "Jump"
    [] Kind(slots_in[j]) = "return" -> "Return"
    [] Kind(slots_in[j]) = "branch" /\ j \in g.taken -> "Branch"
    [] Kind(slots_in[j]) = "jalr" /\ j \in g.taken -> "JumpR"
    [] OTHER -> "NoCF"

(* The immediate of a jump or branch; that of a fetch that faulted may be  *)
(* anything.                                                               *)
Target(instr) == IF instr.lo.at = Nothing THEN 0 ELSE build.target[instr.lo.at]

taken(g) == {j \in DOMAIN slots_in : cf_type(g, j) # "NoCF"}
branch_index(g) == Min(taken(g))
predict_address(g) ==
  IF taken(g) = {} THEN 0
  ELSE IF cf_type(g, branch_index(g)) \in {"JumpR", "Return"} THEN g.to
  ELSE Target(slots_in[branch_index(g)].instr)

bp_valid(g) == \E j \in taken(g) : cf_type(g, j) = "Return" => g.to # 0

(* branch_mask: nothing behind the first taken branch is pushed.           *)
pushed_slots(g) ==
  LET last == IF taken(g) = {} THEN Len(slots_in) ELSE branch_index(g)
  IN  [j \in 1 .. last |->
         [addr |-> slots_in[j].addr, instr |-> slots_in[j].instr, cf |-> cf_type(g, j)]]

Predictions == {[slots |-> pushed_slots(g), address |-> predict_address(g), valid |-> bp_valid(g)] :
                  g \in Guesses}

-----------------------------------------------------------------------------
(* One cycle.  i.bp is the prediction, i.mispredict and i.commit the address the *)
(* branch unit and the commit stage redirect the fetch to, or Nothing,     *)
(* i.fire how many instructions decode takes, i.icache_ready and           *)
(* i.icache_done whether the cache accepts a request and has the answer.   *)
flush(i) == i.mispredict # Nothing \/ i.commit # Nothing
replay(i) == replay_o(i.bp.slots)

kill_s1(i) == flush(i) \/ replay(i)
kill_s2(i) == kill_s1(i) \/ i.bp.valid

(* The cache has the answer to a fetch that nobody killed.                 *)
icache_valid(i) == icache.state = "READ" /\ i.icache_done /\ ~kill_s2(i)
icache_ready(i) ==
  i.icache_ready /\ (icache.state = "IDLE" \/ (icache.state = "READ" /\ i.icache_done))
if_ready(i) == icache_ready(i) /\ ready_o

fetch_address(i) == IF i.bp.valid THEN i.bp.address ELSE npc_q

npc_d(i) ==
  CASE i.commit # Nothing -> i.commit
    [] i.commit = Nothing /\ i.mispredict # Nothing -> i.mispredict
    [] ~flush(i) /\ replay(i) -> replay_addr_o(i.bp.slots)
    [] ~flush(i) /\ ~replay(i) /\ if_ready(i) ->
         Address(Block(fetch_address(i)) + INSTR_PER_FETCH)
    [] OTHER -> fetch_address(i)

(* The block of the fetch, shifted so that the half word asked for is at   *)
(* place 0; a fetch that faults returns anything.                          *)
icache_data(vaddr, noise) ==
  [p \in Fifos |-> IF (vaddr % INSTR_PER_FETCH) + p >= INSTR_PER_FETCH THEN Zeros
                   ELSE IF Block(vaddr) \in build.faults THEN noise
                   ELSE build.mem[vaddr + p]]

icache_next(i) ==
  IF if_ready(i) /\ ~kill_s1(i) THEN [state |-> "READ", vaddr |-> fetch_address(i)]
  ELSE IF icache.state = "IDLE" \/ i.icache_done THEN Idle
  ELSE IF kill_s2(i) THEN [icache EXCEPT !.state = "KILL"] ELSE icache

Noise == [at : {Nothing}, long : BOOLEAN, kind : {"none", "jump"}]

-----------------------------------------------------------------------------
(* What decode was given.  After an instruction with an exception, or a    *)
(* return for which there was no return address, a redirect will follow;   *)
(* what is delivered until then is never executed.  So it is after an      *)
(* instruction that begins with a half word of a fetch that faulted.       *)
Leaves(e) == e.ex \/ e.instr.lo.at = Nothing \/ (e.cf = "Return" /\ e.predict_address = 0)

Path(i) ==
  /\ expected' = IF i.commit # Nothing THEN i.commit
                 ELSE IF i.mispredict # Nothing THEN i.mispredict
                 ELSE IF i.fire = 0 THEN expected
                 ELSE LET e == fetch_entry_o(i.fire - 1)
                      IN  IF e.cf # "NoCF" THEN e.predict_address
                          ELSE Address(e.address + Size(e.instr))
  /\ onpath' = (flush(i) \/ (onpath /\ \A p \in 0 .. i.fire - 1 : ~Leaves(fetch_entry_o(p))))
  /\ dry' = IF flush(i) \/ fetch_entry_valid_o(0) \/ ~i.icache_ready \/ ~i.icache_done
            THEN 0 ELSE dry + 1

Cycle(i) ==
  /\ UNCHANGED build
  /\ QueueCycle(i.bp.slots, fetched, i.bp.address, i.fire, flush(i))
  /\ npc_q' = npc_d(i)
  /\ unaligned_q' = IF kill_s2(i) THEN Nothing
                    ELSE IF fetched = Nothing THEN unaligned_q
                    ELSE unaligned_d(INSTR_PER_FETCH, fetched, unaligned_q)
  /\ icache' = icache_next(i)
  /\ IF icache_valid(i)
     THEN \E noise \in IF Block(icache.vaddr) \in build.faults THEN Noise ELSE {Zeros} :
            fetched' = [vaddr |-> icache.vaddr, data |-> icache_data(icache.vaddr, noise),
                        ex |-> Block(icache.vaddr) \in build.faults]
     ELSE fetched' = Nothing
  /\ Path(i)

Fires == {n \in 0 .. build.ports : \A p \in 0 .. n - 1 : fetch_entry_valid_o(p)}

Next ==
  \E bp \in Predictions, fire \in Fires, mispredict \in {Nothing} \cup build.mispredicts,
     commit \in {Nothing} \cup build.commits, ready, done \in BOOLEAN :
    /\ icache.state = "IDLE" => done
    /\ Cycle([bp |-> bp, fire |-> fire, mispredict |-> mispredict, commit |-> commit,
              icache_ready |-> ready, icache_done |-> done])

Spec == Init /\ [][Next]_vars

-----------------------------------------------------------------------------
Offered == {p \in Ports : /\ fetch_entry_valid_o(p) /\ onpath
                          /\ \A q \in 0 .. p - 1 : ~Leaves(fetch_entry_o(q))}


(* A jump or a taken branch is delivered with its own target, and nothing  *)
(* else is taken for one: the FIFO of addresses stays in step with the     *)
(* FIFOs of instructions when either is full (assertion                    *)
(* replay_address_fifo).                                                   *)
PredictionsAreOwn ==
  /\ Len(address_fifo) =
       Cardinality(UNION {{<<i, k>> : k \in {k \in DOMAIN instr_fifo[i] :
                                               instr_fifo[i][k].cf # "NoCF"}} : i \in Fifos})
  /\ \A p \in Offered :
       LET e == fetch_entry_o(p)
       IN  e.cf \in {"Jump", "Branch"} /\ e.instr.lo.at # Nothing
             => e.predict_address = Target(e.instr)

(* While the cache answers at once, decode does not wait long: no fetch is *)
(* killed without another that replaces it.                                *)
NeverDryForLong == dry <= DryCycles
=============================================================================
