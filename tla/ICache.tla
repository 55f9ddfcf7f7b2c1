------------------------------- MODULE ICache -------------------------------
(***************************************************************************)
(* The instruction cache (core/cache_subsystem/cva6_icache.sv) between the *)
(* frontend, the MMU and the memory system.  One step is one clock cycle.  *)
(*                                                                         *)
(* An address is a tag, the index of a set and a word of the line; virtual *)
(* and physical tag are the same.  What a cell of the memory arrays, a     *)
(* read-out or an answer of the memory holds is the line it came from and  *)
(* whether it is stale: older than the last flush.  The inputs of a cycle  *)
(* are a record in with the names of the ports, dreq being the address     *)
(* asked for or NoAddr, and rtrn the packet from memory.                   *)
(***************************************************************************)
EXTENDS Naturals, FiniteSetsExt

CONSTANTS Addrs, NoTag,               \* the addresses fetched from
          Cacheable, NonIdempotent,   \* the tags with these attributes
          NumSets, NumWays, NonIdemPotenceEn,
          Toggles,                    \* the cache is switched on and off
          Invalidates                 \* the memory invalidates lines

Sets == 0..(NumSets - 1)
Ways == 0..(NumWays - 1)
Tags == {a.tag : a \in Addrs}

ASSUME ICacheSizes ==
  /\ NumSets \in Nat \ {0} /\ NumWays \in Nat \ {0}
  /\ Addrs \subseteq [tag : Tags, idx : Sets, off : 0..3] /\ NoTag \notin Tags
  /\ Cacheable \subseteq Tags /\ NonIdempotent \subseteq Tags
  /\ NonIdemPotenceEn \in BOOLEAN /\ Toggles \in BOOLEAN /\ Invalidates \in BOOLEAN

VARIABLES
  state_q, cache_en_q, flush_q, flush_cnt_q, cmp_en_q, inv_q,
  vaddr_q, cl_offset_q, cl_tag_q, repl_way_q, rnd_way,
  mem,       \* the tag and data arrays: a cell for each set and way
  rdata,     \* the cells of the set that was read last
  miss,      \* the request the memory works on
  pending,   \* history: the request that is neither answered nor killed
  answer     \* history: what was answered in the last cycle

vars == <<state_q, cache_en_q, flush_q, flush_cnt_q, cmp_en_q, inv_q, vaddr_q, cl_offset_q,
          cl_tag_q, repl_way_q, rnd_way, mem, rdata, miss, pending, answer>>

NoAddr == [tag |-> NoTag, idx |-> 0, off |-> 0]
NoLine == [tag |-> NoTag, idx |-> 0, nc |-> FALSE, dword |-> 0, stale |-> FALSE]
NoCell == [valid |-> FALSE, tag |-> NoTag, line |-> NoLine]
NoMiss == [vld |-> FALSE, way |-> 0, line |-> NoLine]
NoAnswer == [valid |-> FALSE, ex |-> FALSE, asked |-> NoAddr, got |-> NoAddr, stale |-> FALSE]
Nothing == [type |-> "NONE", idx |-> 0, all |-> FALSE, way |-> 0]

(* What a cell holds before it is written for the first time: any tag,     *)
(* valid or not, with a line that is none.                                 *)
Garbage ==
  {NoCell} \cup [valid : {TRUE}, tag : Tags, line : {[NoLine EXCEPT !.stale = TRUE]}]

(* The arrays have no reset; the sweep of the state FLUSH clears them.     *)
Init ==
  /\ state_q = "FLUSH"
  /\ cache_en_q = FALSE /\ flush_q = FALSE /\ flush_cnt_q = 0
  /\ cmp_en_q = FALSE /\ inv_q = FALSE
  /\ vaddr_q = NoAddr /\ cl_offset_q = 0 /\ cl_tag_q = NoTag
  /\ repl_way_q = 0 /\ rnd_way \in Ways
  /\ mem \in [Sets -> [Ways -> Garbage]]
  /\ rdata = mem[0]
  /\ miss = NoMiss
  /\ pending = NoAddr /\ answer = NoAnswer

(***************************************************************************)
(* Combinational signals.                                                  *)
(***************************************************************************)

(* Fault: a flush that cannot start at once is forgotten. *)
flush_d_pulse(in) == in.flush

flush_d(in) == flush_q \/ in.flush
inv_en(in) == in.rtrn.type = "INV"
fills(in) == in.rtrn.type = "IFILL"

cl_tag_d(in) == IF in.fetch_valid THEN vaddr_q.tag ELSE cl_tag_q

paddr_is_nc(in) == ~cache_en_q \/ cl_tag_d(in) \notin Cacheable

cl_hit(in) == {w \in Ways : rdata[w].valid /\ rdata[w].tag = cl_tag_d(in)}

all_ways_valid == \A w \in Ways : rdata[w].valid
inv_way == Min({w \in Ways : ~rdata[w].valid})
repl_way == IF all_ways_valid THEN rnd_way ELSE inv_way

(* Translated, and not a speculative access with side effects.             *)
Translated(in) ==
  /\ state_q = "READ" /\ in.fetch_valid
  /\ ~in.spec \/ ~NonIdemPotenceEn \/ vaddr_q.tag \notin NonIdempotent

(* A hit, or a fetch exception instead of data.                            *)
Served(in) ==
  /\ Translated(in) /\ ~flush_d(in) /\ ~inv_q
  /\ (cl_hit(in) # {} /\ cache_en_q) \/ in.ex

mem_data_req(in) ==
  Translated(in) /\ ~flush_d(in) /\ ~Served(in) /\ ~in.kill_s2 /\ ~inv_q

Filled(in) == state_q = "MISS" /\ fills(in) /\ ~in.kill_s2 /\ ~flush_d(in)

dreq_valid(in) == (Served(in) /\ ~in.kill_s2) \/ Filled(in)

starts_flush(in) == flush_d(in) \/ (in.en /\ ~cache_en_q)

dreq_ready(in) ==
  /\ in.rtrn.type = "NONE"
  /\ (state_q = "IDLE" /\ ~starts_flush(in)) \/ Served(in)

Accepts(in) == dreq_ready(in) /\ in.dreq # NoAddr

flush_done == flush_cnt_q = NumSets - 1

cache_rden(in) ==
  \/ state_q = "IDLE" /\ Accepts(in)
  \/ state_q = "READ" /\ cache_en_q

cache_wren(in) == Filled(in) /\ ~paddr_is_nc(in)

(* The set whose tags are accessed: cleared, invalidated, or looked up.    *)
vaddr_d(in) == IF Accepts(in) THEN in.dreq ELSE vaddr_q

vld_addr(in) ==
  IF state_q = "FLUSH" THEN flush_cnt_q
  ELSE IF inv_en(in) THEN in.rtrn.idx
  ELSE vaddr_d(in).idx

(* Fault: a line is marked valid in every way. *)
vld_req_all(in) == Ways

vld_req(in) ==
  IF state_q = "FLUSH" \/ cache_rden(in) \/ (inv_en(in) /\ in.rtrn.all) THEN Ways
  ELSE IF inv_en(in) THEN {in.rtrn.way}
  ELSE {repl_way_q}

(* What a request asks the memory for: a line, or the two words around the *)
(* address if it is not cacheable.                                         *)
mem_data(in) ==
  [tag |-> cl_tag_d(in), idx |-> vaddr_q.idx, nc |-> paddr_is_nc(in),
   dword |-> IF paddr_is_nc(in) THEN vaddr_q.off \div 2 ELSE 0, stale |-> FALSE]

(* The answers to two words are at the start of the line.                  *)
cl_offset_d(in) ==
  IF Accepts(in) THEN in.dreq.off
  ELSE IF paddr_is_nc(in) /\ mem_data_req(in) THEN cl_offset_q % 2
  ELSE cl_offset_q

dreq_data(in) ==
  LET line == IF cmp_en_q THEN (IF cl_hit(in) = {} THEN NoLine ELSE rdata[Min(cl_hit(in))].line)
              ELSE IF fills(in) THEN miss.line ELSE NoLine
  IN  [tag |-> line.tag, idx |-> line.idx,
       off |-> IF line.nc THEN 2 * line.dword + cl_offset_q ELSE cl_offset_q]

(* Fault: a request is dropped when an invalidation cuts its read-out short. *)
state_d_inv(in) ==
  CASE state_q = "FLUSH" -> IF flush_done THEN "IDLE" ELSE "FLUSH"
    [] state_q = "IDLE" ->
         IF starts_flush(in) THEN "FLUSH"
         ELSE IF Accepts(in) /\ ~in.kill_s1 THEN "READ" ELSE "IDLE"
    [] state_q = "READ" ->
         IF Served(in) THEN (IF Accepts(in) /\ ~in.kill_s1 THEN "READ" ELSE "IDLE")
         ELSE IF mem_data_req(in) THEN (IF in.ack THEN "MISS" ELSE "READ")
         ELSE IF Translated(in) THEN (IF flush_d(in) \/ in.kill_s2 \/ inv_q THEN "IDLE" ELSE "READ")
         ELSE IF in.kill_s2 \/ flush_d(in) THEN "KILL_ATRANS" ELSE "READ"
    [] state_q = "MISS" ->
         IF fills(in) THEN "IDLE"
         ELSE IF in.kill_s2 \/ flush_d(in) THEN "KILL_MISS" ELSE "MISS"
    [] state_q = "KILL_ATRANS" -> IF in.fetch_valid THEN "IDLE" ELSE "KILL_ATRANS"
    [] state_q = "KILL_MISS" -> IF fills(in) THEN "IDLE" ELSE "KILL_MISS"

state_d(in) ==
  CASE state_q = "FLUSH" -> IF flush_done THEN "IDLE" ELSE "FLUSH"
    [] state_q = "IDLE" ->
         IF starts_flush(in) THEN "FLUSH"
         ELSE IF Accepts(in) /\ ~in.kill_s1 THEN "READ" ELSE "IDLE"
    [] state_q = "READ" ->
         IF Served(in) THEN (IF Accepts(in) /\ ~in.kill_s1 THEN "READ" ELSE "IDLE")
         ELSE IF mem_data_req(in) THEN (IF in.ack THEN "MISS" ELSE "READ")
         ELSE IF Translated(in) THEN (IF flush_d(in) \/ in.kill_s2 THEN "IDLE" ELSE "READ")
         ELSE IF in.kill_s2 \/ flush_d(in) THEN "KILL_ATRANS" ELSE "READ"
    [] state_q = "MISS" ->
         IF fills(in) THEN "IDLE"
         ELSE IF in.kill_s2 \/ flush_d(in) THEN "KILL_MISS" ELSE "MISS"
    [] state_q = "KILL_ATRANS" -> IF in.fetch_valid THEN "IDLE" ELSE "KILL_ATRANS"
    [] state_q = "KILL_MISS" -> IF fills(in) THEN "IDLE" ELSE "KILL_MISS"

(* Fault: the way is not chosen again after an invalidation. *)
cmp_en_d_idle(in) == cache_en_q /\ state_q = "IDLE"

cmp_en_d(in) ==
  /\ cache_en_q
  /\ state_q = "IDLE" \/ (state_q = "READ" /\ ~mem_data_req(in))

repl_way_d == IF cmp_en_q THEN repl_way ELSE repl_way_q

(***************************************************************************)
(* The memory arrays: a write to the tags takes away the read.  Cells that *)
(* become invalid are cleared.                                             *)
(***************************************************************************)

Written(in) ==
  LET cell == IF cache_wren(in) THEN [valid |-> TRUE, tag |-> cl_tag_q, line |-> miss.line]
              ELSE NoCell
  IN  IF cache_wren(in) \/ inv_en(in) \/ state_q = "FLUSH"
      THEN [mem EXCEPT ![vld_addr(in)] = [w \in Ways |-> IF w \in vld_req(in) THEN cell ELSE @[w]]]
      ELSE mem

Read(in) ==
  IF cache_rden(in) /\ ~inv_en(in) THEN mem[vaddr_d(in).idx] ELSE rdata

(* A flush makes stale whatever was fetched before it.                     *)
Aged(cell) == IF cell.valid THEN [cell EXCEPT !.line.stale = TRUE] ELSE cell
AfterFlush(flush, cells) == IF flush THEN [w \in Ways |-> Aged(cells[w])] ELSE cells

(***************************************************************************)
(* One clock cycle.                                                        *)
(***************************************************************************)
Cycle(in) ==
  LET next == state_d(in)
      sent == IF mem_data_req(in) /\ in.ack
              THEN [vld |-> TRUE, way |-> repl_way, line |-> mem_data(in)]
              ELSE IF fills(in) THEN NoMiss ELSE miss
  IN  /\ state_q' = next
      /\ cache_en_q' = IF state_q = "FLUSH" /\ flush_done THEN in.en ELSE cache_en_q /\ in.en
      /\ flush_q' = (flush_d(in) /\ ~(state_q = "FLUSH" /\ flush_done))
      /\ flush_cnt_q' = IF flush_done THEN 0
                        ELSE IF state_q = "FLUSH" THEN flush_cnt_q + 1 ELSE flush_cnt_q
      /\ cmp_en_q' = cmp_en_d(in)
      /\ inv_q' = inv_en(in)
      /\ vaddr_q' = vaddr_d(in)
      /\ cl_offset_q' = cl_offset_d(in)
      /\ cl_tag_q' = cl_tag_d(in)
      /\ repl_way_q' = repl_way_d
      /\ rnd_way' \in IF cache_wren(in) /\ all_ways_valid THEN Ways ELSE {rnd_way}
      /\ mem' = [s \in Sets |-> AfterFlush(in.flush, Written(in)[s])]
      /\ rdata' = AfterFlush(in.flush, Read(in))
      /\ miss' = IF in.flush /\ sent.vld THEN [sent EXCEPT !.line.stale = TRUE] ELSE sent
      /\ pending' = IF Accepts(in) /\ ~in.kill_s1 THEN in.dreq
                    ELSE IF dreq_valid(in) \/ in.kill_s2 THEN NoAddr ELSE pending
      /\ answer' = IF ~dreq_valid(in) THEN NoAnswer
                   ELSE IF in.ex THEN [NoAnswer EXCEPT !.valid = TRUE, !.ex = TRUE, !.asked = pending]
                   ELSE [valid |-> TRUE, ex |-> FALSE, asked |-> pending, got |-> dreq_data(in),
                         stale |-> (IF cmp_en_q THEN rdata[Min(cl_hit(in))].line ELSE miss.line).stale]

(***************************************************************************)
(* The neighbours.  A FENCE.I flushes the cache and the frontend together, *)
(* and the frontend kills the request in its second stage whenever it      *)
(* kills the one in its first.  The MMU answers while it is asked, with or *)
(* without an exception; the memory answers the one request it has, and    *)
(* invalidates a way or all ways of a set.                                 *)
(***************************************************************************)

When(condition) == IF condition THEN BOOLEAN ELSE {FALSE}

Kills ==
  {"none", "flush"} \cup (IF state_q \in {"IDLE", "READ", "MISS"} THEN {"s2", "s1"} ELSE {})

Returns ==
  {Nothing}
    \cup (IF miss.vld THEN {[Nothing EXCEPT !.type = "IFILL"]} ELSE {})
    \cup (IF Invalidates
          THEN [type : {"INV"}, idx : Sets, all : {FALSE}, way : Ways]
                 \cup [type : {"INV"}, idx : Sets, all : {TRUE}, way : {0}]
          ELSE {})

Input(dreq, kill, en, fetch_valid, ex, spec, ack, rtrn) ==
  [dreq |-> dreq, flush |-> kill = "flush", kill_s1 |-> kill \in {"flush", "s1"},
   kill_s2 |-> kill # "none", en |-> en, fetch_valid |-> fetch_valid, ex |-> ex,
   spec |-> spec, ack |-> ack, rtrn |-> rtrn]

(* A choice that cannot matter in a cycle is not offered. *)
Next ==
  \E kill \in Kills, en \in IF Toggles THEN BOOLEAN ELSE {TRUE}, rtrn \in Returns,
     fetch_valid \in When(state_q \in {"READ", "KILL_ATRANS"}) :
    \E ex \in When(state_q = "READ" /\ fetch_valid),
       spec \in When(state_q = "READ" /\ vaddr_q.tag \in NonIdempotent) :
      LET in == Input(NoAddr, kill, en, fetch_valid, ex, spec, FALSE, rtrn)
      IN  \E dreq \in {NoAddr} \cup (IF dreq_ready(in) THEN Addrs ELSE {}), ack \in When(mem_data_req(in)) :
            Cycle([in EXCEPT !.dreq = dreq, !.ack = ack])

Spec == Init /\ [][Next]_vars

(* A cycle in which the frontend waits, and MMU and memory do what they    *)
(* are asked.                                                              *)
Calm ==
  Cycle(Input(NoAddr, "none", cache_en_q, state_q \in {"READ", "KILL_ATRANS"}, FALSE, FALSE, TRUE,
              [Nothing EXCEPT !.type = IF miss.vld THEN "IFILL" ELSE "NONE"]))

(* The clock goes on. *)
FairSpec == Spec /\ WF_vars(Calm)

(***************************************************************************)
(* Properties.                                                             *)
(***************************************************************************)

(* The word that is delivered is the word that was asked for, and was      *)
(* fetched after the last FENCE.I: the tag of the comparison, the index of *)
(* the read-out and the offset come from different cycles, a read-out may  *)
(* be cut short by an invalidation, and a flush may meet a miss on its way.*)
RightAndFresh ==
  answer.valid /\ ~answer.ex => answer.asked # NoAddr /\ answer.got = answer.asked /\ ~answer.stale

(* core/cache_subsystem/cva6_icache.sv:584: a line is in one way of its    *)
(* set.  It is where its tag says, and nothing that may not be cached is   *)
(* there, nor what the arrays held before the sweep of the state FLUSH.    *)
OneCopyOfALine ==
  state_q # "FLUSH" => \A s \in Sets, w \in Ways :
    mem[s][w].valid =>
      /\ mem[s][w].tag \in Cacheable
      /\ mem[s][w].line.tag = mem[s][w].tag /\ mem[s][w].line.idx = s
      /\ \A v \in Ways \ {w} : mem[s][v].valid => mem[s][v].tag # mem[s][w].tag

(* The line that comes back is written to the way that was announced to    *)
(* the memory with the request, though the way is chosen anew in every     *)
(* cycle and only registered while tags are compared.  The memory keeps    *)
(* track of the lines in the cache by way and would invalidate another.    *)
WayAsAnnounced ==
  state_q = "MISS" /\ ~miss.line.nc => miss.vld /\ repl_way_q = miss.way

(* When nothing else happens a fetch that is not killed is answered.       *)
EveryFetchIsAnswered == <>[][Calm]_vars => []<>(pending = NoAddr)
=============================================================================
