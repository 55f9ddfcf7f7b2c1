---------------------------- MODULE ICacheProofs ----------------------------
(***************************************************************************)
(* The instruction cache answers with the right and a fresh word, keeps    *)
(* one copy of a line and fills the way it announced, for every number of  *)
(* sets and ways, every set of addresses and every choice of attributes.   *)
(***************************************************************************)
EXTENDS ICache, TLAPS

(***************************************************************************)
(* The inductive invariant.                                                *)
(***************************************************************************)

States == {"FLUSH", "IDLE", "READ", "MISS", "KILL_ATRANS", "KILL_MISS"}
Lines == [tag : Tags \cup {NoTag}, idx : Sets, nc : BOOLEAN, dword : 0..1, stale : BOOLEAN]
Cells == [valid : BOOLEAN, tag : Tags \cup {NoTag}, line : Lines]

Types ==
  /\ state_q \in States
  /\ cache_en_q \in BOOLEAN /\ flush_q \in BOOLEAN /\ cmp_en_q \in BOOLEAN /\ inv_q \in BOOLEAN
  /\ flush_cnt_q \in Sets
  /\ vaddr_q \in Addrs \cup {NoAddr} /\ cl_offset_q \in 0..3 /\ cl_tag_q \in Tags \cup {NoTag}
  /\ mem \in [Sets -> [Ways -> Cells]] /\ rdata \in [Ways -> Cells]
  /\ miss.vld \in BOOLEAN /\ miss.line \in Lines
  /\ miss = [vld |-> miss.vld, way |-> miss.way, line |-> miss.line]

(* The address register follows the request that waits for an answer.      *)
Asks == state_q \in {"READ", "MISS"} => pending = vaddr_q /\ vaddr_q \in Addrs

Uncached(tag) == ~cache_en_q \/ tag \notin Cacheable

(* A line of the cache is whole.                                           *)
WholeLines == \A s \in Sets, w \in Ways : mem[s][w].valid => ~mem[s][w].line.nc

(* The read-out is the set that is asked for, but after an invalidation;   *)
(* it is not compared again only if it was compared without a hit.         *)
ReadsOut ==
  state_q = "READ" /\ cache_en_q =>
    /\ ~inv_q => rdata = mem[vaddr_q.idx]
    /\ ~cmp_en_q => /\ repl_way_q = repl_way
                    /\ \A w \in Ways : rdata[w].valid => rdata[w].tag # vaddr_q.tag

(* The offset is cut to two words only for a request that is not cached.   *)
OffsetIsCut ==
  state_q = "READ" =>
    \/ cl_offset_q = vaddr_q.off
    \/ cl_offset_q = vaddr_q.off % 2 /\ Uncached(vaddr_q.tag)

(* The memory works on the request of the state MISS, whose line is not in *)
(* the cache.                                                              *)
WaitsForFill ==
  state_q = "MISS" =>
    /\ ~cmp_en_q /\ miss.vld /\ ~miss.line.stale
    /\ cl_tag_q = vaddr_q.tag /\ miss.line.tag = vaddr_q.tag /\ miss.line.idx = vaddr_q.idx
    /\ miss.line.nc => /\ Uncached(cl_tag_q)
                       /\ miss.line.dword = vaddr_q.off \div 2 /\ cl_offset_q = vaddr_q.off % 2
    /\ ~miss.line.nc => cl_offset_q = vaddr_q.off /\ repl_way_q = miss.way
    /\ ~Uncached(cl_tag_q) =>
         \A w \in Ways : mem[vaddr_q.idx][w].valid => mem[vaddr_q.idx][w].tag # cl_tag_q

OneMiss == miss.vld => state_q \in {"MISS", "KILL_MISS"}

(* A stale line is only found while a flush waits or has not come to its   *)
(* set.                                                                    *)
FlushGoesOn ==
  /\ state_q # "FLUSH" => flush_cnt_q = 0
  /\ \A s \in Sets, w \in Ways : mem[s][w].valid =>
       /\ state_q = "FLUSH" => flush_cnt_q <= s
       /\ mem[s][w].line.stale => flush_q \/ state_q = "FLUSH"

IInv ==
  /\ Types /\ Asks /\ OneCopyOfALine /\ WholeLines /\ ReadsOut /\ OffsetIsCut
  /\ WaitsForFill /\ OneMiss /\ FlushGoesOn /\ RightAndFresh

(***************************************************************************)
(* What the neighbours may do in a cycle.                                  *)
(***************************************************************************)
Legal(in) ==
  /\ in.dreq \in Addrs \cup {NoAddr}
  /\ in.flush \in BOOLEAN /\ in.kill_s1 \in BOOLEAN /\ in.kill_s2 \in BOOLEAN /\ in.en \in BOOLEAN
  /\ in.flush => in.kill_s1
  /\ in.kill_s1 => in.kill_s2
  /\ in.fetch_valid \in BOOLEAN /\ in.ex \in BOOLEAN /\ in.ack \in BOOLEAN
  /\ in.fetch_valid => state_q \in {"READ", "KILL_ATRANS"}
  /\ in.rtrn.type \in {"NONE", "IFILL", "INV"}
  /\ in.rtrn.type = "IFILL" => miss.vld
  /\ in.rtrn.type = "INV" => in.rtrn.idx \in Sets

(* Every step is a cycle with such inputs. *)
LEMMA NextIsLegal ==
  ASSUME Next, miss.vld \in BOOLEAN
  PROVE  \E in : Legal(in) /\ Cycle(in)
<1>1. PICK kill \in Kills, en \in (IF Toggles THEN BOOLEAN ELSE {TRUE}), rtrn \in Returns,
           fetch_valid \in When(state_q \in {"READ", "KILL_ATRANS"}) :
        \E ex \in When(state_q = "READ" /\ fetch_valid),
           spec \in When(state_q = "READ" /\ vaddr_q.tag \in NonIdempotent) :
          LET in == Input(NoAddr, kill, en, fetch_valid, ex, spec, FALSE, rtrn)
          IN  \E dreq \in {NoAddr} \cup (IF dreq_ready(in) THEN Addrs ELSE {}), ack \in When(mem_data_req(in)) :
                Cycle([in EXCEPT !.dreq = dreq, !.ack = ack])
  BY Zenon DEF Next
<1>2. PICK ex \in When(state_q = "READ" /\ fetch_valid),
           spec \in When(state_q = "READ" /\ vaddr_q.tag \in NonIdempotent) :
          LET in == Input(NoAddr, kill, en, fetch_valid, ex, spec, FALSE, rtrn)
          IN  \E dreq \in {NoAddr} \cup (IF dreq_ready(in) THEN Addrs ELSE {}), ack \in When(mem_data_req(in)) :
                Cycle([in EXCEPT !.dreq = dreq, !.ack = ack])
  BY Zenon, <1>1
<1> DEFINE in0 == Input(NoAddr, kill, en, fetch_valid, ex, spec, FALSE, rtrn)
<1>3. PICK dreq \in {NoAddr} \cup (IF dreq_ready(in0) THEN Addrs ELSE {}), ack \in When(mem_data_req(in0)) :
        Cycle([in0 EXCEPT !.dreq = dreq, !.ack = ack])
  BY Zenon, <1>2
<1> DEFINE in == [in0 EXCEPT !.dreq = dreq, !.ack = ack]
<1>4. dreq \in Addrs \cup {NoAddr} /\ ack \in BOOLEAN
  BY Zenon, <1>3 DEF When
<1>5. /\ fetch_valid \in BOOLEAN /\ ex \in BOOLEAN /\ en \in BOOLEAN
      /\ fetch_valid => state_q \in {"READ", "KILL_ATRANS"}
  BY DEF When
<1>6. /\ rtrn.type \in {"NONE", "IFILL", "INV"}
      /\ rtrn.type = "IFILL" => miss.vld
      /\ rtrn.type = "INV" => rtrn.idx \in Sets
  <2>1. \/ rtrn = Nothing
        \/ miss.vld /\ rtrn = [Nothing EXCEPT !.type = "IFILL"]
        \/ rtrn \in [type : {"INV"}, idx : Sets, all : {FALSE}, way : Ways]
        \/ rtrn \in [type : {"INV"}, idx : Sets, all : {TRUE}, way : {0}]
    BY Zenon DEF Returns
  <2>2. CASE rtrn = Nothing BY <2>2 DEF Nothing
  <2>3. CASE miss.vld /\ rtrn = [Nothing EXCEPT !.type = "IFILL"] BY <2>3 DEF Nothing
  <2>4. CASE rtrn \in [type : {"INV"}, idx : Sets, all : {FALSE}, way : Ways] BY <2>4
  <2>5. CASE rtrn \in [type : {"INV"}, idx : Sets, all : {TRUE}, way : {0}] BY <2>5
  <2> QED BY <2>1, <2>2, <2>3, <2>4, <2>5
<1>7. Legal(in)
  BY <1>4, <1>5, <1>6 DEF Legal, Input
<1> QED BY <1>3, <1>7

(***************************************************************************)
(* Facts about a cycle.                                                    *)
(***************************************************************************)

(* The parts of an address. *)
LEMMA AddrParts ==
  /\ \A a \in Addrs : a.tag \in Tags /\ a.idx \in Sets /\ a.off \in 0..3 /\ a # NoAddr
  /\ NoAddr.tag = NoTag /\ NoAddr.idx \in Sets /\ NoAddr.off \in 0..3
  /\ NoTag \notin Tags
BY ICacheSizes DEF NoAddr, Sets

(* Nothing is accepted while the memory answers, nor outside of IDLE and   *)
(* READ.                                                                   *)
LEMMA Accepting ==
  ASSUME IInv, NEW in, Legal(in)
  PROVE  /\ Accepts(in) => /\ state_q = "IDLE" \/ (state_q = "READ" /\ Served(in))
                           /\ in.rtrn.type = "NONE" /\ in.dreq \in Addrs
         /\ vaddr_d(in) \in Addrs \cup {NoAddr}
BY DEF IInv, Types, Legal, Accepts, dreq_ready, Served, Translated, vaddr_d

(* The memory answers the one request it has. *)
LEMMA Filling ==
  ASSUME IInv, NEW in, Legal(in), fills(in)
  PROVE  state_q \in {"MISS", "KILL_MISS"}
BY DEF IInv, Legal, fills, OneMiss

(* Lines are written in MISS only. *)
LEMMA Writing ==
  ASSUME IInv, NEW in, Legal(in), cache_wren(in)
  PROVE  /\ state_q = "MISS" /\ fills(in) /\ ~in.flush /\ ~flush_q
         /\ ~Uncached(cl_tag_q) /\ ~inv_en(in) /\ ~cache_rden(in) /\ ~Accepts(in)
BY DEF IInv, Types, Legal, cache_wren, Filled, flush_d, paddr_is_nc, cl_tag_d, Uncached, inv_en,
       fills, cache_rden, Accepts, dreq_ready

(* A line is asked for in READ only, when it is not in the set. *)
LEMMA Requesting ==
  ASSUME IInv, NEW in, Legal(in), mem_data_req(in)
  PROVE  /\ state_q = "READ" /\ in.fetch_valid /\ ~in.flush /\ ~flush_q
         /\ ~in.kill_s2 /\ ~inv_q /\ ~in.ex /\ ~Accepts(in) /\ ~Served(in)
         /\ cache_en_q => cl_hit(in) = {}
BY DEF IInv, Types, Legal, mem_data_req, Translated, Served, flush_d, Accepts, dreq_ready

(* A cell that keeps its line, which a flush makes stale. *)
Keeps(old, new) ==
  /\ old.valid /\ new.tag = old.tag
  /\ new.line.tag = old.line.tag /\ new.line.idx = old.line.idx /\ new.line.nc = old.line.nc

(* What a flush does to a cell. *)
LEMMA Ageing ==
  ASSUME NEW c \in Cells
  PROVE  /\ Aged(c) \in Cells /\ Aged(c).valid = c.valid
         /\ c.valid => Keeps(c, Aged(c)) /\ Keeps(c, c)
BY DEF Aged, Cells, Lines, Keeps

(* A valid cell of the next cycle was there before, in a set that is not   *)
(* cleared, or is the line that came from memory.                          *)
LEMMA CellStep ==
  ASSUME IInv, NEW in, Legal(in), Cycle(in)
  PROVE  /\ mem' \in [Sets -> [Ways -> Cells]]
         /\ \A s \in Sets, w \in Ways : mem'[s][w].valid =>
              \/ /\ Keeps(mem[s][w], mem'[s][w])
                 /\ mem'[s][w].line.stale => mem[s][w].line.stale \/ in.flush
                 /\ ~(state_q = "FLUSH" /\ s = flush_cnt_q)
              \/ /\ cache_wren(in) /\ s = vaddr_q.idx /\ w = repl_way_q
                 /\ mem'[s][w] = [valid |-> TRUE, tag |-> cl_tag_q, line |-> miss.line]
<1> DEFINE new == [valid |-> TRUE, tag |-> cl_tag_q, line |-> miss.line]
           cell == IF cache_wren(in) THEN new ELSE NoCell
           writes == cache_wren(in) \/ inv_en(in) \/ state_q = "FLUSH"
           before == [s \in Sets |-> IF writes /\ s = vld_addr(in)
                        THEN [w \in Ways |-> IF w \in vld_req(in) THEN cell ELSE mem[s][w]]
                        ELSE mem[s]]
<1>1. cell \in Cells /\ ~NoCell.valid
  BY ICacheSizes DEF IInv, Types, Cells, Lines, NoCell, NoLine, Sets
<1>2. Written(in) = before
  <2>1. mem \in [Sets -> [Ways -> Cells]] BY DEF IInv, Types
  <2> QED BY <2>1 DEF Written
<1>3. before \in [Sets -> [Ways -> Cells]]
  BY <1>1 DEF IInv, Types
<1>4. mem' = [s \in Sets |-> AfterFlush(in.flush, before[s])]
  BY <1>2 DEF Cycle
<1>5. cache_wren(in) => vld_req(in) = {repl_way_q} /\ vld_addr(in) = vaddr_q.idx /\ ~in.flush
  BY Writing DEF vld_req, vld_addr, vaddr_d
<1>6. state_q = "FLUSH" => vld_req(in) = Ways /\ vld_addr(in) = flush_cnt_q /\ ~cache_wren(in)
  BY Writing DEF vld_req, vld_addr
<1> HIDE DEF before
<1>7. mem' \in [Sets -> [Ways -> Cells]]
  BY <1>3, <1>4, Ageing DEF AfterFlush
<1>8. ASSUME NEW s \in Sets, NEW w \in Ways, mem'[s][w].valid
      PROVE  \/ /\ Keeps(mem[s][w], mem'[s][w])
                /\ mem'[s][w].line.stale => mem[s][w].line.stale \/ in.flush
                /\ ~(state_q = "FLUSH" /\ s = flush_cnt_q)
             \/ /\ cache_wren(in) /\ s = vaddr_q.idx /\ w = repl_way_q
                /\ mem'[s][w] = new
  <2>1. /\ before[s] \in [Ways -> Cells] /\ before[s][w].valid
        /\ Keeps(before[s][w], mem'[s][w])
        /\ ~in.flush => mem'[s][w] = before[s][w]
    <3>1. /\ before[s] \in [Ways -> Cells] /\ before[s][w] \in Cells
          /\ mem'[s][w] = IF in.flush THEN Aged(before[s][w]) ELSE before[s][w]
      BY <1>3, <1>4 DEF AfterFlush
    <3> QED BY <1>8, <3>1, Ageing
  <2>2. before[s][w] = IF writes /\ s = vld_addr(in) /\ w \in vld_req(in) THEN cell ELSE mem[s][w]
    BY DEF before, IInv, Types
  <2>3. CASE writes /\ s = vld_addr(in) /\ w \in vld_req(in)
    <3>1. cache_wren(in) BY <2>1, <2>2, <2>3, <1>1
    <3>2. mem'[s][w] = before[s][w] BY <1>5, <2>1, <3>1
    <3> QED BY <1>5, <2>2, <2>3, <3>1, <3>2
  <2>4. CASE ~(writes /\ s = vld_addr(in) /\ w \in vld_req(in))
    BY <1>6, <2>1, <2>2, <2>4
  <2> QED BY <2>3, <2>4
<1> QED BY <1>7, <1>8

(* How a cycle comes into each state. *)
LEMMA StateStep ==
  ASSUME IInv, NEW in, Legal(in), Cycle(in)
  PROVE  /\ state_q' \in States
         /\ state_q' = "READ" =>
              \/ Accepts(in) /\ ~in.kill_s1 /\ ~in.flush
              \/ /\ state_q = "READ" /\ ~Accepts(in) /\ ~Served(in)
                 /\ ~in.kill_s2 /\ ~in.flush /\ ~flush_q
                 /\ mem_data_req(in) => ~in.ack
         /\ state_q' = "MISS" =>
              \/ mem_data_req(in) /\ in.ack
              \/ state_q = "MISS" /\ ~fills(in) /\ ~in.kill_s2 /\ ~in.flush
         /\ state_q' = "FLUSH" =>
              \/ state_q = "FLUSH" /\ ~flush_done
              \/ state_q = "IDLE"
         /\ state_q = "FLUSH" => state_q' = IF flush_done THEN "IDLE" ELSE "FLUSH"
         /\ mem_data_req(in) /\ in.ack => state_q' = "MISS"
         /\ state_q \in {"MISS", "KILL_MISS"} /\ ~fills(in) => state_q' \in {"MISS", "KILL_MISS"}
<1>0. state_q' = state_d(in) BY DEF Cycle
<1>a. /\ in.flush \in BOOLEAN /\ in.kill_s1 \in BOOLEAN /\ in.kill_s2 \in BOOLEAN /\ in.ack \in BOOLEAN
      /\ in.flush => in.kill_s1
      /\ in.kill_s1 => in.kill_s2
  BY DEF Legal
<1>b. /\ Accepts(in) => state_q = "IDLE" \/ (state_q = "READ" /\ Served(in))
      /\ fills(in) => state_q \in {"MISS", "KILL_MISS"}
      /\ mem_data_req(in) => state_q = "READ" /\ ~in.flush /\ ~flush_q /\ ~in.kill_s2 /\ ~Accepts(in)
      /\ Served(in) => ~mem_data_req(in)
  BY Accepting, Filling, Requesting
<1>c. flush_d(in) <=> flush_q \/ in.flush BY DEF flush_d
<1> USE DEF States
<1>1. CASE state_q = "FLUSH"
  <2>1. state_q' = IF flush_done THEN "IDLE" ELSE "FLUSH" BY <1>0, <1>1 DEF state_d
  <2> QED BY <1>1, <1>b, <2>1
<1>2. CASE state_q = "IDLE"
  <2>1. state_q' = IF starts_flush(in) THEN "FLUSH"
                   ELSE IF Accepts(in) /\ ~in.kill_s1 THEN "READ" ELSE "IDLE"
    BY <1>0, <1>2 DEF state_d
  <2> QED BY <1>2, <1>a, <1>b, <2>1
<1>3. CASE state_q = "READ"
  <2>0. state_q' =
          IF Served(in) THEN (IF Accepts(in) /\ ~in.kill_s1 THEN "READ" ELSE "IDLE")
          ELSE IF mem_data_req(in) THEN (IF in.ack THEN "MISS" ELSE "READ")
          ELSE IF Translated(in) THEN (IF flush_d(in) \/ in.kill_s2 THEN "IDLE" ELSE "READ")
          ELSE IF in.kill_s2 \/ flush_d(in) THEN "KILL_ATRANS" ELSE "READ"
    BY <1>0, <1>3 DEF state_d
  <2> QED BY <1>3, <1>a, <1>b, <1>c, <2>0
<1>4. CASE state_q = "MISS"
  <2>1. state_q' = IF fills(in) THEN "IDLE"
                   ELSE IF in.kill_s2 \/ flush_d(in) THEN "KILL_MISS" ELSE "MISS"
    BY <1>0, <1>4 DEF state_d
  <2> QED BY <1>4, <1>a, <1>b, <1>c, <2>1
<1>5. CASE state_q = "KILL_ATRANS"
  <2>1. state_q' = IF in.fetch_valid THEN "IDLE" ELSE "KILL_ATRANS" BY <1>0, <1>5 DEF state_d
  <2> QED BY <1>5, <1>b, <2>1
<1>6. CASE state_q = "KILL_MISS"
  <2>1. state_q' = IF fills(in) THEN "IDLE" ELSE "KILL_MISS" BY <1>0, <1>6 DEF state_d
  <2> QED BY <1>6, <1>b, <2>1
<1> QED BY <1>1, <1>2, <1>3, <1>4, <1>5, <1>6 DEF IInv, Types

(* The request the memory works on. *)
LEMMA MissStep ==
  ASSUME IInv, NEW in, Legal(in), Cycle(in)
  PROVE  /\ miss'.vld \in BOOLEAN /\ miss'.line \in Lines
         /\ miss' = [vld |-> miss'.vld, way |-> miss'.way, line |-> miss'.line]
         /\ mem_data_req(in) /\ in.ack =>
              miss' = [vld |-> TRUE, way |-> repl_way, line |-> mem_data(in)]
         /\ ~(mem_data_req(in) /\ in.ack) /\ ~fills(in) /\ ~in.flush => miss' = miss
         /\ ~(mem_data_req(in) /\ in.ack) /\ fills(in) => ~miss'.vld
         /\ miss'.vld => (mem_data_req(in) /\ in.ack) \/ (miss.vld /\ ~fills(in))
<1> DEFINE sent == IF mem_data_req(in) /\ in.ack
                   THEN [vld |-> TRUE, way |-> repl_way, line |-> mem_data(in)]
                   ELSE IF fills(in) THEN NoMiss ELSE miss
<1>1. miss' = IF in.flush /\ sent.vld THEN [sent EXCEPT !.line.stale = TRUE] ELSE sent
  BY DEF Cycle
<1>2. mem_data_req(in) => mem_data(in) \in Lines /\ ~in.flush
  <2>1. cl_tag_d(in) \in Tags \cup {NoTag} /\ vaddr_q.idx \in Sets /\ vaddr_q.off \in 0..3
    BY AddrParts DEF IInv, Types, cl_tag_d
  <2>2. paddr_is_nc(in) \in BOOLEAN BY DEF paddr_is_nc
  <2>3. vaddr_q.off \div 2 \in 0..1 BY <2>1
  <2>4. mem_data(in) \in Lines BY <2>1, <2>2, <2>3 DEF mem_data, Lines
  <2> QED BY <2>4, Requesting
<1>3. NoMiss.line \in Lines /\ NoMiss.vld = FALSE
      /\ NoMiss = [vld |-> NoMiss.vld, way |-> NoMiss.way, line |-> NoMiss.line]
  BY ICacheSizes DEF NoMiss, NoLine, Lines, Sets
<1>4. CASE mem_data_req(in) /\ in.ack
  <2>1. miss' = [vld |-> TRUE, way |-> repl_way, line |-> mem_data(in)]
    BY <1>1, <1>2, <1>4
  <2> QED BY <1>2, <1>4, <2>1
<1>5. CASE ~(mem_data_req(in) /\ in.ack) /\ fills(in)
  <2>1. miss' = NoMiss BY <1>1, <1>3, <1>5
  <2> QED BY <1>3, <1>5, <2>1
<1>6. CASE ~(mem_data_req(in) /\ in.ack) /\ ~fills(in)
  <2>1. miss' = IF in.flush /\ miss.vld THEN [miss EXCEPT !.line.stale = TRUE] ELSE miss
    BY <1>1, <1>6
  <2> QED BY <1>6, <2>1 DEF IInv, Types, Lines
<1> QED BY <1>4, <1>5, <1>6

(* The types are kept. *)
LEMMA TypesStep ==
  ASSUME IInv, NEW in, Legal(in), Cycle(in)
  PROVE  Types'
<1> USE DEF IInv, Types, Legal
<1>1. cache_en_q' \in BOOLEAN /\ flush_q' \in BOOLEAN /\ cmp_en_q' \in BOOLEAN /\ inv_q' \in BOOLEAN
  BY DEF Cycle, flush_d, cmp_en_d, inv_en
<1>2. flush_cnt_q' \in Sets
  BY ICacheSizes DEF Cycle, flush_done, Sets
<1>3. vaddr_q' \in Addrs \cup {NoAddr}
  BY Accepting DEF Cycle
<1>4. cl_offset_q' \in 0..3
  <2>1. cl_offset_q % 2 \in 0..3 OBVIOUS
  <2>2. Accepts(in) => in.dreq.off \in 0..3 BY Accepting, AddrParts
  <2> QED BY <2>1, <2>2 DEF Cycle, cl_offset_d
<1>5. cl_tag_q' \in Tags \cup {NoTag}
  BY AddrParts DEF Cycle, cl_tag_d
<1>6. rdata' \in [Ways -> Cells]
  <2>1. vaddr_d(in).idx \in Sets BY Accepting, AddrParts
  <2>2. Read(in) \in [Ways -> Cells] BY <2>1 DEF Read
  <2> QED BY <2>2, Ageing DEF Cycle, AfterFlush
<1> QED BY <1>1, <1>2, <1>3, <1>4, <1>5, <1>6, StateStep, MissStep, CellStep

(* A request is forgotten only when it is answered or killed. *)
LEMMA AsksStep ==
  ASSUME IInv, NEW in, Legal(in), Cycle(in)
  PROVE  Asks'
<1>1. /\ vaddr_q' = IF Accepts(in) THEN in.dreq ELSE vaddr_q
      /\ pending' = IF Accepts(in) /\ ~in.kill_s1 THEN in.dreq
                    ELSE IF dreq_valid(in) \/ in.kill_s2 THEN NoAddr ELSE pending
  BY DEF Cycle, vaddr_d
<1>2. state_q \in {"READ", "MISS"} => pending = vaddr_q /\ vaddr_q \in Addrs
  BY DEF IInv, Asks
<1>3. dreq_valid(in) => (state_q = "READ" /\ Served(in)) \/ (state_q = "MISS" /\ fills(in))
  BY DEF dreq_valid, Served, Translated, Filled
<1>4. CASE Accepts(in) /\ ~in.kill_s1
  BY <1>1, <1>4, Accepting DEF Asks
<1>5. CASE state_q' = "READ" /\ ~(Accepts(in) /\ ~in.kill_s1)
  <2>1. state_q = "READ" /\ ~Accepts(in) /\ ~Served(in) /\ ~in.kill_s2 BY <1>5, StateStep
  <2> QED BY <1>1, <1>2, <1>3, <2>1 DEF Asks
<1>6. CASE state_q' = "MISS" /\ mem_data_req(in) /\ in.ack
  <2>1. state_q = "READ" /\ ~Accepts(in) /\ ~Served(in) /\ ~in.kill_s2 BY <1>6, Requesting
  <2> QED BY <1>1, <1>2, <1>3, <2>1 DEF Asks
<1>7. CASE state_q' = "MISS" /\ ~(mem_data_req(in) /\ in.ack)
  <2>1. state_q = "MISS" /\ ~fills(in) /\ ~in.kill_s2 BY <1>7, StateStep
  <2>2. ~Accepts(in) BY <2>1, Accepting
  <2> QED BY <1>1, <1>2, <1>3, <2>1, <2>2 DEF Asks
<1> QED BY <1>4, <1>5, <1>6, <1>7 DEF Asks

(* A line that is written was not in the cache, and the state MISS knows   *)
(* its place.                                                              *)
LEMMA NewLine ==
  ASSUME IInv, NEW in, Legal(in), cache_wren(in)
  PROVE  /\ cl_tag_q \in Cacheable /\ miss.line.tag = cl_tag_q /\ miss.line.idx = vaddr_q.idx
         /\ ~miss.line.nc /\ ~miss.line.stale /\ vaddr_q.idx \in Sets
         /\ \A w \in Ways : mem[vaddr_q.idx][w].valid => mem[vaddr_q.idx][w].tag # cl_tag_q
<1>1. state_q = "MISS" /\ ~Uncached(cl_tag_q) BY Writing
<1>2. vaddr_q.idx \in Sets BY <1>1, AddrParts DEF IInv, Asks
<1> QED BY <1>1, <1>2 DEF IInv, WaitsForFill, Uncached

(* No cycle puts a second copy, or a part of a line, into a set. *)
LEMMA OneCopyKept ==
  ASSUME IInv, NEW in, Legal(in), Cycle(in), state_q # "FLUSH"
  PROVE  OneCopyOfALine' /\ WholeLines'
<1> DEFINE Kept(s, w) == Keeps(mem[s][w], mem'[s][w])
           New(s, w) == /\ cache_wren(in) /\ s = vaddr_q.idx /\ w = repl_way_q
                        /\ mem'[s][w] = [valid |-> TRUE, tag |-> cl_tag_q, line |-> miss.line]
<1>1. \A s \in Sets, w \in Ways : mem'[s][w].valid => Kept(s, w) \/ New(s, w)
  BY CellStep
<1>2. \A s \in Sets, w \in Ways : mem[s][w].valid =>
        /\ mem[s][w].tag \in Cacheable
        /\ mem[s][w].line.tag = mem[s][w].tag /\ mem[s][w].line.idx = s
        /\ ~mem[s][w].line.nc
        /\ \A v \in Ways \ {w} : mem[s][v].valid => mem[s][v].tag # mem[s][w].tag
  BY DEF IInv, OneCopyOfALine, WholeLines
<1>3. ASSUME NEW s \in Sets, NEW w \in Ways, mem'[s][w].valid
      PROVE  /\ mem'[s][w].tag \in Cacheable
             /\ mem'[s][w].line.tag = mem'[s][w].tag /\ mem'[s][w].line.idx = s
             /\ ~mem'[s][w].line.nc
             /\ \A v \in Ways \ {w} : mem'[s][v].valid => mem'[s][v].tag # mem'[s][w].tag
  <2>1. CASE Kept(s, w)
    <3>1. ASSUME NEW v \in Ways \ {w}, mem'[s][v].valid
          PROVE  mem'[s][v].tag # mem'[s][w].tag
      <4>1. CASE Kept(s, v) BY <1>2, <2>1, <4>1 DEF Keeps
      <4>2. CASE New(s, v) BY <2>1, <4>2, NewLine DEF Keeps
      <4> QED BY <1>1, <3>1, <4>1, <4>2
    <3> QED BY <1>2, <2>1, <3>1 DEF Keeps
  <2>2. CASE New(s, w)
    <3>1. ASSUME NEW v \in Ways \ {w}, mem'[s][v].valid
          PROVE  mem'[s][v].tag # mem'[s][w].tag
      <4>1. CASE Kept(s, v) BY <2>2, <4>1, NewLine DEF Keeps
      <4>2. CASE New(s, v) BY <2>2, <4>2
      <4> QED BY <1>1, <3>1, <4>1, <4>2
    <3> QED BY <2>2, <3>1, NewLine
  <2> QED BY <1>1, <1>3, <2>1, <2>2
<1> QED BY <1>3 DEF OneCopyOfALine, WholeLines

(* The sweep leaves nothing behind. *)
LEMMA SweepClears ==
  ASSUME IInv, NEW in, Legal(in), Cycle(in), state_q = "FLUSH"
  PROVE  /\ WholeLines'
         /\ state_q' # "FLUSH" => \A s \in Sets, w \in Ways : ~mem'[s][w].valid
<1>1. ~cache_wren(in) BY Writing
<1>2. ASSUME NEW s \in Sets, NEW w \in Ways, mem'[s][w].valid
      PROVE  Keeps(mem[s][w], mem'[s][w]) /\ s # flush_cnt_q
  BY <1>1, <1>2, CellStep
<1>3. WholeLines' BY <1>2 DEF IInv, WholeLines, Keeps
<1>4. ASSUME NEW s \in Sets, NEW w \in Ways, mem'[s][w].valid
      PROVE  state_q' = "FLUSH"
  <2>1. mem[s][w].valid /\ s # flush_cnt_q BY <1>2, <1>4 DEF Keeps
  <2>2. flush_cnt_q <= s BY <2>1 DEF IInv, FlushGoesOn
  <2>3. ~flush_done BY <2>1, <2>2, ICacheSizes DEF IInv, Types, flush_done, Sets
  <2> QED BY <2>3, StateStep
<1> QED BY <1>3, <1>4

(* So there is one copy after it and after any other cycle. *)
LEMMA OneCopyStep ==
  ASSUME IInv, NEW in, Legal(in), Cycle(in)
  PROVE  OneCopyOfALine' /\ WholeLines'
<1>1. CASE state_q = "FLUSH" BY <1>1, SweepClears DEF OneCopyOfALine
<1>2. CASE state_q # "FLUSH" BY <1>2, OneCopyKept
<1> QED BY <1>1, <1>2

(* Only the states MISS and KILL_MISS have a request at the memory. *)
LEMMA OneMissStep ==
  ASSUME IInv, NEW in, Legal(in), Cycle(in)
  PROVE  OneMiss'
BY StateStep, MissStep DEF IInv, OneMiss

(* The cache is not enabled but at the end of a flush. *)
LEMMA EnableStep ==
  ASSUME IInv, NEW in, Legal(in), Cycle(in), state_q # "FLUSH"
  PROVE  cache_en_q' => cache_en_q
BY DEF Cycle

(* Without a line written or invalidated, and without a flush, the arrays  *)
(* are as they were.                                                       *)
LEMMA ArraysKept ==
  ASSUME IInv, NEW in, Legal(in), Cycle(in), state_q # "FLUSH", ~cache_wren(in), ~inv_en(in), ~in.flush
  PROVE  mem' = mem
<1>1. Written(in) = mem BY DEF Written
<1>2. mem' = [s \in Sets |-> mem[s]] BY <1>1 DEF Cycle, AfterFlush
<1> QED BY <1>2 DEF IInv, Types

(* A cycle that goes to READ reads the set of the address, and one that    *)
(* stays there with a request keeps what was compared.                     *)
LEMMA ReadsOutStep ==
  ASSUME IInv, NEW in, Legal(in), Cycle(in), state_q' = "READ", cache_en_q'
  PROVE  /\ ~inv_q' => rdata' = mem'[vaddr_q'.idx]
         /\ ~cmp_en_q' => /\ repl_way_q' = repl_way'
                           /\ \A w \in Ways : rdata'[w].valid => rdata'[w].tag # vaddr_q'.tag
<1>1. vaddr_q' = IF Accepts(in) THEN in.dreq ELSE vaddr_q BY DEF Cycle, vaddr_d
<1>2. state_q \in {"IDLE", "READ"} /\ ~in.flush /\ ~cache_wren(in)
  BY StateStep, Accepting, Writing
<1>3. cache_en_q BY <1>2, EnableStep
<1>4. rdata' = IF cache_rden(in) /\ ~inv_en(in) THEN mem[vaddr_q'.idx] ELSE rdata
  BY <1>1, <1>2 DEF Cycle, AfterFlush, Read, vaddr_d
<1>5. ~inv_en(in) => mem' = mem BY <1>2, ArraysKept
<1>6. cmp_en_q' <=> state_q = "IDLE" \/ (state_q = "READ" /\ ~mem_data_req(in))
  BY <1>3 DEF Cycle, cmp_en_d
<1>7. inv_q' <=> inv_en(in) BY DEF Cycle
<1>8. CASE Accepts(in)
  <2>1. ~inv_en(in) /\ cache_rden(in) BY <1>2, <1>3, <1>8, Accepting DEF inv_en, cache_rden
  <2>2. cmp_en_q' BY <1>2, <1>6, <1>8, Requesting
  <2> QED BY <1>4, <1>5, <2>1, <2>2
<1>9. CASE ~Accepts(in)
  <2>1. state_q = "READ" BY <1>9, StateStep
  <2>2. cache_rden(in) BY <1>3, <2>1 DEF cache_rden
  <2>3. ~inv_q' => rdata' = mem'[vaddr_q'.idx] BY <1>4, <1>5, <1>7, <2>2
  <2>4. ASSUME ~cmp_en_q'
        PROVE  /\ repl_way_q' = repl_way'
               /\ \A w \in Ways : rdata'[w].valid => rdata'[w].tag # vaddr_q'.tag
    <3>1. mem_data_req(in) BY <1>6, <2>1, <2>4
    <3>2. ~inv_q /\ in.fetch_valid /\ cl_hit(in) = {} BY <1>3, <3>1, Requesting
    <3>3. rdata = mem[vaddr_q.idx] BY <1>3, <2>1, <3>2 DEF IInv, ReadsOut
    <3>4. rdata' = rdata BY <1>1, <1>4, <1>9, <3>3
    <3>5. rnd_way' = rnd_way BY <1>2 DEF Cycle
    <3>6. repl_way' = repl_way BY <3>4, <3>5 DEF repl_way, all_ways_valid, inv_way
    <3>7. repl_way_q' = repl_way
      BY <1>3, <2>1 DEF Cycle, repl_way_d, IInv, ReadsOut
    <3>8. \A w \in Ways : rdata[w].valid => rdata[w].tag # vaddr_q.tag
      BY <3>2 DEF cl_hit, cl_tag_d
    <3> QED BY <1>1, <1>9, <3>4, <3>6, <3>7, <3>8
  <2> QED BY <2>3, <2>4
<1> QED BY <1>8, <1>9

(* A request that is repeated does not cut its offset twice. *)
LEMMA OffsetStep ==
  ASSUME IInv, NEW in, Legal(in), Cycle(in)
  PROVE  OffsetIsCut'
<1> SUFFICES ASSUME state_q' = "READ"
             PROVE  \/ cl_offset_q' = vaddr_q'.off
                    \/ cl_offset_q' = vaddr_q'.off % 2 /\ Uncached(vaddr_q.tag)'
  BY DEF OffsetIsCut, Uncached
<1>1. /\ vaddr_q' = IF Accepts(in) THEN in.dreq ELSE vaddr_q
      /\ cl_offset_q' = IF Accepts(in) THEN in.dreq.off
                        ELSE IF paddr_is_nc(in) /\ mem_data_req(in) THEN cl_offset_q % 2
                        ELSE cl_offset_q
  BY DEF Cycle, vaddr_d, cl_offset_d
<1>2. CASE Accepts(in) BY <1>1, <1>2
<1>3. CASE ~Accepts(in)
  <2>1. state_q = "READ" BY <1>3, StateStep
  <2>2. vaddr_q \in Addrs /\ vaddr_q.off \in 0..3 BY <2>1, AddrParts DEF IInv, Asks
  <2>3. \/ cl_offset_q = vaddr_q.off
        \/ cl_offset_q = vaddr_q.off % 2 /\ Uncached(vaddr_q.tag)
    BY <2>1 DEF IInv, OffsetIsCut
  <2>4. Uncached(vaddr_q.tag) => Uncached(vaddr_q.tag)'
    BY <1>1, <1>3, <2>1, EnableStep DEF Uncached
  <2>5. paddr_is_nc(in) /\ mem_data_req(in) => Uncached(vaddr_q.tag)
    BY Requesting DEF paddr_is_nc, cl_tag_d, Uncached
  <2>6. vaddr_q.off % 2 = (vaddr_q.off % 2) % 2 BY <2>2
  <2> QED BY <1>1, <1>3, <2>3, <2>4, <2>5, <2>6
<1> QED BY <1>2, <1>3

(* MISS is entered with the request's tag, set, offset and way, and keeps   *)
(* them.                                                                   *)
LEMMA FillStep ==
  ASSUME IInv, NEW in, Legal(in), Cycle(in)
  PROVE  WaitsForFill'
<1>1. CASE mem_data_req(in) /\ in.ack
  <2>1. /\ state_q = "READ" /\ in.fetch_valid /\ ~inv_q /\ ~Accepts(in)
        /\ cache_en_q => cl_hit(in) = {}
    BY <1>1, Requesting
  <2>2. vaddr_q \in Addrs /\ vaddr_q.off \in 0..3 BY <2>1, AddrParts DEF IInv, Asks
  <2>3. miss' = [vld |-> TRUE, way |-> repl_way, line |-> mem_data(in)] BY <1>1, MissStep
  <2>4. cl_tag_d(in) = vaddr_q.tag BY <2>1 DEF cl_tag_d
  <2>5. vaddr_q' = vaddr_q /\ cl_tag_q' = vaddr_q.tag /\ ~cmp_en_q'
    BY <1>1, <2>1, <2>4 DEF Cycle, vaddr_d, cmp_en_d
  <2>6. paddr_is_nc(in) <=> Uncached(vaddr_q.tag) BY <2>4 DEF paddr_is_nc, Uncached
  <2>7. /\ miss'.vld /\ ~miss'.line.stale /\ miss'.way = repl_way
        /\ miss'.line.tag = vaddr_q.tag /\ miss'.line.idx = vaddr_q.idx
        /\ miss'.line.nc <=> Uncached(vaddr_q.tag)
        /\ miss'.line.nc => miss'.line.dword = vaddr_q.off \div 2
    BY <2>3, <2>4, <2>6 DEF mem_data
  <2>8. Uncached(vaddr_q.tag) => Uncached(cl_tag_q)'
    BY <2>1, <2>5, EnableStep DEF Uncached
  <2>9. cl_offset_q' = IF Uncached(vaddr_q.tag) THEN cl_offset_q % 2 ELSE cl_offset_q
    BY <1>1, <2>1, <2>6 DEF Cycle, cl_offset_d
  <2>10. cl_offset_q' = IF Uncached(vaddr_q.tag) THEN vaddr_q.off % 2 ELSE vaddr_q.off
    <3>1. \/ cl_offset_q = vaddr_q.off
          \/ cl_offset_q = vaddr_q.off % 2 /\ Uncached(vaddr_q.tag)
      BY <2>1 DEF IInv, OffsetIsCut
    <3>2. vaddr_q.off % 2 = (vaddr_q.off % 2) % 2 BY <2>2
    <3> QED BY <2>9, <3>1, <3>2
  <2>11. ~Uncached(vaddr_q.tag) => repl_way_q' = repl_way
    BY <2>1 DEF Cycle, repl_way_d, IInv, ReadsOut, Uncached
  <2>12. ASSUME ~Uncached(vaddr_q.tag), NEW w \in Ways, mem'[vaddr_q.idx][w].valid
         PROVE  mem'[vaddr_q.idx][w].tag # vaddr_q.tag
    <3>1. vaddr_q.idx \in Sets /\ ~cache_wren(in) BY <2>1, <2>2, AddrParts, Writing
    <3>2. Keeps(mem[vaddr_q.idx][w], mem'[vaddr_q.idx][w]) BY <2>12, <3>1, CellStep
    <3>3. cl_hit(in) = {} /\ rdata = mem[vaddr_q.idx]
      BY <2>1, <2>12 DEF IInv, ReadsOut, Uncached
    <3>4. mem[vaddr_q.idx][w].valid => mem[vaddr_q.idx][w].tag # vaddr_q.tag
      BY <2>4, <3>3 DEF cl_hit
    <3> QED BY <3>2, <3>4 DEF Keeps
  <2>13. ~Uncached(cl_tag_q)' => ~Uncached(vaddr_q.tag) BY <2>8
  <2> QED BY <2>5, <2>7, <2>8, <2>10, <2>11, <2>12, <2>13 DEF WaitsForFill
<1>2. CASE state_q' = "MISS" /\ ~(mem_data_req(in) /\ in.ack)
  <2>1. state_q = "MISS" /\ ~fills(in) /\ ~in.flush /\ ~mem_data_req(in)
    BY <1>2, StateStep, Requesting
  <2>2. ~Accepts(in) /\ ~cache_wren(in) /\ ~in.fetch_valid
    BY <2>1, Accepting, Writing DEF Legal
  <2>3. miss' = miss BY <2>1, MissStep
  <2>4. ~cmp_en_q /\ ~cmp_en_q' BY <2>1 DEF Cycle, cmp_en_d, IInv, WaitsForFill
  <2>5. vaddr_q' = vaddr_q /\ cl_tag_q' = cl_tag_q /\ cl_offset_q' = cl_offset_q /\ repl_way_q' = repl_way_q
    BY <2>1, <2>2, <2>4 DEF Cycle, vaddr_d, cl_tag_d, cl_offset_d, repl_way_d
  <2>6. Uncached(cl_tag_q) => Uncached(cl_tag_q)'
    BY <2>1, <2>5, EnableStep DEF Uncached
  <2>7. vaddr_q.idx \in Sets BY <2>1, AddrParts DEF IInv, Asks
  <2>8. \A w \in Ways : mem'[vaddr_q.idx][w].valid => Keeps(mem[vaddr_q.idx][w], mem'[vaddr_q.idx][w])
    BY <2>2, <2>7, CellStep
  <2>9. ~Uncached(cl_tag_q)' =>
          \A w \in Ways : mem'[vaddr_q.idx][w].valid => mem'[vaddr_q.idx][w].tag # cl_tag_q
    BY <2>1, <2>6, <2>8 DEF IInv, WaitsForFill, Keeps
  <2> QED BY <2>1, <2>3, <2>4, <2>5, <2>6, <2>9 DEF IInv, WaitsForFill
<1> QED BY <1>1, <1>2 DEF WaitsForFill

(* The sweep clears every set, and a flush that waits is not forgotten. *)
LEMMA FlushStep ==
  ASSUME IInv, NEW in, Legal(in), Cycle(in)
  PROVE  FlushGoesOn'
<1>1. /\ flush_cnt_q' = IF flush_done THEN 0
                        ELSE IF state_q = "FLUSH" THEN flush_cnt_q + 1 ELSE flush_cnt_q
      /\ flush_q' = ((flush_q \/ in.flush) /\ ~(state_q = "FLUSH" /\ flush_done))
  BY DEF Cycle, flush_d
<1>2. /\ state_q # "FLUSH" => flush_cnt_q = 0
      /\ flush_cnt_q \in Nat /\ Sets \subseteq Nat
      /\ \A s \in Sets, w \in Ways : mem[s][w].valid =>
           /\ state_q = "FLUSH" => flush_cnt_q <= s
           /\ mem[s][w].line.stale => flush_q \/ state_q = "FLUSH"
  BY ICacheSizes DEF IInv, Types, FlushGoesOn, Sets
<1>3. state_q' # "FLUSH" => flush_cnt_q' = 0
  BY <1>1, <1>2, StateStep
<1>4. ASSUME NEW s \in Sets, NEW w \in Ways, mem'[s][w].valid
      PROVE  /\ state_q' = "FLUSH" => flush_cnt_q' <= s
             /\ mem'[s][w].line.stale => flush_q' \/ state_q' = "FLUSH"
  <2>1. CASE /\ Keeps(mem[s][w], mem'[s][w])
             /\ mem'[s][w].line.stale => mem[s][w].line.stale \/ in.flush
             /\ ~(state_q = "FLUSH" /\ s = flush_cnt_q)
    <3>1. mem[s][w].valid BY <2>1 DEF Keeps
    <3>2. ~(state_q = "FLUSH" /\ flush_done)
      BY <1>2, <2>1, <3>1, ICacheSizes DEF flush_done, Sets
    <3>3. state_q = "FLUSH" => state_q' = "FLUSH" BY <3>2, StateStep
    <3>4. mem'[s][w].line.stale => flush_q' \/ state_q' = "FLUSH"
      BY <1>1, <1>2, <2>1, <3>1, <3>2, <3>3
    <3>5. ASSUME state_q' = "FLUSH" PROVE flush_cnt_q' <= s
      <4>1. CASE state_q = "FLUSH" BY <1>1, <1>2, <2>1, <3>1, <3>2, <4>1
      <4>2. CASE state_q # "FLUSH" BY <1>1, <1>2, <4>2
      <4> QED BY <4>1, <4>2
    <3> QED BY <3>4, <3>5
  <2>2. CASE cache_wren(in) /\ mem'[s][w] = [valid |-> TRUE, tag |-> cl_tag_q, line |-> miss.line]
    <3>1. state_q = "MISS" /\ ~miss.line.stale BY <2>2, Writing, NewLine
    <3>2. state_q' # "FLUSH" BY <3>1, StateStep
    <3> QED BY <2>2, <3>1, <3>2
  <2> QED BY <1>4, <2>1, <2>2, CellStep
<1> QED BY <1>3, <1>4 DEF FlushGoesOn

(* A hit delivers the word that was asked for: the way is the only one     *)
(* with the tag, the set is the one of the address register, and no flush  *)
(* is under way.                                                           *)
LEMMA HitIsRight ==
  ASSUME IInv, NEW in, Legal(in), Served(in), ~in.ex
  PROVE  /\ pending = vaddr_q /\ vaddr_q \in Addrs /\ cmp_en_q
         /\ dreq_data(in) = vaddr_q /\ ~rdata[Min(cl_hit(in))].line.stale
<1>1. /\ state_q = "READ" /\ in.fetch_valid /\ ~flush_q /\ ~inv_q /\ cache_en_q
      /\ cl_hit(in) # {}
  BY DEF Served, Translated, flush_d
<1>2. pending = vaddr_q /\ vaddr_q \in Addrs BY <1>1 DEF IInv, Asks
<1>3. vaddr_q.idx \in Sets /\ vaddr_q = [tag |-> vaddr_q.tag, idx |-> vaddr_q.idx, off |-> vaddr_q.off]
  BY <1>2, ICacheSizes
<1>4. rdata = mem[vaddr_q.idx] BY <1>1 DEF IInv, ReadsOut
<1>5. cl_tag_d(in) = vaddr_q.tag BY <1>1 DEF cl_tag_d
<1>6. PICK h \in Ways : h \in cl_hit(in) /\ rdata[h].valid /\ rdata[h].tag = vaddr_q.tag
  BY <1>1, <1>5 DEF cl_hit
<1>7. cmp_en_q BY <1>1, <1>6 DEF IInv, ReadsOut
<1>8. /\ rdata[h].tag \in Cacheable /\ rdata[h].line.tag = vaddr_q.tag
      /\ rdata[h].line.idx = vaddr_q.idx /\ ~rdata[h].line.nc /\ ~rdata[h].line.stale
  BY <1>1, <1>3, <1>4, <1>6 DEF IInv, OneCopyOfALine, WholeLines, FlushGoesOn
<1>9. cl_hit(in) = {h}
  <2>1. \A v \in Ways \ {h} : ~(rdata[v].valid /\ rdata[v].tag = vaddr_q.tag)
    BY <1>1, <1>3, <1>4, <1>6 DEF IInv, OneCopyOfALine
  <2> QED BY <1>5, <1>6, <2>1 DEF cl_hit
<1>10. Min(cl_hit(in)) = h
  <2>1. h \in Nat BY ICacheSizes DEF Ways
  <2> QED BY <1>9, <2>1 DEF Min
<1>11. cl_offset_q = vaddr_q.off
  BY <1>1, <1>6, <1>8 DEF IInv, OffsetIsCut, Uncached
<1>12. dreq_data(in) = [tag |-> vaddr_q.tag, idx |-> vaddr_q.idx, off |-> vaddr_q.off]
  BY <1>1, <1>7, <1>8, <1>10, <1>11 DEF dreq_data
<1> QED BY <1>2, <1>3, <1>7, <1>8, <1>10, <1>12

(* So does the line that comes from memory: the two words of an access     *)
(* that is not cached are at its start.                                    *)
LEMMA FillIsRight ==
  ASSUME IInv, NEW in, Legal(in), Filled(in)
  PROVE  /\ pending = vaddr_q /\ vaddr_q \in Addrs /\ ~cmp_en_q
         /\ dreq_data(in) = vaddr_q /\ ~miss.line.stale
<1>1. state_q = "MISS" /\ fills(in) BY DEF Filled
<1>2. pending = vaddr_q /\ vaddr_q \in Addrs BY <1>1 DEF IInv, Asks
<1>3. vaddr_q.off \in 0..3 /\ vaddr_q = [tag |-> vaddr_q.tag, idx |-> vaddr_q.idx, off |-> vaddr_q.off]
  BY <1>2, ICacheSizes
<1>4. /\ ~cmp_en_q /\ ~miss.line.stale /\ miss.line.tag = vaddr_q.tag /\ miss.line.idx = vaddr_q.idx
      /\ miss.line.nc => miss.line.dword = vaddr_q.off \div 2 /\ cl_offset_q = vaddr_q.off % 2
      /\ ~miss.line.nc => cl_offset_q = vaddr_q.off
  BY <1>1 DEF IInv, WaitsForFill
<1>5. 2 * (vaddr_q.off \div 2) + (vaddr_q.off % 2) = vaddr_q.off BY <1>3
<1>6. dreq_data(in) = [tag |-> vaddr_q.tag, idx |-> vaddr_q.idx, off |-> vaddr_q.off]
  <2>1. CASE miss.line.nc BY <1>1, <1>4, <1>5, <2>1 DEF dreq_data
  <2>2. CASE ~miss.line.nc BY <1>1, <1>4, <2>2 DEF dreq_data
  <2> QED BY <2>1, <2>2
<1> QED BY <1>2, <1>3, <1>4, <1>6

(* So every answer is right. *)
LEMMA AnswerStep ==
  ASSUME IInv, NEW in, Legal(in), Cycle(in)
  PROVE  RightAndFresh'
<1>1. answer' = IF ~dreq_valid(in) THEN NoAnswer
                ELSE IF in.ex THEN [NoAnswer EXCEPT !.valid = TRUE, !.ex = TRUE, !.asked = pending]
                ELSE [valid |-> TRUE, ex |-> FALSE, asked |-> pending, got |-> dreq_data(in),
                      stale |-> (IF cmp_en_q THEN rdata[Min(cl_hit(in))].line ELSE miss.line).stale]
  BY DEF Cycle
<1>2. CASE ~dreq_valid(in)
  <2>1. ~answer'.valid BY <1>1, <1>2 DEF NoAnswer
  <2> QED BY <2>1 DEF RightAndFresh
<1>3. CASE dreq_valid(in) /\ in.ex
  <2>1. answer'.ex BY <1>1, <1>3 DEF NoAnswer
  <2> QED BY <2>1 DEF RightAndFresh
<1>4. CASE dreq_valid(in) /\ ~in.ex
  <2>1. /\ answer'.asked = pending /\ answer'.got = dreq_data(in)
        /\ answer'.stale = (IF cmp_en_q THEN rdata[Min(cl_hit(in))].line ELSE miss.line).stale
    BY <1>1, <1>4
  <2>2. Served(in) \/ Filled(in) BY <1>4 DEF dreq_valid
  <2>3. CASE Served(in) BY <1>4, <2>1, <2>3, HitIsRight, AddrParts DEF RightAndFresh
  <2>4. CASE Filled(in) BY <2>1, <2>4, FillIsRight, AddrParts DEF RightAndFresh
  <2> QED BY <2>2, <2>3, <2>4
<1> QED BY <1>2, <1>3, <1>4

(***************************************************************************)
(* The theorems.                                                           *)
(***************************************************************************)

(* The invariant holds after reset. *)
LEMMA InitIInv == Init => IInv
<1> SUFFICES ASSUME Init PROVE IInv OBVIOUS
<1> USE DEF Init
<1>0. ASSUME NEW c \in Garbage PROVE c \in Cells /\ ~c.line.nc
  <2>1. NoLine \in Lines /\ ~NoLine.nc BY ICacheSizes DEF NoLine, Lines, Sets
  <2>2. CASE c = NoCell BY <2>1, <2>2 DEF NoCell, Cells
  <2>3. CASE c \in [valid : {TRUE}, tag : Tags, line : {[NoLine EXCEPT !.stale = TRUE]}]
    <3>1. c.line = [NoLine EXCEPT !.stale = TRUE] BY <2>3
    <3>2. c.line \in Lines /\ ~c.line.nc BY <2>1, <3>1 DEF Lines
    <3> QED BY <2>3, <3>2 DEF Cells
  <2> QED BY <2>2, <2>3 DEF Garbage
<1>1. NoMiss.line \in Lines /\ NoMiss.vld = FALSE
      /\ NoMiss = [vld |-> NoMiss.vld, way |-> NoMiss.way, line |-> NoMiss.line]
  BY ICacheSizes DEF NoLine, NoMiss, Lines, Sets
<1>2. 0 \in Sets BY ICacheSizes DEF Sets
<1>3. Types
  <2>1. mem \in [Sets -> [Ways -> Cells]] /\ rdata \in [Ways -> Cells] BY <1>0, <1>2
  <2>2. /\ miss.vld \in BOOLEAN /\ miss.line \in Lines
        /\ miss = [vld |-> miss.vld, way |-> miss.way, line |-> miss.line]
    BY <1>1
  <2>3. state_q \in States /\ flush_cnt_q \in Sets BY <1>2 DEF States
  <2>4. cache_en_q \in BOOLEAN /\ flush_q \in BOOLEAN /\ cmp_en_q \in BOOLEAN /\ inv_q \in BOOLEAN
    BY Zenon
  <2>5. vaddr_q \in Addrs \cup {NoAddr} /\ cl_offset_q \in 0..3 /\ cl_tag_q \in Tags \cup {NoTag}
    OBVIOUS
  <2> QED BY Zenon, <2>1, <2>2, <2>3, <2>4, <2>5 DEF Types
<1>4. \A s \in Sets, w \in Ways : ~mem[s][w].line.nc /\ 0 <= s
  BY <1>0 DEF Sets
<1>5. OneCopyOfALine /\ WholeLines /\ FlushGoesOn
  BY <1>4 DEF OneCopyOfALine, WholeLines, FlushGoesOn
<1>6. Asks /\ ReadsOut /\ OffsetIsCut /\ WaitsForFill
  BY DEF Asks, ReadsOut, OffsetIsCut, WaitsForFill
<1>7. OneMiss BY <1>1 DEF OneMiss
<1>8. RightAndFresh BY DEF RightAndFresh, NoAnswer
<1> QED BY <1>3, <1>5, <1>6, <1>7, <1>8 DEF IInv

(* Every step preserves it. *)
LEMMA NextIInv == IInv /\ [Next]_vars => IInv'
<1> SUFFICES ASSUME IInv, [Next]_vars PROVE IInv' OBVIOUS
<1>1. CASE Next
  <2>1. PICK in : Legal(in) /\ Cycle(in) BY <1>1, NextIsLegal DEF IInv, Types
  <2>2. Types' /\ Asks' BY <2>1, TypesStep, AsksStep
  <2>3. OneCopyOfALine' /\ WholeLines' BY <2>1, OneCopyStep
  <2>4. ReadsOut' BY <2>1, ReadsOutStep DEF ReadsOut
  <2>5. OffsetIsCut' /\ WaitsForFill' BY <2>1, OffsetStep, FillStep
  <2>6. OneMiss' /\ FlushGoesOn' BY <2>1, OneMissStep, FlushStep
  <2>7. RightAndFresh' BY <2>1, AnswerStep
  <2> QED BY <2>2, <2>3, <2>4, <2>5, <2>6, <2>7 DEF IInv
<1>2. CASE UNCHANGED vars
  BY <1>2 DEF vars, IInv, Types, Asks, OneCopyOfALine, WholeLines, ReadsOut, repl_way, all_ways_valid,
              inv_way, OffsetIsCut, Uncached, WaitsForFill, OneMiss, FlushGoesOn, RightAndFresh
<1> QED BY <1>1, <1>2

(* Every word the cache delivers is the one that was asked for and was     *)
(* fetched after the last FENCE.I, through hits, misses, kills, flushes    *)
(* and invalidations in any order.                                         *)
THEOREM ICacheIsRightAndFresh == Spec => []RightAndFresh
<1>1. IInv => RightAndFresh BY DEF IInv
<1> QED BY InitIInv, NextIInv, <1>1, PTL DEF Spec

(* No line is ever in two ways of its set, in the wrong set, or cached     *)
(* though its region is not: the assertion behind cl_hit.                  *)
THEOREM ICacheHasOneCopy == Spec => []OneCopyOfALine
<1>1. IInv => OneCopyOfALine BY DEF IInv
<1> QED BY InitIInv, NextIInv, <1>1, PTL DEF Spec

(* The way a line is written to is the one announced with its request,     *)
(* though repl_way_q is registered only while tags are compared.           *)
THEOREM ICacheFillsItsWay == Spec => []WayAsAnnounced
<1>1. IInv => WayAsAnnounced BY DEF IInv, WaitsForFill, WayAsAnnounced
<1> QED BY InitIInv, NextIInv, <1>1, PTL DEF Spec
=============================================================================
