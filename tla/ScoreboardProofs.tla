-------------------------- MODULE ScoreboardProofs --------------------------
(* Proofs about the scoreboard, for every size, every number of issue and  *)
(* commit ports and every set of instructions.                             *)
EXTENDS Scoreboard, RingBufferProofs

N == NR_SB_ENTRIES

(* The entry k places behind the oldest one. *)
Entry(k) == mem[Slot(commit_pointer[0], k, N)]

(* The two commit ports agree whenever there is something to retire. *)
PortsAgree ==
  NrCommitPorts = 2 =>
    \/ commit_pointer[1] = Slot(commit_pointer[0], 1, N)
    \/ \A i \in Slots : ~mem[i].issued

(* Only the superscalar scoreboard cancels. *)
CancelsOnlySpeculation == ~SpeculativeSb => \A i \in Slots : ~mem[i].cancelled

(* The first of two moves is done when the second is, and the second, as   *)
(* long as it is not done, still follows the first.  So the write back of  *)
(* a second move never marks an entry that is not in use.                  *)
FirstMoveWaits ==
  \A k \in 0..(N - 1) :
    k < Occupied /\ Entry(k).instr.macro = "first" /\ Entry(k).valid /\ ~Entry(k).ex =>
      k + 1 < Occupied /\ Entry(k + 1).instr.macro = "last" /\ Entry(k + 1).valid

LastMoveFollows ==
  \A k \in 0..(N - 1) :
    k < Occupied /\ Entry(k).instr.macro = "last" /\ ~Entry(k).valid =>
      k > 0 /\ Entry(k - 1).instr.macro = "first"

IInv ==
  /\ TypeOK /\ IssuedIsARing /\ FlagsOnlyIfIssued
  /\ PortsAgree /\ CancelsOnlySpeculation /\ FirstMoveWaits /\ LastMoveFollows

(***************************************************************************)
(* Facts about a state.                                                    *)
(***************************************************************************)

LEMMA Sizes ==
  /\ N \in Nat /\ N > 1 /\ N % 2 = 0
  /\ Slots = 0..(N - 1)
  /\ 0 \in CommitPorts /\ 0 \in IssuePorts
  /\ NrCommitPorts \in 1..2 /\ NrIssuePorts \in 1..2
  /\ CommitPorts = 0..(NrCommitPorts - 1) /\ IssuePorts = 0..(NrIssuePorts - 1)
BY SizesOfTheScoreboard DEF N, Slots, CommitPorts, IssuePorts

LEMMA Places ==
  ASSUME NEW c \in 0..(N - 1)
  PROVE  /\ \A k \in 0..N : Slot(c, k, N) \in 0..(N - 1)
         /\ \A i \in 0..(N - 1) : \E k \in 0..(N - 1) : i = Slot(c, k, N)
         /\ \A j, k \in 0..(N - 1) : Slot(c, j, N) = Slot(c, k, N) => j = k
         /\ Slot(c, 0, N) = c
<1>1. N \in Nat /\ N > 0 BY Sizes
<1> HIDE DEF N
<1> QED BY ZenonT(30), <1>1, SlotFacts

(* The distance that the pointers and the oldest flag stand for. *)
Distance(c, i, b) ==
  LET d == i - c IN IF d > 0 THEN d ELSE IF d < 0 \/ b THEN d + N ELSE 0

LEMMA DistanceIs ==
  ASSUME NEW c \in 0..(N - 1), NEW o \in 0..N, NEW i, i = Slot(c, o, N),
         NEW b \in BOOLEAN, b <=> o > 0
  PROVE  Distance(c, i, b) = o
BY Sizes DEF Distance, Slot

LEMMA DistanceRange ==
  ASSUME NEW c \in 0..(N - 1), NEW i \in 0..(N - 1), NEW b \in BOOLEAN
  PROVE  Distance(c, i, b) \in 0..N /\ i = Slot(c, Distance(c, i, b), N)
BY Sizes DEF Distance, Slot

LEMMA OccupiedFacts ==
  ASSUME TypeOK
  PROVE  /\ commit_pointer[0] \in 0..(N - 1)
         /\ Occupied \in 0..N
         /\ issue_pointer = Slot(commit_pointer[0], Occupied, N)
<1>1. commit_pointer[0] \in 0..(N - 1) /\ issue_pointer \in 0..(N - 1)
  BY Sizes DEF TypeOK
<1>2. mem[commit_pointer[0]].issued \in BOOLEAN
  BY <1>1, Sizes DEF TypeOK, sb_mem_t
<1>3. Occupied = Distance(commit_pointer[0], issue_pointer, mem[commit_pointer[0]].issued)
  BY DEF Occupied, Distance, N
<1> QED BY <1>1, <1>2, <1>3, DistanceRange

(* Every entry has a place behind the oldest one. *)
LEMMA Placed ==
  ASSUME TypeOK, NEW i \in Slots
  PROVE  \E k \in 0..(N - 1) : i = Slot(commit_pointer[0], k, N)
<1> DEFINE c == commit_pointer[0]
<1>1. c \in 0..(N - 1) /\ i \in 0..(N - 1) BY OccupiedFacts, Sizes
<1> HIDE DEF c
<1>2. \E k \in 0..(N - 1) : i = Slot(c, k, N) BY <1>1, Places
<1> QED BY <1>2 DEF c

(* Testing even and odd entries apart is testing for two free neighbours.  *)
LEMMA FullIsFull ==
  ASSUME TypeOK, IssuedIsARing
  PROVE  /\ issue_full(1) <=> Occupied >= N - 1
         /\ issue_full(0) <=> Occupied = N
<1> DEFINE cp == commit_pointer[0]
<1>1. cp \in 0..(N - 1) /\ Occupied \in 0..N /\ N \in Nat BY OccupiedFacts, Sizes
<1>3. \A k \in 0..(N - 1) : mem[Slot(cp, k, N)].issued <=> k < Occupied
  BY Sizes DEF IssuedIsARing, N
<1> HIDE DEF cp
<1>2. /\ \A k \in 0..(N - 1) : Slot(cp, k, N) \in 0..(N - 1)
      /\ \A i \in 0..(N - 1) : \E k \in 0..(N - 1) : i = Slot(cp, k, N)
  <2>1. \A k \in 0..(N - 1) : Slot(cp, k, N) \in 0..(N - 1) BY <1>1, Places
  <2>2. \A i \in 0..(N - 1) : \E k \in 0..(N - 1) : i = Slot(cp, k, N) BY <1>1, Places
  <2> QED BY <2>1, <2>2
<1>4. ASSUME Occupied < N - 1 PROVE ~issue_full(1)
  <2> DEFINE a == Slot(cp, N - 2, N)
             b == Slot(cp, N - 1, N)
  <2>1. a \in 0..(N - 1) /\ b \in 0..(N - 1) /\ ~mem[a].issued /\ ~mem[b].issued
    <3>1. N - 2 \in 0..(N - 1) /\ N - 1 \in 0..(N - 1) BY Sizes
    <3>2. ~(N - 2 < Occupied) /\ ~(N - 1 < Occupied) BY <1>1, <1>4, Sizes
    <3> QED BY <1>2, <1>3, <3>1, <3>2
  <2>2. b = a + 1 \/ (a = N - 1 /\ b = 0) BY <1>1, Sizes DEF Slot
  <2>3. (a % 2 = 0 /\ b % 2 = 1) \/ (a % 2 = 1 /\ b % 2 = 0)
    <3> HIDE DEF a, b
    <3> QED BY <2>1, <2>2, Sizes
  <2> HIDE DEF a, b
  <2> QED BY <2>1, <2>3, Sizes DEF issue_full, AllIssued
<1>5. ASSUME Occupied >= N - 1 PROVE issue_full(1)
  <2> DEFINE b == Slot(cp, N - 1, N)
  <2>1. ASSUME NEW i \in Slots, i # b PROVE mem[i].issued
    <3>1. PICK k \in 0..(N - 1) : i = Slot(cp, k, N) BY <1>2, Sizes
    <3>2. k # N - 1 BY <2>1, <3>1
    <3> QED BY <1>1, <1>3, <1>5, <3>1, <3>2, Sizes
  <2>2. b \in 0..(N - 1) BY <1>2, Sizes
  <2>3. b % 2 = 0 \/ b % 2 = 1
    <3> HIDE DEF b
    <3> QED BY <2>2, Sizes
  <2> HIDE DEF b
  <2> QED BY <2>1, <2>3 DEF issue_full, AllIssued
<1>6. issue_full(0) <=> Occupied = N
  <2>1. ASSUME Occupied = N, NEW i \in Slots PROVE mem[i].issued
    <3>1. PICK k \in 0..(N - 1) : i = Slot(cp, k, N) BY <1>2, Sizes
    <3> QED BY <1>3, <2>1, <3>1, Sizes
  <2>2. ASSUME \A i \in Slots : mem[i].issued PROVE Occupied = N
    <3>1. N - 1 \in 0..(N - 1) BY Sizes
    <3>2. mem[Slot(cp, N - 1, N)].issued BY ZenonT(30), <1>2, <2>2, <3>1, Sizes
    <3>3. N - 1 < Occupied BY <1>3, <3>1, <3>2
    <3> QED BY <1>1, <3>3, Sizes
  <2> QED BY <2>1, <2>2 DEF issue_full, AllIssued
<1> QED BY <1>1, <1>4, <1>5, <1>6, Sizes

(***************************************************************************)
(* Facts about a step.                                                     *)
(***************************************************************************)

(* What the neighbours of the scoreboard guarantee. *)
LegalInput(in) ==
  /\ in.flush \in BOOLEAN /\ in.flush_unissued \in BOOLEAN /\ in.bmiss \in BOOLEAN
  /\ in.decoded \in Decoded /\ InOrder(in.decoded)
  /\ \A p \in IssuePorts : in.issue_ack[p] = (in.decoded[p] # Nothing)
  /\ \A c \in CommitPorts : in.commit_ack[c] \in BOOLEAN /\ (in.commit_ack[c] => MayCommit(c))
  /\ NrCommitPorts = 2 /\ in.commit_ack[1] => in.commit_ack[0]
  /\ \A w \in in.wb :
       /\ w.id \in Slots /\ w.ex \in BOOLEAN /\ w.result \in Results /\ w.rd = mem[w.id].rd
       /\ mem[w.id].issued => ~mem[w.id].valid
  /\ in.bmiss =>
       /\ in.flush_unissued /\ in.flu_id \in Slots /\ mem[in.flu_id].issued
       /\ issue_pointer \in {Slot(in.flu_id, 1, N), Slot(in.flu_id, 2, N)}

LEMMA NextIsLegal ==
  ASSUME TypeOK, Next
  PROVE  \E in : LegalInput(in) /\ Cycle(in)
<1>1. PICK decoded \in Decoded, acked \in 0..NrCommitPorts, ids \in WriteBacks,
           flush \in BOOLEAN, wrap \in OutOfRangeWraps :
        \E mispredicted \in Mispredicted(ids) :
          CycleOfCore(decoded, acked, ids, mispredicted, flush, wrap)
  BY DEF Next
<1>2. PICK mispredicted \in Mispredicted(ids) :
        CycleOfCore(decoded, acked, ids, mispredicted, flush, wrap)
  BY <1>1
<1> DEFINE flu == IF mispredicted = {} THEN 0 ELSE CHOOSE i \in mispredicted : TRUE
           Input(ex, x_no_rd) ==
             [decoded |-> decoded,
              issue_ack |-> [p \in IssuePorts |-> decoded[p] # Nothing],
              flush_unissued |-> mispredicted # {} \/ flush,
              wb |-> {[id |-> i, ex |-> i \in ex, result |-> "own", rd |-> mem[i].rd] : i \in ids},
              bmiss |-> mispredicted # {},
              flu_id |-> flu,
              commit_ack |-> [c \in CommitPorts |-> c < acked],
              flush |-> flush,
              x_no_rd |-> x_no_rd,
              wrap |-> wrap]
<1>3. PICK ex \in SUBSET MayFault(ids), x_no_rd \in BOOLEAN :
        /\ InOrder(decoded)
        /\ \A c \in 0..(acked - 1) : MayCommit(c)
        /\ Cycle(Input(ex, x_no_rd))
  BY ZenonT(30), <1>2 DEF CycleOfCore
<1>4. ids \subseteq Slots /\ \A i \in ids : mem[i].issued => ~mem[i].valid
  BY DEF WriteBacks, Returnable, Pending
<1>5. ASSUME mispredicted # {}
      PROVE  /\ flu \in Slots /\ mem[flu].issued
             /\ issue_pointer \in {Slot(flu, 1, N), Slot(flu, 2, N)}
  <2>1. PICK j \in ids :
          /\ mispredicted = {j} /\ mem[j].issued
          /\ issue_pointer \in {Slot(j, 1, NR_SB_ENTRIES), Slot(j, 2, NR_SB_ENTRIES)}
    BY <1>5 DEF Mispredicted
  <2>2. flu = j BY <2>1
  <2> HIDE DEF flu
  <2> QED BY <1>4, <2>1, <2>2 DEF N
<1> HIDE DEF flu
<1>6. LegalInput(Input(ex, x_no_rd))
  <2> DEFINE in == Input(ex, x_no_rd)
  <2>1. \A w \in in.wb :
          /\ w.id \in Slots /\ w.ex \in BOOLEAN /\ w.result \in Results /\ w.rd = mem[w.id].rd
          /\ mem[w.id].issued => ~mem[w.id].valid
    <3> TAKE w \in in.wb
    <3>1. PICK i \in ids : w = [id |-> i, ex |-> i \in ex, result |-> "own", rd |-> mem[i].rd]
      OBVIOUS
    <3>2. w.id = i /\ w.ex = (i \in ex) /\ w.result = "own" /\ w.rd = mem[i].rd BY SMTT(30), <3>1
    <3> QED BY <1>4, <3>2 DEF Results
  <2>2. /\ in.flush \in BOOLEAN /\ in.flush_unissued \in BOOLEAN /\ in.bmiss \in BOOLEAN
        /\ in.decoded \in Decoded /\ InOrder(in.decoded)
        /\ \A p \in IssuePorts : in.issue_ack[p] = (in.decoded[p] # Nothing)
    BY SMTT(30), <1>3
  <2>3. in.bmiss =>
          /\ in.flush_unissued /\ in.flu_id \in Slots /\ mem[in.flu_id].issued
          /\ issue_pointer \in {Slot(in.flu_id, 1, N), Slot(in.flu_id, 2, N)}
    BY ZenonT(30), <1>5
  <2>4. /\ \A c \in CommitPorts : in.commit_ack[c] \in BOOLEAN /\ (in.commit_ack[c] => MayCommit(c))
        /\ NrCommitPorts = 2 /\ in.commit_ack[1] => in.commit_ack[0]
    <3>1. \A c \in CommitPorts : in.commit_ack[c] = (c < acked) OBVIOUS
    <3> HIDE DEF in
    <3>2. ASSUME NEW c \in CommitPorts
          PROVE  in.commit_ack[c] \in BOOLEAN /\ (in.commit_ack[c] => MayCommit(c))
      <4>1. in.commit_ack[c] = (c < acked) BY <3>1
      <4>2. c < acked => c \in 0..(acked - 1) BY Sizes
      <4>3. \A k \in 0..(acked - 1) : MayCommit(k) BY <1>3
      <4>4. in.commit_ack[c] \in BOOLEAN BY <4>1
      <4>5. ASSUME in.commit_ack[c] PROVE MayCommit(c)
        <5>1. c < acked BY ZenonT(30), <4>1, <4>5
        <5> QED BY <4>2, <4>3, <5>1, Zenon
      <4> QED BY <4>4, <4>5
    <3>3. ASSUME NrCommitPorts = 2, in.commit_ack[1] PROVE in.commit_ack[0]
      <4>1. 1 \in CommitPorts /\ 0 \in CommitPorts BY <3>3, Sizes
      <4>2. 1 < acked BY ZenonT(30), <3>1, <3>3, <4>1
      <4>3. 0 < acked BY <4>2, Sizes
      <4> QED BY ZenonT(30), <3>1, <4>1, <4>3
    <3> QED BY <3>2, <3>3
  <2> HIDE DEF in
  <2>5. LegalInput(in)
    BY <2>1, <2>2, <2>3, <2>4 DEF LegalInput
  <2> QED BY <2>5 DEF in
<1> QED BY <1>3, <1>6

(* The instructions taken enter the entries behind the youngest one. *)
LEMMA Taken ==
  ASSUME IInv, NEW in, LegalInput(in)
  PROVE  /\ num_issue(in) \in 0..2 /\ Occupied + num_issue(in) <= N
         /\ \A k \in 0..(N - 1) :
              Issue(Slot(commit_pointer[0], k, N), in) =
                IF Occupied <= k /\ k < Occupied + num_issue(in)
                THEN Fresh(in.decoded[k - Occupied]) ELSE Entry(k)
         /\ \A p \in 0..1 : p < num_issue(in) =>
              p \in IssuePorts /\ in.decoded[p] \in Instrs /\ in.decoded[p] # Nothing
         /\ in.bmiss => num_issue(in) = 0
<1> DEFINE cp == commit_pointer[0]
           occ == Occupied
           t(p) == p \in IssuePorts /\ taken(p, in)
           ports(i) == {p \in IssuePorts : i = issue_ptr(p) /\ taken(p, in)}
<1>1. /\ cp \in 0..(N - 1) /\ occ \in 0..N /\ issue_pointer = Slot(cp, occ, N)
      /\ issue_full(1) <=> occ >= N - 1
      /\ issue_full(0) <=> occ = N
  BY OccupiedFacts, FullIsFull DEF IInv
<1>2. /\ \A p \in {0, 1} : t(p) => ~issue_full(p) /\ in.decoded[p] # Nothing /\ ~in.flush_unissued
      /\ t(0) \in BOOLEAN /\ t(1) \in BOOLEAN
  BY DEF taken
<1>3. t(0) => occ + 1 <= N
  BY <1>1, <1>2, Sizes
<1>4. t(1) => occ + 2 <= N
  BY <1>1, <1>2, Sizes
<1>5. ASSUME t(1) PROVE t(0)
  <2>1. 1 \in IssuePorts /\ in.decoded[1] # Nothing /\ ~in.flush_unissued BY <1>2, <1>5
  <2>2. in.decoded[0] # Nothing
    <3>1. InOrder(in.decoded) BY DEF LegalInput
    <3> QED BY <2>1, <3>1 DEF InOrder
  <2>3. in.issue_ack[0] BY ZenonT(30), <2>2, Sizes DEF LegalInput
  <2>4. ~issue_full(0) BY <1>1, <1>4, <1>5, Sizes
  <2> QED BY <2>1, <2>2, <2>3, <2>4, Sizes DEF taken
<1>6. num_issue(in) = IF t(1) THEN 2 ELSE IF t(0) THEN 1 ELSE 0
  <2>1. t(0) <=> taken(0, in) BY Sizes
  <2>2. t(1) <=> NrIssuePorts = 2 /\ taken(1, in) BY Sizes
  <2> HIDE DEF t
  <2> QED BY <1>2, <1>5, <2>1, <2>2 DEF num_issue
<1>7. \A p \in {0, 1} : t(p) => issue_ptr(p) = Slot(cp, occ + p, N) /\ occ + p \in 0..(N - 1)
  <2> HIDE DEF cp, occ, t
  <2>1. N \in Nat /\ N > 1 BY Sizes
  <2>2. \A p \in {0, 1} : t(p) => occ + p \in 0..(N - 1) BY <1>1, <1>3, <1>4, <2>1
  <2>3. \A p \in {0, 1} : issue_ptr(p) = Slot(Slot(cp, occ, N), p, N) BY <1>1 DEF issue_ptr, N
  <2>4. \A p \in {0, 1} : occ + p <= N => Slot(Slot(cp, occ, N), p, N) = Slot(cp, occ + p, N)
    <3>1. N > 0 /\ \A p \in {0, 1} : p \in 0..N BY <2>1
    <3> QED BY ZenonT(30), <1>1, <2>1, <3>1, SlotAdd
  <2> QED BY <2>1, <2>2, <2>3, <2>4, <1>1
<1>8. IssuePorts \subseteq {0, 1} BY Sizes
<1>9. ASSUME NEW k \in 0..(N - 1)
      PROVE  Issue(Slot(cp, k, N), in) =
               IF occ <= k /\ k < occ + num_issue(in)
               THEN Fresh(in.decoded[k - occ]) ELSE mem[Slot(cp, k, N)]
  <2> DEFINE i == Slot(cp, k, N)
  <2>1. \A p \in {0, 1} : p \in ports(i) <=> t(p) /\ k = occ + p
    <3> HIDE DEF cp, occ
    <3>1. \A j \in 0..(N - 1) : Slot(cp, j, N) = Slot(cp, k, N) => j = k BY <1>1, Places
    <3> QED BY <1>7, <3>1
  <2>2. CASE occ <= k /\ k < occ + num_issue(in)
    <3> DEFINE p == k - occ
    <3>1. p \in {0, 1} /\ k = occ + p
      <4> HIDE DEF occ, t
      <4> QED BY <1>1, <1>2, <1>6, <2>2, Sizes
    <3>2. t(p)
      <4> HIDE DEF occ, t, p
      <4> QED BY <1>1, <1>2, <1>5, <1>6, <2>2, <3>1
    <3>3. ports(i) = {p}
      <4> HIDE DEF occ, t, p, i, ports
      <4>1. p \in ports(i) BY <2>1, <3>1, <3>2
      <4>2. ports(i) \subseteq {0, 1} BY <1>8 DEF ports
      <4>3. \A q \in {0, 1} : q \in ports(i) => q = p BY <1>1, <2>1, <3>1
      <4> QED BY <4>1, <4>2, <4>3
    <3>4. Issue(i, in) = Fresh(in.decoded[p])
      <4>1. (CHOOSE q \in ports(i) : TRUE) = p /\ ports(i) # {} BY <3>3
      <4> HIDE DEF p, i
      <4> QED BY ZenonT(30), <4>1 DEF Issue
    <3> QED BY <2>2, <3>4
  <2>3. CASE ~(occ <= k /\ k < occ + num_issue(in))
    <3>1. ports(i) = {}
      <4> HIDE DEF occ, t, i, ports
      <4>1. ports(i) \subseteq {0, 1} BY <1>8 DEF ports
      <4>2. \A q \in {0, 1} : q \notin ports(i) BY <1>1, <1>2, <1>5, <1>6, <2>1, <2>3
      <4> QED BY <4>1, <4>2
    <3>2. Issue(i, in) = mem[i]
      <4> HIDE DEF i
      <4> QED BY <3>1 DEF Issue
    <3> QED BY <2>3, <3>2
  <2> QED BY <2>2, <2>3
<1>10. num_issue(in) \in 0..2 /\ occ + num_issue(in) <= N
  <2> HIDE DEF occ, t
  <2> QED BY <1>1, <1>2, <1>3, <1>4, <1>6, Sizes
<1>11. ASSUME NEW p \in 0..1, p < num_issue(in)
       PROVE  p \in IssuePorts /\ in.decoded[p] \in Instrs /\ in.decoded[p] # Nothing
  <2>1. t(p)
    <3> HIDE DEF t
    <3> QED BY <1>2, <1>5, <1>6, <1>11
  <2>2. in.decoded \in [IssuePorts -> Instrs \cup {Nothing}] BY DEF LegalInput, Decoded
  <2> QED BY <1>2, <2>1, <2>2
<1>12. ASSUME in.bmiss PROVE num_issue(in) = 0
  <2>1. ~t(0) /\ ~t(1) BY <1>2, <1>12 DEF LegalInput
  <2> HIDE DEF t
  <2> QED BY <1>6, <2>1
<1> HIDE DEF occ
<1>13. \A k \in 0..(N - 1) : mem[Slot(cp, k, N)] = Entry(k) BY DEF Entry
<1> QED BY <1>9, <1>10, <1>11, <1>12, <1>13 DEF occ

(* The entries that retire are the oldest ones, and done. *)
LEMMA Retired ==
  ASSUME IInv, NEW in, LegalInput(in)
  PROVE  /\ num_commit(in) \in 0..2 /\ num_commit(in) <= Occupied
         /\ \A k \in 0..(N - 1) :
              Leaves(Slot(commit_pointer[0], k, N), in) <=> in.flush \/ k < num_commit(in)
         /\ \A k \in 0..(N - 1) : k < num_commit(in) =>
              Entry(k).valid /\ (~Entry(k).ex \/ Entry(k).cancelled)
<1> DEFINE cp == commit_pointer[0]
           occ == Occupied
           a(c) == c \in CommitPorts /\ in.commit_ack[c]
           m == num_commit(in)
<1>1. /\ cp \in 0..(N - 1) /\ occ \in 0..N /\ N \in Nat /\ N > 1
      /\ \A k \in 0..(N - 1) : mem[Slot(cp, k, N)].issued <=> k < occ
  BY OccupiedFacts, Sizes DEF IInv, IssuedIsARing, N
<1>2. \A i \in Slots : mem[i].valid => mem[i].issued BY DEF IInv, FlagsOnlyIfIssued
<1>3. \A c \in CommitPorts : a(c) => mem[commit_pointer[c]].valid /\
        (~mem[commit_pointer[c]].ex \/ mem[commit_pointer[c]].cancelled)
  BY DEF LegalInput, MayCommit, commit_instr_o, commit_drop_o
<1>4. \A c \in CommitPorts : commit_pointer[c] \in 0..(N - 1) BY Sizes DEF IInv, TypeOK
<1>5. /\ a(0) \in BOOLEAN /\ a(1) \in BOOLEAN
      /\ m = (IF a(0) THEN 1 ELSE 0) + (IF a(1) THEN 1 ELSE 0)
      /\ a(1) => a(0) /\ NrCommitPorts = 2
  <2>1. a(0) <=> in.commit_ack[0] BY Sizes
  <2>2. a(1) <=> NrCommitPorts = 2 /\ in.commit_ack[1] BY Sizes
  <2>3. a(0) \in BOOLEAN /\ a(1) \in BOOLEAN OBVIOUS
  <2>4. a(1) => a(0) /\ NrCommitPorts = 2 BY <2>1, <2>2 DEF LegalInput
  <2> HIDE DEF a
  <2> QED BY <2>1, <2>2, <2>3, <2>4 DEF num_commit
<1>6. a(0) => mem[cp].issued BY <1>2, <1>3, <1>4, Sizes
<1>7. a(1) => commit_pointer[1] = Slot(cp, 1, N) /\ mem[Slot(cp, 1, N)].issued
  <2>1. ASSUME a(1) PROVE mem[commit_pointer[1]].issued /\ commit_pointer[1] \in Slots
    BY <1>2, <1>3, <1>4, <2>1, Sizes
  <2>2. a(1) => commit_pointer[1] = Slot(cp, 1, N)
    BY <1>5, <2>1 DEF IInv, PortsAgree
  <2> QED BY <2>1, <2>2
<1>8. a(0) => commit_pointer[0] = Slot(cp, 0, N) /\ mem[Slot(cp, 0, N)].issued
  BY <1>1, <1>6 DEF Slot
<1>9. m \in 0..2 /\ m <= occ
  <2> HIDE DEF cp, occ, a, m
  <2>1. a(0) => 0 < occ BY <1>1, <1>8
  <2>2. a(1) => 1 < occ BY <1>1, <1>7
  <2> QED BY <1>1, <1>5, <2>1, <2>2
<1>10. ASSUME NEW k \in 0..(N - 1)
       PROVE  Leaves(Slot(cp, k, N), in) <=> in.flush \/ k < m
  <2> DEFINE i == Slot(cp, k, N)
  <2>1. Leaves(i, in) <=> in.flush \/ (a(0) /\ i = commit_pointer[0]) \/ (a(1) /\ i = commit_pointer[1])
    BY Sizes DEF Leaves
  <2> HIDE DEF a, cp, m
  <2>0. 0 \in 0..(N - 1) /\ 1 \in 0..(N - 1) BY <1>1
  <2>2. i = Slot(cp, 0, N) <=> k = 0 BY ZenonT(30), <1>1, <2>0, Places
  <2>3. i = Slot(cp, 1, N) <=> k = 1 BY ZenonT(30), <1>1, <2>0, Places
  <2>4. Leaves(i, in) <=> in.flush \/ (a(0) /\ k = 0) \/ (a(1) /\ k = 1)
    BY <1>7, <1>8, <2>1, <2>2, <2>3
  <2>5. k < m <=> (a(0) /\ k = 0) \/ (a(1) /\ k = 1) BY <1>5
  <2> QED BY <2>4, <2>5
<1>11. ASSUME NEW k \in 0..(N - 1), k < m
       PROVE  LET e == mem[Slot(cp, k, N)] IN e.valid /\ (~e.ex \/ e.cancelled)
  <2>1. (a(0) /\ k = 0) \/ (a(1) /\ k = 1)
    <3> HIDE DEF a, m
    <3> QED BY <1>5, <1>11
  <2>2. ASSUME NEW c \in {0, 1}, a(c), k = c PROVE commit_pointer[c] = Slot(cp, k, N)
    BY <1>7, <1>8, <2>2
  <2> QED BY <1>3, <2>1, <2>2
<1> QED BY <1>9, <1>10, <1>11 DEF Entry

(* A step without flush moves the window of entries in use: m of them      *)
(* leave and n enter.                                                      *)
Moves(m, n) ==
  /\ m \in 0..2 /\ n \in 0..2 /\ m <= Occupied /\ Occupied + n <= N
  /\ Occupied' = Occupied + n - m
  /\ \A k \in 0..(N - 1) :
       Slot(commit_pointer[0]', k, N) =
         Slot(commit_pointer[0], IF k + m < N THEN k + m ELSE k + m - N, N)

LEMMA Window ==
  ASSUME IInv, NEW in, LegalInput(in), Cycle(in), ~in.flush
  PROVE  /\ Moves(num_commit(in), num_issue(in))
         /\ commit_pointer' \in [CommitPorts -> Slots] /\ issue_pointer' \in Slots
         /\ IssuedIsARing'
         /\ NrCommitPorts = 2 => commit_pointer[1]' = Slot(commit_pointer[0]', 1, N)
<1> DEFINE cp == commit_pointer[0]
           occ == Occupied
           m == num_commit(in)
           n == num_issue(in)
           cp2 == Slot(cp, m, N)
           ip2 == Slot(cp2, occ + n - m, N)
           Is(k) == mem'[Slot(cp2, k, N)].issued
<1>1. /\ cp \in 0..(N - 1) /\ occ \in 0..N /\ N \in Nat /\ N > 1
      /\ issue_pointer = Slot(cp, occ, N)
      /\ m \in 0..2 /\ m <= occ /\ n \in 0..2 /\ occ + n <= N
  BY OccupiedFacts, Sizes, Retired, Taken DEF IInv
<1>2. cp2 \in 0..(N - 1) /\ ip2 \in 0..(N - 1)
  <2> HIDE DEF cp, occ, m, n
  <2> QED BY <1>1 DEF Slot
<1>3. commit_pointer' = [c \in CommitPorts |-> Slot(cp2, c, N)]
  BY DEF Cycle, commit_pointer_n, N
<1>4. issue_pointer' = ip2
  <2>1. issue_pointer' = Slot(issue_pointer, n, N) BY DEF Cycle, issue_pointer_n, issue_ptr, N
  <2> HIDE DEF cp, occ, m, n
  <2> QED BY <1>1, <2>1 DEF Slot
<1>5. commit_pointer[0]' = cp2
  <2> HIDE DEF cp2
  <2> QED BY <1>2, <1>3, Sizes DEF Slot
<1>6. \A c \in CommitPorts : Slot(cp2, c, N) \in 0..(N - 1)
  <2> HIDE DEF cp2
  <2> QED BY <1>1, <1>2, Sizes DEF Slot
<1>7. \A k \in 0..(N - 1) :
        Slot(cp2, k, N) = Slot(cp, IF k + m < N THEN k + m ELSE k + m - N, N)
  <2> HIDE DEF cp, m
  <2> QED BY <1>1 DEF Slot
<1>8. ASSUME NEW k \in 0..(N - 1) PROVE Is(k) <=> k < occ + n - m
  <2> DEFINE j == IF k + m < N THEN k + m ELSE k + m - N
             i == Slot(cp, j, N)
  <2>1. j \in 0..(N - 1)
    <3> HIDE DEF m
    <3> QED BY <1>1
  <2>2. i \in Slots /\ i = Slot(cp2, k, N)
    <3>1. i = Slot(cp2, k, N) BY <1>7
    <3>2. i \in 0..(N - 1)
      <4>1. j \in 0..N BY <1>1, <2>1
      <4> HIDE DEF cp, j
      <4> QED BY ZenonT(30), <1>1, <4>1, Places
    <3> HIDE DEF i
    <3> QED BY <3>1, <3>2, Sizes
  <2>3. mem'[i].issued <=> Issue(i, in).issued /\ ~Leaves(i, in)
    <3> HIDE DEF i
    <3> QED BY ZenonT(30), <2>2 DEF Cycle, issue_fifo
  <2>4. Leaves(i, in) <=> j < m
    <3> HIDE DEF j
    <3> QED BY <2>1, Retired
  <2>5. Issue(i, in).issued <=> j < occ + n
    <3>1. Issue(i, in) = IF occ <= j /\ j < occ + n THEN Fresh(in.decoded[j - occ]) ELSE mem[i]
      <4> HIDE DEF j
      <4> QED BY <2>1, Taken DEF Entry
    <3>2. mem[i].issued <=> j < occ
      <4> HIDE DEF j
      <4> QED BY <2>1, Sizes DEF IInv, IssuedIsARing, N
    <3> HIDE DEF i, j, occ, n
    <3> QED BY <1>1, <2>1, <3>1, <3>2 DEF Fresh
  <2>6. ~(j < m) /\ j < occ + n <=> k < occ + n - m
    <3> HIDE DEF occ, n, m
    <3> QED BY <1>1
  <2> HIDE DEF i, j
  <2> QED BY <2>2, <2>3, <2>4, <2>5, <2>6
<1>9. Occupied' = occ + n - m
  <2>1. Occupied' = Distance(cp2, ip2, Is(0))
    <3>1. Slot(cp2, 0, N) = cp2
      <4> HIDE DEF cp2
      <4> QED BY <1>1, <1>2 DEF Slot
    <3> HIDE DEF cp2, ip2
    <3> QED BY <1>4, <1>5, <3>1 DEF Occupied, Distance, N
  <2>2. Is(0) <=> occ + n - m > 0
    <3> HIDE DEF Is, occ, n, m
    <3> QED BY <1>1, <1>8
  <2>3. Is(0) \in BOOLEAN
    <3>1. Slot(cp2, 0, N) \in Slots
      <4> HIDE DEF cp2
      <4> QED BY <1>2, Sizes DEF Slot
    <3> HIDE DEF cp2
    <3> QED BY ZenonT(30), <3>1 DEF Cycle, issue_fifo
  <2> HIDE DEF Is, cp2, occ, n, m
  <2> QED BY <1>1, <1>2, <2>1, <2>2, <2>3, DistanceIs
<1>10. IssuedIsARing'
  <2>1. IssuedIsARing' = \A k \in Slots : mem'[Slot(cp2, k, N)].issued <=> k < Occupied'
    <3> HIDE DEF cp2
    <3> QED BY <1>5 DEF IssuedIsARing, N
  <2> HIDE DEF cp2, occ, n, m
  <2> QED BY <1>8, <1>9, <2>1, Sizes
<1>11. Moves(m, n)
  <2> HIDE DEF cp2, m, n
  <2> QED BY <1>1, <1>5, <1>7, <1>9 DEF Moves
<1> HIDE DEF cp2, ip2, m, n
<1> QED BY <1>2, <1>3, <1>4, <1>5, <1>6, <1>10, <1>11, Sizes DEF m, n

(* The write back of a second move completes the first one before it. *)
LEMMA CompletesWhat ==
  ASSUME IInv, NEW in, LegalInput(in), NEW k \in 0..(N - 1),
         CompletesFirstMove(Slot(commit_pointer[0], k, N), in)
  PROVE  /\ k + 1 < Occupied
         /\ Entry(k).instr.macro = "first" /\ Entry(k + 1).instr.macro = "last"
         /\ Retiring(Slot(commit_pointer[0], k + 1, N), in) # {}
<1> DEFINE cp == commit_pointer[0]
           i == Slot(cp, k, N)
<1>1. cp \in 0..(N - 1) /\ Occupied \in 0..N /\ N \in Nat /\ N > 1
  BY OccupiedFacts, Sizes DEF IInv
<1>2. PICK w \in in.wb :
        /\ mem[w.id].issued /\ mem[w.id].instr.macro = "last"
        /\ IF w.id = 0 THEN i = N - 1 ELSE i = w.id - 1
  BY DEF CompletesFirstMove, DoubleMove, N
<1>3. w.id \in Slots /\ ~mem[w.id].valid BY <1>2 DEF LegalInput
<1>4. PICK j \in 0..(N - 1) : w.id = Slot(cp, j, N) BY <1>3, Placed DEF IInv
<1>5. j < Occupied
  BY <1>2, <1>4, Sizes DEF IInv, IssuedIsARing, N
<1>6. j > 0 /\ Entry(j - 1).instr.macro = "first"
  BY <1>2, <1>3, <1>4, <1>5, Sizes DEF IInv, LastMoveFollows, Entry
<1>7. k = j - 1
  <2> HIDE DEF cp
  <2>1. i = Slot(cp, j - 1, N) BY <1>1, <1>2, <1>3, <1>4, <1>6, Sizes DEF Slot
  <2>2. j - 1 \in 0..(N - 1) BY <1>1, <1>6
  <2> QED BY ZenonT(30), <1>1, <2>1, <2>2, Places
<1>8. Entry(k).instr.macro = "first" BY <1>6, <1>7
<1>9. k + 1 = j BY <1>7
<1>10. Entry(k + 1).instr.macro = "last" /\ w \in Retiring(Slot(cp, k + 1, N), in)
  BY <1>2, <1>4, <1>9 DEF Entry, Retiring
<1> QED BY <1>1, <1>5, <1>8, <1>9, <1>10

(* The entry at place k after a step without flush is the one at place     *)
(* k + m before it, or new.                                                *)
LEMMA NewEntry ==
  ASSUME IInv, NEW in, LegalInput(in), Cycle(in), ~in.flush,
         NEW k \in 0..(N - 1), k < Occupied', NEW j, j = k + num_commit(in)
  PROVE  /\ j \in 0..(N - 1) /\ j < Occupied + num_issue(in)
         /\ Slot(commit_pointer[0], j, N) \in Slots
         /\ Entry(k)' = issue_fifo(Slot(commit_pointer[0], j, N), in)
         /\ Entry(k)' = mem'[Slot(commit_pointer[0], j, N)]
         /\ ~Leaves(Slot(commit_pointer[0], j, N), in)
         /\ Issue(Slot(commit_pointer[0], j, N), in) =
              IF j < Occupied THEN Entry(j) ELSE Fresh(in.decoded[j - Occupied])
         /\ j >= Occupied => in.decoded[j - Occupied] \in Instrs /\ j - Occupied \in IssuePorts
<1> DEFINE m == num_commit(in)
           n == num_issue(in)
           cp == commit_pointer[0]
           i == Slot(cp, j, N)
<1>1. /\ m \in 0..2 /\ n \in 0..2 /\ m <= Occupied /\ Occupied + n <= N
      /\ Occupied' = Occupied + n - m /\ Occupied \in 0..N /\ cp \in 0..(N - 1) /\ N \in Nat
  BY Window, OccupiedFacts, Sizes DEF Moves, IInv
<1>2. j \in 0..(N - 1) /\ j < Occupied + n
  <2> HIDE DEF m, n
  <2> QED BY <1>1 DEF m
<1>3. i \in Slots
  <2>1. j \in 0..N BY <1>1, <1>2
  <2> HIDE DEF cp
  <2> QED BY ZenonT(30), <1>1, <2>1, Places, Sizes
<1>4. Slot(commit_pointer[0]', k, N) = i
  <2>1. \A l \in 0..(N - 1) :
       Slot(commit_pointer[0]', l, N) = Slot(cp, IF l + m < N THEN l + m ELSE l + m - N, N)
    BY Window DEF Moves
  <2>2. k + m < N BY <1>1, <1>2
  <2> HIDE DEF cp, m
  <2> QED BY <2>1, <2>2 DEF m
<1>5. Entry(k)' = mem'[i]
  <2>1. Entry(k)' = mem'[Slot(commit_pointer[0]', k, N)] BY DEF Entry
  <2> HIDE DEF i
  <2> QED BY <1>4, <2>1
<1>6. Entry(k)' = issue_fifo(i, in)
  <2> HIDE DEF i
  <2> QED BY <1>3, <1>5 DEF Cycle
<1>7. ~Leaves(i, in)
  <2>1. ~(j < m) BY <1>1
  <2> QED BY <1>2, <2>1, Retired
<1>8. Issue(i, in) = IF j < Occupied THEN Entry(j) ELSE Fresh(in.decoded[j - Occupied])
  <2>1. Issue(i, in) = IF Occupied <= j /\ j < Occupied + n THEN Fresh(in.decoded[j - Occupied]) ELSE Entry(j)
    BY <1>2, Taken
  <2> HIDE DEF i, n
  <2> QED BY <1>1, <1>2, <2>1
<1>9. ASSUME j >= Occupied PROVE in.decoded[j - Occupied] \in Instrs /\ j - Occupied \in IssuePorts
  <2>1. j - Occupied \in 0..1 /\ j - Occupied < n
    <3> HIDE DEF n
    <3> QED BY SMTT(30), <1>1, <1>2, <1>9
  <2> QED BY <2>1, Taken
<1> QED BY <1>2, <1>3, <1>5, <1>6, <1>7, <1>8, <1>9

(* An instruction that was in flight keeps what it is and stays done. *)
LEMMA OldEntry ==
  ASSUME IInv, NEW in, LegalInput(in), Cycle(in), ~in.flush,
         NEW k \in 0..(N - 1), k < Occupied', NEW j, j = k + num_commit(in), j < Occupied
  PROVE  /\ Entry(k)'.instr = Entry(j).instr
         /\ Entry(j).valid => Entry(k)'.valid
         /\ Entry(j).cancelled => Entry(k)'.cancelled
         /\ Entry(j).ex => Entry(k)'.ex
         /\ Entry(j).instr.macro = "first" /\ Entry(k)'.valid =>
              Entry(j).valid \/ CompletesFirstMove(Slot(commit_pointer[0], j, N), in)
         /\ Retiring(Slot(commit_pointer[0], j, N), in) # {} /\ Entry(j).instr.macro = "last" =>
              Entry(k)'.valid
<1> DEFINE i == Slot(commit_pointer[0], j, N)
           e == Entry(j)
           wbs == Retiring(i, in)
<1>1. /\ j \in 0..(N - 1) /\ i \in Slots
      /\ Entry(k)' = issue_fifo(i, in) /\ ~Leaves(i, in) /\ Issue(i, in) = e
  BY NewEntry
<1>2. e = mem[i] /\ e.issued
  BY <1>1, Sizes DEF Entry, IInv, IssuedIsARing, N
<1>3. wbs # {} => ~e.valid
  BY <1>2 DEF Retiring, LegalInput
<1>4. e \in sb_mem_t BY <1>1, <1>2 DEF IInv, TypeOK
<1>5. e.instr.macro = "first" => e.instr.fu # "NONE"
  <2>1. e.instr \in Instrs \cup {Nothing} BY <1>4 DEF sb_mem_t
  <2>2. Nothing.macro = "no" BY DEF Nothing
  <2> HIDE DEF e
  <2>3. CASE e.instr \in Instrs BY <2>3, DecodedInstructions
  <2>4. CASE e.instr = Nothing BY <2>2, <2>4
  <2> QED BY <2>1, <2>3, <2>4
<1> HIDE DEF i
<1>6. /\ Entry(k)'.instr = e.instr
      /\ Entry(k)'.valid = valid_n(i, e, wbs, in)
      /\ Entry(k)'.cancelled = (e.cancelled \/ Cancels(i, in))
      /\ Entry(k)'.ex = (e.ex \/ \E w \in wbs : w.ex)
  <2> DEFINE r == issue_fifo(i, in)
  <2>1. /\ r.instr = e.instr
        /\ r.valid = (valid_n(i, e, wbs, in) /\ ~Leaves(i, in))
        /\ r.cancelled = ((e.cancelled \/ Cancels(i, in)) /\ ~Leaves(i, in))
        /\ r.ex = (e.ex \/ \E w \in wbs : w.ex)
    <3> HIDE DEF e
    <3> QED BY ZenonT(30), <1>1, <1>2 DEF issue_fifo
  <2>2. valid_n(i, e, wbs, in) \in BOOLEAN BY ZenonT(30), <1>4 DEF valid_n, sb_mem_t, DoubleMove
  <2> HIDE DEF r, e, wbs
  <2> QED BY SMTT(30), <1>1, <2>1, <2>2 DEF r
<1>7. valid_n(i, e, wbs, in) =
        IF CompletesFirstMove(i, in) THEN TRUE
        ELSE IF wbs # {} THEN ~(e.instr.macro = "first")
        ELSE e.valid \/ e.instr.fu = "NONE"
  BY ZenonT(30), <1>2 DEF valid_n, DoubleMove
<1> HIDE DEF wbs, e
<1> QED BY ZenonT(30), <1>3, <1>5, <1>6, <1>7 DEF i, e, wbs

(* An instruction that has just entered is done only if it was rejected. *)
LEMMA FreshEntry ==
  ASSUME IInv, NEW in, LegalInput(in), Cycle(in), ~in.flush,
         NEW k \in 0..(N - 1), k < Occupied', NEW j, j = k + num_commit(in), j >= Occupied
  PROVE  /\ Entry(k)'.instr = in.decoded[j - Occupied]
         /\ Entry(k)'.valid => Entry(k)'.ex
<1> DEFINE i == Slot(commit_pointer[0], j, N)
           d == in.decoded[j - Occupied]
           e == Fresh(d)
           wbs == Retiring(i, in)
<1>1. /\ j \in 0..(N - 1) /\ i \in Slots /\ Occupied \in 0..N
      /\ Entry(k)' = issue_fifo(i, in) /\ ~Leaves(i, in) /\ Issue(i, in) = e
  <2>1. Occupied \in 0..N BY OccupiedFacts DEF IInv
  <2>2. j \in 0..(N - 1) BY NewEntry
  <2>3. ~(j < Occupied) BY <2>1, <2>2
  <2> QED BY <2>1, <2>2, <2>3, NewEntry
<1>2. ~mem[i].issued
  <2> DEFINE cp == commit_pointer[0]
  <2>1. \A l \in 0..(N - 1) : mem[Slot(cp, l, N)].issued <=> l < Occupied
    <3>1. IssuedIsARing BY DEF IInv
    <3> QED BY <3>1 DEF IssuedIsARing, Slots, N
  <2>2. j \in 0..(N - 1) /\ ~(j < Occupied) BY <1>1
  <2> HIDE DEF cp
  <2>3. ~mem[Slot(cp, j, N)].issued BY <2>1, <2>2
  <2> QED BY <2>3 DEF cp
<1>3. wbs = {} BY <1>2 DEF Retiring
<1>4. ~CompletesFirstMove(i, in)
  <2>1. ~(j + 1 < Occupied) BY <1>1
  <2> QED BY <1>1, <2>1, CompletesWhat
<1>5. e.issued /\ e.instr = d /\ e.valid = d.ex /\ e.ex = d.ex BY SMTT(30) DEF Fresh
<1>6. valid_n(i, e, wbs, in) = (d.ex \/ FALSE)
  <2> HIDE DEF e, i
  <2> QED BY SMTT(30), <1>2, <1>3, <1>4, <1>5 DEF valid_n
<1> HIDE DEF i, d
<1>7. issue_fifo(i, in).instr = d /\ (issue_fifo(i, in).valid => d.ex) /\ (d.ex => issue_fifo(i, in).ex)
  <2>1. /\ issue_fifo(i, in).instr = d
        /\ issue_fifo(i, in).valid = (valid_n(i, e, wbs, in) /\ ~Leaves(i, in))
        /\ issue_fifo(i, in).ex = (e.ex \/ \E w \in wbs : w.ex)
    <3> HIDE DEF e
    <3> QED BY ZenonT(30), <1>1, <1>5 DEF issue_fifo
  <2> HIDE DEF e, wbs
  <2> QED BY ZenonT(30), <1>1, <1>5, <1>6, <2>1
<1> QED BY <1>1, <1>7 DEF d

(* The first of two moves that retires is not cancelled. *)
LEMMA FirstMoveRetires ==
  ASSUME IInv, NEW in, LegalInput(in), NEW k \in 0..(N - 1), k < num_commit(in),
         Entry(k).instr.macro = "first"
  PROVE  k + 1 < Occupied /\ Entry(k + 1).valid
<1>1. Slot(commit_pointer[0], k, N) \in Slots
  <2> DEFINE c == commit_pointer[0]
  <2>1. c \in 0..(N - 1) /\ k \in 0..N BY OccupiedFacts, Sizes DEF IInv
  <2> HIDE DEF c
  <2>2. Slot(c, k, N) \in 0..(N - 1) BY <2>1, Places
  <2> QED BY <2>2, Sizes DEF c
<1>2. Entry(k) \in sb_mem_t BY <1>1 DEF Entry, IInv, TypeOK
<1>3. Entry(k).instr \in Instrs
  <2>1. Nothing.macro = "no" BY DEF Nothing
  <2> QED BY <1>2, <2>1 DEF sb_mem_t
<1>4. ~SpeculativeSb BY <1>3, SizesOfTheScoreboard
<1>5. ~Entry(k).cancelled BY <1>1, <1>4 DEF IInv, CancelsOnlySpeculation, Entry
<1>6. Entry(k).valid /\ ~Entry(k).ex BY <1>5, Retired
<1>7. k < Occupied
  <2>1. num_commit(in) \in 0..2 /\ num_commit(in) <= Occupied /\ Occupied \in 0..N
    BY Retired, OccupiedFacts DEF IInv
  <2> QED BY <2>1, Sizes
<1> QED BY <1>6, <1>7 DEF IInv, FirstMoveWaits

LEMMA LastMoveFollowsStep ==
  ASSUME IInv, NEW in, LegalInput(in), Cycle(in), ~in.flush
  PROVE  LastMoveFollows'
<1> DEFINE m == num_commit(in)
           n == num_issue(in)
           occ == Occupied
<1>1. /\ m \in 0..2 /\ n \in 0..2 /\ m <= occ /\ occ + n <= N
      /\ Occupied' = occ + n - m /\ occ \in 0..N /\ N \in Nat /\ N > 1
  BY Window, OccupiedFacts, Sizes DEF Moves, IInv
<1>2. ASSUME NEW k \in 0..(N - 1), k < Occupied', Entry(k)'.instr.macro = "last", ~Entry(k)'.valid
      PROVE  k > 0 /\ Entry(k - 1)'.instr.macro = "first"
  <2> DEFINE j == k + m
  <2>1. j \in 0..(N - 1) BY <1>2, NewEntry
  <2>2. CASE j < occ
    <3>1. Entry(j).instr.macro = "last" /\ ~Entry(j).valid BY <1>2, <2>2, OldEntry
    <3>2. j > 0 /\ Entry(j - 1).instr.macro = "first"
      BY <2>1, <2>2, <3>1 DEF IInv, LastMoveFollows
    <3>3. k > 0
      <4>1. SUFFICES ASSUME k = 0 PROVE FALSE OBVIOUS
      <4>2. j - 1 \in 0..(N - 1) /\ j - 1 < m
        <5> HIDE DEF m
        <5> QED BY <1>1, <2>1, <3>2, <4>1
      <4>3. Entry(j - 1 + 1).valid
        <5> HIDE DEF j
        <5> QED BY <3>2, <4>2, FirstMoveRetires
      <4>4. j - 1 + 1 = j
        <5> HIDE DEF m
        <5> QED BY <1>1
      <4> QED BY <3>1, <4>3, <4>4
    <3>4. k - 1 \in 0..(N - 1) /\ k - 1 < Occupied' /\ j - 1 = (k - 1) + m /\ j - 1 < occ
      <4> HIDE DEF m, n, occ
      <4> QED BY <1>1, <1>2, <2>1, <2>2, <3>3
    <3>5. Entry(k - 1)'.instr = Entry(j - 1).instr
      <4> HIDE DEF j
      <4> QED BY <3>4, OldEntry
    <3> QED BY <3>2, <3>3, <3>5
  <2>3. CASE j >= occ
    <3> DEFINE p == j - occ
    <3>1. /\ Entry(k)'.instr = in.decoded[p] /\ p \in IssuePorts /\ in.decoded[p] \in Instrs
          /\ in.decoded \in [IssuePorts -> Instrs \cup {Nothing}]
      <4>1. Entry(k)'.instr = in.decoded[p] BY <1>2, <2>3, FreshEntry
      <4>2. in.decoded[p] \in Instrs /\ p \in IssuePorts BY <1>2, <2>3, NewEntry
      <4>3. in.decoded \in [IssuePorts -> Instrs \cup {Nothing}] BY DEF LegalInput, Decoded
      <4> QED BY <4>1, <4>2, <4>3
    <3>2. Previous(p, in.decoded) = "first"
      <4>1. in.decoded[p].macro = "last" BY <1>2, <3>1
      <4>2. in.decoded[p] # Nothing
        <5>1. Nothing.macro = "no" BY DEF Nothing
        <5> HIDE DEF p
        <5> QED BY <4>1, <5>1
      <4>3. InOrder(in.decoded) BY DEF LegalInput
      <4> HIDE DEF p
      <4> QED BY <3>1, <4>1, <4>2, <4>3 DEF InOrder
    <3>3. p \in {0, 1}
      <4> HIDE DEF p
      <4> QED BY <3>1, Sizes
    <3>4. CASE p = 0
      <4> DEFINE cp == commit_pointer[0]
                 y == Slot(issue_pointer, N - 1, N)
      <4>1. mem[y].issued /\ mem[y].instr.macro = "first"
        <5>1. Previous(0, in.decoded) = "first" BY <3>2, <3>4
        <5> QED BY <5>1 DEF Previous, N
      <4>2. /\ cp \in 0..(N - 1) /\ issue_pointer = Slot(cp, occ, N)
            /\ \A l \in 0..(N - 1) : mem[Slot(cp, l, N)].issued <=> l < occ
        BY OccupiedFacts, Sizes DEF IInv, IssuedIsARing, N
      <4>3. y = Slot(cp, IF occ = 0 THEN N - 1 ELSE occ - 1, N)
        <5> HIDE DEF cp, occ
        <5> QED BY <1>1, <4>2 DEF Slot
      <4>4. occ > 0
        <5> HIDE DEF cp, occ
        <5> QED BY <1>1, <4>1, <4>2, <4>3
      <4>5. Entry(occ - 1).instr.macro = "first"
        BY <4>1, <4>3, <4>4 DEF Entry
      <4>6. occ - 1 \in 0..(N - 1) /\ ~(occ - 1 + 1 < occ) BY <1>1, <4>4
      <4>7. ~(occ - 1 < m)
        <5> HIDE DEF occ
        <5>1. occ - 1 < m => occ - 1 + 1 < occ BY <4>5, <4>6, FirstMoveRetires DEF occ
        <5> QED BY <4>6, <5>1
      <4>8. k > 0 /\ k - 1 \in 0..(N - 1) /\ k - 1 < Occupied' /\ occ - 1 = (k - 1) + m /\ occ - 1 < occ
        <5> HIDE DEF m, n, occ
        <5> QED BY <1>1, <1>2, <2>1, <3>4, <4>7
      <4>9. Entry(k - 1)'.instr = Entry(occ - 1).instr
        BY <4>8, OldEntry
      <4> QED BY <4>5, <4>8, <4>9
    <3>5. CASE p = 1
      <4>1. in.decoded[0].macro = "first"
        <5>1. Previous(1, in.decoded) = "first" BY <3>2, <3>5
        <5>2. 1 - 1 = 0 OBVIOUS
        <5> QED BY <5>1, <5>2 DEF Previous
      <4>2. k > 0 /\ k - 1 \in 0..(N - 1) /\ k - 1 < Occupied' /\ occ = (k - 1) + m /\ occ >= occ
        <5> HIDE DEF m, n, occ
        <5> QED BY <1>1, <1>2, <2>1, <3>5
      <4>3. Entry(k - 1)'.instr = in.decoded[occ - occ]
        BY <4>2, FreshEntry
      <4>4. occ - occ = 0 BY <1>1
      <4> QED BY <4>1, <4>2, <4>3, <4>4
    <3> QED BY <3>3, <3>4, <3>5
  <2> QED BY <1>1, <2>1, <2>2, <2>3
<1>3. LastMoveFollows' = \A k \in 0..(N - 1) :
        k < Occupied' /\ Entry(k)'.instr.macro = "last" /\ ~Entry(k)'.valid =>
          k > 0 /\ Entry(k - 1)'.instr.macro = "first"
  BY DEF LastMoveFollows, Entry
<1> QED BY <1>2, <1>3

LEMMA FirstMoveWaitsStep ==
  ASSUME IInv, NEW in, LegalInput(in), Cycle(in), ~in.flush
  PROVE  FirstMoveWaits'
<1> DEFINE m == num_commit(in)
           n == num_issue(in)
           occ == Occupied
<1>1. /\ m \in 0..2 /\ n \in 0..2 /\ m <= occ /\ occ + n <= N
      /\ Occupied' = occ + n - m /\ occ \in 0..N /\ N \in Nat /\ N > 1
  BY Window, OccupiedFacts, Sizes DEF Moves, IInv
<1>2. ASSUME NEW k \in 0..(N - 1), k < Occupied',
             Entry(k)'.instr.macro = "first", Entry(k)'.valid, ~Entry(k)'.ex
      PROVE  k + 1 < Occupied' /\ Entry(k + 1)'.instr.macro = "last" /\ Entry(k + 1)'.valid
  <2> DEFINE j == k + m
             Done == Retiring(Slot(commit_pointer[0], j + 1, N), in) # {} \/ Entry(j + 1).valid
  <2>1. j \in 0..(N - 1) BY <1>2, NewEntry
  <2>2. j < occ
    <3>1. j >= occ => FALSE BY <1>2, FreshEntry
    <3> QED BY <1>1, <2>1, <3>1
  <2>3. /\ Entry(j).instr.macro = "first" /\ ~Entry(j).ex
        /\ Entry(j).valid \/ CompletesFirstMove(Slot(commit_pointer[0], j, N), in)
    BY SMTT(30), <1>2, <2>2, OldEntry
  <2>4. j + 1 < occ /\ Entry(j + 1).instr.macro = "last" /\ Done
    <3>1. CASE Entry(j).valid
      BY <2>1, <2>2, <2>3, <3>1 DEF IInv, FirstMoveWaits
    <3>2. CASE CompletesFirstMove(Slot(commit_pointer[0], j, N), in)
      BY <2>1, <3>2, CompletesWhat
    <3> QED BY SMTT(30), <2>3, <3>1, <3>2
  <2>5. k + 1 \in 0..(N - 1) /\ k + 1 < Occupied' /\ j + 1 = (k + 1) + m
    <3> HIDE DEF m, n, occ
    <3> QED BY <1>1, <1>2, <2>1, <2>4
  <2>6. /\ Entry(k + 1)'.instr = Entry(j + 1).instr
        /\ Entry(j + 1).valid => Entry(k + 1)'.valid
        /\ Retiring(Slot(commit_pointer[0], j + 1, N), in) # {} /\ Entry(j + 1).instr.macro = "last" =>
              Entry(k + 1)'.valid
    <3> HIDE DEF j
    <3> QED BY <2>4, <2>5, OldEntry
  <2> QED BY <2>4, <2>5, <2>6
<1>3. FirstMoveWaits' = \A k \in 0..(N - 1) :
        k < Occupied' /\ Entry(k)'.instr.macro = "first" /\ Entry(k)'.valid /\ ~Entry(k)'.ex =>
          k + 1 < Occupied' /\ Entry(k + 1)'.instr.macro = "last" /\ Entry(k + 1)'.valid
  BY DEF FirstMoveWaits, Entry
<1> QED BY <1>2, <1>3

(* A cancelled entry is behind a branch in flight, and in front of the     *)
(* issue pointer.                                                          *)
LEMMA CancelsIssued ==
  ASSUME IInv, NEW in, LegalInput(in), NEW i \in Slots, Cancels(i, in)
  PROVE  mem[i].issued
<1> DEFINE cp == commit_pointer[0]
<1>1. /\ cp \in 0..(N - 1) /\ Occupied \in 0..N /\ issue_pointer = Slot(cp, Occupied, N)
      /\ \A k \in 0..(N - 1) : mem[Slot(cp, k, N)].issued <=> k < Occupied
      /\ N \in Nat /\ N > 1
  BY OccupiedFacts, Sizes DEF IInv, IssuedIsARing, N
<1>2. /\ in.bmiss /\ i = Slot(in.flu_id, 1, N) /\ i # issue_pointer
  BY DEF Cancels, after_flu_wb, N
<1>3. in.flu_id \in Slots /\ mem[in.flu_id].issued /\ issue_pointer = Slot(in.flu_id, 2, N)
  BY <1>2 DEF LegalInput
<1>4. PICK j \in 0..(N - 1) : in.flu_id = Slot(cp, j, N) BY <1>3, Placed DEF IInv
<1>5. PICK k \in 0..(N - 1) : i = Slot(cp, k, N) BY Placed DEF IInv
<1>6. j < Occupied
  <2> HIDE DEF cp
  <2> QED BY <1>1, <1>3, <1>4
<1>7. k < Occupied
  <2> DEFINE b == in.flu_id
             ip == issue_pointer
             o == Occupied
  <2>1. b = Slot(cp, j, N) /\ ip = Slot(b, 2, N) /\ ip = Slot(cp, o, N) /\ i = Slot(b, 1, N) /\ o \in 0..N
    BY <1>1, <1>2, <1>3, <1>4
  <2> HIDE DEF cp, b, ip, o
  <2>2. j < o BY <1>6 DEF o
  <2>3. k < o BY <1>1, <1>5, <2>1, <2>2 DEF Slot
  <2> QED BY <2>3 DEF o
<1> QED BY <1>1, <1>5, <1>7

LEMMA FlagsStep ==
  ASSUME IInv, NEW in, LegalInput(in), Cycle(in), ~in.flush
  PROVE  FlagsOnlyIfIssued' /\ CancelsOnlySpeculation'
<1>1. ASSUME NEW i \in Slots
      PROVE  /\ mem'[i].valid \/ mem'[i].cancelled => mem'[i].issued
             /\ mem'[i].cancelled => mem[i].cancelled \/ SpeculativeSb
  <2> DEFINE e == Issue(i, in)
             wbs == Retiring(i, in)
             r == issue_fifo(i, in)
  <2>1. mem'[i] = r BY DEF Cycle
  <2>2. PICK k \in 0..(N - 1) : i = Slot(commit_pointer[0], k, N) BY Placed DEF IInv
  <2>3. e = mem[i] \/ (e.issued /\ ~e.cancelled)
    <3>1. e = Entry(k) \/ e = Fresh(in.decoded[k - Occupied]) BY <2>2, Taken
    <3> HIDE DEF e
    <3> QED BY <2>2, <3>1 DEF Entry, Fresh
  <2>4. /\ mem[i] \in sb_mem_t
        /\ mem[i].valid \/ mem[i].cancelled => mem[i].issued
    BY DEF IInv, TypeOK, FlagsOnlyIfIssued
  <2>5. CompletesFirstMove(i, in) => mem[i].issued
    <3>1. CompletesFirstMove(i, in) => k + 1 < Occupied BY <2>2, CompletesWhat
    <3>2. Occupied \in 0..N BY OccupiedFacts DEF IInv
    <3>3. k < Occupied => mem[i].issued BY <2>2, Sizes DEF IInv, IssuedIsARing, N
    <3> QED BY <3>1, <3>2, <3>3, Sizes
  <2>6. wbs # {} => mem[i].issued BY DEF Retiring
  <2>7. Cancels(i, in) => mem[i].issued /\ SpeculativeSb BY CancelsIssued DEF Cancels
  <2>8. valid_n(i, e, wbs, in) => mem[i].issued \/ e.valid
    <3> HIDE DEF e, wbs
    <3> QED BY <2>5, <2>6 DEF valid_n
  <2>9. mem[i].issued => e.issued
    <3> HIDE DEF e
    <3> QED BY SMTT(30), <2>3
  <2>10. /\ r.issued = (e.issued /\ ~Leaves(i, in))
         /\ r.valid = (valid_n(i, e, wbs, in) /\ ~Leaves(i, in))
         /\ r.cancelled = ((e.cancelled \/ Cancels(i, in)) /\ ~Leaves(i, in))
    BY DEF issue_fifo
  <2> HIDE DEF e, r, wbs
  <2> QED BY ZenonT(30), <2>1, <2>3, <2>4, <2>7, <2>8, <2>9, <2>10
<1>2. CancelsOnlySpeculation' = (~SpeculativeSb => \A i \in Slots : ~mem'[i].cancelled)
  BY DEF CancelsOnlySpeculation
<1>3. FlagsOnlyIfIssued' = \A i \in Slots : mem'[i].valid \/ mem'[i].cancelled => mem'[i].issued
  BY DEF FlagsOnlyIfIssued
<1>4. ~SpeculativeSb => \A i \in Slots : ~mem[i].cancelled BY DEF IInv, CancelsOnlySpeculation
<1> QED BY ZenonT(30), <1>1, <1>2, <1>3, <1>4

LEMMA MemTypeStep ==
  ASSUME IInv, NEW in, LegalInput(in), Cycle(in)
  PROVE  mem' \in [Slots -> sb_mem_t]
<1>1. ASSUME NEW i \in Slots PROVE issue_fifo(i, in) \in sb_mem_t
  <2> DEFINE e == Issue(i, in)
             wbs == Retiring(i, in)
             Rds == {0} \cup {d.rd : d \in Instrs}
  <2>1. e \in sb_mem_t
    <3>1. PICK k \in 0..(N - 1) : i = Slot(commit_pointer[0], k, N) BY Placed DEF IInv
    <3>2. mem[i] \in sb_mem_t /\ Entry(k) = mem[i] BY <3>1 DEF IInv, TypeOK, Entry
    <3>3. CASE Occupied <= k /\ k < Occupied + num_issue(in)
      <4>1. Occupied \in 0..N /\ num_issue(in) \in 0..2 BY OccupiedFacts, Taken DEF IInv
      <4>2. k - Occupied \in 0..1 /\ k - Occupied < num_issue(in) BY <3>3, <4>1
      <4>3. in.decoded[k - Occupied] \in Instrs BY <4>2, Taken
      <4>4. e = Fresh(in.decoded[k - Occupied]) BY <3>1, <3>3, Taken
      <4>5. ASSUME NEW d \in Instrs PROVE Fresh(d) \in sb_mem_t
        BY DecodedInstructions DEF Fresh, sb_mem_t, Results
      <4> HIDE DEF e
      <4> QED BY <4>3, <4>4, <4>5
    <3>4. CASE ~(Occupied <= k /\ k < Occupied + num_issue(in))
      <4>1. e = Entry(k) BY <3>1, <3>4, Taken
      <4> HIDE DEF e
      <4> QED BY <3>2, <4>1
    <3> QED BY <3>3, <3>4
  <2>2. \A w \in wbs : w.rd \in Rds /\ w.result \in Results /\ w.ex \in BOOLEAN
    <3>1. \A w \in in.wb : w.id \in Slots /\ w.ex \in BOOLEAN /\ w.result \in Results /\ w.rd = mem[w.id].rd
      BY DEF LegalInput
    <3>2. \A j \in Slots : mem[j].rd \in Rds BY DEF IInv, TypeOK, sb_mem_t
    <3> HIDE DEF Rds
    <3> QED BY <3>1, <3>2 DEF Retiring
  <2>3. mem[i] \in sb_mem_t BY DEF IInv, TypeOK
  <2>4. valid_n(i, e, wbs, in) \in BOOLEAN
    <3> HIDE DEF e, wbs
    <3> QED BY ZenonT(30), <2>1, <2>3 DEF valid_n, DoubleMove, sb_mem_t
  <2>5. rd_n(i, e, wbs, in) \in Rds
    <3>1. wbs # {} => (CHOOSE w \in wbs : TRUE) \in wbs OBVIOUS
    <3>2. e.rd \in Rds
      <4> HIDE DEF e
      <4> QED BY <2>1 DEF sb_mem_t
    <3>3. 0 \in Rds OBVIOUS
    <3> HIDE DEF e, wbs, Rds
    <3> QED BY <2>2, <3>1, <3>2, <3>3 DEF rd_n
  <2>6. Cancels(i, in) \in BOOLEAN /\ Leaves(i, in) \in BOOLEAN BY DEF Cancels, Leaves
  <2>7. wbs # {} => (CHOOSE w \in wbs : TRUE).result \in Results
    <3>1. wbs # {} => (CHOOSE w \in wbs : TRUE) \in wbs OBVIOUS
    <3> HIDE DEF wbs
    <3> QED BY <2>2, <3>1
  <2>8. /\ e.issued \in BOOLEAN /\ e.cancelled \in BOOLEAN /\ e.ex \in BOOLEAN /\ e.result \in Results
        /\ e.instr \in Instrs \cup {Nothing}
    <3> HIDE DEF e
    <3> QED BY SMTT(30), <2>1 DEF sb_mem_t
  <2>9. 0 \in Rds OBVIOUS
  <2> DEFINE stays == e.issued /\ ~Leaves(i, in)
             instr2 == IF stays THEN e.instr ELSE Nothing
             rd2 == IF stays THEN rd_n(i, e, wbs, in) ELSE 0
             result2 == IF ~stays THEN "other"
                        ELSE IF wbs # {} THEN (CHOOSE w \in wbs : TRUE).result ELSE e.result
             valid2 == valid_n(i, e, wbs, in) /\ ~Leaves(i, in)
             cancelled2 == (e.cancelled \/ Cancels(i, in)) /\ ~Leaves(i, in)
             ex2 == stays /\ (e.ex \/ \E w \in wbs : w.ex)
  <2>10. issue_fifo(i, in) =
           [issued |-> stays, cancelled |-> cancelled2, valid |-> valid2, instr |-> instr2,
            rd |-> rd2, ex |-> ex2, result |-> result2]
    BY ZenonT(30) DEF issue_fifo
  <2> HIDE DEF e, wbs, Rds
  <2>11. stays \in BOOLEAN /\ valid2 \in BOOLEAN /\ cancelled2 \in BOOLEAN /\ ex2 \in BOOLEAN
    BY <2>4, <2>6, <2>8
  <2> HIDE DEF stays, valid2, cancelled2, ex2
  <2>12. instr2 \in Instrs \cup {Nothing} BY <2>8, <2>11
  <2>13. rd2 \in Rds BY <2>5, <2>9, <2>11
  <2>14. result2 \in Results BY <2>7, <2>8, <2>11 DEF Results
  <2> HIDE DEF instr2, rd2, result2
  <2> QED BY <2>10, <2>11, <2>12, <2>13, <2>14 DEF sb_mem_t, Rds
<1> QED BY <1>1 DEF Cycle

(* A flush empties the scoreboard. *)
LEMMA FlushStep ==
  ASSUME IInv, NEW in, LegalInput(in), Cycle(in), in.flush
  PROVE  IInv' /\ Occupied' = 0
<1>1. commit_pointer' = [c \in CommitPorts |-> 0] /\ issue_pointer' = 0
  BY DEF Cycle, commit_pointer_n, issue_pointer_n
<1>2. \A i \in Slots : ~mem'[i].issued /\ ~mem'[i].valid /\ ~mem'[i].cancelled
  <2>1. \A i \in Slots : Leaves(i, in) BY DEF Leaves
  <2>2. \A i \in Slots : mem'[i] = issue_fifo(i, in) BY SMTT(30) DEF Cycle
  <2>3. ASSUME NEW i \in Slots
        PROVE  LET r == issue_fifo(i, in) IN ~r.issued /\ ~r.valid /\ ~r.cancelled
    BY ZenonT(30), <2>1 DEF issue_fifo
  <2> QED BY <2>2, <2>3
<1>3. commit_pointer'[0] = 0 /\ 0 \in Slots BY <1>1, Sizes
<1>4. Occupied' = 0
  BY <1>1, <1>2, <1>3, Sizes DEF Occupied, N
<1>5. TypeOK'
  BY <1>1, <1>3, MemTypeStep DEF TypeOK
<1>6. IssuedIsARing'
  <2>1. IssuedIsARing' = \A k \in Slots : mem'[Slot(0, k, N)].issued <=> k < Occupied'
    BY <1>3 DEF IssuedIsARing, N
  <2>2. \A k \in Slots : Slot(0, k, N) \in Slots /\ ~(k < 0) BY Sizes DEF Slot
  <2> QED BY <1>2, <1>4, <2>1, <2>2
<1>7. FlagsOnlyIfIssued' /\ CancelsOnlySpeculation' /\ PortsAgree'
  BY <1>2 DEF FlagsOnlyIfIssued, CancelsOnlySpeculation, PortsAgree
<1>8. FirstMoveWaits' /\ LastMoveFollows'
  <2>1. \A k \in 0..(N - 1) : ~(k < Occupied') BY <1>4, Sizes
  <2> QED BY <2>1 DEF FirstMoveWaits, LastMoveFollows
<1> QED BY <1>4, <1>5, <1>6, <1>7, <1>8 DEF IInv

(***************************************************************************)
(* The theorems.                                                           *)
(***************************************************************************)

LEMMA InitIInv == Init => IInv /\ Occupied = 0
<1> SUFFICES ASSUME Init PROVE IInv /\ Occupied = 0 OBVIOUS
<1>1. /\ commit_pointer = [c \in CommitPorts |-> 0] /\ issue_pointer = 0
      /\ mem = [i \in Slots |-> ResetEntry]
  BY DEF Init
<1>2. \A i \in Slots : ~mem[i].issued /\ ~mem[i].valid /\ ~mem[i].cancelled
  BY <1>1 DEF ResetEntry
<1>3. commit_pointer[0] = 0 /\ 0 \in Slots BY <1>1, Sizes
<1>4. Occupied = 0 BY <1>1, <1>2, <1>3, Sizes DEF Occupied, N
<1>5. TypeOK
  <2>1. ResetEntry \in sb_mem_t BY DEF ResetEntry, sb_mem_t, Results
  <2> QED BY <1>1, <1>3, <2>1 DEF TypeOK
<1>6. IssuedIsARing
  <2>1. \A k \in Slots : Slot(0, k, N) \in Slots /\ ~(k < 0) BY Sizes DEF Slot
  <2> QED BY <1>2, <1>3, <1>4, <2>1 DEF IssuedIsARing, N
<1>7. FlagsOnlyIfIssued /\ CancelsOnlySpeculation /\ PortsAgree
  BY <1>2 DEF FlagsOnlyIfIssued, CancelsOnlySpeculation, PortsAgree
<1>8. FirstMoveWaits /\ LastMoveFollows
  <2>1. \A k \in 0..(N - 1) : ~(k < Occupied) BY <1>4, Sizes
  <2> QED BY <2>1 DEF FirstMoveWaits, LastMoveFollows
<1> QED BY <1>4, <1>5, <1>6, <1>7, <1>8 DEF IInv

LEMMA CycleIInv ==
  ASSUME IInv, NEW in, LegalInput(in), Cycle(in)
  PROVE  IInv'
<1>1. CASE in.flush BY <1>1, FlushStep
<1>2. CASE ~in.flush
  <2>1. TypeOK' BY <1>2, Window, MemTypeStep DEF TypeOK
  <2>2. IssuedIsARing' BY <1>2, Window
  <2>3. FlagsOnlyIfIssued' /\ CancelsOnlySpeculation' BY <1>2, FlagsStep
  <2>4. PortsAgree' BY <1>2, Window DEF PortsAgree
  <2>5. FirstMoveWaits' /\ LastMoveFollows' BY <1>2, FirstMoveWaitsStep, LastMoveFollowsStep
  <2> QED BY <2>1, <2>2, <2>3, <2>4, <2>5 DEF IInv
<1> QED BY <1>1, <1>2

LEMMA NextIInv == IInv /\ [Next]_vars => IInv'
<1> SUFFICES ASSUME IInv, [Next]_vars PROVE IInv' OBVIOUS
<1>1. CASE Next
  <2>1. TypeOK BY DEF IInv
  <2>2. PICK in : LegalInput(in) /\ Cycle(in) BY <1>1, <2>1, NextIsLegal
  <2> QED BY <2>2, CycleIInv
<1>2. CASE UNCHANGED vars
  BY <1>2 DEF vars, IInv, TypeOK, IssuedIsARing, FlagsOnlyIfIssued, PortsAgree,
    CancelsOnlySpeculation, FirstMoveWaits, LastMoveFollows, Entry, Occupied
<1> QED BY <1>1, <1>2

(* The variables of the scoreboard keep their types. *)
THEOREM ScoreboardTypes == Spec => []TypeOK
<1>1. IInv => TypeOK BY DEF IInv
<1> QED BY InitIInv, NextIInv, <1>1, PTL DEF Spec

(* The entries marked issued are always those between the two pointers, so *)
(* issue never overwrites an instruction in flight and retirement meets    *)
(* the instructions in program order.                                      *)
THEOREM ScoreboardIsARing == Spec => []IssuedIsARing
<1>1. IInv => IssuedIsARing BY DEF IInv
<1> QED BY InitIInv, NextIInv, <1>1, PTL DEF Spec

(* An entry that is not in use never shows a valid or cancelled flag, for  *)
(* which the pairs of moves have to be followed through the pipeline.      *)
THEOREM ScoreboardFlags == Spec => []FlagsOnlyIfIssued
<1>1. IInv => FlagsOnlyIfIssued BY DEF IInv
<1> QED BY InitIInv, NextIInv, <1>1, PTL DEF Spec

(* The second commit port shows the instruction behind the first whenever  *)
(* one may retire.                                                         *)
THEOREM ScoreboardPorts == Spec => []SecondPortFollows
<1>1. IInv => SecondPortFollows
  BY DEF IInv, PortsAgree, FlagsOnlyIfIssued, SecondPortFollows, N
<1> QED BY InitIInv, NextIInv, <1>1, PTL DEF Spec

(* The even and odd test of the second issue port is exact, for every even *)
(* number of entries.                                                      *)
THEOREM ScoreboardFull == Spec => []FullMeansNoPair
<1>1. IInv => FullMeansNoPair
  BY FullIsFull DEF IInv, FullMeansNoPair, N
<1> QED BY InitIInv, NextIInv, <1>1, PTL DEF Spec

LEMMA InitQueue == Init => Queue!Init
<1> SUFFICES ASSUME Init PROVE InFlight = << >> BY DEF Queue!Init
<1>1. Occupied = 0 BY InitIInv
<1> QED BY <1>1 DEF InFlight

LEMMA NextQueue == IInv /\ [Next]_vars => [Queue!Next]_InFlight
<1> SUFFICES ASSUME IInv, [Next]_vars PROVE [Queue!Next]_InFlight OBVIOUS
<1>1. CASE UNCHANGED vars
  BY <1>1 DEF vars, InFlight, Occupied
<1>2. ASSUME NEW in, LegalInput(in), Cycle(in) PROVE Queue!Next
  <2>1. CASE in.flush
    <3>1. Occupied' = 0 BY <1>2, <2>1, FlushStep
    <3>2. InFlight' = << >> BY <3>1 DEF InFlight
    <3> QED BY <3>2 DEF Queue!Next
  <2>2. CASE ~in.flush
    <3> DEFINE m == num_commit(in)
               n == num_issue(in)
               occ == Occupied
    <3>1. /\ m \in 0..2 /\ n \in 0..2 /\ m <= occ /\ occ + n <= N
          /\ Occupied' = occ + n - m /\ occ \in 0..N /\ N \in Nat
      BY <1>2, <2>2, Window, OccupiedFacts, Sizes DEF Moves, IInv
    <3>2. Len(InFlight) = occ /\ Len(InFlight') = Occupied'
      <4>1. Occupied' \in Nat BY <3>1
      <4> QED BY <3>1, <4>1 DEF InFlight
    <3>3. \A k \in 1..occ :
            /\ InFlight[k].instr = Entry(k - 1).instr
            /\ InFlight[k].done = Entry(k - 1).valid
            /\ InFlight[k].squashed = Entry(k - 1).cancelled
      BY DEF InFlight, Entry, N
    <3>4. \A k \in 1..Occupied' :
            /\ InFlight'[k].instr = Entry(k - 1)'.instr
            /\ InFlight'[k].done = Entry(k - 1)'.valid
            /\ InFlight'[k].squashed = Entry(k - 1)'.cancelled
      BY DEF InFlight, Entry, N
    <3>5. ASSUME NEW k \in 1..m PROVE InFlight[k].done
      <4>1. k - 1 \in 0..(N - 1) /\ k - 1 < m /\ k \in 1..occ
        <5> HIDE DEF m, occ
        <5> QED BY <3>1
      <4>2. Entry(k - 1).valid BY <1>2, <4>1, Retired
      <4> QED BY <3>3, <4>1, <4>2
    <3>6. ASSUME NEW k \in 1..(occ - m) PROVE Queue!Keeps(InFlight[k + m], InFlight'[k])
      <4>1. /\ k + m \in 1..occ /\ k \in 1..Occupied' /\ k - 1 \in 0..(N - 1) /\ k - 1 < Occupied'
            /\ (k + m) - 1 = (k - 1) + m /\ (k + m) - 1 < occ
        <5> HIDE DEF m, n, occ
        <5> QED BY SMTT(30), <3>1
      <4> DEFINE j == (k + m) - 1
                 a == InFlight[k + m]
                 b == InFlight'[k]
      <4>2. /\ Entry(k - 1)'.instr = Entry(j).instr
            /\ Entry(j).valid => Entry(k - 1)'.valid
            /\ Entry(j).cancelled => Entry(k - 1)'.cancelled
        <5>1. j = (k - 1) + m /\ j < Occupied BY <4>1
        <5> HIDE DEF j
        <5> QED BY <1>2, <2>2, <4>1, <5>1, OldEntry
      <4>3. a.instr = Entry(j).instr /\ a.done = Entry(j).valid /\ a.squashed = Entry(j).cancelled
        <5> HIDE DEF m
        <5> QED BY <3>3, <4>1
      <4>4. /\ b.instr = Entry(k - 1)'.instr /\ b.done = Entry(k - 1)'.valid
            /\ b.squashed = Entry(k - 1)'.cancelled
        BY <3>4, <4>1
      <4> HIDE DEF a, b, j
      <4>5. b.instr = a.instr /\ (a.done => b.done) /\ (a.squashed => b.squashed)
        BY <4>2, <4>3, <4>4
      <4>6. Queue!Keeps(a, b) BY <4>5 DEF Queue!Keeps
      <4> QED BY <4>6 DEF a, b
    <3>7. Queue!Advance(m)
      <4>1. Len(InFlight') \in (Len(InFlight) - m)..(Len(InFlight) - m + 2) /\ Len(InFlight') <= NR_SB_ENTRIES
        <5> HIDE DEF m, n, occ
        <5> QED BY <3>1, <3>2 DEF N
      <4> HIDE DEF m, occ
      <4> QED BY <3>2, <3>5, <3>6, <4>1 DEF Queue!Advance
    <3>8. m \in 0..2 /\ m <= Len(InFlight) BY <3>1, <3>2
    <3> HIDE DEF m
    <3> QED BY <3>7, <3>8 DEF Queue!Next
  <2> QED BY <2>1, <2>2
<1>3. CASE Next
  <2>1. TypeOK BY DEF IInv
  <2>2. PICK in : LegalInput(in) /\ Cycle(in) BY <1>3, <2>1, NextIsLegal
  <2> QED BY <1>2, <2>2
<1> QED BY <1>1, <1>3

(* The scoreboard implements the queue of ReorderBuffer: whatever is       *)
(* written back, cancelled or flushed, instructions leave once each, in    *)
(* program order, and only when they are done.                             *)
THEOREM ScoreboardImplementsReorderBuffer == Spec => ImplementsReorderBuffer
BY InitIInv, NextIInv, InitQueue, NextQueue, PTL DEF Spec, ImplementsReorderBuffer, Queue!Spec
=============================================================================
