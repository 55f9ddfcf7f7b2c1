-------------------------- MODULE RingBufferProofs --------------------------
(* Lemmas about ring buffers, for every depth. *)
EXTENDS RingBuffer, Sequences, SequenceTheorems, TLAPS

(* Going round: the slot after the k-th is the next slot, and every slot   *)
(* is some distance after the read pointer.                                *)
LEMMA SlotFacts ==
  ASSUME NEW d \in Nat, d > 0, NEW r \in 0..(d - 1)
  PROVE  /\ \A k \in 0..d : Slot(r, k, d) \in 0..(d - 1)
         /\ \A k \in 0..(d - 1) : Inc(Slot(r, k, d), d) = Slot(r, k + 1, d)
         /\ \A k \in 0..(d - 1) : Slot(Inc(r, d), k, d) = Slot(r, k + 1, d)
         /\ \A i \in 0..(d - 1) : \E k \in 0..(d - 1) : i = Slot(r, k, d)
         /\ \A j, k \in 0..(d - 1) : Slot(r, j, d) = Slot(r, k, d) => j = k
         /\ Slot(r, 0, d) = r
         /\ Slot(r, d, d) = r
<1>1. \A i \in 0..(d - 1) : \E k \in 0..(d - 1) : i = Slot(r, k, d)
  <2> TAKE i \in 0..(d - 1)
  <2> WITNESS (IF i >= r THEN i - r ELSE i - r + d) \in 0..(d - 1)
  <2> QED BY DEF Slot
<1> QED BY <1>1 DEF Slot, Inc

(* Going m and then k slots is going m + k slots. *)
LEMMA SlotAdd ==
  ASSUME NEW d \in Nat, d > 0, NEW r \in 0..(d - 1), NEW m \in 0..d, NEW k \in 0..d
  PROVE  /\ Slot(r, m, d) \in 0..(d - 1)
         /\ m + k <= d => Slot(Slot(r, m, d), k, d) = Slot(r, m + k, d)
         /\ m + k >= d => Slot(Slot(r, m, d), k, d) = Slot(r, m + k - d, d)
BY DEF Slot

(* A counter stays within its width. *)
LEMMA CountRange ==
  ASSUME NEW d \in Nat, d > 0, NEW cnt \in 0..(2 * d - 1),
         NEW up \in BOOLEAN, NEW down \in BOOLEAN
  PROVE  Count(cnt, up, down, d) \in 0..(2 * d - 1)
BY DEF Count

(* A push into a buffer with room and a pop from one that holds something, *)
(* together or alone, leave a coherent buffer.                             *)
LEMMA RingStep ==
  ASSUME NEW d \in Nat, d > 0,
         NEW q, NEW r \in 0..(d - 1), NEW w \in 0..(d - 1), NEW cnt \in Nat,
         Ring(q, r, w, cnt, d),
         NEW up \in BOOLEAN, NEW down \in BOOLEAN,
         up => cnt < d, down => cnt > 0,
         NEW q2,
         \A i \in 0..(d - 1) :
            q2[i].valid <=> (up /\ i = w) \/ (q[i].valid /\ ~(down /\ i = r))
  PROVE  Ring(q2, IF down THEN Inc(r, d) ELSE r, IF up THEN Inc(w, d) ELSE w,
              Count(cnt, up, down, d), d)
<1> DEFINE r2 == IF down THEN Inc(r, d) ELSE r
           w2 == IF up THEN Inc(w, d) ELSE w
           cnt2 == Count(cnt, up, down, d)
           b(x) == IF x THEN 1 ELSE 0
<1>1. cnt <= d /\ w = Slot(r, cnt, d) BY DEF Ring
<1>2. cnt2 = cnt + b(up) - b(down) /\ cnt2 \in 0..d
  BY <1>1 DEF Count
<1>3. r2 \in 0..(d - 1) /\ w2 = Slot(r2, cnt2, d)
  BY <1>1, <1>2 DEF Slot, Inc
<1>4. ASSUME NEW k \in 0..(d - 1)
      PROVE  q2[Slot(r2, k, d)].valid <=> k < cnt2
  <2> DEFINE kk == IF down THEN k + 1 ELSE k
             i == Slot(r2, k, d)
  <2>1. i = Slot(r, kk, d) /\ i \in 0..(d - 1) /\ kk \in 0..d
    BY DEF Slot, Inc
  <2>2. CASE kk = d
    <3>1. i = r /\ down BY <2>1, <2>2 DEF Slot
    <3>2. w = i <=> (cnt = d \/ cnt = 0) BY <1>1, <3>1 DEF Slot
    <3>3. q2[i].valid <=> FALSE
      BY <2>1, <3>1, <3>2
    <3>4. ~ (k < cnt2)
      BY <1>1, <1>2, <2>2, <3>1
    <3> QED BY <3>3, <3>4
  <2>3. CASE kk < d
    <3>1. q[i].valid <=> kk < cnt BY <2>1, <2>3 DEF Ring
    <3>2. (i = r) <=> (kk = 0) BY <2>1, <2>3 DEF Slot
    <3>3. up => ((i = w) <=> (kk = cnt)) BY <1>1, <2>1, <2>3 DEF Slot
    <3>4. q2[i].valid <=> (up /\ i = w) \/ (q[i].valid /\ ~(down /\ i = r))
      BY <2>1
    <3>5. q2[i].valid <=> (up /\ kk = cnt) \/ (kk < cnt /\ ~(down /\ kk = 0))
      BY <3>1, <3>2, <3>3, <3>4, Zenon
    <3>6. (k < cnt2) <=> (up /\ kk = cnt) \/ (kk < cnt /\ ~(down /\ kk = 0))
      BY <1>2
    <3> QED BY <3>5, <3>6
  <2> QED BY <2>1, <2>2, <2>3
<1> QED BY <1>2, <1>3, <1>4 DEF Ring

(* Every entry of queue q with d entries holds one of Items, valid or not. *)
Holds(q, d, Items) == \A i \in 0..(d - 1) : q[i].item \in Items

(* Queue q2 is q with item new at slot w, if up. *)
Wrote(q2, q, up, w, new, d) ==
  \A i \in 0..(d - 1) : q2[i].item = IF up /\ i = w THEN new ELSE q[i].item

(* The contents are a sequence that starts at the read pointer. *)
LEMMA ContentsIsSeq ==
  ASSUME NEW d \in Nat, d > 0, NEW Items,
         NEW q, NEW r \in 0..(d - 1), NEW cnt \in 0..d,
         Holds(q, d, Items)
  PROVE  /\ Contents(q, r, cnt, d) \in Seq(Items)
         /\ Len(Contents(q, r, cnt, d)) = cnt
         /\ cnt > 0 => Head(Contents(q, r, cnt, d)) = q[r].item
BY DEF Contents, Slot, Holds

(* The ring buffer q, r, w, cnt becomes q2, r2, cnt2 in a step that pushes  *)
(* new, if up, and pops the head, if down.                                  *)
PushPop(q, r, w, cnt, q2, r2, cnt2, up, down, new, d, Items) ==
  /\ d \in Nat /\ d > 0 /\ cnt \in 0..d
  /\ r \in 0..(d - 1) /\ w = Slot(r, cnt, d)
  /\ Holds(q, d, Items) /\ new \in Items
  /\ up \in BOOLEAN /\ down \in BOOLEAN
  /\ up => cnt < d
  /\ down => cnt > 0
  /\ Wrote(q2, q, up, w, new, d)
  /\ r2 = IF down THEN Inc(r, d) ELSE r
  /\ cnt2 = Count(cnt, up, down, d)

(* What that does to a queue of items. *)
Moved(items, up, down, new) ==
  (IF down THEN Tail(items) ELSE items) \o (IF up THEN <<new>> ELSE <<>>)

(* In such a step the contents lose their head and gain the new item at    *)
(* their end, as a queue does.                                             *)
LEMMA ContentsStep ==
  ASSUME NEW q, NEW r, NEW w, NEW cnt, NEW q2, NEW r2, NEW cnt2,
         NEW up, NEW down, NEW new, NEW d, NEW Items,
         PushPop(q, r, w, cnt, q2, r2, cnt2, up, down, new, d, Items)
  PROVE  Contents(q2, r2, cnt2, d) = Moved(Contents(q, r, cnt, d), up, down, new)
<1> DEFINE old == Contents(q, r, cnt, d)
           res == Contents(q2, r2, cnt2, d)
           front == IF down THEN Tail(old) ELSE old
           back == IF up THEN <<new>> ELSE <<>>
           b(x) == IF x THEN 1 ELSE 0
<1>0. /\ d \in Nat /\ d > 0 /\ cnt \in 0..d
      /\ r \in 0..(d - 1) /\ w = Slot(r, cnt, d)
      /\ Holds(q, d, Items) /\ new \in Items
      /\ up \in BOOLEAN /\ down \in BOOLEAN
      /\ (up => cnt < d) /\ (down => cnt > 0)
      /\ Wrote(q2, q, up, w, new, d)
      /\ r2 = IF down THEN Inc(r, d) ELSE r
      /\ cnt2 = Count(cnt, up, down, d)
  BY DEF PushPop
<1> USE <1>0
<1>1. cnt2 = cnt + b(up) - b(down) /\ cnt2 \in 0..d
  BY DEF Count
<1>2. /\ old \in Seq(Items) /\ Len(old) = cnt
      /\ \A k \in 1..cnt : old[k] = q[Slot(r, k - 1, d)].item
  <2>1. old \in Seq(Items) /\ Len(old) = cnt
    BY ZenonT(30), ContentsIsSeq
  <2> QED BY <2>1 DEF Contents
<1>3. r2 \in 0..(d - 1) BY DEF Inc
<1>4. /\ res \in Seq(Items) /\ Len(res) = cnt2
      /\ \A k \in 1..cnt2 : res[k] = q2[Slot(r2, k - 1, d)].item
  <2>1. \A i \in 0..(d - 1) : q2[i].item \in Items
    BY DEF Holds, Wrote
  <2>2. \A k \in 1..cnt2 : Slot(r2, k - 1, d) \in 0..(d - 1)
    BY <1>1, <1>3 DEF Slot
  <2> QED BY <1>1, <2>1, <2>2 DEF Contents
<1>6. /\ front \in Seq(Items) /\ Len(front) = cnt - b(down)
      /\ \A k \in 1..(cnt - b(down)) : front[k] = old[k + b(down)]
  BY <1>2
<1>7. back \in Seq(Items) /\ Len(back) = b(up) /\ (up => back[1] = new)
  OBVIOUS
<1>8. /\ front \o back \in Seq(Items)
      /\ Len(front \o back) = cnt2
      /\ \A k \in 1..cnt2 : (front \o back)[k] =
            IF k <= cnt - b(down) THEN old[k + b(down)] ELSE new
  <2> HIDE DEF front, back, old
  <2>1. Len(front) + Len(back) = cnt2 BY <1>1, <1>6, <1>7
  <2>2. \A k \in 1..cnt2 : (front \o back)[k] =
          IF k <= Len(front) THEN front[k] ELSE back[k - Len(front)]
    BY <1>6, <1>7, <2>1, ConcatProperties
  <2>3. front \o back \in Seq(Items) /\ Len(front \o back) = cnt2
    BY ZenonT(30), <1>6, <1>7, <2>1, ConcatProperties
  <2>4. ASSUME NEW k \in 1..cnt2, k > Len(front) PROVE back[k - Len(front)] = new
    BY <1>6, <1>7, <2>1, <2>4
  <2> QED BY <1>6, <2>2, <2>3, <2>4
<1>9. ASSUME NEW k \in 1..cnt2 PROVE res[k] = (front \o back)[k]
  <2>1. CASE k <= cnt - b(down)
    <3> DEFINE j == k + b(down)
    <3>1. /\ Slot(r2, k - 1, d) = Slot(r, j - 1, d)
          /\ Slot(r2, k - 1, d) \in 0..(d - 1)
          /\ up => Slot(r2, k - 1, d) # w
          /\ j \in 1..cnt
      BY <1>1, <2>1 DEF Slot, Inc
    <3>2. res[k] = q[Slot(r, j - 1, d)].item
      BY ZenonT(30), <1>4, <3>1 DEF Wrote
    <3>3. (front \o back)[k] = old[j]
      <4> HIDE DEF front, back, old
      <4> QED BY <1>8, <2>1
    <3> HIDE DEF front, back, old, res, j
    <3>4. old[j] = q[Slot(r, j - 1, d)].item
      BY <1>2, <3>1
    <3> QED BY <3>2, <3>3, <3>4
  <2>2. CASE k > cnt - b(down)
    <3>1. up /\ k = cnt - b(down) + 1 BY <1>1, <2>2
    <3>2. Slot(r2, k - 1, d) = w /\ w \in 0..(d - 1)
      BY <3>1 DEF Slot, Inc
    <3>3. b(down) \in 0..1
      OBVIOUS
    <3>4. res[k] = new BY ZenonT(30), <1>4, <3>1, <3>2 DEF Wrote
    <3>5. (front \o back)[k] = new
      <4>1. ~(k <= cnt - b(down)) BY <3>1
      <4> HIDE DEF front, back, old, b
      <4> QED BY <1>8, <4>1
    <3> HIDE DEF front, back, res
    <3> QED BY <3>4, <3>5
  <2>3. k <= cnt - b(down) \/ k > cnt - b(down)
    BY <1>1
  <2> QED BY ZenonT(30), <2>1, <2>2, <2>3
<1>10. res = front \o back
  <2> HIDE DEF front, back, old, res
  <2> QED BY SMTT(30), <1>4, <1>8, <1>9, SeqEqual
<1> QED BY ZenonT(30), <1>10 DEF Moved
(* What a search of all slots for an offset finds, and the items at it. *)
SearchFinds(q, d, o) == \E i \in 0..(d - 1) : q[i].valid /\ q[i].item.offset = o
HoldsOffset(items, o) == \E k \in DOMAIN items : items[k].offset = o

(* A coherent ring buffer has valid entries exactly for its contents: a    *)
(* search of all slots finds the offsets of the items it holds.            *)
LEMMA SearchFindsContents ==
  ASSUME NEW d \in Nat, d > 0, NEW r \in 0..(d - 1), NEW cnt \in 0..d, NEW w, NEW q, NEW o,
         Ring(q, r, w, cnt, d)
  PROVE  SearchFinds(q, d, o) <=> HoldsOffset(Contents(q, r, cnt, d), o)
<1>1. ASSUME NEW i \in 0..(d - 1), q[i].valid, q[i].item.offset = o
      PROVE  \E k \in 1..cnt : Contents(q, r, cnt, d)[k].offset = o
  <2>1. PICK j \in 0..(d - 1) : i = Slot(r, j, d) BY SlotFacts
  <2>2. j < cnt BY <1>1, <2>1 DEF Ring
  <2>3. j + 1 \in 1..cnt /\ (j + 1) - 1 = j BY <2>2
  <2> QED BY <1>1, <2>1, <2>3 DEF Contents
<1>2. ASSUME NEW k \in 1..cnt, Contents(q, r, cnt, d)[k].offset = o
      PROVE  \E i \in 0..(d - 1) : q[i].valid /\ q[i].item.offset = o
  <2>1. k - 1 \in 0..(d - 1) /\ k - 1 < cnt OBVIOUS
  <2>2. Slot(r, k - 1, d) \in 0..(d - 1) BY <2>1 DEF Slot
  <2>3. q[Slot(r, k - 1, d)].valid BY <2>1 DEF Ring
  <2>4. q[Slot(r, k - 1, d)].item.offset = o BY <1>2 DEF Contents
  <2> QED BY <2>2, <2>3, <2>4
<1>3. DOMAIN Contents(q, r, cnt, d) = 1..cnt BY DEF Contents
<1> QED BY <1>1, <1>2, <1>3 DEF SearchFinds, HoldsOffset

=============================================================================
