---------------------------- MODULE StoreQueues ----------------------------
(***************************************************************************)
(* What the store buffer promises: two queues of stores in program order.  *)
(* Stores enter spec at the back, move one at a time from the front of     *)
(* spec to the back of committed, and leave committed for memory from its  *)
(* front.  A flush discards spec and nothing else, so a committed store is *)
(* never lost, duplicated or overtaken.  One step is one clock cycle, in   *)
(* which several of these moves may happen together.                       *)
(***************************************************************************)
EXTENDS Naturals, Sequences

CONSTANTS Stores,        \* what one store carries: address, data, byte enables
          SpecCapacity,  \* room in the speculative queue
          CommitCapacity \* room in the commit queue

VARIABLES spec, committed

qvars == <<spec, committed>>

Init ==
  /\ spec = <<>>
  /\ committed = <<>>

Popped(q, pop) == IF pop THEN Tail(q) ELSE q

Step(push, commit, flush, drain) ==
  /\ commit => spec # <<>> /\ ~flush
  /\ drain => committed # <<>>
  /\ spec' = IF flush THEN <<>> ELSE Popped(spec, commit) \o push
  /\ committed' = Popped(committed, drain)
                    \o (IF commit THEN <<Head(spec)>> ELSE <<>>)
  /\ Len(spec') <= SpecCapacity
  /\ Len(committed') <= CommitCapacity

Next ==
  \E push \in {<<>>} \cup {<<s>> : s \in Stores}, commit, flush, drain \in BOOLEAN :
     Step(push, commit, flush, drain)

Spec == Init /\ [][Next]_qvars
=============================================================================
