---------------------------- MODULE WtDcacheCtrl ----------------------------
(***************************************************************************)
(* The read port controller of the write-through data cache                *)
(* (core/cache_subsystem/wt_dcache_ctrl.sv).  A requester sends the index  *)
(* with the request and the tag one cycle after the grant, and may kill    *)
(* the request until it is answered.  The address is represented by the    *)
(* names of the requests that index and tag were taken from.               *)
(***************************************************************************)
CONSTANTS NoOne   \* the owner of the reset address

VARIABLES state_q, id_q, rd_ack_q, address_idx_q, address_tag_q

ctrl_vars == <<state_q, id_q, rd_ack_q, address_idx_q, address_tag_q>>

States == {"IDLE", "READ", "MISS_REQ", "MISS_WAIT", "KILL_MISS", "KILL_MISS_ACK",
           "REPLAY_REQ", "REPLAY_READ"}

Init ==
  /\ state_q = "IDLE"
  /\ id_q = 0
  /\ rd_ack_q = FALSE
  /\ address_idx_q = NoOne
  /\ address_tag_q = NoOne

(* What the cache memory and the miss unit can answer in a cycle: a read   *)
(* port granted, a line found, a line being written over the read, the     *)
(* miss request acknowledged, refused for a replay, or answered.           *)
Replies ==
  LET one == [rd_ack |-> FALSE, hit |-> FALSE, wr_cl_vld |-> FALSE, miss_ack |-> FALSE,
              miss_replay |-> FALSE, miss_rtrn_vld |-> FALSE]
      withAck(r) == {r, [r EXCEPT !.rd_ack = TRUE]}
  IN  CASE state_q \in {"IDLE", "REPLAY_REQ"} -> withAck(one)
        [] state_q \in {"READ", "REPLAY_READ"} ->
             UNION {withAck(r) : r \in {one, [one EXCEPT !.hit = TRUE], [one EXCEPT !.wr_cl_vld = TRUE]}}
        [] state_q \in {"MISS_REQ", "KILL_MISS_ACK"} ->
             {one, [one EXCEPT !.miss_ack = TRUE], [one EXCEPT !.miss_replay = TRUE]}
        [] OTHER -> {one, [one EXCEPT !.miss_rtrn_vld = TRUE]}

(* The tag is there and the line is read in this cycle.                    *)
Reads(port) ==
  /\ state_q \in {"READ", "REPLAY_READ"}
  /\ ~port.kill_req
  /\ port.tag_valid \/ state_q = "REPLAY_READ"

Hits(port, r) == Reads(port) /\ ~r.wr_cl_vld /\ rd_ack_q /\ r.hit

(* Fault: a killed request is dropped without an answer. *)
data_rvalid_unkilled(port, r) ==
  \/ Hits(port, r)
  \/ state_q = "MISS_WAIT" /\ ~port.kill_req /\ r.miss_rtrn_vld

data_rvalid(port, r) ==
  \/ port.kill_req /\ state_q \in {"READ", "REPLAY_READ", "MISS_REQ", "MISS_WAIT", "REPLAY_REQ"}
  \/ Hits(port, r)
  \/ state_q = "MISS_WAIT" /\ r.miss_rtrn_vld

(* data_req is an argument of its own because it may depend on the answer. *)
data_gnt(port, r, data_req) ==
  /\ data_req /\ r.rd_ack
  /\ state_q = "IDLE" \/ Hits(port, r)

state_d(port, r, data_req) ==
  CASE state_q = "IDLE" -> IF data_gnt(port, r, data_req) THEN "READ" ELSE "IDLE"
    [] state_q \in {"READ", "REPLAY_READ"} ->
         IF port.kill_req THEN "IDLE"
         ELSE IF ~Reads(port) THEN state_q
         ELSE IF r.wr_cl_vld \/ ~rd_ack_q THEN "REPLAY_REQ"
         ELSE IF ~r.hit THEN "MISS_REQ"
         ELSE IF data_gnt(port, r, data_req) THEN "READ" ELSE "IDLE"
    [] state_q = "MISS_REQ" ->
         IF port.kill_req THEN (IF r.miss_ack THEN "KILL_MISS" ELSE "KILL_MISS_ACK")
         ELSE IF r.miss_replay THEN "REPLAY_REQ"
         ELSE IF r.miss_ack THEN "MISS_WAIT" ELSE state_q
    [] state_q = "MISS_WAIT" ->
         IF r.miss_rtrn_vld THEN "IDLE"
         ELSE IF port.kill_req THEN "KILL_MISS" ELSE state_q
    [] state_q = "REPLAY_REQ" ->
         IF port.kill_req THEN "IDLE" ELSE IF r.rd_ack THEN "REPLAY_READ" ELSE state_q
    [] state_q = "KILL_MISS_ACK" ->
         IF r.miss_replay THEN "IDLE" ELSE IF r.miss_ack THEN "KILL_MISS" ELSE state_q
    [] state_q = "KILL_MISS" -> IF r.miss_rtrn_vld THEN "IDLE" ELSE state_q

(* The state after a cycle; what an idle controller remembers of its last  *)
(* request is never read, and is reset here.                               *)
Cycle(port, r, data_req) ==
  LET gnt == data_gnt(port, r, data_req)
      next == state_d(port, r, data_req)
      live == next \notin {"IDLE", "KILL_MISS", "KILL_MISS_ACK"}
  IN  /\ state_q' = next
      /\ id_q' = IF gnt THEN port.data_id ELSE IF live THEN id_q ELSE 0
      /\ rd_ack_q' = (next \in {"READ", "REPLAY_READ"} /\ r.rd_ack)
      /\ address_idx_q' = IF gnt THEN port.index ELSE IF live THEN address_idx_q ELSE NoOne
      /\ address_tag_q' =
           IF gnt \/ ~live THEN NoOne
           ELSE IF Reads(port) /\ state_q = "READ" THEN port.tag
           ELSE address_tag_q
=============================================================================
