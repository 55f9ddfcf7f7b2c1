----------------------------- MODULE MCFrontend -----------------------------
(* Programs for model checking the fetch stage.                            *)
EXTENDS Frontend, TLC

H(long, kind) == [long |-> long, kind |-> kind]
C(kind) == H(FALSE, kind)
I(kind) == H(TRUE, kind)

(* halves: the half words of the program, targets: the target of the       *)
(* instruction at each.                                                    *)
Build(n, ports, halves, targets) ==
  [n |-> n, ports |-> ports, size |-> Len(halves),
   faults |-> {}, targets |-> {1}, mispredicts |-> {}, commits |-> {1},
   target |-> [a \in 0 .. Len(halves) - 1 |-> targets[a + 1]],
   mem |-> [a \in 0 .. Len(halves) - 1 |->
              [at |-> a, long |-> halves[a + 1].long, kind |-> halves[a + 1].kind]]]

(* A block of instructions of any length, a second one with a jump back    *)
(* into the first.                                                         *)
Lengths(n, ports) ==
  {Build(n, ports, [a \in 1 .. 4 |-> H(p[a], "none")]
                   \o <<C("none"), I("jump"), C("none"), C("none")>>,
         <<0, 0, 0, 0, 0, to, 0, 0>>) : p \in [1 .. 4 -> BOOLEAN], to \in {2, 3}}

(* Branches, indirect jumps, returns and a jump to itself, with            *)
(* redirects of both kinds.                                                *)
Mixed(n, ports) ==
  [Build(n, ports, <<C("branch"), I("none"), C("none"), I("branch"),
                     C("none"), I("jalr"), C("none"), C("return")>>, <<3, 0, 2, 6, 0, 0, 0, 0>>)
   EXCEPT !.mispredicts = {5}, !.targets = {3}]
Jumps(n, ports) ==
  Build(n, ports, <<C("branch"), C("jump"), C("none"), I("jump"),
                    C("none"), C("none"), C("jump"), I("none")>>, <<2, 6, 0, 3, 0, 0, 1, 0>>)

(* The second block faults.                                                *)
Faulting(n, ports) ==
  {[Build(n, ports, <<C("none"), C("branch"), C("none"), H(long, "none"),
                      C("none"), I("none"), C("none"), C("jump")>>, <<0, 7, 0, 0, 0, 0, 0, 2>>)
    EXCEPT !.faults = {4}, !.commits = {1, 7}] : long \in BOOLEAN}

MCBuilds == UNION {Lengths(n, n \div 2) \cup Faulting(n, n \div 2)
                     \cup {Mixed(n, n \div 2), Jumps(n, n \div 2)} : n \in {2, 4}}
=============================================================================
