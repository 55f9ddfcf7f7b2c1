-------------------------- MODULE MCLoadStoreUnit --------------------------
(* Mixes of requests for model checking the load store unit. *)
EXTENDS LoadStoreUnit, TLC

Load == [fu |-> "LOAD", amo |-> FALSE, ni |-> FALSE, misaligned |-> FALSE, ofs |-> 1]
IoLoad == [Load EXCEPT !.ni = TRUE, !.ofs = 2]
BadLoad == [Load EXCEPT !.misaligned = TRUE]
Store == [Load EXCEPT !.fu = "STORE"]
OtherStore == [Store EXCEPT !.ofs = 2]
BadStore == [Store EXCEPT !.misaligned = TRUE]
Amo == [OtherStore EXCEPT !.amo = TRUE]

TranslatedKinds == {Load, Store, OtherStore}
MisalignedKinds == {Load, BadLoad, BadStore}
EffectKinds == {Store, Amo, IoLoad}

IdSymmetry == Permutations(Ids)
=============================================================================
