----------------------------- MODULE MCSettings -----------------------------
(* Finite instances of Settings for TLC.                                   *)
EXTENDS Settings, TLC

CONSTANTS p1, p2, l1

MCPages   == {p1, p2}
MCLoads   == {l1}
MCOwnerOf == <<1, 1, 2>>

(* Pages are interchangeable.                                              *)
MCSymmetry == Permutations(MCPages)

(* The logo and the channel have nothing to do with each other.  Nothing   *)
(* is claimed of the logo once somebody was careless.                      *)
MCLogo    == careful /\ edits = 0 /\ \A l \in Loads : load[l].pc = "idle"
MCChannel == now = 1 /\ \A p \in Pages : page[p].pc = "closed"
MCOneQuestion == MCLogo \/ MCChannel
=============================================================================
