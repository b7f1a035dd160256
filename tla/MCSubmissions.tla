--------------------------- MODULE MCSubmissions ---------------------------
(* Finite instances of Submissions for TLC.                                *)
EXTENDS Submissions, TLC

CONSTANTS r1, r2, f1, v1, v2

MCRequests  == {r1, r2}
MCForms     == {f1}
MCAddresses == {"a", "b"}
MCOneAddress == {"a"}
MCOwnOne    == {1}
MCOwnTwoOfThree == {1, 3}
MCOneRequest == {r1}
MCVisitors   == {v1, v2}
MCOneVisitor == {v1}
MCNone       == {}

(* Requests are interchangeable goroutines.                                *)
MCSymmetry == Permutations(MCRequests)

(* Which channel is tried does not depend on the address of the recipient, *)
(* nor that address on the channels.                                       *)
MCRouting ==
    /\ \A f \in Forms : address[f] = "a" /\ link[f] = "a"
    /\ \A e \in updating : e.to = "a"
MCAddressing ==
    /\ enabled = Channels
    /\ \A f \in Forms : bound[f] = Unbound
    /\ \A e \in updating : e.bound = Unbound
MCOneQuestion == MCRouting \/ MCAddressing
=============================================================================
