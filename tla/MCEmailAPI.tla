----------------------------- MODULE MCEmailAPI -----------------------------
(* Finite instances of EmailAPI for TLC.                                   *)
EXTENDS EmailAPI, TLC

CONSTANTS r1, r2

MCRequests  == {r1, r2}
MCAddresses == {"a", "b", "bad"}
MCValid     == {"a", "b"}
MCLists     == {<<"a", "a">>, <<"b", "bad">>}
(* The second channel is another user's, shared.                           *)
MCOwnerOf   == [d \in 1..2 |-> d]

(* The handlers of submissions are interchangeable goroutines.             *)
MCSymmetry == Permutations(MCRequests)

(* The foreign keys do not depend on the calls; and the calls depend on    *)
(* one key of one user, who is deleted after them if at all.               *)
MCSchema ==
    /\ \A c \in Calls : call[c] = NoCall
    /\ \A k \in 1..MaxKeys : keyChannel[k] = Automatic
    /\ edits = 0
MCCalling ==
    /\ lastForm = 0 /\ recycles = 0
    /\ users = 1..lastUser /\ \A k \in 1..lastKey : <<k, 1>> \in keys
MCOneQuestion == MCSchema \/ MCCalling
=============================================================================
