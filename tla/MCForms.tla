------------------------------ MODULE MCForms ------------------------------
(* Finite instances of Forms for TLC.                                      *)
EXTENDS Forms, TLC

CONSTANTS r1, r2, u1, u2, root, ch1

MCRequests == {r1, r2}
MCAdmins   == {root}
MCShareUsers == {root, u1, u2}
MCChannels == {ch1}
MCNoChannels == {}
MCTwoEmails == {"a", "b"}
MCNoLimits == {0}
MCLimits   == {0, 1}

(* Requests are interchangeable goroutines, and the ordinary users alike.  *)
MCSymmetry == Permutations(MCRequests)
MCShareSymmetry == Permutations(MCRequests) \cup Permutations({u1, u2})

(* Verification and sharing do not depend on each other.  For the first    *)
(* one user who may do everything, no channel, and either one form under   *)
(* three tokens or two forms are enough.                                   *)
MCVerifying ==
    /\ \A r \in Requests : req[r].user = root /\ req[r].channel = NoChannel
    /\ \A c \in Channels : ~chan[c].here
    /\ \A f \in FormIds : owner[f] = root /\ channel[f] = NoChannel
    /\ lastToken <= 2 \/ 2 \notin live \cup gone

(* For the second the links stay unopened, the forms are kept (a           *)
(* deletion only frees a binding), have one address and belong to ordinary *)
(* users, whose own channel, which is never shared, has no limits; one     *)
(* limit at a time binds, and one administrator at a time edits.           *)
MCSharing ==
    /\ opened = {} /\ gone = {} /\ lastToken <= MaxForms
    /\ \A f \in FormIds : recipient[f] # "b"
    /\ \A r \in Requests : /\ req[r].email # "b"
                           /\ req[r].pc = "insert" => req[r].user # root
    /\ \E r \in Requests : req[r].pc = "idle" \/ req[r].user # root
    /\ \A c \in Channels :
          chan[c].perUser + chan[c].total <= IF chan[c].owner = root THEN 1 ELSE 0

MCOneQuestion == MCVerifying \/ MCSharing
=============================================================================
