----------------------------- MODULE MCAccounts -----------------------------
(* Finite instances of Accounts for TLC.                                   *)
EXTENDS Accounts, TLC

CONSTANTS r1, r2

MCRequests == {r1, r2}

(* Requests are interchangeable goroutines.                                *)
MCSymmetry == Permutations(MCRequests)

(* The management of administrators does not depend on the reviews.        *)
MCManagement == mailed = {}
(* For the reviews, one administrator and one applicant are enough.        *)
MCReview == lastId <= 2 /\ admins = {1} /\ sessions \subseteq {1}
MCOneQuestion == MCManagement \/ MCReview
=============================================================================
