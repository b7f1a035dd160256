------------------------------ MODULE MCSignIn ------------------------------
(* Finite instances of SignIn for TLC.                                     *)
EXTENDS SignIn, TLC

CONSTANTS r1, r2, a

MCRequests == {r1, r2}
MCEmails   == {a}

(* Requests are interchangeable goroutines.                                *)
MCSymmetry == Permutations(MCRequests)

(* The captchas by themselves: no code is asked for.                       *)
MCScreening ==
    /\ lastCode = 0 /\ now = 1 /\ accounts = {} /\ \A r \in Requests : req[r].pc = "idle"

NoCodeEntered ==
    /\ used = {} /\ \A i \in Ids : wrong[i] = 0
    /\ \A r \in Requests : req[r].pc \notin {"use", "count"}

(* Codes paid for with captchas, none of them entered.                     *)
MCPaying ==
    /\ required /\ NoCodeEntered
    /\ lastToken = 0 /\ expired = {} /\ faults = 0 /\ lastCode <= 3 /\ now <= 3
    /\ \A r \in Requests : screen[r].caller # "form"

(* Captchas are off: the limits on asking do not depend on the codes that  *)
(* are entered, and a code is compared with one of the last two, or with   *)
(* the only one when a statement failed.                                   *)
NoCaptcha  == ~required /\ lastCaptcha = 0 /\ lastToken = 0
MCAsking   == NoCaptcha /\ NoCodeEntered
MCEntering == NoCaptcha /\ lastCode <= 2 - faults /\ now <= 2

MCOneQuestion == MCScreening \/ MCPaying \/ MCAsking \/ MCEntering
=============================================================================
