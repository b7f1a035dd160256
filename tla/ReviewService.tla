--------------------------- MODULE ReviewService ---------------------------
(***************************************************************************)
(* What the review of registrations by mailed links promises: an           *)
(* application is decided at most once, whichever of its two links is      *)
(* opened, by whomever and how often; a decision that is interrupted       *)
(* leaves it undecided for good, and one that finds the account admitted   *)
(* or gone already leaves it alone; and the applicant is told at most once *)
(* what was decided.                                                       *)
(***************************************************************************)
CONSTANT Applicants

VARIABLES
    phase,     \* of each application
    told,      \* what each applicant was told
    account    \* of each applicant

rvars == <<phase, told, account>>

Phases   == {"none", "pending", "deciding", "burnt", "approved", "rejected", "overtaken"}
Statuses == {"absent", "waiting", "active"}

ReviewInit ==
    /\ phase = [a \in Applicants |-> "none"]
    /\ told  = [a \in Applicants |-> {}]
    /\ account \in [Applicants -> Statuses]

MoveTo(a, p) == phase' = [phase EXCEPT ![a] = p]

Apply(a) ==
    /\ phase[a] = "none"
    /\ MoveTo(a, "pending")
    /\ UNCHANGED <<told, account>>

Open(a) ==
    /\ phase[a] = "pending"
    /\ MoveTo(a, "deciding")
    /\ UNCHANGED <<told, account>>

Approve(a) ==
    /\ phase[a] = "deciding" /\ account[a] # "absent"
    /\ MoveTo(a, "approved")
    /\ account' = [account EXCEPT ![a] = "active"]
    /\ UNCHANGED told

(* Only an account that still waits is removed.                            *)
Reject(a) ==
    /\ phase[a] = "deciding" /\ account[a] = "waiting"
    /\ MoveTo(a, "rejected")
    /\ account' = [account EXCEPT ![a] = "absent"]
    /\ UNCHANGED told

(* An administrator was faster, without the links.                         *)
Overtake(a) ==
    /\ phase[a] = "deciding" /\ account[a] # "waiting"
    /\ MoveTo(a, "overtaken")
    /\ UNCHANGED <<told, account>>

(* Who was overtaken may be told of a rejection, too.                      *)
Tell(a, verdict) ==
    /\ told[a] = {}
    /\ \/ verdict = phase[a] /\ verdict \in {"approved", "rejected"}
       \/ verdict = "rejected" /\ phase[a] = "overtaken"
    /\ told' = [told EXCEPT ![a] = {verdict}]
    /\ UNCHANGED <<phase, account>>

(* The administrators' page for users, and registrations.                  *)
Manage == UNCHANGED <<phase, told>>

Interrupt(S) ==
    /\ \A a \in S : phase[a] = "deciding"
    /\ phase' = [a \in Applicants |-> IF a \in S THEN "burnt" ELSE phase[a]]
    /\ UNCHANGED told

ReviewNext ==
    \/ Manage
    \/ \E a \in Applicants :
          \/ Apply(a) \/ Open(a) \/ Approve(a) \/ Reject(a) \/ Overtake(a)
          \/ \E verdict \in {"approved", "rejected"} : Tell(a, verdict)
    \/ \E S \in SUBSET Applicants : Interrupt(S)

ReviewSpec == ReviewInit /\ [][ReviewNext]_rvars
=============================================================================
