---------------------------- MODULE MailService ----------------------------
(***************************************************************************)
(* What the mail queue promises its callers, without workers, database     *)
(* statements or counters: a mail is accepted, attempted by one agent at a *)
(* time, and acknowledged by the mail server at most once; what is         *)
(* recorded of it is true; a mail whose attempt is interrupted may be      *)
(* lost, but is never attempted again.                                     *)
(***************************************************************************)
EXTENDS Naturals

CONSTANT Mails

VARIABLES
    phase,    \* what is recorded of each mail
    inHand,   \* the mails an agent is sending
    receipt   \* the mails the mail server acknowledged

mvars == <<phase, inHand, receipt>>

Phases == {"absent", "queued", "busy", "delivered", "gaveUp", "removed"}

MailInit ==
    /\ phase = [m \in Mails |-> "absent"]
    /\ inHand = {}
    /\ receipt = {}

Accept(m) ==
    /\ phase[m] = "absent"
    /\ phase' = [phase EXCEPT ![m] = "queued"]
    /\ UNCHANGED <<inHand, receipt>>

(* An agent takes a queued, never acknowledged mail in hand.               *)
Take(m) ==
    /\ phase[m] = "queued" /\ m \notin inHand /\ m \notin receipt
    /\ phase' = [phase EXCEPT ![m] = "busy"]
    /\ inHand' = inHand \cup {m}
    /\ UNCHANGED receipt

Acknowledge(m) ==
    /\ m \in inHand /\ m \notin receipt
    /\ receipt' = receipt \cup {m}
    /\ UNCHANGED <<phase, inHand>>

(* The agent records what happened, unless the mail was removed meanwhile. *)
Record(m) ==
    /\ m \in inHand
    /\ inHand' = inHand \ {m}
    /\ \/ phase[m] = "removed" /\ UNCHANGED phase
       \/ /\ phase[m] = "busy"
          /\ \E p \in IF m \in receipt THEN {"delivered"} ELSE {"queued", "gaveUp"} :
                phase' = [phase EXCEPT ![m] = p]
    /\ UNCHANGED receipt

(* Some agents let go of their mails without a record.                     *)
Lose(M) ==
    /\ M \subseteq inHand
    /\ inHand' = inHand \ M
    /\ UNCHANGED <<phase, receipt>>

Requeue(m) ==
    /\ phase[m] = "gaveUp" /\ m \notin receipt
    /\ phase' = [phase EXCEPT ![m] = "queued"]
    /\ UNCHANGED <<inHand, receipt>>

Remove(m) ==
    /\ phase[m] \notin {"absent", "removed"}
    /\ phase' = [phase EXCEPT ![m] = "removed"]
    /\ UNCHANGED <<inHand, receipt>>

MailNext ==
    \/ \E m \in Mails :
          Accept(m) \/ Take(m) \/ Acknowledge(m) \/ Record(m) \/ Requeue(m) \/ Remove(m)
    \/ \E M \in SUBSET Mails : Lose(M)

MailSpec == MailInit /\ [][MailNext]_mvars
=============================================================================
