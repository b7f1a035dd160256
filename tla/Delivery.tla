------------------------------ MODULE Delivery ------------------------------
(***************************************************************************)
(* What a service promises that mails an item while its caller waits: the  *)
(* item is in the hand of one agent from its acceptance on, the mail       *)
(* server takes it at most once, and the agent reports what happened.  An  *)
(* agent that is interrupted reports nothing, and nobody takes its item    *)
(* up again.  The submission pipeline and the e-mail API implement this;   *)
(* the mail queue, which tries again, implements MailService.              *)
(***************************************************************************)
EXTENDS Naturals

CONSTANT Items

VARIABLES
    phase,    \* what the service's caller can learn of each item
    inHand,   \* the items an agent works on
    copies    \* how often the mail server took each item

dvars == <<phase, inHand, copies>>

Phases == {"absent", "open", "sent", "notSent", "removed"}

DeliveryInit ==
    /\ phase  = [i \in Items |-> "absent"]
    /\ inHand = {}
    /\ copies = [i \in Items |-> 0]

Accept(i) ==
    /\ phase[i] = "absent"
    /\ phase'  = [phase EXCEPT ![i] = "open"]
    /\ inHand' = inHand \cup {i}
    /\ UNCHANGED copies

(* Also for an item that was removed while its agent worked on it.         *)
Acknowledge(i) ==
    /\ i \in inHand /\ copies[i] = 0
    /\ copies' = [copies EXCEPT ![i] = 1]
    /\ UNCHANGED <<phase, inHand>>

Report(i) ==
    /\ i \in inHand
    /\ inHand' = inHand \ {i}
    /\ phase'  = IF phase[i] = "removed" THEN phase
                 ELSE [phase EXCEPT ![i] = IF copies[i] = 1 THEN "sent" ELSE "notSent"]
    /\ UNCHANGED copies

Abandon ==
    /\ inHand' \in SUBSET inHand
    /\ UNCHANGED <<phase, copies>>

Remove ==
    /\ \A i \in Items : \/ phase'[i] = phase[i]
                        \/ phase[i] \notin {"absent", "removed"} /\ phase'[i] = "removed"
    /\ phase' \in [Items -> Phases]
    /\ UNCHANGED <<inHand, copies>>

DeliveryNext ==
    \/ \E i \in Items : Accept(i) \/ Acknowledge(i) \/ Report(i)
    \/ Abandon \/ Remove

DeliverySpec == DeliveryInit /\ [][DeliveryNext]_dvars
=============================================================================
