------------------------ MODULE MailQueueRefinement ------------------------
(* The refinement mapping from the queue's tables and workers to the       *)
(* abstract mail service.                                                  *)
EXTENDS MailQueue

PhaseOf(s) ==
    CASE s = "none"    -> "absent"
      [] s = "pending" -> "queued"
      [] s = "sending" -> "busy"
      [] s = "done"    -> "delivered"
      [] s = "failed"  -> "gaveUp"
      [] s = "deleted" -> "removed"

phaseBar   == [j \in Jobs |-> PhaseOf(status[j])]
inHandBar  == {j \in Jobs : \E w \in Workers : Holds(w, j)}
receiptBar == {j \in Jobs : acked[j] > 0}

Service == INSTANCE MailService
             WITH Mails <- Jobs, phase <- phaseBar,
                  inHand <- inHandBar, receipt <- receiptBar

(* The queue implements the mail service: every statement of a worker, a   *)
(* handler or a restart is one step of the service or invisible to it.     *)
ImplementsMailService == Service!MailSpec
=============================================================================
