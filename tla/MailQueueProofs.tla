-------------------------- MODULE MailQueueProofs --------------------------
(***************************************************************************)
(* Theorems about MailQueue for every set of workers and every bound.      *)
(***************************************************************************)
EXTENDS MailQueueRefinement, TLAPS

USE BoundsAssumption DEF Status

(* RetryDelay is a natural number for every attempt count.                 *)
LEMMA RetryDelayType == \A n \in Nat : RetryDelay(n) \in Nat
  BY DEF RetryDelay

-----------------------------------------------------------------------------
(* Every variable keeps its type, whatever the queue's actors do.          *)
THEOREM TypeCorrect == Spec => []TypeOK
<1>1. Init => TypeOK
  BY DEF Init, TypeOK
<1>2. TypeOK /\ [Next]_vars => TypeOK'
  <2> SUFFICES ASSUME TypeOK, [Next]_vars
               PROVE  TypeOK'
    OBVIOUS
  <2> USE DEF TypeOK
  <2>1. ASSUME NEW j \in Jobs, Enqueue(j) PROVE TypeOK'
    BY <2>1 DEF Enqueue, worker
  <2>2. CASE Tick
    <3>1. ASSUME NEW j \in Jobs
          PROVE  (IF status[j] = "pending" /\ wait[j] > 0 THEN wait[j] - 1 ELSE wait[j]) \in Nat
      OBVIOUS
    <3>2. wait' \in [Jobs -> Nat]
      BY <2>2, <3>1, Zenon DEF Tick
    <3> QED
      BY <2>2, <3>2 DEF Tick, worker
  <2>3. ASSUME NEW w \in Workers, NEW j \in Jobs, ClaimNextJob(w, j) PROVE TypeOK'
    BY <2>3 DEF ClaimNextJob
  <2>4. ASSUME NEW w \in Workers, SendOk(w) \/ SendError(w) PROVE TypeOK'
    BY <2>4 DEF SendOk, SendError
  <2>5. ASSUME NEW w \in Workers, MarkJobDone(w) PROVE TypeOK'
    BY <2>5 DEF MarkJobDone
  <2>6. ASSUME NEW w \in Workers, MarkJobRetry(w) PROVE TypeOK'
    BY <2>6, RetryDelayType DEF MarkJobRetry, GivenUp
  <2>7. ASSUME NEW w \in Workers, MarkFails(w) PROVE TypeOK'
    BY <2>7 DEF MarkFails
  <2>8. ASSUME NEW j \in Jobs, RetryMailJob(j) PROVE TypeOK'
    BY <2>8 DEF RetryMailJob, worker
  <2>9. ASSUME NEW j \in Jobs, DeleteMailJob(j) PROVE TypeOK'
    BY <2>9 DEF DeleteMailJob, worker
  <2>10. CASE Restart
    BY <2>10 DEF Restart
  <2>11. CASE UNCHANGED vars
    BY <2>11 DEF vars, worker
  <2> QED
    BY <2>1, <2>2, <2>3, <2>4, <2>5, <2>6, <2>7, <2>8, <2>9, <2>10, <2>11
       DEF Next, WorkerLoop, Claim, SendMail, Mark, Admin
<1> QED
  BY <1>1, <1>2, PTL DEF Spec

-----------------------------------------------------------------------------
(* The queue's bookkeeping is inductive: a claim hands a job to one worker *)
(* only, and until that worker writes the outcome nobody else changes the  *)
(* row except to delete it.                                                *)
LEMMA InductiveInit == Init => IInv
  BY DEF Init, IInv, TypeOK, ExclusiveClaim, HeldJobIsSending, HolderAccounts,
         RowAccounts, AcknowledgedOnce, AttemptsBounded, Holds

LEMMA InductiveStep == IInv /\ TypeOK' /\ [Next]_vars => IInv'
<1> SUFFICES ASSUME IInv, TypeOK', [Next]_vars
             PROVE  IInv'
  OBVIOUS
<1> USE DEF IInv, TypeOK, ExclusiveClaim, HeldJobIsSending, HolderAccounts,
            RowAccounts, AcknowledgedOnce, AttemptsBounded, Holds
<1>1. ASSUME NEW j \in Jobs, Enqueue(j) PROVE IInv'
  BY <1>1 DEF Enqueue, worker
<1>2. CASE Tick
  BY <1>2 DEF Tick, worker
<1>3. ASSUME NEW w \in Workers, NEW j \in Jobs, ClaimNextJob(w, j) PROVE IInv'
  BY <1>3 DEF ClaimNextJob, Due
<1>4. ASSUME NEW w \in Workers, SendOk(w) PROVE IInv'
  BY <1>4 DEF SendOk
<1>5. ASSUME NEW w \in Workers, SendError(w) PROVE IInv'
  BY <1>5 DEF SendError
<1>6. ASSUME NEW w \in Workers, MarkJobDone(w) PROVE IInv'
  BY <1>6 DEF MarkJobDone, Row
<1>7. ASSUME NEW w \in Workers, MarkJobRetry(w) PROVE IInv'
  BY <1>7 DEF MarkJobRetry, GivenUp, Row
<1>8. ASSUME NEW w \in Workers, MarkFails(w) PROVE IInv'
  BY <1>8 DEF MarkFails
<1>9. ASSUME NEW j \in Jobs, RetryMailJob(j) PROVE IInv'
  BY <1>9 DEF RetryMailJob, worker
<1>10. ASSUME NEW j \in Jobs, DeleteMailJob(j) PROVE IInv'
  BY <1>10 DEF DeleteMailJob, worker, Row
<1>11. CASE Restart
  BY <1>11 DEF Restart
<1>12. CASE UNCHANGED vars
  BY <1>12 DEF vars, worker
<1> QED
  BY <1>1, <1>2, <1>3, <1>4, <1>5, <1>6, <1>7, <1>8, <1>9, <1>10, <1>11, <1>12
     DEF Next, WorkerLoop, Claim, SendMail, Mark, Admin

THEOREM Inductive == Spec => []IInv
  BY InductiveInit, InductiveStep, TypeCorrect, PTL DEF Spec

-----------------------------------------------------------------------------
(* No two workers ever hold the same job, for any number of workers.       *)
THEOREM ClaimsAreExclusive == Spec => []ExclusiveClaim
<1>1. IInv => ExclusiveClaim
  BY DEF IInv
<1> QED
  BY <1>1, Inductive, PTL

(* An acknowledged mail is never transmitted again.                        *)
THEOREM NeverSentAgain == Spec => []AcknowledgedOnce
<1>1. IInv => AcknowledgedOnce
  BY DEF IInv
<1> QED
  BY <1>1, Inductive, PTL

(* The status column tells whether the mail was acknowledged.              *)
THEOREM StatusIsTrue == Spec => []StatusTellsOutcome
<1>1. IInv => StatusTellsOutcome
  BY DEF IInv, RowAccounts, StatusTellsOutcome
<1> QED
  BY <1>1, Inductive, PTL

(* A mail is transmitted at most MaxAttempts times per queueing.           *)
THEOREM TransmissionsBounded == Spec => []AttemptsBounded
<1>1. IInv => AttemptsBounded
  BY DEF IInv
<1> QED
  BY <1>1, Inductive, PTL

(* Without a restart or a failed status update, a job in "sending" has a   *)
(* worker.  The property is its own invariant once IInv is known.          *)
THEOREM OnlyFaultsStrand == Spec => []StrandedByFaultOnly
<1>1. Init => StrandedByFaultOnly
  BY DEF Init, StrandedByFaultOnly, Stranded
<1>2. IInv /\ TypeOK' /\ StrandedByFaultOnly /\ [Next]_vars => StrandedByFaultOnly'
  <2> SUFFICES ASSUME IInv, TypeOK', StrandedByFaultOnly, [Next]_vars, faults' = 0,
                      NEW k \in Jobs, status'[k] = "sending"
               PROVE  \E w \in Workers : Holds(w, k)'
    BY DEF StrandedByFaultOnly, Stranded
  <2> USE DEF IInv, TypeOK, HeldJobIsSending, Holds
  <2>0. status[k] = "sending" /\ faults = 0 => \E w \in Workers : Holds(w, k)
    BY DEF StrandedByFaultOnly, Stranded
  <2>1. ASSUME NEW j \in Jobs, Enqueue(j) PROVE \E w \in Workers : Holds(w, k)'
    BY <2>0, <2>1 DEF Enqueue, worker
  <2>2. CASE Tick
    BY <2>0, <2>2 DEF Tick, worker
  <2>3. ASSUME NEW w \in Workers, NEW j \in Jobs, ClaimNextJob(w, j)
        PROVE  \E v \in Workers : Holds(v, k)'
    <3>1. CASE k = j
      BY <2>3, <3>1 DEF ClaimNextJob
    <3>2. CASE k # j
      <4>1. PICK v \in Workers : Holds(v, k)
        BY <2>0, <2>3, <3>2 DEF ClaimNextJob
      <4> QED
        BY <2>3, <4>1 DEF ClaimNextJob
    <3> QED
      BY <3>1, <3>2
  <2>4. ASSUME NEW w \in Workers, SendOk(w) \/ SendError(w)
        PROVE  \E v \in Workers : Holds(v, k)'
    BY <2>0, <2>4 DEF SendOk, SendError
  <2>5. ASSUME NEW w \in Workers, MarkJobDone(w)
        PROVE  \E v \in Workers : Holds(v, k)'
    <3>1. PICK v \in Workers : Holds(v, k)
      BY <2>0, <2>5 DEF MarkJobDone
    <3>2. v # w
      BY <2>5, <3>1 DEF MarkJobDone, Row
    <3> QED
      BY <2>5, <3>1, <3>2 DEF MarkJobDone
  <2>6. ASSUME NEW w \in Workers, MarkJobRetry(w)
        PROVE  \E v \in Workers : Holds(v, k)'
    <3>1. PICK v \in Workers : Holds(v, k)
      BY <2>0, <2>6 DEF MarkJobRetry, GivenUp
    <3>2. v # w
      BY <2>6, <3>1 DEF MarkJobRetry, GivenUp, Row
    <3> QED
      BY <2>6, <3>1, <3>2 DEF MarkJobRetry, GivenUp
  <2>7. ASSUME NEW w \in Workers, MarkFails(w) PROVE FALSE
    BY <2>7 DEF MarkFails
  <2>8. ASSUME NEW j \in Jobs, RetryMailJob(j) PROVE \E w \in Workers : Holds(w, k)'
    BY <2>0, <2>8 DEF RetryMailJob, worker
  <2>9. ASSUME NEW j \in Jobs, DeleteMailJob(j) PROVE \E w \in Workers : Holds(w, k)'
    BY <2>0, <2>9 DEF DeleteMailJob, worker
  <2>10. ASSUME Restart PROVE FALSE
    BY <2>10 DEF Restart
  <2>11. CASE UNCHANGED vars
    BY <2>0, <2>11 DEF vars, worker
  <2> QED
    BY <2>1, <2>2, <2>3, <2>4, <2>5, <2>6, <2>7, <2>8, <2>9, <2>10, <2>11
       DEF Next, WorkerLoop, Claim, SendMail, Mark, Admin
<1> QED
  BY <1>1, <1>2, Inductive, TypeCorrect, PTL DEF Spec

-----------------------------------------------------------------------------
(* A job that is done or deleted stays so: a worker that writes an outcome *)
(* late finds a row in "sending", or none.                                 *)
THEOREM FinalStatusIsKept == Spec => FinalStatusKept
<1>1. IInv /\ [Next]_vars =>
        [\A j \in Jobs :
           /\ status[j] = "deleted" => status'[j] = "deleted"
           /\ status[j] = "done" => status'[j] \in {"done", "deleted"}]_vars
  <2> SUFFICES ASSUME IInv, Next, NEW j \in Jobs
               PROVE  /\ status[j] = "deleted" => status'[j] = "deleted"
                      /\ status[j] = "done" => status'[j] \in {"done", "deleted"}
    OBVIOUS
  <2> USE DEF IInv, TypeOK, HeldJobIsSending, Holds
  <2>1. ASSUME NEW k \in Jobs, Enqueue(k) \/ RetryMailJob(k) \/ DeleteMailJob(k)
        PROVE  /\ status[j] = "deleted" => status'[j] = "deleted"
               /\ status[j] = "done" => status'[j] \in {"done", "deleted"}
    BY <2>1 DEF Enqueue, RetryMailJob, DeleteMailJob, Row
  <2>2. ASSUME NEW w \in Workers, WorkerLoop(w)
        PROVE  /\ status[j] = "deleted" => status'[j] = "deleted"
               /\ status[j] = "done" => status'[j] \in {"done", "deleted"}
    <3>1. CASE Claim(w)
      BY <3>1 DEF Claim, ClaimNextJob, Due
    <3>2. CASE SendMail(w) \/ MarkFails(w)
      BY <3>2 DEF SendMail, SendOk, SendError, MarkFails
    <3>3. CASE Mark(w)
      BY <3>3 DEF Mark, MarkJobDone, MarkJobRetry, GivenUp, Row
    <3> QED
      BY <2>2, <3>1, <3>2, <3>3 DEF WorkerLoop
  <2>3. CASE Tick \/ Restart
    BY <2>3 DEF Tick, Restart
  <2> QED
    BY <2>1, <2>2, <2>3 DEF Next, Admin
<1> QED
  BY <1>1, Inductive, PTL DEF Spec, FinalStatusKept

(* A job stranded in "sending" is never picked up again.                   *)
THEOREM StrandedIsForever == Spec => StrandedForever
<1>1. IInv /\ [Next]_vars =>
        [\A j \in Jobs : Stranded(j) => status'[j] \in {"sending", "deleted"}]_vars
  <2> SUFFICES ASSUME IInv, Next, NEW j \in Jobs, Stranded(j)
               PROVE  status'[j] \in {"sending", "deleted"}
    OBVIOUS
  <2> USE DEF IInv, TypeOK, Holds, Stranded
  <2>1. ASSUME NEW k \in Jobs, Enqueue(k) \/ RetryMailJob(k) \/ DeleteMailJob(k)
        PROVE  status'[j] \in {"sending", "deleted"}
    BY <2>1 DEF Enqueue, RetryMailJob, DeleteMailJob
  <2>2. ASSUME NEW w \in Workers, WorkerLoop(w)
        PROVE  status'[j] \in {"sending", "deleted"}
    <3>1. CASE Claim(w)
      BY <3>1 DEF Claim, ClaimNextJob, Due
    <3>2. CASE SendMail(w) \/ MarkFails(w)
      BY <3>2 DEF SendMail, SendOk, SendError, MarkFails
    <3>3. CASE Mark(w)
      BY <3>3 DEF Mark, MarkJobDone, MarkJobRetry, GivenUp
    <3> QED
      BY <2>2, <3>1, <3>2, <3>3 DEF WorkerLoop
  <2>3. CASE Tick \/ Restart
    BY <2>3 DEF Tick, Restart
  <2> QED
    BY <2>1, <2>2, <2>3 DEF Next, Admin
<1> QED
  BY <1>1, Inductive, PTL DEF Spec, StrandedForever

-----------------------------------------------------------------------------
(* The queue implements the abstract mail service.  The mapping needs the  *)
(* invariant: a worker's send is an Acknowledge only because its job was   *)
(* never acknowledged, and its write is a Record only because no second    *)
(* worker holds the job.                                                   *)
LEMMA ServiceInit == Init => Service!MailInit
  BY DEF Init, Service!MailInit, phaseBar, inHandBar, receiptBar, PhaseOf, Holds

(* What one row's new status does to the abstract phases.                  *)
LEMMA PhaseUpdate ==
  ASSUME NEW j \in Jobs, NEW s \in Status, status \in [Jobs -> Status],
         status' = [status EXCEPT ![j] = s]
  PROVE  phaseBar' = [phaseBar EXCEPT ![j] = PhaseOf(s)]
<1>1. \A k \in Jobs : status'[k] = IF k = j THEN s ELSE status[k]
  OBVIOUS
<1>2. phaseBar' = [k \in Jobs |-> PhaseOf(status'[k])]
  BY DEF phaseBar
<1>3. [phaseBar EXCEPT ![j] = PhaseOf(s)] =
        [k \in Jobs |-> IF k = j THEN PhaseOf(s) ELSE PhaseOf(status[k])]
  BY DEF phaseBar
<1> QED
  BY <1>1, <1>2, <1>3, Zenon

LEMMA PhaseValues ==
  /\ PhaseOf("none") = "absent"     /\ PhaseOf("pending") = "queued"
  /\ PhaseOf("sending") = "busy"    /\ PhaseOf("done") = "delivered"
  /\ PhaseOf("failed") = "gaveUp"   /\ PhaseOf("deleted") = "removed"
  BY DEF PhaseOf

(* The mails in hand are those of the workers between claim and outcome;   *)
(* when a worker that holds j lets go of it, exactly j leaves that set.    *)
LEMMA HandReleased ==
  ASSUME TypeOK, ExclusiveClaim, NEW w \in Workers, pc[w] # "tick",
         pc' = [pc EXCEPT ![w] = "tick"], held' = [held EXCEPT ![w] = NoJob]
  PROVE  /\ held[w] \in inHandBar
         /\ inHandBar' = inHandBar \ {held[w]}
<1>1. \A v \in Workers, j \in Jobs : Holds(v, j)' <=> Holds(v, j) /\ v # w
  BY DEF TypeOK, Holds
<1>2. \A v \in Workers : Holds(v, held[w]) => v = w
  BY DEF TypeOK, ExclusiveClaim, Holds
<1>3. held[w] \in Jobs /\ Holds(w, held[w])
  BY DEF TypeOK, Holds
<1>4. \A j \in Jobs : j \in inHandBar' <=> j \in inHandBar /\ j # held[w]
  <2> SUFFICES ASSUME NEW j \in Jobs
               PROVE  j \in inHandBar' <=> j \in inHandBar /\ j # held[w]
    OBVIOUS
  <2>1. j \in inHandBar' <=> \E v \in Workers : Holds(v, j) /\ v # w
    BY <1>1 DEF inHandBar
  <2>2. ASSUME NEW v \in Workers, Holds(v, j), j # held[w] PROVE v # w
    BY <2>2 DEF Holds
  <2> QED
    BY <2>1, <2>2, <1>2 DEF inHandBar
<1>5. inHandBar \subseteq Jobs /\ inHandBar' \subseteq Jobs
  BY DEF inHandBar
<1> QED
  BY <1>3, <1>4, <1>5, Zenon DEF inHandBar

LEMMA ServiceStep ==
  IInv /\ IInv' /\ [Next]_vars => [Service!MailNext]_(Service!mvars)
<1> SUFFICES ASSUME IInv, IInv', [Next]_vars
             PROVE  Service!MailNext \/ UNCHANGED Service!mvars
  OBVIOUS
<1> DEFINE Same == UNCHANGED <<phaseBar, inHandBar, receiptBar>>
<1>a. Same => UNCHANGED Service!mvars
  BY DEF Service!mvars
<1>b. status \in [Jobs -> Status]
  BY DEF IInv, TypeOK
<1>c. \A j \in Jobs : phaseBar[j] = PhaseOf(status[j])
  BY DEF phaseBar
<1>1. ASSUME NEW j \in Jobs, Enqueue(j) PROVE Service!Accept(j)
  <2>1. phaseBar' = [phaseBar EXCEPT ![j] = "queued"] /\ phaseBar[j] = "absent"
    BY <1>1, <1>b, <1>c, PhaseUpdate, PhaseValues DEF Enqueue
  <2>2. UNCHANGED <<inHandBar, receiptBar>>
    BY <1>1 DEF Enqueue, worker, inHandBar, receiptBar, Holds
  <2> QED
    BY <2>1, <2>2 DEF Service!Accept
<1>2. CASE Tick
  <2>1. Same
    BY <1>2 DEF Tick, worker, phaseBar, inHandBar, receiptBar, Holds
  <2> QED
    BY <2>1, <1>a
<1>3. ASSUME NEW w \in Workers, NEW j \in Jobs, ClaimNextJob(w, j)
      PROVE  Service!Take(j)
  <2>1. phaseBar' = [phaseBar EXCEPT ![j] = "busy"] /\ phaseBar[j] = "queued"
    BY <1>3, <1>b, <1>c, PhaseUpdate, PhaseValues DEF ClaimNextJob, Due
  <2>2. j \notin inHandBar
    BY <1>3 DEF ClaimNextJob, Due, IInv, HeldJobIsSending, inHandBar
  <2>3. j \notin receiptBar /\ UNCHANGED receiptBar
    BY <1>3 DEF ClaimNextJob, Due, IInv, RowAccounts, receiptBar
  <2>4. \A v \in Workers, k \in Jobs : Holds(v, k)' <=> Holds(v, k) \/ (v = w /\ k = j)
    BY <1>3 DEF ClaimNextJob, IInv, TypeOK, Holds
  <2>5. inHandBar' = inHandBar \cup {j}
    BY <2>4 DEF inHandBar
  <2> QED
    BY <2>1, <2>2, <2>3, <2>5 DEF Service!Take
<1>4. ASSUME NEW w \in Workers, SendOk(w) PROVE Service!Acknowledge(held[w])
  <2>1. held[w] \in Jobs /\ acked[held[w]] = 0 /\ Holds(w, held[w])
    BY <1>4 DEF SendOk, IInv, TypeOK, HolderAccounts, Holds
  <2>2. \A j \in Jobs : acked'[j] > 0 <=> acked[j] > 0 \/ j = held[w]
    BY <1>4, <2>1 DEF SendOk, IInv, TypeOK
  <2>3. receiptBar' = receiptBar \cup {held[w]}
    BY <2>1, <2>2 DEF receiptBar
  <2>4. UNCHANGED <<phaseBar, inHandBar>>
    BY <1>4 DEF SendOk, IInv, TypeOK, phaseBar, inHandBar, Holds
  <2> QED
    BY <2>1, <2>3, <2>4 DEF Service!Acknowledge, inHandBar, receiptBar
<1>5. ASSUME NEW w \in Workers, SendError(w) PROVE Same
  BY <1>5 DEF SendError, IInv, TypeOK, phaseBar, inHandBar, receiptBar, Holds
<1>6. ASSUME NEW w \in Workers, MarkJobDone(w) PROVE Service!Record(held[w])
  <2>1. /\ held[w] \in Jobs /\ held[w] \in receiptBar
        /\ status[held[w]] \in {"sending", "deleted"}
    BY <1>6 DEF MarkJobDone, IInv, TypeOK, HolderAccounts, HeldJobIsSending, Holds, receiptBar
  <2>2. held[w] \in inHandBar /\ inHandBar' = inHandBar \ {held[w]}
    BY <1>6, HandReleased DEF MarkJobDone, IInv
  <2>3. UNCHANGED receiptBar
    BY <1>6 DEF MarkJobDone, receiptBar
  <2>4. CASE status[held[w]] = "sending"
    <3>1. phaseBar' = [phaseBar EXCEPT ![held[w]] = "delivered"] /\ phaseBar[held[w]] = "busy"
      BY <1>6, <1>b, <1>c, <2>1, <2>4, PhaseUpdate, PhaseValues DEF MarkJobDone, Row
    <3> QED
      BY <2>1, <2>2, <2>3, <3>1 DEF Service!Record
  <2>5. CASE status[held[w]] = "deleted"
    <3>1. UNCHANGED phaseBar /\ phaseBar[held[w]] = "removed"
      BY <1>6, <1>c, <2>1, <2>5, PhaseValues DEF MarkJobDone, Row, phaseBar
    <3> QED
      BY <2>2, <2>3, <3>1 DEF Service!Record
  <2> QED
    BY <2>1, <2>4, <2>5
<1>7. ASSUME NEW w \in Workers, MarkJobRetry(w) PROVE Service!Record(held[w])
  <2>1. /\ held[w] \in Jobs /\ held[w] \notin receiptBar
        /\ status[held[w]] \in {"sending", "deleted"}
    BY <1>7 DEF MarkJobRetry, GivenUp, IInv, TypeOK, HolderAccounts, HeldJobIsSending, Holds, receiptBar
  <2>2. held[w] \in inHandBar /\ inHandBar' = inHandBar \ {held[w]}
    BY <1>7, HandReleased DEF MarkJobRetry, GivenUp, IInv
  <2>3. UNCHANGED receiptBar
    BY <1>7 DEF MarkJobRetry, GivenUp, receiptBar
  <2>4. CASE status[held[w]] = "sending"
    <3>1. PICK s \in {"pending", "failed"} : status' = [status EXCEPT ![held[w]] = s]
      BY <1>7, <2>4 DEF MarkJobRetry, GivenUp, Row
    <3>2. /\ phaseBar' = [phaseBar EXCEPT ![held[w]] = PhaseOf(s)]
          /\ PhaseOf(s) \in {"queued", "gaveUp"} /\ phaseBar[held[w]] = "busy"
      BY <1>b, <1>c, <2>1, <2>4, <3>1, PhaseUpdate, PhaseValues
    <3> QED
      BY <2>1, <2>2, <2>3, <3>2 DEF Service!Record
  <2>5. CASE status[held[w]] = "deleted"
    <3>1. UNCHANGED phaseBar /\ phaseBar[held[w]] = "removed"
      BY <1>7, <1>c, <2>1, <2>5, PhaseValues DEF MarkJobRetry, GivenUp, Row, phaseBar
    <3> QED
      BY <2>2, <2>3, <3>1 DEF Service!Record
  <2> QED
    BY <2>1, <2>4, <2>5
<1>8. ASSUME NEW w \in Workers, MarkFails(w) PROVE Service!MailNext
  <2>1. held[w] \in inHandBar /\ inHandBar' = inHandBar \ {held[w]}
    BY <1>8, HandReleased DEF MarkFails, IInv
  <2>2. UNCHANGED <<phaseBar, receiptBar>>
    BY <1>8 DEF MarkFails, phaseBar, receiptBar
  <2>3. Service!Lose({held[w]}) /\ {held[w]} \in SUBSET Jobs
    BY <2>1, <2>2 DEF Service!Lose, inHandBar
  <2> QED
    BY <2>3, Zenon DEF Service!MailNext
<1>9. ASSUME NEW j \in Jobs, RetryMailJob(j) PROVE Service!Requeue(j)
  <2>1. phaseBar' = [phaseBar EXCEPT ![j] = "queued"] /\ phaseBar[j] = "gaveUp"
    BY <1>9, <1>b, <1>c, PhaseUpdate, PhaseValues DEF RetryMailJob
  <2>2. UNCHANGED <<inHandBar, receiptBar>>
    BY <1>9 DEF RetryMailJob, worker, inHandBar, receiptBar, Holds
  <2>3. j \notin receiptBar
    BY <1>9 DEF RetryMailJob, IInv, RowAccounts, receiptBar
  <2> QED
    BY <2>1, <2>2, <2>3 DEF Service!Requeue
<1>10. ASSUME NEW j \in Jobs, DeleteMailJob(j) PROVE Service!Remove(j)
  <2>1. phaseBar' = [phaseBar EXCEPT ![j] = "removed"]
    BY <1>10, <1>b, PhaseUpdate, PhaseValues DEF DeleteMailJob
  <2>2. phaseBar[j] \notin {"absent", "removed"}
    BY <1>10, <1>b, <1>c, PhaseValues DEF DeleteMailJob, Row
  <2>3. UNCHANGED <<inHandBar, receiptBar>>
    BY <1>10 DEF DeleteMailJob, worker, inHandBar, receiptBar, Holds
  <2> QED
    BY <2>1, <2>2, <2>3 DEF Service!Remove
<1>11. CASE Restart
  <2>1. inHandBar' = {}
    BY <1>11 DEF Restart, inHandBar, Holds
  <2>2. UNCHANGED <<phaseBar, receiptBar>>
    BY <1>11 DEF Restart, phaseBar, receiptBar
  <2>3. Service!Lose(inHandBar) /\ inHandBar \in SUBSET Jobs
    BY <2>1, <2>2 DEF Service!Lose, inHandBar
  <2> QED
    BY <2>3, Zenon DEF Service!MailNext
<1>12. CASE UNCHANGED vars
  <2>1. Same
    BY <1>12 DEF vars, worker, phaseBar, inHandBar, receiptBar, Holds
  <2> QED
    BY <2>1, <1>a
<1>13. ASSUME NEW w \in Workers, pc[w] # "tick" PROVE held[w] \in Jobs
  BY <1>13 DEF IInv, TypeOK
<1>14. ASSUME NEW w \in Workers, WorkerLoop(w)
       PROVE  Service!MailNext \/ UNCHANGED Service!mvars
  <2>1. CASE Claim(w)
    BY <2>1, <1>3 DEF Claim, Service!MailNext
  <2>2. CASE SendOk(w)
    BY <2>2, <1>4, <1>13 DEF SendOk, Service!MailNext
  <2>3. CASE SendError(w)
    BY <2>3, <1>5, <1>a
  <2>4. CASE MarkJobDone(w)
    BY <2>4, <1>6, <1>13 DEF MarkJobDone, Service!MailNext
  <2>5. CASE MarkJobRetry(w)
    BY <2>5, <1>7, <1>13 DEF MarkJobRetry, GivenUp, Service!MailNext
  <2>6. CASE MarkFails(w)
    BY <2>6, <1>8
  <2> QED
    BY <1>14, <2>1, <2>2, <2>3, <2>4, <2>5, <2>6 DEF WorkerLoop, SendMail, Mark
<1> QED
  BY <1>1, <1>2, <1>9, <1>10, <1>11, <1>12, <1>14 DEF Next, Admin, Service!MailNext

THEOREM QueueImplementsService == Spec => ImplementsMailService
<1>1. Init => Service!MailInit
  BY ServiceInit
<1>2. IInv /\ IInv' /\ [Next]_vars => [Service!MailNext]_(Service!mvars)
  BY ServiceStep
<1> QED
  BY <1>1, <1>2, Inductive, PTL DEF Spec, ImplementsMailService, Service!MailSpec
=============================================================================
