----------------------------- MODULE MailQueue -----------------------------
(***************************************************************************)
(* The outgoing mail queue: the mail_jobs table, the worker goroutines     *)
(* that drain it (internal/services/mail_queue.go) and the two admin       *)
(* handlers that touch it (internal/handlers/queue.go).                    *)
(*                                                                         *)
(* A worker claims a job in one transaction, calls the mail sender with no *)
(* lock and no transaction held, and writes the outcome back by id.  The   *)
(* steps of the workers interleave with each other, with the admin         *)
(* handlers, and with the end of the process at any point.                 *)
(***************************************************************************)
EXTENDS Naturals

CONSTANTS
    Workers,      \* the goroutines main starts (two of them)
    MaxJobs,      \* bound on the rows ever inserted
    MaxAttempts,  \* mail_jobs.max_attempts, 5 in the code
    MaxRequeues,  \* bound on successful manual retries
    MaxFaults     \* bound on process ends and on failed status updates

ASSUME WorkersAssumption == Workers # {}
ASSUME BoundsAssumption ==
    /\ MaxJobs \in Nat
    /\ MaxAttempts \in Nat \ {0}
    /\ MaxRequeues \in Nat
    /\ MaxFaults \in Nat

Jobs  == 1..MaxJobs   \* AUTOINCREMENT ids: the order of insertion, never reused
NoJob == 0

VARIABLES
    status,    \* per id: "none" before the INSERT, "deleted" after the DELETE
    attempts,  \* mail_jobs.attempts
    wait,      \* what is left of next_retry_at - now, in units of 15 seconds
    pc,        \* per worker: the statement of workerLoop it is about to run
    held,      \* per worker: MailJob.ID of the job it claimed
    snap,      \* per worker: MailJob.Attempts, as read by the claim
    tries,     \* history: transmissions since the job was last queued
    acked,     \* history: transmissions the mail server acknowledged
    requeues, faults

worker == <<pc, held, snap>>
vars   == <<status, attempts, wait, worker, tries, acked, requeues, faults>>

Status == {"none", "pending", "sending", "done", "failed", "deleted"}

(* Plausible bugs, each of which one of the properties below excludes: a   *)
(* claim that takes jobs being sent, one that skips the last attempt, an   *)
(* UPDATE that brings back deleted rows, a job released before its outcome *)
(* is written, an outcome not written, one attempt too many, a manual      *)
(* retry of any job.                                                       *)
DueOrSending(j)      == status[j] \in {"pending", "sending"} /\ wait[j] = 0
DueButLast(j)        == status[j] = "pending" /\ wait[j] = 0 /\ attempts[j] + 1 < MaxAttempts
EverInserted(j)      == status[j] # "none"
OneTooMany(n)        == n > MaxAttempts
SendErrorReleases(w) ==
    /\ pc[w] = "send"
    /\ pc'    = [pc EXCEPT ![w] = "markRetry"]
    /\ held'  = [held EXCEPT ![w] = NoJob]
    /\ UNCHANGED <<status, attempts, wait, snap, tries, acked, requeues, faults>>
MarkNothing(w) ==
    /\ pc[w] = "markDone"
    /\ pc'    = [pc EXCEPT ![w] = "tick"]
    /\ held'  = [held EXCEPT ![w] = NoJob]
    /\ UNCHANGED <<status, attempts, wait, snap, tries, acked, requeues, faults>>
RetryAnyJob(j) ==
    /\ requeues < MaxRequeues
    /\ status[j] \in {"failed", "sending"}
    /\ status'   = [status EXCEPT ![j] = "pending"]
    /\ attempts' = [attempts EXCEPT ![j] = 0]
    /\ tries'    = [tries EXCEPT ![j] = 0]
    /\ requeues' = requeues + 1
    /\ UNCHANGED <<wait, worker, acked, faults>>

Row(j)     == status[j] \notin {"none", "deleted"}
Due(j)     == status[j] = "pending" /\ wait[j] = 0
Holds(w,j) == pc[w] # "tick" /\ held[w] = j

Init ==
    /\ status   = [j \in Jobs |-> "none"]
    /\ attempts = [j \in Jobs |-> 0]
    /\ wait     = [j \in Jobs |-> 0]
    /\ pc       = [w \in Workers |-> "tick"]
    /\ held     = [w \in Workers |-> NoJob]
    /\ snap     = [w \in Workers |-> 0]
    /\ tries    = [j \in Jobs |-> 0]
    /\ acked    = [j \in Jobs |-> 0]
    /\ requeues = 0
    /\ faults   = 0

-----------------------------------------------------------------------------
(* The delay before the next attempt, in units of 15 seconds.              *)
RetryDelay(attempt) ==
    CASE attempt <= 1 -> 1
      [] attempt = 2  -> 2
      [] attempt = 3  -> 4
      [] attempt = 4  -> 8
      [] OTHER        -> 20

(* A payload with a blank address, subject or body is refused with no      *)
(* effect; every other one becomes a row that is due at once.              *)
Enqueue(j) ==
    /\ status[j] = "none"
    /\ \A k \in Jobs : k < j => status[k] # "none"
    /\ status'   = [status EXCEPT ![j] = "pending"]
    /\ attempts' = [attempts EXCEPT ![j] = 0]
    /\ wait'     = [wait EXCEPT ![j] = 0]
    /\ UNCHANGED <<worker, tries, acked, requeues, faults>>

(* Fifteen seconds pass for every pending job.                             *)
Tick ==
    /\ \E j \in Jobs : status[j] = "pending" /\ wait[j] > 0
    /\ wait' = [j \in Jobs |->
                  IF status[j] = "pending" /\ wait[j] > 0 THEN wait[j] - 1 ELSE wait[j]]
    /\ UNCHANGED <<status, attempts, worker, tries, acked, requeues, faults>>

(* The claim is one transaction on the only database connection: the job   *)
(* of the lowest id that is due.  A claim that fails rolls back.           *)
ClaimNextJob(w, j) ==
    /\ pc[w] = "tick"
    /\ Due(j)
    /\ \A k \in Jobs : Due(k) => j <= k
    /\ status' = [status EXCEPT ![j] = "sending"]
    /\ pc'     = [pc EXCEPT ![w] = "send"]
    /\ held'   = [held EXCEPT ![w] = j]
    /\ snap'   = [snap EXCEPT ![w] = attempts[j]]
    /\ UNCHANGED <<attempts, wait, tries, acked, requeues, faults>>

(* The sender returns, as it always does: dialling and the connection have *)
(* deadlines.  An error does not mean that the mail was not delivered.     *)
SendOk(w) ==
    /\ pc[w] = "send"
    /\ pc'    = [pc EXCEPT ![w] = "markDone"]
    /\ tries' = [tries EXCEPT ![held[w]] = @ + 1]
    /\ acked' = [acked EXCEPT ![held[w]] = @ + 1]
    /\ UNCHANGED <<status, attempts, wait, held, snap, requeues, faults>>

SendError(w) ==
    /\ pc[w] = "send"
    /\ pc'    = [pc EXCEPT ![w] = "markRetry"]
    /\ tries' = [tries EXCEPT ![held[w]] = @ + 1]
    /\ UNCHANGED <<status, attempts, wait, held, snap, acked, requeues, faults>>

(* UPDATE ... WHERE id=?: nothing happens when the row is gone.            *)
MarkJobDone(w) ==
    /\ pc[w] = "markDone"
    /\ status' = IF Row(held[w]) THEN [status EXCEPT ![held[w]] = "done"] ELSE status
    /\ pc'     = [pc EXCEPT ![w] = "tick"]
    /\ held'   = [held EXCEPT ![w] = NoJob]
    /\ UNCHANGED <<attempts, wait, snap, tries, acked, requeues, faults>>

(* The attempt count written is the one the claim read, plus one.          *)
GivenUp(n) == n >= MaxAttempts

MarkJobRetry(w) ==
    LET j == held[w]
        n == snap[w] + 1
    IN  /\ pc[w] = "markRetry"
        /\ IF Row(j)
           THEN /\ status'   = [status EXCEPT ![j] =
                                  IF GivenUp(n) THEN "failed" ELSE "pending"]
                /\ attempts' = [attempts EXCEPT ![j] = n]
                /\ wait'     = IF GivenUp(n) THEN wait
                               ELSE [wait EXCEPT ![j] = RetryDelay(n)]
           ELSE UNCHANGED <<status, attempts, wait>>
        /\ pc'   = [pc EXCEPT ![w] = "tick"]
        /\ held' = [held EXCEPT ![w] = NoJob]
        /\ UNCHANGED <<snap, tries, acked, requeues, faults>>

(* The outcome's UPDATE fails; workerLoop drops the error and goes on.     *)
MarkFails(w) ==
    /\ pc[w] \in {"markDone", "markRetry"}
    /\ faults < MaxFaults
    /\ faults' = faults + 1
    /\ pc'     = [pc EXCEPT ![w] = "tick"]
    /\ held'   = [held EXCEPT ![w] = NoJob]
    /\ UNCHANGED <<status, attempts, wait, snap, tries, acked, requeues>>

(* POST /api/mail-queue/:id/retry                                          *)
RetryMailJob(j) ==
    /\ requeues < MaxRequeues
    /\ status[j] = "failed"
    /\ status'   = [status EXCEPT ![j] = "pending"]
    /\ attempts' = [attempts EXCEPT ![j] = 0]
    /\ wait'     = [wait EXCEPT ![j] = 0]
    /\ tries'    = [tries EXCEPT ![j] = 0]
    /\ requeues' = requeues + 1
    /\ UNCHANGED <<worker, acked, faults>>

(* DELETE /api/mail-queue/:id, whatever the job's status.                  *)
DeleteMailJob(j) ==
    /\ Row(j)
    /\ status' = [status EXCEPT ![j] = "deleted"]
    /\ UNCHANGED <<attempts, wait, worker, tries, acked, requeues, faults>>

(* The process ends at any point and is started again: the workers start   *)
(* over, and neither Start nor the migration touches a row of mail_jobs.   *)
Restart ==
    /\ faults < MaxFaults
    /\ faults' = faults + 1
    /\ pc'     = [w \in Workers |-> "tick"]
    /\ held'   = [w \in Workers |-> NoJob]
    /\ snap'   = [w \in Workers |-> 0]
    /\ UNCHANGED <<status, attempts, wait, tries, acked, requeues>>

Claim(w)    == \E j \in Jobs : ClaimNextJob(w, j)
SendMail(w) == SendOk(w) \/ SendError(w)
Mark(w)     == MarkJobDone(w) \/ MarkJobRetry(w)

(* One turn of workerLoop, cut where another actor can interleave.         *)
WorkerLoop(w) == Claim(w) \/ SendMail(w) \/ Mark(w) \/ MarkFails(w)

Admin == \E j \in Jobs : RetryMailJob(j) \/ DeleteMailJob(j)

Next ==
    \/ \E j \in Jobs : Enqueue(j)
    \/ Tick
    \/ \E w \in Workers : WorkerLoop(w)
    \/ Admin
    \/ Restart

Spec == Init /\ [][Next]_vars

(* The ticker wakes every worker again and again, the sender returns, and  *)
(* time passes.  Nothing obliges a caller to enqueue or an admin to act.   *)
Fairness ==
    /\ WF_vars(Tick)
    /\ \A w \in Workers :
          WF_vars(Claim(w)) /\ WF_vars(SendMail(w)) /\ WF_vars(Mark(w) \/ MarkFails(w))

FairSpec == Spec /\ Fairness

-----------------------------------------------------------------------------
(* Types of the variables, with the bounds of the two counters.            *)
TypeOK ==
    /\ status   \in [Jobs -> Status]
    /\ attempts \in [Jobs -> Nat]
    /\ wait     \in [Jobs -> Nat]
    /\ pc       \in [Workers -> {"tick", "send", "markDone", "markRetry"}]
    /\ held     \in [Workers -> Jobs \cup {NoJob}]
    /\ snap     \in [Workers -> Nat]
    /\ tries    \in [Jobs -> Nat]
    /\ acked    \in [Jobs -> Nat]
    /\ requeues \in 0..MaxRequeues
    /\ faults   \in 0..MaxFaults
    /\ \A w \in Workers : pc[w] # "tick" => held[w] \in Jobs

(* Two workers never hold the same job, although the claim releases the    *)
(* transaction before the mail is sent and the outcome is written by id    *)
(* alone (claimNextJob, markJobDone, markJobRetry).                        *)
ExclusiveClaim ==
    \A v, w \in Workers : \A j \in Jobs : Holds(v, j) /\ Holds(w, j) => v = w

(* A worker that holds a job decides its status: until the outcome is      *)
(* written the row is "sending", or an admin deleted it (DeleteMailJob).   *)
HeldJobIsSending ==
    \A w \in Workers : \A j \in Jobs :
        Holds(w, j) => status[j] \in {"sending", "deleted"}

(* A mail the server acknowledged is never sent again, whatever restarts,  *)
(* failed updates and manual retries happen afterwards.                    *)
AcknowledgedOnce == \A j \in Jobs : acked[j] <= 1

(* The status an admin reads is the truth: "done" only for a mail that was *)
(* acknowledged, "pending" and "failed" only for one that was not.         *)
StatusTellsOutcome ==
    \A j \in Jobs :
        /\ status[j] = "done" => acked[j] = 1
        /\ status[j] \in {"pending", "failed"} => acked[j] = 0

(* From one queueing to the next a mail is transmitted at most MaxAttempts *)
(* times, so a recipient gets at most that many copies of it, and a job is *)
(* given up only after all of them (attempts is read by the claim and      *)
(* written back after the send, markJobRetry).                             *)
AttemptsBounded ==
    \A j \in Jobs :
        /\ tries[j] <= MaxAttempts
        /\ status[j] = "failed" => tries[j] = MaxAttempts /\ attempts[j] = MaxAttempts

(* A job left in "sending" that nobody works on comes from a restart or a  *)
(* failed status update, never from the workers' interleaving.             *)
Stranded(j) == status[j] = "sending" /\ \A w \in Workers : ~Holds(w, j)
StrandedByFaultOnly == faults = 0 => \A j \in Jobs : ~Stranded(j)

(* The bookkeeping behind the properties above: what the counters of a row *)
(* and the local copies of the worker that holds it say of each other, at  *)
(* each statement of workerLoop.  With ExclusiveClaim and HeldJobIsSending *)
(* it is inductive.                                                        *)
HolderAccounts ==
    \A w \in Workers :
        LET j == held[w]
        IN  /\ pc[w] = "send"      => tries[j] = snap[w] /\ acked[j] = 0
            /\ pc[w] = "markDone"  => tries[j] = snap[w] + 1 /\ acked[j] = 1
            /\ pc[w] = "markRetry" => tries[j] = snap[w] + 1 /\ acked[j] = 0
            /\ pc[w] # "tick" => snap[w] < MaxAttempts

RowAccounts ==
    \A j \in Jobs :
        /\ status[j] = "none"    => tries[j] = 0 /\ acked[j] = 0
        /\ status[j] = "pending" => /\ tries[j] = attempts[j] /\ attempts[j] < MaxAttempts
                                    /\ acked[j] = 0
        /\ status[j] = "failed"  => attempts[j] = MaxAttempts /\ acked[j] = 0
        /\ status[j] = "done"    => acked[j] = 1

IInv ==
    /\ TypeOK
    /\ ExclusiveClaim
    /\ HeldJobIsSending
    /\ HolderAccounts
    /\ RowAccounts
    /\ AcknowledgedOnce
    /\ AttemptsBounded

(* A job that is done or deleted stays so (but for an admin deleting it):  *)
(* an outcome written late never brings a row back to life.                *)
FinalStatusKept ==
    [][\A j \in Jobs :
          /\ status[j] = "deleted" => status'[j] = "deleted"
          /\ status[j] = "done" => status'[j] \in {"done", "deleted"}]_vars

(* A job that nobody works on any more is never picked up again: no code   *)
(* path leads out of "sending" but the worker that claimed it, so only a   *)
(* deletion ends it (RetryMailJob accepts "failed" alone).                 *)
StrandedForever ==
    [][\A j \in Jobs : Stranded(j) => status'[j] \in {"sending", "deleted"}]_vars

(* Every queued mail is eventually done, given up or deleted, or it was    *)
(* stranded by a fault.  With MaxFaults = 0 the last case is excluded by   *)
(* StrandedByFaultOnly.                                                    *)
EventuallySettled ==
    \A j \in Jobs :
        status[j] = "pending" ~>
            (status[j] \in {"done", "failed", "deleted"} \/ Stranded(j))
=============================================================================
