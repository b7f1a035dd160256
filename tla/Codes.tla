-------------------------------- MODULE Codes --------------------------------
(***************************************************************************)
(* Mailed verification codes: the limits on asking for one, the check of a *)
(* code, and the login and the registration it admits to.  SendEmailCode   *)
(* and LoginByEmailCode in internal/handlers/auth_code.go, Register in     *)
(* internal/handlers/settings.go, internal/services/verification.go.       *)
(*                                                                         *)
(* All requests come from one network address and one device, the case in  *)
(* which every limit applies.  The statements of overlapping handlers      *)
(* interleave.                                                             *)
(***************************************************************************)
EXTENDS Naturals, FiniteSets

CONSTANTS
    Requests,     \* handlers in flight at the same time
    Emails,
    MaxCodes,     \* bound on the codes generated
    MaxTime,      \* bound on the clock
    MaxFaults,    \* bound on the statements that fail
    Cooldown,     \* email_code_cooldown_seconds
    Window,       \* the 10 minutes of the limits
    Lifetime,     \* the 10 minutes a code is valid
    EmailMax, IpMax, DeviceMax,  \* 5, 20, fingerprint_max_requests_10m
    MaxAttempts,  \* 5
    Lookback      \* how many codes the check reads: 10

ASSUME LimitsAssumption ==
    /\ Cooldown \in Nat /\ Window \in Nat /\ Lifetime \in Nat /\ Cooldown <= Window
    /\ EmailMax \in Nat /\ IpMax \in Nat /\ DeviceMax \in Nat
    /\ MaxAttempts \in Nat \ {0} /\ Lookback \in Nat
ASSUME BoundsAssumption == MaxCodes \in Nat /\ MaxTime \in Nat \ {0} /\ MaxFaults \in Nat
ASSUME PeopleAssumption ==
    Emails # {} /\ Requests # {} /\ IsFiniteSet(Requests)

Ids      == 1..MaxCodes
Purposes == {"login", "register"}
Never    == 0     \* the clock starts at 1

VARIABLES
    now,
    lastCode,           \* the rows of verification_codes: 1..lastCode
    email, purpose, at, \* their columns
    attempts, used,
    logAt,              \* code_request_logs: when the row's request was logged
    mailed,             \* the codes that were enqueued
    accounts, active,   \* users by name, and those with status = 1
    req,                \* the locals of each handler
    granted,            \* history: how often a code was accepted
    wrong,              \* history: wrong codes counted against a row
    met,                \* history: rows two handlers worked on at once
    given,              \* history: accounts not made by a registration
    faults

codes == <<lastCode, email, purpose, at, attempts, used, logAt, mailed>>
people == <<accounts, active, given>>
seen  == <<granted, wrong, met>>
vars  == <<now, codes, people, req, seen, faults>>

Idle == [pc |-> "idle", email |-> CHOOSE e \in Emails : TRUE, purpose |-> "login",
         id |-> 0, snap |-> 0]

Init ==
    /\ now = 1 /\ lastCode = 0
    /\ email = [i \in Ids |-> Idle.email] /\ purpose = [i \in Ids |-> "login"]
    /\ at = [i \in Ids |-> Never] /\ attempts = [i \in Ids |-> 0] /\ used = {}
    /\ logAt = [i \in Ids |-> Never] /\ mailed = {}
    /\ accounts \in SUBSET Emails /\ active = accounts /\ given = accounts
    /\ req = [r \in Requests |-> Idle]
    /\ granted = [i \in Ids |-> 0] /\ wrong = [i \in Ids |-> 0] /\ met = {}
    /\ faults = 0

Return(r)      == req' = [req EXCEPT ![r] = Idle]
Goto(r, place) == req' = [req EXCEPT ![r].pc = place]
Faulty == faults < MaxFaults /\ faults' = faults + 1
Rows   == 1..lastCode

-----------------------------------------------------------------------------
(* SendEmailCode, after the captcha: whether the purpose is possible, the  *)
(* limits of the device, the cooldown, and the limits of the recipient and *)
(* of the network address.                                                 *)
Possible(e, p) == IF p = "register" THEN e \notin accounts ELSE e \in active

(* A count over the rows whose time t is less than span ago.               *)
Recent(S, t, span) == Cardinality({i \in S : t[i] # Never /\ now < t[i] + span})

BelowOrAtLimits(e, p) ==   \* a plausible bug: the limits are one too high
    /\ Recent(Rows, logAt, Window) <= DeviceMax
    /\ Recent({i \in Rows : email[i] = e}, at, Window) <= EmailMax
    /\ Recent(Rows, at, Window) <= IpMax

BelowLimits(e, p) ==
    /\ Recent(Rows, logAt, Window) < DeviceMax
    /\ Recent({i \in Rows : email[i] = e /\ purpose[i] = p}, at, Cooldown) = 0
    /\ Recent({i \in Rows : email[i] = e}, at, Window) < EmailMax
    /\ Recent(Rows, at, Window) < IpMax

SendEmailCode(r, e, p) ==
    /\ req[r].pc = "idle"
    /\ Possible(e, p) /\ BelowLimits(e, p)
    /\ req' = [req EXCEPT ![r] = [Idle EXCEPT !.pc = "insert", !.email = e, !.purpose = p]]
    /\ UNCHANGED <<now, codes, people, seen, faults>>

CreateVerificationCode(r) ==
    LET i == lastCode + 1 IN
    /\ req[r].pc = "insert"
    /\ lastCode < MaxCodes
    /\ lastCode' = i
    /\ email'    = [email EXCEPT ![i] = req[r].email]
    /\ purpose'  = [purpose EXCEPT ![i] = req[r].purpose]
    /\ at'       = [at EXCEPT ![i] = now]
    /\ req'      = [req EXCEPT ![r].pc = "log", ![r].id = i]
    /\ UNCHANGED <<now, attempts, used, logAt, mailed, people, seen, faults>>

(* The error of this INSERT is dropped.                                    *)
LogRequest(r) ==
    /\ req[r].pc = "log"
    /\ \/ logAt' = [logAt EXCEPT ![req[r].id] = now] /\ UNCHANGED faults
       \/ Faulty /\ UNCHANGED logAt
    /\ Goto(r, "mail")
    /\ UNCHANGED <<now, lastCode, email, purpose, at, attempts, used, mailed, people, seen>>

(* enqueueServiceMail, which may fail and leaves the row.                  *)
MailCode(r) ==
    /\ req[r].pc = "mail"
    /\ \/ mailed' = mailed \cup {req[r].id} /\ UNCHANGED faults
       \/ Faulty /\ UNCHANGED mailed
    /\ Return(r)
    /\ UNCHANGED <<now, lastCode, email, purpose, at, attempts, used, logAt, people, seen>>

-----------------------------------------------------------------------------
(* VerifyCodeOnce: of the last codes for the address and purpose, the      *)
(* newest that is unused, valid and has attempts left is compared; a wrong *)
(* code counts against it, and when it has no attempts left the one before *)
(* it is looked at again.  A right one can only be a code that was mailed. *)
Newest(S) == {i \in S : Cardinality({j \in S : j > i}) < Lookback}

(* Plausible bugs: a code for the other purpose, an attempt that is not    *)
(* written, a code that is not marked as used.                             *)
EligibleForAny(e, p) ==
    {i \in Newest({j \in Rows : email[j] = e}) :
        i \notin used /\ now <= at[i] + Lifetime /\ attempts[i] < MaxAttempts}
UncountedAttempt(r) ==
    /\ req[r].pc = "count"
    /\ wrong' = [wrong EXCEPT ![req[r].id] = @ + 1]
    /\ Return(r)
    /\ UNCHANGED <<now, codes, people, granted, met, faults>>
UnmarkedUse(r) ==
    /\ req[r].pc = "use"
    /\ granted' = [granted EXCEPT ![req[r].id] = @ + 1]
    /\ Goto(r, req[r].purpose)
    /\ UNCHANGED <<now, codes, people, wrong, met, faults>>

Eligible(e, p) ==
    {i \in Newest({j \in Rows : email[j] = e /\ purpose[j] = p}) :
        i \notin used /\ now <= at[i] + Lifetime /\ attempts[i] < MaxAttempts}

Judging(r, i) == req[r].pc \in {"use", "count"} /\ req[r].id = i

ReadCodes(r, e, p, i, right) ==
    /\ req[r].pc = "idle"
    /\ i \in Eligible(e, p) /\ \A j \in Eligible(e, p) : j <= i
    /\ right => i \in mailed
    /\ req' = [req EXCEPT ![r] = [pc |-> IF right THEN "use" ELSE "count", email |-> e,
                                  purpose |-> p, id |-> i, snap |-> attempts[i]]]
    /\ met' = IF \E s \in Requests : Judging(s, i) THEN met \cup {i} ELSE met
    /\ UNCHANGED <<now, codes, people, granted, wrong, faults>>

CountAttempt(r) ==
    LET i == req[r].id IN
    /\ req[r].pc = "count"
    /\ wrong' = [wrong EXCEPT ![i] = @ + 1]
    /\ \/ attempts' = [attempts EXCEPT ![i] = req[r].snap + 1] /\ UNCHANGED faults
       \/ Faulty /\ UNCHANGED attempts
    /\ Return(r)
    /\ UNCHANGED <<now, lastCode, email, purpose, at, used, logAt, mailed, people,
                   granted, met>>

(* The code is marked before the caller acts on it: an error refuses it.   *)
UseCode(r) ==
    LET i == req[r].id IN
    /\ req[r].pc = "use"
    /\ \/ /\ used' = used \cup {i}
          /\ granted' = [granted EXCEPT ![i] = @ + 1]
          /\ Goto(r, req[r].purpose)
          /\ UNCHANGED faults
       \/ Faulty /\ Return(r) /\ UNCHANGED <<used, granted>>
    /\ UNCHANGED <<now, lastCode, email, purpose, at, attempts, logAt, mailed, people,
                   wrong, met>>

(* LoginByEmailCode reads the user and answers; nothing is written.        *)
LoginByEmailCode(r) ==
    /\ req[r].pc = "login"
    /\ Return(r)
    /\ UNCHANGED <<now, codes, people, seen, faults>>

(* Register: refused for want of a reason, or by the unique user name: the *)
(* code is spent all the same.                                             *)
Register(r, refused, isActive) ==
    LET e == req[r].email IN
    /\ req[r].pc = "register"
    /\ IF refused \/ e \in accounts
       THEN UNCHANGED <<accounts, active>>
       ELSE /\ accounts' = accounts \cup {e}
            /\ active' = IF isActive THEN active \cup {e} ELSE active
    /\ Return(r)
    /\ UNCHANGED <<now, codes, given, seen, faults>>

-----------------------------------------------------------------------------
(* The administrator disables or enables a user, or deletes one.           *)
EditUser(e) ==
    /\ e \in accounts
    /\ \/ active' = (IF e \in active THEN active \ {e} ELSE active \cup {e})
          /\ UNCHANGED <<accounts, given>>
       \/ active' = active \ {e} /\ accounts' = accounts \ {e} /\ given' = given \ {e}
    /\ UNCHANGED <<now, codes, req, seen, faults>>

Tick ==
    /\ now < MaxTime
    /\ now' = now + 1
    /\ UNCHANGED <<codes, people, req, seen, faults>>

Handle(r) ==
    \/ CreateVerificationCode(r) \/ LogRequest(r) \/ MailCode(r)
    \/ CountAttempt(r) \/ UseCode(r) \/ LoginByEmailCode(r)
    \/ \E x, y \in BOOLEAN : Register(r, x, y)

Next ==
    \/ \E r \in Requests :
          \/ Handle(r)
          \/ \E e \in Emails, p \in Purposes :
                \/ SendEmailCode(r, e, p)
                \/ \E i \in Ids, right \in BOOLEAN : ReadCodes(r, e, p, i, right)
    \/ \E e \in Emails : EditUser(e)
    \/ Tick

Spec == Init /\ [][Next]_vars

-----------------------------------------------------------------------------
RequestType ==
    [pc : {"idle", "insert", "log", "mail", "use", "count"} \cup Purposes, email : Emails,
     purpose : Purposes, id : 0..MaxCodes, snap : Nat]

(* Types of the variables.                                                 *)
TypeOK ==
    /\ now \in 1..MaxTime /\ lastCode \in 0..MaxCodes
    /\ email \in [Ids -> Emails] /\ purpose \in [Ids -> Purposes]
    /\ at \in [Ids -> 0..MaxTime] /\ logAt \in [Ids -> 0..MaxTime]
    /\ attempts \in [Ids -> 0..MaxAttempts]
    /\ used \subseteq Rows /\ mailed \subseteq Rows
    /\ active \subseteq accounts /\ accounts \subseteq Emails /\ given \subseteq accounts
    /\ req \in [Requests -> RequestType]
    /\ granted \in [Ids -> Nat] /\ wrong \in [Ids -> Nat] /\ met \subseteq Rows
    /\ faults \in 0..MaxFaults

(* A code is accepted once unless handlers worked on it at the same time,  *)
(* and never more often than there were handlers (VerifyCodeOnce).         *)
UsedOnceAlone ==
    \A i \in Ids :
        /\ i \notin met => granted[i] <= 1
        /\ granted[i] <= Cardinality(Requests)

(* Codes that come one by one are counted, and at most MaxAttempts of them *)
(* are compared with a row.                                                *)
AttemptsCountedAlone ==
    faults = 0 => \A i \in Ids \ met : wrong[i] = attempts[i]

(* The account of an address exists because somebody had a code mailed to  *)
(* it, whatever overlaps and fails (or an administrator made it).          *)
AccountHadCode ==
    \A e \in accounts \ given :
        \E i \in used \cap mailed : email[i] = e /\ purpose[i] = "register"

(* The codes generated for an address in a stretch of time.                *)
Sent(S, t, span) == Cardinality({i \in S : t <= at[i] /\ at[i] < t + span})

(* The limits hold but for the handlers that were in flight together.      *)
LimitsUpToOverlap ==
    \A e \in Emails, t \in 1..now :
        /\ Sent({i \in Rows : email[i] = e}, t, Window) < EmailMax + Cardinality(Requests)
        /\ \A p \in Purposes :
              Sent({i \in Rows : email[i] = e /\ purpose[i] = p}, t, Cooldown)
                  <= Cardinality(Requests)

=============================================================================
