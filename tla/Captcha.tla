------------------------------ MODULE Captcha ------------------------------
(***************************************************************************)
(* Picture captchas and signed form challenges: their creation, the check  *)
(* of an answer, the limit on wrong answers, and what the callers do with  *)
(* the verdict (internal/services/captcha.go, internal/handlers/captcha.go,*)
(* internal/utils/challenge.go, SendEmailCode and SubmitForm).             *)
(*                                                                         *)
(* The row of a captcha is read by one statement and written by another;   *)
(* requests that answer the same captcha interleave between the two.  An   *)
(* answer from another address is refused without a trace and left out.    *)
(***************************************************************************)
EXTENDS Naturals, FiniteSets

CONSTANTS
    Requests,      \* handlers in flight at the same time
    FailureLimit,  \* captcha_failure_limit
    MaxCaptchas,   \* bound on the captchas generated
    MaxTokens,     \* bound on the challenges signed
    MaxServed,     \* bound on the submissions served with challenges
    MaxFaults      \* bound on the statements that fail

(* What the constants are assumed to be, wherever this module is used.     *)
Limits == FailureLimit \in Nat \ {0}
Bounds == MaxCaptchas \in Nat /\ MaxTokens \in Nat /\ MaxServed \in Nat /\ MaxFaults \in Nat

Captchas == 1..MaxCaptchas
Tokens   == 1..MaxTokens
NoToken  == 0

VARIABLES
    lastCaptcha,   \* the rows of captcha_challenges: 1..lastCaptcha
    used, expired, \* those with used = 1, and those past expires_at
    attempts,      \* captcha_challenges.attempts
    lastToken,     \* the challenges signed, which nothing stores
    lapsed,        \* those past their 15 minutes
    req,           \* the locals of each handler
    wrong,         \* history: wrong answers judged, per captcha
    accepted,      \* history: answers that let a caller go on, per captcha
    met,           \* history: captchas two handlers worked on at once
    served,        \* history: submissions served, per challenge
    faults

rows  == <<lastCaptcha, used, expired, attempts>>
signs == <<lastToken, lapsed, served>>
seen  == <<wrong, accepted, met>>
vars  == <<rows, signs, req, seen, faults>>

Callers == {"precheck", "code", "form"}

Idle == [pc |-> "idle", caller |-> "precheck", id |-> 0, token |-> NoToken, snap |-> 0]

Init ==
    /\ lastCaptcha = 0 /\ used = {} /\ expired = {}
    /\ attempts = [c \in Captchas |-> 0]
    /\ lastToken = 0 /\ lapsed = {} /\ served = [t \in Tokens |-> 0]
    /\ req = [r \in Requests |-> Idle]
    /\ wrong = [c \in Captchas |-> 0] /\ accepted = [c \in Captchas |-> 0] /\ met = {}
    /\ faults = 0

Return(r) == req' = [req EXCEPT ![r] = Idle]
Judging(r, c) == req[r].pc \in {"reject", "accept"} /\ req[r].id = c

(* Plausible bugs, each of which one of the properties below excludes: an  *)
(* attempt that is not counted, a captcha that is not consumed.            *)
UncountedReject(r) ==
    /\ req[r].pc = "reject"
    /\ wrong' = [wrong EXCEPT ![req[r].id] = @ + 1]
    /\ Return(r)
    /\ UNCHANGED <<rows, signs, accepted, met, faults>>
UnconsumedAccept(r) ==
    /\ req[r].pc = "accept"
    /\ accepted' = [accepted EXCEPT ![req[r].id] = @ + 1]
    /\ req' = [req EXCEPT ![r].pc = IF req[r].caller = "form" THEN "challenge" ELSE "idle"]
    /\ UNCHANGED <<rows, signs, wrong, met, faults>>

-----------------------------------------------------------------------------
(* GenerateCaptcha, called by GetCaptcha and GetFormCaptcha.               *)
GenerateCaptcha ==
    /\ lastCaptcha < MaxCaptchas
    /\ lastCaptcha' = lastCaptcha + 1
    /\ UNCHANGED <<used, expired, attempts, signs, req, seen, faults>>

(* SignChallenge, called by GetFormCaptcha for a form that requires it.    *)
SignChallenge ==
    /\ lastToken < MaxTokens
    /\ lastToken' = lastToken + 1
    /\ UNCHANGED <<rows, lapsed, served, req, seen, faults>>

Expire(c) ==
    /\ c \in (1..lastCaptcha) \ expired
    /\ expired' = expired \cup {c}
    /\ UNCHANGED <<lastCaptcha, used, attempts, signs, req, seen, faults>>

Lapse(t) ==
    /\ t \in (1..lastToken) \ lapsed
    /\ lapsed' = lapsed \cup {t}
    /\ UNCHANGED <<rows, lastToken, served, req, seen, faults>>

(* VerifyCaptchaWithConsume: the SELECT, and the comparison of the answer. *)
(* The scene of the captcha is read and not compared.  A right answer of   *)
(* the precheck (/api/auth/verify-captcha) changes nothing.                *)
ReadCaptcha(r, caller, c, right, t) ==
    /\ req[r].pc = "idle"
    /\ c \in 1..lastCaptcha /\ c \notin used \cup expired
    /\ t \in 0..lastToken /\ (caller # "form" => t = NoToken)
    /\ right => caller # "precheck"
    /\ req' = [req EXCEPT ![r] = [pc |-> IF right THEN "accept" ELSE "reject",
                                  caller |-> caller, id |-> c, token |-> t,
                                  snap |-> attempts[c]]]
    /\ met' = IF \E s \in Requests : Judging(s, c) THEN met \cup {c} ELSE met
    /\ UNCHANGED <<rows, signs, wrong, accepted, faults>>

(* incrAttempt: the count that was read, plus one, is written back.        *)
Closes(n) == n >= FailureLimit

Reject(r) ==
    LET c == req[r].id
        n == req[r].snap + 1
    IN  /\ req[r].pc = "reject"
        /\ attempts' = [attempts EXCEPT ![c] = n]
        /\ used' = IF Closes(n) THEN used \cup {c} ELSE used
        /\ wrong' = [wrong EXCEPT ![c] = @ + 1]
        /\ Return(r)
        /\ UNCHANGED <<lastCaptcha, expired, signs, accepted, met, faults>>

(* Its UPDATE fails: the caller answers 500 or 400.                        *)
RejectFails(r) ==
    /\ req[r].pc = "reject"
    /\ faults < MaxFaults
    /\ faults' = faults + 1
    /\ wrong' = [wrong EXCEPT ![req[r].id] = @ + 1]
    /\ Return(r)
    /\ UNCHANGED <<rows, signs, accepted, met>>

(* A right answer consumes the captcha; the error of this UPDATE is        *)
(* dropped.  SubmitForm goes on to the challenge.                          *)
Accept(r) ==
    LET c == req[r].id IN
    /\ req[r].pc = "accept"
    /\ \/ used' = used \cup {c} /\ UNCHANGED faults
       \/ faults < MaxFaults /\ faults' = faults + 1 /\ UNCHANGED used
    /\ accepted' = [accepted EXCEPT ![c] = @ + 1]
    /\ IF req[r].caller = "form" THEN req' = [req EXCEPT ![r].pc = "challenge"] ELSE Return(r)
    /\ UNCHANGED <<lastCaptcha, expired, attempts, signs, wrong, met>>

(* SubmitForm to a form that requires a challenge and no captcha.          *)
SubmitForm(r, t) ==
    /\ req[r].pc = "idle"
    /\ t \in 1..lastToken
    /\ req' = [req EXCEPT ![r] = [Idle EXCEPT !.pc = "challenge", !.caller = "form",
                                              !.token = t]]
    /\ UNCHANGED <<rows, signs, seen, faults>>

(* VerifyChallenge: the signature, the form, the address and the time; the *)
(* token is not noted anywhere.  A lapsed one refuses the submission.      *)
VerifyChallenge(r) ==
    LET t == req[r].token IN
    /\ req[r].pc = "challenge"
    /\ IF t \in (1..lastToken) \ lapsed
       THEN served[t] < MaxServed /\ served' = [served EXCEPT ![t] = @ + 1]
       ELSE UNCHANGED served
    /\ Return(r)
    /\ UNCHANGED <<rows, lastToken, lapsed, seen, faults>>

-----------------------------------------------------------------------------
Next ==
    \/ GenerateCaptcha \/ SignChallenge
    \/ \E c \in Captchas : Expire(c)
    \/ \E t \in Tokens : Lapse(t) \/ \E r \in Requests : SubmitForm(r, t)
    \/ \E r \in Requests :
          \/ \E caller \in Callers, c \in Captchas, right \in BOOLEAN, t \in 0..MaxTokens :
                ReadCaptcha(r, caller, c, right, t)
          \/ Reject(r) \/ RejectFails(r) \/ Accept(r) \/ VerifyChallenge(r)

Spec == Init /\ [][Next]_vars

-----------------------------------------------------------------------------
RequestType ==
    [pc : {"idle", "reject", "accept", "challenge"}, caller : Callers,
     id : Captchas \cup {0}, token : Tokens \cup {NoToken}, snap : Nat]

(* Types of the variables; the count of a captcha never passes the limit.  *)
TypeOK ==
    /\ lastCaptcha \in 0..MaxCaptchas /\ lastToken \in 0..MaxTokens
    /\ used \subseteq 1..lastCaptcha /\ expired \subseteq 1..lastCaptcha
    /\ lapsed \subseteq 1..lastToken
    /\ attempts \in [Captchas -> 0..FailureLimit]
    /\ req \in [Requests -> RequestType]
    /\ \A r \in Requests : req[r].pc \in {"reject", "accept"} =>
                              req[r].id \in 1..lastCaptcha /\ req[r].snap < FailureLimit
    /\ wrong \in [Captchas -> Nat] /\ accepted \in [Captchas -> Nat]
    /\ met \subseteq 1..lastCaptcha
    /\ served \in [Tokens -> 0..MaxServed]
    /\ faults \in 0..MaxFaults

(* A captcha lets one answer through; more than one only when the handlers *)
(* worked on it at once, and then no more than there were handlers, for a  *)
(* read that comes after the first consumption finds it used.              *)
AcceptedOnceAlone ==
    faults = 0 =>
        \A c \in Captchas :
            /\ c \notin met => accepted[c] <= 1
            /\ accepted[c] <= Cardinality(Requests)

(* Two handlers at once lose counts: one that has read the row can write   *)
(* its old count over the other's, once for every value below the limit.   *)
(* The number of wrong answers judged stays below this bound.              *)
FailuresOfTwoBounded ==
    faults = 0 /\ Cardinality(Requests) = 2 =>
        \A c \in Captchas :
            2 * wrong[c] <= FailureLimit * (FailureLimit + 1) + 2

=============================================================================
