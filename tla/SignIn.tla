------------------------------- MODULE SignIn -------------------------------
(***************************************************************************)
(* The way into an account: a captcha is answered (Captcha), a code is     *)
(* asked for and entered (Codes).  This module composes the two:           *)
(* SendEmailCode in internal/handlers/auth_code.go verifies a captcha      *)
(* first, when captcha_enabled is set, and a captcha that it has consumed  *)
(* pays for one request, whatever becomes of the request.                  *)
(*                                                                         *)
(* The variables of Captcha have the names of their part here: closed and  *)
(* tries are its used and attempts, screen its req, misses its wrong and   *)
(* disputed its met.  Failed statements are counted together.              *)
(***************************************************************************)
EXTENDS Codes

CONSTANTS FailureLimit, MaxCaptchas, MaxTokens, MaxServed   \* as in Captcha

VARIABLES
    lastCaptcha, closed, expired, tries, lastToken, lapsed, screen,
    misses, accepted, disputed, served,
    required,    \* captcha_enabled
    paid,        \* the captcha a handler of SendEmailCode has consumed
    paidBy       \* history: the captcha each code was paid with

Screen == INSTANCE Captcha
            WITH used <- closed, attempts <- tries, req <- screen,
                 wrong <- misses, met <- disputed

ASSUME CaptchaAssumption == Screen!Limits /\ Screen!Bounds

screenVars == <<lastCaptcha, closed, expired, tries, lastToken, lapsed, served, screen,
                misses, accepted, disputed>>
payment    == <<required, paid, paidBy>>
signVars   == <<vars, screenVars, payment>>

Unpaid == 0

SignInit ==
    /\ Init /\ Screen!Init
    /\ required \in BOOLEAN
    /\ paid = [r \in Requests |-> Unpaid]
    /\ paidBy = [i \in Ids |-> Unpaid]

Pay(r, c) == paid' = [paid EXCEPT ![r] = c]

(* A handler does one thing at a time.                                     *)
Free(r) == req[r].pc = "idle" /\ screen[r].pc = "idle" /\ paid[r] = Unpaid

-----------------------------------------------------------------------------
(* Captchas and challenges, for all who ask for them.                      *)
Issue ==
    /\ \/ Screen!GenerateCaptcha \/ Screen!SignChallenge
       \/ \E c \in 1..MaxCaptchas : Screen!Expire(c)
       \/ \E t \in 1..MaxTokens : Screen!Lapse(t)
    /\ UNCHANGED <<now, codes, people, req, seen, payment>>

VerifyCaptcha(r, caller, c, right, t) ==
    /\ Free(r)
    /\ caller = "code" => required
    /\ Screen!ReadCaptcha(r, caller, c, right, t)
    /\ UNCHANGED <<now, codes, people, req, seen, payment>>

SubmitForm(r, t) ==
    /\ Free(r)
    /\ Screen!SubmitForm(r, t)
    /\ UNCHANGED <<now, codes, people, req, seen, payment>>

Judge(r) ==
    /\ \/ Screen!Reject(r) \/ Screen!RejectFails(r) \/ Screen!VerifyChallenge(r)
       \/ screen[r].caller # "code" /\ Screen!Accept(r)
    /\ UNCHANGED <<now, codes, people, req, seen, payment>>

(* A plausible bug: the answer pays although the captcha is not consumed,  *)
(* as in the precheck (/api/auth/verify-captcha).                          *)
PayUnconsumed(r) ==
    /\ screen[r].pc = "accept" /\ screen[r].caller = "code"
    /\ screen' = [screen EXCEPT ![r].pc = "idle"]
    /\ Pay(r, screen[r].id)
    /\ UNCHANGED <<vars, lastCaptcha, closed, expired, tries, lastToken, lapsed, served,
                   misses, accepted, disputed, required, paidBy>>

PayByCaptcha(r) ==
    /\ screen[r].caller = "code"
    /\ Screen!Accept(r)
    /\ Pay(r, screen[r].id)
    /\ UNCHANGED <<now, codes, people, req, seen, required, paidBy>>

-----------------------------------------------------------------------------
(* Codes, once the captcha is out of the way.                              *)
AskForCode(r, e, p) ==
    /\ IF required THEN paid[r] # Unpaid ELSE screen[r].pc = "idle"
    /\ SendEmailCode(r, e, p)
    /\ UNCHANGED <<screenVars, payment>>

(* The request is refused, or answered without a code: the captcha is lost.*)
Refuse(r, e, p) ==
    /\ req[r].pc = "idle" /\ paid[r] # Unpaid
    /\ ~(Possible(e, p) /\ BelowLimits(e, p))
    /\ Pay(r, Unpaid)
    /\ UNCHANGED <<vars, screenVars, required, paidBy>>

MakeCode(r) ==
    /\ CreateVerificationCode(r)
    /\ paidBy' = [paidBy EXCEPT ![lastCode'] = paid[r]]
    /\ Pay(r, Unpaid)
    /\ UNCHANGED <<screenVars, required>>

EnterCode(r, e, p, i, right) ==
    /\ Free(r)
    /\ ReadCodes(r, e, p, i, right)
    /\ UNCHANGED <<screenVars, payment>>

Proceed(r) ==
    /\ \/ LogRequest(r) \/ MailCode(r) \/ CountAttempt(r) \/ UseCode(r)
       \/ LoginByEmailCode(r)
       \/ \E refused, isActive \in BOOLEAN : Register(r, refused, isActive)
    /\ UNCHANGED <<screenVars, payment>>

Meanwhile ==
    /\ Tick \/ \E e \in Emails : EditUser(e)
    /\ UNCHANGED <<screenVars, payment>>

-----------------------------------------------------------------------------
SignNext ==
    \/ Issue \/ Meanwhile
    \/ \E r \in Requests :
          \/ Judge(r) \/ PayByCaptcha(r) \/ MakeCode(r) \/ Proceed(r)
          \/ \E t \in 1..MaxTokens : SubmitForm(r, t)
          \/ \E caller \in Screen!Callers, c \in 1..MaxCaptchas, right \in BOOLEAN,
                t \in 0..MaxTokens :
                VerifyCaptcha(r, caller, c, right, t)
          \/ \E e \in Emails, p \in Purposes :
                \/ AskForCode(r, e, p) \/ Refuse(r, e, p)
                \/ \E i \in Ids, right \in BOOLEAN : EnterCode(r, e, p, i, right)

SignSpec == SignInit /\ [][SignNext]_signVars

-----------------------------------------------------------------------------
(* Types of the variables of both parts; the count of a captcha never      *)
(* passes the limit.                                                       *)
SignTypeOK ==
    /\ TypeOK /\ Screen!TypeOK
    /\ required \in BOOLEAN
    /\ paid \in [Requests -> 0..lastCaptcha] /\ paidBy \in [Ids -> 0..lastCaptcha]
    /\ \A r \in Requests : paid[r] # Unpaid => screen[r].pc = "idle"

(* While captchas are on, each code was paid for with a captcha, and a     *)
(* captcha buys one code (SendEmailCode); it buys more, and never more     *)
(* than there are handlers, when several judged it at once.                *)
CodesPaidFor ==
    required /\ faults = 0 =>
        /\ \A i \in Rows : paidBy[i] # Unpaid
        /\ \A c \in 1..MaxCaptchas :
              LET bought == {i \in Rows : paidBy[i] = c}
              IN  /\ c \notin disputed => Cardinality(bought) <= 1
                  /\ Cardinality(bought) <= Cardinality(Requests)

(* A captcha lets one answer through, whether for a code or for a          *)
(* submission; more only when handlers worked on it at once, and then no   *)
(* more than there were handlers, for a read that comes after the first    *)
(* consumption finds it used (VerifyCaptchaWithConsume).                   *)
AcceptedOnceAlone == Screen!AcceptedOnceAlone

(* Two handlers at once lose counts: one that has read the row can write   *)
(* its old count over the other's, once for every value below the limit    *)
(* (incrAttempt).  The number of wrong answers judged stays bounded.       *)
FailuresOfTwoBounded == Screen!FailuresOfTwoBounded
=============================================================================
