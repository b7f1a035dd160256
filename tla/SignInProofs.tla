----------------------------- MODULE SignInProofs -----------------------------
(***************************************************************************)
(* Theorems about SignIn, and through it about Codes and Captcha, for      *)
(* every number of handlers that overlap, of codes, captchas and addresses *)
(* and every choice of the limits and spans.                               *)
(***************************************************************************)
EXTENDS SignIn, FiniteSetTheorems, TLAPS

USE LimitsAssumption, BoundsAssumption, PeopleAssumption DEF Ids, Never

-----------------------------------------------------------------------------
(* A step of the whole is a step of the codes, or one of the captchas; the *)
(* two only share the count of the failed statements.                      *)
CodesQuiet == UNCHANGED <<now, codes, people, req, seen>>
FaultsGrow == faults' = faults \/ (faults < MaxFaults /\ faults' = faults + 1)

CodesAction ==
  \/ Tick \/ \E e \in Emails : EditUser(e)
  \/ \E r \in Requests :
        \/ CreateVerificationCode(r) \/ LogRequest(r) \/ MailCode(r) \/ CountAttempt(r)
        \/ UseCode(r) \/ LoginByEmailCode(r)
        \/ \E x, y \in BOOLEAN : Register(r, x, y)
        \/ \E e \in Emails, p \in Purposes :
              \/ SendEmailCode(r, e, p)
              \/ \E i \in Ids, right \in BOOLEAN : ReadCodes(r, e, p, i, right)

LEMMA CodesSplit ==
  ASSUME [SignNext]_signVars
  PROVE  FaultsGrow /\ (CodesQuiet \/ CodesAction)
<1>1. CASE Issue
  BY <1>1 DEF Issue, CodesQuiet, FaultsGrow, Screen!GenerateCaptcha, Screen!SignChallenge,
              Screen!Expire, Screen!Lapse
<1>2. ASSUME Tick \/ \E e \in Emails : EditUser(e) PROVE FaultsGrow /\ CodesAction
  BY <1>2 DEF Tick, EditUser, FaultsGrow, CodesAction
<1>3. ASSUME NEW r \in Requests, Judge(r) \/ PayByCaptcha(r) PROVE FaultsGrow /\ CodesQuiet
  BY <1>3 DEF Judge, PayByCaptcha, Screen!Reject, Screen!RejectFails, Screen!VerifyChallenge,
              Screen!Accept, CodesQuiet, FaultsGrow
<1>4. ASSUME NEW r \in Requests, CreateVerificationCode(r) PROVE FaultsGrow /\ CodesAction
  BY <1>4 DEF CreateVerificationCode, FaultsGrow, CodesAction
<1>5. ASSUME NEW r \in Requests, Proceed(r) PROVE FaultsGrow /\ CodesAction
  <2>1. CodesAction
    BY <1>5 DEF Proceed, CodesAction
  <2>2. FaultsGrow
    BY <1>5 DEF Proceed, FaultsGrow, Faulty, LogRequest, MailCode, CountAttempt, UseCode,
                LoginByEmailCode, Register
  <2> QED
    BY <2>1, <2>2
<1>6. ASSUME NEW r \in Requests, NEW t, SubmitForm(r, t) PROVE FaultsGrow /\ CodesQuiet
  BY <1>6 DEF SubmitForm, Screen!SubmitForm, CodesQuiet, FaultsGrow
<1>7. ASSUME NEW r \in Requests, NEW caller, NEW c, NEW right, NEW t,
             VerifyCaptcha(r, caller, c, right, t)
      PROVE  FaultsGrow /\ CodesQuiet
  BY <1>7 DEF VerifyCaptcha, Screen!ReadCaptcha, CodesQuiet, FaultsGrow
<1>8. ASSUME NEW r \in Requests, NEW e \in Emails, NEW p \in Purposes, SendEmailCode(r, e, p)
      PROVE  FaultsGrow /\ CodesAction
  BY <1>8 DEF SendEmailCode, FaultsGrow, CodesAction
<1>9. ASSUME NEW r, NEW e, NEW p, Refuse(r, e, p) PROVE FaultsGrow /\ CodesQuiet
  BY <1>9 DEF Refuse, vars, CodesQuiet, FaultsGrow
<1>10. ASSUME NEW r \in Requests, NEW e \in Emails, NEW p \in Purposes, NEW i \in Ids,
              NEW right \in BOOLEAN, ReadCodes(r, e, p, i, right)
       PROVE  FaultsGrow /\ CodesAction
  BY <1>10 DEF ReadCodes, FaultsGrow, CodesAction
<1>11. CASE UNCHANGED signVars
  BY <1>11 DEF signVars, vars, CodesQuiet, FaultsGrow
<1> QED
  BY <1>1, <1>2, <1>3, <1>4, <1>5, <1>6, <1>7, <1>8, <1>9, <1>10, <1>11
     DEF SignNext, Meanwhile, MakeCode, AskForCode, EnterCode

-----------------------------------------------------------------------------
(* The locals of the handlers of codes.                                    *)
LEMMA IdleFields ==
  /\ Idle \in RequestType /\ Idle.pc = "idle" /\ Idle.id = 0 /\ Idle.snap = 0
  /\ Idle.purpose = "login" /\ Idle.email \in Emails
<1>1. (CHOOSE e \in Emails : TRUE) \in Emails
  OBVIOUS
<1>2. 0 \in 0..MaxCodes /\ 0 \in Nat
  OBVIOUS
<1> QED
  BY <1>1, <1>2 DEF Idle, RequestType, Purposes

ReqIs(r, pc, e, p, id, snap) ==
  /\ req' \in [Requests -> RequestType]
  /\ req'[r].pc = pc /\ req'[r].email = e /\ req'[r].purpose = p
  /\ req'[r].id = id /\ req'[r].snap = snap
  /\ \A s \in Requests : s # r => req'[s] = req[s]

LEMMA ReqSet ==
  ASSUME req \in [Requests -> RequestType], NEW r \in Requests, NEW q \in RequestType,
         req' = [req EXCEPT ![r] = q]
  PROVE  ReqIs(r, q.pc, q.email, q.purpose, q.id, q.snap)
  BY DEF ReqIs

LEMMA ReqFields ==
  ASSUME req \in [Requests -> RequestType], NEW r \in Requests
  PROVE  /\ req[r] \in RequestType /\ req[r].email \in Emails /\ req[r].purpose \in Purposes
         /\ req[r].id \in 0..MaxCodes /\ req[r].snap \in Nat
         /\ req[r].pc \in {"idle", "insert", "log", "mail", "use", "count"} \cup Purposes
<1>1. req[r] \in RequestType
  OBVIOUS
<1> QED
  BY <1>1 DEF RequestType

LEMMA ReturnIs ==
  ASSUME req \in [Requests -> RequestType], NEW r \in Requests, Return(r)
  PROVE  /\ req' \in [Requests -> RequestType] /\ req'[r] = Idle /\ req'[r].pc = "idle"
         /\ \A s \in Requests : s # r => req'[s] = req[s]
  BY IdleFields DEF Return

LEMMA GotoIs ==
  ASSUME req \in [Requests -> RequestType], NEW r \in Requests,
         NEW pc \in {"mail"} \cup Purposes, Goto(r, pc)
  PROVE  ReqIs(r, pc, req[r].email, req[r].purpose, req[r].id, req[r].snap)
<1> DEFINE q == [req[r] EXCEPT !.pc = pc]
<1>1. /\ q \in RequestType /\ q.pc = pc /\ q.email = req[r].email
      /\ q.purpose = req[r].purpose /\ q.id = req[r].id /\ q.snap = req[r].snap
  BY ReqFields DEF RequestType
<1>2. req' = [req EXCEPT ![r] = q]
  BY DEF Goto
<1> HIDE DEF q
<1>3. ReqIs(r, q.pc, q.email, q.purpose, q.id, q.snap)
  BY <1>1, <1>2, ReqSet
<1> QED
  BY <1>1, <1>3

LEMMA AskIs ==
  ASSUME req \in [Requests -> RequestType], NEW r \in Requests, NEW e \in Emails,
         NEW p \in Purposes, SendEmailCode(r, e, p)
  PROVE  ReqIs(r, "insert", e, p, 0, 0)
<1> DEFINE q == [Idle EXCEPT !.pc = "insert", !.email = e, !.purpose = p]
<1>1. q \in RequestType /\ q.pc = "insert" /\ q.email = e /\ q.purpose = p /\ q.id = 0 /\ q.snap = 0
  BY IdleFields DEF RequestType
<1>2. req' = [req EXCEPT ![r] = q]
  BY DEF SendEmailCode
<1> HIDE DEF q
<1>3. ReqIs(r, q.pc, q.email, q.purpose, q.id, q.snap)
  BY <1>1, <1>2, ReqSet
<1> QED
  BY <1>1, <1>3

LEMMA MakeIs ==
  ASSUME req \in [Requests -> RequestType], NEW r \in Requests, lastCode \in 0..MaxCodes,
         CreateVerificationCode(r)
  PROVE  ReqIs(r, "log", req[r].email, req[r].purpose, lastCode + 1, req[r].snap)
<1> DEFINE q == [req[r] EXCEPT !.pc = "log", !.id = lastCode + 1]
<1>0. lastCode + 1 \in 0..MaxCodes
  BY DEF CreateVerificationCode
<1>1. /\ q \in RequestType /\ q.pc = "log" /\ q.email = req[r].email
      /\ q.purpose = req[r].purpose /\ q.id = lastCode + 1 /\ q.snap = req[r].snap
  BY <1>0, ReqFields DEF RequestType
<1>2. req' = [req EXCEPT ![r] = q]
  BY DEF CreateVerificationCode
<1> HIDE DEF q
<1>3. ReqIs(r, q.pc, q.email, q.purpose, q.id, q.snap)
  BY <1>1, <1>2, ReqSet
<1> QED
  BY <1>1, <1>3

LEMMA ReadIs ==
  ASSUME req \in [Requests -> RequestType], NEW r \in Requests, NEW e \in Emails,
         NEW p \in Purposes, NEW i \in Ids, NEW right \in BOOLEAN, ReadCodes(r, e, p, i, right),
         attempts[i] \in Nat
  PROVE  ReqIs(r, IF right THEN "use" ELSE "count", e, p, i, attempts[i])
<1> DEFINE q == [pc |-> IF right THEN "use" ELSE "count", email |-> e, purpose |-> p,
                 id |-> i, snap |-> attempts[i]]
<1>1. /\ q \in RequestType /\ q.pc = (IF right THEN "use" ELSE "count") /\ q.email = e
      /\ q.purpose = p /\ q.id = i /\ q.snap = attempts[i]
  BY DEF RequestType
<1>2. req' = [req EXCEPT ![r] = q]
  BY DEF ReadCodes
<1> HIDE DEF q
<1>3. ReqIs(r, q.pc, q.email, q.purpose, q.id, q.snap)
  BY <1>1, <1>2, ReqSet
<1> QED
  BY <1>1, <1>3

-----------------------------------------------------------------------------
(* Types, with what each place of a handler says about the row it is at,   *)
(* and the rows about the clock.                                           *)
AtRow == {"log", "mail", "use", "count"} \cup Purposes

HandlersOK ==
  \A r \in Requests :
     /\ req[r].pc \in AtRow => req[r].id \in Rows
     /\ req[r].pc = "count" => req[r].snap < MaxAttempts

CodesOK == TypeOK /\ HandlersOK /\ \A i \in Rows : at[i] \in 1..now

LEMMA HandlersStep ==
  ASSUME HandlersOK, NEW r \in Requests, lastCode \in Nat, lastCode' \in Nat, lastCode <= lastCode',
         \A s \in Requests : s # r => req'[s] = req[s],
         req'[r].pc \in AtRow => req'[r].id \in Rows',
         req'[r].pc = "count" => req'[r].snap < MaxAttempts
  PROVE  HandlersOK'
<1>1. \A i : i \in Rows => i \in Rows'
  BY DEF Rows
<1> QED
  BY <1>1 DEF HandlersOK

LEMMA CodesOKInit == SignInit => CodesOK
<1> SUFFICES ASSUME SignInit PROVE CodesOK
  OBVIOUS
<1>1. \A r \in Requests : req[r] = Idle /\ req[r].pc = "idle"
  BY IdleFields DEF SignInit, Init
<1>2. req \in [Requests -> RequestType]
  BY IdleFields DEF SignInit, Init
<1>3. HandlersOK
  BY <1>1 DEF HandlersOK, AtRow, Purposes
<1>4. /\ now = 1 /\ lastCode = 0 /\ Rows = {} /\ used = {} /\ mailed = {} /\ met = {}
      /\ faults = 0
  BY DEF SignInit, Init, Rows
<1>5. email \in [Ids -> Emails] /\ purpose \in [Ids -> Purposes]
  BY IdleFields DEF SignInit, Init, Purposes
<1>6. /\ at \in [Ids -> 0..MaxTime] /\ logAt \in [Ids -> 0..MaxTime]
      /\ attempts \in [Ids -> 0..MaxAttempts]
      /\ granted \in [Ids -> Nat] /\ wrong \in [Ids -> Nat]
  BY DEF SignInit, Init
<1>7. active \subseteq accounts /\ accounts \subseteq Emails /\ given \subseteq accounts
  BY DEF SignInit, Init
<1>9. 1 \in 1..MaxTime /\ 0 \in 0..MaxCodes /\ 0 \in 0..MaxFaults
  OBVIOUS
<1>8. TypeOK
  BY <1>2, <1>4, <1>5, <1>6, <1>7, <1>9 DEF TypeOK
<1> QED
  BY <1>3, <1>4, <1>8 DEF CodesOK

LEMMA CodesOKStep == CodesOK /\ [SignNext]_signVars => CodesOK'
<1> SUFFICES ASSUME CodesOK, [SignNext]_signVars PROVE CodesOK'
  OBVIOUS
<1>0. /\ TypeOK /\ HandlersOK /\ req \in [Requests -> RequestType] /\ lastCode \in 0..MaxCodes
      /\ \A i \in Rows : at[i] \in 1..now
      /\ now \in 1..MaxTime
  BY DEF CodesOK, TypeOK
<1>f. FaultsGrow /\ faults' \in 0..MaxFaults
  BY <1>0, CodesSplit DEF TypeOK, FaultsGrow
<1>r. ASSUME NEW r \in Requests, req'[r].pc = "idle",
             \A s \in Requests : s # r => req'[s] = req[s], UNCHANGED lastCode
      PROVE  HandlersOK'
  BY <1>0, <1>r, HandlersStep DEF AtRow, Purposes
<1>1. CASE CodesQuiet
  BY <1>0, <1>1, <1>f DEF CodesQuiet, codes, people, seen, CodesOK, TypeOK, HandlersOK, Rows
<1>2. CASE Tick
  <2>1. now' \in 1..MaxTime /\ now <= now'
    BY <1>0, <1>2 DEF Tick
  <2>2. UNCHANGED <<codes, people, req, seen>> /\ Rows' = Rows
    BY <1>2 DEF Tick, codes, Rows
  <2>3. \A i \in Rows' : at'[i] \in 1..now'
    BY <1>0, <2>1, <2>2 DEF codes
  <2>4. HandlersOK'
    BY <1>0, <2>2 DEF HandlersOK
  <2> QED
    BY <1>0, <1>f, <2>1, <2>2, <2>3, <2>4 DEF codes, people, seen, CodesOK, TypeOK
<1>3. ASSUME NEW e \in Emails, EditUser(e) PROVE CodesOK'
  <2>1. active' \subseteq accounts' /\ accounts' \subseteq Emails /\ given' \subseteq accounts'
    BY <1>0, <1>3 DEF EditUser, TypeOK
  <2> QED
    BY <1>0, <1>3, <1>f, <2>1 DEF EditUser, codes, seen, CodesOK, TypeOK, HandlersOK, Rows
<1>4. ASSUME NEW r \in Requests, CreateVerificationCode(r) PROVE CodesOK'
  <2> DEFINE i == lastCode + 1
  <2>1. /\ i \in Ids /\ lastCode' = i /\ i \in 0..MaxCodes /\ Rows' = Rows \cup {i} /\ i \notin Rows
        /\ Rows \subseteq Ids
    BY <1>0, <1>4 DEF CreateVerificationCode, Rows
  <2>2. ReqIs(r, "log", req[r].email, req[r].purpose, i, req[r].snap)
    BY <1>0, <1>4, MakeIs
  <2>3. HandlersOK'
    BY <1>0, <2>1, <2>2, HandlersStep DEF ReqIs, Rows, Purposes, AtRow
  <2>4. /\ email' = [email EXCEPT ![i] = req[r].email]
        /\ purpose' = [purpose EXCEPT ![i] = req[r].purpose]
        /\ at' = [at EXCEPT ![i] = now]
        /\ UNCHANGED <<now, attempts, used, logAt, mailed, people, seen, faults>>
    BY <1>4 DEF CreateVerificationCode
  <2>5. req[r].email \in Emails /\ req[r].purpose \in Purposes
    BY <1>0, ReqFields
  <2> HIDE DEF i
  <2>6. email' \in [Ids -> Emails] /\ purpose' \in [Ids -> Purposes]
    BY <1>0, <2>4, <2>5 DEF TypeOK
  <2>7. at' \in [Ids -> 0..MaxTime] /\ \A j \in Rows' : at'[j] \in 1..now
    BY <1>0, <2>1, <2>4 DEF TypeOK
  <2>8. used' \subseteq Rows' /\ mailed' \subseteq Rows' /\ met' \subseteq Rows'
    BY <1>0, <2>1, <2>4 DEF seen, TypeOK
  <2> QED
    BY <1>0, <2>1, <2>2, <2>3, <2>4, <2>6, <2>7, <2>8 DEF ReqIs, CodesOK, TypeOK, people, seen
<1>5. ASSUME NEW r \in Requests, LogRequest(r) PROVE CodesOK'
  <2>1. ReqIs(r, "mail", req[r].email, req[r].purpose, req[r].id, req[r].snap)
    BY <1>0, <1>5, GotoIs DEF LogRequest
  <2>2. UNCHANGED <<now, lastCode, email, purpose, at, attempts, used, mailed, people, seen>>
    BY <1>5 DEF LogRequest
  <2>3. req[r].id \in Rows /\ Rows \subseteq Ids /\ Rows' = Rows
    BY <1>0, <1>5, <2>2 DEF LogRequest, HandlersOK, AtRow, Rows
  <2>4. HandlersOK'
    BY <1>0, <2>1, <2>2, <2>3, HandlersStep DEF ReqIs
  <2>5. logAt' \in [Ids -> 0..MaxTime]
    <3>1. logAt' = [logAt EXCEPT ![req[r].id] = now] \/ logAt' = logAt
      BY <1>5 DEF LogRequest
    <3>2. now \in 0..MaxTime /\ logAt \in [Ids -> 0..MaxTime]
      BY <1>0 DEF TypeOK
    <3> QED
      BY <2>3, <3>1, <3>2
  <2> QED
    BY <1>0, <1>f, <2>1, <2>2, <2>3, <2>4, <2>5 DEF ReqIs, CodesOK, TypeOK, people, seen
<1>6. ASSUME NEW r \in Requests, MailCode(r) PROVE CodesOK'
  <2>1. req' \in [Requests -> RequestType] /\ req'[r].pc = "idle"
        /\ \A s \in Requests : s # r => req'[s] = req[s]
    BY <1>0, <1>6, ReturnIs DEF MailCode
  <2>2. UNCHANGED <<now, lastCode, email, purpose, at, attempts, used, logAt, people, seen>>
    BY <1>6 DEF MailCode
  <2>3. req[r].id \in Rows /\ Rows' = Rows
    BY <1>0, <1>6, <2>2 DEF MailCode, HandlersOK, AtRow, Rows
  <2>4. HandlersOK'
    BY <1>r, <2>1, <2>2
  <2>5. mailed' \subseteq Rows'
    BY <1>0, <1>6, <2>3 DEF MailCode, TypeOK
  <2> QED
    BY <1>0, <1>f, <2>1, <2>2, <2>3, <2>4, <2>5 DEF CodesOK, TypeOK, people, seen
<1>7. ASSUME NEW r \in Requests, CountAttempt(r) PROVE CodesOK'
  <2>1. req' \in [Requests -> RequestType] /\ req'[r].pc = "idle"
        /\ \A s \in Requests : s # r => req'[s] = req[s]
    BY <1>0, <1>7, ReturnIs DEF CountAttempt
  <2>2. /\ UNCHANGED <<now, lastCode, email, purpose, at, used, logAt, mailed, people, granted, met>>
        /\ wrong' = [wrong EXCEPT ![req[r].id] = @ + 1]
        /\ \/ attempts' = [attempts EXCEPT ![req[r].id] = req[r].snap + 1]
           \/ UNCHANGED attempts
    BY <1>7 DEF CountAttempt
  <2>3. req[r].id \in Ids /\ req[r].snap + 1 \in 0..MaxAttempts /\ Rows' = Rows
    BY <1>0, <1>7, <2>2, ReqFields DEF CountAttempt, HandlersOK, AtRow, Rows
  <2>4. HandlersOK'
    BY <1>r, <2>1, <2>2
  <2>5. wrong' \in [Ids -> Nat] /\ attempts' \in [Ids -> 0..MaxAttempts]
    <3>0. wrong \in [Ids -> Nat] /\ attempts \in [Ids -> 0..MaxAttempts]
      BY <1>0 DEF TypeOK
    <3>1. wrong[req[r].id] \in Nat /\ wrong[req[r].id] + 1 \in Nat
      BY <2>3, <3>0
    <3>2. wrong' = [wrong EXCEPT ![req[r].id] = wrong[req[r].id] + 1]
      BY <2>2
    <3> QED
      BY <2>2, <2>3, <3>0, <3>1, <3>2
  <2> QED
    BY <1>0, <1>f, <2>1, <2>2, <2>3, <2>4, <2>5 DEF CodesOK, TypeOK, people
<1>8. ASSUME NEW r \in Requests, UseCode(r) PROVE CodesOK'
  <2>1. /\ UNCHANGED <<now, lastCode, email, purpose, at, attempts, logAt, mailed, people,
                       wrong, met>>
        /\ \/ /\ used' = used \cup {req[r].id} /\ Goto(r, req[r].purpose)
              /\ granted' = [granted EXCEPT ![req[r].id] = @ + 1]
           \/ Return(r) /\ UNCHANGED <<used, granted>>
    BY <1>8 DEF UseCode
  <2>2. req[r].id \in Rows /\ req[r].id \in Ids /\ req[r].purpose \in Purposes /\ Rows' = Rows
    BY <1>0, <1>8, <2>1, ReqFields DEF UseCode, HandlersOK, AtRow, Rows
  <2>3. used' \subseteq Rows' /\ granted' \in [Ids -> Nat]
    <3>0. granted \in [Ids -> Nat] /\ used \subseteq Rows
      BY <1>0 DEF TypeOK
    <3>1. granted[req[r].id] \in Nat /\ granted[req[r].id] + 1 \in Nat
      BY <2>2, <3>0
    <3>2. \/ granted' = [granted EXCEPT ![req[r].id] = granted[req[r].id] + 1]
          \/ granted' = granted
      BY <2>1
    <3> QED
      BY <2>1, <2>2, <3>0, <3>1, <3>2
  <2>4. CASE Goto(r, req[r].purpose)
    <3>1. ReqIs(r, req[r].purpose, req[r].email, req[r].purpose, req[r].id, req[r].snap)
      BY <1>0, <2>2, <2>4, GotoIs
    <3>2. HandlersOK'
      BY <1>0, <2>1, <2>2, <3>1, HandlersStep DEF ReqIs, Purposes
    <3> QED
      BY <1>0, <1>f, <2>1, <2>2, <2>3, <3>1, <3>2 DEF ReqIs, CodesOK, TypeOK, people
  <2>5. CASE Return(r)
    <3>1. req' \in [Requests -> RequestType] /\ req'[r].pc = "idle"
          /\ \A s \in Requests : s # r => req'[s] = req[s]
      BY <1>0, <2>5, ReturnIs
    <3>2. HandlersOK'
      BY <1>r, <2>1, <3>1
    <3> QED
      BY <1>0, <1>f, <2>1, <2>2, <2>3, <3>1, <3>2 DEF CodesOK, TypeOK, people
  <2> QED
    BY <2>1, <2>4, <2>5
<1>9. ASSUME NEW r \in Requests, LoginByEmailCode(r) \/ \E x, y \in BOOLEAN : Register(r, x, y)
      PROVE  CodesOK'
  <2>1. Return(r) /\ UNCHANGED <<now, codes, given, seen>>
    BY <1>9 DEF LoginByEmailCode, Register, people
  <2>2. req' \in [Requests -> RequestType] /\ req'[r].pc = "idle"
        /\ \A s \in Requests : s # r => req'[s] = req[s]
    BY <1>0, <2>1, ReturnIs
  <2>3. active' \subseteq accounts' /\ accounts' \subseteq Emails /\ given' \subseteq accounts'
    <3>1. req[r].email \in Emails
      BY <1>0, ReqFields
    <3> QED
      BY <1>0, <1>9, <3>1 DEF LoginByEmailCode, Register, people, TypeOK
  <2>4. HandlersOK'
    BY <1>r, <2>1, <2>2 DEF codes
  <2> QED
    BY <1>0, <1>f, <2>1, <2>2, <2>3, <2>4 DEF CodesOK, TypeOK, codes, seen, Rows
<1>10. ASSUME NEW r \in Requests, NEW e \in Emails, NEW p \in Purposes, SendEmailCode(r, e, p)
       PROVE  CodesOK'
  <2>1. ReqIs(r, "insert", e, p, 0, 0) /\ UNCHANGED <<now, codes, people, seen, faults>>
    BY <1>0, <1>10, AskIs DEF SendEmailCode
  <2>2. HandlersOK'
    BY <1>0, <2>1, HandlersStep DEF ReqIs, codes, AtRow, Purposes
  <2> QED
    BY <1>0, <2>1, <2>2 DEF ReqIs, CodesOK, TypeOK, codes, people, seen, Rows
<1>11. ASSUME NEW r \in Requests, NEW e \in Emails, NEW p \in Purposes, NEW i \in Ids,
              NEW right \in BOOLEAN, ReadCodes(r, e, p, i, right)
       PROVE  CodesOK'
  <2>1. i \in Rows /\ attempts[i] \in Nat /\ attempts[i] < MaxAttempts
    BY <1>0, <1>11 DEF ReadCodes, Eligible, Newest, TypeOK
  <2>2. ReqIs(r, IF right THEN "use" ELSE "count", e, p, i, attempts[i])
    BY <1>0, <1>11, <2>1, ReadIs
  <2>3. /\ UNCHANGED <<now, codes, people, granted, wrong, faults>>
        /\ met' = met \/ met' = met \cup {i}
    BY <1>11 DEF ReadCodes
  <2>4. HandlersOK'
    BY <1>0, <2>1, <2>2, <2>3, HandlersStep DEF ReqIs, codes, Rows
  <2>5. met' \subseteq Rows'
    BY <1>0, <2>1, <2>3 DEF TypeOK, codes, Rows
  <2> QED
    BY <1>0, <2>2, <2>3, <2>4, <2>5 DEF ReqIs, CodesOK, TypeOK, codes, people, Rows
<1> QED
  BY <1>1, <1>2, <1>3, <1>4, <1>5, <1>6, <1>7, <1>8, <1>9, <1>10, <1>11, CodesSplit
     DEF CodesAction

-----------------------------------------------------------------------------
(* What the comparison of codes turns on: who compares with a row, and the *)
(* marks and counts of the row.  Every other step leaves all of it alone.  *)
SameJudge(r) ==
  \A k \in {"use", "count"} : /\ req'[r].pc = k <=> req[r].pc = k
                              /\ req[r].pc = k => req'[r] = req[r]

JudgesQuiet ==
  /\ UNCHANGED <<attempts, used, granted, wrong, met>>
  /\ \A r \in Requests : SameJudge(r)

JudgesAction ==
  \E r \in Requests :
     \/ CountAttempt(r) \/ UseCode(r)
     \/ \E e \in Emails, p \in Purposes, i \in Ids, right \in BOOLEAN :
           ReadCodes(r, e, p, i, right)

LEMMA JudgesSplit ==
  ASSUME CodesOK, [SignNext]_signVars
  PROVE  JudgesQuiet \/ JudgesAction
<1>0. /\ req \in [Requests -> RequestType] /\ lastCode \in 0..MaxCodes
  BY DEF CodesOK, TypeOK
<1>1. ASSUME NEW r \in Requests, req[r].pc \notin {"use", "count"},
             req'[r].pc \notin {"use", "count"},
             \A s \in Requests : s # r => req'[s] = req[s],
             UNCHANGED <<attempts, used, granted, wrong, met>>
      PROVE  JudgesQuiet
  BY <1>1 DEF JudgesQuiet, SameJudge
<1>2. ASSUME UNCHANGED <<req, attempts, used, granted, wrong, met>> PROVE JudgesQuiet
  BY <1>2 DEF JudgesQuiet, SameJudge
<1>3. CASE CodesQuiet \/ Tick \/ \E e \in Emails : EditUser(e)
  BY <1>2, <1>3 DEF CodesQuiet, Tick, EditUser, codes, seen
<1>4. ASSUME NEW r \in Requests, CreateVerificationCode(r) PROVE JudgesQuiet
  <2>1. ReqIs(r, "log", req[r].email, req[r].purpose, lastCode + 1, req[r].snap)
    BY <1>0, <1>4, MakeIs
  <2>2. req[r].pc = "insert" /\ UNCHANGED <<attempts, used, seen>>
    BY <1>4 DEF CreateVerificationCode
  <2> QED
    BY <1>1, <2>1, <2>2 DEF ReqIs, seen
<1>5. ASSUME NEW r \in Requests, LogRequest(r) PROVE JudgesQuiet
  <2>1. ReqIs(r, "mail", req[r].email, req[r].purpose, req[r].id, req[r].snap)
    BY <1>0, <1>5, GotoIs DEF LogRequest
  <2>2. req[r].pc = "log" /\ UNCHANGED <<attempts, used, seen>>
    BY <1>5 DEF LogRequest
  <2> QED
    BY <1>1, <2>1, <2>2 DEF ReqIs, seen
<1>6. ASSUME NEW r \in Requests, MailCode(r) \/ LoginByEmailCode(r)
                                 \/ \E x, y \in BOOLEAN : Register(r, x, y)
      PROVE  JudgesQuiet
  <2>1. Return(r) /\ req[r].pc \in {"mail", "login", "register"}
        /\ UNCHANGED <<attempts, used, seen>>
    BY <1>6 DEF MailCode, LoginByEmailCode, Register, codes
  <2>2. req'[r].pc = "idle" /\ \A s \in Requests : s # r => req'[s] = req[s]
    BY <1>0, <2>1, ReturnIs
  <2> QED
    BY <1>1, <2>1, <2>2 DEF seen
<1>7. ASSUME NEW r \in Requests, NEW e \in Emails, NEW p \in Purposes, SendEmailCode(r, e, p)
      PROVE  JudgesQuiet
  <2>1. ReqIs(r, "insert", e, p, 0, 0)
    BY <1>0, <1>7, AskIs
  <2>2. req[r].pc = "idle" /\ UNCHANGED <<codes, seen>>
    BY <1>7 DEF SendEmailCode
  <2> QED
    BY <1>1, <2>1, <2>2 DEF ReqIs, codes, seen
<1> QED
  BY <1>3, <1>4, <1>5, <1>6, <1>7, CodesSplit DEF CodesAction, JudgesAction

LEMMA ReadEffect ==
  ASSUME CodesOK, NEW r \in Requests, NEW e \in Emails, NEW p \in Purposes, NEW i \in Ids,
         NEW right \in BOOLEAN, ReadCodes(r, e, p, i, right)
  PROVE  /\ ReqIs(r, IF right THEN "use" ELSE "count", e, p, i, attempts[i])
         /\ req[r].pc = "idle" /\ i \in Rows /\ i \notin used
         /\ email[i] = e /\ purpose[i] = p /\ (right => i \in mailed)
         /\ met' = IF \E s \in Requests : Judging(s, i) THEN met \cup {i} ELSE met
         /\ UNCHANGED <<codes, people, granted, wrong, faults>>
<1>1. attempts[i] \in Nat /\ req \in [Requests -> RequestType]
  BY DEF CodesOK, TypeOK
<1>2. ReqIs(r, IF right THEN "use" ELSE "count", e, p, i, attempts[i])
  BY <1>1, ReadIs
<1>3. i \in Rows /\ i \notin used /\ email[i] = e /\ purpose[i] = p
  BY DEF ReadCodes, Eligible, Newest
<1> QED
  BY <1>2, <1>3 DEF ReadCodes

LEMMA CountEffect ==
  ASSUME CodesOK, NEW r \in Requests, CountAttempt(r)
  PROVE  /\ req[r].pc = "count" /\ req[r].id \in Rows /\ req[r].id \in Ids
         /\ req'[r] = Idle /\ req'[r].pc = "idle"
         /\ \A s \in Requests : s # r => req'[s] = req[s]
         /\ wrong' = [wrong EXCEPT ![req[r].id] = @ + 1]
         /\ \/ attempts' = [attempts EXCEPT ![req[r].id] = req[r].snap + 1]
            \/ faults' # 0 /\ UNCHANGED attempts
         /\ UNCHANGED <<lastCode, email, purpose, at, used, logAt, mailed, people, granted, met>>
<1>1. req \in [Requests -> RequestType] /\ faults \in Nat /\ lastCode \in 0..MaxCodes
  BY DEF CodesOK, TypeOK
<1>2. req[r].id \in Rows /\ req[r].id \in Ids
  BY <1>1 DEF CodesOK, HandlersOK, AtRow, CountAttempt, Rows
<1>3. faults' = faults + 1 => faults' # 0
  BY <1>1
<1> QED
  BY <1>1, <1>2, <1>3, ReturnIs DEF CountAttempt, Faulty

(* The code is marked and the caller goes on, or nothing happens to it.    *)
LEMMA UseEffect ==
  ASSUME CodesOK, NEW r \in Requests, UseCode(r)
  PROVE  /\ req[r].pc = "use" /\ req[r].id \in Rows /\ req[r].id \in Ids
         /\ \A s \in Requests : s # r => req'[s] = req[s]
         /\ \/ /\ used' = used \cup {req[r].id}
               /\ granted' = [granted EXCEPT ![req[r].id] = @ + 1]
               /\ ReqIs(r, req[r].purpose, req[r].email, req[r].purpose, req[r].id, req[r].snap)
            \/ UNCHANGED <<used, granted>> /\ req'[r] = Idle
         /\ req'[r].pc \notin {"use", "count", "log", "mail", "insert"}
         /\ UNCHANGED <<lastCode, email, purpose, at, attempts, logAt, mailed, people, wrong, met>>
<1>1. req \in [Requests -> RequestType] /\ lastCode \in 0..MaxCodes
  BY DEF CodesOK, TypeOK
<1>2. req[r].id \in Rows /\ req[r].id \in Ids /\ req[r].purpose \in Purposes
  BY <1>1, ReqFields DEF CodesOK, HandlersOK, AtRow, UseCode, Rows
<1>3. CASE Return(r) /\ UNCHANGED <<used, granted>>
  BY <1>1, <1>2, <1>3, ReturnIs DEF UseCode
<1>4. CASE /\ Goto(r, req[r].purpose) /\ used' = used \cup {req[r].id}
           /\ granted' = [granted EXCEPT ![req[r].id] = @ + 1]
  <2>1. ReqIs(r, req[r].purpose, req[r].email, req[r].purpose, req[r].id, req[r].snap)
    BY <1>1, <1>2, <1>4, GotoIs
  <2> QED
    BY <1>2, <1>4, <2>1 DEF ReqIs, UseCode, Purposes
<1> QED
  BY <1>3, <1>4 DEF UseCode

-----------------------------------------------------------------------------
(* A code is marked when it is accepted, and who read it unmarked may      *)
(* accept it still: each of them once, for one that reads the row later    *)
(* finds the mark.  So it is accepted no more often than there are         *)
(* handlers; and where two never compared with the row at once, the one    *)
(* that is comparing finds it unmarked until it marks it itself.           *)
UsersOf(i) == {r \in Requests : req[r].pc = "use" /\ req[r].id = i}
OneJudge(i) == \A r, s \in Requests : Judging(r, i) /\ Judging(s, i) => r = s

OnceInv(i) ==
  /\ i \notin used => granted[i] = 0
  /\ granted[i] + Cardinality(UsersOf(i)) <= Cardinality(Requests)
  /\ i \notin met => /\ OneJudge(i) /\ granted[i] <= 1
                     /\ UsersOf(i) # {} => i \notin used

(* Alone, who counts a wrong code has the count of the row in hand.        *)
CountInv(i) ==
  faults = 0 /\ i \notin met =>
     /\ wrong[i] = attempts[i]
     /\ \A r \in Requests : req[r].pc = "count" /\ req[r].id = i => req[r].snap = attempts[i]

LEMMA RequestsFinite ==
  /\ Cardinality(Requests) \in Nat
  /\ \A S \in SUBSET Requests : /\ IsFiniteSet(S) /\ Cardinality(S) \in Nat
                                /\ Cardinality(S) <= Cardinality(Requests)
<1>1. Cardinality(Requests) \in Nat
  BY FS_CardinalityType
<1>2. ASSUME NEW S \in SUBSET Requests
      PROVE  IsFiniteSet(S) /\ Cardinality(S) \in Nat /\ Cardinality(S) <= Cardinality(Requests)
  <2>1. IsFiniteSet(S) /\ Cardinality(S) <= Cardinality(Requests)
    BY FS_Subset
  <2>2. Cardinality(S) \in Nat
    BY <2>1, FS_CardinalityType
  <2> QED
    BY <2>1, <2>2
<1> QED
  BY <1>1, <1>2

LEMMA OnceInit ==
  ASSUME SignInit, NEW i \in Ids
  PROVE  OnceInv(i) /\ CountInv(i)
<1>1. \A r \in Requests : req[r].pc = "idle"
  BY IdleFields DEF SignInit, Init
<1>2. UsersOf(i) = {} /\ OneJudge(i)
  BY <1>1 DEF UsersOf, OneJudge, Judging
<1>3. granted[i] = 0 /\ wrong[i] = 0 /\ attempts[i] = 0 /\ used = {}
  BY DEF SignInit, Init
<1>4. 0 + 0 <= Cardinality(Requests)
  BY RequestsFinite
<1> QED
  BY <1>1, <1>2, <1>3, <1>4, FS_EmptySet DEF OnceInv, CountInv

LEMMA OnceStep ==
  ASSUME CodesOK, [SignNext]_signVars, NEW i \in Ids, OnceInv(i), CountInv(i)
  PROVE  OnceInv(i)' /\ CountInv(i)'
<1> DEFINE U == UsersOf(i)
           U2 == UsersOf(i)'
           N == Cardinality(Requests)
<1>0. /\ granted \in [Ids -> Nat] /\ wrong \in [Ids -> Nat] /\ attempts \in [Ids -> 0..MaxAttempts]
      /\ req \in [Requests -> RequestType]
  BY DEF CodesOK, TypeOK
<1>n. granted[i] \in Nat /\ wrong[i] \in Nat /\ attempts[i] \in Nat
  BY <1>0
<1>f. faults' = 0 => faults = 0
  <2>1. faults \in Nat
    BY DEF CodesOK, TypeOK
  <2> QED
    BY <2>1, CodesSplit DEF FaultsGrow
<1>u. /\ U \in SUBSET Requests /\ U2 \in SUBSET Requests
      /\ Cardinality(U) \in Nat /\ Cardinality(U2) \in Nat /\ N \in Nat
      /\ Cardinality(U) <= N /\ Cardinality(U2) <= N
      /\ IsFiniteSet(U) /\ IsFiniteSet(U2)
  BY RequestsFinite DEF UsersOf
<1>1. CASE JudgesQuiet
  <2>1. U2 = U
    BY <1>1 DEF JudgesQuiet, SameJudge, UsersOf
  <2>2. \A r \in Requests : Judging(r, i)' => Judging(r, i)
    BY <1>1 DEF JudgesQuiet, SameJudge, Judging
  <2>3. OneJudge(i) => OneJudge(i)'
    BY <2>2 DEF OneJudge
  <2>4. OnceInv(i)'
    BY <1>1, <2>1, <2>3 DEF JudgesQuiet, OnceInv
  <2>5. CountInv(i)'
    BY <1>1, <1>f DEF JudgesQuiet, SameJudge, CountInv
  <2> QED
    BY <2>4, <2>5
<1>2. ASSUME NEW r \in Requests, CountAttempt(r) PROVE OnceInv(i)' /\ CountInv(i)'
  <2>1. /\ req[r].pc = "count" /\ req'[r].pc = "idle" /\ req[r].id \in Ids
        /\ \A s \in Requests : s # r => req'[s] = req[s]
        /\ wrong' = [wrong EXCEPT ![req[r].id] = @ + 1]
        /\ \/ attempts' = [attempts EXCEPT ![req[r].id] = req[r].snap + 1]
           \/ faults' # 0 /\ UNCHANGED attempts
        /\ UNCHANGED <<used, granted, met>>
    BY <1>2, CountEffect
  <2>2. U2 = U
    BY <2>1 DEF UsersOf
  <2>3. \A s \in Requests : Judging(s, i)' => s # r /\ Judging(s, i)
    BY <2>1 DEF Judging
  <2>4. OneJudge(i) => OneJudge(i)'
    BY <2>3 DEF OneJudge
  <2>5. OnceInv(i)'
    BY <2>1, <2>2, <2>4 DEF OnceInv
  <2>6. CASE req[r].id = i /\ i \notin met
    <3>1. Judging(r, i) /\ OneJudge(i)
      BY <2>1, <2>6 DEF OnceInv, Judging
    <3>2. \A s \in Requests : ~Judging(s, i)'
      BY <2>3, <3>1 DEF OneJudge
    <3>3. \A s \in Requests : ~(req'[s].pc = "count" /\ req'[s].id = i)
      BY <3>2 DEF Judging
    <3>4. faults' = 0 => wrong'[i] = attempts'[i]
      BY <1>0, <1>f, <2>1, <2>6 DEF CountInv
    <3> QED
      BY <2>5, <3>3, <3>4 DEF CountInv
  <2>7. CASE req[r].id # i
    <3>1. wrong'[i] = wrong[i] /\ attempts'[i] = attempts[i]
      BY <1>0, <2>1, <2>7
    <3> QED
      BY <1>f, <2>1, <2>5, <3>1 DEF CountInv
  <2>8. CASE i \in met
    BY <2>1, <2>5, <2>8 DEF CountInv
  <2> QED
    BY <2>6, <2>7, <2>8
<1>3. ASSUME NEW r \in Requests, UseCode(r) PROVE OnceInv(i)' /\ CountInv(i)'
  <2>1. /\ req[r].pc = "use" /\ req[r].id \in Ids
        /\ \A s \in Requests : s # r => req'[s] = req[s]
        /\ req'[r].pc \notin {"use", "count"}
        /\ UNCHANGED <<attempts, wrong, met>>
    BY <1>3, UseEffect
  <2>2. U2 = U \ {r}
    BY <2>1 DEF UsersOf
  <2>3. \A s \in Requests : Judging(s, i)' => s # r /\ Judging(s, i)
    BY <2>1 DEF Judging
  <2>4. OneJudge(i) => OneJudge(i)'
    BY <2>3 DEF OneJudge
  <2>5. CountInv(i)'
    BY <1>f, <2>1 DEF CountInv
  <2>6. CASE req[r].id # i
    <3>1. U2 = U
      BY <2>2, <2>6 DEF UsersOf
    <3>2. granted'[i] = granted[i] /\ (i \in used' <=> i \in used)
      BY <1>0, <1>3, <2>1, <2>6, UseEffect
    <3>3. OnceInv(i)'
      BY <2>1, <2>4, <3>1, <3>2 DEF OnceInv
    <3> QED
      BY <2>5, <3>3
  <2>7. CASE req[r].id = i /\ UNCHANGED <<used, granted>>
    <3>1. r \in U
      BY <2>1, <2>7 DEF UsersOf
    <3>2. Cardinality(U2) = Cardinality(U) - 1
      BY <1>u, <2>2, <3>1, FS_RemoveElement
    <3>3. granted[i] + Cardinality(U2) <= N
      BY <1>n, <1>u, <3>2 DEF OnceInv
    <3>4. OnceInv(i)'
      BY <2>1, <2>2, <2>4, <2>7, <3>3 DEF OnceInv
    <3> QED
      BY <2>5, <3>4
  <2>8. CASE /\ req[r].id = i /\ used' = used \cup {i}
             /\ granted' = [granted EXCEPT ![i] = @ + 1]
    <3>1. r \in U
      BY <2>1, <2>8 DEF UsersOf
    <3>2. Cardinality(U2) = Cardinality(U) - 1
      BY <1>u, <2>2, <3>1, FS_RemoveElement
    <3>3. granted'[i] = granted[i] + 1
      BY <1>0, <2>8
    <3>4. granted'[i] + Cardinality(U2) <= N
      BY <1>n, <1>u, <3>2, <3>3 DEF OnceInv
    <3>5. ASSUME i \notin met PROVE granted'[i] <= 1 /\ U2 = {}
      <4>1. OneJudge(i) /\ Judging(r, i)
        BY <2>1, <2>8, <3>5 DEF OnceInv, Judging
      <4>2. U2 = {}
        BY <2>2, <4>1 DEF OneJudge, Judging, UsersOf
      <4>3. granted[i] = 0
        BY <3>1, <3>5 DEF OnceInv
      <4> QED
        BY <3>3, <4>2, <4>3
    <3>6. OnceInv(i)'
      BY <2>1, <2>4, <2>8, <3>4, <3>5 DEF OnceInv
    <3> QED
      BY <2>5, <3>6
  <2> QED
    BY <1>3, <2>6, <2>7, <2>8, UseEffect
<1>4. ASSUME NEW r \in Requests, NEW e \in Emails, NEW p \in Purposes, NEW j \in Ids,
             NEW right \in BOOLEAN, ReadCodes(r, e, p, j, right)
      PROVE  OnceInv(i)' /\ CountInv(i)'
  <2>1. /\ ReqIs(r, IF right THEN "use" ELSE "count", e, p, j, attempts[j])
        /\ req[r].pc = "idle" /\ j \notin used
        /\ met' = IF \E s \in Requests : Judging(s, j) THEN met \cup {j} ELSE met
        /\ UNCHANGED <<codes, people, granted, wrong, faults>>
    BY <1>4, ReadEffect
  <2>2. UNCHANGED <<used, attempts>>
    BY <2>1 DEF codes
  <2>3. CASE i # j
    <3>1. \A s \in Requests : Judging(s, i)' => Judging(s, i)
      BY <2>1, <2>3 DEF ReqIs, Judging
    <3>2. U2 = U
      BY <2>1, <2>3 DEF ReqIs, UsersOf
    <3>3. OneJudge(i) => OneJudge(i)'
      BY <3>1 DEF OneJudge
    <3>4. i \in met' <=> i \in met
      BY <2>1, <2>3
    <3>5. OnceInv(i)'
      BY <2>1, <2>2, <3>2, <3>3, <3>4 DEF OnceInv
    <3>6. CountInv(i)'
      BY <2>1, <2>2, <2>3, <3>4 DEF ReqIs, CountInv
    <3> QED
      BY <3>5, <3>6
  <2>4. CASE i = j
    <3>1. granted'[i] = 0 /\ i \notin used'
      BY <2>1, <2>2, <2>4 DEF OnceInv
    <3>2. granted'[i] + Cardinality(U2) <= N
      BY <1>u, <3>1
    <3>3. ASSUME i \notin met'
          PROVE  i \notin met /\ \A s \in Requests : Judging(s, i)' => s = r
      <4>1. ~\E s \in Requests : Judging(s, i)
        BY <2>1, <2>4, <3>3
      <4>2. i \notin met
        BY <2>1, <2>4, <3>3
      <4> QED
        BY <2>1, <4>1, <4>2 DEF Judging, ReqIs
    <3>4. i \notin met' => OneJudge(i)'
      BY <3>3 DEF OneJudge
    <3>5. OnceInv(i)'
      BY <3>1, <3>2, <3>4 DEF OnceInv
    <3>6. CountInv(i)'
      <4>1. SUFFICES ASSUME faults' = 0, i \notin met'
                     PROVE  /\ wrong'[i] = attempts'[i]
                            /\ \A s \in Requests : req'[s].pc = "count" /\ req'[s].id = i
                                                      => req'[s].snap = attempts'[i]
        BY DEF CountInv
      <4>2. wrong'[i] = attempts'[i]
        BY <1>f, <2>1, <2>2, <3>3, <4>1 DEF CountInv
      <4>3. \A s \in Requests : req'[s].pc = "count" /\ req'[s].id = i => s = r
        BY <3>3, <4>1 DEF Judging
      <4>4. req'[r].snap = attempts'[i]
        BY <2>1, <2>2, <2>4 DEF ReqIs
      <4> QED
        BY <4>2, <4>3, <4>4
    <3> QED
      BY <3>5, <3>6
  <2> QED
    BY <2>3, <2>4
<1> QED
  BY <1>1, <1>2, <1>3, <1>4, JudgesSplit DEF JudgesAction

LEMMA CodesInvariant == SignSpec => []CodesOK
<1>1. SignInit => CodesOK
  BY CodesOKInit
<1>2. CodesOK /\ [SignNext]_signVars => CodesOK'
  BY CodesOKStep
<1> QED
  BY <1>1, <1>2, PTL DEF SignSpec

OnceCounted == \A i \in Ids : OnceInv(i) /\ CountInv(i)

LEMMA OnceInvariant == SignSpec => []OnceCounted
<1>1. SignInit => OnceCounted
  BY OnceInit DEF OnceCounted
<1>2. ASSUME CodesOK, OnceCounted, [SignNext]_signVars PROVE OnceCounted'
  <2>1. ASSUME NEW i \in Ids PROVE OnceInv(i)' /\ CountInv(i)'
    <3>1. OnceInv(i) /\ CountInv(i)
      BY <1>2, <2>1 DEF OnceCounted
    <3> QED
      BY <1>2, <2>1, <3>1, OnceStep
  <2> QED
    BY <2>1 DEF OnceCounted
<1>3. CodesOK /\ OnceCounted /\ [SignNext]_signVars => OnceCounted'
  BY <1>2
<1> QED
  BY <1>1, <1>3, CodesInvariant, PTL DEF SignSpec

(* A code is accepted once unless two handlers worked on its row at the    *)
(* same time, and never more often than there are handlers                 *)
(* (VerifyCodeOnce), whatever statements fail.                             *)
THEOREM CodesAreUsedOnce == SignSpec => []UsedOnceAlone
<1>1. ASSUME CodesOK, OnceCounted PROVE UsedOnceAlone
  <2>1. SUFFICES ASSUME NEW i \in Ids
                 PROVE  /\ i \notin met => granted[i] <= 1
                        /\ granted[i] <= Cardinality(Requests)
    BY DEF UsedOnceAlone
  <2>2. granted \in [Ids -> Nat]
    BY <1>1 DEF CodesOK, TypeOK
  <2>3. granted[i] \in Nat /\ Cardinality(UsersOf(i)) \in Nat /\ Cardinality(Requests) \in Nat
    BY <2>2, RequestsFinite DEF UsersOf
  <2>4. OnceInv(i)
    BY <1>1 DEF OnceCounted
  <2> QED
    BY <2>3, <2>4 DEF OnceInv
<1>2. CodesOK /\ OnceCounted => UsedOnceAlone
  BY <1>1
<1> QED
  BY <1>2, CodesInvariant, OnceInvariant, PTL

(* While no statement fails, every wrong code that came by itself has been *)
(* counted in its row (VerifyCodeOnce): no more than MaxAttempts of them   *)
(* are compared with it.                                                   *)
THEOREM AttemptsAreCounted == SignSpec => []AttemptsCountedAlone
<1>1. OnceCounted => AttemptsCountedAlone
  BY DEF OnceCounted, CountInv, AttemptsCountedAlone
<1> QED
  BY <1>1, OnceInvariant, PTL

-----------------------------------------------------------------------------
(* The columns of a row are written when it is made, and marks are never   *)
(* taken back: what a handler has read of its row stays true.              *)
RowsKept ==
  /\ Rows \subseteq Rows' /\ used \subseteq used' /\ mailed \subseteq mailed'
  /\ \A i \in Rows : email'[i] = email[i] /\ purpose'[i] = purpose[i] /\ at'[i] = at[i]

LEMMA RowsStep ==
  ASSUME CodesOK, [SignNext]_signVars
  PROVE  RowsKept
<1>0. /\ lastCode \in 0..MaxCodes /\ email \in [Ids -> Emails]
      /\ purpose \in [Ids -> Purposes] /\ at \in [Ids -> 0..MaxTime]
  BY DEF CodesOK, TypeOK
<1>1. ASSUME UNCHANGED <<lastCode, email, purpose, at>>, used \subseteq used',
             mailed \subseteq mailed'
      PROVE  RowsKept
  BY <1>1 DEF RowsKept, Rows
<1>2. ASSUME NEW r \in Requests, CreateVerificationCode(r) PROVE RowsKept
  <2>1. /\ lastCode' = lastCode + 1 /\ lastCode + 1 \notin Rows /\ Rows \subseteq Rows'
        /\ Rows \subseteq Ids
    BY <1>0, <1>2 DEF CreateVerificationCode, Rows
  <2>2. /\ email' = [email EXCEPT ![lastCode + 1] = req[r].email]
        /\ purpose' = [purpose EXCEPT ![lastCode + 1] = req[r].purpose]
        /\ at' = [at EXCEPT ![lastCode + 1] = now]
        /\ UNCHANGED <<used, mailed>>
    BY <1>2 DEF CreateVerificationCode
  <2> QED
    BY <1>0, <2>1, <2>2 DEF RowsKept
<1>3. ASSUME CodesQuiet \/ Tick \/ \E e \in Emails : EditUser(e) PROVE RowsKept
  BY <1>1, <1>3 DEF CodesQuiet, Tick, EditUser, codes
<1>4. ASSUME NEW r \in Requests,
             LogRequest(r) \/ MailCode(r) \/ CountAttempt(r) \/ UseCode(r) PROVE RowsKept
  BY <1>1, <1>4 DEF LogRequest, MailCode, CountAttempt, UseCode
<1>5. ASSUME NEW r \in Requests,
             LoginByEmailCode(r) \/ \E x, y \in BOOLEAN : Register(r, x, y) PROVE RowsKept
  BY <1>1, <1>5 DEF LoginByEmailCode, Register, codes
<1>6. ASSUME NEW r, NEW e, NEW p, SendEmailCode(r, e, p) PROVE RowsKept
  BY <1>1, <1>6 DEF SendEmailCode, codes
<1>7. ASSUME NEW r, NEW e, NEW p, NEW i, NEW right, ReadCodes(r, e, p, i, right)
      PROVE  RowsKept
  BY <1>1, <1>7 DEF ReadCodes, codes
<1> QED
  BY <1>2, <1>3, <1>4, <1>5, <1>6, <1>7, CodesSplit DEF CodesAction

(* A handler that found the right code works for the address and purpose   *)
(* of its row, which was mailed; the one that goes on has marked it.       *)
HolderOK(r) ==
  /\ req[r].pc = "use" => /\ req[r].id \in mailed /\ email[req[r].id] = req[r].email
                          /\ purpose[req[r].id] = req[r].purpose
  /\ req[r].pc = "register" => /\ req[r].id \in used \cap mailed
                               /\ email[req[r].id] = req[r].email
                               /\ purpose[req[r].id] = "register"

AccountInv == (\A r \in Requests : HolderOK(r)) /\ AccountHadCode

LEMMA AccountInit == SignInit => AccountInv
<1> SUFFICES ASSUME SignInit PROVE AccountInv
  OBVIOUS
<1>1. \A r \in Requests : HolderOK(r)
  BY IdleFields DEF SignInit, Init, HolderOK
<1>2. accounts \ given = {}
  BY DEF SignInit, Init
<1> QED
  BY <1>1, <1>2 DEF AccountInv, AccountHadCode

LEMMA HolderKept ==
  ASSUME CodesOK, RowsKept, NEW s \in Requests, HolderOK(s),
         req'[s] = req[s] \/ req'[s].pc \notin {"use", "register"}
  PROVE  HolderOK(s)'
<1>1. req[s].pc \in {"use", "register"} => req[s].id \in Rows
  BY DEF CodesOK, HandlersOK, AtRow, Purposes
<1>2. CASE req'[s].pc \notin {"use", "register"}
  BY <1>2 DEF HolderOK
<1>3. CASE req'[s] = req[s]
  BY <1>1, <1>3 DEF HolderOK, RowsKept
<1> QED
  BY <1>2, <1>3

LEMMA AccountsKept ==
  ASSUME CodesOK, RowsKept, AccountHadCode, accounts' \ given' \subseteq accounts \ given
  PROVE  AccountHadCode'
<1>1. used \subseteq Rows
  BY DEF CodesOK, TypeOK
<1>2. ASSUME NEW e \in accounts' \ given'
      PROVE  \E i \in used' \cap mailed' : email'[i] = e /\ purpose'[i] = "register"
  <2>1. PICK i \in used \cap mailed : email[i] = e /\ purpose[i] = "register"
    BY <1>2 DEF AccountHadCode
  <2> QED
    BY <1>1, <2>1 DEF RowsKept
<1> QED
  BY <1>2 DEF AccountHadCode

LEMMA AccountStep == CodesOK /\ AccountInv /\ [SignNext]_signVars => AccountInv'
<1> SUFFICES ASSUME CodesOK, AccountInv, [SignNext]_signVars PROVE AccountInv'
  OBVIOUS
<1>0. /\ req \in [Requests -> RequestType] /\ AccountHadCode /\ RowsKept
      /\ \A r \in Requests : HolderOK(r)
      /\ lastCode \in 0..MaxCodes
  BY RowsStep DEF CodesOK, TypeOK, AccountInv
<1>1. ASSUME NEW r \in Requests, HolderOK(r)', \A s \in Requests : s # r => req'[s] = req[s],
             UNCHANGED <<accounts, given>>
      PROVE  AccountInv'
  <2>1. \A s \in Requests : HolderOK(s)'
    BY <1>0, <1>1, HolderKept
  <2>2. AccountHadCode'
    BY <1>0, <1>1, AccountsKept
  <2> QED
    BY <2>1, <2>2 DEF AccountInv
<1>2. CASE CodesQuiet \/ Tick \/ \E e \in Emails : EditUser(e)
  <2>1. UNCHANGED req /\ accounts' \ given' \subseteq accounts \ given
    BY <1>2 DEF CodesQuiet, Tick, EditUser, people
  <2>2. \A s \in Requests : HolderOK(s)'
    BY <1>0, <2>1, HolderKept
  <2>3. AccountHadCode'
    BY <1>0, <2>1, AccountsKept
  <2> QED
    BY <2>2, <2>3 DEF AccountInv
<1>3. ASSUME NEW r \in Requests, req'[r].pc \notin {"use", "register"},
             \A s \in Requests : s # r => req'[s] = req[s], UNCHANGED <<accounts, given>>
      PROVE  AccountInv'
  BY <1>0, <1>1, <1>3, HolderKept
<1>4. ASSUME NEW r \in Requests, CreateVerificationCode(r) PROVE AccountInv'
  BY <1>0, <1>3, <1>4, MakeIs DEF ReqIs, CreateVerificationCode, people
<1>5. ASSUME NEW r \in Requests, LogRequest(r) PROVE AccountInv'
  <2>1. Goto(r, "mail") /\ UNCHANGED people
    BY <1>5 DEF LogRequest
  <2> QED
    BY <1>0, <1>3, <2>1, GotoIs DEF ReqIs, people
<1>6. ASSUME NEW r \in Requests, MailCode(r) \/ LoginByEmailCode(r) PROVE AccountInv'
  <2>1. Return(r) /\ UNCHANGED people
    BY <1>6 DEF MailCode, LoginByEmailCode
  <2> QED
    BY <1>0, <1>3, <2>1, ReturnIs DEF people
<1>7. ASSUME NEW r \in Requests, CountAttempt(r) PROVE AccountInv'
  BY <1>0, <1>3, <1>7, CountEffect DEF people
<1>8. ASSUME NEW r \in Requests, NEW e \in Emails, NEW p \in Purposes, SendEmailCode(r, e, p)
      PROVE  AccountInv'
  <2>1. ReqIs(r, "insert", e, p, 0, 0) /\ UNCHANGED people
    BY <1>0, <1>8, AskIs DEF SendEmailCode
  <2> QED
    BY <1>0, <1>3, <2>1 DEF ReqIs, people
<1>9. ASSUME NEW r \in Requests, NEW e \in Emails, NEW p \in Purposes, NEW i \in Ids,
             NEW right \in BOOLEAN, ReadCodes(r, e, p, i, right)
      PROVE  AccountInv'
  <2>1. /\ ReqIs(r, IF right THEN "use" ELSE "count", e, p, i, attempts[i])
        /\ email[i] = e /\ purpose[i] = p /\ (right => i \in mailed)
        /\ UNCHANGED <<codes, people>>
    BY <1>9, ReadEffect
  <2>2. HolderOK(r)'
    BY <2>1 DEF ReqIs, HolderOK, codes
  <2> QED
    BY <1>1, <2>1, <2>2 DEF ReqIs, people
<1>10. ASSUME NEW r \in Requests, UseCode(r) PROVE AccountInv'
  <2>1. /\ req[r].pc = "use" /\ req[r].id \in Rows
        /\ \A s \in Requests : s # r => req'[s] = req[s]
        /\ \/ /\ used' = used \cup {req[r].id}
              /\ ReqIs(r, req[r].purpose, req[r].email, req[r].purpose, req[r].id, req[r].snap)
           \/ req'[r] = Idle
        /\ UNCHANGED <<email, purpose, mailed, people>>
    BY <1>10, UseEffect
  <2>2. req[r].id \in mailed /\ email[req[r].id] = req[r].email /\ purpose[req[r].id] = req[r].purpose
    BY <1>0, <2>1 DEF HolderOK
  <2>3. req[r].purpose \in Purposes
    BY <1>0, ReqFields
  <2>4. HolderOK(r)'
    BY <2>1, <2>2, <2>3, IdleFields DEF ReqIs, HolderOK, Purposes
  <2> QED
    BY <1>1, <2>1, <2>4 DEF people
<1>11. ASSUME NEW r \in Requests, NEW x \in BOOLEAN, NEW y \in BOOLEAN, Register(r, x, y)
       PROVE  AccountInv'
  <2>1. /\ Return(r) /\ req[r].pc = "register" /\ UNCHANGED <<codes, given>>
        /\ accounts' \subseteq accounts \cup {req[r].email}
    BY <1>11 DEF Register
  <2>2. req'[r].pc = "idle" /\ \A s \in Requests : s # r => req'[s] = req[s]
    BY <1>0, <2>1, ReturnIs
  <2>3. \A s \in Requests : HolderOK(s)'
    BY <1>0, <2>2, HolderKept
  <2>4. /\ req[r].id \in used \cap mailed /\ email[req[r].id] = req[r].email
        /\ purpose[req[r].id] = "register"
    BY <1>0, <2>1 DEF HolderOK
  <2>5. ASSUME NEW e \in accounts' \ given'
        PROVE  \E i \in used \cap mailed : email[i] = e /\ purpose[i] = "register"
    BY <1>0, <2>1, <2>4, <2>5 DEF AccountHadCode
  <2>6. AccountHadCode'
    BY <2>1, <2>5 DEF AccountHadCode, codes
  <2> QED
    BY <2>3, <2>6 DEF AccountInv
<1> QED
  BY <1>2, <1>4, <1>5, <1>6, <1>7, <1>8, <1>9, <1>10, <1>11, CodesSplit DEF CodesAction

(* An account that no administrator made is of an address to which a code  *)
(* for registering was mailed, and that code is spent (Register), whatever *)
(* handlers overlap and whatever statements fail.                          *)
THEOREM AccountsHadTheirCode == SignSpec => []AccountHadCode
<1>1. AccountInv => AccountHadCode
  BY DEF AccountInv
<1> QED
  BY <1>1, AccountInit, AccountStep, CodesInvariant, PTL DEF SignSpec

-----------------------------------------------------------------------------
(* The limits.  Who asks is counted before his row is there, so a stretch  *)
(* of time that is not over has room for the handlers that have passed the *)
(* limits and not yet made their row: what is sent in it and what they are *)
(* about to send stay together below the limit and the handlers in flight. *)
(* For one purpose, or for all of them.                                    *)
RowsOf(e, Q)     == {i \in Rows : email[i] = e /\ purpose[i] \in Q}
AskersOf(e, Q)   == {r \in Requests : req[r].pc = "insert" /\ req[r].email = e
                                      /\ req[r].purpose \in Q}
Stretch(e, Q, t, span) == {i \in RowsOf(e, Q) : t <= at[i] /\ at[i] < t + span}

RoomAt(e, Q, L, span, t) ==
  /\ Cardinality(Stretch(e, Q, t, span)) < L + Cardinality(Requests)
  /\ now < t + span => Cardinality(Stretch(e, Q, t, span)) + Cardinality(AskersOf(e, Q))
                          < L + Cardinality(Requests)

RoomOf(e, Q, L, span) ==
  /\ AskersOf(e, Q) # {} => L >= 1
  /\ \A t \in Nat : RoomAt(e, Q, L, span, t)

SameAsker(r) ==
  /\ req'[r].pc = "insert" <=> req[r].pc = "insert"
  /\ req[r].pc = "insert" => req'[r] = req[r]

AsksQuiet ==
  /\ UNCHANGED <<lastCode, email, purpose, at>> /\ now <= now'
  /\ \A r \in Requests : SameAsker(r)

LEMMA AsksSplit ==
  ASSUME CodesOK, [SignNext]_signVars
  PROVE  \/ AsksQuiet
         \/ \E r \in Requests :
               \/ CreateVerificationCode(r)
               \/ \E e \in Emails, p \in Purposes : SendEmailCode(r, e, p)
<1>0. /\ req \in [Requests -> RequestType] /\ now \in Nat
  BY DEF CodesOK, TypeOK
<1>1. ASSUME NEW r \in Requests, req[r].pc # "insert", req'[r].pc # "insert",
             \A s \in Requests : s # r => req'[s] = req[s],
             UNCHANGED <<lastCode, email, purpose, at, now>>
      PROVE  AsksQuiet
  BY <1>0, <1>1 DEF AsksQuiet, SameAsker
<1>2. CASE CodesQuiet \/ Tick \/ \E e \in Emails : EditUser(e)
  <2>1. UNCHANGED <<lastCode, email, purpose, at, req>> /\ now <= now'
    BY <1>0, <1>2 DEF CodesQuiet, Tick, EditUser, codes
  <2> QED
    BY <2>1 DEF AsksQuiet, SameAsker
<1>3. ASSUME NEW r \in Requests, LogRequest(r) PROVE AsksQuiet
  <2>1. /\ Goto(r, "mail") /\ req[r].pc = "log"
        /\ UNCHANGED <<lastCode, email, purpose, at, now>>
    BY <1>3 DEF LogRequest
  <2> QED
    BY <1>0, <1>1, <2>1, GotoIs DEF ReqIs
<1>4. ASSUME NEW r \in Requests, MailCode(r) \/ LoginByEmailCode(r) \/ CountAttempt(r)
                                 \/ \E x, y \in BOOLEAN : Register(r, x, y)
      PROVE  AsksQuiet
  <2>1. /\ Return(r) /\ req[r].pc # "insert" /\ UNCHANGED <<lastCode, email, purpose, at, now>>
    BY <1>4 DEF MailCode, LoginByEmailCode, CountAttempt, Register, codes
  <2> QED
    BY <1>0, <1>1, <2>1, ReturnIs
<1>5. ASSUME NEW r \in Requests, UseCode(r) PROVE AsksQuiet
  <2>1. now' = now
    BY <1>5 DEF UseCode
  <2> QED
    BY <1>1, <1>5, <2>1, UseEffect
<1>6. ASSUME NEW r \in Requests, NEW e \in Emails, NEW p \in Purposes, NEW i \in Ids,
             NEW right \in BOOLEAN, ReadCodes(r, e, p, i, right)
      PROVE  AsksQuiet
  <2>1. now' = now
    BY <1>6 DEF ReadCodes
  <2> QED
    BY <1>1, <1>6, <2>1, ReadEffect DEF ReqIs, codes
<1> QED
  BY <1>2, <1>3, <1>4, <1>5, <1>6, CodesSplit DEF CodesAction

LEMMA StretchFinite ==
  ASSUME CodesOK, NEW e, NEW Q, NEW t, NEW span
  PROVE  /\ IsFiniteSet(Stretch(e, Q, t, span))
         /\ Cardinality(Stretch(e, Q, t, span)) \in Nat
         /\ AskersOf(e, Q) \in SUBSET Requests /\ Cardinality(AskersOf(e, Q)) \in Nat
         /\ Cardinality(AskersOf(e, Q)) <= Cardinality(Requests)
         /\ Cardinality(Requests) \in Nat /\ Cardinality(Requests) >= 1
<1>1. lastCode \in Nat
  BY DEF CodesOK, TypeOK
<1>2. IsFiniteSet(Rows)
  BY <1>1, FS_Interval DEF Rows
<1>3. Stretch(e, Q, t, span) \subseteq Rows
  BY DEF Stretch, RowsOf
<1>4. IsFiniteSet(Stretch(e, Q, t, span))
  BY <1>2, <1>3, FS_Subset
<1>5. AskersOf(e, Q) \in SUBSET Requests
  BY DEF AskersOf
<1>6. Cardinality(Requests) # 0
  BY FS_EmptySet
<1> QED
  BY <1>4, <1>5, <1>6, FS_CardinalityType, RequestsFinite

LEMMA RoomInit ==
  ASSUME SignInit, CodesOK, NEW e, NEW Q, NEW L \in Nat, NEW span
  PROVE  RoomOf(e, Q, L, span)
<1>1. \A r \in Requests : req[r].pc = "idle"
  BY IdleFields DEF SignInit, Init
<1>2. AskersOf(e, Q) = {} /\ Rows = {}
  BY <1>1 DEF AskersOf, SignInit, Init, Rows
<1>3. ASSUME NEW t \in Nat PROVE RoomAt(e, Q, L, span, t)
  <2>1. Stretch(e, Q, t, span) = {}
    BY <1>2 DEF Stretch, RowsOf
  <2>2. Cardinality(Stretch(e, Q, t, span)) = 0 /\ Cardinality(AskersOf(e, Q)) = 0
    BY <1>2, <2>1, FS_EmptySet
  <2> QED
    BY <2>2, StretchFinite DEF RoomAt
<1> QED
  BY <1>2, <1>3 DEF RoomOf

LEMMA RoomStep ==
  ASSUME CodesOK, CodesOK', [SignNext]_signVars, NEW e \in Emails, NEW Q \in SUBSET Purposes,
         NEW L \in Nat, NEW span \in Nat, RoomOf(e, Q, L, span),
         \A r \in Requests, p \in Q :
            SendEmailCode(r, e, p) => Recent(RowsOf(e, Q), at, span) < L
  PROVE  RoomOf(e, Q, L, span)'
<1> DEFINE A == AskersOf(e, Q)
           A2 == AskersOf(e, Q)'
           S(t) == Stretch(e, Q, t, span)
           S2(t) == Stretch(e, Q, t, span)'
           N == Cardinality(Requests)
<1>0. /\ req \in [Requests -> RequestType] /\ lastCode \in 0..MaxCodes /\ now \in Nat /\ now >= 1
      /\ email \in [Ids -> Emails] /\ purpose \in [Ids -> Purposes] /\ at \in [Ids -> 0..MaxTime]
      /\ \A i \in Rows : at[i] \in 1..now
      /\ now' \in Nat
  <2>1. TypeOK /\ TypeOK' /\ \A i \in Rows : at[i] \in 1..now
    BY DEF CodesOK
  <2>2. now \in 1..MaxTime /\ now' \in 1..MaxTime
    BY <2>1 DEF TypeOK
  <2>3. now \in Nat /\ now >= 1 /\ now' \in Nat
    BY <2>2
  <2> QED
    BY <2>1, <2>3 DEF TypeOK
<1>a. /\ Cardinality(A) \in Nat /\ Cardinality(A2) \in Nat /\ N \in Nat /\ N >= 1
      /\ Cardinality(A2) <= N /\ IsFiniteSet(A) /\ IsFiniteSet(A2)
  <2>1. A \in SUBSET Requests /\ A2 \in SUBSET Requests
    BY DEF AskersOf
  <2>2. N >= 1
    BY StretchFinite
  <2> QED
    BY <2>1, <2>2, RequestsFinite
<1>s. \A t \in Nat : /\ IsFiniteSet(S(t)) /\ Cardinality(S(t)) \in Nat
                     /\ Cardinality(S2(t)) \in Nat
  <2>1. ASSUME NEW t \in Nat PROVE IsFiniteSet(S(t)) /\ Cardinality(S(t)) \in Nat
    BY StretchFinite
  <2>2. ASSUME NEW t \in Nat PROVE Cardinality(S2(t)) \in Nat
    <3>1. lastCode' \in Nat
      BY DEF CodesOK, TypeOK
    <3>2. IsFiniteSet(1..lastCode')
      BY <3>1, FS_Interval
    <3>3. S2(t) \subseteq 1..lastCode'
      BY DEF Stretch, RowsOf, Rows
    <3> QED
      BY <3>2, <3>3, FS_Subset, FS_CardinalityType
  <2> QED
    BY <2>1, <2>2
<1>r. /\ A # {} => L >= 1
      /\ \A t \in Nat : /\ Cardinality(S(t)) < L + N
                        /\ now < t + span => Cardinality(S(t)) + Cardinality(A) < L + N
  BY DEF RoomOf, RoomAt
<1>g. ASSUME A2 # {} => L >= 1,
             \A t \in Nat : /\ Cardinality(S2(t)) < L + N
                            /\ now' < t + span => Cardinality(S2(t)) + Cardinality(A2) < L + N
      PROVE  RoomOf(e, Q, L, span)'
  BY <1>g DEF RoomOf, RoomAt
<1>1. CASE AsksQuiet
  <2>1. A2 = A
    BY <1>1 DEF AsksQuiet, SameAsker, AskersOf
  <2>2. \A t \in Nat : S2(t) = S(t)
    BY <1>1 DEF AsksQuiet, Stretch, RowsOf, Rows
  <2>3. \A t \in Nat : now' < t + span => now < t + span
    BY <1>0, <1>1 DEF AsksQuiet
  <2> HIDE DEF A, A2, S, S2, N
  <2> QED
    BY <1>g, <1>r, <2>1, <2>2, <2>3
<1>2. ASSUME NEW r \in Requests, CreateVerificationCode(r) PROVE RoomOf(e, Q, L, span)'
  <2> DEFINE i == lastCode + 1
             mine == req[r].email = e /\ req[r].purpose \in Q
  <2>1. /\ req[r].pc = "insert" /\ i \in Ids /\ Rows' = Rows \cup {i} /\ i \notin Rows
        /\ Rows \subseteq Ids
        /\ email' = [email EXCEPT ![i] = req[r].email]
        /\ purpose' = [purpose EXCEPT ![i] = req[r].purpose]
        /\ at' = [at EXCEPT ![i] = now] /\ now' = now
    <3>1. /\ req[r].pc = "insert" /\ lastCode < MaxCodes /\ lastCode' = i
          /\ email' = [email EXCEPT ![i] = req[r].email]
          /\ purpose' = [purpose EXCEPT ![i] = req[r].purpose]
          /\ at' = [at EXCEPT ![i] = now] /\ now' = now
      BY <1>2 DEF CreateVerificationCode
    <3>2. lastCode \in 0..MaxCodes
      BY <1>0
    <3>3. i \in Ids /\ Rows' = Rows \cup {i} /\ i \notin Rows /\ Rows \subseteq Ids
      BY <3>1, <3>2 DEF Rows
    <3> QED
      BY <3>1, <3>3
  <2>2. ReqIs(r, "log", req[r].email, req[r].purpose, i, req[r].snap)
    BY <1>0, <1>2, MakeIs
  <2>3. A2 = A \ {r}
    BY <2>2 DEF ReqIs, AskersOf
  <2>4. RowsOf(e, Q)' = IF mine THEN RowsOf(e, Q) \cup {i} ELSE RowsOf(e, Q)
    BY <1>0, <2>1 DEF RowsOf
  <2>5. \A j \in RowsOf(e, Q) : at'[j] = at[j] /\ j # i
    BY <1>0, <2>1 DEF RowsOf
  <2>6. at'[i] = now
    BY <1>0, <2>1
  <2> HIDE DEF i
  <2>7. CASE ~mine
    <3>1. A2 = A
      BY <2>3, <2>7 DEF AskersOf
    <3>2. \A t \in Nat : S2(t) = S(t)
      BY <2>4, <2>5, <2>7 DEF Stretch
    <3> HIDE DEF A, A2, S, S2, N
    <3> QED
      BY <1>g, <1>r, <2>1, <3>1, <3>2
  <2>8. CASE mine
    <3>1. r \in A /\ L >= 1
      BY <1>r, <2>1, <2>8 DEF AskersOf
    <3>2. Cardinality(A2) = Cardinality(A) - 1
      BY <1>a, <2>3, <3>1, FS_RemoveElement
    <3>3. ASSUME NEW t \in Nat
          PROVE  /\ Cardinality(S2(t)) < L + N
                 /\ now < t + span => Cardinality(S2(t)) + Cardinality(A2) < L + N
      <4>1. CASE t <= now /\ now < t + span
        <5>1. S2(t) = S(t) \cup {i} /\ i \notin S(t)
          BY <2>4, <2>5, <2>6, <2>8, <4>1 DEF Stretch
        <5>2. Cardinality(S2(t)) = Cardinality(S(t)) + 1
          BY <1>s, <5>1, FS_AddElement
        <5>3. Cardinality(S(t)) + Cardinality(A) < L + N
          BY <1>r, <4>1
        <5> HIDE DEF A, A2, S, S2, N
        <5>4. Cardinality(S(t)) \in Nat
          BY <1>s
        <5> QED
          BY <1>a, <3>2, <5>2, <5>3, <5>4
      <4>2. CASE ~(t <= now /\ now < t + span)
        <5>1. S2(t) = S(t)
          BY <2>4, <2>5, <2>6, <2>8, <4>2 DEF Stretch
        <5> HIDE DEF A, A2, S, S2, N
        <5>2. Cardinality(S(t)) \in Nat
          BY <1>s
        <5> QED
          BY <1>a, <1>r, <3>2, <5>1, <5>2
      <4> QED
        BY <4>1, <4>2
    <3> HIDE DEF A, A2, S, S2, N
    <3> QED
      BY <1>g, <2>1, <3>1, <3>3
  <2> QED
    BY <2>7, <2>8
<1>3. ASSUME NEW r \in Requests, NEW f \in Emails, NEW p \in Purposes, SendEmailCode(r, f, p)
      PROVE  RoomOf(e, Q, L, span)'
  <2>1. /\ ReqIs(r, "insert", f, p, 0, 0) /\ req[r].pc = "idle"
        /\ UNCHANGED <<now, codes>>
    BY <1>0, <1>3, AskIs DEF SendEmailCode
  <2>2. \A t \in Nat : S2(t) = S(t)
    BY <2>1 DEF codes, Stretch, RowsOf, Rows
  <2>3. CASE ~(f = e /\ p \in Q)
    <3>1. A2 = A
      BY <2>1, <2>3 DEF ReqIs, AskersOf
    <3> HIDE DEF A, A2, S, S2, N
    <3> QED
      BY <1>g, <1>r, <2>1, <2>2, <3>1
  <2>4. CASE f = e /\ p \in Q
    <3>1. Recent(RowsOf(e, Q), at, span) < L
      BY <1>3, <2>4
    <3> DEFINE T == {i \in RowsOf(e, Q) : at[i] # Never /\ now < at[i] + span}
    <3>2. IsFiniteSet(T) /\ Cardinality(T) \in Nat
      <4>1. T \subseteq 1..lastCode
        BY DEF RowsOf, Rows
      <4>2. IsFiniteSet(1..lastCode)
        BY <1>0, FS_Interval
      <4> QED
        BY <4>1, <4>2, FS_Subset, FS_CardinalityType
    <3>3. Cardinality(T) < L
      BY <3>1 DEF Recent
    <3>4. ASSUME NEW t \in Nat, now < t + span PROVE Cardinality(S(t)) <= Cardinality(T)
      <4>1. S(t) \subseteq T
        <5>1. ASSUME NEW i \in S(t) PROVE i \in T
          <6>1. i \in RowsOf(e, Q) /\ i \in Rows /\ t <= at[i] /\ at[i] \in 1..now
            BY <1>0, <5>1 DEF Stretch, RowsOf
          <6> QED
            BY <1>0, <3>4, <6>1
        <5> QED
          BY <5>1
      <4> QED
        BY <3>2, <4>1, FS_Subset
    <3> HIDE DEF T, A, A2, S, S2, N
    <3>5. L >= 1
      BY <3>2, <3>3
    <3>6. ASSUME NEW t \in Nat
          PROVE  /\ Cardinality(S2(t)) < L + N
                 /\ now' < t + span => Cardinality(S2(t)) + Cardinality(A2) < L + N
      <4>1. Cardinality(S(t)) \in Nat /\ S2(t) = S(t)
        BY <1>s, <2>2
      <4>2. now' = now
        BY <2>1
      <4> QED
        BY <1>a, <1>r, <3>2, <3>3, <3>4, <4>1, <4>2
    <3> QED
      BY <1>g, <3>5, <3>6
  <2> QED
    BY <2>3, <2>4
<1> QED
  BY <1>1, <1>2, <1>3, AsksSplit

LimitsInv ==
  \A e \in Emails : /\ RoomOf(e, Purposes, EmailMax, Window)
                    /\ \A p \in Purposes : RoomOf(e, {p}, 1, Cooldown)

LEMMA LimitsStep ==
  ASSUME CodesOK, CodesOK', [SignNext]_signVars, LimitsInv
  PROVE  LimitsInv'
<1>1. lastCode \in Nat
  BY DEF CodesOK, TypeOK
<1>2. ASSUME NEW e \in Emails PROVE RoomOf(e, Purposes, EmailMax, Window)'
  <2>1. ASSUME NEW r \in Requests, NEW p \in Purposes, SendEmailCode(r, e, p)
        PROVE  Recent(RowsOf(e, Purposes), at, Window) < EmailMax
    <3>1. \A i \in Rows : purpose[i] \in Purposes
      BY <1>1 DEF CodesOK, TypeOK, Rows
    <3>2. RowsOf(e, Purposes) = {i \in Rows : email[i] = e}
      BY <3>1 DEF RowsOf
    <3>3. BelowLimits(e, p)
      BY <2>1 DEF SendEmailCode
    <3> QED
      BY <3>2, <3>3 DEF BelowLimits
  <2> QED
    BY <1>2, <2>1, RoomStep DEF LimitsInv
<1>3. ASSUME NEW e \in Emails, NEW p \in Purposes PROVE RoomOf(e, {p}, 1, Cooldown)'
  <2>1. ASSUME NEW r \in Requests, NEW q \in {p}, SendEmailCode(r, e, q)
        PROVE  Recent(RowsOf(e, {p}), at, Cooldown) < 1
    <3>1. RowsOf(e, {p}) = {i \in Rows : email[i] = e /\ purpose[i] = p}
      BY DEF RowsOf
    <3> QED
      BY <2>1, <3>1 DEF SendEmailCode, BelowLimits
  <2>2. {p} \in SUBSET Purposes /\ 1 \in Nat
    OBVIOUS
  <2>3. RoomOf(e, {p}, 1, Cooldown)
    BY <1>3 DEF LimitsInv
  <2> QED
    BY <1>3, <2>1, <2>2, <2>3, RoomStep
<1> QED
  BY <1>2, <1>3 DEF LimitsInv

(* However the requests for codes overlap, an address is sent fewer codes  *)
(* in a window than its limit and the handlers in flight together, and for *)
(* one purpose no more in a cooldown than there are handlers: the counts   *)
(* and the INSERT of SendEmailCode are separate statements, and a handler  *)
(* that has passed the limits makes one row.                               *)
THEOREM LimitsHoldUpToOverlap == SignSpec => []LimitsUpToOverlap
<1>1. SignInit => LimitsInv
  <2>1. ASSUME SignInit PROVE LimitsInv
    <3>1. CodesOK /\ 1 \in Nat
      BY <2>1, CodesOKInit
    <3> QED
      BY <2>1, <3>1, RoomInit DEF LimitsInv
  <2> QED
    BY <2>1
<1>2. CodesOK /\ CodesOK' /\ LimitsInv /\ [SignNext]_signVars => LimitsInv'
  BY LimitsStep
<1>3. ASSUME CodesOK, LimitsInv PROVE LimitsUpToOverlap
  <2> SUFFICES ASSUME NEW e \in Emails, NEW t \in 1..now
               PROVE  /\ Sent({i \in Rows : email[i] = e}, t, Window)
                            < EmailMax + Cardinality(Requests)
                      /\ \A p \in Purposes :
                            Sent({i \in Rows : email[i] = e /\ purpose[i] = p}, t, Cooldown)
                               <= Cardinality(Requests)
    BY DEF LimitsUpToOverlap
  <2>0. t \in Nat /\ lastCode \in Nat
    BY <1>3 DEF CodesOK, TypeOK
  <2>1. Sent({i \in Rows : email[i] = e}, t, Window) = Cardinality(Stretch(e, Purposes, t, Window))
    <3>1. \A i \in Rows : purpose[i] \in Purposes
      BY <1>3, <2>0 DEF CodesOK, TypeOK, Rows
    <3>2. RowsOf(e, Purposes) = {i \in Rows : email[i] = e}
      BY <3>1 DEF RowsOf
    <3> QED
      BY <3>2 DEF Sent, Stretch
  <2>2. Cardinality(Stretch(e, Purposes, t, Window)) < EmailMax + Cardinality(Requests)
    BY <1>3, <2>0 DEF LimitsInv, RoomOf, RoomAt
  <2>3. ASSUME NEW p \in Purposes
        PROVE  Sent({i \in Rows : email[i] = e /\ purpose[i] = p}, t, Cooldown)
                  <= Cardinality(Requests)
    <3>1. RowsOf(e, {p}) = {i \in Rows : email[i] = e /\ purpose[i] = p}
      BY DEF RowsOf
    <3>2. Sent({i \in Rows : email[i] = e /\ purpose[i] = p}, t, Cooldown)
             = Cardinality(Stretch(e, {p}, t, Cooldown))
      BY <3>1 DEF Sent, Stretch
    <3>3. Cardinality(Stretch(e, {p}, t, Cooldown)) < 1 + Cardinality(Requests)
      BY <1>3, <2>0 DEF LimitsInv, RoomOf, RoomAt
    <3>4. Cardinality(Stretch(e, {p}, t, Cooldown)) \in Nat /\ Cardinality(Requests) \in Nat
      BY <1>3, StretchFinite
    <3> QED
      BY <3>2, <3>3, <3>4
  <2> QED
    BY <2>1, <2>2, <2>3
<1>4. CodesOK /\ LimitsInv => LimitsUpToOverlap
  BY <1>3
<1> QED
  BY <1>1, <1>2, <1>4, CodesInvariant, PTL DEF SignSpec

-----------------------------------------------------------------------------
(* Captchas.  A step of the whole is one of theirs, or leaves them alone.  *)
LEMMA ScreenLimits ==
  /\ FailureLimit \in Nat \ {0} /\ MaxCaptchas \in Nat /\ MaxTokens \in Nat
  /\ MaxServed \in Nat /\ MaxFaults \in Nat
  BY CaptchaAssumption DEF Screen!Limits, Screen!Bounds

USE ScreenLimits DEF Screen!Captchas, Screen!Tokens, Screen!NoToken

LEMMA ScreenSplit ==
  ASSUME [SignNext]_signVars
  PROVE  UNCHANGED screenVars \/ Screen!Next
<1>1. CASE Issue
  BY <1>1 DEF Issue, Screen!Next
<1>2. CASE Meanwhile
  BY <1>2 DEF Meanwhile
<1>3. ASSUME NEW r \in Requests, Judge(r) \/ PayByCaptcha(r) PROVE Screen!Next
  BY <1>3 DEF Judge, PayByCaptcha, Screen!Next
<1>4. ASSUME NEW r \in Requests, MakeCode(r) \/ Proceed(r) PROVE UNCHANGED screenVars
  BY <1>4 DEF MakeCode, Proceed
<1>5. ASSUME NEW r \in Requests, NEW t \in 1..MaxTokens, SubmitForm(r, t) PROVE Screen!Next
  BY <1>5 DEF SubmitForm, Screen!Next
<1>6. ASSUME NEW r \in Requests, NEW caller \in Screen!Callers, NEW c \in 1..MaxCaptchas,
             NEW right \in BOOLEAN, NEW t \in 0..MaxTokens, VerifyCaptcha(r, caller, c, right, t)
      PROVE  Screen!Next
  BY <1>6 DEF VerifyCaptcha, Screen!Next
<1>7. ASSUME NEW r, NEW e, NEW p, AskForCode(r, e, p) \/ Refuse(r, e, p)
                                  \/ \E i \in Ids, right \in BOOLEAN : EnterCode(r, e, p, i, right)
      PROVE  UNCHANGED screenVars
  BY <1>7 DEF AskForCode, Refuse, EnterCode, screenVars
<1>8. CASE UNCHANGED signVars
  BY <1>8 DEF signVars
<1> QED
  BY <1>1, <1>2, <1>3, <1>4, <1>5, <1>6, <1>7, <1>8 DEF SignNext

(* The locals of the handlers that verify an answer.                       *)
ScreenIs(r, pc, caller, id, snap) ==
  /\ screen' \in [Requests -> Screen!RequestType]
  /\ screen'[r].pc = pc /\ screen'[r].caller = caller /\ screen'[r].id = id
  /\ screen'[r].snap = snap
  /\ \A s \in Requests : s # r => screen'[s] = screen[s]

LEMMA ScreenIdle ==
  /\ Screen!Idle \in Screen!RequestType /\ Screen!Idle.pc = "idle"
  /\ Screen!Idle.caller = "precheck" /\ Screen!Idle.id = 0 /\ Screen!Idle.snap = 0
<1>1. 0 \in Nat
  OBVIOUS
<1> QED
  BY <1>1 DEF Screen!Idle, Screen!RequestType, Screen!Callers

LEMMA ScreenSet ==
  ASSUME screen \in [Requests -> Screen!RequestType], NEW r \in Requests,
         NEW q \in Screen!RequestType, screen' = [screen EXCEPT ![r] = q]
  PROVE  ScreenIs(r, q.pc, q.caller, q.id, q.snap)
  BY DEF ScreenIs

LEMMA ScreenFields ==
  ASSUME screen \in [Requests -> Screen!RequestType], NEW r \in Requests
  PROVE  /\ screen[r] \in Screen!RequestType /\ screen[r].snap \in Nat
         /\ screen[r].pc \in {"idle", "reject", "accept", "challenge"}
         /\ screen[r].caller \in Screen!Callers /\ screen[r].id \in (1..MaxCaptchas) \cup {0}
<1>1. screen[r] \in Screen!RequestType
  OBVIOUS
<1> QED
  BY <1>1 DEF Screen!RequestType

LEMMA ScreenReturn ==
  ASSUME screen \in [Requests -> Screen!RequestType], NEW r \in Requests, Screen!Return(r)
  PROVE  ScreenIs(r, "idle", "precheck", 0, 0)
<1>1. screen' = [screen EXCEPT ![r] = Screen!Idle]
  BY DEF Screen!Return
<1> QED
  BY <1>1, ScreenIdle, ScreenSet

LEMMA ScreenChallenge ==
  ASSUME screen \in [Requests -> Screen!RequestType], NEW r \in Requests,
         screen' = [screen EXCEPT ![r].pc = "challenge"]
  PROVE  ScreenIs(r, "challenge", screen[r].caller, screen[r].id, screen[r].snap)
<1> DEFINE q == [screen[r] EXCEPT !.pc = "challenge"]
<1>1. /\ q \in Screen!RequestType /\ q.pc = "challenge" /\ q.caller = screen[r].caller
      /\ q.id = screen[r].id /\ q.snap = screen[r].snap
  BY ScreenFields DEF Screen!RequestType
<1>2. screen' = [screen EXCEPT ![r] = q]
  OBVIOUS
<1> HIDE DEF q
<1>3. ScreenIs(r, q.pc, q.caller, q.id, q.snap)
  BY <1>1, <1>2, ScreenSet
<1> QED
  BY <1>1, <1>3

LEMMA ScreenSubmit ==
  ASSUME screen \in [Requests -> Screen!RequestType], NEW r \in Requests,
         NEW t \in 1..MaxTokens, Screen!SubmitForm(r, t)
  PROVE  ScreenIs(r, "challenge", "form", 0, 0)
<1> DEFINE q == [Screen!Idle EXCEPT !.pc = "challenge", !.caller = "form", !.token = t]
<1>1. /\ q \in Screen!RequestType /\ q.pc = "challenge" /\ q.caller = "form"
      /\ q.id = 0 /\ q.snap = 0
  BY ScreenIdle DEF Screen!RequestType, Screen!Callers
<1>2. screen' = [screen EXCEPT ![r] = q]
  BY DEF Screen!SubmitForm
<1> HIDE DEF q
<1>3. ScreenIs(r, q.pc, q.caller, q.id, q.snap)
  BY <1>1, <1>2, ScreenSet
<1> QED
  BY <1>1, <1>3

LEMMA ScreenRead ==
  ASSUME screen \in [Requests -> Screen!RequestType], NEW r \in Requests,
         NEW caller \in Screen!Callers, NEW c \in 1..MaxCaptchas, NEW right \in BOOLEAN,
         NEW t \in 0..MaxTokens, Screen!ReadCaptcha(r, caller, c, right, t), tries[c] \in Nat
  PROVE  ScreenIs(r, IF right THEN "accept" ELSE "reject", caller, c, tries[c])
<1> DEFINE q == [pc |-> IF right THEN "accept" ELSE "reject", caller |-> caller, id |-> c,
                 token |-> t, snap |-> tries[c]]
<1>1. /\ q \in Screen!RequestType /\ q.pc = (IF right THEN "accept" ELSE "reject")
      /\ q.caller = caller /\ q.id = c /\ q.snap = tries[c]
  <2>1. t \in (1..MaxTokens) \cup {0}
    OBVIOUS
  <2> QED
    BY <2>1 DEF Screen!RequestType
<1>2. screen' = [screen EXCEPT ![r] = q]
  BY DEF Screen!ReadCaptcha
<1> HIDE DEF q
<1>3. ScreenIs(r, q.pc, q.caller, q.id, q.snap)
  BY <1>1, <1>2, ScreenSet
<1> QED
  BY <1>1, <1>3

(* Types, and: a captcha that is open has failures left.                   *)
ScreenOK ==
  /\ Screen!TypeOK
  /\ \A c \in 1..MaxCaptchas : c \notin closed => tries[c] < FailureLimit

AtCaptcha ==
  \A r \in Requests : screen[r].pc \in {"reject", "accept"} =>
                         screen[r].id \in 1..lastCaptcha /\ screen[r].snap < FailureLimit

LEMMA ScreenOKInit == SignInit => ScreenOK
<1> SUFFICES ASSUME SignInit PROVE ScreenOK
  OBVIOUS
<1>1. /\ lastCaptcha = 0 /\ closed = {} /\ expired = {} /\ lastToken = 0 /\ lapsed = {}
      /\ disputed = {} /\ faults = 0
  BY DEF SignInit, Screen!Init
<1>2. /\ tries = [c \in 1..MaxCaptchas |-> 0] /\ misses = [c \in 1..MaxCaptchas |-> 0]
      /\ accepted = [c \in 1..MaxCaptchas |-> 0] /\ served = [t \in 1..MaxTokens |-> 0]
      /\ screen = [r \in Requests |-> Screen!Idle]
  BY DEF SignInit, Screen!Init
<1>3. 0 \in 0..MaxCaptchas /\ 0 \in 0..MaxTokens /\ 0 \in 0..MaxServed /\ 0 \in 0..FailureLimit
      /\ 0 \in 0..MaxFaults
  OBVIOUS
<1>4. /\ tries \in [1..MaxCaptchas -> 0..FailureLimit]
      /\ misses \in [1..MaxCaptchas -> Nat] /\ accepted \in [1..MaxCaptchas -> Nat]
      /\ served \in [1..MaxTokens -> 0..MaxServed]
  BY <1>2, <1>3
<1>5. screen \in [Requests -> Screen!RequestType] /\ \A r \in Requests : screen[r].pc = "idle"
  BY <1>2, ScreenIdle
<1>6. \A c \in 1..MaxCaptchas : tries[c] < FailureLimit
  BY <1>2
<1> QED
  BY <1>1, <1>3, <1>4, <1>5, <1>6 DEF ScreenOK, Screen!TypeOK

LEMMA AtCaptchaStep ==
  ASSUME AtCaptcha, NEW r \in Requests, lastCaptcha \in Nat, lastCaptcha' = lastCaptcha,
         \A s \in Requests : s # r => screen'[s] = screen[s],
         screen'[r].pc \in {"reject", "accept"} =>
            screen'[r].id \in 1..lastCaptcha /\ screen'[r].snap < FailureLimit
  PROVE  AtCaptcha'
  BY DEF AtCaptcha

LEMMA RejectEffect ==
  ASSUME ScreenOK, NEW r \in Requests, Screen!Reject(r)
  PROVE  /\ screen[r].pc = "reject" /\ screen[r].id \in 1..lastCaptcha
         /\ screen[r].id \in 1..MaxCaptchas /\ screen[r].snap \in Nat
         /\ screen[r].snap < FailureLimit
         /\ ScreenIs(r, "idle", "precheck", 0, 0)
         /\ tries' = [tries EXCEPT ![screen[r].id] = screen[r].snap + 1]
         /\ closed' = IF screen[r].snap + 1 >= FailureLimit
                      THEN closed \cup {screen[r].id} ELSE closed
         /\ misses' = [misses EXCEPT ![screen[r].id] = @ + 1]
         /\ UNCHANGED <<lastCaptcha, expired, lastToken, lapsed, served, accepted, disputed,
                        faults>>
<1>1. screen \in [Requests -> Screen!RequestType] /\ lastCaptcha \in 0..MaxCaptchas /\ AtCaptcha
  BY DEF ScreenOK, Screen!TypeOK, AtCaptcha
<1>2. ScreenIs(r, "idle", "precheck", 0, 0)
  BY <1>1, ScreenReturn DEF Screen!Reject
<1>3. screen[r].pc = "reject"
  BY DEF Screen!Reject
<1>4. screen[r].id \in 1..lastCaptcha /\ screen[r].snap < FailureLimit /\ screen[r].snap \in Nat
  BY <1>1, <1>3, ScreenFields DEF AtCaptcha
<1>5. screen[r].id \in 1..MaxCaptchas
  BY <1>1, <1>4
<1> QED
  BY <1>2, <1>3, <1>4, <1>5 DEF Screen!Reject, Screen!Closes, Screen!signs

LEMMA RejectFailsEffect ==
  ASSUME ScreenOK, NEW r \in Requests, Screen!RejectFails(r)
  PROVE  /\ screen[r].pc = "reject" /\ screen[r].id \in 1..MaxCaptchas
         /\ ScreenIs(r, "idle", "precheck", 0, 0)
         /\ misses' = [misses EXCEPT ![screen[r].id] = @ + 1]
         /\ faults' \in 0..MaxFaults /\ faults' # 0
         /\ UNCHANGED <<lastCaptcha, closed, expired, tries, lastToken, lapsed, served,
                        accepted, disputed>>
<1>1. screen \in [Requests -> Screen!RequestType] /\ lastCaptcha \in 0..MaxCaptchas /\ AtCaptcha
      /\ faults \in 0..MaxFaults
  BY DEF ScreenOK, Screen!TypeOK, AtCaptcha
<1>2. ScreenIs(r, "idle", "precheck", 0, 0)
  BY <1>1, ScreenReturn DEF Screen!RejectFails
<1>3. screen[r].pc = "reject"
  BY DEF Screen!RejectFails
<1>4. screen[r].id \in 1..MaxCaptchas
  BY <1>1, <1>3 DEF AtCaptcha
<1>5. faults' \in 0..MaxFaults /\ faults' # 0
  BY <1>1 DEF Screen!RejectFails
<1> QED
  BY <1>2, <1>3, <1>4, <1>5 DEF Screen!RejectFails, Screen!rows, Screen!signs

LEMMA AcceptEffect ==
  ASSUME ScreenOK, NEW r \in Requests, Screen!Accept(r)
  PROVE  /\ screen[r].pc = "accept" /\ screen[r].id \in 1..lastCaptcha
         /\ screen[r].id \in 1..MaxCaptchas
         /\ \/ closed' = closed \cup {screen[r].id} /\ UNCHANGED faults
            \/ faults' \in 0..MaxFaults /\ faults' # 0 /\ UNCHANGED closed
         /\ accepted' = [accepted EXCEPT ![screen[r].id] = @ + 1]
         /\ screen' \in [Requests -> Screen!RequestType]
         /\ screen'[r].pc \in {"idle", "challenge"}
         /\ screen[r].caller # "form" => screen'[r].pc = "idle"
         /\ \A s \in Requests : s # r => screen'[s] = screen[s]
         /\ UNCHANGED <<lastCaptcha, expired, tries, lastToken, lapsed, served, misses, disputed>>
<1>1. screen \in [Requests -> Screen!RequestType] /\ lastCaptcha \in 0..MaxCaptchas /\ AtCaptcha
      /\ faults \in 0..MaxFaults
  BY DEF ScreenOK, Screen!TypeOK, AtCaptcha
<1>2. CASE screen[r].caller = "form"
  <2>1. screen' = [screen EXCEPT ![r].pc = "challenge"]
    BY <1>2 DEF Screen!Accept
  <2>2. ScreenIs(r, "challenge", screen[r].caller, screen[r].id, screen[r].snap)
    BY <1>1, <2>1, ScreenChallenge
  <2> QED
    BY <1>1, <1>2, <2>2 DEF ScreenIs, AtCaptcha, Screen!Accept, Screen!signs
<1>3. CASE screen[r].caller # "form"
  <2>1. Screen!Return(r)
    BY <1>3 DEF Screen!Accept
  <2>2. ScreenIs(r, "idle", "precheck", 0, 0)
    BY <1>1, <2>1, ScreenReturn
  <2> QED
    BY <1>1, <2>2 DEF ScreenIs, AtCaptcha, Screen!Accept, Screen!signs
<1> QED
  BY <1>2, <1>3

LEMMA ScreenReadEffect ==
  ASSUME ScreenOK, NEW r \in Requests, NEW caller \in Screen!Callers, NEW c \in 1..MaxCaptchas,
         NEW right \in BOOLEAN, NEW t \in 0..MaxTokens,
         Screen!ReadCaptcha(r, caller, c, right, t)
  PROVE  /\ ScreenIs(r, IF right THEN "accept" ELSE "reject", caller, c, tries[c])
         /\ screen[r].pc = "idle" /\ c \in 1..lastCaptcha /\ c \notin closed
         /\ tries[c] \in Nat /\ tries[c] < FailureLimit
         /\ disputed' = IF \E s \in Requests : Screen!Judging(s, c)
                        THEN disputed \cup {c} ELSE disputed
         /\ UNCHANGED <<lastCaptcha, closed, expired, tries, lastToken, lapsed, served, misses,
                        accepted, faults>>
<1>1. /\ screen \in [Requests -> Screen!RequestType] /\ tries \in [1..MaxCaptchas -> 0..FailureLimit]
  BY DEF ScreenOK, Screen!TypeOK
<1>2. tries[c] \in Nat
  BY <1>1
<1>3. ScreenIs(r, IF right THEN "accept" ELSE "reject", caller, c, tries[c])
  BY <1>1, <1>2, ScreenRead
<1>4. c \in 1..lastCaptcha /\ c \notin closed
  BY DEF Screen!ReadCaptcha
<1>5. tries[c] < FailureLimit
  BY <1>4 DEF ScreenOK
<1> QED
  BY <1>2, <1>3, <1>4, <1>5 DEF Screen!ReadCaptcha, Screen!rows, Screen!signs

LEMMA ScreenOKStep == ScreenOK /\ faults' \in 0..MaxFaults /\ [SignNext]_signVars => ScreenOK'
<1> SUFFICES ASSUME ScreenOK, faults' \in 0..MaxFaults, [SignNext]_signVars PROVE ScreenOK'
  OBVIOUS
<1>0. /\ screen \in [Requests -> Screen!RequestType] /\ AtCaptcha
      /\ tries \in [1..MaxCaptchas -> 0..FailureLimit]
      /\ misses \in [1..MaxCaptchas -> Nat] /\ accepted \in [1..MaxCaptchas -> Nat]
      /\ served \in [1..MaxTokens -> 0..MaxServed]
      /\ lastCaptcha \in 0..MaxCaptchas /\ lastToken \in 0..MaxTokens
      /\ closed \subseteq 1..lastCaptcha /\ expired \subseteq 1..lastCaptcha
      /\ lapsed \subseteq 1..lastToken /\ disputed \subseteq 1..lastCaptcha
      /\ \A c \in 1..MaxCaptchas : c \notin closed => tries[c] < FailureLimit
  BY DEF ScreenOK, Screen!TypeOK, AtCaptcha
<1>l. lastCaptcha \in Nat
  BY <1>0
<1>g. ASSUME screen' \in [Requests -> Screen!RequestType], AtCaptcha',
             lastCaptcha' \in 0..MaxCaptchas, lastToken' \in 0..MaxTokens,
             closed' \subseteq 1..lastCaptcha', expired' \subseteq 1..lastCaptcha',
             lapsed' \subseteq 1..lastToken', disputed' \subseteq 1..lastCaptcha',
             tries' \in [1..MaxCaptchas -> 0..FailureLimit],
             misses' \in [1..MaxCaptchas -> Nat], accepted' \in [1..MaxCaptchas -> Nat],
             served' \in [1..MaxTokens -> 0..MaxServed],
             \A c \in 1..MaxCaptchas : c \notin closed' => tries'[c] < FailureLimit
      PROVE  ScreenOK'
  BY <1>g DEF ScreenOK, Screen!TypeOK, AtCaptcha
<1>1. CASE UNCHANGED screenVars
  <2>1. AtCaptcha'
    BY <1>0, <1>1 DEF screenVars, AtCaptcha
  <2> QED
    BY <1>0, <1>1, <1>g, <2>1 DEF screenVars
<1>2. CASE Screen!GenerateCaptcha
  <2>1. /\ lastCaptcha' = lastCaptcha + 1
        /\ UNCHANGED <<closed, expired, tries, lastToken, lapsed, served, screen, misses,
                       accepted, disputed>>
    BY <1>2 DEF Screen!GenerateCaptcha, Screen!signs, Screen!seen
  <2>2. lastCaptcha' \in 0..MaxCaptchas
    BY <1>0, <1>2 DEF Screen!GenerateCaptcha
  <2>3. 1..lastCaptcha \subseteq 1..lastCaptcha'
    BY <1>l, <2>1
  <2>4. AtCaptcha'
    BY <1>0, <2>1, <2>3 DEF AtCaptcha
  <2>5. closed' \subseteq 1..lastCaptcha' /\ expired' \subseteq 1..lastCaptcha'
        /\ disputed' \subseteq 1..lastCaptcha'
    BY <1>0, <2>1, <2>3
  <2> QED
    BY <1>0, <1>g, <2>1, <2>2, <2>4, <2>5
<1>3. CASE Screen!SignChallenge
  <2>1. /\ lastToken' = lastToken + 1
        /\ UNCHANGED <<lastCaptcha, closed, expired, tries, lapsed, served, screen, misses,
                       accepted, disputed>>
    BY <1>3 DEF Screen!SignChallenge, Screen!rows, Screen!seen
  <2>2. lastToken' \in 0..MaxTokens
    BY <1>0, <1>3 DEF Screen!SignChallenge
  <2>3. 1..lastToken \subseteq 1..lastToken'
    BY <1>0, <2>1
  <2>4. AtCaptcha' /\ lapsed' \subseteq 1..lastToken'
    BY <1>0, <2>1, <2>3 DEF AtCaptcha
  <2> QED
    BY <1>0, <1>g, <2>1, <2>2, <2>4
<1>4. ASSUME (\E c \in 1..MaxCaptchas : Screen!Expire(c)) \/ (\E t \in 1..MaxTokens : Screen!Lapse(t))
      PROVE  ScreenOK'
  <2>1. /\ expired' \subseteq 1..lastCaptcha /\ lapsed' \subseteq 1..lastToken
        /\ UNCHANGED <<lastCaptcha, closed, tries, lastToken, served, screen, misses,
                       accepted, disputed>>
    BY <1>0, <1>4 DEF Screen!Expire, Screen!Lapse, Screen!rows, Screen!signs, Screen!seen
  <2>2. AtCaptcha'
    BY <1>0, <2>1 DEF AtCaptcha
  <2> QED
    BY <1>0, <1>g, <2>1, <2>2
<1>5. ASSUME NEW r \in Requests, NEW t \in 1..MaxTokens, Screen!SubmitForm(r, t) PROVE ScreenOK'
  <2>1. ScreenIs(r, "challenge", "form", 0, 0)
    BY <1>0, <1>5, ScreenSubmit
  <2>2. UNCHANGED <<lastCaptcha, closed, expired, tries, lastToken, lapsed, served, misses,
                    accepted, disputed>>
    BY <1>5 DEF Screen!SubmitForm, Screen!rows, Screen!signs, Screen!seen
  <2>3. AtCaptcha'
    BY <1>0, <1>l, <2>1, <2>2, AtCaptchaStep DEF ScreenIs
  <2> QED
    BY <1>0, <1>g, <2>1, <2>2, <2>3 DEF ScreenIs
<1>6. ASSUME NEW r \in Requests, Screen!VerifyChallenge(r) PROVE ScreenOK'
  <2>1. ScreenIs(r, "idle", "precheck", 0, 0)
    BY <1>0, <1>6, ScreenReturn DEF Screen!VerifyChallenge
  <2>2. UNCHANGED <<lastCaptcha, closed, expired, tries, lastToken, lapsed, misses,
                    accepted, disputed>>
    BY <1>6 DEF Screen!VerifyChallenge, Screen!rows, Screen!seen
  <2>3. AtCaptcha'
    BY <1>0, <1>l, <2>1, <2>2, AtCaptchaStep DEF ScreenIs
  <2>4. served' \in [1..MaxTokens -> 0..MaxServed]
    <3> DEFINE t == screen[r].token
    <3>1. CASE served' = served
      BY <1>0, <3>1
    <3>2. CASE /\ t \in (1..lastToken) \ lapsed /\ served[t] < MaxServed
               /\ served' = [served EXCEPT ![t] = @ + 1]
      <4>1. t \in 1..MaxTokens
        BY <1>0, <3>2
      <4> HIDE DEF t
      <4>2. served[t] + 1 \in 0..MaxServed
        BY <1>0, <3>2, <4>1
      <4> QED
        BY <1>0, <3>2, <4>1, <4>2
    <3> QED
      BY <1>6, <3>1, <3>2 DEF Screen!VerifyChallenge
  <2> QED
    BY <1>0, <1>g, <2>1, <2>2, <2>3, <2>4 DEF ScreenIs
<1>7. ASSUME NEW r \in Requests, Screen!Reject(r) PROVE ScreenOK'
  <2> DEFINE c == screen[r].id
             n == screen[r].snap + 1
  <2>1. /\ c \in 1..lastCaptcha /\ c \in 1..MaxCaptchas /\ screen[r].snap \in Nat
        /\ screen[r].snap < FailureLimit
        /\ ScreenIs(r, "idle", "precheck", 0, 0)
        /\ tries' = [tries EXCEPT ![c] = n]
        /\ closed' = IF n >= FailureLimit THEN closed \cup {c} ELSE closed
        /\ misses' = [misses EXCEPT ![c] = @ + 1]
        /\ UNCHANGED <<lastCaptcha, expired, lastToken, lapsed, served, accepted, disputed>>
    BY <1>7, RejectEffect
  <2>2. AtCaptcha'
    BY <1>0, <1>l, <2>1, AtCaptchaStep DEF ScreenIs
  <2>3. n \in 0..FailureLimit
    BY <2>1
  <2>4. misses[c] \in Nat /\ misses[c] + 1 \in Nat
    <3>1. misses \in [1..MaxCaptchas -> Nat] /\ c \in 1..MaxCaptchas
      BY <1>0, <2>1
    <3> QED
      BY <3>1
  <2> HIDE DEF c, n
  <2>5. tries' \in [1..MaxCaptchas -> 0..FailureLimit]
    BY <1>0, <2>1, <2>3
  <2>6. misses' \in [1..MaxCaptchas -> Nat]
    BY <1>0, <2>1, <2>4
  <2>7. closed' \subseteq 1..lastCaptcha
    <3>1. closed' = closed \cup {c} \/ closed' = closed
      BY <2>1
    <3>2. c \in 1..lastCaptcha /\ closed \subseteq 1..lastCaptcha
      BY <1>0, <2>1
    <3> QED
      BY <3>1, <3>2
  <2>8. ASSUME NEW d \in 1..MaxCaptchas, d \notin closed' PROVE tries'[d] < FailureLimit
    <3>1. CASE d = c
      BY <1>0, <2>1, <2>3, <2>8, <3>1
    <3>2. CASE d # c
      BY <1>0, <2>1, <2>8, <3>2
    <3> QED
      BY <3>1, <3>2
  <2> QED
    BY <1>0, <1>g, <2>1, <2>2, <2>5, <2>6, <2>7, <2>8 DEF ScreenIs
<1>8. ASSUME NEW r \in Requests, Screen!RejectFails(r) PROVE ScreenOK'
  <2>1. /\ screen[r].id \in 1..MaxCaptchas /\ ScreenIs(r, "idle", "precheck", 0, 0)
        /\ misses' = [misses EXCEPT ![screen[r].id] = @ + 1]
        /\ UNCHANGED <<lastCaptcha, closed, expired, tries, lastToken, lapsed, served,
                       accepted, disputed>>
    BY <1>8, RejectFailsEffect
  <2>2. AtCaptcha'
    BY <1>0, <1>l, <2>1, AtCaptchaStep DEF ScreenIs
  <2>3. misses' \in [1..MaxCaptchas -> Nat]
    <3>1. misses[screen[r].id] + 1 \in Nat
      BY <1>0, <2>1
    <3> QED
      BY <1>0, <2>1, <3>1
  <2> QED
    BY <1>0, <1>g, <2>1, <2>2, <2>3 DEF ScreenIs
<1>9. ASSUME NEW r \in Requests, Screen!Accept(r) PROVE ScreenOK'
  <2>1. /\ screen[r].id \in 1..lastCaptcha /\ screen[r].id \in 1..MaxCaptchas
        /\ closed' = closed \cup {screen[r].id} \/ closed' = closed
        /\ accepted' = [accepted EXCEPT ![screen[r].id] = @ + 1]
        /\ screen' \in [Requests -> Screen!RequestType]
        /\ screen'[r].pc \in {"idle", "challenge"}
        /\ \A s \in Requests : s # r => screen'[s] = screen[s]
        /\ UNCHANGED <<lastCaptcha, expired, tries, lastToken, lapsed, served, misses, disputed>>
    BY <1>9, AcceptEffect
  <2>2. AtCaptcha'
    BY <1>0, <1>l, <2>1, AtCaptchaStep
  <2>3. accepted' \in [1..MaxCaptchas -> Nat]
    <3>0. accepted \in [1..MaxCaptchas -> Nat] /\ screen[r].id \in 1..MaxCaptchas
      BY <1>0, <2>1
    <3>1. accepted[screen[r].id] + 1 \in Nat
      BY <3>0
    <3> QED
      BY <1>0, <2>1, <3>1
  <2> QED
    BY <1>0, <1>g, <2>1, <2>2, <2>3
<1>10. ASSUME NEW r \in Requests, NEW caller \in Screen!Callers, NEW c \in 1..MaxCaptchas,
              NEW right \in BOOLEAN, NEW t \in 0..MaxTokens,
              Screen!ReadCaptcha(r, caller, c, right, t)
       PROVE  ScreenOK'
  <2>1. /\ ScreenIs(r, IF right THEN "accept" ELSE "reject", caller, c, tries[c])
        /\ c \in 1..lastCaptcha /\ tries[c] < FailureLimit
        /\ disputed' = disputed \/ disputed' = disputed \cup {c}
        /\ UNCHANGED <<lastCaptcha, closed, expired, tries, lastToken, lapsed, served, misses,
                       accepted>>
    <3>1. /\ ScreenIs(r, IF right THEN "accept" ELSE "reject", caller, c, tries[c])
          /\ c \in 1..lastCaptcha /\ tries[c] < FailureLimit
          /\ disputed' = IF \E s \in Requests : Screen!Judging(s, c)
                         THEN disputed \cup {c} ELSE disputed
          /\ UNCHANGED <<lastCaptcha, closed, expired, tries, lastToken, lapsed, served,
                         misses, accepted>>
      BY <1>10, ScreenReadEffect
    <3>2. disputed' = disputed \/ disputed' = disputed \cup {c}
      BY <3>1
    <3> QED
      BY <3>1, <3>2
  <2>2. AtCaptcha'
    BY <1>0, <1>l, <2>1, AtCaptchaStep DEF ScreenIs
  <2> QED
    BY <1>0, <1>g, <2>1, <2>2 DEF ScreenIs
<1> QED
  BY <1>1, <1>2, <1>3, <1>4, <1>5, <1>6, <1>7, <1>8, <1>9, <1>10, ScreenSplit
     DEF Screen!Next

LEMMA ScreenInvariant == SignSpec => []ScreenOK
<1>1. SignInit => ScreenOK
  BY ScreenOKInit
<1>2. CodesOK' => faults' \in 0..MaxFaults
  BY DEF CodesOK, TypeOK
<1>3. ScreenOK /\ CodesOK' /\ [SignNext]_signVars => ScreenOK'
  BY <1>2, ScreenOKStep
<1> QED
  BY <1>1, <1>3, CodesInvariant, PTL DEF SignSpec

-----------------------------------------------------------------------------
(* A captcha is accepted once: as for the codes, except that a wrong       *)
(* answer too many closes it as well, and that the mark may fail to be     *)
(* written, after which nothing is promised.                               *)
SameScreener(r) ==
  \A k \in {"reject", "accept"} : /\ screen'[r].pc = k <=> screen[r].pc = k
                                  /\ screen[r].pc = k => screen'[r] = screen[r]

ScreenersQuiet ==
  /\ UNCHANGED <<closed, tries, misses, accepted, disputed>>
  /\ \A r \in Requests : SameScreener(r)

ScreenersAction ==
  \E r \in Requests :
     \/ Screen!Reject(r) \/ Screen!RejectFails(r) \/ Screen!Accept(r)
     \/ \E caller \in Screen!Callers, c \in 1..MaxCaptchas, right \in BOOLEAN, t \in 0..MaxTokens :
           Screen!ReadCaptcha(r, caller, c, right, t)

LEMMA ScreenersSplit ==
  ASSUME ScreenOK, [SignNext]_signVars
  PROVE  ScreenersQuiet \/ ScreenersAction
<1>0. screen \in [Requests -> Screen!RequestType]
  BY DEF ScreenOK, Screen!TypeOK
<1>1. ASSUME NEW r \in Requests, screen[r].pc \notin {"reject", "accept"},
             screen'[r].pc \notin {"reject", "accept"},
             \A s \in Requests : s # r => screen'[s] = screen[s],
             UNCHANGED <<closed, tries, misses, accepted, disputed>>
      PROVE  ScreenersQuiet
  BY <1>1 DEF ScreenersQuiet, SameScreener
<1>2. ASSUME UNCHANGED <<screen, closed, tries, misses, accepted, disputed>>
      PROVE  ScreenersQuiet
  BY <1>2 DEF ScreenersQuiet, SameScreener
<1>3. CASE \/ UNCHANGED screenVars \/ Screen!GenerateCaptcha \/ Screen!SignChallenge
           \/ \E c \in 1..MaxCaptchas : Screen!Expire(c)
           \/ \E t \in 1..MaxTokens : Screen!Lapse(t)
  BY <1>2, <1>3 DEF screenVars, Screen!GenerateCaptcha, Screen!SignChallenge, Screen!Expire,
                    Screen!Lapse, Screen!rows, Screen!seen
<1>4. ASSUME NEW r \in Requests, NEW t \in 1..MaxTokens, Screen!SubmitForm(r, t)
      PROVE  ScreenersQuiet
  <2>1. ScreenIs(r, "challenge", "form", 0, 0)
    BY <1>0, <1>4, ScreenSubmit
  <2>2. screen[r].pc = "idle" /\ UNCHANGED <<closed, tries, misses, accepted, disputed>>
    BY <1>4 DEF Screen!SubmitForm, Screen!rows, Screen!seen
  <2> QED
    BY <1>1, <2>1, <2>2 DEF ScreenIs
<1>5. ASSUME NEW r \in Requests, Screen!VerifyChallenge(r) PROVE ScreenersQuiet
  <2>1. ScreenIs(r, "idle", "precheck", 0, 0)
    BY <1>0, <1>5, ScreenReturn DEF Screen!VerifyChallenge
  <2>2. screen[r].pc = "challenge" /\ UNCHANGED <<closed, tries, misses, accepted, disputed>>
    BY <1>5 DEF Screen!VerifyChallenge, Screen!rows, Screen!seen
  <2> QED
    BY <1>1, <2>1, <2>2 DEF ScreenIs
<1> QED
  BY <1>3, <1>4, <1>5, ScreenSplit DEF Screen!Next, ScreenersAction

AcceptorsOf(c) == {r \in Requests : screen[r].pc = "accept" /\ screen[r].id = c}
OneScreener(c) ==
  \A r, s \in Requests : Screen!Judging(r, c) /\ Screen!Judging(s, c) => r = s

AcceptInv(c) ==
  faults = 0 =>
     /\ c \notin closed => accepted[c] = 0
     /\ accepted[c] + Cardinality(AcceptorsOf(c)) <= Cardinality(Requests)
     /\ c \notin disputed => /\ OneScreener(c) /\ accepted[c] <= 1
                             /\ AcceptorsOf(c) # {} => c \notin closed

LEMMA AcceptInit ==
  ASSUME SignInit, NEW c \in 1..MaxCaptchas
  PROVE  AcceptInv(c)
<1>1. \A r \in Requests : screen[r].pc = "idle"
  BY ScreenIdle DEF SignInit, Screen!Init
<1>2. AcceptorsOf(c) = {} /\ OneScreener(c)
  BY <1>1 DEF AcceptorsOf, OneScreener, Screen!Judging
<1>3. accepted[c] = 0
  BY DEF SignInit, Screen!Init
<1>4. 0 + 0 <= Cardinality(Requests)
  BY RequestsFinite
<1> QED
  BY <1>2, <1>3, <1>4, FS_EmptySet DEF AcceptInv

LEMMA AcceptStep ==
  ASSUME CodesOK, ScreenOK, [SignNext]_signVars, NEW c \in 1..MaxCaptchas, AcceptInv(c)
  PROVE  AcceptInv(c)'
<1> DEFINE U == AcceptorsOf(c)
           U2 == AcceptorsOf(c)'
           N == Cardinality(Requests)
<1>0. accepted \in [1..MaxCaptchas -> Nat] /\ screen \in [Requests -> Screen!RequestType]
  BY DEF ScreenOK, Screen!TypeOK
<1>n. accepted[c] \in Nat
  BY <1>0
<1>f. faults' = 0 => faults = 0
  <2>1. faults \in Nat
    BY DEF CodesOK, TypeOK
  <2> QED
    BY <2>1, CodesSplit DEF FaultsGrow
<1>u. /\ U \in SUBSET Requests /\ U2 \in SUBSET Requests
      /\ Cardinality(U) \in Nat /\ Cardinality(U2) \in Nat /\ N \in Nat
      /\ Cardinality(U) <= N /\ Cardinality(U2) <= N
      /\ IsFiniteSet(U) /\ IsFiniteSet(U2)
  BY RequestsFinite DEF AcceptorsOf
<1> SUFFICES ASSUME faults' = 0 PROVE AcceptInv(c)'
  BY DEF AcceptInv
<1>i. /\ c \notin closed => accepted[c] = 0
      /\ accepted[c] + Cardinality(U) <= N
      /\ c \notin disputed => /\ OneScreener(c) /\ accepted[c] <= 1
                              /\ U # {} => c \notin closed
  BY <1>f DEF AcceptInv
<1>g. ASSUME c \notin closed' => accepted'[c] = 0,
             accepted'[c] + Cardinality(U2) <= N,
             c \notin disputed' => /\ OneScreener(c)' /\ accepted'[c] <= 1
                                   /\ U2 # {} => c \notin closed'
      PROVE  AcceptInv(c)'
  BY <1>g DEF AcceptInv
<1>1. CASE ScreenersQuiet
  <2>1. U2 = U
    BY <1>1 DEF ScreenersQuiet, SameScreener, AcceptorsOf
  <2>2. \A r \in Requests : Screen!Judging(r, c)' => Screen!Judging(r, c)
    BY <1>1 DEF ScreenersQuiet, SameScreener, Screen!Judging
  <2>3. OneScreener(c) => OneScreener(c)'
    BY <2>2 DEF OneScreener
  <2> QED
    BY <1>1, <1>g, <1>i, <2>1, <2>3 DEF ScreenersQuiet
<1>2. ASSUME NEW r \in Requests, Screen!Reject(r) PROVE AcceptInv(c)'
  <2>1. /\ screen[r].pc = "reject" /\ ScreenIs(r, "idle", "precheck", 0, 0)
        /\ closed' = IF screen[r].snap + 1 >= FailureLimit
                     THEN closed \cup {screen[r].id} ELSE closed
        /\ UNCHANGED <<accepted, disputed>>
    BY <1>2, RejectEffect
  <2>2. U2 = U
    BY <2>1 DEF ScreenIs, AcceptorsOf
  <2>3. \A s \in Requests : Screen!Judging(s, c)' => s # r /\ Screen!Judging(s, c)
    BY <2>1 DEF ScreenIs, Screen!Judging
  <2>4. OneScreener(c) => OneScreener(c)'
    BY <2>3 DEF OneScreener
  <2>5. ASSUME c \notin disputed, U # {} PROVE c \notin closed'
    <3>1. PICK s \in Requests : screen[s].pc = "accept" /\ screen[s].id = c
      BY <2>5 DEF AcceptorsOf
    <3>2. s # r /\ Screen!Judging(s, c) /\ OneScreener(c) /\ c \notin closed
      BY <1>i, <2>1, <2>5, <3>1 DEF Screen!Judging
    <3>3. ~Screen!Judging(r, c)
      BY <3>2 DEF OneScreener
    <3>4. screen[r].id # c
      BY <2>1, <3>3 DEF Screen!Judging
    <3> QED
      BY <2>1, <3>2, <3>4
  <2>6. c \notin closed' => c \notin closed
    BY <2>1
  <2> QED
    BY <1>g, <1>i, <2>1, <2>2, <2>4, <2>5, <2>6
<1>3. ASSUME NEW r \in Requests, Screen!RejectFails(r) PROVE AcceptInv(c)'
  BY <1>3, RejectFailsEffect
<1>4. ASSUME NEW r \in Requests, Screen!Accept(r) PROVE AcceptInv(c)'
  <2>1. /\ screen[r].pc = "accept" /\ screen[r].id \in 1..MaxCaptchas
        /\ closed' = closed \cup {screen[r].id}
        /\ accepted' = [accepted EXCEPT ![screen[r].id] = @ + 1]
        /\ screen'[r].pc \in {"idle", "challenge"}
        /\ \A s \in Requests : s # r => screen'[s] = screen[s]
        /\ UNCHANGED disputed
    BY <1>4, AcceptEffect
  <2>2. U2 = U \ {r}
    BY <2>1 DEF AcceptorsOf
  <2>3. \A s \in Requests : Screen!Judging(s, c)' => s # r /\ Screen!Judging(s, c)
    BY <2>1 DEF Screen!Judging
  <2>4. OneScreener(c) => OneScreener(c)'
    BY <2>3 DEF OneScreener
  <2>5. CASE screen[r].id # c
    <3>1. U2 = U
      BY <2>2, <2>5 DEF AcceptorsOf
    <3>2. accepted'[c] = accepted[c] /\ (c \in closed' <=> c \in closed)
      BY <1>0, <2>1, <2>5
    <3> QED
      BY <1>g, <1>i, <2>1, <2>4, <3>1, <3>2
  <2>6. CASE screen[r].id = c
    <3>1. r \in U
      BY <2>1, <2>6 DEF AcceptorsOf
    <3>2. Cardinality(U2) = Cardinality(U) - 1
      BY <1>u, <2>2, <3>1, FS_RemoveElement
    <3>3. accepted'[c] = accepted[c] + 1 /\ c \in closed'
      BY <1>0, <2>1, <2>6
    <3>4. accepted'[c] + Cardinality(U2) <= N
      BY <1>n, <1>u, <1>i, <3>2, <3>3
    <3>5. ASSUME c \notin disputed PROVE accepted'[c] <= 1 /\ U2 = {}
      <4>1. OneScreener(c) /\ Screen!Judging(r, c)
        BY <1>i, <2>1, <2>6, <3>5 DEF Screen!Judging
      <4>2. U2 = {}
        BY <2>2, <4>1 DEF OneScreener, Screen!Judging, AcceptorsOf
      <4>3. accepted[c] = 0
        BY <1>i, <3>1, <3>5
      <4> QED
        BY <3>3, <4>2, <4>3
    <3> QED
      BY <1>g, <1>i, <2>1, <2>4, <3>3, <3>4, <3>5
  <2> QED
    BY <2>5, <2>6
<1>5. ASSUME NEW r \in Requests, NEW caller \in Screen!Callers, NEW d \in 1..MaxCaptchas,
             NEW right \in BOOLEAN, NEW t \in 0..MaxTokens,
             Screen!ReadCaptcha(r, caller, d, right, t)
      PROVE  AcceptInv(c)'
  <2>1. /\ ScreenIs(r, IF right THEN "accept" ELSE "reject", caller, d, tries[d])
        /\ screen[r].pc = "idle" /\ d \notin closed
        /\ disputed' = IF \E s \in Requests : Screen!Judging(s, d)
                       THEN disputed \cup {d} ELSE disputed
        /\ UNCHANGED <<closed, accepted>>
    BY <1>5, ScreenReadEffect
  <2>2. CASE c # d
    <3>1. \A s \in Requests : Screen!Judging(s, c)' => Screen!Judging(s, c)
      BY <2>1, <2>2 DEF ScreenIs, Screen!Judging
    <3>2. U2 = U
      BY <2>1, <2>2 DEF ScreenIs, AcceptorsOf
    <3>3. OneScreener(c) => OneScreener(c)'
      BY <3>1 DEF OneScreener
    <3>4. c \in disputed' <=> c \in disputed
      BY <2>1, <2>2
    <3> QED
      BY <1>g, <1>i, <2>1, <3>2, <3>3, <3>4
  <2>3. CASE c = d
    <3>1. accepted'[c] = 0 /\ c \notin closed'
      BY <1>i, <2>1, <2>3
    <3>2. accepted'[c] + Cardinality(U2) <= N
      BY <1>u, <3>1
    <3>3. ASSUME c \notin disputed'
          PROVE  \A s \in Requests : Screen!Judging(s, c)' => s = r
      <4>1. ~\E s \in Requests : Screen!Judging(s, c)
        BY <2>1, <2>3, <3>3
      <4> QED
        BY <2>1, <4>1 DEF Screen!Judging, ScreenIs
    <3>4. c \notin disputed' => OneScreener(c)'
      BY <3>3 DEF OneScreener
    <3> QED
      BY <1>g, <3>1, <3>2, <3>4
  <2> QED
    BY <2>2, <2>3
<1> QED
  BY <1>1, <1>2, <1>3, <1>4, <1>5, ScreenersSplit DEF ScreenersAction

(* The instance of Captcha brings its own name for what it counts with.    *)
LEMMA SameCount == Screen!Cardinality(Requests) = Cardinality(Requests)
  BY DEF Screen!Cardinality, Cardinality

AcceptCounted == \A c \in 1..MaxCaptchas : AcceptInv(c)

LEMMA AcceptInvariant == SignSpec => []AcceptCounted
<1>1. SignInit => AcceptCounted
  BY AcceptInit DEF AcceptCounted
<1>2. CodesOK /\ ScreenOK /\ AcceptCounted /\ [SignNext]_signVars => AcceptCounted'
  BY AcceptStep DEF AcceptCounted
<1> QED
  BY <1>1, <1>2, CodesInvariant, ScreenInvariant, PTL DEF SignSpec

(* While no statement fails, a captcha lets one answer through unless      *)
(* handlers worked on it at once, and never more than there are handlers   *)
(* (VerifyCaptchaWithConsume: the row is read before it is consumed).      *)
THEOREM CaptchasAreAcceptedOnce == SignSpec => []AcceptedOnceAlone
<1>1. ASSUME ScreenOK, AcceptCounted PROVE AcceptedOnceAlone
  <2>1. ASSUME faults = 0, NEW c \in 1..MaxCaptchas
        PROVE  /\ c \notin disputed => accepted[c] <= 1
               /\ accepted[c] <= Cardinality(Requests)
    <3>1. accepted[c] \in Nat
      BY <1>1 DEF ScreenOK, Screen!TypeOK
    <3>2. Cardinality(AcceptorsOf(c)) \in Nat /\ Cardinality(Requests) \in Nat
      BY RequestsFinite DEF AcceptorsOf
    <3>3. AcceptInv(c)
      BY <1>1 DEF AcceptCounted
    <3> QED
      BY <2>1, <3>1, <3>2, <3>3 DEF AcceptInv
  <2> QED
    BY <2>1, SameCount DEF AcceptedOnceAlone, Screen!AcceptedOnceAlone
<1>2. ScreenOK /\ AcceptCounted => AcceptedOnceAlone
  BY <1>1
<1> QED
  BY <1>2, AcceptInvariant, ScreenInvariant, PTL

-----------------------------------------------------------------------------
(* Two handlers lose counts.  What the wrong answers that are still to be  *)
(* judged can add is bounded by how far the count, or the count a handler  *)
(* has in hand, is from the limit: a handler that writes an old count sets *)
(* the row back, but only once, for its next read sees what was written.   *)
(* Descent(k) is twice the sum of 1..(FailureLimit - k).                   *)
Descent(k) == (FailureLimit - k) * (FailureLimit - k + 1)

LEMMA DescentStep ==
  ASSUME NEW k \in 0..FailureLimit
  PROVE  /\ Descent(k) \in Nat
         /\ k < FailureLimit => Descent(k) = Descent(k + 1) + 2 * (FailureLimit - k)
<1> DEFINE n == FailureLimit - k
<1>1. n \in Nat /\ n + 1 \in Nat
  OBVIOUS
<1>2. n * (n + 1) \in Nat
  BY <1>1
<1>3. FailureLimit - (k + 1) = n - 1 /\ FailureLimit - (k + 1) + 1 = n
  OBVIOUS
<1>4. n * (n + 1) = (n - 1) * n + 2 * n
  BY <1>1
<1> QED
  BY <1>2, <1>3, <1>4 DEF Descent

LEMMA DescentFalls ==
  ASSUME NEW k \in 0..FailureLimit, NEW l \in 0..FailureLimit, k <= l
  PROVE  Descent(l) <= Descent(k)
<1> DEFINE n == FailureLimit - k
           m == FailureLimit - l
<1>1. n \in Nat /\ m \in Nat /\ m <= n
  OBVIOUS
<1>2. \A a, b \in Nat : a <= b => a * (a + 1) <= b * (b + 1)
  OBVIOUS
<1>3. m * (m + 1) <= n * (n + 1)
  BY <1>1, <1>2
<1> QED
  BY <1>3 DEF Descent

(* The count is a and one handler has s in hand; or two have p and q.      *)
OneOwes(s, a) == IF s <= a THEN Descent(s + 1) + 2 * (FailureLimit - a) ELSE Descent(a)
TwoOwe(p, q)  == Descent(p + 1) + 2 * (FailureLimit - q)

Failing(r, c) == screen[r].pc = "reject" /\ screen[r].id = c

OpenPair(c, x, y) ==
  /\ ~Failing(x, c) /\ ~Failing(y, c) => 2 * misses[c] + Descent(tries[c]) <= Descent(0)
  /\ Failing(x, c) /\ ~Failing(y, c) =>
        2 * misses[c] + OneOwes(screen[x].snap, tries[c]) <= Descent(0)
  /\ Failing(x, c) /\ Failing(y, c) /\ screen[x].snap <= screen[y].snap =>
        2 * misses[c] + TwoOwe(screen[x].snap, screen[y].snap) <= Descent(0)

ClosedPair(c, x, y) ==
  /\ ~Failing(x, c) /\ ~Failing(y, c) => 2 * misses[c] <= Descent(0) + 2
  /\ Failing(x, c) /\ ~Failing(y, c)  => 2 * misses[c] <= Descent(0)
  /\ Failing(x, c) /\ Failing(y, c)   => 2 * misses[c] + 2 <= Descent(0)

FailPair(c, x, y) == IF c \in closed THEN ClosedPair(c, x, y) ELSE OpenPair(c, x, y)

(* A first read, and a second by the other handler, spend nothing.         *)
LEMMA ReadOwes ==
  ASSUME NEW a \in 0..FailureLimit, NEW s \in 0..FailureLimit, s < FailureLimit, a < FailureLimit
  PROVE  /\ OneOwes(a, a) = Descent(a)
         /\ s <= a => TwoOwe(s, a) <= OneOwes(s, a)
         /\ a <= s => TwoOwe(a, s) <= OneOwes(s, a)
<1>1. Descent(a) = Descent(a + 1) + 2 * (FailureLimit - a)
  BY DescentStep
<1>2. Descent(a) \in Nat /\ Descent(s) \in Nat
  BY DescentStep
<1>3. a + 1 \in 0..FailureLimit /\ s + 1 \in 0..FailureLimit
  OBVIOUS
<1>4. Descent(a + 1) \in Nat /\ Descent(s + 1) \in Nat
  BY <1>3, DescentStep
<1>5. a = s => TwoOwe(a, s) = OneOwes(s, a)
  BY DEF TwoOwe, OneOwes
<1> QED
  BY <1>1, <1>2, <1>4, <1>5 DEF OneOwes, TwoOwe

(* A wrong answer judged alone: what it was owed covers it.                *)
LEMMA RejectOwesAlone ==
  ASSUME NEW a \in 0..FailureLimit, NEW p \in 0..FailureLimit, p < FailureLimit,
         a < FailureLimit
  PROVE  Descent(p + 1) + 2 <= OneOwes(p, a)
<1>1. p + 1 \in 0..FailureLimit /\ a + 1 \in 0..FailureLimit
  OBVIOUS
<1>2. Descent(p + 1) \in Nat /\ Descent(a + 1) \in Nat /\ Descent(a) \in Nat
  BY <1>1, DescentStep
<1>3. CASE p <= a
  BY <1>2, <1>3 DEF OneOwes
<1>4. CASE p > a
  <2>1. Descent(a) = Descent(a + 1) + 2 * (FailureLimit - a)
    BY DescentStep
  <2>2. Descent(p + 1) <= Descent(a + 1)
    BY <1>1, <1>4, DescentFalls
  <2> QED
    BY <1>2, <1>4, <2>1, <2>2 DEF OneOwes
<1> QED
  BY <1>3, <1>4

(* A wrong answer judged while another is in hand.                         *)
LEMMA RejectOwes ==
  ASSUME NEW p \in 0..FailureLimit, NEW q \in 0..FailureLimit, p + 1 < FailureLimit,
         q < FailureLimit
  PROVE  /\ p <= q => OneOwes(q, p + 1) + 2 <= TwoOwe(p, q)
         /\ q <= p => OneOwes(q, p + 1) + 2 <= TwoOwe(q, p)
<1>1. p + 1 \in 0..FailureLimit /\ q + 1 \in 0..FailureLimit
  OBVIOUS
<1>2. Descent(p + 1) \in Nat /\ Descent(q + 1) \in Nat
  BY <1>1, DescentStep
<1>3. CASE q <= p
  <2>1. OneOwes(q, p + 1) = Descent(q + 1) + 2 * (FailureLimit - (p + 1))
    BY <1>3 DEF OneOwes
  <2>2. OneOwes(q, p + 1) + 2 <= TwoOwe(q, p)
    BY <1>2, <2>1 DEF TwoOwe
  <2>3. p <= q => p = q
    BY <1>3
  <2> QED
    BY <2>2, <2>3
<1>4. CASE q = p + 1
  <2>1. OneOwes(q, p + 1) = Descent(q + 1) + 2 * (FailureLimit - q)
    BY <1>4 DEF OneOwes
  <2>2. Descent(q) = Descent(q + 1) + 2 * (FailureLimit - q)
    BY DescentStep
  <2>3. TwoOwe(p, q) = Descent(q) + 2 * (FailureLimit - q)
    BY <1>4 DEF TwoOwe
  <2>4. OneOwes(q, p + 1) + 2 <= TwoOwe(p, q)
    BY <1>2, <2>1, <2>2, <2>3
  <2>5. ~(q <= p)
    BY <1>4
  <2> QED
    BY <2>4, <2>5
<1>5. CASE q > p + 1
  <2>1. OneOwes(q, p + 1) = Descent(p + 1)
    BY <1>5 DEF OneOwes
  <2>2. OneOwes(q, p + 1) + 2 <= TwoOwe(p, q)
    BY <1>2, <2>1 DEF TwoOwe
  <2>3. ~(q <= p)
    BY <1>5
  <2> QED
    BY <2>2, <2>3
<1> QED
  BY <1>3, <1>4, <1>5

(* The pair in both orders, while it is all the handlers there are.        *)
FailInv(c) ==
  faults = 0 => \A x, y \in Requests : x # y /\ Requests = {x, y} => FailPair(c, x, y)

(* One of the two has acted: what holds in one order holds in the other.   *)
Both(c, x, y) == FailPair(c, x, y) /\ FailPair(c, y, x)

LEMMA FailTypes ==
  ASSUME ScreenOK, NEW c \in 1..MaxCaptchas
  PROVE  /\ misses[c] \in Nat /\ tries[c] \in 0..FailureLimit
         /\ c \notin closed => tries[c] < FailureLimit
         /\ \A r \in Requests : Failing(r, c) => /\ screen[r].snap \in 0..FailureLimit
                                                 /\ screen[r].snap < FailureLimit
<1>1. misses[c] \in Nat /\ tries[c] \in 0..FailureLimit
  BY DEF ScreenOK, Screen!TypeOK
<1>2. c \notin closed => tries[c] < FailureLimit
  BY DEF ScreenOK
<1>3. ASSUME NEW r \in Requests, Failing(r, c)
      PROVE  screen[r].snap \in 0..FailureLimit /\ screen[r].snap < FailureLimit
  <2>1. screen \in [Requests -> Screen!RequestType]
    BY DEF ScreenOK, Screen!TypeOK
  <2>2. screen[r].snap \in Nat
    BY <2>1, ScreenFields
  <2>3. screen[r].snap < FailureLimit
    BY <1>3 DEF ScreenOK, Screen!TypeOK, Failing
  <2> QED
    BY <2>2, <2>3
<1> QED
  BY <1>1, <1>2, <1>3

(* What is owed is never negative, and no pair owes more than at first.    *)
LEMMA OwesNat ==
  ASSUME ScreenOK, NEW c \in 1..MaxCaptchas, NEW x \in Requests, NEW y \in Requests
  PROVE  /\ Descent(0) \in Nat /\ Descent(tries[c]) \in Nat
         /\ Failing(x, c) => OneOwes(screen[x].snap, tries[c]) \in Nat
         /\ Failing(x, c) /\ Failing(y, c) => /\ TwoOwe(screen[x].snap, screen[y].snap) \in Nat
                                              /\ TwoOwe(screen[x].snap, screen[y].snap) >= 2
<1>1. tries[c] \in 0..FailureLimit /\ 0 \in 0..FailureLimit
  BY FailTypes
<1>2. Descent(0) \in Nat /\ Descent(tries[c]) \in Nat
  BY <1>1, DescentStep
<1>3. ASSUME Failing(x, c)
      PROVE  /\ Descent(screen[x].snap + 1) \in Nat
             /\ OneOwes(screen[x].snap, tries[c]) \in Nat
  <2>1. screen[x].snap + 1 \in 0..FailureLimit
    BY <1>3, FailTypes
  <2>2. Descent(screen[x].snap + 1) \in Nat
    BY <2>1, DescentStep
  <2>3. 2 * (FailureLimit - tries[c]) \in Nat
    BY <1>1
  <2> QED
    BY <1>2, <2>2, <2>3 DEF OneOwes
<1>4. ASSUME Failing(x, c), Failing(y, c)
      PROVE  /\ TwoOwe(screen[x].snap, screen[y].snap) \in Nat
             /\ TwoOwe(screen[x].snap, screen[y].snap) >= 2
  <2>1. screen[y].snap \in 0..FailureLimit /\ screen[y].snap < FailureLimit
    BY <1>4, FailTypes
  <2> QED
    BY <1>3, <1>4, <2>1 DEF TwoOwe
<1> QED
  BY <1>2, <1>3, <1>4

LEMMA FailInit ==
  ASSUME SignInit, ScreenOK, NEW c \in 1..MaxCaptchas
  PROVE  FailInv(c)
<1>1. \A r \in Requests : ~Failing(r, c)
  BY ScreenIdle DEF SignInit, Screen!Init, Failing
<1>2. misses[c] = 0 /\ tries[c] = 0 /\ closed = {}
  BY DEF SignInit, Screen!Init
<1>3. Descent(0) \in Nat
  <2>1. 0 \in 0..FailureLimit
    OBVIOUS
  <2> QED
    BY <2>1, DescentStep
<1> QED
  BY <1>1, <1>2, <1>3 DEF FailInv, FailPair, OpenPair

LEMMA RejectPair ==
  ASSUME ScreenOK, NEW c \in 1..MaxCaptchas, NEW x \in Requests, NEW y \in Requests, x # y,
         Both(c, x, y), Screen!Reject(x), screen[x].id = c
  PROVE  Both(c, x, y)'
<1> DEFINE p == screen[x].snap
           w == misses[c]
<1>1. /\ screen[x].pc = "reject" /\ ScreenIs(x, "idle", "precheck", 0, 0)
      /\ tries' = [tries EXCEPT ![c] = p + 1]
      /\ closed' = IF p + 1 >= FailureLimit THEN closed \cup {c} ELSE closed
      /\ misses' = [misses EXCEPT ![c] = @ + 1]
  BY RejectEffect
<1>2. Failing(x, c) /\ ~Failing(x, c)' /\ (Failing(y, c)' <=> Failing(y, c))
      /\ screen'[y].snap = screen[y].snap
  BY <1>1 DEF ScreenIs, Failing
<1>3. tries'[c] = p + 1 /\ misses'[c] = w + 1
  <2>1. c \in DOMAIN tries /\ c \in DOMAIN misses
    BY DEF ScreenOK, Screen!TypeOK
  <2> QED
    BY <1>1, <2>1
<1>4. w \in Nat /\ p \in 0..FailureLimit /\ p < FailureLimit /\ tries[c] \in 0..FailureLimit
  BY <1>2, FailTypes
<1>5. /\ Descent(0) \in Nat /\ OneOwes(p, tries[c]) \in Nat
      /\ Failing(y, c) => /\ TwoOwe(p, screen[y].snap) >= 2 /\ TwoOwe(screen[y].snap, p) >= 2
                          /\ TwoOwe(p, screen[y].snap) \in Nat /\ TwoOwe(screen[y].snap, p) \in Nat
                          /\ screen[y].snap \in 0..FailureLimit /\ screen[y].snap < FailureLimit
  BY <1>2, OwesNat, FailTypes
<1>6. CASE Failing(y, c)
  <2> DEFINE q == screen[y].snap
  <2>1. c \in closed => 2 * w + 2 <= Descent(0)
    BY <1>2, <1>6 DEF Both, FailPair, ClosedPair
  <2>2. c \notin closed => /\ p <= q => 2 * w + TwoOwe(p, q) <= Descent(0)
                           /\ q <= p => 2 * w + TwoOwe(q, p) <= Descent(0)
    BY <1>2, <1>6 DEF Both, FailPair, OpenPair
  <2>3. /\ q \in 0..FailureLimit /\ q < FailureLimit
        /\ TwoOwe(p, q) >= 2 /\ TwoOwe(q, p) >= 2 /\ TwoOwe(p, q) \in Nat /\ TwoOwe(q, p) \in Nat
    BY <1>5, <1>6
  <2>g. /\ Failing(y, c)' /\ screen'[y].snap = q
    BY <1>2, <1>6
  <2> HIDE DEF p, q, w
  <2>4. 2 * w + 2 <= Descent(0)
    BY <1>4, <1>5, <2>1, <2>2, <2>3
  <2>5. 2 * (w + 1) <= Descent(0)
    BY <1>4, <2>4
  <2>6. CASE c \in closed'
    BY <1>2, <1>3, <2>5, <2>6, <2>g DEF Both, FailPair, ClosedPair
  <2>7. CASE c \notin closed'
    <3>1. c \notin closed /\ p + 1 < FailureLimit
      BY <1>1, <1>4, <2>7
    <3>2. /\ p <= q => OneOwes(q, p + 1) + 2 <= TwoOwe(p, q)
          /\ q <= p => OneOwes(q, p + 1) + 2 <= TwoOwe(q, p)
      BY <1>4, <2>3, <3>1, RejectOwes
    <3>3. OneOwes(q, p + 1) \in Nat
      <4>1. p + 1 \in 0..FailureLimit /\ q + 1 \in 0..FailureLimit
        BY <1>4, <2>3
      <4>2. Descent(p + 1) \in Nat /\ Descent(q + 1) \in Nat
        BY <4>1, DescentStep
      <4> QED
        BY <4>1, <4>2 DEF OneOwes
    <3>4. 2 * (w + 1) + OneOwes(q, p + 1) <= Descent(0)
      BY <1>4, <1>5, <2>2, <2>3, <3>1, <3>2, <3>3
    <3> QED
      BY <1>2, <1>3, <2>7, <2>g, <3>4 DEF Both, FailPair, OpenPair
  <2> QED
    BY <2>6, <2>7
<1>7. CASE ~Failing(y, c)
  <2>1. c \in closed => 2 * w <= Descent(0)
    BY <1>2, <1>7 DEF Both, FailPair, ClosedPair
  <2>2. c \notin closed => 2 * w + OneOwes(p, tries[c]) <= Descent(0)
    BY <1>2, <1>7 DEF Both, FailPair, OpenPair
  <2> HIDE DEF p, w
  <2>3. 2 * (w + 1) <= Descent(0) + 2
    BY <1>4, <1>5, <2>1, <2>2
  <2>4. CASE c \in closed'
    BY <1>2, <1>3, <1>7, <2>3, <2>4 DEF Both, FailPair, ClosedPair
  <2>5. CASE c \notin closed'
    <3>1. c \notin closed /\ p + 1 < FailureLimit
      BY <1>1, <1>4, <2>5
    <3>2. tries[c] < FailureLimit
      BY <3>1, FailTypes
    <3>3. Descent(p + 1) + 2 <= OneOwes(p, tries[c])
      BY <1>4, <3>2, RejectOwesAlone
    <3>4. p + 1 \in 0..FailureLimit
      BY <1>4
    <3>5. Descent(p + 1) \in Nat
      BY <3>4, DescentStep
    <3>6. 2 * (w + 1) + Descent(p + 1) <= Descent(0)
      BY <1>4, <1>5, <2>2, <3>1, <3>3, <3>5
    <3> QED
      BY <1>2, <1>3, <1>7, <2>5, <3>6 DEF Both, FailPair, OpenPair
  <2> QED
    BY <2>4, <2>5
<1> QED
  BY <1>6, <1>7

LEMMA AcceptPair ==
  ASSUME ScreenOK, NEW c \in 1..MaxCaptchas, NEW x \in Requests, NEW y \in Requests, x # y,
         Both(c, x, y), Screen!Accept(x)
  PROVE  Both(c, x, y)'
<1>1. /\ screen[x].pc = "accept" /\ screen'[x].pc # "reject"
      /\ closed' = closed \cup {screen[x].id} \/ closed' = closed
      /\ screen'[y] = screen[y] /\ UNCHANGED <<tries, misses>>
  BY AcceptEffect
<1>2. ~Failing(x, c) /\ ~Failing(x, c)' /\ (Failing(y, c)' <=> Failing(y, c))
  BY <1>1 DEF Failing
<1>3. CASE c \in closed <=> c \in closed'
  BY <1>1, <1>2, <1>3 DEF Both, FailPair, OpenPair, ClosedPair
<1>4. CASE c \notin closed /\ c \in closed'
  <2>1. misses[c] \in Nat /\ Descent(0) \in Nat
    BY FailTypes, OwesNat
  <2>2. PICK o \in Nat : 2 * misses[c] + o <= Descent(0)
    <3>1. CASE Failing(y, c)
      <4>1. OneOwes(screen[y].snap, tries[c]) \in Nat
        BY <3>1, OwesNat
      <4>2. 2 * misses[c] + OneOwes(screen[y].snap, tries[c]) <= Descent(0)
        BY <1>2, <1>4, <3>1 DEF Both, FailPair, OpenPair
      <4> QED
        BY <4>1, <4>2
    <3>2. CASE ~Failing(y, c)
      <4>1. Descent(tries[c]) \in Nat
        BY OwesNat
      <4>2. 2 * misses[c] + Descent(tries[c]) <= Descent(0)
        BY <1>2, <1>4, <3>2 DEF Both, FailPair, OpenPair
      <4> QED
        BY <4>1, <4>2
    <3> QED
      BY <3>1, <3>2
  <2>3. 2 * misses[c] <= Descent(0)
    BY <2>1, <2>2
  <2>4. 2 * misses[c] <= Descent(0) + 2
    BY <2>1, <2>3
  <2> QED
    BY <1>1, <1>2, <1>4, <2>3, <2>4 DEF Both, FailPair, ClosedPair
<1>5. c \in closed => c \in closed'
  BY <1>1
<1> QED
  BY <1>3, <1>4, <1>5

LEMMA ReadPair ==
  ASSUME ScreenOK, NEW c \in 1..MaxCaptchas, NEW x \in Requests, NEW y \in Requests, x # y,
         Both(c, x, y), NEW caller \in Screen!Callers, NEW d \in 1..MaxCaptchas,
         NEW right \in BOOLEAN, NEW t \in 0..MaxTokens,
         Screen!ReadCaptcha(x, caller, d, right, t)
  PROVE  Both(c, x, y)'
<1> DEFINE w == misses[c]
           a == tries[c]
<1>1. /\ ScreenIs(x, IF right THEN "accept" ELSE "reject", caller, d, tries[d])
      /\ screen[x].pc = "idle" /\ d \notin closed /\ UNCHANGED <<closed, tries, misses>>
  BY ScreenReadEffect
<1>2. /\ ~Failing(x, c) /\ (Failing(y, c)' <=> Failing(y, c)) /\ screen'[y] = screen[y]
      /\ Failing(x, c)' <=> ~right /\ d = c
  BY <1>1 DEF ScreenIs, Failing
<1>3. CASE ~Failing(x, c)'
  BY <1>1, <1>2, <1>3 DEF Both, FailPair, OpenPair, ClosedPair
<1>4. CASE Failing(x, c)'
  <2>1. c \notin closed /\ c \notin closed' /\ screen'[x].snap = a
    BY <1>1, <1>2, <1>4 DEF ScreenIs
  <2>2. w \in Nat /\ a \in 0..FailureLimit /\ a < FailureLimit /\ Descent(0) \in Nat
    BY <2>1, FailTypes, OwesNat
  <2>3. CASE Failing(y, c)
    <3> DEFINE s == screen[y].snap
    <3>1. s \in 0..FailureLimit /\ s < FailureLimit /\ OneOwes(s, a) \in Nat
      BY <2>3, FailTypes, OwesNat
    <3>2. 2 * w + OneOwes(s, a) <= Descent(0)
      BY <1>2, <2>1, <2>3 DEF Both, FailPair, OpenPair
    <3>g. Failing(y, c)' /\ screen'[y].snap = s /\ misses'[c] = w
      BY <1>1, <1>2, <2>3
    <3> HIDE DEF s, a, w
    <3>3. /\ s <= a => TwoOwe(s, a) <= OneOwes(s, a)
          /\ a <= s => TwoOwe(a, s) <= OneOwes(s, a)
      BY <2>2, <3>1, ReadOwes
    <3>4. /\ s <= a => TwoOwe(s, a) \in Nat
          /\ a <= s => TwoOwe(a, s) \in Nat
      <4>1. a + 1 \in 0..FailureLimit /\ s + 1 \in 0..FailureLimit
        BY <2>2, <3>1
      <4>2. Descent(a + 1) \in Nat /\ Descent(s + 1) \in Nat
        BY <4>1, DescentStep
      <4> QED
        BY <2>2, <3>1, <4>2 DEF TwoOwe
    <3>5. /\ s <= a => 2 * w + TwoOwe(s, a) <= Descent(0)
          /\ a <= s => 2 * w + TwoOwe(a, s) <= Descent(0)
      BY <2>2, <3>1, <3>2, <3>3, <3>4
    <3> QED
      BY <1>4, <2>1, <3>5, <3>g DEF Both, FailPair, OpenPair
  <2>4. CASE ~Failing(y, c)
    <3>1. 2 * w + Descent(a) <= Descent(0)
      BY <1>2, <2>1, <2>4 DEF Both, FailPair, OpenPair
    <3>2. OneOwes(a, a) = Descent(a)
      BY <2>2, ReadOwes
    <3>g. ~Failing(y, c)' /\ tries'[c] = a /\ misses'[c] = w
      BY <1>1, <1>2, <2>4
    <3> HIDE DEF a, w
    <3> QED
      BY <1>4, <2>1, <3>1, <3>2, <3>g DEF Both, FailPair, OpenPair
  <2> QED
    BY <2>3, <2>4
<1> QED
  BY <1>3, <1>4

LEMMA FailStep ==
  ASSUME CodesOK, ScreenOK, [SignNext]_signVars, NEW c \in 1..MaxCaptchas, FailInv(c)
  PROVE  FailInv(c)'
<1>f. faults' = 0 => faults = 0
  <2>1. faults \in Nat
    BY DEF CodesOK, TypeOK
  <2> QED
    BY <2>1, CodesSplit DEF FaultsGrow
<1> SUFFICES ASSUME faults' = 0, NEW x \in Requests, NEW y \in Requests, x # y, Requests = {x, y}
             PROVE  FailPair(c, x, y)'
  BY DEF FailInv
<1>0. Both(c, x, y) /\ Both(c, y, x)
  BY <1>f DEF FailInv, Both
<1>1. CASE ScreenersQuiet
  <2>1. UNCHANGED <<closed, tries, misses>>
    BY <1>1 DEF ScreenersQuiet
  <2>2. ASSUME NEW r \in {x, y}
        PROVE  /\ Failing(r, c)' <=> Failing(r, c)
               /\ Failing(r, c) => screen'[r] = screen[r]
    BY <1>1, <2>2 DEF ScreenersQuiet, SameScreener, Failing
  <2> QED
    BY <1>0, <2>1, <2>2 DEF Both, FailPair, OpenPair, ClosedPair
<1>2. ASSUME NEW r \in Requests, Screen!Reject(r) PROVE FailPair(c, x, y)'
  <2>1. CASE screen[r].id = c
    <3>1. CASE r = x
      BY <1>0, <1>2, <2>1, <3>1, RejectPair DEF Both
    <3>2. CASE r = y
      BY <1>0, <1>2, <2>1, <3>2, RejectPair DEF Both
    <3> QED
      BY <3>1, <3>2
  <2>2. CASE screen[r].id # c
    <3>1. /\ ScreenIs(r, "idle", "precheck", 0, 0)
          /\ tries' = [tries EXCEPT ![screen[r].id] = screen[r].snap + 1]
          /\ closed' = IF screen[r].snap + 1 >= FailureLimit
                       THEN closed \cup {screen[r].id} ELSE closed
          /\ misses' = [misses EXCEPT ![screen[r].id] = @ + 1]
      BY <1>2, RejectEffect
    <3>2. tries'[c] = tries[c] /\ misses'[c] = misses[c] /\ (c \in closed' <=> c \in closed)
      <4>1. c \in DOMAIN tries /\ c \in DOMAIN misses
        BY DEF ScreenOK, Screen!TypeOK
      <4> QED
        BY <2>2, <3>1, <4>1
    <3>3. ASSUME NEW s \in {x, y}
          PROVE  /\ Failing(s, c)' <=> Failing(s, c)
                 /\ Failing(s, c) => screen'[s] = screen[s]
      BY <2>2, <3>1, <3>3 DEF ScreenIs, Failing
    <3> QED
      BY <1>0, <3>2, <3>3 DEF Both, FailPair, OpenPair, ClosedPair
  <2> QED
    BY <2>1, <2>2
<1>3. ASSUME NEW r \in Requests, Screen!RejectFails(r) PROVE FailPair(c, x, y)'
  BY <1>3, RejectFailsEffect
<1>4. ASSUME NEW r \in Requests, Screen!Accept(r) PROVE FailPair(c, x, y)'
  <2>1. CASE r = x
    BY <1>0, <1>4, <2>1, AcceptPair DEF Both
  <2>2. CASE r = y
    BY <1>0, <1>4, <2>2, AcceptPair DEF Both
  <2> QED
    BY <2>1, <2>2
<1>5. ASSUME NEW r \in Requests, NEW caller \in Screen!Callers, NEW d \in 1..MaxCaptchas,
             NEW right \in BOOLEAN, NEW t \in 0..MaxTokens,
             Screen!ReadCaptcha(r, caller, d, right, t)
      PROVE  FailPair(c, x, y)'
  <2>1. CASE r = x
    BY <1>0, <1>5, <2>1, ReadPair DEF Both
  <2>2. CASE r = y
    BY <1>0, <1>5, <2>2, ReadPair DEF Both
  <2> QED
    BY <2>1, <2>2
<1> QED
  BY <1>1, <1>2, <1>3, <1>4, <1>5, ScreenersSplit DEF ScreenersAction

FailCounted == \A c \in 1..MaxCaptchas : FailInv(c)

LEMMA FailInvariant == SignSpec => []FailCounted
<1>1. ASSUME SignInit PROVE FailCounted
  BY <1>1, ScreenOKInit, FailInit DEF FailCounted
<1>2. SignInit => FailCounted
  BY <1>1
<1>3. CodesOK /\ ScreenOK /\ FailCounted /\ [SignNext]_signVars => FailCounted'
  BY FailStep DEF FailCounted
<1> QED
  BY <1>2, <1>3, CodesInvariant, ScreenInvariant, PTL DEF SignSpec

LEMMA TwoRequests ==
  ASSUME Cardinality(Requests) = 2
  PROVE  \E x, y \in Requests : x # y /\ Requests = {x, y}
<1>1. PICK x : x \in Requests
  OBVIOUS
<1>2. Cardinality(Requests \ {x}) = 1 /\ IsFiniteSet(Requests \ {x})
  BY <1>1, FS_RemoveElement
<1>3. PICK y : y \in Requests \ {x}
  BY <1>2, FS_EmptySet
<1> DEFINE Q == Requests \ {x}
<1>4. Q \ {y} = {}
  <2>1. IsFiniteSet(Q) /\ Cardinality(Q) = 1 /\ y \in Q
    BY <1>2, <1>3
  <2> HIDE DEF Q
  <2>2. IsFiniteSet(Q \ {y}) /\ Cardinality(Q \ {y}) = 0
    BY <2>1, FS_RemoveElement
  <2> QED
    BY <2>2, FS_EmptySet
<1>5. (Requests \ {x}) \ {y} = {}
  BY <1>4
<1> QED
  BY <1>1, <1>3, <1>5

(* Of two handlers that answer a captcha at once, one can write its old    *)
(* count over the other's, once for each value below the limit             *)
(* (incrAttempt): whatever the limit, no more wrong answers are judged     *)
(* than half of limit times its successor, and one.                        *)
THEOREM FailuresAreBounded == SignSpec => []FailuresOfTwoBounded
<1>1. ASSUME ScreenOK, FailCounted PROVE FailuresOfTwoBounded
  <2>1. ASSUME faults = 0, Cardinality(Requests) = 2, NEW c \in 1..MaxCaptchas
        PROVE  2 * misses[c] <= FailureLimit * (FailureLimit + 1) + 2
    <3>1. PICK x, y \in Requests : x # y /\ Requests = {x, y}
      BY <2>1, TwoRequests
    <3>2. Both(c, x, y)
      BY <1>1, <2>1, <3>1 DEF FailCounted, FailInv, Both
    <3>3. /\ misses[c] \in Nat
          /\ Descent(0) \in Nat /\ Descent(tries[c]) \in Nat
          /\ Failing(x, c) => OneOwes(screen[x].snap, tries[c]) \in Nat
          /\ Failing(y, c) => OneOwes(screen[y].snap, tries[c]) \in Nat
          /\ Failing(x, c) /\ Failing(y, c) =>
                /\ TwoOwe(screen[x].snap, screen[y].snap) \in Nat
                /\ TwoOwe(screen[y].snap, screen[x].snap) \in Nat
                /\ screen[x].snap \in Nat /\ screen[y].snap \in Nat
      BY <1>1, FailTypes, OwesNat
    <3>4. CASE c \in closed
      <4>1. ClosedPair(c, x, y) /\ ClosedPair(c, y, x)
        BY <3>2, <3>4 DEF Both, FailPair
      <4>2. \/ 2 * misses[c] <= Descent(0) + 2 \/ 2 * misses[c] <= Descent(0)
            \/ 2 * misses[c] + 2 <= Descent(0)
        BY <4>1 DEF ClosedPair
      <4> QED
        BY <3>3, <4>2 DEF Descent
    <3>5. CASE c \notin closed
      <4>1. OpenPair(c, x, y) /\ OpenPair(c, y, x)
        BY <3>2, <3>5 DEF Both, FailPair
      <4>2. 2 * misses[c] <= Descent(0)
        BY <3>3, <4>1 DEF OpenPair
      <4> QED
        BY <3>3, <4>2 DEF Descent
    <3> QED
      BY <3>4, <3>5
  <2> QED
    BY <2>1, SameCount DEF FailuresOfTwoBounded, Screen!FailuresOfTwoBounded
<1>2. ScreenOK /\ FailCounted => FailuresOfTwoBounded
  BY <1>1
<1> QED
  BY <1>2, FailInvariant, ScreenInvariant, PTL

-----------------------------------------------------------------------------
(* Codes are paid for.  A captcha that was accepted from a handler of      *)
(* SendEmailCode is in that handler's hand, until the handler makes its    *)
(* code or is refused: what is in hand and what was bought with a captcha  *)
(* is together no more than it was accepted.                               *)
Bought(c) == {i \in Rows : paidBy[i] = c}
Payers(c) == {r \in Requests : paid[r] = c}

PayTypes ==
  /\ required \in BOOLEAN
  /\ paid \in [Requests -> 0..lastCaptcha] /\ paidBy \in [Ids -> 0..lastCaptcha]
  /\ \A r \in Requests : paid[r] # Unpaid => screen[r].pc = "idle"

PaidFirst ==
  required => /\ \A r \in Requests : req[r].pc = "insert" => paid[r] # Unpaid
              /\ \A i \in Rows : paidBy[i] # Unpaid

Covered(c) == Cardinality(Bought(c)) + Cardinality(Payers(c)) <= accepted[c]

PayInv == PayTypes /\ PaidFirst /\ \A c \in 1..MaxCaptchas : Covered(c)

LEMMA PayFinite ==
  ASSUME CodesOK, NEW c
  PROVE  /\ IsFiniteSet(Bought(c)) /\ Cardinality(Bought(c)) \in Nat
         /\ IsFiniteSet(Payers(c)) /\ Cardinality(Payers(c)) \in Nat
<1>1. IsFiniteSet(1..lastCode)
  BY FS_Interval DEF CodesOK, TypeOK
<1>2. Bought(c) \subseteq 1..lastCode /\ Payers(c) \in SUBSET Requests
  BY DEF Bought, Payers, Rows
<1> QED
  BY <1>1, <1>2, FS_Subset, FS_CardinalityType, RequestsFinite

LEMMA PayInit == SignInit => PayInv
<1> SUFFICES ASSUME SignInit PROVE PayInv
  OBVIOUS
<1>1. /\ paid = [r \in Requests |-> 0] /\ paidBy = [i \in Ids |-> 0] /\ required \in BOOLEAN
      /\ Rows = {} /\ lastCaptcha = 0
  BY DEF SignInit, Unpaid, Init, Screen!Init, Rows
<1>2. \A r \in Requests : req[r].pc = "idle"
  BY IdleFields DEF SignInit, Init
<1>3. 0 \in 0..lastCaptcha
  BY <1>1
<1>4. PayTypes
  BY <1>1, <1>3 DEF PayTypes, Unpaid
<1>5. PaidFirst
  BY <1>1, <1>2 DEF PaidFirst
<1>6. ASSUME NEW c \in 1..MaxCaptchas PROVE Covered(c)
  <2>1. Bought(c) = {} /\ Payers(c) = {}
    BY <1>1 DEF Bought, Payers
  <2>2. accepted[c] = 0
    BY DEF SignInit, Screen!Init
  <2> QED
    BY <2>1, <2>2, FS_EmptySet DEF Covered
<1> QED
  BY <1>4, <1>5, <1>6 DEF PayInv

LEMMA AcceptedGrows ==
  ASSUME ScreenOK, [SignNext]_signVars, NEW c \in 1..MaxCaptchas
  PROVE  accepted[c] \in Nat /\ accepted'[c] \in Nat /\ accepted[c] <= accepted'[c]
<1>1. accepted \in [1..MaxCaptchas -> Nat]
  BY DEF ScreenOK, Screen!TypeOK
<1>2. accepted[c] \in Nat
  BY <1>1
<1>3. accepted'[c] = accepted[c] \/ accepted'[c] = accepted[c] + 1
  <2>1. CASE ScreenersQuiet
    BY <2>1 DEF ScreenersQuiet
  <2>2. ASSUME NEW r \in Requests, Screen!Accept(r)
        PROVE  accepted'[c] = accepted[c] \/ accepted'[c] = accepted[c] + 1
    BY <1>1, <2>2, AcceptEffect
  <2>3. ASSUME NEW r \in Requests, Screen!Reject(r) \/ Screen!RejectFails(r)
        PROVE  accepted' = accepted
    BY <2>3, RejectEffect, RejectFailsEffect
  <2>4. ASSUME NEW r, NEW caller, NEW d, NEW right, NEW t,
               Screen!ReadCaptcha(r, caller, d, right, t)
        PROVE  accepted' = accepted
    BY <2>4 DEF Screen!ReadCaptcha
  <2> QED
    BY <2>1, <2>2, <2>3, <2>4, ScreenersSplit DEF ScreenersAction
<1> QED
  BY <1>2, <1>3

LEMMA CaptchasGrow ==
  ASSUME ScreenOK, [SignNext]_signVars
  PROVE  lastCaptcha \in Nat /\ lastCaptcha' \in Nat /\ lastCaptcha <= lastCaptcha'
<1>1. lastCaptcha \in Nat
  BY DEF ScreenOK, Screen!TypeOK
<1>2. lastCaptcha' = lastCaptcha \/ lastCaptcha' = lastCaptcha + 1
  <2>1. CASE UNCHANGED screenVars
    BY <2>1 DEF screenVars
  <2>2. CASE Screen!GenerateCaptcha
    BY <2>2 DEF Screen!GenerateCaptcha
  <2>3. CASE Screen!SignChallenge \/ \E t \in 1..MaxTokens : Screen!Lapse(t)
    BY <2>3 DEF Screen!SignChallenge, Screen!Lapse, Screen!rows
  <2>4. CASE \E c \in 1..MaxCaptchas : Screen!Expire(c)
    BY <2>4 DEF Screen!Expire
  <2>5. CASE \E r \in Requests, t \in 1..MaxTokens : Screen!SubmitForm(r, t)
    BY <2>5 DEF Screen!SubmitForm, Screen!rows
  <2>6. CASE \E r \in Requests, caller \in Screen!Callers, c \in 1..MaxCaptchas,
                right \in BOOLEAN, t \in 0..MaxTokens :
                Screen!ReadCaptcha(r, caller, c, right, t)
    BY <2>6 DEF Screen!ReadCaptcha, Screen!rows
  <2>7. ASSUME NEW r \in Requests, Screen!Reject(r) PROVE lastCaptcha' = lastCaptcha
    BY <2>7 DEF Screen!Reject
  <2>8. ASSUME NEW r \in Requests, Screen!RejectFails(r) PROVE lastCaptcha' = lastCaptcha
    BY <2>8 DEF Screen!RejectFails, Screen!rows
  <2>9. ASSUME NEW r \in Requests, Screen!Accept(r) PROVE lastCaptcha' = lastCaptcha
    BY <2>9 DEF Screen!Accept
  <2>10. ASSUME NEW r \in Requests, Screen!VerifyChallenge(r) PROVE lastCaptcha' = lastCaptcha
    BY <2>10 DEF Screen!VerifyChallenge, Screen!rows
  <2> QED
    BY <2>1, <2>2, <2>3, <2>4, <2>5, <2>6, <2>7, <2>8, <2>9, <2>10, ScreenSplit
       DEF Screen!Next
<1> QED
  BY <1>1, <1>2

(* Who is about to make a code, after a step of a handler that is not      *)
(* asking for one.                                                         *)
LEMMA ProceedAsks ==
  ASSUME CodesOK, NEW r \in Requests, Proceed(r), NEW s \in Requests, req'[s].pc = "insert"
  PROVE  req[s].pc = "insert" /\ UNCHANGED lastCode
<1>0. req \in [Requests -> RequestType]
  BY DEF CodesOK, TypeOK
<1>1. CASE LogRequest(r)
  BY <1>0, <1>1, GotoIs DEF ReqIs, LogRequest
<1>2. CASE MailCode(r) \/ CountAttempt(r) \/ LoginByEmailCode(r)
           \/ \E x, y \in BOOLEAN : Register(r, x, y)
  <2>1. Return(r) /\ UNCHANGED lastCode
    BY <1>2 DEF MailCode, CountAttempt, LoginByEmailCode, Register, codes
  <2> QED
    BY <1>0, <2>1, ReturnIs
<1>3. CASE UseCode(r)
  BY <1>3, UseEffect
<1> QED
  BY <1>1, <1>2, <1>3 DEF Proceed

LEMMA PayKept ==
  ASSUME CodesOK, ScreenOK, [SignNext]_signVars, PayInv, UNCHANGED <<payment, lastCode>>,
         \A r \in Requests : req'[r].pc = "insert" =>
                                req[r].pc = "insert" \/ (required => paid[r] # Unpaid),
         \A r \in Requests : paid[r] # Unpaid => screen'[r].pc = "idle"
  PROVE  PayInv'
<1>1. UNCHANGED <<required, paid, paidBy, lastCode>> /\ Rows' = Rows
  BY DEF payment, Rows
<1>2. 0..lastCaptcha \subseteq 0..lastCaptcha'
  BY CaptchasGrow
<1>3. PayTypes'
  BY <1>1, <1>2 DEF PayInv, PayTypes
<1>4. PaidFirst'
  BY <1>1 DEF PayInv, PaidFirst
<1>5. ASSUME NEW c \in 1..MaxCaptchas PROVE Covered(c)'
  <2>1. Bought(c)' = Bought(c) /\ Payers(c)' = Payers(c)
    BY <1>1 DEF Bought, Payers
  <2>2. Covered(c)
    BY DEF PayInv
  <2>3. /\ Cardinality(Bought(c)) \in Nat /\ Cardinality(Payers(c)) \in Nat
        /\ accepted[c] \in Nat /\ accepted'[c] \in Nat /\ accepted[c] <= accepted'[c]
    BY PayFinite, AcceptedGrows
  <2> QED
    BY <2>1, <2>2, <2>3 DEF Covered
<1> QED
  BY <1>3, <1>4, <1>5 DEF PayInv

(* A handler's captcha is accepted, lost, or spent on a code.              *)
LEMMA PayByStep ==
  ASSUME CodesOK, ScreenOK, PayInv, NEW r \in Requests, [SignNext]_signVars, PayByCaptcha(r)
  PROVE  PayInv'
<1> DEFINE d == screen[r].id
<1>1. /\ screen[r].pc = "accept" /\ d \in 1..lastCaptcha /\ d \in 1..MaxCaptchas
      /\ screen[r].caller = "code" /\ screen'[r].pc = "idle"
      /\ \A s \in Requests : s # r => screen'[s] = screen[s]
      /\ accepted' = [accepted EXCEPT ![d] = @ + 1] /\ lastCaptcha' = lastCaptcha
  BY AcceptEffect DEF PayByCaptcha
<1>2. /\ paid' = [paid EXCEPT ![r] = d]
      /\ UNCHANGED <<req, required, paidBy, lastCode>>
  BY DEF PayByCaptcha, Pay, codes
<1>3. PayTypes /\ PaidFirst /\ paid[r] = Unpaid
  BY <1>1 DEF PayInv, PayTypes
<1>4. d # Unpaid /\ d \in 0..lastCaptcha
  <2>1. lastCaptcha \in Nat
    BY CaptchasGrow
  <2> QED
    BY <1>1, <2>1 DEF Unpaid
<1> HIDE DEF d
<1>5. PayTypes'
  BY <1>1, <1>2, <1>3, <1>4 DEF PayTypes
<1>6. PaidFirst'
  BY <1>2, <1>3, <1>4 DEF PayTypes, PaidFirst, Rows
<1>7. ASSUME NEW c \in 1..MaxCaptchas PROVE Covered(c)'
  <2>1. Bought(c)' = Bought(c)
    BY <1>2 DEF Bought, Rows
  <2>2. /\ Covered(c) /\ accepted[c] \in Nat /\ accepted \in [1..MaxCaptchas -> Nat]
        /\ IsFiniteSet(Payers(c)) /\ Cardinality(Payers(c)) \in Nat
        /\ Cardinality(Bought(c)) \in Nat
    BY PayFinite, AcceptedGrows DEF PayInv, ScreenOK, Screen!TypeOK
  <2>3. CASE c = d
    <3>1. Payers(c)' = Payers(c) \cup {r} /\ r \notin Payers(c)
      BY <1>2, <1>3, <1>4, <2>3 DEF Payers, PayTypes
    <3>2. Cardinality(Payers(c)') = Cardinality(Payers(c)) + 1
      BY <2>2, <3>1, FS_AddElement
    <3>3. accepted'[c] = accepted[c] + 1
      BY <1>1, <2>2, <2>3
    <3> QED
      BY <2>1, <2>2, <3>2, <3>3 DEF Covered
  <2>4. CASE c # d
    <3>1. Payers(c)' = Payers(c)
      <4>1. c # Unpaid
        BY DEF Unpaid
      <4> QED
        BY <1>2, <1>3, <2>4, <4>1 DEF Payers, PayTypes
    <3>2. accepted'[c] = accepted[c]
      BY <1>1, <2>2, <2>4
    <3> QED
      BY <2>1, <2>2, <3>1, <3>2 DEF Covered
  <2> QED
    BY <2>3, <2>4
<1> QED
  BY <1>5, <1>6, <1>7 DEF PayInv

LEMMA RefuseStep ==
  ASSUME CodesOK, ScreenOK, PayInv, NEW r \in Requests, NEW e, NEW p, Refuse(r, e, p)
  PROVE  PayInv'
<1>1. /\ paid' = [paid EXCEPT ![r] = Unpaid] /\ req[r].pc = "idle"
      /\ UNCHANGED <<req, lastCode, screen, lastCaptcha, accepted, required, paidBy>>
  BY DEF Refuse, Pay, vars, codes, screenVars
<1>2. PayTypes /\ PaidFirst
  BY DEF PayInv
<1>3. Unpaid \in 0..lastCaptcha
  <2>1. lastCaptcha \in Nat
    BY DEF ScreenOK, Screen!TypeOK
  <2> QED
    BY <2>1 DEF Unpaid
<1>4. PayTypes'
  BY <1>1, <1>2, <1>3 DEF PayTypes
<1>5. PaidFirst'
  <2>1. \A s \in Requests : s # r => paid'[s] = paid[s]
    BY <1>1, <1>2 DEF PayTypes
  <2> QED
    BY <1>1, <1>2, <2>1 DEF PaidFirst, Rows
<1>6. ASSUME NEW c \in 1..MaxCaptchas PROVE Covered(c)'
  <2>1. Bought(c)' = Bought(c)
    BY <1>1 DEF Bought, Rows
  <2>2. Payers(c)' \subseteq Payers(c)
    <3>1. c # Unpaid
      BY DEF Unpaid
    <3> QED
      BY <1>1, <1>2, <3>1 DEF Payers, PayTypes
  <2>3. /\ Covered(c) /\ accepted[c] \in Nat
        /\ IsFiniteSet(Payers(c)) /\ Cardinality(Payers(c)) \in Nat
        /\ Cardinality(Bought(c)) \in Nat
    BY PayFinite DEF PayInv, ScreenOK, Screen!TypeOK
  <2>4. Cardinality(Payers(c)') <= Cardinality(Payers(c)) /\ IsFiniteSet(Payers(c)')
    BY <2>2, <2>3, FS_Subset
  <2>5. Cardinality(Payers(c)') \in Nat
    BY <2>4, FS_CardinalityType
  <2> QED
    BY <1>1, <2>1, <2>3, <2>4, <2>5 DEF Covered
<1> QED
  BY <1>4, <1>5, <1>6 DEF PayInv

LEMMA MakeStep ==
  ASSUME CodesOK, ScreenOK, PayInv, NEW r \in Requests, MakeCode(r)
  PROVE  PayInv'
<1> DEFINE i == lastCode + 1
           b == paid[r]
<1>1. /\ req[r].pc = "insert" /\ lastCode' = i
      /\ paidBy' = [paidBy EXCEPT ![i] = b]
      /\ paid' = [paid EXCEPT ![r] = Unpaid]
      /\ UNCHANGED <<screen, lastCaptcha, accepted, required>>
  BY DEF MakeCode, CreateVerificationCode, Pay, screenVars
<1>2. ReqIs(r, "log", req[r].email, req[r].purpose, i, req[r].snap)
  <2>1. req \in [Requests -> RequestType] /\ lastCode \in 0..MaxCodes
    BY DEF CodesOK, TypeOK
  <2> QED
    BY <2>1, MakeIs DEF MakeCode
<1>3. PayTypes /\ PaidFirst
  BY DEF PayInv
<1>4. i \in Ids /\ Rows' = Rows \cup {i} /\ i \notin Rows /\ Rows \subseteq Ids
  <2>1. lastCode \in 0..MaxCodes /\ lastCode < MaxCodes
    BY DEF CodesOK, TypeOK, MakeCode, CreateVerificationCode
  <2> QED
    BY <1>1, <2>1 DEF Rows
<1>5. Unpaid \in 0..lastCaptcha /\ b \in 0..lastCaptcha
  <2>1. lastCaptcha \in Nat
    BY DEF ScreenOK, Screen!TypeOK
  <2>2. b \in 0..lastCaptcha
    BY <1>3 DEF PayTypes
  <2> QED
    BY <2>1, <2>2 DEF Unpaid
<1> HIDE DEF i
<1>6. PayTypes'
  BY <1>1, <1>3, <1>4, <1>5 DEF PayTypes
<1>7. PaidFirst'
  <2>1. \A s \in Requests : s # r => paid'[s] = paid[s] /\ req'[s] = req[s]
    BY <1>1, <1>2, <1>3 DEF PayTypes, ReqIs
  <2>2. req'[r].pc # "insert"
    BY <1>2 DEF ReqIs
  <2>3. \A j \in Rows : paidBy'[j] = paidBy[j]
    BY <1>1, <1>3, <1>4 DEF PayTypes
  <2>4. paidBy'[i] = b
    BY <1>1, <1>3, <1>4 DEF PayTypes
  <2>5. required => b # Unpaid
    BY <1>1, <1>3 DEF PaidFirst
  <2> QED
    BY <1>1, <1>3, <1>4, <2>1, <2>2, <2>3, <2>4, <2>5 DEF PaidFirst
<1>8. ASSUME NEW c \in 1..MaxCaptchas PROVE Covered(c)'
  <2>0. c # Unpaid
    BY DEF Unpaid
  <2>1. /\ Covered(c) /\ accepted[c] \in Nat
        /\ IsFiniteSet(Payers(c)) /\ Cardinality(Payers(c)) \in Nat
        /\ IsFiniteSet(Bought(c)) /\ Cardinality(Bought(c)) \in Nat
    BY PayFinite DEF PayInv, ScreenOK, Screen!TypeOK
  <2>2. paid \in [Requests -> 0..lastCaptcha] /\ paidBy \in [Ids -> 0..lastCaptcha]
    BY <1>3 DEF PayTypes
  <2>3. CASE b = c
    <3>1. Bought(c)' = Bought(c) \cup {i} /\ i \notin Bought(c)
      BY <1>1, <1>4, <2>2, <2>3 DEF Bought
    <3>2. Payers(c)' = Payers(c) \ {r} /\ r \in Payers(c)
      BY <1>1, <2>0, <2>2, <2>3 DEF Payers
    <3>3. Cardinality(Bought(c)') = Cardinality(Bought(c)) + 1
      BY <2>1, <3>1, FS_AddElement
    <3>4. Cardinality(Payers(c)') = Cardinality(Payers(c)) - 1
      BY <2>1, <3>2, FS_RemoveElement
    <3> QED
      BY <1>1, <2>1, <3>3, <3>4 DEF Covered
  <2>4. CASE b # c
    <3>1. Bought(c)' = Bought(c)
      BY <1>1, <1>4, <2>2, <2>4 DEF Bought
    <3>2. Payers(c)' = Payers(c)
      BY <1>1, <2>0, <2>2, <2>4 DEF Payers
    <3> QED
      BY <1>1, <2>1, <3>1, <3>2 DEF Covered
  <2> QED
    BY <2>3, <2>4
<1> QED
  BY <1>6, <1>7, <1>8 DEF PayInv

LEMMA PayStep == CodesOK /\ ScreenOK /\ PayInv /\ [SignNext]_signVars => PayInv'
<1> SUFFICES ASSUME CodesOK, ScreenOK, PayInv, [SignNext]_signVars PROVE PayInv'
  OBVIOUS
<1>0. /\ \A r \in Requests : paid[r] # Unpaid => screen[r].pc = "idle"
      /\ req \in [Requests -> RequestType] /\ screen \in [Requests -> Screen!RequestType]
  BY DEF PayInv, PayTypes, CodesOK, TypeOK, ScreenOK, Screen!TypeOK
<1>1. ASSUME UNCHANGED <<payment, lastCode, req>>,
             \A r \in Requests : paid[r] # Unpaid => screen'[r].pc = "idle"
      PROVE  PayInv'
  BY <1>1, PayKept
<1>2. ASSUME UNCHANGED <<payment, lastCode, req>>, UNCHANGED screen PROVE PayInv'
  BY <1>0, <1>1, <1>2
<1>3. ASSUME UNCHANGED <<payment, lastCode, req>>, NEW r \in Requests, paid[r] = Unpaid,
             \A s \in Requests : s # r => screen'[s] = screen[s]
      PROVE  PayInv'
  BY <1>0, <1>1, <1>3
<1>4. CASE Issue
  <2>1. UNCHANGED <<payment, lastCode, req, screen>>
    BY <1>4 DEF Issue, codes, Screen!GenerateCaptcha, Screen!SignChallenge, Screen!Expire,
                Screen!Lapse
  <2> QED
    BY <1>2, <2>1
<1>5. CASE Meanwhile
  <2>1. UNCHANGED <<payment, lastCode, req, screen>>
    BY <1>5 DEF Meanwhile, Tick, EditUser, codes, screenVars
  <2> QED
    BY <1>2, <2>1
<1>6. ASSUME NEW r \in Requests, Judge(r) PROVE PayInv'
  <2>1. UNCHANGED <<payment, lastCode, req>>
    BY <1>6 DEF Judge, codes
  <2>2. screen[r].pc # "idle"
    BY <1>6 DEF Judge, Screen!Reject, Screen!RejectFails, Screen!VerifyChallenge, Screen!Accept
  <2>3. \A s \in Requests : s # r => screen'[s] = screen[s]
    <3>1. CASE Screen!Reject(r) \/ Screen!RejectFails(r) \/ Screen!VerifyChallenge(r)
      <4>1. Screen!Return(r)
        BY <3>1 DEF Screen!Reject, Screen!RejectFails, Screen!VerifyChallenge
      <4> QED
        BY <1>0, <4>1, ScreenReturn DEF ScreenIs
    <3>2. CASE Screen!Accept(r)
      BY <3>2, AcceptEffect
    <3> QED
      BY <1>6, <3>1, <3>2 DEF Judge
  <2> QED
    BY <1>0, <1>3, <2>1, <2>2, <2>3
<1>7. ASSUME NEW r \in Requests, PayByCaptcha(r) PROVE PayInv'
  BY <1>7, PayByStep
<1>8. ASSUME NEW r \in Requests, MakeCode(r) PROVE PayInv'
  BY <1>8, MakeStep
<1>9. ASSUME NEW r \in Requests, Proceed(r) PROVE PayInv'
  <2>1. UNCHANGED <<payment, screen>>
    BY <1>9 DEF Proceed, screenVars
  <2>2. UNCHANGED lastCode
    BY <1>9 DEF Proceed, LogRequest, MailCode, CountAttempt, UseCode, LoginByEmailCode,
                Register, codes
  <2>3. \A s \in Requests : req'[s].pc = "insert" => req[s].pc = "insert"
    BY <1>9, ProceedAsks
  <2> QED
    BY <1>0, <2>1, <2>2, <2>3, PayKept
<1>10. ASSUME NEW r \in Requests, NEW t \in 1..MaxTokens, SubmitForm(r, t) PROVE PayInv'
  <2>1. UNCHANGED <<payment, lastCode, req>> /\ paid[r] = Unpaid
    BY <1>10 DEF SubmitForm, Free, codes
  <2>2. \A s \in Requests : s # r => screen'[s] = screen[s]
    BY <1>0, <1>10, ScreenSubmit DEF SubmitForm, ScreenIs
  <2> QED
    BY <1>3, <2>1, <2>2
<1>11. ASSUME NEW r \in Requests, NEW caller \in Screen!Callers, NEW c \in 1..MaxCaptchas,
              NEW right \in BOOLEAN, NEW t \in 0..MaxTokens, VerifyCaptcha(r, caller, c, right, t)
       PROVE  PayInv'
  <2>1. UNCHANGED <<payment, lastCode, req>> /\ paid[r] = Unpaid
    BY <1>11 DEF VerifyCaptcha, Free, codes
  <2>2. \A s \in Requests : s # r => screen'[s] = screen[s]
    BY <1>11, ScreenReadEffect DEF VerifyCaptcha, ScreenIs
  <2> QED
    BY <1>3, <2>1, <2>2
<1>12. ASSUME NEW r \in Requests, NEW e \in Emails, NEW p \in Purposes, AskForCode(r, e, p)
       PROVE  PayInv'
  <2>1. /\ ReqIs(r, "insert", e, p, 0, 0) /\ UNCHANGED <<payment, lastCode, screen>>
        /\ required => paid[r] # Unpaid
    BY <1>0, <1>12, AskIs DEF AskForCode, SendEmailCode, screenVars, codes
  <2>2. \A s \in Requests : req'[s].pc = "insert" =>
                               req[s].pc = "insert" \/ (required => paid[s] # Unpaid)
    BY <2>1 DEF ReqIs
  <2> QED
    BY <1>0, <2>1, <2>2, PayKept
<1>13. ASSUME NEW r \in Requests, NEW e \in Emails, NEW p \in Purposes, Refuse(r, e, p)
       PROVE  PayInv'
  BY <1>13, RefuseStep
<1>14. ASSUME NEW r \in Requests, NEW e \in Emails, NEW p \in Purposes, NEW i \in Ids,
              NEW right \in BOOLEAN, EnterCode(r, e, p, i, right)
       PROVE  PayInv'
  <2>1. /\ ReqIs(r, IF right THEN "use" ELSE "count", e, p, i, attempts[i])
        /\ UNCHANGED <<payment, lastCode, screen>>
    BY <1>14, ReadEffect DEF EnterCode, screenVars, codes
  <2>2. \A s \in Requests : req'[s].pc = "insert" => req[s].pc = "insert"
    BY <2>1 DEF ReqIs
  <2> QED
    BY <1>0, <2>1, <2>2, PayKept
<1>15. CASE UNCHANGED signVars
  BY <1>2, <1>15 DEF signVars, vars, screenVars, codes
<1> QED
  BY <1>4, <1>5, <1>6, <1>7, <1>8, <1>9, <1>10, <1>11, <1>12, <1>13, <1>14, <1>15 DEF SignNext

LEMMA PayInvariant == SignSpec => []PayInv
<1> QED
  BY PayInit, PayStep, CodesInvariant, ScreenInvariant, PTL DEF SignSpec

(* The types of both parts, and: who holds a captcha that was accepted is  *)
(* not verifying another one.                                              *)
THEOREM SignInTypeCorrect == SignSpec => []SignTypeOK
<1>1. CodesOK /\ ScreenOK /\ PayInv => SignTypeOK
  BY DEF CodesOK, ScreenOK, PayInv, PayTypes, SignTypeOK
<1> QED
  BY <1>1, CodesInvariant, ScreenInvariant, PayInvariant, PTL

(* While captchas are on and no statement fails, every code was paid for   *)
(* with a captcha, and a captcha bought one code, or as many as handlers   *)
(* judged it at once (SendEmailCode consumes the captcha first).           *)
THEOREM CodesArePaidFor == SignSpec => []CodesPaidFor
<1>1. ASSUME CodesOK, ScreenOK, PayInv, AcceptedOnceAlone PROVE CodesPaidFor
  <2> SUFFICES ASSUME required, faults = 0
               PROVE  /\ \A i \in Rows : paidBy[i] # Unpaid
                      /\ \A c \in 1..MaxCaptchas :
                            /\ c \notin disputed => Cardinality({i \in Rows : paidBy[i] = c}) <= 1
                            /\ Cardinality({i \in Rows : paidBy[i] = c}) <= Cardinality(Requests)
    BY DEF CodesPaidFor
  <2>1. \A i \in Rows : paidBy[i] # Unpaid
    BY <1>1 DEF PayInv, PaidFirst
  <2>2. ASSUME NEW c \in 1..MaxCaptchas
        PROVE  /\ c \notin disputed => Cardinality(Bought(c)) <= 1
               /\ Cardinality(Bought(c)) <= Cardinality(Requests)
    <3>1. /\ Cardinality(Bought(c)) + Cardinality(Payers(c)) <= accepted[c]
          /\ accepted[c] \in Nat
      BY <1>1 DEF PayInv, Covered, ScreenOK, Screen!TypeOK
    <3>2. Cardinality(Bought(c)) \in Nat /\ Cardinality(Payers(c)) \in Nat
      BY <1>1, PayFinite
    <3>3. (c \notin disputed => accepted[c] <= 1) /\ accepted[c] <= Cardinality(Requests)
      BY <1>1, SameCount DEF AcceptedOnceAlone, Screen!AcceptedOnceAlone
    <3>4. Cardinality(Requests) \in Nat
      BY RequestsFinite
    <3> QED
      BY <3>1, <3>2, <3>3, <3>4
  <2> QED
    BY <2>1, <2>2 DEF Bought
<1>2. CodesOK /\ ScreenOK /\ PayInv /\ AcceptedOnceAlone => CodesPaidFor
  BY <1>1
<1> QED
  BY <1>2, CodesInvariant, ScreenInvariant, PayInvariant, CaptchasAreAcceptedOnce, PTL
=============================================================================
