---------------------------- MODULE FormsProofs ----------------------------
(***************************************************************************)
(* Theorems about Forms for every set of users, addresses, channels and    *)
(* overlapping requests.                                                   *)
(***************************************************************************)
EXTENDS Forms, FiniteSetTheorems, TLAPS

USE UsersAssumption, ChannelsAssumption, BoundsAssumption DEF FormIds, Tokens

(* The fields of the record of a request, and of one with a field changed. *)
LEMMA IdleType ==
  /\ Idle \in RequestType
  /\ Idle.pc = "idle"
  BY DEF Idle, RequestType, Addresses, ChannelIds

LEMMA CreateCheckType ==
  ASSUME NEW u \in Users, NEW e \in Emails, NEW c \in ChannelIds
  PROVE  LET q == [Idle EXCEPT !.pc = "insert", !.user = u, !.email = e, !.channel = c]
         IN  q \in RequestType /\ q.pc = "insert" /\ q.email = e
  BY DEF Idle, RequestType, Addresses, ChannelIds

LEMMA UpdateCheckType ==
  ASSUME NEW u \in Users, NEW f \in FormIds, NEW e \in Emails, NEW c \in ChannelIds
  PROVE  LET q == [Idle EXCEPT !.pc = "read", !.user = u, !.form = f, !.email = e, !.channel = c]
         IN  q \in RequestType /\ q.pc = "read" /\ q.email = e /\ q.form = f
  BY DEF Idle, RequestType, Addresses, ChannelIds

LEMMA UpdateReadType ==
  ASSUME NEW q \in RequestType, NEW s \in Addresses
  PROVE  LET p == [q EXCEPT !.pc = "write", !.seen = s]
         IN  p \in RequestType /\ p.pc = "write" /\ p.email = q.email /\ p.form = q.form
  BY DEF RequestType

LEMMA VerifyType ==
  ASSUME NEW f \in FormIds, NEW t \in Tokens
  PROVE  LET q == [Idle EXCEPT !.pc = "verify", !.form = f, !.token = t]
         IN  q \in RequestType /\ q.pc = "verify" /\ q.token = t
  BY DEF Idle, RequestType, Addresses, ChannelIds

LEMMA DeleteType ==
  ASSUME NEW u \in Users, NEW c \in Channels
  PROVE  LET q == [Idle EXCEPT !.pc = "delete", !.user = u, !.channel = c]
         IN  q \in RequestType /\ q.pc = "delete" /\ q.channel = c
  BY DEF Idle, RequestType, Addresses, ChannelIds

-----------------------------------------------------------------------------
(* What FormsTypeOK says of the requests, on its own.                      *)
ReqOK ==
  /\ req \in [Requests -> RequestType]
  /\ \A r \in Requests :
        /\ req[r].pc \in {"insert", "read", "write"} => req[r].email \in Emails
        /\ req[r].pc \in {"read", "write"} => req[r].form \in FormIds
        /\ req[r].pc = "delete" => req[r].channel \in Channels

(* One request moves on to a well-typed record; the others keep theirs.    *)
LEMMA ReqStep ==
  ASSUME ReqOK, NEW r \in Requests, NEW q \in RequestType,
         req' = [req EXCEPT ![r] = q],
         q.pc \in {"insert", "read", "write"} => q.email \in Emails,
         q.pc \in {"read", "write"} => q.form \in FormIds,
         q.pc = "delete" => q.channel \in Channels
  PROVE  ReqOK'
<1>1. req' \in [Requests -> RequestType]
  BY DEF ReqOK
<1>2. ASSUME NEW s \in Requests
      PROVE  req'[s] = IF s = r THEN q ELSE req[s]
  BY DEF ReqOK
<1> QED
  BY <1>1, <1>2 DEF ReqOK

(* ResendFormVerifyEmail and ShowForm: the link of form f is given out.     *)
GivesOut(f) ==
  /\ f \in live /\ given' = given \cup {<<token[f], recipient[f]>>}
  /\ UNCHANGED <<formCols, chan, req, lastToken, opened, stale, fresh>>

LEMMA GivingOut ==
  ASSUME FormEdit
  PROVE  \/ \E f \in FormIds : GivesOut(f)
         \/ \E f \in FormIds, u \in Users : DeleteForm(u, f)
<1>1. ASSUME NEW f, ResendFormVerifyEmail(f) PROVE GivesOut(f)
  BY <1>1 DEF ResendFormVerifyEmail, GivesOut
<1>2. ASSUME NEW f, NEW u, ShowForm(u, f) PROVE GivesOut(f)
  BY <1>2 DEF ShowForm, MayEdit, GivesOut
<1> QED
  BY <1>1, <1>2 DEF FormEdit

LEMMA TypeInit == Init => FormsTypeOK
<1> SUFFICES ASSUME Init PROVE FormsTypeOK
  OBVIOUS
<1>1. req \in [Requests -> RequestType] /\ \A r \in Requests : req[r].pc = "idle"
  BY IdleType DEF Init
<1>2. /\ owner \in [FormIds -> Users] /\ channel \in [FormIds -> ChannelIds]
      /\ recipient \in [FormIds -> Addresses] /\ token \in [FormIds -> Tokens \cup {0}]
  BY DEF Init, ChannelIds, Addresses
<1>3. /\ live = {} /\ gone = {} /\ verified = {} /\ stale = {} /\ fresh = {}
      /\ given = {} /\ opened = {} /\ lastToken = 0
  BY DEF Init
<1>4. lastToken \in 0..MaxTokens
  BY <1>3
<1> QED
  BY <1>1, <1>2, <1>3, <1>4 DEF FormsTypeOK

LEMMA TypeStep == FormsTypeOK /\ [Next]_vars => FormsTypeOK'
<1> SUFFICES ASSUME FormsTypeOK, [Next]_vars PROVE FormsTypeOK'
  OBVIOUS
<1>0. ReqOK
  BY DEF FormsTypeOK, ReqOK
<1>q. \A r \in Requests : /\ req[r] \in RequestType /\ req[r].user \in Users
                          /\ req[r].channel \in ChannelIds
  BY DEF FormsTypeOK, RequestType
<1>1. ASSUME NEW r \in Requests, NEW u \in Users, NEW e \in Emails, NEW c \in ChannelIds,
             CreateFormCheck(r, u, e, c)
      PROVE  FormsTypeOK'
  <2> DEFINE q == [Idle EXCEPT !.pc = "insert", !.user = u, !.email = e, !.channel = c]
  <2>a. q \in RequestType /\ q.pc = "insert" /\ q.email = e
    BY CreateCheckType
  <2>b. req' = [req EXCEPT ![r] = q]
    BY <1>1 DEF CreateFormCheck
  <2> HIDE DEF q
  <2>1. ReqOK'
    BY <1>0, <2>a, <2>b, ReqStep
  <2> QED
    BY <1>1, <2>1 DEF CreateFormCheck, formCols, FormsTypeOK, ReqOK
<1>2. ASSUME NEW r \in Requests, CreateForm(r) PROVE FormsTypeOK'
  <2>1. ReqOK'
    BY <1>0, <1>2, IdleType, ReqStep DEF CreateForm
  <2>2. req[r].email \in Emails /\ req[r].email \in Addresses
    BY <1>2 DEF CreateForm, FormsTypeOK, Addresses
  <2>3. PICK f \in FormIds \ (live \cup gone) :
          /\ live'      = live \cup {f}
          /\ owner'     = [owner EXCEPT ![f] = req[r].user]
          /\ channel'   = [channel EXCEPT ![f] = req[r].channel]
          /\ recipient' = [recipient EXCEPT ![f] = req[r].email]
          /\ token'     = [token EXCEPT ![f] = lastToken + 1]
    BY <1>2 DEF CreateForm
  <2>4. lastToken + 1 \in Tokens /\ lastToken' \in 0..MaxTokens
    BY <1>2 DEF CreateForm, FormsTypeOK
  <2>5. given' \subseteq Tokens \X Emails /\ opened' \subseteq given'
    BY <1>2, <2>2, <2>4 DEF CreateForm, FormsTypeOK
  <2>6. fresh' \subseteq Requests
    BY <1>2 DEF CreateForm, Outdate, FormsTypeOK
  <2> QED
    BY <1>2, <1>q, <2>1, <2>2, <2>3, <2>4, <2>5, <2>6 DEF CreateForm, FormsTypeOK, ReqOK
<1>3. ASSUME NEW r \in Requests, NEW u \in Users, NEW f \in FormIds, NEW e \in Emails,
             NEW c \in ChannelIds, UpdateFormCheck(r, u, f, e, c)
      PROVE  FormsTypeOK'
  <2> DEFINE q == [Idle EXCEPT !.pc = "read", !.user = u, !.form = f, !.email = e, !.channel = c]
  <2>a. q \in RequestType /\ q.pc = "read" /\ q.email = e /\ q.form = f
    BY DEF Idle, RequestType, Addresses, ChannelIds
  <2>b. req' = [req EXCEPT ![r] = q]
    BY <1>3 DEF UpdateFormCheck
  <2> HIDE DEF q
  <2>1. ReqOK'
    BY <1>0, <2>a, <2>b, ReqStep
  <2> QED
    BY <1>3, <2>1 DEF UpdateFormCheck, formCols, FormsTypeOK, ReqOK
<1>4. ASSUME NEW r \in Requests, UpdateFormRead(r) PROVE FormsTypeOK'
  <2>1. recipient[req[r].form] \in Addresses /\ req[r].pc = "read"
    BY <1>4 DEF UpdateFormRead, FormsTypeOK
  <2>2. CASE MayEdit(req[r].user, req[r].form)
    <3>1. ReqOK'
      BY <1>0, <1>4, <1>q, <2>1, <2>2, UpdateReadType, ReqStep DEF UpdateFormRead, FormsTypeOK
    <3> QED
      BY <1>4, <3>1 DEF UpdateFormRead, formCols, FormsTypeOK, ReqOK
  <2>3. CASE ~MayEdit(req[r].user, req[r].form)
    <3>1. ReqOK'
      BY <1>0, <1>4, <2>3, IdleType, ReqStep DEF UpdateFormRead
    <3> QED
      BY <1>4, <3>1 DEF UpdateFormRead, formCols, FormsTypeOK, ReqOK
  <2> QED
    BY <2>2, <2>3
<1>5. ASSUME NEW r \in Requests, UpdateFormNewAddress(r) PROVE FormsTypeOK'
  <2>1. ReqOK'
    BY <1>0, <1>5, IdleType, ReqStep DEF UpdateFormNewAddress
  <2>2. req[r].email \in Emails /\ req[r].email \in Addresses /\ req[r].form \in FormIds
    BY <1>5 DEF UpdateFormNewAddress, FormsTypeOK, Addresses
  <2>4. lastToken + 1 \in Tokens /\ lastToken' \in 0..MaxTokens
    BY <1>5 DEF UpdateFormNewAddress, FormsTypeOK
  <2>5. given' \subseteq Tokens \X Emails /\ opened' \subseteq given'
    BY <1>5, <2>2, <2>4 DEF UpdateFormNewAddress, FormsTypeOK
  <2>6. CASE UNCHANGED <<channel, recipient, token, verified, stale, fresh>>
    BY <1>5, <2>1, <2>4, <2>5, <2>6 DEF UpdateFormNewAddress, FormsTypeOK, ReqOK
  <2>7. CASE ~UNCHANGED <<channel, recipient, token, verified, stale, fresh>>
    BY <1>5, <1>q, <2>1, <2>2, <2>4, <2>5, <2>7
       DEF UpdateFormNewAddress, Outdate, FormsTypeOK, ReqOK
  <2> QED
    BY <2>6, <2>7
<1>6. ASSUME NEW r \in Requests, UpdateFormSameAddress(r) PROVE FormsTypeOK'
  <2>1. ReqOK'
    BY <1>0, <1>6, IdleType, ReqStep DEF UpdateFormSameAddress
  <2>2. req[r].email \in Emails /\ req[r].email \in Addresses /\ req[r].form \in FormIds
    BY <1>6 DEF UpdateFormSameAddress, FormsTypeOK, Addresses
  <2>3. CASE MayEdit(req[r].user, req[r].form)
    <3>1. fresh' \subseteq Requests
      BY <1>6, <2>3 DEF UpdateFormSameAddress, Outdate, FormsTypeOK
    <3>0. req[r].form \in live
      BY <2>3 DEF MayEdit
    <3>b. stale \subseteq live
      BY DEF FormsTypeOK
    <3>c. stale' = stale \cup {req[r].form} \/ stale' = stale
      BY <1>6, <2>3 DEF UpdateFormSameAddress
    <3>2. stale' \subseteq live /\ live' = live
      BY <1>6, <3>0, <3>b, <3>c DEF UpdateFormSameAddress
    <3>3. /\ channel' \in [FormIds -> ChannelIds] /\ recipient' \in [FormIds -> Addresses]
          /\ \A f \in live : recipient'[f] \in Emails
      BY <1>6, <1>q, <2>2, <2>3 DEF UpdateFormSameAddress, FormsTypeOK
    <3> QED
      BY <1>6, <2>1, <3>1, <3>2, <3>3 DEF UpdateFormSameAddress, FormsTypeOK, ReqOK
  <2>4. CASE ~MayEdit(req[r].user, req[r].form)
    BY <1>6, <2>1, <2>4 DEF UpdateFormSameAddress, FormsTypeOK, ReqOK
  <2> QED
    BY <2>3, <2>4
<1>7. ASSUME NEW f \in FormIds, NEW u \in Users, DeleteForm(u, f) PROVE FormsTypeOK'
  BY <1>7 DEF DeleteForm, MayEdit, FormsTypeOK
<1>8. ASSUME NEW f \in FormIds, GivesOut(f) PROVE FormsTypeOK'
  <2>1. <<token[f], recipient[f]>> \in Tokens \X Emails
    BY <1>8 DEF GivesOut, FormsTypeOK
  <2> QED
    BY <1>8, <2>1 DEF GivesOut, formCols, FormsTypeOK
<1>9. ASSUME NEW r \in Requests, NEW m \in given, VerifyEmailRead(r, m) PROVE FormsTypeOK'
  <2>1. m[1] \in Tokens /\ live \subseteq FormIds
    BY <1>9 DEF FormsTypeOK
  <2>2. ReqOK'
    <3>1. CASE req' = req
      BY <1>0, <3>1 DEF ReqOK
    <3>2. ASSUME NEW f \in live,
                 req' = [req EXCEPT ![r] = [Idle EXCEPT !.pc = "verify", !.form = f,
                                                        !.token = m[1]]]
          PROVE  ReqOK'
      BY <1>0, <2>1, <3>2, VerifyType, ReqStep
    <3> QED
      BY <1>9, <3>1, <3>2 DEF VerifyEmailRead
  <2> QED
    BY <1>9, <2>2 DEF VerifyEmailRead, formCols, FormsTypeOK, ReqOK
<1>10. ASSUME NEW r \in Requests, VerifyEmail(r) PROVE FormsTypeOK'
  <2>1. ReqOK'
    BY <1>0, <1>10, IdleType, ReqStep DEF VerifyEmail
  <2> QED
    BY <1>10, <2>1 DEF VerifyEmail, FormsTypeOK, ReqOK
<1>11. CASE ChannelEdit
  <2>1. UNCHANGED <<formCols, req, lastToken, given, opened, stale>> /\ fresh' = {}
    BY <1>11 DEF ChannelEdit, CreateChannel, UpdateChannel
  <2> QED
    BY <2>1 DEF formCols, FormsTypeOK
<1>12. ASSUME NEW r \in Requests, NEW u \in Users, NEW c \in Channels, DeleteChannelUnbind(r, u, c)
       PROVE  FormsTypeOK'
  <2> DEFINE q == [Idle EXCEPT !.pc = "delete", !.user = u, !.channel = c]
  <2>a. q \in RequestType /\ q.pc = "delete" /\ q.channel = c
    BY DeleteType
  <2>b. req' = [req EXCEPT ![r] = q]
    BY <1>12 DEF DeleteChannelUnbind
  <2> HIDE DEF q
  <2>1. ReqOK'
    BY <1>0, <2>a, <2>b, ReqStep
  <2>2. channel' \in [FormIds -> ChannelIds]
    BY <1>12 DEF DeleteChannelUnbind, FormsTypeOK, ChannelIds
  <2> QED
    BY <1>12, <2>1, <2>2 DEF DeleteChannelUnbind, FormsTypeOK, ReqOK
<1>13. ASSUME NEW r \in Requests, DeleteChannel(r) PROVE FormsTypeOK'
  <2>1. ReqOK'
    BY <1>0, <1>13, IdleType, ReqStep DEF DeleteChannel
  <2> QED
    BY <1>13, <2>1 DEF DeleteChannel, formCols, FormsTypeOK, ReqOK
<1>14. CASE UNCHANGED vars
  BY <1>14 DEF vars, formCols, FormsTypeOK
<1> QED
  BY <1>1, <1>2, <1>3, <1>4, <1>5, <1>6, <1>7, <1>8, <1>9, <1>10, <1>11, <1>12, <1>13, <1>14,
     GivingOut DEF Next, CreateRequest, UpdateRequest, VerifyRequest, DeleteChannelRequest

(* Every variable but the channel rows keeps its type.                     *)
THEOREM FormsTypeCorrect == Spec => []FormsTypeOK
  BY TypeInit, TypeStep, PTL DEF Spec

-----------------------------------------------------------------------------
(* The verification invariant.  A token is drawn whenever an address is    *)
(* written, except by the "address unchanged" branch; so a link that       *)
(* carries a form's token was given out for the form's recipient, and      *)
(* opening it verifies that recipient.                                     *)
LEMMA VerifyInit == Init => IInv
<1>1. Init => FormsTypeOK
  BY TypeInit
<1>2. Init => \A r \in Requests : req[r].pc = "idle"
  BY IdleType DEF Init
<1> QED
  BY <1>1, <1>2 DEF Init, IInv, TokensDrawn, TokensUnique, LinkNamesRecipient,
     VerifyingOpenedLink, VerifiedMeansConfirmed

(* Steps that leave the forms and the mails alone, apart from bindings,    *)
(* and start no VerifyEmail.                                               *)
LEMMA VerifyFrame ==
  ASSUME IInv, FormsTypeOK',
         UNCHANGED <<live, recipient, token, verified, lastToken, given, opened, stale>>,
         \A r \in Requests : req'[r].pc = "verify" => req'[r] = req[r]
  PROVE  IInv'
  BY DEF IInv, TokensDrawn, TokensUnique, LinkNamesRecipient,
         VerifyingOpenedLink, VerifiedMeansConfirmed

(* One request moves on, but not into a VerifyEmail.                       *)
LEMMA OtherRequests ==
  ASSUME NEW r \in Requests, NEW q \in RequestType, q.pc # "verify",
         req \in [Requests -> RequestType], req' = [req EXCEPT ![r] = q]
  PROVE  \A s \in Requests : req'[s].pc = "verify" => req'[s] = req[s]
  OBVIOUS

(* A form gets a new address together with a token nobody has seen.        *)
LEMMA NewTokenStep ==
  ASSUME IInv, FormsTypeOK', NEW f \in FormIds, NEW e \in Emails,
         token' = [token EXCEPT ![f] = lastToken + 1],
         recipient' = [recipient EXCEPT ![f] = e],
         lastToken' = lastToken + 1,
         given' = given \cup {<<lastToken + 1, e>>},
         live' \subseteq live \cup {f},
         verified' = verified \ {f}, stale' = stale \ {f}, UNCHANGED opened,
         \A s \in Requests : req'[s].pc = "verify" => req'[s] = req[s]
  PROVE  IInv'
<1>1. /\ token \in [FormIds -> Tokens \cup {0}] /\ recipient \in [FormIds -> Addresses]
      /\ live \subseteq FormIds /\ verified \subseteq live /\ lastToken \in Nat
      /\ opened \subseteq given /\ given \subseteq Tokens \X Emails
  BY DEF IInv, FormsTypeOK
<1>2. \A g \in live : g # f => /\ token'[g] = token[g] /\ recipient'[g] = recipient[g]
                             /\ token[g] \in 1..lastToken
  BY <1>1 DEF IInv, TokensDrawn
<1>3. token'[f] = lastToken + 1 /\ recipient'[f] = e
  BY <1>1
<1>4. \A m \in given : m[1] \in 1..lastToken
  BY DEF IInv, TokensDrawn
<1>5. \A m \in given' : m \in given \/ (m[1] = lastToken + 1 /\ m[2] = e)
  OBVIOUS
<1>6. TokensDrawn'
  BY <1>1, <1>2, <1>3, <1>4, <1>5 DEF TokensDrawn
<1>7. TokensUnique'
  BY <1>1, <1>2, <1>3 DEF TokensUnique, IInv
<1>8. LinkNamesRecipient'
  BY <1>1, <1>2, <1>3, <1>4, <1>5 DEF LinkNamesRecipient, IInv
<1>9. VerifyingOpenedLink'
  BY DEF VerifyingOpenedLink, IInv
<1>10. VerifiedMeansConfirmed'
  BY <1>1, <1>2 DEF VerifiedMeansConfirmed, IInv
<1> QED
  BY <1>6, <1>7, <1>8, <1>9, <1>10 DEF IInv

LEMMA VerifyStep == IInv /\ FormsTypeOK' /\ [Next]_vars => IInv'
<1> SUFFICES ASSUME IInv, FormsTypeOK', [Next]_vars PROVE IInv'
  OBVIOUS
<1>r. req \in [Requests -> RequestType] /\ FormsTypeOK
  BY DEF IInv, FormsTypeOK
<1>1. ASSUME NEW r \in Requests, NEW u \in Users, NEW e \in Emails, NEW c \in ChannelIds,
             CreateFormCheck(r, u, e, c)
      PROVE  IInv'
  <2> DEFINE q == [Idle EXCEPT !.pc = "insert", !.user = u, !.email = e, !.channel = c]
  <2>1. q \in RequestType /\ q.pc = "insert"
    BY DEF Idle, RequestType, Addresses, ChannelIds
  <2>2. req' = [req EXCEPT ![r] = q]
    BY <1>1 DEF CreateFormCheck
  <2> HIDE DEF q
  <2>3. \A s \in Requests : req'[s].pc = "verify" => req'[s] = req[s]
    BY <1>r, <2>1, <2>2, OtherRequests
  <2> QED
    BY <1>1, <2>3, VerifyFrame DEF CreateFormCheck, formCols
<1>2. ASSUME NEW r \in Requests, NEW u \in Users, NEW f \in FormIds, NEW e \in Emails,
             NEW c \in ChannelIds, UpdateFormCheck(r, u, f, e, c)
      PROVE  IInv'
  <2> DEFINE q == [Idle EXCEPT !.pc = "read", !.user = u, !.form = f, !.email = e, !.channel = c]
  <2>1. q \in RequestType /\ q.pc = "read"
    BY DEF Idle, RequestType, Addresses, ChannelIds
  <2>2. req' = [req EXCEPT ![r] = q]
    BY <1>2 DEF UpdateFormCheck
  <2> HIDE DEF q
  <2>3. \A s \in Requests : req'[s].pc = "verify" => req'[s] = req[s]
    BY <1>r, <2>1, <2>2, OtherRequests
  <2> QED
    BY <1>2, <2>3, VerifyFrame DEF UpdateFormCheck, formCols
<1>3. ASSUME NEW r \in Requests, UpdateFormRead(r) PROVE IInv'
  <2>1. PICK q \in RequestType : q.pc # "verify" /\ req' = [req EXCEPT ![r] = q]
    <3>1. CASE MayEdit(req[r].user, req[r].form)
      <4> DEFINE q == [req[r] EXCEPT !.pc = "write", !.seen = recipient[req[r].form]]
      <4>1. recipient[req[r].form] \in Addresses /\ req[r] \in RequestType
        BY <1>3, <1>r DEF UpdateFormRead, FormsTypeOK
      <4>2. q \in RequestType /\ q.pc = "write"
        BY <4>1, UpdateReadType
      <4>3. req' = [req EXCEPT ![r] = q]
        BY <1>3, <3>1 DEF UpdateFormRead
      <4> QED
        BY <4>2, <4>3
    <3>2. CASE ~MayEdit(req[r].user, req[r].form)
      BY <1>3, <3>2, IdleType DEF UpdateFormRead
    <3> QED
      BY <3>1, <3>2
  <2>2. \A s \in Requests : req'[s].pc = "verify" => req'[s] = req[s]
    BY <1>r, <2>1, OtherRequests
  <2> QED
    BY <1>3, <2>2, VerifyFrame DEF UpdateFormRead, formCols
<1>i. \A r \in Requests : req' = [req EXCEPT ![r] = Idle] =>
        \A s \in Requests : req'[s].pc = "verify" => req'[s] = req[s]
  BY <1>r, IdleType, OtherRequests
<1>4. ASSUME NEW r \in Requests, CreateForm(r) PROVE IInv'
  <2>1. PICK f \in FormIds \ (live \cup gone) :
          /\ live'      = live \cup {f}
          /\ recipient' = [recipient EXCEPT ![f] = req[r].email]
          /\ token'     = [token EXCEPT ![f] = lastToken + 1]
    BY <1>4 DEF CreateForm
  <2>2. f \notin verified /\ f \notin stale /\ req[r].email \in Emails
    BY <1>4, <1>r, <2>1 DEF FormsTypeOK, CreateForm
  <2>3. verified' = verified \ {f} /\ stale' = stale \ {f}
    BY <1>4, <2>2 DEF CreateForm
  <2> QED
    BY <1>4, <1>i, <2>1, <2>2, <2>3, NewTokenStep DEF CreateForm
<1>5. ASSUME NEW r \in Requests, UpdateFormNewAddress(r) PROVE IInv'
  <2>1. req[r].email \in Emails /\ req[r].form \in FormIds
    BY <1>5, <1>r DEF FormsTypeOK, UpdateFormNewAddress
  <2>2. CASE ~UNCHANGED <<channel, recipient, token, verified, stale, fresh>>
    BY <1>5, <1>i, <2>1, <2>2, NewTokenStep DEF UpdateFormNewAddress
  <2>3. CASE UNCHANGED <<channel, recipient, token, verified, stale, fresh>>
    <3>1. /\ UNCHANGED <<live, recipient, token, verified, opened, stale>>
          /\ lastToken' = lastToken + 1
          /\ given' = given \cup {<<lastToken + 1, req[r].email>>}
      BY <1>5, <2>3 DEF UpdateFormNewAddress
    <3>2. \A s \in Requests : req'[s].pc = "verify" => req'[s] = req[s]
      BY <1>5, <1>i DEF UpdateFormNewAddress
    <3>3. /\ \A f \in live : token[f] \in 1..lastToken
          /\ \A m \in given : m[1] \in 1..lastToken
          /\ lastToken \in Nat
      BY <1>r DEF IInv, TokensDrawn, FormsTypeOK
    <3>4. TokensDrawn' /\ LinkNamesRecipient'
      BY <3>1, <3>3 DEF IInv, TokensDrawn, LinkNamesRecipient
    <3> QED
      BY <3>1, <3>2, <3>4
         DEF IInv, TokensUnique, VerifyingOpenedLink, VerifiedMeansConfirmed
  <2> QED
    BY <2>2, <2>3
<1>6. ASSUME NEW r \in Requests, UpdateFormSameAddress(r) PROVE IInv'
  <2>1. \A s \in Requests : req'[s].pc = "verify" => req'[s] = req[s]
    BY <1>6, <1>i DEF UpdateFormSameAddress
  <2>2. req[r].form \in FormIds
    BY <1>6, <1>r DEF FormsTypeOK, UpdateFormSameAddress
  <2>3. CASE ~MayEdit(req[r].user, req[r].form) \/ recipient[req[r].form] = req[r].email
    <3>1. UNCHANGED <<recipient, stale>>
      BY <1>6, <1>r, <2>2, <2>3 DEF UpdateFormSameAddress, FormsTypeOK
    <3> QED
      BY <1>6, <2>1, <3>1, VerifyFrame DEF UpdateFormSameAddress
  <2>4. CASE MayEdit(req[r].user, req[r].form) /\ recipient[req[r].form] # req[r].email
    <3>1. /\ recipient' = [recipient EXCEPT ![req[r].form] = req[r].email]
          /\ stale' = stale \cup {req[r].form}
          /\ UNCHANGED <<live, token, verified, lastToken, given, opened>>
      BY <1>6, <2>4 DEF UpdateFormSameAddress
    <3>2. \A f \in FormIds : f = req[r].form \/ recipient'[f] = recipient[f]
      BY <1>r, <2>2, <3>1 DEF FormsTypeOK
    <3>3. live \subseteq FormIds /\ verified \subseteq live
      BY <1>r DEF FormsTypeOK
    <3> QED
      <4>1. TokensDrawn' /\ TokensUnique'
        BY <3>1 DEF IInv, TokensDrawn, TokensUnique
      <4>2. LinkNamesRecipient'
        BY <3>1, <3>2, <3>3 DEF IInv, LinkNamesRecipient
      <4>3. VerifyingOpenedLink'
        BY <2>1, <3>1 DEF IInv, VerifyingOpenedLink
      <4>4. VerifiedMeansConfirmed'
        BY <3>1, <3>2, <3>3 DEF IInv, VerifiedMeansConfirmed
      <4> QED
        BY <4>1, <4>2, <4>3, <4>4 DEF IInv
  <2> QED
    BY <2>3, <2>4
<1>7. ASSUME NEW f \in FormIds, NEW u \in Users, DeleteForm(u, f) PROVE IInv'
  BY <1>7, <1>r DEF DeleteForm, FormsTypeOK, IInv, TokensDrawn, TokensUnique,
     LinkNamesRecipient, VerifyingOpenedLink, VerifiedMeansConfirmed
<1>8. ASSUME NEW f \in FormIds, GivesOut(f) PROVE IInv'
  <2>1. /\ UNCHANGED <<live, recipient, token, verified, lastToken, req, opened, stale>>
        /\ f \in live /\ given' = given \cup {<<token[f], recipient[f]>>}
    BY <1>8 DEF GivesOut, formCols
  <2>2. \A m \in given' : m \in given \/ (m[1] = token[f] /\ m[2] = recipient[f])
    BY <2>1
  <2>3. TokensDrawn'
    BY <2>1, <2>2 DEF IInv, TokensDrawn
  <2>4. LinkNamesRecipient'
    BY <2>1, <2>2 DEF IInv, TokensUnique, LinkNamesRecipient
  <2> QED
    BY <2>1, <2>3, <2>4 DEF IInv, TokensUnique, VerifyingOpenedLink, VerifiedMeansConfirmed
<1>9. ASSUME NEW r \in Requests, NEW m \in given, VerifyEmailRead(r, m) PROVE IInv'
  <2>1. /\ UNCHANGED <<live, recipient, token, verified, lastToken, given, stale>>
        /\ opened' = opened \cup {m}
    BY <1>9 DEF VerifyEmailRead, formCols
  <2>2. \A s \in Requests : req'[s].pc = "verify" => req'[s] = req[s] \/ req'[s].token = m[1]
    <3>1. m[1] \in Tokens /\ live \subseteq FormIds
      BY <1>r DEF FormsTypeOK
    <3>2. ASSUME NEW f \in live,
                 req' = [req EXCEPT ![r] = [Idle EXCEPT !.pc = "verify", !.form = f,
                                                        !.token = m[1]]]
          PROVE  \A s \in Requests : req'[s] = req[s] \/ req'[s].token = m[1]
      BY <1>r, <3>1, <3>2, VerifyType
    <3> QED
      BY <1>9, <3>2 DEF VerifyEmailRead
  <2>3. VerifyingOpenedLink'
    BY <2>1, <2>2 DEF IInv, VerifyingOpenedLink
  <2> QED
    BY <2>1, <2>3 DEF IInv, TokensDrawn, TokensUnique, LinkNamesRecipient, VerifiedMeansConfirmed
<1>10. ASSUME NEW r \in Requests, VerifyEmail(r) PROVE IInv'
  <2>1. /\ UNCHANGED <<live, recipient, token, lastToken, given, opened, stale>>
        /\ verified' = verified \cup {f \in live : token[f] = req[r].token}
    BY <1>10 DEF VerifyEmail
  <2>2. \A s \in Requests : req'[s].pc = "verify" => req'[s] = req[s]
    BY <1>10, <1>i DEF VerifyEmail
  <2>3. PICK m \in opened : m[1] = req[r].token
    BY <1>10 DEF VerifyEmail, IInv, VerifyingOpenedLink
  <2>4. m \in given /\ m = <<m[1], m[2]>>
    BY <1>r DEF FormsTypeOK
  <2>5. \A f \in live : token[f] = req[r].token =>
            <<token[f], recipient[f]>> \in opened \/ f \in stale
    BY <2>3, <2>4 DEF IInv, LinkNamesRecipient
  <2>6. VerifiedMeansConfirmed'
    BY <2>1, <2>5 DEF IInv, VerifiedMeansConfirmed
  <2> QED
    BY <2>1, <2>2, <2>6 DEF IInv, TokensDrawn, TokensUnique, LinkNamesRecipient, VerifyingOpenedLink
<1>11. CASE ChannelEdit
  <2>1. UNCHANGED <<formCols, req, lastToken, given, opened, stale>>
    BY <1>11 DEF ChannelEdit, CreateChannel, UpdateChannel
  <2> QED
    BY <2>1, VerifyFrame DEF formCols
<1>12. ASSUME NEW r \in Requests, NEW u \in Users, NEW c \in Channels, DeleteChannelUnbind(r, u, c)
       PROVE  IInv'
  <2> DEFINE q == [Idle EXCEPT !.pc = "delete", !.user = u, !.channel = c]
  <2>1. q \in RequestType /\ q.pc = "delete"
    BY DEF Idle, RequestType, Addresses, ChannelIds
  <2>2. req' = [req EXCEPT ![r] = q]
    BY <1>12 DEF DeleteChannelUnbind
  <2> HIDE DEF q
  <2>3. \A s \in Requests : req'[s].pc = "verify" => req'[s] = req[s]
    BY <1>r, <2>1, <2>2, OtherRequests
  <2> QED
    BY <1>12, <2>3, VerifyFrame DEF DeleteChannelUnbind
<1>13. ASSUME NEW r \in Requests, DeleteChannel(r) PROVE IInv'
  BY <1>13, <1>i, VerifyFrame DEF DeleteChannel, formCols
<1>14. CASE UNCHANGED vars
  BY <1>14, VerifyFrame DEF vars, formCols
<1> QED
  BY <1>1, <1>2, <1>3, <1>4, <1>5, <1>6, <1>7, <1>8, <1>9, <1>10, <1>11, <1>12, <1>13, <1>14,
     GivingOut DEF Next, CreateRequest, UpdateRequest, VerifyRequest, DeleteChannelRequest

(* The inductive invariant of the verification holds.                      *)
THEOREM VerifyInvariant == Spec => []IInv
  BY VerifyInit, VerifyStep, FormsTypeCorrect, PTL DEF Spec

(* A form is verified through a link given out for its present address,    *)
(* unless an UpdateForm wrote over an address it had not read.             *)
THEOREM VerifiedIsConfirmed == Spec => []VerifiedMeansConfirmed
<1>1. IInv => VerifiedMeansConfirmed
  BY DEF IInv
<1> QED
  BY <1>1, VerifyInvariant, PTL

(* A link that carries a form's token was given out for its recipient      *)
(* alone, with the same exception.                                         *)
THEOREM LinksNameRecipients == Spec => []LinkNamesRecipient
<1>1. IInv => LinkNamesRecipient
  BY DEF IInv
<1> QED
  BY <1>1, VerifyInvariant, PTL

-----------------------------------------------------------------------------
(* The rules of sharing.  The check of a request stays true while it is    *)
(* fresh: every write to a form's binding, a form's life or a channel      *)
(* makes the checks of the others outdated.                                *)
RowType == [here : BOOLEAN, owner : Users, enabled : BOOLEAN, shared : BOOLEAN,
            perUser : Nat, total : Nat]
ChanOK  == chan \in [Channels -> RowType]

Checked(r) ==
  req[r].pc \in {"insert", "read", "write"} /\ ~IsAdmin(req[r].user) =>
     ChannelBindableByUser(req[r].user, req[r].channel)

FreshInv == \A r \in fresh : Checked(r)

LEMMA ChanInit == Init => ChanOK
<1>1. NoRow \in RowType
  BY DEF NoRow, RowType
<1> QED
  BY <1>1 DEF Init, ChanOK

LEMMA ChanStep == ChanOK /\ [Next]_vars => ChanOK'
<1> SUFFICES ASSUME ChanOK, [Next]_vars PROVE ChanOK'
  OBVIOUS
<1>1. NoRow \in RowType
  BY DEF NoRow, RowType
<1>2. CASE UNCHANGED chan
  BY <1>2 DEF ChanOK
<1>3. ASSUME NEW u \in Users, NEW c \in Channels, NEW enabled \in BOOLEAN, NEW share \in BOOLEAN,
             NEW p \in Limits, NEW t \in Limits,
             \/ CreateChannel(u, c, enabled, share, p, t)
             \/ UpdateChannel(u, c, enabled, share, p, t)
      PROVE  ChanOK'
  <2>1. PICK row \in RowType : chan' = [chan EXCEPT ![c] = row]
    <3>1. p \in Nat /\ t \in Nat /\ 0 \in Nat
      OBVIOUS
    <3> QED
      BY <1>3, <3>1 DEF CreateChannel, UpdateChannel, RowType, IsAdmin
  <2> QED
    BY <2>1 DEF ChanOK
<1>4. ASSUME NEW r \in Requests, DeleteChannel(r) PROVE ChanOK'
  BY <1>1, <1>4 DEF DeleteChannel, ChanOK
<1>5. ASSUME NEW r \in Requests, CreateRequest(r) \/ UpdateRequest(r) \/ VerifyRequest(r)
      PROVE  UNCHANGED chan
  BY <1>5 DEF CreateRequest, UpdateRequest, VerifyRequest, CreateFormCheck, CreateForm,
              UpdateFormCheck, UpdateFormRead, UpdateFormNewAddress, UpdateFormSameAddress,
              VerifyEmailRead, VerifyEmail
<1>6. ASSUME NEW r \in Requests, NEW u, NEW c, DeleteChannelUnbind(r, u, c) PROVE UNCHANGED chan
  BY <1>6 DEF DeleteChannelUnbind
<1>7. CASE FormEdit
  BY <1>2, <1>7, GivingOut DEF GivesOut, DeleteForm
<1>8. CASE UNCHANGED vars
  BY <1>2, <1>8 DEF vars
<1> QED
  BY <1>2, <1>3, <1>4, <1>5, <1>6, <1>7, <1>8 DEF Next, ChannelEdit, DeleteChannelRequest

(* A check made before a step that leaves bindings and channels alone      *)
(* would be made again after it.                                           *)
LEMMA BindableKept ==
  ASSUME UNCHANGED <<live, owner, channel, chan>>, NEW u, NEW c, ChannelBindableByUser(u, c)
  PROVE  ChannelBindableByUser(u, c)'
  BY DEF ChannelBindableByUser, UserBindings, SharedBindings

LEMMA FreshKept ==
  ASSUME FreshInv, UNCHANGED <<live, owner, channel, chan>>, fresh' \subseteq fresh,
         \A s \in fresh' : \/ req'[s] = req[s]
                           \/ req'[s].pc \notin {"insert", "read", "write"}
                           \/ /\ req[s].pc = "read"
                              /\ req'[s].user = req[s].user /\ req'[s].channel = req[s].channel
  PROVE  FreshInv'
<1> SUFFICES ASSUME NEW s \in fresh' PROVE Checked(s)'
  BY DEF FreshInv
<1>1. s \in fresh /\ Checked(s)
  BY DEF FreshInv
<1>2. PICK u, c : u = req'[s].user /\ c = req'[s].channel
  OBVIOUS
<1>3. ASSUME req'[s].pc \in {"insert", "read", "write"}, ~IsAdmin(u)
      PROVE  ChannelBindableByUser(u, c)'
  <2>1. ChannelBindableByUser(u, c)
    BY <1>1, <1>2, <1>3 DEF Checked, IsAdmin
  <2> QED
    BY <2>1, BindableKept
<1> QED
  BY <1>2, <1>3 DEF Checked, IsAdmin, ChannelBindableByUser, UserBindings, SharedBindings

(* A request that has just been checked.                                   *)
LEMMA FreshChecked ==
  ASSUME FreshInv, FormsTypeOK, UNCHANGED <<live, owner, channel, chan>>, NEW r \in Requests,
         fresh' = fresh \cup {r}, NEW q \in RequestType, req' = [req EXCEPT ![r] = q],
         IsAdmin(q.user) \/ ChannelBindableByUser(q.user, q.channel)
  PROVE  FreshInv'
<1> SUFFICES ASSUME NEW s \in fresh' PROVE Checked(s)'
  BY DEF FreshInv
<1>1. s \in Requests /\ req'[s] = IF s = r THEN q ELSE req[s]
  BY DEF FormsTypeOK
<1>2. PICK u, c : u = req'[s].user /\ c = req'[s].channel
  OBVIOUS
<1>3. ASSUME req'[s].pc \in {"insert", "read", "write"}, ~IsAdmin(u)
      PROVE  ChannelBindableByUser(u, c)'
  <2>1. CASE s = r
    BY <1>1, <1>2, <1>3, <2>1, BindableKept
  <2>2. CASE s # r
    <3>1. Checked(s) /\ req'[s] = req[s]
      BY <1>1, <2>2 DEF FreshInv
    <3>2. ChannelBindableByUser(u, c)
      BY <1>2, <1>3, <3>1 DEF Checked, IsAdmin
    <3> QED
      BY <3>2, BindableKept
  <2> QED
    BY <2>1, <2>2
<1> QED
  BY <1>2, <1>3 DEF Checked, IsAdmin, ChannelBindableByUser, UserBindings, SharedBindings

LEMMA FreshStep == FormsTypeOK /\ FreshInv /\ [Next]_vars => FreshInv'
<1> SUFFICES ASSUME FormsTypeOK, FreshInv, [Next]_vars PROVE FreshInv'
  OBVIOUS
<1>0. req \in [Requests -> RequestType] /\ fresh \subseteq Requests
  BY DEF FormsTypeOK
<1>i. ASSUME NEW r \in Requests, req' = [req EXCEPT ![r] = Idle]
      PROVE  /\ req'[r].pc = "idle"
             /\ \A s \in Requests : req'[s] = req[s] \/ req'[s].pc = "idle"
  BY <1>0, <1>i, IdleType
<1>1. CASE fresh' = {}
  BY <1>1 DEF FreshInv
<1>2. ASSUME NEW r \in Requests, req' = [req EXCEPT ![r] = Idle], fresh' = fresh \cap {r}
      PROVE  FreshInv'
  <2>1. \A s \in fresh' : req'[s].pc = "idle"
    BY <1>2, <1>i
  <2> QED
    BY <2>1 DEF FreshInv, Checked
<1>3. ASSUME NEW r \in Requests, req' = [req EXCEPT ![r] = Idle], UNCHANGED fresh,
             UNCHANGED <<live, owner, channel, chan>>
      PROVE  FreshInv'
  BY <1>0, <1>3, <1>i, FreshKept
<1>4. ASSUME NEW r \in Requests, NEW u \in Users, NEW e \in Emails, NEW c \in ChannelIds,
             CreateFormCheck(r, u, e, c)
      PROVE  FreshInv'
  <2> DEFINE q == [Idle EXCEPT !.pc = "insert", !.user = u, !.email = e, !.channel = c]
  <2>1. q \in RequestType /\ q.user = u /\ q.channel = c
    BY DEF Idle, RequestType, Addresses, ChannelIds
  <2>2. req' = [req EXCEPT ![r] = q]
    BY <1>4 DEF CreateFormCheck
  <2> HIDE DEF q
  <2> QED
    BY <1>4, <2>1, <2>2, FreshChecked DEF CreateFormCheck, formCols
<1>5. ASSUME NEW r \in Requests, NEW u \in Users, NEW f \in FormIds, NEW e \in Emails,
             NEW c \in ChannelIds, UpdateFormCheck(r, u, f, e, c)
      PROVE  FreshInv'
  <2> DEFINE q == [Idle EXCEPT !.pc = "read", !.user = u, !.form = f, !.email = e, !.channel = c]
  <2>1. q \in RequestType /\ q.user = u /\ q.channel = c
    BY DEF Idle, RequestType, Addresses, ChannelIds
  <2>2. req' = [req EXCEPT ![r] = q]
    BY <1>5 DEF UpdateFormCheck
  <2> HIDE DEF q
  <2> QED
    BY <1>5, <2>1, <2>2, FreshChecked DEF UpdateFormCheck, formCols
<1>6. ASSUME NEW r \in Requests, CreateForm(r) PROVE FreshInv'
  BY <1>2, <1>6 DEF CreateForm, Outdate
<1>7. ASSUME NEW r \in Requests, UpdateFormNewAddress(r) \/ UpdateFormSameAddress(r)
      PROVE  FreshInv'
  <2>1. CASE fresh' = fresh \cap {r}
    BY <1>2, <1>7, <2>1 DEF UpdateFormNewAddress, UpdateFormSameAddress
  <2>2. CASE fresh' # fresh \cap {r}
    BY <1>3, <1>7, <2>2 DEF UpdateFormNewAddress, UpdateFormSameAddress, Outdate
  <2> QED
    BY <2>1, <2>2
<1>8. ASSUME NEW r \in Requests, UpdateFormRead(r) PROVE FreshInv'
  <2>1. CASE ~MayEdit(req[r].user, req[r].form)
    BY <1>3, <1>8, <2>1 DEF UpdateFormRead, formCols
  <2>2. CASE MayEdit(req[r].user, req[r].form)
    <3> DEFINE q == [req[r] EXCEPT !.pc = "write", !.seen = recipient[req[r].form]]
    <3>1. req' = [req EXCEPT ![r] = q] /\ req[r].pc = "read"
      BY <1>8, <2>2 DEF UpdateFormRead
    <3>2. q.user = req[r].user /\ q.channel = req[r].channel
      BY <1>0 DEF RequestType
    <3> HIDE DEF q
    <3>3. \A s \in Requests : \/ req'[s] = req[s]
                              \/ /\ req[s].pc = "read" /\ req'[s].user = req[s].user
                                 /\ req'[s].channel = req[s].channel
      BY <1>0, <3>1, <3>2
    <3> QED
      BY <1>0, <1>8, <3>3, FreshKept DEF UpdateFormRead, formCols
  <2> QED
    BY <2>1, <2>2
<1>9. ASSUME NEW r \in Requests, NEW m \in given, VerifyEmailRead(r, m) PROVE FreshInv'
  <2>1. ASSUME NEW f \in live,
               req' = [req EXCEPT ![r] = [Idle EXCEPT !.pc = "verify", !.form = f,
                                                      !.token = m[1]]]
        PROVE  \A s \in Requests : req'[s] = req[s] \/ req'[s].pc = "verify"
    BY <1>0, <2>1 DEF Idle
  <2>3. \A s \in Requests : req'[s] = req[s] \/ req'[s].pc = "verify"
    BY <1>9, <2>1 DEF VerifyEmailRead
  <2> QED
    BY <1>0, <1>9, <2>3, FreshKept DEF VerifyEmailRead, formCols
<1>10. ASSUME NEW r \in Requests, VerifyEmail(r) PROVE FreshInv'
  BY <1>3, <1>10 DEF VerifyEmail
<1>11. CASE ChannelEdit
  BY <1>1, <1>11 DEF ChannelEdit, CreateChannel, UpdateChannel
<1>12. ASSUME NEW r \in Requests, NEW u, NEW c, DeleteChannel(r) \/ DeleteChannelUnbind(r, u, c)
       PROVE  FreshInv'
  BY <1>1, <1>12 DEF DeleteChannel, DeleteChannelUnbind
<1>13. CASE FormEdit
  <2>1. ASSUME NEW f, GivesOut(f) PROVE FreshInv'
    BY <2>1, FreshKept DEF GivesOut, formCols
  <2>2. ASSUME NEW f, NEW u, DeleteForm(u, f) PROVE FreshInv'
    BY <1>1, <2>2 DEF DeleteForm
  <2> QED
    BY <1>13, <2>1, <2>2, GivingOut
<1>14. CASE UNCHANGED vars
  BY <1>14, FreshKept DEF vars, formCols
<1> QED
  BY <1>4, <1>5, <1>6, <1>7, <1>8, <1>9, <1>10, <1>11, <1>12, <1>13, <1>14
     DEF Next, CreateRequest, UpdateRequest, VerifyRequest, DeleteChannelRequest


(* A write adds at most one binding, and the check left room for it.       *)
LEMMA OneMore ==
  ASSUME NEW S, NEW T, NEW f, IsFiniteSet(S), T \subseteq S \cup {f},
         NEW limit \in Nat, Below(Cardinality(S), limit)
  PROVE  Within(Cardinality(T), limit)
<1>1. /\ IsFiniteSet(S \cup {f})
      /\ Cardinality(S \cup {f}) = IF f \in S THEN Cardinality(S) ELSE Cardinality(S) + 1
  BY FS_AddElement
<1>2. IsFiniteSet(T) /\ Cardinality(T) <= Cardinality(S \cup {f})
  BY <1>1, FS_Subset
<1>3. Cardinality(S) \in Nat /\ Cardinality(T) \in Nat
  BY <1>2, FS_CardinalityType
<1> QED
  BY <1>1, <1>2, <1>3 DEF Below, Within

(* The form f of the user u is bound to c, and nothing else happens to     *)
(* bindings and channels.                                                  *)
LEMMA BindStep ==
  ASSUME FormsTypeOK, ChanOK, NEW u \in Users, NEW c \in Channels, NEW f \in FormIds,
         ~IsAdmin(u), ChannelBindableByUser(u, c), live' \subseteq live \cup {f},
         \A g \in live : g # f => channel'[g] = channel[g] /\ owner'[g] = owner[g],
         UNCHANGED chan
  PROVE  (chan[c].here /\ chan[c].enabled /\ SharingRespected(u, c))'
<1>1. /\ chan[c].here /\ chan[c].enabled
      /\ \/ chan[c].owner = u
         \/ /\ chan[c].owner = PrimaryAdmin /\ chan[c].shared
            /\ Below(Cardinality(UserBindings(u, c)), chan[c].perUser)
            /\ Below(Cardinality(SharedBindings(c)), chan[c].total)
  BY DEF ChannelBindableByUser
<1>2. CASE chan[c].owner = u
  BY <1>1, <1>2 DEF SharingRespected
<1>3. CASE /\ chan[c].owner = PrimaryAdmin /\ chan[c].shared
           /\ Below(Cardinality(UserBindings(u, c)), chan[c].perUser)
           /\ Below(Cardinality(SharedBindings(c)), chan[c].total)
  <2>1. IsFiniteSet(live)
    <3>1. IsFiniteSet(1..MaxForms)
      BY FS_Interval
    <3>2. live \subseteq 1..MaxForms
      BY DEF FormsTypeOK
    <3> QED
      BY <3>1, <3>2, FS_Subset
  <2>2. IsFiniteSet(UserBindings(u, c)) /\ IsFiniteSet(SharedBindings(c))
    BY <2>1, FS_Subset DEF UserBindings, SharedBindings
  <2>3. chan[c].perUser \in Nat /\ chan[c].total \in Nat
    BY DEF ChanOK, RowType
  <2>4. UserBindings(u, c)' \subseteq UserBindings(u, c) \cup {f}
    BY DEF UserBindings
  <2>5. SharedBindings(c)' \subseteq SharedBindings(c) \cup {f}
    BY DEF SharedBindings
  <2>6. Within(Cardinality(UserBindings(u, c)'), chan[c].perUser)
    BY <1>3, <2>2, <2>3, <2>4, OneMore
  <2>7. Within(Cardinality(SharedBindings(c)'), chan[c].total)
    BY <1>3, <2>2, <2>3, <2>5, OneMore
  <2> QED
    BY <1>1, <1>3, <2>6, <2>7 DEF SharingRespected, Within
<1> QED
  BY <1>1, <1>2, <1>3

(* The steps that write a binding.                                         *)
LEMMA BindingSteps ==
  ASSUME [Next]_vars, channel' # channel
  PROVE  \E r \in Requests :
            \/ CreateForm(r)
            \/ /\ UpdateFormNewAddress(r) \/ UpdateFormSameAddress(r)
               /\ MayEdit(req[r].user, req[r].form)
            \/ \E u \in Users, c \in Channels : DeleteChannelUnbind(r, u, c)
<1>1. ASSUME NEW r \in Requests, CreateRequest(r) PROVE CreateForm(r)
  BY <1>1 DEF CreateRequest, CreateFormCheck, formCols
<1>2. ASSUME NEW r \in Requests, UpdateRequest(r)
      PROVE  /\ UpdateFormNewAddress(r) \/ UpdateFormSameAddress(r)
             /\ MayEdit(req[r].user, req[r].form)
  BY <1>2 DEF UpdateRequest, UpdateFormCheck, UpdateFormRead, UpdateFormNewAddress,
              UpdateFormSameAddress, formCols
<1>3. ASSUME NEW r \in Requests, VerifyRequest(r) PROVE FALSE
  BY <1>3 DEF VerifyRequest, VerifyEmailRead, VerifyEmail, formCols
<1>4. ASSUME NEW r \in Requests, DeleteChannelRequest(r)
      PROVE  \E u \in Users, c \in Channels : DeleteChannelUnbind(r, u, c)
  BY <1>4 DEF DeleteChannelRequest, DeleteChannel, formCols
<1>5. ~FormEdit /\ ~ChannelEdit
  BY GivingOut DEF ChannelEdit, GivesOut, DeleteForm, CreateChannel, UpdateChannel, formCols
<1>6. Next
  BY DEF vars, formCols
<1> QED
  BY <1>1, <1>2, <1>3, <1>4, <1>5, <1>6 DEF Next

LEMMA BindingStep ==
  ASSUME FormsTypeOK, ChanOK, FreshInv, [Next]_vars,
         NEW r \in Requests, NEW u \in Users, NEW c \in Channels, Binds(r, u, c), r \in fresh
  PROVE  (chan[c].here /\ chan[c].enabled /\ SharingRespected(u, c))'
<1>0. req \in [Requests -> RequestType]
  BY DEF FormsTypeOK
<1>1. /\ req[r].pc \in {"insert", "write"} /\ req'[r].pc = "idle" /\ channel' # channel
      /\ req[r].user = u /\ req[r].channel = c /\ ~IsAdmin(u)
  BY DEF Binds
<1>2. ChannelBindableByUser(u, c)
  BY <1>1 DEF FreshInv, Checked, IsAdmin
<1>3. PICK s \in Requests :
         \/ CreateForm(s)
         \/ /\ UpdateFormNewAddress(s) \/ UpdateFormSameAddress(s)
            /\ MayEdit(req[s].user, req[s].form)
         \/ \E v \in Users, d \in Channels : DeleteChannelUnbind(s, v, d)
  BY <1>1, BindingSteps
<1>4. s = r
  <2>1. PICK q : req' = [req EXCEPT ![s] = q]
    BY <1>3 DEF CreateForm, UpdateFormNewAddress, UpdateFormSameAddress, DeleteChannelUnbind
  <2>2. s # r => req'[r] = req[r]
    BY <1>0, <2>1
  <2> QED
    BY <1>1, <2>2
<1>5. CASE CreateForm(r)
  <2>1. PICK f \in FormIds :
           /\ live' = live \cup {f} /\ f \notin live /\ UNCHANGED chan
           /\ owner' = [owner EXCEPT ![f] = req[r].user]
           /\ channel' = [channel EXCEPT ![f] = req[r].channel]
    BY <1>5 DEF CreateForm
  <2>2. \A g \in live : g # f => channel'[g] = channel[g] /\ owner'[g] = owner[g]
    BY <2>1 DEF FormsTypeOK
  <2> QED
    BY <1>1, <1>2, <2>1, <2>2, BindStep
<1>6. CASE /\ UpdateFormNewAddress(r) \/ UpdateFormSameAddress(r)
           /\ MayEdit(req[r].user, req[r].form)
  <2>1. PICK f \in FormIds : f = req[r].form
    BY <1>6 DEF MayEdit, FormsTypeOK
  <2>2. /\ channel' = [channel EXCEPT ![f] = req[r].channel]
        /\ UNCHANGED <<live, owner, chan>>
    BY <1>1, <1>6, <2>1 DEF UpdateFormNewAddress, UpdateFormSameAddress
  <2>3. \A g \in live : g # f => channel'[g] = channel[g] /\ owner'[g] = owner[g]
    BY <2>2 DEF FormsTypeOK
  <2> QED
    BY <1>1, <1>2, <2>1, <2>2, <2>3, BindStep
<1> QED
  BY <1>1, <1>3, <1>4, <1>5, <1>6 DEF DeleteChannelUnbind

(* A user's write binds a form only to a channel that is there, enabled    *)
(* and the user's own or shared with room for the form, provided nothing   *)
(* changed since the check (channelBindableByUser): for any number of      *)
(* users, forms, channels and requests, and any limits.                    *)
THEOREM BindingsAreAllowed == Spec => BindingAllowed
<1>1. FormsTypeOK /\ ChanOK /\ FreshInv /\ [Next]_vars =>
         [\A r \in Requests, u \in Users, c \in Channels :
            Binds(r, u, c) /\ r \in fresh =>
               (chan[c].here /\ chan[c].enabled /\ SharingRespected(u, c))']_vars
  BY BindingStep
<1>2. Init => FreshInv
  BY DEF Init, FreshInv
<1> QED
  BY <1>1, <1>2, TypeInit, TypeStep, ChanInit, ChanStep, FreshStep, PTL DEF Spec, BindingAllowed
=============================================================================
