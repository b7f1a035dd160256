------------------------------- MODULE Forms -------------------------------
(***************************************************************************)
(* Forms, the verification of their recipient addresses, and the mail      *)
(* channels they are bound to: internal/handlers/forms.go and              *)
(* internal/handlers/channels.go.                                          *)
(*                                                                         *)
(* Every handler runs in a goroutine of its own and talks to SQLite one    *)
(* statement at a time, with no transaction: what a handler read may have  *)
(* changed when it writes.  A request below is cut at those places.        *)
(***************************************************************************)
EXTENDS Naturals, FiniteSets

CONSTANTS
    Users,
    Admins,        \* the users whose role is "admin"
    PrimaryAdmin,  \* the administrator with the lowest id
    MaxForms,      \* bound on the forms ever created
    Emails,
    Channels,
    NoChannel,     \* channel_id = 0
    Limits,        \* values of the two share limits, 0 meaning no limit
    Requests,      \* handlers in flight at the same time
    MaxTokens      \* bound on the verification tokens drawn

ASSUME UsersAssumption    == PrimaryAdmin \in Admins /\ Admins \subseteq Users
ASSUME ChannelsAssumption == NoChannel \notin Channels
ASSUME BoundsAssumption   ==
    MaxForms \in Nat /\ MaxTokens \in Nat /\ Limits \subseteq Nat

FormIds == 1..MaxForms
Tokens  == 1..MaxTokens

VARIABLES
    live, gone,   \* the form ids with a row, and those whose row was deleted
    owner, channel, recipient, token,  \* columns of forms
    verified,     \* the forms with email_verified = 1
    chan,         \* the rows of channels
    req,          \* the requests in flight
    lastToken,    \* tokens are random, never drawn twice
    given,        \* the <<token, address>> pairs given out: in a mail to the address,
                  \*   or shown beside it to who may edit the form
    opened,       \* history: the given pairs whose link was opened
    stale,        \* history: forms whose address was written by an UpdateForm
                  \*   that took the "address unchanged" branch wrongly
    fresh         \* history: requests since whose check no binding or channel changed

formCols == <<live, gone, owner, channel, recipient, token, verified>>
vars == <<formCols, chan, req, lastToken, given, opened, stale, fresh>>

IsAdmin(u) == u \in Admins

NoRow == [here |-> FALSE, owner |-> PrimaryAdmin, enabled |-> FALSE, shared |-> FALSE,
          perUser |-> 0, total |-> 0]

Idle == [pc |-> "idle", user |-> PrimaryAdmin, form |-> 0, email |-> "", seen |-> "",
         channel |-> NoChannel, token |-> 0]

Init ==
    /\ live = {} /\ gone = {}
    /\ owner     = [f \in FormIds |-> PrimaryAdmin]
    /\ channel   = [f \in FormIds |-> NoChannel]
    /\ recipient = [f \in FormIds |-> ""]
    /\ token     = [f \in FormIds |-> 0]
    /\ verified  = {}
    /\ chan      = [c \in Channels |-> NoRow]
    /\ req       = [r \in Requests |-> Idle]
    /\ lastToken = 0
    /\ given = {} /\ opened = {} /\ stale = {} /\ fresh = {}

(* Plausible bugs, each of which one of the properties below excludes: a   *)
(* limit that is one too high, a new address that keeps the token and the  *)
(* verification of the old one, a link that verifies by the id it read.    *)
BelowOrAt(count, limit) == limit > 0 => count <= limit
UpdateFormKeepsToken(r) ==
    LET q == req[r] IN
    /\ q.pc = "write" /\ q.seen # q.email
    /\ lastToken < MaxTokens
    /\ lastToken' = lastToken + 1
    /\ given' = given \cup {<<lastToken + 1, q.email>>}
    /\ recipient' = [recipient EXCEPT ![q.form] = q.email]
    /\ req' = [req EXCEPT ![r] = Idle]
    /\ UNCHANGED <<live, gone, owner, channel, token, verified, chan, opened, stale, fresh>>
VerifyEmailById(r) ==
    /\ req[r].pc = "verify"
    /\ verified' = verified \cup ({req[r].form} \cap live)
    /\ req' = [req EXCEPT ![r] = Idle]
    /\ UNCHANGED <<live, gone, owner, channel, recipient, token, chan, lastToken,
                   given, opened, stale, fresh>>

-----------------------------------------------------------------------------
(* Which channel a user may bind a form to.                                *)

UserBindings(u, c)  == {f \in live : owner[f] = u /\ channel[f] = c}
SharedBindings(c)   == {f \in live : channel[f] = c /\ owner[f] # chan[c].owner}
Below(count, limit) == limit > 0 => count < limit

ChannelBindableByUser(u, c) ==
    \/ c = NoChannel
    \/ /\ c \in Channels
       /\ chan[c].here /\ chan[c].enabled
       /\ \/ chan[c].owner = u
          \/ /\ ~IsAdmin(u)
             /\ chan[c].owner = PrimaryAdmin /\ chan[c].shared
             /\ Below(Cardinality(UserBindings(u, c)), chan[c].perUser)
             /\ Below(Cardinality(SharedBindings(c)), chan[c].total)

(* Every write to a binding or a channel makes the other checks outdated.  *)
Outdate(r) == fresh' = fresh \cap {r}

-----------------------------------------------------------------------------
(* POST /api/forms: the check, then the INSERT and the verification mail.  *)
CreateFormCheck(r, u, e, c) ==
    /\ req[r].pc = "idle"
    /\ ChannelBindableByUser(u, c)
    /\ req' = [req EXCEPT ![r] = [Idle EXCEPT !.pc = "insert", !.user = u,
                                              !.email = e, !.channel = c]]
    /\ fresh' = fresh \cup {r}
    /\ UNCHANGED <<formCols, chan, lastToken, given, opened, stale>>

CreateForm(r) ==
    LET q == req[r] IN
    /\ q.pc = "insert"
    /\ lastToken < MaxTokens
    /\ lastToken' = lastToken + 1
    /\ \E f \in FormIds \ (live \cup gone) :
          /\ \A g \in FormIds : g < f => g \in live \cup gone
          /\ live'      = live \cup {f}
          /\ owner'     = [owner EXCEPT ![f] = q.user]
          /\ channel'   = [channel EXCEPT ![f] = q.channel]
          /\ recipient' = [recipient EXCEPT ![f] = q.email]
          /\ token'     = [token EXCEPT ![f] = lastToken + 1]
    /\ given' = given \cup {<<lastToken + 1, q.email>>}
    /\ req' = [req EXCEPT ![r] = Idle]
    /\ Outdate(r)
    /\ UNCHANGED <<gone, verified, chan, opened, stale>>

(* PUT /api/forms/:id: the check (none for an administrator), the SELECT   *)
(* of the present address, and the UPDATE chosen by comparing the two.     *)
UpdateFormCheck(r, u, f, e, c) ==
    /\ req[r].pc = "idle"
    /\ f \in live \cup gone
    /\ IsAdmin(u) \/ ChannelBindableByUser(u, c)
    /\ req' = [req EXCEPT ![r] = [Idle EXCEPT !.pc = "read", !.user = u, !.form = f,
                                              !.email = e, !.channel = c]]
    /\ fresh' = fresh \cup {r}
    /\ UNCHANGED <<formCols, chan, lastToken, given, opened, stale>>

MayEdit(u, f) == f \in live /\ (IsAdmin(u) \/ owner[f] = u)

UpdateFormRead(r) ==
    LET q == req[r] IN
    /\ q.pc = "read"
    /\ req' = [req EXCEPT ![r] =
                 IF MayEdit(q.user, q.form)
                 THEN [q EXCEPT !.pc = "write", !.seen = recipient[q.form]]
                 ELSE Idle]
    /\ UNCHANGED <<formCols, chan, lastToken, given, opened, stale, fresh>>

(* A new address: a new token, and the form is unverified again.  The mail *)
(* leaves even when the UPDATE failed or found no row any more.            *)
UpdateFormNewAddress(r) ==
    LET q == req[r] IN
    /\ q.pc = "write" /\ q.seen # q.email
    /\ lastToken < MaxTokens
    /\ lastToken' = lastToken + 1
    /\ given' = given \cup {<<lastToken + 1, q.email>>}
    /\ \/ /\ MayEdit(q.user, q.form)
          /\ channel'   = [channel EXCEPT ![q.form] = q.channel]
          /\ recipient' = [recipient EXCEPT ![q.form] = q.email]
          /\ token'     = [token EXCEPT ![q.form] = lastToken + 1]
          /\ verified'  = verified \ {q.form}
          /\ stale'     = stale \ {q.form}
          /\ Outdate(r)
       \/ UNCHANGED <<channel, recipient, token, verified, stale, fresh>>
    /\ req' = [req EXCEPT ![r] = Idle]
    /\ UNCHANGED <<live, gone, owner, chan, opened>>

(* The same address as the one read: the other columns are written, and    *)
(* the address again, leaving token and verification as they are.          *)
UpdateFormSameAddress(r) ==
    LET q == req[r] IN
    /\ q.pc = "write" /\ q.seen = q.email
    /\ IF MayEdit(q.user, q.form)
       THEN /\ channel'   = [channel EXCEPT ![q.form] = q.channel]
            /\ recipient' = [recipient EXCEPT ![q.form] = q.email]
            /\ stale'     = IF recipient[q.form] # q.email
                            THEN stale \cup {q.form} ELSE stale
            /\ Outdate(r)
       ELSE UNCHANGED <<channel, recipient, stale, fresh>>
    /\ req' = [req EXCEPT ![r] = Idle]
    /\ UNCHANGED <<live, gone, owner, token, verified, chan, lastToken, given, opened>>

(* DELETE /api/forms/:id                                                   *)
DeleteForm(u, f) ==
    /\ MayEdit(u, f)
    /\ live' = live \ {f}
    /\ gone' = gone \cup {f}
    /\ verified' = verified \ {f}
    /\ stale' = stale \ {f}
    /\ fresh' = {}
    /\ UNCHANGED <<owner, channel, recipient, token, chan, req, lastToken, given, opened>>

(* POST /api/forms/:id/resend-verify, by the owner: through the bound      *)
(* channel when there is one, else through the owner's channels.           *)
ResendFormVerifyEmail(f) ==
    /\ f \in live
    /\ channel[f] \in Channels => chan[channel[f]].here /\ chan[channel[f]].enabled
    /\ given' = given \cup {<<token[f], recipient[f]>>}
    /\ UNCHANGED <<formCols, chan, req, lastToken, opened, stale, fresh>>

(* GET /api/forms and /api/forms/:id show a form's row, its token included, *)
(* to its owner and to administrators.                                     *)
ShowForm(u, f) ==
    /\ MayEdit(u, f)
    /\ given' = given \cup {<<token[f], recipient[f]>>}
    /\ UNCHANGED <<formCols, chan, req, lastToken, opened, stale, fresh>>

(* GET /verify/:token, which needs no login, with a token that was given   *)
(* out: the SELECT by token, then, for a form that is not verified, the    *)
(* UPDATE by token.                                                        *)
VerifyEmailRead(r, m) ==
    /\ req[r].pc = "idle"
    /\ m \in given
    /\ opened' = opened \cup {m}
    /\ \/ \E f \in live \ verified :
             /\ token[f] = m[1]
             /\ req' = [req EXCEPT ![r] = [Idle EXCEPT !.pc = "verify", !.form = f,
                                                       !.token = m[1]]]
       \/ /\ \A f \in live \ verified : token[f] # m[1]
          /\ UNCHANGED req
    /\ UNCHANGED <<formCols, chan, lastToken, given, stale, fresh>>

VerifyEmail(r) ==
    /\ req[r].pc = "verify"
    /\ verified' = verified \cup {f \in live : token[f] = req[r].token}
    /\ req' = [req EXCEPT ![r] = Idle]
    /\ UNCHANGED <<live, gone, owner, channel, recipient, token, chan, lastToken,
                   given, opened, stale, fresh>>

-----------------------------------------------------------------------------
(* Channels.  Only an administrator's channel can be shared.               *)
CreateChannel(u, c, enabled, share, perUser, total) ==
    /\ ~chan[c].here
    /\ chan' = [chan EXCEPT ![c] =
                  [here |-> TRUE, owner |-> u, enabled |-> enabled,
                   shared |-> share /\ IsAdmin(u), perUser |-> perUser, total |-> total]]
    /\ fresh' = {}
    /\ UNCHANGED <<formCols, req, lastToken, given, opened, stale>>

UpdateChannel(u, c, enabled, share, perUser, total) ==
    /\ chan[c].here /\ chan[c].owner = u
    /\ chan' = [chan EXCEPT ![c] =
                  [here |-> TRUE, owner |-> u, enabled |-> enabled,
                   shared  |-> share /\ IsAdmin(u),
                   perUser |-> IF IsAdmin(u) THEN perUser ELSE 0,
                   total   |-> IF IsAdmin(u) THEN total ELSE 0]]
    /\ fresh' = {}
    /\ UNCHANGED <<formCols, req, lastToken, given, opened, stale>>

(* DELETE /api/channels/:id: every form bound to the channel is unbound,   *)
(* then the row is deleted if it is the caller's.                          *)
DeleteChannelUnbind(r, u, c) ==
    /\ req[r].pc = "idle"
    /\ channel' = [f \in FormIds |->
                     IF f \in live /\ channel[f] = c THEN NoChannel ELSE channel[f]]
    /\ req' = [req EXCEPT ![r] = [Idle EXCEPT !.pc = "delete", !.user = u, !.channel = c]]
    /\ fresh' = {}
    /\ UNCHANGED <<live, gone, owner, recipient, token, verified, chan, lastToken,
                   given, opened, stale>>

DeleteChannel(r) ==
    LET q == req[r] IN
    /\ q.pc = "delete"
    /\ chan' = IF chan[q.channel].here /\ chan[q.channel].owner = q.user
               THEN [chan EXCEPT ![q.channel] = NoRow] ELSE chan
    /\ req' = [req EXCEPT ![r] = Idle]
    /\ fresh' = {}
    /\ UNCHANGED <<formCols, lastToken, given, opened, stale>>

-----------------------------------------------------------------------------
ChannelIds == Channels \cup {NoChannel}

CreateRequest(r) == CreateForm(r) \/ \E u \in Users, e \in Emails, c \in ChannelIds :
                                        CreateFormCheck(r, u, e, c)

UpdateRequest(r) ==
    \/ \E u \in Users, f \in FormIds, e \in Emails, c \in ChannelIds :
          UpdateFormCheck(r, u, f, e, c)
    \/ UpdateFormRead(r)
    \/ UpdateFormNewAddress(r)
    \/ UpdateFormSameAddress(r)

VerifyRequest(r) == VerifyEmail(r) \/ \E m \in given : VerifyEmailRead(r, m)

DeleteChannelRequest(r) ==
    DeleteChannel(r) \/ \E u \in Users, c \in Channels : DeleteChannelUnbind(r, u, c)

ChannelEdit ==
    \E u \in Users, c \in Channels, enabled, share \in BOOLEAN, p, t \in Limits :
        CreateChannel(u, c, enabled, share, p, t) \/ UpdateChannel(u, c, enabled, share, p, t)

FormEdit ==
    \E f \in FormIds : \/ ResendFormVerifyEmail(f)
                       \/ \E u \in Users : DeleteForm(u, f) \/ ShowForm(u, f)

Next ==
    \/ \E r \in Requests : \/ CreateRequest(r) \/ UpdateRequest(r)
                           \/ VerifyRequest(r) \/ DeleteChannelRequest(r)
    \/ FormEdit
    \/ ChannelEdit

Spec == Init /\ [][Next]_vars

-----------------------------------------------------------------------------
Addresses == Emails \cup {""}

RequestType ==
    [pc : {"idle", "insert", "read", "write", "verify", "delete"}, user : Users,
     form : FormIds \cup {0}, email : Addresses, seen : Addresses,
     channel : ChannelIds, token : Tokens \cup {0}]

FormsTypeOK ==
    /\ live \subseteq FormIds /\ gone \subseteq FormIds /\ live \cap gone = {}
    /\ owner     \in [FormIds -> Users]
    /\ channel   \in [FormIds -> ChannelIds]
    /\ recipient \in [FormIds -> Addresses]
    /\ token     \in [FormIds -> Tokens \cup {0}]
    /\ verified \subseteq live /\ stale \subseteq live /\ fresh \subseteq Requests
    /\ req  \in [Requests -> RequestType]
    /\ lastToken \in 0..MaxTokens
    /\ given \subseteq Tokens \X Emails /\ opened \subseteq given
    /\ \A f \in live : recipient[f] \in Emails /\ token[f] \in Tokens
    /\ \A r \in Requests :
          /\ req[r].pc \in {"insert", "read", "write"} => req[r].email \in Emails
          /\ req[r].pc \in {"read", "write"} => req[r].form \in FormIds
          /\ req[r].pc = "delete" => req[r].channel \in Channels

(* A form takes submissions only after a link that was given out for its   *)
(* present recipient address was opened, whatever edits, resends, showings *)
(* and openings of older links interleave: no other address's link will    *)
(* do.  The one exception is an UpdateForm whose read of the address was   *)
(* outdated when it wrote.  Whether the link came out of the mailbox or    *)
(* from the dashboard, the code cannot tell.                               *)
VerifiedMeansConfirmed ==
    \A f \in verified : <<token[f], recipient[f]>> \in opened \/ f \in stale

(* The same without the exception: the README promises that a form takes   *)
(* effect only after its address was verified.                             *)
RecipientConfirmed == \A f \in verified : <<token[f], recipient[f]>> \in opened

(* A link leads to one form, and was given out for no other address than   *)
(* the one it verifies: tokens are replaced whenever the address is, but   *)
(* for the same exception.                                                 *)
LinkNamesRecipient ==
    \A f \in live : \A m \in given :
        m[1] = token[f] => m[2] = recipient[f] \/ f \in stale

TokensUnique == \A f, g \in live : token[f] = token[g] => f = g

(* Bookkeeping that makes the verification properties inductive: tokens in *)
(* use were drawn, and a VerifyEmail between its two statements works for  *)
(* a link that was opened.                                                 *)
TokensDrawn ==
    /\ \A f \in live : token[f] \in 1..lastToken
    /\ \A m \in given : m[1] \in 1..lastToken

VerifyingOpenedLink ==
    \A r \in Requests :
        req[r].pc = "verify" => \E m \in opened : m[1] = req[r].token

IInv ==
    /\ FormsTypeOK
    /\ TokensDrawn
    /\ TokensUnique
    /\ LinkNamesRecipient
    /\ VerifyingOpenedLink
    /\ VerifiedMeansConfirmed

(* The step in which request r of ordinary user u binds a form to c.       *)
Binds(r, u, c) ==
    /\ req[r].pc \in {"insert", "write"} /\ req'[r].pc = "idle"
    /\ req[r].user = u /\ ~IsAdmin(u) /\ req[r].channel = c
    /\ channel' # channel

Within(count, limit) == limit > 0 => count <= limit

SharingRespected(u, c) ==
    \/ chan[c].owner = u
    \/ /\ chan[c].owner = PrimaryAdmin /\ chan[c].shared
       /\ Within(Cardinality(UserBindings(u, c)), chan[c].perUser)
       /\ Within(Cardinality(SharedBindings(c)), chan[c].total)

(* A user's write binds a form only to a channel that exists, is enabled   *)
(* and is the user's own or shared, within both limits, provided nothing   *)
(* changed since the check (CreateForm, UpdateForm, channelBindableByUser).*)
BindingAllowed ==
    [][\A r \in Requests, u \in Users, c \in Channels :
         Binds(r, u, c) /\ r \in fresh =>
            (chan[c].here /\ chan[c].enabled /\ SharingRespected(u, c))']_vars

=============================================================================
