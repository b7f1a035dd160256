---------------------------- MODULE Submissions ----------------------------
(***************************************************************************)
(* What becomes of a form submission that passed the handler's checks: the *)
(* row, the mail to the form's recipient with its fallback from channel to *)
(* channel, the auto-reply, the recorded outcome, and the webhook; and the *)
(* note that makes a second one a duplicate.  SubmitForm in                *)
(* internal/handlers/submissions.go, and internal/services/mailer.go.      *)
(*                                                                         *)
(* The handler holds no transaction: forms, channels and submissions       *)
(* change between its statements, and a send may take half a minute.  The  *)
(* other checks that keep state of their own are in RateLimits.            *)
(***************************************************************************)
EXTENDS Naturals, Sequences

CONSTANTS
    Requests,    \* gin contexts: handlers that run at the same time
    Forms,
    ReplyForms,  \* the forms with auto-reply
    HookForms,   \* the forms with a webhook
    Visitors,    \* an address on the network that submits one content
    Writers,     \* the visitors whose content has an e-mail address
    Addresses,   \* recipient addresses
    NumChannels, \* channels are numbered in the order (priority, id)
    Own,         \* the channels of the forms' owner; another one may be shared
    MaxRows,     \* bound on the submissions ever inserted
    MaxFaults,   \* bound on restarts and failed statements
    MaxEdits     \* bound on the edits of forms and channels

ASSUME SetsAssumption ==
    /\ Forms # {} /\ ReplyForms \subseteq Forms /\ HookForms \subseteq Forms
    /\ Visitors # {} /\ Writers \subseteq Visitors
    /\ Addresses # {} /\ Own \subseteq 1..NumChannels
ASSUME BoundsAssumption ==
    NumChannels \in Nat /\ MaxRows \in Nat /\ MaxFaults \in Nat /\ MaxEdits \in Nat

Channels == 1..NumChannels
Unbound  == 0
Rows     == 1..MaxRows
NoRow    == 0

VARIABLES
    address, bound,  \* forms.recipient_email and forms.channel_id
    verified,        \* the forms with email_verified = 1
    link,            \* the address for which the form's verify_token was drawn
    updating,        \* the UpdateForm handlers between their SELECT and their UPDATE
    enabled,         \* the channels with enabled = 1
    req,             \* the locals of each handler
    client,          \* the visitor whose request each context last carried
    noted,           \* dedupStore: the <<form, visitor>> seen in the last ten minutes
    lastRow,         \* the last id of submissions given out
    stored,          \* the ids that have a row
    formOf, from,    \* submissions.form_id; .ip and .data_enc
    spam, sent, error,  \* the ids with is_spam = 1, email_sent = 1, a send_error
    logs,            \* email_logs: <<submission, channel, success>>
    hooks,           \* webhook goroutines: <<submission, context>>
    told,            \* the webhooks sent: <<submission, ip>>
    took,            \* history: the channels that took each mail, in order
    bounced,         \* history: noted submissions that a later check refused
    refused,         \* history: <<submission, channel>> that failed the form's mail
    confirmed,       \* history: the <<form, address>> whose link was opened
    overwritten,     \* history: the <<form, address>> an UPDATE wrote over another
                     \*   address that its SELECT had not seen
    lost,            \* history: ids whose handler a fault kept from its end
    faults, edits

formVals == <<address, bound, verified, enabled, link, confirmed, overwritten, edits>>
formCols == <<formVals, updating>>
rowCols  == <<lastRow, stored, formOf, from, spam, sent, error, lost>>
sends    == <<logs, took, refused>>
dedup    == <<noted, bounced>>
webhooks == <<client, hooks, told>>
vars     == <<formCols, req, rowCols, sends, dedup, webhooks, faults>>

Kinds == {"main", "reply"}

Idle == [pc |-> "idle", form |-> CHOOSE f \in Forms : TRUE,
         by |-> CHOOSE v \in Visitors : TRUE, to |-> CHOOSE a \in Addresses : TRUE, bound |-> Unbound, row |-> NoRow,
         kind |-> "main", todo |-> {}, sent |-> FALSE]

Init ==
    /\ address \in [Forms -> Addresses]
    /\ bound \in [Forms -> Channels \cup {Unbound}]
    /\ verified = {} /\ enabled = Channels
    /\ link = address /\ updating = {} /\ confirmed = {} /\ overwritten = {}
    /\ req = [r \in Requests |-> Idle]
    /\ lastRow = 0 /\ stored = {}
    /\ formOf = [i \in Rows |-> Idle.form] /\ from = [i \in Rows |-> Idle.by]
    /\ client = [r \in Requests |-> Idle.by] /\ noted = {} /\ bounced = {}
    /\ hooks = {} /\ told = {}
    /\ spam = {} /\ sent = {} /\ error = {}
    /\ logs = {} /\ took = [m \in Rows \X Kinds |-> <<>>] /\ refused = {}
    /\ lost = {} /\ faults = 0 /\ edits = 0

-----------------------------------------------------------------------------
Goto(r, place) == req' = [req EXCEPT ![r].pc = place]
Return(r)      == req' = [req EXCEPT ![r] = Idle]

(* A statement whose error the code drops.                                 *)
Faulty == faults < MaxFaults /\ faults' = faults + 1

(* A plausible bug: a log that always says success.                       *)
LogSuccess(i, c, success) == logs' = logs \cup {<<i, c, TRUE>>} /\ UNCHANGED faults

(* A row of email_logs, or none when the INSERT fails.                     *)
Log(i, c, success) ==
    \/ logs' = logs \cup {<<i, c, success>>} /\ UNCHANGED faults
    \/ Faulty /\ UNCHANGED logs

(* Plausible bugs, each of which one of the properties below excludes: a   *)
(* note before the other checks, the outcome of the wrong mail kept, the   *)
(* lowest priority first, no return after the bound channel took the mail, *)
(* a return at a channel's error.                                          *)
NoteBeforeChecks(r) ==
    LET key == <<req[r].form, req[r].by>> IN
    /\ req[r].pc = "check" /\ key \notin noted
    /\ noted' = noted \cup {key}
    /\ Goto(r, "insert") \/ Return(r)
    /\ UNCHANGED <<formCols, rowCols, sends, bounced, webhooks, faults>>
KeepLastOutcome(r, success) ==
    LET q == req[r] IN
    req' = [req EXCEPT ![r] =
              IF q.kind = "main" /\ q.form \in ReplyForms /\ q.by \in Writers
              THEN [q EXCEPT !.kind = "reply", !.todo = {}, !.pc = "choose"]
              ELSE [q EXCEPT !.sent = success, !.todo = {}, !.pc = "record"]]
LowestFirst(r, c) == c \in req[r].todo /\ \A d \in req[r].todo : c >= d
SendOnAfterBound(r) ==
    /\ req[r].pc = "bound"
    /\ took' = [took EXCEPT ![<<req[r].row, req[r].kind>>] = Append(@, req[r].bound)]
    /\ Goto(r, "list")
    /\ UNCHANGED <<formCols, rowCols, logs, refused, dedup, webhooks, faults>>
ReturnOnError(r, c) ==
    /\ req[r].pc = "try" /\ c \in req[r].todo
    /\ refused' = refused \cup {<<req[r].row, c>>}
    /\ Return(r)
    /\ UNCHANGED <<formCols, rowCols, logs, took, dedup, webhooks, faults>>

-----------------------------------------------------------------------------
(* POST /f/:token: one SELECT reads everything the handler uses of the     *)
(* form; an unknown or unverified form ends the request.                   *)
SubmitForm(r, f, v) ==
    /\ req[r].pc = "idle"
    /\ f \in verified
    /\ req' = [req EXCEPT ![r] = [Idle EXCEPT !.pc = "check", !.form = f, !.by = v,
                                              !.to = address[f], !.bound = bound[f]]]
    /\ client' = [client EXCEPT ![r] = v]
    /\ UNCHANGED <<formCols, rowCols, sends, dedup, hooks, told, faults>>

(* One of the first checks refuses the submission, or it is a duplicate;   *)
(* else it is noted, and what follows cannot take the note back.           *)
RefuseEarly(r) ==
    /\ req[r].pc = "check"
    /\ Return(r)
    /\ UNCHANGED <<formCols, rowCols, sends, dedup, webhooks, faults>>

CheckDuplicateSubmit(r) ==
    LET key == <<req[r].form, req[r].by>> IN
    /\ req[r].pc = "check" /\ key \notin noted
    /\ noted' = noted \cup {key}
    /\ Goto(r, "insert")
    /\ UNCHANGED <<formCols, rowCols, sends, bounced, webhooks, faults>>

(* The honeypot, the schema or the encryption refuses it, or the INSERT    *)
(* fails.                                                                  *)
Refuse(r) ==
    /\ req[r].pc = "insert"
    /\ bounced' = bounced \cup ({<<req[r].form, req[r].by>>} \cap noted)
    /\ Return(r)
    /\ UNCHANGED <<formCols, rowCols, sends, noted, webhooks, faults>>

(* Ten minutes after the note.                                             *)
Lapse(key) ==
    /\ key \in noted
    /\ noted' = noted \ {key} /\ bounced' = bounced \ {key}
    /\ UNCHANGED <<formCols, req, rowCols, sends, webhooks, faults>>

(* The INSERT.  The reason a submission is spam is its send_error.         *)
Insert(r, isSpam) ==
    LET i == lastRow + 1 IN
    /\ req[r].pc = "insert"
    /\ lastRow < MaxRows
    /\ lastRow' = i
    /\ stored'  = stored \cup {i}
    /\ formOf'  = [formOf EXCEPT ![i] = req[r].form]
    /\ from'    = [from EXCEPT ![i] = req[r].by]
    /\ spam'    = IF isSpam THEN spam \cup {i} ELSE spam
    /\ error'   = IF isSpam THEN error \cup {i} ELSE error
    /\ req'     = [req EXCEPT ![r].row = i,
                              ![r].pc = IF isSpam THEN "record" ELSE "choose"]
    /\ UNCHANGED <<formCols, sent, lost, sends, dedup, webhooks, faults>>

(* The bound channel is read by id; unless it is there and enabled, the    *)
(* owner's enabled channels are listed instead.                            *)
ChooseChannel(r) ==
    /\ req[r].pc = "choose"
    /\ Goto(r, IF req[r].bound \in enabled THEN "bound" ELSE "list")
    /\ UNCHANGED <<formCols, rowCols, sends, dedup, webhooks, faults>>

(* A mail is over: the form's mail is followed by the auto-reply, if there *)
(* is one and the visitor left an address.                                 *)
MailOver(r, success) ==
    LET q == req[r] IN
    req' = [req EXCEPT ![r] =
              IF q.kind = "main"
              THEN [q EXCEPT !.sent = success, !.kind = "reply", !.todo = {},
                             !.pc = IF q.form \in ReplyForms /\ q.by \in Writers
                                    THEN "choose" ELSE "record"]
              ELSE [q EXCEPT !.pc = "record", !.todo = {}]]

Acknowledge(r, c) ==
    /\ took' = [took EXCEPT ![<<req[r].row, req[r].kind>>] = Append(@, c)]
    /\ UNCHANGED refused

Fail(r, c) ==
    /\ refused' = IF req[r].kind = "main" THEN refused \cup {<<req[r].row, c>>} ELSE refused
    /\ UNCHANGED took

(* SendWithOneChannel on the bound channel, logged for the form's mail but *)
(* not for the auto-reply.                                                 *)
BoundLog(r, success) ==
    IF req[r].kind = "main" THEN Log(req[r].row, req[r].bound, success)
                            ELSE UNCHANGED <<logs, faults>>

BoundSendOk(r) ==
    /\ req[r].pc = "bound"
    /\ Acknowledge(r, req[r].bound)
    /\ BoundLog(r, TRUE)
    /\ MailOver(r, TRUE)
    /\ UNCHANGED <<formCols, rowCols, dedup, webhooks>>

BoundSendError(r) ==
    /\ req[r].pc = "bound"
    /\ Fail(r, req[r].bound)
    /\ BoundLog(r, FALSE)
    /\ Goto(r, "list")
    /\ UNCHANGED <<formCols, rowCols, dedup, webhooks>>

(* SendWithFallbackByOwner: the list is read once, then each channel on it *)
(* is tried in order until one accepts the mail.                           *)
ListChannels(r) ==
    LET listed == Own \cap enabled IN
    /\ req[r].pc = "list"
    /\ IF listed = {} THEN MailOver(r, FALSE)
                      ELSE req' = [req EXCEPT ![r].pc = "try", ![r].todo = listed]
    /\ UNCHANGED <<formCols, rowCols, sends, dedup, webhooks, faults>>

IsNext(r, c) == c \in req[r].todo /\ \A d \in req[r].todo : c <= d

TryOk(r, c) ==
    /\ req[r].pc = "try" /\ IsNext(r, c)
    /\ Acknowledge(r, c)
    /\ Log(req[r].row, c, TRUE)
    /\ MailOver(r, TRUE)
    /\ UNCHANGED <<formCols, rowCols, dedup, webhooks>>

TryError(r, c) ==
    LET rest == req[r].todo \ {c} IN
    /\ req[r].pc = "try" /\ IsNext(r, c)
    /\ Fail(r, c)
    /\ Log(req[r].row, c, FALSE)
    /\ IF rest = {} THEN MailOver(r, FALSE) ELSE req' = [req EXCEPT ![r].todo = rest]
    /\ UNCHANGED <<formCols, rowCols, dedup, webhooks>>

(* The handler's end: the response, and the goroutine for the webhook,     *)
(* which keeps the gin context.                                            *)
Respond(r) ==
    /\ hooks' = IF req[r].form \in HookForms THEN hooks \cup {<<req[r].row, r>>} ELSE hooks
    /\ Return(r)
    /\ UNCHANGED <<client, told>>

(* The UPDATE of email_sent and send_error, by id.                         *)
Record(r) ==
    LET i == req[r].row IN
    /\ req[r].pc = "record"
    /\ sent'  = IF i \in stored /\ req[r].sent THEN sent \cup {i} ELSE sent
    /\ error' = IF i \in stored /\ ~req[r].sent THEN error \cup {i} ELSE error
    /\ Respond(r)
    /\ UNCHANGED <<formCols, lastRow, stored, formOf, from, spam, lost, sends, dedup, faults>>

RecordFails(r) ==
    /\ req[r].pc = "record"
    /\ Faulty
    /\ lost' = lost \cup {req[r].row}
    /\ Respond(r)
    /\ UNCHANGED <<formCols, lastRow, stored, formOf, from, spam, sent, error, sends, dedup>>

(* The goroutine asks its context for the address, whatever request the    *)
(* context carries by then, and posts the captured form and data.          *)
SendWebhook(i, r) ==
    /\ <<i, r>> \in hooks
    /\ hooks' = hooks \ {<<i, r>>}
    /\ told'  = told \cup {<<i, client[r]>>}
    /\ UNCHANGED <<formCols, req, client, rowCols, sends, dedup, faults>>

-----------------------------------------------------------------------------
(* One DELETE of some of the submissions: DeleteSubmission,                *)
(* BatchDeleteSubmissions, or the cascade from a deleted form.             *)
DeleteSubmissions(S) ==
    /\ S # {} /\ S \subseteq stored
    /\ stored' = stored \ S
    /\ sent' = sent \ S /\ error' = error \ S
    /\ UNCHANGED <<formCols, req, lastRow, formOf, from, spam, lost, sends, dedup, webhooks,
                   faults>>

(* What the owner does meanwhile.  UpdateForm reads the form's address,    *)
(* and by it chooses between two UPDATEs: of a form with a new address,    *)
(* which draws a token and ends the verification, and of one that keeps    *)
(* its own, which leaves token and verification alone but writes the       *)
(* address too.  An UPDATE that fails is one that never comes.             *)
UpdateFormRead(f, a, b) ==
    /\ edits < MaxEdits
    /\ edits' = edits + 1
    /\ updating' = updating \cup
                     {[form |-> f, seen |-> address[f], to |-> a, bound |-> b, n |-> edits']}
    /\ UNCHANGED <<address, bound, verified, enabled, link, confirmed, overwritten,
                   req, rowCols, sends, dedup, webhooks, faults>>

(* A plausible bug: a new address that leaves the verification alone.      *)
UpdateFormKeepsVerified(e) ==
    /\ e \in updating
    /\ updating' = updating \ {e}
    /\ address'  = [address EXCEPT ![e.form] = e.to]
    /\ bound'    = [bound EXCEPT ![e.form] = e.bound]
    /\ link'     = IF e.seen # e.to THEN [link EXCEPT ![e.form] = e.to] ELSE link
    /\ overwritten' = IF e.seen = e.to /\ address[e.form] # e.to
                      THEN overwritten \cup {<<e.form, e.to>>} ELSE overwritten
    /\ UNCHANGED <<verified, enabled, confirmed, edits, req, rowCols, sends, dedup, webhooks,
                   faults>>

UpdateForm(e) ==
    /\ e \in updating
    /\ updating' = updating \ {e}
    /\ address'  = [address EXCEPT ![e.form] = e.to]
    /\ bound'    = [bound EXCEPT ![e.form] = e.bound]
    /\ IF e.seen # e.to
       THEN /\ link' = [link EXCEPT ![e.form] = e.to]
            /\ verified' = verified \ {e.form}
            /\ UNCHANGED overwritten
       ELSE /\ overwritten' = IF address[e.form] # e.to
                              THEN overwritten \cup {<<e.form, e.to>>} ELSE overwritten
            /\ UNCHANGED <<link, verified>>
    /\ UNCHANGED <<enabled, confirmed, edits, req, rowCols, sends, dedup, webhooks, faults>>

(* VerifyEmail with the row's present token.  The link was mailed to the   *)
(* address the token was drawn for, or, by ResendVerify or beside the row  *)
(* in the dashboard, it was given for the address the row has now.         *)
VerifyForm(f, a) ==
    /\ f \notin verified
    /\ a \in {link[f], address[f]}
    /\ verified'  = verified \cup {f}
    /\ confirmed' = confirmed \cup {<<f, a>>}
    /\ UNCHANGED <<address, bound, enabled, link, overwritten, edits, updating,
                   req, rowCols, sends, dedup, webhooks, faults>>

EditChannel(c) ==
    /\ edits < MaxEdits
    /\ edits' = edits + 1
    /\ enabled' = IF c \in enabled THEN enabled \ {c} ELSE enabled \cup {c}
    /\ UNCHANGED <<address, bound, verified, link, confirmed, overwritten, updating,
                   req, rowCols, sends, dedup, webhooks, faults>>

(* The process ends and is started again; nothing resumes a submission or  *)
(* a webhook, and the notes were in memory.                                *)
Restart ==
    /\ Faulty
    /\ lost' = lost \cup {req[r].row : r \in Requests}
    /\ req'  = [r \in Requests |-> Idle]
    /\ noted' = {} /\ bounced' = {} /\ hooks' = {} /\ updating' = {}
    /\ UNCHANGED <<formVals, lastRow, stored, formOf, from, spam, sent, error, sends,
                   client, told>>

-----------------------------------------------------------------------------
Send(r) ==
    \/ ChooseChannel(r) \/ ListChannels(r)
    \/ BoundSendOk(r) \/ BoundSendError(r)
    \/ \E c \in Channels : TryOk(r, c) \/ TryError(r, c)

Handle(r) ==
    \/ RefuseEarly(r) \/ CheckDuplicateSubmit(r) \/ Refuse(r)
    \/ \E isSpam \in BOOLEAN : Insert(r, isSpam)
    \/ Send(r)
    \/ Record(r) \/ RecordFails(r)

Owner ==
    \/ \E S \in SUBSET stored : DeleteSubmissions(S)
    \/ \E f \in Forms, a \in Addresses, b \in Channels \cup {Unbound} : UpdateFormRead(f, a, b)
    \/ \E e \in updating : UpdateForm(e)
    \/ \E f \in Forms, a \in Addresses : VerifyForm(f, a)
    \/ \E c \in Channels : EditChannel(c)

Next ==
    \/ \E r \in Requests :
          \/ Handle(r)
          \/ \E f \in Forms, v \in Visitors : SubmitForm(r, f, v)
          \/ \E i \in Rows : SendWebhook(i, r)
    \/ \E key \in noted : Lapse(key)
    \/ Owner
    \/ Restart

Spec == Init /\ [][Next]_vars

(* A handler that runs comes to its end: every send has a deadline.        *)
FairSpec == Spec /\ \A r \in Requests : WF_vars(Handle(r))

-----------------------------------------------------------------------------
RequestType ==
    [pc : {"idle", "check", "insert", "choose", "bound", "list", "try", "record"},
     form : Forms, by : Visitors, to : Addresses, bound : Channels \cup {Unbound},
     row : Rows \cup {NoRow}, kind : Kinds, todo : SUBSET Channels, sent : BOOLEAN]

EditType ==
    [form : Forms, seen : Addresses, to : Addresses, bound : Channels \cup {Unbound},
     n : 1..edits]

(* Types of the variables; a handler past the INSERT works on a row.       *)
TypeOK ==
    /\ address \in [Forms -> Addresses]
    /\ bound \in [Forms -> Channels \cup {Unbound}]
    /\ verified \subseteq Forms /\ enabled \subseteq Channels
    /\ link \in [Forms -> Addresses] /\ updating \subseteq EditType
    /\ confirmed \subseteq Forms \X Addresses /\ overwritten \subseteq Forms \X Addresses
    /\ req \in [Requests -> RequestType]
    /\ client \in [Requests -> Visitors]
    /\ bounced \subseteq noted /\ noted \subseteq Forms \X Visitors
    /\ lastRow \in Rows \cup {NoRow}
    /\ stored \subseteq 1..lastRow /\ formOf \in [Rows -> Forms] /\ from \in [Rows -> Visitors]
    /\ spam \subseteq 1..lastRow /\ sent \subseteq stored /\ error \subseteq stored
    /\ logs \subseteq Rows \X Channels \X BOOLEAN
    /\ hooks \subseteq Rows \X Requests /\ told \subseteq Rows \X Visitors
    /\ took \in [Rows \X Kinds -> Seq(Channels)]
    /\ refused \subseteq Rows \X Channels
    /\ lost \subseteq Rows \cup {NoRow}
    /\ faults \in 0..MaxFaults /\ edits \in 0..MaxEdits
    /\ \A r \in Requests :
          /\ req[r].pc \notin {"idle", "check", "insert"} => req[r].row \in 1..lastRow
          /\ req[r].pc = "bound" => req[r].bound \in Channels

Working(i)  == \E r \in Requests : req[r].pc # "idle" /\ req[r].row = i
Took(i, c)  == \E n \in DOMAIN took[<<i, "main">>] : took[<<i, "main">>][n] = c
Settled(i)  == i \in stored /\ ~Working(i) /\ i \notin lost

(* Falling back from channel to channel never sends a mail twice, neither  *)
(* the form's mail nor the auto-reply, as far as the servers' answers tell. *)
NoSecondCopy == \A m \in Rows \X Kinds : Len(took[m]) <= 1

(* The mail of a submission goes to an address that the form's link was    *)
(* opened for, also when the owner changes it while the handler runs, and  *)
(* with one exception: an address that one UpdateForm wrote over another's *)
(* without a new token, having read the form before it.                    *)
SendsToConfirmed ==
    \A r \in Requests :
        req[r].pc # "idle" => <<req[r].form, req[r].to>> \in confirmed \cup overwritten

(* While nobody edits: the bound channel comes first, then the owner's     *)
(* channels by priority, each after the failure of the ones before it; and *)
(* a submission is given up only after all of them failed.                 *)
PriorityRespected ==
    edits = 0 =>
        \A i \in Rows :
            LET b      == bound[formOf[i]]
                first  == IF b = Unbound THEN {} ELSE {b}
            IN  /\ \A c \in Channels \ first :
                      Took(i, c) =>
                          /\ c \in Own
                          /\ \A d \in first \cup {e \in Own : e < c} : <<i, d>> \in refused
                /\ Settled(i) /\ i \in error \ spam =>
                      \A d \in first \cup Own : <<i, d>> \in refused

(* Without faults, a row with email_sent = 1 has the log of the channel    *)
(* that took the mail, and every failed attempt has one too.               *)
LogsComplete ==
    faults = 0 =>
        /\ \A i \in sent : \E c \in Channels : Took(i, c) /\ <<i, c, TRUE>> \in logs
        /\ \A m \in refused : <<m[1], m[2], FALSE>> \in logs

(* Whoever is refused as a duplicate (checkDuplicateSubmit) submitted the  *)
(* same before to the same form, and that one was stored, is in the hands  *)
(* of a handler, or was refused for a reason of its own: a restart or a    *)
(* deletion in between included.                                           *)
DuplicateJustified ==
    \A key \in noted :
        \/ \E i \in 1..lastRow : <<formOf[i], from[i]>> = key
        \/ \E r \in Requests : req[r].pc = "insert" /\ <<req[r].form, req[r].by>> = key
        \/ key \in bounced

(* Every submission comes to a recorded outcome, unless it is deleted or a *)
(* fault took its handler: then the row stays as it was inserted, with     *)
(* neither mark, and nothing sends the mail later.                         *)
OutcomeEventually ==
    \A i \in Rows : i \in stored ~> (i \notin stored \/ i \in sent \cup error \/ i \in lost)

(* The ip in a webhook is that of the visitor whose data it carries: the   *)
(* payload documented in web/static/pages/docs.html.                       *)
WebhookNamesSubmitter == \A t \in told : t[2] = from[t[1]]

-----------------------------------------------------------------------------
(* The pipeline as a delivery service: the items are the submissions that  *)
(* are no spam, what the caller learns is the row's outcome.  A row that a *)
(* fault left without one stays open.                                      *)
Phase(i) ==
    CASE i > lastRow \/ i \in spam -> "absent"
      [] i \in 1..lastRow \ (stored \cup spam) -> "removed"
      [] i \in sent  -> "sent"
      [] i \in error \ (sent \cup spam) -> "notSent"
      [] OTHER -> "open"

phaseBar  == [i \in Rows |-> Phase(i)]
inHandBar == {i \in Rows \ spam : Working(i)}
copiesBar == [i \in Rows |-> Len(took[<<i, "main">>])]

Mail == INSTANCE Delivery
          WITH Items <- Rows, phase <- phaseBar, inHand <- inHandBar, copies <- copiesBar

(* The pipeline implements the delivery service: a mail is acknowledged at *)
(* most once, its row tells the outcome of the form's mail (the auto-reply *)
(* has no part in it) and keeps it, whatever is deleted meanwhile, and a   *)
(* fault leaves it open for good.                                          *)
ImplementsDelivery == Mail!DeliverySpec
=============================================================================
