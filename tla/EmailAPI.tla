------------------------------ MODULE EmailAPI ------------------------------
(***************************************************************************)
(* POST /v1/emails, authorised by an API key: internal/handlers/           *)
(* email_api.go and internal/middleware/apikey.go, with the keys' owner    *)
(* and the two foreign keys of the schema (ForeignKeys).                   *)
(*                                                                         *)
(* A call reads its key once and mails to its recipients one after the     *)
(* other, over the key's channel or the owner's; the caller waits for one  *)
(* answer about all of them, may give up waiting, and may call again.      *)
(***************************************************************************)
EXTENDS Naturals, Sequences, FiniteSets

CONSTANTS
    MaxForms, MaxUsers, MaxSubmissions, MaxKeys, Requests, MaxRecycles, MaxRestarts,
                  \* as in ForeignKeys
    Addresses,       \* as strings.TrimSpace leaves them
    ValidAddresses,  \* those that isValidEmail accepts
    Lists,        \* the lists of recipients a caller has mail for
    MaxList,      \* bound on their length
    NumChannels,  \* channels are numbered in the order (priority, id)
    OwnerOf,      \* channels.owner_user_id
    MaxCalls,     \* bound on the calls ever made
    MaxFaults,    \* bound on failed INSERTs into api_logs
    MaxEdits      \* bound on the edits of channels and keys

Channels  == 1..NumChannels
Automatic == 0

ASSUME ChannelsAssumption == NumChannels \in Nat /\ OwnerOf \in [Channels -> Nat]
(* A list may name an address more than once: nothing removes repetitions. *)
ASSUME ListsAssumption ==
    /\ ValidAddresses \subseteq Addresses /\ Lists \subseteq Seq(Addresses)
    /\ MaxList \in Nat /\ \A l \in Lists : Len(l) <= MaxList
ASSUME CallsAssumption == MaxCalls \in Nat \ {0} /\ MaxFaults \in Nat /\ MaxEdits \in Nat

Calls == 1..MaxCalls
Items == Calls \X (1..MaxList)   \* a call and a place in its list

VARIABLES
    forms, users, submissions, keys, lastForm, lastUser, lastSubmission, lastKey,
    sessions, looked, enforced, recycles, restarts,  \* as in ForeignKeys
    keyChannel,  \* api_keys.channel_id
    enabled,     \* the channels with enabled = 1
    call,        \* the locals of each call
    waiting,     \* the calls whose caller still waits
    logged,      \* api_logs.status of each item, "none" without a row
    copies,      \* history: how often a mail server took each item
    patient,     \* history: each later call repeated what the last answer named
    faults, edits

schema == <<forms, users, submissions, keys, lastForm, lastUser, lastSubmission, lastKey,
            sessions, looked, enforced, recycles, restarts>>
settings == <<keyChannel, enabled, edits>>
api  == <<call, waiting, logged, copies, patient, faults>>
vars == <<schema, settings, api>>

Schema == INSTANCE ForeignKeys

ASSUME SchemaAssumption == Schema!Bounds

NoCall == [pc |-> "none", user |-> 0, channel |-> Automatic, list |-> <<>>, place |-> 1,
           todo |-> {}, ok |-> FALSE, failed |-> <<>>]

Init ==
    /\ Schema!Init
    /\ keyChannel = [k \in 1..MaxKeys |-> Automatic] /\ enabled = Channels
    /\ call = [c \in Calls |-> NoCall] /\ waiting = {}
    /\ logged = [i \in Items |-> "none"] /\ copies = [i \in Items |-> 0]
    /\ patient = TRUE /\ faults = 0 /\ edits = 0

-----------------------------------------------------------------------------
(* The rows the keys depend on.                                            *)
SchemaStep ==
    /\ \/ Schema!CreateForm \/ Schema!CreateUser \/ Schema!Recycle
       \/ \E f \in 1..MaxForms :
             \/ Schema!DeleteForm(f)
             \/ \E r \in Requests : Schema!SubmitFormLookup(r, f)
       \/ \E r \in Requests : Schema!SubmitFormInsert(r)
       \/ \E S \in SUBSET submissions : Schema!DeleteSubmissions(S)
       \/ \E u \in 1..MaxUsers :
             \/ Schema!DeleteUser(u)
             \/ \E k \in keys : Schema!DeleteAPIKey(u, k)
    /\ UNCHANGED <<settings, api>>

(* The channel was one the user may bind (Forms).                          *)
CreateAPIKey(u, c) ==
    /\ Schema!CreateAPIKey(u)
    /\ keyChannel' = IF lastKey' # lastKey THEN [keyChannel EXCEPT ![lastKey'] = c]
                                           ELSE keyChannel
    /\ UNCHANGED <<enabled, edits, api>>

UpdateAPIKey(u, k, c) ==
    /\ edits < MaxEdits
    /\ u \in sessions /\ <<k, u>> \in keys
    /\ edits' = edits + 1
    /\ keyChannel' = [keyChannel EXCEPT ![k] = c]
    /\ UNCHANGED <<schema, enabled, api>>

EditChannel(c) ==
    /\ edits < MaxEdits
    /\ edits' = edits + 1
    /\ enabled' = IF c \in enabled THEN enabled \ {c} ELSE enabled \cup {c}
    /\ UNCHANGED <<schema, keyChannel, api>>

-----------------------------------------------------------------------------
Goto(c, place) == call' = [call EXCEPT ![c].pc = place]
Item(c) == <<c, call[c].place>>

(* Plausible bugs, each of which one of the properties below excludes: no  *)
(* way out after the bound channel took the mail, a recipient that failed  *)
(* and is not named, and an answer that names everyone once one failed.    *)
SendOnAfterBound(c) ==
    /\ call[c].pc = "bound"
    /\ copies' = [copies EXCEPT ![Item(c)] = @ + 1]
    /\ Goto(c, "list")
    /\ UNCHANGED <<schema, settings, waiting, logged, patient, faults>>
InvalidUnnamed(q) ==
    IF q.ok \/ q.list[q.place] \notin ValidAddresses THEN q.failed
    ELSE Append(q.failed, q.list[q.place])
NameAll(q) == IF q.ok /\ q.failed = <<>> THEN q.failed ELSE SubSeq(q.list, 1, q.place)

(* RequireAPIKey and the start of SendEmailAPI: the key's row is read      *)
(* once.  The caller calls again when it no longer waits; one that repeats *)
(* exactly what the last answer named as failed is patient.                *)
Authorize(c, k, list) ==
    /\ call[c].pc = "none" /\ \A d \in 1..c - 1 : call[d].pc # "none"
    /\ waiting = {}
    /\ k \in keys
    /\ call' = [call EXCEPT ![c] = [NoCall EXCEPT !.pc = "next", !.user = k[2],
                                                  !.channel = keyChannel[k[1]],
                                                  !.list = list]]
    /\ waiting' = waiting \cup {c}
    /\ patient' = (patient /\ (c > 1 => /\ call[c - 1].pc = "answered"
                                        /\ list = call[c - 1].failed))
    /\ UNCHANGED <<schema, settings, logged, copies, faults>>

(* The loop turns to a recipient: an invalid address fails at once, the    *)
(* bound channel is read by id, and without one the owner's are listed.    *)
NextRecipient(c) ==
    LET q == call[c] IN
    /\ q.pc = "next" /\ q.place <= Len(q.list)
    /\ call' = [call EXCEPT ![c].ok = FALSE, ![c].pc =
                  IF q.list[q.place] \notin ValidAddresses THEN "log"
                  ELSE IF q.channel \in enabled THEN "bound" ELSE "list"]
    /\ UNCHANGED <<schema, settings, waiting, logged, copies, patient, faults>>

Taken(c) ==
    /\ copies' = [copies EXCEPT ![Item(c)] = @ + 1]
    /\ call' = [call EXCEPT ![c].pc = "log", ![c].ok = TRUE]
    /\ UNCHANGED <<schema, settings, waiting, logged, patient, faults>>

BoundSendOk(c) == call[c].pc = "bound" /\ Taken(c)

BoundSendError(c) ==
    /\ call[c].pc = "bound"
    /\ Goto(c, "list")
    /\ UNCHANGED <<schema, settings, waiting, logged, copies, patient, faults>>

(* SendMessageWithFallbackByOwner.                                         *)
ListChannels(c) ==
    LET listed == {d \in enabled : OwnerOf[d] = call[c].user} IN
    /\ call[c].pc = "list"
    /\ call' = [call EXCEPT ![c].todo = listed,
                            ![c].pc = IF listed = {} THEN "log" ELSE "try"]
    /\ UNCHANGED <<schema, settings, waiting, logged, copies, patient, faults>>

IsNext(c, d) == d \in call[c].todo /\ \A e \in call[c].todo : d <= e

TryOk(c) == call[c].pc = "try" /\ Taken(c)

TryError(c) ==
    /\ call[c].pc = "try"
    /\ \E d \in Channels :
          /\ IsNext(c, d)
          /\ call' = [call EXCEPT ![c].todo = @ \ {d},
                                  ![c].pc = IF call[c].todo = {d} THEN "log" ELSE "try"]
    /\ UNCHANGED <<schema, settings, waiting, logged, copies, patient, faults>>

(* failedList                                                              *)
Named(q) == IF q.ok THEN q.failed ELSE Append(q.failed, q.list[q.place])

(* writeAPILog, whose error is dropped, and on to the next recipient.      *)
WriteAPILog(c) ==
    LET q == call[c] IN
    /\ q.pc = "log"
    /\ \/ /\ logged' = [logged EXCEPT ![Item(c)] = IF q.ok THEN "success" ELSE "failed"]
          /\ UNCHANGED faults
       \/ faults < MaxFaults /\ faults' = faults + 1 /\ UNCHANGED logged
    /\ call' = [call EXCEPT ![c].pc = "next", ![c].place = @ + 1, ![c].todo = {},
                            ![c].failed = Named(q)]
    /\ UNCHANGED <<schema, settings, waiting, copies, patient>>

(* 200, or 500 naming those that failed; nobody may be waiting any more.   *)
Answer(c) ==
    /\ call[c].pc = "next" /\ call[c].place > Len(call[c].list)
    /\ Goto(c, IF c \in waiting THEN "answered" ELSE "unheard")
    /\ waiting' = waiting \ {c}
    /\ UNCHANGED <<schema, settings, logged, copies, patient, faults>>

(* The caller's own deadline; the handler does not notice.                 *)
GiveUp(c) ==
    /\ c \in waiting
    /\ waiting' = waiting \ {c}
    /\ UNCHANGED <<schema, settings, call, logged, copies, patient, faults>>

InHand(c) == call[c].pc \in {"bound", "list", "try", "log"}

(* The process ends and is started again: the calls in flight have no      *)
(* answer.                                                                 *)
Restart ==
    /\ Schema!Restart
    /\ call' = [c \in Calls |->
                  IF InHand(c) \/ call[c].pc = "next"
                  THEN [call[c] EXCEPT !.pc = "unheard",
                                       !.place = IF InHand(c) THEN @ + 1 ELSE @]
                  ELSE call[c]]
    /\ waiting' = {}
    /\ UNCHANGED <<settings, logged, copies, patient, faults>>

-----------------------------------------------------------------------------
SendEmailAPI(c) ==
    \/ NextRecipient(c) \/ BoundSendOk(c) \/ BoundSendError(c) \/ ListChannels(c)
    \/ TryOk(c) \/ TryError(c) \/ WriteAPILog(c) \/ Answer(c)

Caller(c) ==
    \/ GiveUp(c)
    \/ \E k \in keys, list \in (Lists \cup {call[d].failed : d \in Calls}) \ {<<>>} :
          Authorize(c, k, list)

Next ==
    \/ SchemaStep \/ Restart
    \/ \E u \in 1..MaxUsers, d \in Channels \cup {Automatic} :
          CreateAPIKey(u, d) \/ \E k \in 1..MaxKeys : UpdateAPIKey(u, k, d)
    \/ \E d \in Channels : EditChannel(d)
    \/ \E c \in Calls : SendEmailAPI(c) \/ Caller(c)

Spec == Init /\ [][Next]_vars

-----------------------------------------------------------------------------
(* The foreign keys, with the calls going on.                              *)
NoOrphansAtFirst == Schema!NoOrphansAtFirst

Occurrences(l, a) == {n \in DOMAIN l : l[n] = a}

(* An answer is true: it names an address exactly as often as the call     *)
(* had a mail for it that no server took, whatever the channel, the        *)
(* fallback and the log did.                                               *)
AnswerTrue ==
    \A c \in Calls, a \in Addresses : call[c].pc = "answered" =>
        Cardinality(Occurrences(call[c].failed, a)) =
        Cardinality({n \in Occurrences(call[c].list, a) : copies[<<c, n>>] = 0})

(* The mails for an address that a server took in the calls up to c.       *)
Mailed(c, a) == {i \in Items : /\ i[1] <= c /\ copies[i] > 0
                               /\ i[2] \in Occurrences(call[i[1]].list, a)}

(* A caller that waits for each answer and then repeats only what it names *)
(* mails no address more often, over all its calls, than its first call    *)
(* asked for; one that repeats the whole list after a 500, or after a      *)
(* silence, does.                                                          *)
PatientMailsBounded ==
    patient => \A a \in Addresses :
                  Cardinality(Mailed(MaxCalls, a)) <= Cardinality(Occurrences(call[1].list, a))

(* The API as a delivery service: an item is a recipient of a call, taken  *)
(* in hand when the loop turns to it, and its report the row of api_logs.  *)
Phase(i) ==
    CASE logged[i] = "success" -> "sent"
      [] logged[i] = "failed"  -> "notSent"
      [] OTHER -> IF i[2] < call[i[1]].place \/ (InHand(i[1]) /\ i = Item(i[1]))
                  THEN "open" ELSE "absent"

phaseBar  == [i \in Items |-> Phase(i)]
inHandBar == {i \in Items : InHand(i[1]) /\ i = Item(i[1])}

Mail == INSTANCE Delivery WITH phase <- phaseBar, inHand <- inHandBar

(* The API implements the delivery service: no place of a call's list is   *)
(* mailed twice by it, the logs tell what happened, and a call that a      *)
(* restart interrupts is not taken up again.                               *)
ImplementsDelivery == Mail!DeliverySpec
=============================================================================
