--------------------------- MODULE EmailAPIProofs ---------------------------
(***************************************************************************)
(* Theorems about EmailAPI for any number of rows, calls, channels and     *)
(* recipients, and about the foreign keys it rests on.                     *)
(***************************************************************************)
EXTENDS EmailAPI, FiniteSetTheorems, TLAPS

-----------------------------------------------------------------------------
(* The foreign keys.  As long as no connection was replaced the one there  *)
(* is enforces them, so no row is inserted without its parent, and none    *)
(* outlives it.                                                            *)
SchemaInv ==
  /\ recycles \in Nat
  /\ recycles = 0 => enforced /\ Schema!NoOrphans

SchemaAction == SchemaStep \/ Schema!Restart \/ \E u \in 1..MaxUsers : Schema!CreateAPIKey(u)

LEMMA SchemaKept == SchemaInv /\ SchemaAction => SchemaInv'
<1> SUFFICES ASSUME SchemaInv, SchemaAction PROVE SchemaInv'
  OBVIOUS
<1> USE DEF SchemaInv, Schema!NoOrphans, Schema!Orphans, Schema!Ownerless
<1>1. CASE Schema!CreateForm \/ Schema!CreateUser
  BY <1>1 DEF Schema!CreateForm, Schema!CreateUser
<1>2. CASE Schema!Recycle
  BY <1>2 DEF Schema!Recycle
<1>3. CASE Schema!Restart
  BY <1>3 DEF Schema!Restart
<1>4. ASSUME NEW f, Schema!DeleteForm(f) PROVE SchemaInv'
  BY <1>4 DEF Schema!DeleteForm
<1>5. ASSUME NEW r, NEW f, Schema!SubmitFormLookup(r, f) PROVE SchemaInv'
  BY <1>5 DEF Schema!SubmitFormLookup
<1>6. ASSUME NEW r, Schema!SubmitFormInsert(r) PROVE SchemaInv'
  <2>1. /\ UNCHANGED <<forms, users, keys, enforced, recycles>>
        /\ \/ (enforced => looked[r] \in forms)
              /\ submissions' = submissions \cup {<<lastSubmission + 1, looked[r]>>}
           \/ submissions' = submissions
    BY <1>6 DEF Schema!SubmitFormInsert
  <2> QED
    BY <2>1
<1>7. ASSUME NEW S, Schema!DeleteSubmissions(S) PROVE SchemaInv'
  BY <1>7 DEF Schema!DeleteSubmissions
<1>8. ASSUME NEW u, Schema!DeleteUser(u) PROVE SchemaInv'
  BY <1>8 DEF Schema!DeleteUser
<1>9. ASSUME NEW u, Schema!CreateAPIKey(u) PROVE SchemaInv'
  <2>1. /\ UNCHANGED <<forms, users, submissions, enforced, recycles>>
        /\ \/ (enforced => u \in users) /\ keys' = keys \cup {<<lastKey + 1, u>>}
           \/ keys' = keys
    BY <1>9 DEF Schema!CreateAPIKey
  <2> QED
    BY <2>1
<1>10. ASSUME NEW u, NEW k, Schema!DeleteAPIKey(u, k) PROVE SchemaInv'
  BY <1>10 DEF Schema!DeleteAPIKey
<1> QED
  BY <1>1, <1>2, <1>3, <1>4, <1>5, <1>6, <1>7, <1>8, <1>9, <1>10 DEF SchemaAction, SchemaStep

(* Which steps touch the schema, and which the calls.                      *)
LEMMA StepsSplit ==
  ASSUME [Next]_vars
  PROVE  /\ UNCHANGED schema \/ SchemaAction
         /\ \/ UNCHANGED api
            \/ Restart
            \/ \E c \in Calls : SendEmailAPI(c) \/ Caller(c)
<1>1. CASE SchemaStep
  BY <1>1 DEF SchemaStep, SchemaAction
<1>2. CASE Restart
  BY <1>2 DEF Restart, SchemaAction
<1>3. ASSUME NEW u \in 1..MaxUsers, NEW d, CreateAPIKey(u, d) PROVE UNCHANGED api /\ SchemaAction
  BY <1>3 DEF CreateAPIKey, SchemaAction
<1>4. ASSUME NEW u, NEW k, NEW d, UpdateAPIKey(u, k, d) PROVE UNCHANGED <<api, schema>>
  BY <1>4 DEF UpdateAPIKey
<1>5. ASSUME NEW d, EditChannel(d) PROVE UNCHANGED <<api, schema>>
  BY <1>5 DEF EditChannel
<1>6. ASSUME NEW c \in Calls, SendEmailAPI(c) \/ Caller(c) PROVE UNCHANGED schema
  BY <1>6 DEF SendEmailAPI, Caller, NextRecipient, BoundSendOk, Taken, BoundSendError,
              ListChannels, TryOk, TryError, WriteAPILog, Answer, GiveUp, Authorize
<1>7. CASE UNCHANGED vars
  BY <1>7 DEF vars
<1> QED
  BY <1>1, <1>2, <1>3, <1>4, <1>5, <1>6, <1>7 DEF Next

(* No submission without its form and no key without its user, until the   *)
(* first connection reaches its lifetime (internal/db/db.go): for any      *)
(* number of rows and of handlers between their lookup and their INSERT.   *)
THEOREM NoneIsOrphanedAtFirst == Spec => []NoOrphansAtFirst
<1>1. Init => SchemaInv
  BY DEF Init, Schema!Init, SchemaInv, Schema!NoOrphans, Schema!Orphans, Schema!Ownerless
<1>2. SchemaInv /\ [Next]_vars => SchemaInv'
  <2> SUFFICES ASSUME SchemaInv, [Next]_vars PROVE SchemaInv'
    OBVIOUS
  <2>1. CASE UNCHANGED schema
    BY <2>1 DEF schema, SchemaInv, Schema!NoOrphans, Schema!Orphans, Schema!Ownerless
  <2> QED
    BY <2>1, StepsSplit, SchemaKept
<1>3. SchemaInv => NoOrphansAtFirst
  BY DEF SchemaInv, NoOrphansAtFirst, Schema!NoOrphansAtFirst
<1> QED
  BY <1>1, <1>2, <1>3, PTL DEF Spec


-----------------------------------------------------------------------------
(* The records of the calls.                                               *)
Places   == {"none", "next", "bound", "list", "try", "log", "answered", "unheard"}
CallType == [pc : Places, user : Nat, channel : Channels \cup {Automatic},
             list : Seq(Addresses), place : Nat \ {0}, todo : SUBSET Channels,
             ok : BOOLEAN, failed : Seq(Addresses)]
KeysOK   == /\ lastKey \in 0..MaxKeys /\ keys \subseteq (1..MaxKeys) \X (1..MaxUsers)
            /\ keyChannel \in [1..MaxKeys -> Channels \cup {Automatic}] /\ enabled \subseteq Channels
CallsOK  == call \in [Calls -> CallType]
HistoryOK == copies \in [Items -> Nat] /\ logged \in [Items -> {"none", "success", "failed"}]

LEMMA KeysInit == Init => KeysOK
  BY SchemaAssumption DEF Init, Schema!Init, Schema!Bounds, KeysOK

LEMMA KeysStep == KeysOK /\ [Next]_vars => KeysOK'
<1> SUFFICES ASSUME KeysOK, [Next]_vars PROVE KeysOK'
  OBVIOUS
<1>0. MaxKeys \in Nat /\ MaxUsers \in Nat
  BY SchemaAssumption DEF Schema!Bounds
<1>1. ASSUME NEW u \in 1..MaxUsers, Schema!CreateAPIKey(u)
      PROVE  /\ lastKey' \in 0..MaxKeys /\ keys' \subseteq (1..MaxKeys) \X (1..MaxUsers)
             /\ lastKey' # lastKey => lastKey' \in 1..MaxKeys
  <2>1. /\ lastKey < MaxKeys
        /\ \/ lastKey' = lastKey + 1 /\ keys' = keys \cup {<<lastKey + 1, u>>}
           \/ lastKey' = lastKey /\ keys' = keys
    BY <1>1 DEF Schema!CreateAPIKey
  <2>2. lastKey + 1 \in 1..MaxKeys
    BY <1>0, <2>1 DEF KeysOK
  <2> QED
    BY <1>0, <1>1, <2>1, <2>2 DEF KeysOK
<1>2. ASSUME NEW u \in 1..MaxUsers, NEW d \in Channels \cup {Automatic}, CreateAPIKey(u, d)
      PROVE  KeysOK'
  <2>1. /\ lastKey' \in 0..MaxKeys /\ keys' \subseteq (1..MaxKeys) \X (1..MaxUsers)
        /\ lastKey' # lastKey => lastKey' \in 1..MaxKeys
    BY <1>1, <1>2 DEF CreateAPIKey
  <2> QED
    BY <1>2, <2>1 DEF CreateAPIKey, KeysOK
<1>3. ASSUME NEW u, NEW k \in 1..MaxKeys, NEW d \in Channels \cup {Automatic}, UpdateAPIKey(u, k, d)
      PROVE  KeysOK'
  BY <1>3 DEF UpdateAPIKey, schema, KeysOK
<1>4. ASSUME NEW d \in Channels, EditChannel(d) PROVE KeysOK'
  BY <1>4 DEF EditChannel, schema, KeysOK
<1>5. CASE SchemaStep \/ Restart
  <2>1. /\ lastKey' = lastKey /\ keys' \subseteq keys
        /\ UNCHANGED settings
    BY <1>5 DEF SchemaStep, Restart, Schema!CreateForm, Schema!CreateUser, Schema!Recycle,
                Schema!Restart, Schema!DeleteForm, Schema!SubmitFormLookup,
                Schema!SubmitFormInsert, Schema!DeleteSubmissions, Schema!DeleteUser,
                Schema!DeleteAPIKey, Schema!lastIds
  <2> QED
    BY <2>1 DEF settings, KeysOK
<1>6. ASSUME NEW c \in Calls, SendEmailAPI(c) \/ Caller(c) PROVE KeysOK'
  <2>1. UNCHANGED <<schema, settings>>
    BY <1>6 DEF SendEmailAPI, Caller, NextRecipient, BoundSendOk, Taken, BoundSendError,
                ListChannels, TryOk, TryError, WriteAPILog, Answer, GiveUp, Authorize
  <2> QED
    BY <2>1 DEF schema, settings, KeysOK
<1>7. CASE UNCHANGED vars
  BY <1>7 DEF vars, schema, settings, KeysOK
<1> QED
  BY <1>2, <1>3, <1>4, <1>5, <1>6, <1>7 DEF Next

LEMMA CallFields ==
  ASSUME CallsOK, NEW c \in Calls
  PROVE  /\ call[c] \in CallType /\ call[c].pc \in Places /\ call[c].list \in Seq(Addresses)
         /\ call[c].place \in Nat \ {0} /\ call[c].ok \in BOOLEAN
         /\ call[c].failed \in Seq(Addresses) /\ call[c].todo \in SUBSET Channels
         /\ call[c].user \in Nat /\ call[c].channel \in Channels \cup {Automatic}
<1>1. call[c] \in CallType
  BY DEF CallsOK
<1> QED
  BY <1>1 DEF CallType

(* After a step the call c is so, with the list it had, and the others are *)
(* what they were.                                                         *)
CallIs(c, pc, ok, place, failed) ==
  /\ CallsOK' /\ call'[c].list = call[c].list
  /\ call'[c].pc = pc /\ call'[c].ok = ok /\ call'[c].place = place /\ call'[c].failed = failed
  /\ \A d \in Calls : d # c => call'[d] = call[d]

LEMMA CallSet ==
  ASSUME CallsOK, NEW c \in Calls, NEW r \in CallType, r.list = call[c].list,
         call' = [call EXCEPT ![c] = r]
  PROVE  CallIs(c, r.pc, r.ok, r.place, r.failed)
  BY DEF CallsOK, CallIs

LEMMA GotoIs ==
  ASSUME CallsOK, NEW c \in Calls, NEW pc \in Places, Goto(c, pc)
  PROVE  CallIs(c, pc, call[c].ok, call[c].place, call[c].failed)
<1> DEFINE r == [call[c] EXCEPT !.pc = pc]
<1>1. /\ r \in CallType /\ r.pc = pc /\ r.list = call[c].list
      /\ r.ok = call[c].ok /\ r.place = call[c].place /\ r.failed = call[c].failed
  BY CallFields DEF CallType
<1>2. call' = [call EXCEPT ![c] = r]
  BY DEF Goto
<1> HIDE DEF r
<1>3. CallIs(c, r.pc, r.ok, r.place, r.failed)
  BY <1>1, <1>2, CallSet
<1> QED
  BY <1>1, <1>3

LEMMA NextIs ==
  ASSUME CallsOK, NEW c \in Calls, NextRecipient(c)
  PROVE  \E pc \in {"log", "bound", "list"} :
            CallIs(c, pc, FALSE, call[c].place, call[c].failed)
<1>0. PICK pc \in {"log", "bound", "list"} : call' = [call EXCEPT ![c].ok = FALSE, ![c].pc = pc]
  BY DEF NextRecipient
<1> DEFINE r == [call[c] EXCEPT !.ok = FALSE, !.pc = pc]
<1>1. /\ r \in CallType /\ r.pc = pc /\ r.list = call[c].list
      /\ r.ok = FALSE /\ r.place = call[c].place /\ r.failed = call[c].failed
  BY CallFields DEF CallType, Places
<1>2. call' = [call EXCEPT ![c] = r]
  BY <1>0
<1> HIDE DEF r
<1>3. CallIs(c, r.pc, r.ok, r.place, r.failed)
  BY <1>1, <1>2, CallSet
<1> QED
  BY <1>1, <1>3

LEMMA TakenIs ==
  ASSUME CallsOK, NEW c \in Calls, Taken(c)
  PROVE  CallIs(c, "log", TRUE, call[c].place, call[c].failed)
<1> DEFINE r == [call[c] EXCEPT !.pc = "log", !.ok = TRUE]
<1>1. /\ r \in CallType /\ r.pc = "log" /\ r.list = call[c].list
      /\ r.ok = TRUE /\ r.place = call[c].place /\ r.failed = call[c].failed
  BY CallFields DEF CallType, Places
<1>2. call' = [call EXCEPT ![c] = r]
  BY DEF Taken
<1> HIDE DEF r
<1>3. CallIs(c, r.pc, r.ok, r.place, r.failed)
  BY <1>1, <1>2, CallSet
<1> QED
  BY <1>1, <1>3

LEMMA TryIs ==
  ASSUME CallsOK, KeysOK, NEW c \in Calls, ListChannels(c) \/ TryError(c)
  PROVE  \E pc \in {"log", "try"} : CallIs(c, pc, call[c].ok, call[c].place, call[c].failed)
<1>0. PICK pc \in {"log", "try"}, todo \in SUBSET Channels :
         call' = [call EXCEPT ![c].todo = todo, ![c].pc = pc]
  <2>1. CASE ListChannels(c)
    <3> DEFINE listed == {d \in enabled : OwnerOf[d] = call[c].user}
    <3>1. listed \in SUBSET Channels
      BY DEF KeysOK
    <3>2. call' = [call EXCEPT ![c].todo = listed,
                               ![c].pc = IF listed = {} THEN "log" ELSE "try"]
      BY <2>1 DEF ListChannels
    <3> HIDE DEF listed
    <3> QED
      BY <3>1, <3>2
  <2>2. CASE TryError(c)
    <3>1. PICK d \in Channels :
             call' = [call EXCEPT ![c].todo = @ \ {d},
                                  ![c].pc = IF call[c].todo = {d} THEN "log" ELSE "try"]
      BY <2>2 DEF TryError
    <3>2. call[c].todo \ {d} \in SUBSET Channels
      BY CallFields
    <3>3. call' = [call EXCEPT ![c].todo = call[c].todo \ {d},
                               ![c].pc = IF call[c].todo = {d} THEN "log" ELSE "try"]
      BY <3>1
    <3> QED
      BY <3>2, <3>3
  <2> QED
    BY <2>1, <2>2
<1> DEFINE r == [call[c] EXCEPT !.todo = todo, !.pc = pc]
<1>1. /\ r \in CallType /\ r.pc = pc /\ r.list = call[c].list
      /\ r.ok = call[c].ok /\ r.place = call[c].place /\ r.failed = call[c].failed
  BY CallFields DEF CallType, Places
<1>2. call' = [call EXCEPT ![c] = r]
  BY <1>0
<1> HIDE DEF r
<1>3. CallIs(c, r.pc, r.ok, r.place, r.failed)
  BY <1>1, <1>2, CallSet
<1> QED
  BY <1>1, <1>3

LEMMA LogIs ==
  ASSUME CallsOK, NEW c \in Calls, WriteAPILog(c), call[c].place \in DOMAIN call[c].list
  PROVE  CallIs(c, "next", call[c].ok, call[c].place + 1, Named(call[c]))
<1> DEFINE r == [call[c] EXCEPT !.pc = "next", !.place = call[c].place + 1, !.todo = {},
                                !.failed = Named(call[c])]
<1>0. Named(call[c]) \in Seq(Addresses)
  BY CallFields DEF Named
<1>1. /\ r \in CallType /\ r.pc = "next" /\ r.list = call[c].list
      /\ r.ok = call[c].ok /\ r.place = call[c].place + 1 /\ r.failed = Named(call[c])
  <2>1. call[c] \in CallType /\ call[c].place + 1 \in Nat \ {0} /\ "next" \in Places
    BY CallFields DEF Places
  <2> QED
    BY <1>0, <2>1 DEF CallType
<1>2. call' = [call EXCEPT ![c] = r]
  BY DEF WriteAPILog
<1> HIDE DEF r
<1>3. CallIs(c, r.pc, r.ok, r.place, r.failed)
  BY <1>1, <1>2, CallSet
<1> QED
  BY <1>1, <1>3


LEMMA AuthorizeIs ==
  ASSUME CallsOK, KeysOK, NEW c \in Calls, NEW k \in keys, NEW list \in Seq(Addresses),
         Authorize(c, k, list)
  PROVE  /\ CallsOK' /\ call'[c].pc = "next" /\ call'[c].place = 1
         /\ call'[c].list = list /\ call'[c].failed = <<>>
         /\ \A d \in Calls : d # c => call'[d] = call[d]
<1> DEFINE r == [NoCall EXCEPT !.pc = "next", !.user = k[2], !.channel = keyChannel[k[1]],
                               !.list = list]
<1>1. k[1] \in 1..MaxKeys /\ k[2] \in Nat /\ keyChannel[k[1]] \in Channels \cup {Automatic}
  BY SchemaAssumption DEF KeysOK, Schema!Bounds
<1>2. <<>> \in Seq(Addresses) /\ 1 \in Nat \ {0} /\ 0 \in Nat
  OBVIOUS
<1>3. NoCall \in CallType /\ NoCall.place = 1 /\ NoCall.failed = <<>>
  BY <1>2 DEF NoCall, CallType, Places
<1>4. /\ r \in CallType /\ r.pc = "next" /\ r.place = 1 /\ r.list = list /\ r.failed = <<>>
  BY <1>1, <1>3 DEF CallType, Places
<1>5. call' = [call EXCEPT ![c] = r]
  BY DEF Authorize
<1> HIDE DEF r
<1> QED
  BY <1>4, <1>5 DEF CallsOK

LEMMA RestartIs ==
  ASSUME CallsOK, Restart
  PROVE  /\ CallsOK'
         /\ \A c \in Calls :
               \/ /\ InHand(c) /\ call'[c].pc = "unheard" /\ call'[c].place = call[c].place + 1
                  /\ call'[c].list = call[c].list /\ call'[c].failed = call[c].failed
               \/ /\ call[c].pc = "next" /\ call'[c].pc = "unheard"
                  /\ call'[c].place = call[c].place
                  /\ call'[c].list = call[c].list /\ call'[c].failed = call[c].failed
               \/ call'[c] = call[c] /\ ~InHand(c) /\ call[c].pc # "next"
<1> DEFINE Stopped(c, place) == [call[c] EXCEPT !.pc = "unheard", !.place = place]
<1>1. ASSUME NEW c \in Calls, NEW place \in Nat \ {0}
      PROVE  LET r == Stopped(c, place) IN
             /\ r \in CallType /\ r.pc = "unheard" /\ r.place = place
             /\ r.list = call[c].list /\ r.failed = call[c].failed
  BY CallFields DEF CallType, Places
<1>2. ASSUME NEW c \in Calls
      PROVE  call'[c] = IF InHand(c) THEN Stopped(c, call[c].place + 1)
                        ELSE IF call[c].pc = "next" THEN Stopped(c, call[c].place)
                        ELSE call[c]
  BY DEF Restart
<1>3. \A c \in Calls : /\ call[c] \in CallType /\ call[c].place \in Nat \ {0}
                       /\ call[c].place + 1 \in Nat \ {0}
  BY CallFields
<1>4. call' = [c \in Calls |-> call'[c]]
  BY DEF Restart
<1> HIDE DEF Stopped
<1>5. \A c \in Calls : call'[c] \in CallType
  BY <1>1, <1>2, <1>3
<1>6. CallsOK'
  BY <1>4, <1>5 DEF CallsOK
<1>7. ASSUME NEW c \in Calls
      PROVE  \/ /\ InHand(c) /\ call'[c].pc = "unheard" /\ call'[c].place = call[c].place + 1
                /\ call'[c].list = call[c].list /\ call'[c].failed = call[c].failed
             \/ /\ call[c].pc = "next" /\ call'[c].pc = "unheard"
                /\ call'[c].place = call[c].place
                /\ call'[c].list = call[c].list /\ call'[c].failed = call[c].failed
             \/ call'[c] = call[c] /\ ~InHand(c) /\ call[c].pc # "next"
  BY <1>1, <1>2, <1>3
<1> QED
  BY <1>6, <1>7

-----------------------------------------------------------------------------
(* The places of the list that the call c is done with and that name the   *)
(* address a, without a mail that a server took.                           *)
Unsent(c, a) == {n \in 1..(call[c].place - 1) : call[c].list[n] = a /\ copies[<<c, n>>] = 0}

(* The account of a call: its list is not longer than the bound; a server  *)
(* took no mail for a place it has not turned to, one for the place in     *)
(* hand when it says so; it names an address as failed as often as it is   *)
(* done with the address in vain; and it logs a place when it is done      *)
(* with it.                                                                *)
Shape(list, place, failed) ==
  Len(list) <= MaxList /\ place <= Len(list) + 1 /\ Len(failed) < place

Turns == {"bound", "list", "try"}

Account(c) ==
  /\ Shape(call[c].list, call[c].place, call[c].failed)
  /\ call[c].pc = "none" => call[c] = NoCall
  /\ InHand(c) => call[c].place <= Len(call[c].list)
  /\ call[c].pc \in Turns => ~call[c].ok
  /\ call[c].pc = "answered" => call[c].place > Len(call[c].list)
  /\ \A n \in 1..MaxList :
        n > call[c].place \/ (n = call[c].place /\ call[c].pc # "log") => copies[<<c, n>>] = 0
  /\ call[c].pc = "log" => copies[<<c, call[c].place>>] = IF call[c].ok THEN 1 ELSE 0
  /\ call[c].pc \notin {"none", "unheard"} =>
        \A a \in Addresses :
           Cardinality(Occurrences(call[c].failed, a)) = Cardinality(Unsent(c, a))
  /\ \A n \in 1..MaxList : n >= call[c].place => logged[<<c, n>>] = "none"

CallInv == KeysOK /\ CallsOK /\ HistoryOK /\ \A c \in Calls : Account(c)

(* An address occurs a natural number of times in a list, once more when   *)
(* it is appended.                                                         *)
LEMMA OccurrencesCounted ==
  ASSUME NEW l \in Seq(Addresses), NEW a
  PROVE  IsFiniteSet(Occurrences(l, a)) /\ Cardinality(Occurrences(l, a)) \in Nat
<1>1. IsFiniteSet(1..Len(l)) /\ Occurrences(l, a) \in SUBSET (1..Len(l))
  <2>1. Len(l) \in Nat /\ DOMAIN l = 1..Len(l)
    OBVIOUS
  <2>2. IsFiniteSet(1..Len(l))
    BY <2>1, FS_Interval
  <2> QED
    BY <2>1, <2>2 DEF Occurrences
<1>2. IsFiniteSet(Occurrences(l, a))
  BY <1>1, FS_Subset
<1> QED
  BY <1>2, FS_CardinalityType

LEMMA AppendCounts ==
  ASSUME NEW l \in Seq(Addresses), NEW b \in Addresses, NEW a
  PROVE  /\ Append(l, b) \in Seq(Addresses) /\ Len(Append(l, b)) = Len(l) + 1
         /\ Cardinality(Occurrences(Append(l, b), a)) =
            Cardinality(Occurrences(l, a)) + (IF a = b THEN 1 ELSE 0)
<1>1. /\ Append(l, b) \in Seq(Addresses) /\ Len(Append(l, b)) = Len(l) + 1
      /\ DOMAIN l = 1..Len(l) /\ DOMAIN Append(l, b) = 1..(Len(l) + 1) /\ Len(l) \in Nat
      /\ \A m \in 1..Len(l) : Append(l, b)[m] = l[m]
      /\ Append(l, b)[Len(l) + 1] = b
  OBVIOUS
<1>2. \A m : m \in 1..(Len(l) + 1) <=> m \in 1..Len(l) \/ m = Len(l) + 1
  BY <1>1
<1>3. Len(l) + 1 \notin Occurrences(l, a)
  BY <1>1 DEF Occurrences
<1>4. IsFiniteSet(Occurrences(l, a)) /\ Cardinality(Occurrences(l, a)) \in Nat
  BY OccurrencesCounted
<1>5. CASE a = b
  <2>1. Occurrences(Append(l, b), a) = Occurrences(l, a) \cup {Len(l) + 1}
    BY <1>1, <1>2, <1>5 DEF Occurrences
  <2>2. Cardinality(Occurrences(l, a) \cup {Len(l) + 1}) = Cardinality(Occurrences(l, a)) + 1
    BY <1>3, <1>4, FS_AddElement
  <2> QED
    BY <1>1, <1>5, <2>1, <2>2
<1>6. CASE a # b
  <2>1. Occurrences(Append(l, b), a) = Occurrences(l, a)
    BY <1>1, <1>2, <1>6 DEF Occurrences
  <2> QED
    BY <1>1, <1>4, <1>6, <2>1
<1> QED
  BY <1>5, <1>6

(* What a call is done with in vain is counted, and it counts the same     *)
(* while the call is at the same place of the same list and nobody takes   *)
(* a mail of it before that place.                                         *)
LEMMA UnsentCounted ==
  ASSUME NEW c \in Calls, call[c].place \in Nat, NEW a
  PROVE  IsFiniteSet(Unsent(c, a)) /\ Cardinality(Unsent(c, a)) \in Nat
<1>1. IsFiniteSet(1..(call[c].place - 1))
  BY FS_Interval
<1>2. Unsent(c, a) \in SUBSET (1..(call[c].place - 1))
  BY DEF Unsent
<1>3. IsFiniteSet(Unsent(c, a))
  BY <1>1, <1>2, FS_Subset
<1> QED
  BY <1>3, FS_CardinalityType

LEMMA UnsentSame ==
  ASSUME NEW c \in Calls, call'[c].place = call[c].place, call'[c].list = call[c].list,
         \A n \in 1..(call[c].place - 1) : copies'[<<c, n>>] = copies[<<c, n>>]
  PROVE  \A a : Unsent(c, a)' = Unsent(c, a)
BY DEF Unsent

(* A step of one call leaves the accounts of the others.                   *)
LEMMA OtherAccounts ==
  ASSUME CallInv, KeysOK', CallsOK', HistoryOK', NEW c \in Calls,
         \A d \in Calls : d # c => call'[d] = call[d],
         \A d \in Calls, n \in 1..MaxList : d # c =>
            copies'[<<d, n>>] = copies[<<d, n>>] /\ logged'[<<d, n>>] = logged[<<d, n>>],
         Account(c)'
  PROVE  CallInv'
<1>1. ASSUME NEW d \in Calls, d # c PROVE Account(d)'
  <2>1. Account(d) /\ call'[d] = call[d] /\ (InHand(d)' <=> InHand(d))
    BY <1>1 DEF CallInv, InHand
  <2>2. /\ call[d].place \in Nat \ {0} /\ Len(call[d].list) \in Nat
        /\ Len(call[d].list) <= MaxList /\ call[d].place <= Len(call[d].list) + 1
        /\ InHand(d) => call[d].place <= Len(call[d].list)
        /\ MaxList \in Nat
    BY <2>1, CallFields, ListsAssumption DEF CallInv, Account, Shape
  <2>3. \A n \in 1..MaxList : copies'[<<d, n>>] = copies[<<d, n>>] /\ logged'[<<d, n>>] = logged[<<d, n>>]
    BY <1>1
  <2>4. \A n \in 1..(call[d].place - 1) : n \in 1..MaxList
    BY <2>2
  <2>5. call[d].pc = "log" => call[d].place \in 1..MaxList
    BY <2>2 DEF InHand
  <2>6. \A a : Unsent(d, a)' = Unsent(d, a)
    BY <2>1, <2>3, <2>4, UnsentSame
  <2>7. \A a \in Addresses : Cardinality(Unsent(d, a)') = Cardinality(Unsent(d, a))
    BY <2>6
  <2> QED
    BY <2>1, <2>3, <2>4, <2>5, <2>7 DEF Account
<1> QED
  BY <1>1 DEF CallInv


LEMMA PlaceIs ==
  ASSUME CallInv, NEW c \in Calls
  PROVE  /\ Account(c) /\ call[c].place \in Nat \ {0} /\ MaxList \in Nat
         /\ call[c].list \in Seq(Addresses) /\ call[c].failed \in Seq(Addresses)
         /\ Len(call[c].list) \in Nat /\ Len(call[c].list) <= MaxList
         /\ Len(call[c].failed) \in Nat /\ Len(call[c].failed) < call[c].place
         /\ call[c].place <= Len(call[c].list) + 1
         /\ InHand(c) => call[c].place \in 1..MaxList /\ call[c].place \in 1..Len(call[c].list)
<1>1. Account(c) /\ CallsOK
  BY DEF CallInv
<1>2. /\ call[c].place \in Nat \ {0}
      /\ call[c].list \in Seq(Addresses) /\ call[c].failed \in Seq(Addresses)
  BY <1>1, CallFields
<1>3. Len(call[c].list) \in Nat /\ Len(call[c].failed) \in Nat /\ MaxList \in Nat
  BY <1>2, ListsAssumption
<1>4. /\ Len(call[c].list) <= MaxList /\ Len(call[c].failed) < call[c].place
      /\ call[c].place <= Len(call[c].list) + 1
      /\ InHand(c) => call[c].place <= Len(call[c].list)
  BY <1>1 DEF Account, Shape
<1>5. InHand(c) => call[c].place \in 1..MaxList /\ call[c].place \in 1..Len(call[c].list)
  BY <1>2, <1>3, <1>4
<1> QED
  BY <1>1, <1>2, <1>3, <1>4, <1>5

(* The call goes on with the recipient it is at, or ends.                  *)
LEMMA Goes ==
  ASSUME CallInv, KeysOK', NEW c \in Calls, NEW pc \in Places \ {"none"}, NEW ok,
         CallIs(c, pc, ok, call[c].place, call[c].failed), UNCHANGED <<copies, logged>>,
         call[c].pc \notin {"none", "unheard", "log"},
         pc \in Turns \cup {"log"} => ~ok /\ call[c].place <= Len(call[c].list),
         pc = "answered" => call[c].place > Len(call[c].list)
  PROVE  CallInv'
<1>1. KeysOK' /\ CallsOK' /\ HistoryOK'
  BY DEF CallInv, CallIs, HistoryOK
<1>2. /\ call[c].place \in Nat \ {0} /\ Len(call[c].list) \in Nat /\ MaxList \in Nat
      /\ Len(call[c].list) <= MaxList /\ Account(c)
  BY PlaceIs
<1>3. /\ call'[c].list = call[c].list /\ call'[c].place = call[c].place
      /\ call'[c].failed = call[c].failed /\ call'[c].pc = pc /\ call'[c].ok = ok
      /\ (InHand(c)' <=> pc \in Turns \cup {"log"})
  BY DEF CallIs, InHand, Turns
<1>4. pc = "log" => call[c].place \in 1..MaxList
  BY <1>2
<1>5. \A a : Unsent(c, a)' = Unsent(c, a)
  BY <1>3, UnsentSame
<1>6. \A a \in Addresses : Cardinality(Unsent(c, a)') = Cardinality(Unsent(c, a))
  BY <1>5
<1>7. Account(c)'
  BY <1>2, <1>3, <1>4, <1>6 DEF Account, Turns
<1> QED
  BY <1>1, <1>7, OtherAccounts DEF CallIs

LEMMA TakenStep ==
  ASSUME CallInv, KeysOK', NEW c \in Calls, call[c].pc \in {"bound", "try"}, Taken(c)
  PROVE  CallInv'
<1>0. CallIs(c, "log", TRUE, call[c].place, call[c].failed) /\ UNCHANGED logged
  BY TakenIs DEF CallInv, Taken
<1>1. /\ call[c].place \in 1..MaxList /\ Account(c) /\ MaxList \in Nat
      /\ call[c].place <= Len(call[c].list)
  BY PlaceIs DEF InHand
<1>2. Item(c) \in Items /\ copies[Item(c)] = 0
  BY <1>1 DEF Item, Items, Account
<1>3. copies' = [copies EXCEPT ![Item(c)] = 1] /\ copies \in [Items -> Nat]
  <2>1. copies' = [copies EXCEPT ![Item(c)] = copies[Item(c)] + 1]
    BY DEF Taken
  <2> QED
    BY <1>2, <2>1 DEF CallInv, HistoryOK
<1>4. /\ copies' \in [Items -> Nat] /\ copies'[<<c, call[c].place>>] = 1
      /\ \A d \in Calls, n \in 1..MaxList :
            d # c \/ n # call[c].place => copies'[<<d, n>>] = copies[<<d, n>>]
  BY <1>2, <1>3 DEF Item, Items
<1>5. KeysOK' /\ CallsOK' /\ HistoryOK'
  BY <1>0, <1>4 DEF CallInv, CallIs, HistoryOK
<1>6. /\ call'[c].list = call[c].list /\ call'[c].place = call[c].place
      /\ call'[c].failed = call[c].failed /\ call'[c].pc = "log" /\ call'[c].ok = TRUE
      /\ InHand(c)'
  BY <1>0 DEF CallIs, InHand
<1>7. \A n \in 1..(call[c].place - 1) : copies'[<<c, n>>] = copies[<<c, n>>]
  BY <1>1, <1>4
<1>8. \A n \in 1..MaxList : n > call[c].place => copies'[<<c, n>>] = 0
  BY <1>1, <1>4 DEF Account
<1>9. \A a : Unsent(c, a)' = Unsent(c, a)
  BY <1>6, <1>7, UnsentSame
<1>10. \A a \in Addresses : Cardinality(Unsent(c, a)') = Cardinality(Unsent(c, a))
  BY <1>9
<1>11. Account(c)'
  BY <1>0, <1>1, <1>4, <1>6, <1>8, <1>10 DEF Account, Turns
<1> QED
  BY <1>0, <1>4, <1>5, <1>11, OtherAccounts DEF CallIs

(* What the log and the list of the failed become.                         *)
LEMMA LogStep ==
  ASSUME CallInv, KeysOK', NEW c \in Calls, WriteAPILog(c)
  PROVE  CallInv'
<1> DEFINE place == call[c].place
           list == call[c].list
           failed == call[c].failed
<1>1. /\ place \in 1..MaxList /\ place \in 1..Len(list) /\ Account(c) /\ MaxList \in Nat
      /\ Len(list) \in Nat /\ call[c].pc = "log"
  BY PlaceIs DEF InHand, WriteAPILog
<1>2. /\ list \in Seq(Addresses) /\ failed \in Seq(Addresses) /\ list[place] \in Addresses
      /\ call[c].ok \in BOOLEAN
  BY <1>1, CallFields DEF CallInv
<1>3. CallIs(c, "next", call[c].ok, place + 1, Named(call[c])) /\ UNCHANGED copies
  <2>1. CallsOK /\ call[c].place \in DOMAIN call[c].list
    BY <1>1, <1>2 DEF CallInv
  <2> QED
    BY <2>1, LogIs DEF WriteAPILog
<1>4. /\ logged' \in [Items -> {"none", "success", "failed"}]
      /\ \A d \in Calls, n \in 1..MaxList :
            d # c \/ n # place => logged'[<<d, n>>] = logged[<<d, n>>]
  <2>1. Item(c) = <<c, place>> /\ Item(c) \in Items /\ logged \in [Items -> {"none", "success", "failed"}]
    BY <1>1 DEF Item, Items, CallInv, HistoryOK
  <2>2. \/ logged' = [logged EXCEPT ![Item(c)] = IF call[c].ok THEN "success" ELSE "failed"]
        \/ logged' = logged
    BY DEF WriteAPILog
  <2> QED
    BY <2>1, <2>2 DEF Items
<1>5. KeysOK' /\ CallsOK' /\ HistoryOK'
  BY <1>3, <1>4 DEF CallInv, CallIs, HistoryOK
<1>6. /\ Len(failed) \in Nat /\ Len(failed) < place /\ Len(list) <= MaxList
      /\ \A a \in Addresses : Cardinality(Occurrences(failed, a)) = Cardinality(Unsent(c, a))
  BY <1>1, PlaceIs DEF Account
<1>7. PICK f \in Seq(Addresses) :
         /\ f = Named(call[c]) /\ Len(f) \in Nat /\ Len(f) < place + 1
         /\ \A a \in Addresses :
               Cardinality(Occurrences(f, a)) = Cardinality(Occurrences(failed, a)) +
                  (IF ~call[c].ok /\ a = list[place] THEN 1 ELSE 0)
  <2>0. \A a : Cardinality(Occurrences(failed, a)) \in Nat
    BY <1>2, OccurrencesCounted
  <2>1. CASE call[c].ok
    <3>1. Named(call[c]) = failed
      BY <2>1 DEF Named
    <3> QED
      BY <1>1, <1>2, <1>6, <2>0, <2>1, <3>1
  <2>2. CASE ~call[c].ok
    <3>1. Named(call[c]) = Append(failed, list[place])
      BY <2>2 DEF Named
    <3>2. /\ Append(failed, list[place]) \in Seq(Addresses)
          /\ Len(Append(failed, list[place])) = Len(failed) + 1
          /\ \A a : Cardinality(Occurrences(Append(failed, list[place]), a)) =
                    Cardinality(Occurrences(failed, a)) + (IF a = list[place] THEN 1 ELSE 0)
      BY <1>2, AppendCounts
    <3>3. Len(Append(failed, list[place])) \in Nat /\ Len(Append(failed, list[place])) < place + 1
      BY <1>1, <1>6, <3>2
    <3> QED
      BY <2>2, <3>1, <3>2, <3>3
  <2> QED
    BY <1>2, <2>1, <2>2
<1>8. /\ call'[c].list = list /\ call'[c].place = place + 1 /\ call'[c].failed = f
      /\ call'[c].pc = "next" /\ ~InHand(c)'
  BY <1>3, <1>7 DEF CallIs, InHand
<1>9. Shape(list, place + 1, f)
  BY <1>1, <1>6, <1>7 DEF Shape
<1>10. ASSUME NEW a \in Addresses
       PROVE  Cardinality(Unsent(c, a)') = Cardinality(Unsent(c, a)) +
                 (IF ~call[c].ok /\ a = list[place] THEN 1 ELSE 0)
  <2>1. IsFiniteSet(Unsent(c, a)) /\ Cardinality(Unsent(c, a)) \in Nat /\ place \notin Unsent(c, a)
    <3>1. place \in Nat /\ place \notin 1..(place - 1)
      BY <1>1
    <3>2. IsFiniteSet(Unsent(c, a)) /\ Cardinality(Unsent(c, a)) \in Nat
      BY <3>1, UnsentCounted
    <3> QED
      BY <3>1, <3>2 DEF Unsent
  <2>2. /\ copies[<<c, place>>] = 0 <=> ~call[c].ok
        /\ \A n : n \in 1..(place + 1 - 1) <=> n \in 1..(place - 1) \/ n = place
    BY <1>1 DEF Account
  <2>3. Unsent(c, a)' = {n \in 1..(place + 1 - 1) : list[n] = a /\ copies[<<c, n>>] = 0}
    <3>1. copies' = copies /\ call'[c].place - 1 = place + 1 - 1 /\ call'[c].list = list
      <4>1. copies' = copies
        BY <1>3
      <4>2. call'[c].place = place + 1 /\ call'[c].list = list
        BY <1>8
      <4>3. place \in Nat
        BY <1>1
      <4> QED
        BY <4>1, <4>2, <4>3
    <3>2. Unsent(c, a)' = {n \in 1..(call'[c].place - 1) :
                             call'[c].list[n] = a /\ copies'[<<c, n>>] = 0}
      BY DEF Unsent
    <3> QED
      BY <3>1, <3>2
  <2>4. CASE ~call[c].ok /\ a = list[place]
    <3>1. Unsent(c, a)' = Unsent(c, a) \cup {place}
      BY <2>2, <2>3, <2>4 DEF Unsent
    <3>2. Cardinality(Unsent(c, a) \cup {place}) = Cardinality(Unsent(c, a)) + 1
      BY <2>1, FS_AddElement
    <3> QED
      BY <2>4, <3>1, <3>2
  <2>5. CASE ~(~call[c].ok /\ a = list[place])
    <3>1. Unsent(c, a)' = Unsent(c, a)
      BY <2>2, <2>3, <2>5 DEF Unsent
    <3> QED
      BY <2>1, <2>5, <3>1
  <2> QED
    BY <2>4, <2>5
<1>11. \A a \in Addresses : Cardinality(Occurrences(f, a)) = Cardinality(Unsent(c, a)')
  BY <1>6, <1>7, <1>10
<1>12. \A n \in 1..MaxList : n >= place + 1 =>
          copies[<<c, n>>] = 0 /\ logged'[<<c, n>>] = "none"
  BY <1>1, <1>4 DEF Account
<1>13. Account(c)'
  BY <1>1, <1>3, <1>8, <1>9, <1>11, <1>12 DEF Account, Turns
<1> QED
  BY <1>3, <1>4, <1>5, <1>13, OtherAccounts DEF CallIs


LEMMA CallStep ==
  ASSUME CallInv, KeysOK', NEW c \in Calls, SendEmailAPI(c)
  PROVE  CallInv'
<1>0. /\ CallsOK /\ KeysOK /\ Account(c) /\ call[c].place \in Nat /\ Len(call[c].list) \in Nat
      /\ InHand(c) => call[c].place <= Len(call[c].list)
  BY PlaceIs DEF CallInv, Account
<1>1. CASE NextRecipient(c)
  <2>1. PICK pc \in {"log", "bound", "list"} : CallIs(c, pc, FALSE, call[c].place, call[c].failed)
    BY <1>0, <1>1, NextIs
  <2>2. /\ call[c].pc = "next" /\ call[c].place <= Len(call[c].list) /\ UNCHANGED <<copies, logged>>
    BY <1>1 DEF NextRecipient
  <2> QED
    BY <2>1, <2>2, Goes DEF Places, Turns
<1>2. CASE BoundSendError(c)
  <2>1. CallIs(c, "list", call[c].ok, call[c].place, call[c].failed)
    BY <1>0, <1>2, GotoIs DEF BoundSendError, Places
  <2>2. /\ call[c].pc = "bound" /\ InHand(c) /\ ~call[c].ok /\ UNCHANGED <<copies, logged>>
    BY <1>0, <1>2 DEF BoundSendError, Account, Turns, InHand
  <2> QED
    BY <1>0, <2>1, <2>2, Goes DEF Places, Turns
<1>3. CASE ListChannels(c) \/ TryError(c)
  <2>1. PICK pc \in {"log", "try"} : CallIs(c, pc, call[c].ok, call[c].place, call[c].failed)
    BY <1>0, <1>3, TryIs
  <2>2. /\ call[c].pc \in {"list", "try"} /\ InHand(c) /\ ~call[c].ok /\ UNCHANGED <<copies, logged>>
    BY <1>0, <1>3 DEF ListChannels, TryError, Account, Turns, InHand
  <2> QED
    BY <1>0, <2>1, <2>2, Goes DEF Places, Turns
<1>4. CASE BoundSendOk(c) \/ TryOk(c)
  BY <1>4, TakenStep DEF BoundSendOk, TryOk
<1>5. CASE WriteAPILog(c)
  BY <1>5, LogStep
<1>6. CASE Answer(c)
  <2>1. PICK pc \in {"answered", "unheard"} :
          CallIs(c, pc, call[c].ok, call[c].place, call[c].failed)
    BY <1>0, <1>6, GotoIs DEF Answer, Places
  <2>2. /\ call[c].pc = "next" /\ call[c].place > Len(call[c].list) /\ UNCHANGED <<copies, logged>>
    BY <1>6 DEF Answer
  <2> QED
    BY <2>1, <2>2, Goes DEF Places, Turns
<1> QED
  BY <1>1, <1>2, <1>3, <1>4, <1>5, <1>6 DEF SendEmailAPI

(* A list a caller has, its own or the one an answer names.                *)
LEMMA ListsAre ==
  ASSUME CallInv, NEW list \in Lists \cup {call[d].failed : d \in Calls}
  PROVE  list \in Seq(Addresses) /\ Len(list) <= MaxList
<1>1. CASE list \in Lists
  BY <1>1, ListsAssumption
<1>2. ASSUME NEW d \in Calls, list = call[d].failed
      PROVE  list \in Seq(Addresses) /\ Len(list) <= MaxList
  BY <1>2, PlaceIs
<1> QED
  BY <1>1, <1>2

LEMMA AuthorizeStep ==
  ASSUME CallInv, KeysOK', NEW c \in Calls, NEW k \in keys,
         NEW list \in Lists \cup {call[d].failed : d \in Calls}, Authorize(c, k, list)
  PROVE  CallInv'
<1>1. list \in Seq(Addresses) /\ Len(list) <= MaxList
  BY ListsAre
<1>2. /\ CallsOK' /\ call'[c].pc = "next" /\ call'[c].place = 1
      /\ call'[c].list = list /\ call'[c].failed = <<>>
      /\ \A d \in Calls : d # c => call'[d] = call[d]
  BY <1>1, AuthorizeIs DEF CallInv
<1>3. call[c].pc = "none" /\ UNCHANGED <<copies, logged>>
  BY DEF Authorize
<1>4. call[c].place = 1 /\ Account(c) /\ Len(list) \in Nat /\ MaxList \in Nat
  <2>1. Account(c) /\ MaxList \in Nat
    BY PlaceIs
  <2>2. call[c].place = 1
    BY <1>3, <2>1 DEF NoCall, Account
  <2> QED
    BY <1>1, <2>1, <2>2
<1>5. \A n \in 1..MaxList : copies[<<c, n>>] = 0 /\ logged[<<c, n>>] = "none"
  <2>1. \A n \in 1..MaxList : n \in Nat /\ (n > 1 \/ n = 1) /\ n >= 1
    BY <1>4
  <2> QED
    BY <1>3, <1>4, <2>1 DEF Account
<1>6. Shape(list, 1, <<>>)
  <2>1. Len(<<>>) = 0 /\ 1 <= Len(list) + 1
    BY <1>4
  <2> QED
    BY <1>1, <2>1 DEF Shape
<1>7. Account(c)'
  <2>1. \A n \in 1..(1 - 1) : FALSE
    OBVIOUS
  <2>2. \A a : Unsent(c, a)' = {}
    BY <1>2, <2>1 DEF Unsent
  <2>3. \A a : Occurrences(<<>>, a) = {}
    BY DEF Occurrences
  <2>4. \A a \in Addresses : Cardinality(Occurrences(<<>>, a)) = Cardinality(Unsent(c, a)')
    BY <2>2, <2>3
  <2> QED
    BY <1>2, <1>3, <1>4, <1>5, <1>6, <2>4 DEF Account, InHand, Turns
<1>8. KeysOK' /\ CallsOK' /\ HistoryOK'
  BY <1>2, <1>3 DEF CallInv, HistoryOK
<1> QED
  BY <1>2, <1>3, <1>7, <1>8, OtherAccounts

LEMMA RestartStep ==
  ASSUME CallInv, KeysOK', Restart
  PROVE  CallInv'
<1>0. UNCHANGED <<copies, logged>>
  BY DEF Restart
<1>1. KeysOK' /\ CallsOK' /\ HistoryOK'
  BY <1>0, RestartIs DEF CallInv, HistoryOK
<1>2. ASSUME NEW c \in Calls PROVE Account(c)'
  <2>0. /\ Account(c) /\ call[c].place \in Nat \ {0} /\ Len(call[c].list) \in Nat
        /\ Len(call[c].failed) \in Nat /\ MaxList \in Nat
    BY PlaceIs DEF CallInv
  <2>1. CASE call'[c] = call[c]
    <3>1. \A a : Unsent(c, a)' = Unsent(c, a)
      BY <1>0, <2>1, UnsentSame
    <3>2. \A a \in Addresses : Cardinality(Unsent(c, a)') = Cardinality(Unsent(c, a))
      BY <3>1
    <3> QED
      BY <1>0, <2>0, <2>1, <3>2 DEF Account, InHand
  <2>2. CASE /\ call[c].pc = "next" /\ call'[c].pc = "unheard"
             /\ call'[c].place = call[c].place
             /\ call'[c].list = call[c].list /\ call'[c].failed = call[c].failed
    BY <1>0, <2>0, <2>2 DEF Account, InHand, Turns
  <2>3. CASE /\ InHand(c) /\ call'[c].pc = "unheard" /\ call'[c].place = call[c].place + 1
             /\ call'[c].list = call[c].list /\ call'[c].failed = call[c].failed
    <3>1. \A n \in 1..MaxList : n >= call[c].place + 1 => n > call[c].place
      BY <2>0
    <3>2. \A n \in 1..MaxList : n >= call[c].place + 1 =>
             copies[<<c, n>>] = 0 /\ logged[<<c, n>>] = "none"
      BY <2>0, <3>1 DEF Account
    <3>3. Shape(call[c].list, call[c].place + 1, call[c].failed)
      BY <2>0, <2>3 DEF Account, Shape
    <3> QED
      BY <1>0, <2>0, <2>3, <3>2, <3>3 DEF Account, InHand, Turns
  <2> QED
    BY <2>1, <2>2, <2>3, RestartIs DEF CallInv
<1> QED
  BY <1>1, <1>2 DEF CallInv

LEMMA CallInit == Init => CallInv
<1> SUFFICES ASSUME Init PROVE CallInv
  OBVIOUS
<1>1. <<>> \in Seq(Addresses) /\ 1 \in Nat \ {0} /\ 0 \in Nat /\ Len(<<>>) = 0 /\ MaxList \in Nat
  BY ListsAssumption
<1>2. /\ NoCall \in CallType /\ NoCall.pc = "none" /\ NoCall.place = 1
      /\ NoCall.list = <<>> /\ NoCall.failed = <<>>
  BY <1>1 DEF NoCall, CallType, Places
<1>3. CallsOK /\ \A c \in Calls : call[c] = NoCall
  BY <1>2 DEF Init, CallsOK
<1>4. HistoryOK /\ \A i \in Items : copies[i] = 0 /\ logged[i] = "none"
  BY DEF Init, HistoryOK
<1>5. Shape(<<>>, 1, <<>>)
  BY <1>1 DEF Shape
<1>6. \A c \in Calls : Account(c)
  BY <1>2, <1>3, <1>4, <1>5 DEF Account, InHand, Turns, Items
<1> QED
  BY <1>3, <1>4, <1>6, KeysInit DEF CallInv

LEMMA CallNext == CallInv /\ [Next]_vars => CallInv'
<1> SUFFICES ASSUME CallInv, [Next]_vars PROVE CallInv'
  OBVIOUS
<1>0. KeysOK'
  BY KeysStep DEF CallInv
<1>1. CASE UNCHANGED <<call, copies, logged>>
  <2>1. KeysOK' /\ CallsOK' /\ HistoryOK'
    BY <1>0, <1>1 DEF CallInv, CallsOK, HistoryOK
  <2>2. ASSUME NEW c \in Calls PROVE Account(c)'
    BY <1>1, <2>2 DEF CallInv, Account, InHand, Unsent
  <2> QED
    BY <2>1, <2>2 DEF CallInv
<1>2. ASSUME NEW c \in Calls, Caller(c) PROVE CallInv'
  <2>1. GiveUp(c) => UNCHANGED <<call, copies, logged>>
    BY DEF GiveUp
  <2> QED
    BY <1>0, <1>1, <1>2, <2>1, AuthorizeStep DEF Caller
<1>3. CASE Restart
  BY <1>0, <1>3, RestartStep
<1>4. ASSUME NEW c \in Calls, SendEmailAPI(c) PROVE CallInv'
  BY <1>0, <1>4, CallStep
<1>5. CASE UNCHANGED api
  BY <1>1, <1>5 DEF api
<1> QED
  BY <1>2, <1>3, <1>4, <1>5, StepsSplit


-----------------------------------------------------------------------------
(* An answer names each address exactly as often as the call had a mail    *)
(* for it that no server took, for any lists, with repetitions or without, *)
(* and any channels, faults of the log, restarts and calls at once         *)
(* (SendEmailAPI).                                                         *)
LEMMA DoneWithAll ==
  ASSUME CallInv, NEW c \in Calls, call[c].pc = "answered"
  PROVE  \A a : Unsent(c, a) = {n \in Occurrences(call[c].list, a) : copies[<<c, n>>] = 0}
<1>1. Account(c) /\ call[c].list \in Seq(Addresses) /\ call[c].place \in Nat
      /\ Len(call[c].list) \in Nat /\ call[c].place <= Len(call[c].list) + 1
  BY PlaceIs
<1>2. call[c].place = Len(call[c].list) + 1
  BY <1>1 DEF Account
<1>3. 1..(call[c].place - 1) = DOMAIN call[c].list
  BY <1>1, <1>2
<1> QED
  BY <1>3 DEF Unsent, Occurrences

THEOREM AnswersAreTrue == Spec => []AnswerTrue
<1>1. CallInv => AnswerTrue
  <2> SUFFICES ASSUME CallInv, NEW c \in Calls, NEW a \in Addresses, call[c].pc = "answered"
               PROVE  Cardinality(Occurrences(call[c].failed, a)) =
                      Cardinality({n \in Occurrences(call[c].list, a) : copies[<<c, n>>] = 0})
    BY DEF AnswerTrue
  <2>1. Cardinality(Occurrences(call[c].failed, a)) = Cardinality(Unsent(c, a))
    BY DEF CallInv, Account
  <2> QED
    BY <2>1, DoneWithAll
<1> QED
  BY <1>1, CallInit, CallNext, PTL DEF Spec

(* A patient caller whose last call is k: the calls before it were         *)
(* answered, and the mails of those for an address, with the places of the *)
(* last list that name it, are no more than the places of the first list   *)
(* that do.                                                                *)
LastCall(k) == \A c \in Calls : call[c].pc # "none" <=> c <= k

Bounded(k) ==
  /\ \A c \in Calls : c < k => call[c].pc = "answered"
  /\ \A a \in Addresses :
        Cardinality(Mailed(k - 1, a)) + Cardinality(Occurrences(call[k].list, a))
        <= Cardinality(Occurrences(call[1].list, a))

Repeats == \E k \in 0..MaxCalls : LastCall(k) /\ (patient /\ k # 0 => Bounded(k))

LEMMA ItemsFinite == IsFiniteSet(Items)
<1>1. MaxCalls \in Nat /\ MaxList \in Nat
  BY CallsAssumption, ListsAssumption
<1>2. IsFiniteSet(1..MaxCalls) /\ IsFiniteSet(1..MaxList)
  BY <1>1, FS_Interval
<1> QED
  BY <1>2, FS_Product DEF Items, Calls

LEMMA MailedCounted ==
  ASSUME NEW k, NEW a
  PROVE  IsFiniteSet(Mailed(k, a)) /\ Cardinality(Mailed(k, a)) \in Nat
<1>1. Mailed(k, a) \in SUBSET Items
  BY DEF Mailed
<1>2. IsFiniteSet(Mailed(k, a))
  BY <1>1, ItemsFinite, FS_Subset
<1> QED
  BY <1>2, FS_CardinalityType

(* The mails up to the call k are those before it and those of the places  *)
(* of its list that a server took.                                         *)
TakenOf(k, a) == {n \in Occurrences(call[k].list, a) : copies[<<k, n>>] # 0}
LeftOf(k, a)  == {n \in Occurrences(call[k].list, a) : copies[<<k, n>>] = 0}

LEMMA MailedUpTo ==
  ASSUME CallInv, NEW k \in Calls, NEW a
  PROVE  /\ Cardinality(TakenOf(k, a)) \in Nat /\ Cardinality(LeftOf(k, a)) \in Nat
         /\ Cardinality(Occurrences(call[k].list, a)) =
            Cardinality(TakenOf(k, a)) + Cardinality(LeftOf(k, a))
         /\ Cardinality(Mailed(k, a)) = Cardinality(Mailed(k - 1, a)) + Cardinality(TakenOf(k, a))
<1>0. /\ k \in Nat /\ call[k].list \in Seq(Addresses) /\ Len(call[k].list) <= MaxList
      /\ Len(call[k].list) \in Nat /\ MaxList \in Nat /\ copies \in [Items -> Nat]
  BY PlaceIs DEF Calls, CallInv, HistoryOK
<1>1. IsFiniteSet(Occurrences(call[k].list, a))
  BY <1>0, OccurrencesCounted
<1>2. IsFiniteSet(TakenOf(k, a)) /\ IsFiniteSet(LeftOf(k, a))
  <2>1. TakenOf(k, a) \in SUBSET Occurrences(call[k].list, a)
        /\ LeftOf(k, a) \in SUBSET Occurrences(call[k].list, a)
    BY DEF TakenOf, LeftOf
  <2> QED
    BY <1>1, <2>1, FS_Subset
<1>3. Cardinality(TakenOf(k, a)) \in Nat /\ Cardinality(LeftOf(k, a)) \in Nat
  BY <1>2, FS_CardinalityType
<1>4. Cardinality(Occurrences(call[k].list, a)) =
      Cardinality(TakenOf(k, a)) + Cardinality(LeftOf(k, a))
  <2>1. /\ Occurrences(call[k].list, a) = TakenOf(k, a) \cup LeftOf(k, a)
        /\ TakenOf(k, a) \cap LeftOf(k, a) = {}
    BY DEF TakenOf, LeftOf
  <2>2. Cardinality(TakenOf(k, a) \cap LeftOf(k, a)) = 0
    BY <2>1, FS_EmptySet
  <2>3. Cardinality(TakenOf(k, a) \cup LeftOf(k, a)) =
        Cardinality(TakenOf(k, a)) + Cardinality(LeftOf(k, a))
        - Cardinality(TakenOf(k, a) \cap LeftOf(k, a))
    BY <1>2, FS_Union
  <2> QED
    BY <1>3, <2>1, <2>2, <2>3
<1> DEFINE here == {k} \X TakenOf(k, a)
<1>5. IsFiniteSet(here) /\ Cardinality(here) = Cardinality(TakenOf(k, a))
  <2>1. IsFiniteSet({k}) /\ Cardinality({k}) = 1
    BY FS_Singleton
  <2>2. IsFiniteSet(here) /\ Cardinality(here) = 1 * Cardinality(TakenOf(k, a))
    BY <1>2, <2>1, FS_Product
  <2> QED
    BY <1>3, <2>2
<1>6. Mailed(k, a) = Mailed(k - 1, a) \cup here
  <2>1. ASSUME NEW c \in Calls, NEW n \in 1..MaxList
        PROVE  <<c, n>> \in Mailed(k, a) <=> <<c, n>> \in Mailed(k - 1, a) \cup here
    <3>1. c \in Nat /\ <<c, n>> \in Items /\ copies[<<c, n>>] \in Nat
          /\ <<c, n>>[1] = c /\ <<c, n>>[2] = n
      BY <1>0 DEF Calls, Items
    <3>2. c <= k <=> c <= k - 1 \/ c = k
      BY <1>0, <3>1
    <3>3. c = k => ~(c <= k - 1)
      BY <1>0, <3>1
    <3>4. copies[<<c, n>>] > 0 <=> copies[<<c, n>>] # 0
      BY <3>1
    <3> QED
      BY <3>1, <3>2, <3>3, <3>4 DEF Mailed, TakenOf
  <2>2. Mailed(k, a) \subseteq Items /\ Mailed(k - 1, a) \subseteq Items
    BY DEF Mailed
  <2>3. here \subseteq Items
    <3>1. ASSUME NEW n \in TakenOf(k, a) PROVE n \in 1..MaxList
      BY <1>0 DEF TakenOf, Occurrences
    <3> QED
      BY <3>1 DEF Items
  <2> QED
    BY <2>1, <2>2, <2>3 DEF Items
<1>7. Mailed(k - 1, a) \cap here = {}
  <2>1. \A i \in Mailed(k - 1, a) : i[1] <= k - 1
    BY DEF Mailed
  <2>2. \A i \in here : i[1] = k
    OBVIOUS
  <2>3. ~(k <= k - 1)
    BY <1>0
  <2> QED
    BY <2>1, <2>2, <2>3
<1> HIDE DEF here
<1>8. Cardinality(Mailed(k, a)) = Cardinality(Mailed(k - 1, a)) + Cardinality(here)
  <2>1. Cardinality(Mailed(k - 1, a) \cap here) = 0
    BY <1>7, FS_EmptySet
  <2>2. IsFiniteSet(Mailed(k - 1, a)) /\ Cardinality(Mailed(k - 1, a)) \in Nat
    BY MailedCounted
  <2>3. Cardinality(Mailed(k - 1, a) \cup here) =
        Cardinality(Mailed(k - 1, a)) + Cardinality(here) - Cardinality(Mailed(k - 1, a) \cap here)
    BY <1>5, <2>2, FS_Union
  <2> QED
    BY <1>3, <1>5, <1>6, <2>1, <2>2, <2>3
<1> QED
  BY <1>3, <1>4, <1>5, <1>8

(* The list of a call never changes once it is there, an answered call not *)
(* at all, and a call comes out of nothing only by Authorize.              *)
LEMMA CallsGoOn ==
  ASSUME CallInv, [Next]_vars,
         ~\E c \in Calls, k \in keys, list \in Lists \cup {call[d].failed : d \in Calls} :
            Authorize(c, k, list)
  PROVE  /\ UNCHANGED patient
         /\ \A c \in Calls : /\ call'[c].list = call[c].list
                             /\ call[c].pc = "none" <=> call'[c].pc = "none"
                             /\ call[c].pc = "answered" => call'[c] = call[c]
<1>0. CallsOK /\ KeysOK
  BY DEF CallInv
<1>1. CASE UNCHANGED <<call, patient>>
  BY <1>1
<1>2. ASSUME NEW c \in Calls, SendEmailAPI(c)
      PROVE  /\ UNCHANGED patient /\ call[c].pc \notin {"none", "answered"}
             /\ call'[c].list = call[c].list /\ call'[c].pc # "none"
             /\ \A d \in Calls : d # c => call'[d] = call[d]
  <2>1. UNCHANGED patient /\ call[c].pc \notin {"none", "answered"}
    BY <1>2 DEF SendEmailAPI, NextRecipient, BoundSendOk, Taken, BoundSendError, ListChannels,
                TryOk, TryError, WriteAPILog, Answer, InHand
  <2>2. \E pc, ok, place, failed : CallIs(c, pc, ok, place, failed) /\ pc # "none"
    <3>1. CASE NextRecipient(c)
      BY <1>0, <3>1, NextIs
    <3>2. CASE BoundSendOk(c) \/ TryOk(c)
      <4>1. CallIs(c, "log", TRUE, call[c].place, call[c].failed)
        BY <1>0, <3>2, TakenIs DEF BoundSendOk, TryOk
      <4>2. "log" # "none"
        OBVIOUS
      <4> QED
        BY <4>1, <4>2
    <3>3. CASE BoundSendError(c) \/ Answer(c)
      BY <1>0, <3>3, GotoIs DEF BoundSendError, Answer, Places
    <3>4. CASE ListChannels(c) \/ TryError(c)
      BY <1>0, <3>4, TryIs
    <3>5. CASE WriteAPILog(c)
      <4>1. call[c].place \in DOMAIN call[c].list
        BY <3>5, PlaceIs DEF WriteAPILog, InHand
      <4> QED
        BY <1>0, <3>5, <4>1, LogIs
    <3> QED
      BY <1>2, <3>1, <3>2, <3>3, <3>4, <3>5 DEF SendEmailAPI
  <2> QED
    BY <2>1, <2>2 DEF CallIs
<1>3. CASE \E c \in Calls : SendEmailAPI(c)
  BY <1>2, <1>3
<1>4. CASE Restart
  <2>1. UNCHANGED patient
    BY <1>4 DEF Restart
  <2> QED
    BY <1>0, <1>4, <2>1, RestartIs DEF InHand
<1>5. ASSUME NEW c \in Calls, Caller(c) PROVE UNCHANGED <<call, patient>>
  BY <1>5 DEF Caller, GiveUp
<1>6. UNCHANGED api => UNCHANGED <<call, patient>>
  BY DEF api
<1> QED
  BY <1>1, <1>3, <1>4, <1>5, <1>6, StepsSplit

(* The mails of the calls up to k, with their lists and records as they    *)
(* were, are what they were.                                               *)
LEMMA MailedSame ==
  ASSUME NEW k \in Int, \A c \in Calls : c <= k => call'[c].list = call[c].list,
         \A i \in Items : i[1] <= k => copies'[i] = copies[i]
  PROVE  \A a : Mailed(k, a)' = Mailed(k, a)
<1>1. \A i \in Items : i[1] \in Calls
  BY DEF Items
<1> QED
  BY <1>1 DEF Mailed, Occurrences

(* Until the next call, the bound stays as it is.                          *)
LEMMA BoundedSame ==
  ASSUME CallInv, [Next]_vars, NEW k \in Calls, LastCall(k), Bounded(k),
         \A c \in Calls : /\ call'[c].list = call[c].list
                          /\ call[c].pc = "answered" => call'[c] = call[c]
  PROVE  Bounded(k)'
<1>0. k \in Nat /\ k - 1 \in Int /\ 1 \in Calls
  BY CallsAssumption DEF Calls
<1>1. ASSUME NEW i \in Items, i[1] <= k - 1 PROVE copies'[i] = copies[i]
  <2>1. PICK c \in Calls, n \in 1..MaxList : i = <<c, n>> /\ i[1] = c
    BY DEF Items
  <2>2. c \in Nat /\ c < k /\ call[c].pc = "answered"
    BY <1>0, <1>1, <2>1 DEF Bounded, Calls
  <2>3. ASSUME NEW d \in Calls, Taken(d), call[d].pc \in {"bound", "try"}
        PROVE  copies'[i] = copies[i]
    <3>1. d # c /\ Item(d) # i
      BY <2>1, <2>2, <2>3 DEF Item
    <3> QED
      BY <2>3, <3>1 DEF Taken, CallInv, HistoryOK
  <2>4. CASE \E d \in Calls : SendEmailAPI(d)
    <3>1. PICK d \in Calls : SendEmailAPI(d)
      BY <2>4
    <3>2. (Taken(d) /\ call[d].pc \in {"bound", "try"}) \/ UNCHANGED copies
      BY <3>1 DEF SendEmailAPI, BoundSendOk, TryOk, NextRecipient, BoundSendError, ListChannels,
                  TryError, WriteAPILog, Answer
    <3> QED
      BY <2>3, <3>2
  <2>5. ASSUME NEW d \in Calls, Caller(d) PROVE UNCHANGED copies
    BY <2>5 DEF Caller, GiveUp, Authorize
  <2>6. Restart => UNCHANGED copies
    BY DEF Restart
  <2>7. UNCHANGED api => UNCHANGED copies
    BY DEF api
  <2> QED
    BY <2>4, <2>5, <2>6, <2>7, StepsSplit
<1>2. \A a : Mailed(k - 1, a)' = Mailed(k - 1, a)
  BY <1>0, <1>1, MailedSame
<1>3. \A a \in Addresses : Cardinality(Mailed(k - 1, a)') = Cardinality(Mailed(k - 1, a))
  BY <1>2
<1>4. call'[k].list = call[k].list /\ call'[1].list = call[1].list
  BY <1>0
<1>5. \A c \in Calls : c < k => call'[c].pc = "answered"
  BY DEF Bounded
<1> QED
  BY <1>3, <1>4, <1>5 DEF Bounded

(* The next call of a patient caller asks for what the last answer left.   *)
LEMMA BoundedNext ==
  ASSUME CallInv, NEW e \in Calls, NEW k \in keys,
         NEW list \in Lists \cup {call[f].failed : f \in Calls}, Authorize(e, k, list),
         patient', e > 1 => Bounded(e - 1)
  PROVE  Bounded(e)'
<1>0. e \in Nat /\ MaxCalls \in Nat /\ 1 \in Calls /\ \A c \in Calls : c \in Nat
  BY CallsAssumption DEF Calls
<1>1. /\ call'[e].list = list /\ list \in Seq(Addresses)
      /\ \A f \in Calls : f # e => call'[f] = call[f]
  BY ListsAre, AuthorizeIs DEF CallInv
<1>2. /\ UNCHANGED copies
      /\ e > 1 => call[e - 1].pc = "answered" /\ list = call[e - 1].failed
  BY DEF Authorize
<1>3. \A a : Mailed(e - 1, a)' = Mailed(e - 1, a)
  <2>1. \A c \in Calls : c <= e - 1 => call'[c].list = call[c].list
    <3>1. \A c \in Calls : c <= e - 1 => c # e
      BY <1>0
    <3> QED
      BY <1>1, <3>1
  <2> QED
    BY <1>0, <1>2, <2>1, MailedSame
<1>4. \A c \in Calls : c < e => call'[c].pc = "answered"
  <2> SUFFICES ASSUME NEW c \in Calls, c < e PROVE call'[c].pc = "answered"
    OBVIOUS
  <2>1. c # e /\ e > 1 /\ (c = e - 1 \/ c < e - 1) /\ call'[c] = call[c]
    BY <1>0, <1>1 DEF Calls
  <2> QED
    BY <1>2, <2>1 DEF Bounded
<1>5. ASSUME NEW a \in Addresses
      PROVE  Cardinality(Mailed(e - 1, a)) + Cardinality(Occurrences(list, a))
             <= Cardinality(Occurrences(call'[1].list, a))
  <2>1. Cardinality(Occurrences(list, a)) \in Nat
    BY <1>1, OccurrencesCounted
  <2>2. CASE e = 1
    <3>1. Mailed(e - 1, a) = {}
      <4>1. \A i \in Items : i[1] \in Calls
        BY DEF Items
      <4>2. \A c \in Calls : ~(c <= e - 1)
        BY <1>0, <2>2 DEF Calls
      <4> QED
        BY <4>1, <4>2 DEF Mailed
    <3>2. Cardinality(Mailed(e - 1, a)) = 0
      BY <3>1, FS_EmptySet
    <3> QED
      BY <1>1, <2>1, <2>2, <3>2
  <2>3. CASE e > 1
    <3> DEFINE d == e - 1
    <3>1. d \in Calls /\ e # 1 /\ call'[1] = call[1]
      BY <1>0, <1>1, <2>3 DEF Calls
    <3>2. /\ Cardinality(Mailed(d - 1, a)) + Cardinality(Occurrences(call[d].list, a))
             <= Cardinality(Occurrences(call[1].list, a))
      BY <2>3 DEF Bounded
    <3>3. call[d].pc = "answered" /\ list = call[d].failed
      BY <1>2, <2>3
    <3> HIDE DEF d
    <3>4. Cardinality(Occurrences(list, a)) = Cardinality(LeftOf(d, a))
      <4>1. Cardinality(Occurrences(call[d].failed, a)) = Cardinality(Unsent(d, a))
        BY <3>1, <3>3 DEF CallInv, Account
      <4>2. Unsent(d, a) = LeftOf(d, a)
        BY <3>1, <3>3, DoneWithAll DEF LeftOf
      <4> QED
        BY <3>3, <4>1, <4>2
    <3>5. /\ Cardinality(TakenOf(d, a)) \in Nat /\ Cardinality(LeftOf(d, a)) \in Nat
          /\ Cardinality(Occurrences(call[d].list, a)) =
             Cardinality(TakenOf(d, a)) + Cardinality(LeftOf(d, a))
          /\ Cardinality(Mailed(d, a)) = Cardinality(Mailed(d - 1, a)) + Cardinality(TakenOf(d, a))
      BY <3>1, MailedUpTo
    <3>6. /\ Cardinality(Mailed(d - 1, a)) \in Nat
          /\ Cardinality(Occurrences(call[1].list, a)) \in Nat
      <4>1. call[1].list \in Seq(Addresses)
        BY <1>0, PlaceIs
      <4> QED
        BY <4>1, MailedCounted, OccurrencesCounted
    <3>7. Cardinality(Mailed(d, a)) + Cardinality(Occurrences(list, a))
          <= Cardinality(Occurrences(call[1].list, a))
      BY <3>2, <3>4, <3>5, <3>6
    <3> QED
      BY <3>1, <3>7 DEF d
  <2> QED
    BY <1>0, <2>2, <2>3 DEF Calls
<1>6. \A a \in Addresses : Cardinality(Mailed(e - 1, a)') = Cardinality(Mailed(e - 1, a))
  BY <1>3
<1> QED
  BY <1>1, <1>4, <1>5, <1>6 DEF Bounded

LEMMA RepeatsStep == CallInv /\ Repeats /\ [Next]_vars => Repeats'
<1> SUFFICES ASSUME CallInv, Repeats, [Next]_vars PROVE Repeats'
  OBVIOUS
<1>0. MaxCalls \in Nat /\ \A c : c \in Calls <=> c \in 1..MaxCalls
  BY CallsAssumption DEF Calls
<1>1. PICK k \in 0..MaxCalls : LastCall(k) /\ (patient /\ k # 0 => Bounded(k))
  BY DEF Repeats
<1>2. CASE ~\E e \in Calls, q \in keys, list \in Lists \cup {call[f].failed : f \in Calls} :
              Authorize(e, q, list)
  <2>1. /\ UNCHANGED patient
        /\ \A c \in Calls : /\ call'[c].list = call[c].list
                            /\ call[c].pc = "none" <=> call'[c].pc = "none"
                            /\ call[c].pc = "answered" => call'[c] = call[c]
    BY <1>2, CallsGoOn
  <2>2. LastCall(k)'
    BY <1>1, <2>1 DEF LastCall
  <2>3. patient' /\ k # 0 => Bounded(k)'
    BY <1>0, <1>1, <2>1, BoundedSame
  <2> QED
    BY <2>2, <2>3 DEF Repeats
<1>3. ASSUME NEW e \in Calls, NEW q \in keys,
             NEW list \in Lists \cup {call[f].failed : f \in Calls}, Authorize(e, q, list)
      PROVE  Repeats'
  <2>1. /\ call'[e].pc = "next" /\ \A f \in Calls : f # e => call'[f] = call[f]
    BY <1>3, ListsAre, AuthorizeIs DEF CallInv
  <2>2. /\ patient' => patient
        /\ call[e].pc = "none" /\ \A n \in 1..(e - 1) : call[n].pc # "none"
    BY <1>3 DEF Authorize
  <2>3. k = e - 1 /\ e \in 0..MaxCalls /\ e # 0
    <3>1. ~(e <= k)
      BY <1>1, <2>2 DEF LastCall
    <3>2. e = 1 \/ e - 1 <= k
      <4>1. e # 1 => e - 1 \in Calls /\ e - 1 \in 1..(e - 1)
        BY <1>0
      <4> QED
        BY <1>1, <2>2, <4>1 DEF LastCall
    <3> QED
      BY <1>0, <3>1, <3>2
  <2>4. LastCall(e)'
    <3> SUFFICES ASSUME NEW c \in Calls PROVE call'[c].pc # "none" <=> c <= e
      BY DEF LastCall
    <3>1. c \in Nat /\ (c <= e <=> c = e \/ c <= k)
      BY <1>0, <2>3
    <3> QED
      BY <1>1, <2>1, <3>1 DEF LastCall
  <2>5. patient' => Bounded(e)'
    <3>1. patient' /\ e > 1 => Bounded(e - 1)
      BY <1>0, <1>1, <2>2, <2>3
    <3> QED
      BY <1>3, <3>1, BoundedNext
  <2> QED
    BY <2>3, <2>4, <2>5 DEF Repeats
<1> QED
  BY <1>2, <1>3

(* A caller that waits for each answer and then repeats exactly what it    *)
(* names mails no address more often, over all its calls, than its first   *)
(* list named it: for any lists, with repetitions or without, and any      *)
(* number of calls (SendEmailAPI).                                         *)
THEOREM PatientCallersBounded == Spec => []PatientMailsBounded
<1>1. Init => Repeats
  <2> SUFFICES ASSUME Init PROVE Repeats
    OBVIOUS
  <2>1. 0 \in 0..MaxCalls /\ \A c \in Calls : ~(c <= 0)
    BY CallsAssumption DEF Calls
  <2>2. \A c \in Calls : call[c].pc = "none"
    BY DEF Init, NoCall
  <2>3. LastCall(0)
    BY <2>1, <2>2 DEF LastCall
  <2> QED
    BY <2>1, <2>3 DEF Repeats
<1>2. CallInv /\ Repeats => PatientMailsBounded
  <2> SUFFICES ASSUME CallInv, Repeats, patient, NEW a \in Addresses
               PROVE  Cardinality(Mailed(MaxCalls, a)) <= Cardinality(Occurrences(call[1].list, a))
    BY DEF PatientMailsBounded
  <2>0. MaxCalls \in Nat /\ 1 \in Calls /\ \A c \in Calls : c \in 1..MaxCalls
    BY CallsAssumption DEF Calls
  <2>1. PICK k \in 0..MaxCalls : LastCall(k) /\ (k # 0 => Bounded(k))
    BY DEF Repeats
  <2>2. Cardinality(Occurrences(call[1].list, a)) \in Nat
    BY <2>0, PlaceIs, OccurrencesCounted
  <2>3. ASSUME NEW i \in Mailed(MaxCalls, a) PROVE i[1] <= k
    <3>1. PICK c \in Calls, n \in 1..MaxList :
             i = <<c, n>> /\ i[1] = c /\ i[2] = n /\ n \in Occurrences(call[c].list, a)
      BY <2>3 DEF Mailed, Items
    <3>2. Account(c)
      BY PlaceIs
    <3>3. call[c].pc # "none"
      <4>1. call[c].pc = "none" => Occurrences(call[c].list, a) = {}
        BY <3>2 DEF Account, NoCall, Occurrences
      <4> QED
        BY <3>1, <4>1
    <3> QED
      BY <2>1, <3>1, <3>3 DEF LastCall
  <2>4. CASE k = 0
    <3>1. Mailed(MaxCalls, a) = {}
      <4>1. ASSUME NEW i \in Mailed(MaxCalls, a) PROVE FALSE
        <5>1. i[1] \in Calls /\ i[1] <= 0
          BY <2>3, <2>4 DEF Mailed, Items
        <5> QED
          BY <2>0, <5>1
      <4> QED
        BY <4>1
    <3> QED
      BY <2>2, <3>1, FS_EmptySet
  <2>5. CASE k # 0
    <3>1. k \in Calls /\ k \in Nat
      BY <2>0, <2>5 DEF Calls
    <3>2. Mailed(MaxCalls, a) = Mailed(k, a)
      <4>1. \A i \in Items : i[1] <= k => i[1] <= MaxCalls
        BY <2>0, <3>1 DEF Items, Calls
      <4> QED
        BY <2>3, <4>1 DEF Mailed
    <3>3. /\ Cardinality(TakenOf(k, a)) \in Nat /\ Cardinality(LeftOf(k, a)) \in Nat
          /\ Cardinality(Occurrences(call[k].list, a)) =
             Cardinality(TakenOf(k, a)) + Cardinality(LeftOf(k, a))
          /\ Cardinality(Mailed(k, a)) = Cardinality(Mailed(k - 1, a)) + Cardinality(TakenOf(k, a))
      BY <3>1, MailedUpTo
    <3>4. Cardinality(Mailed(k - 1, a)) + Cardinality(Occurrences(call[k].list, a))
          <= Cardinality(Occurrences(call[1].list, a))
      BY <2>1, <2>5 DEF Bounded
    <3>5. Cardinality(Mailed(k - 1, a)) \in Nat
      BY MailedCounted
    <3> QED
      BY <2>2, <3>2, <3>3, <3>4, <3>5
  <2> QED
    BY <2>4, <2>5
<1> QED
  BY <1>1, <1>2, CallInit, CallNext, RepeatsStep, PTL DEF Spec

-----------------------------------------------------------------------------
(* What a caller can learn of the place n of the call c, and which places  *)
(* are in hand, in terms of the call's records.                            *)
Turned(c, n) == n < call[c].place \/ (InHand(c) /\ n = call[c].place)

MappingRight ==
  /\ phaseBar = [i \in Items |-> phaseBar[i]] /\ inHandBar \subseteq Items
  /\ \A c \in Calls, n \in 1..MaxList :
        /\ phaseBar[<<c, n>>] = IF logged[<<c, n>>] = "success" THEN "sent"
                                ELSE IF logged[<<c, n>>] = "failed" THEN "notSent"
                                ELSE IF Turned(c, n) THEN "open" ELSE "absent"
        /\ <<c, n>> \in inHandBar <=> InHand(c) /\ n = call[c].place

LEMMA MappingIs == MappingRight
<1>1. phaseBar = [i \in Items |-> Phase(i)] /\ inHandBar \subseteq Items
  BY DEF phaseBar, inHandBar
<1>2. ASSUME NEW c \in Calls, NEW n \in 1..MaxList
      PROVE  /\ phaseBar[<<c, n>>] = IF logged[<<c, n>>] = "success" THEN "sent"
                                     ELSE IF logged[<<c, n>>] = "failed" THEN "notSent"
                                     ELSE IF Turned(c, n) THEN "open" ELSE "absent"
             /\ <<c, n>> \in inHandBar <=> InHand(c) /\ n = call[c].place
  <2>1. <<c, n>> \in Items /\ <<c, n>>[1] = c /\ <<c, n>>[2] = n
        /\ (<<c, n>> = Item(c) <=> n = call[c].place)
    BY DEF Items, Item
  <2>2. phaseBar[<<c, n>>] = Phase(<<c, n>>)
    BY <1>1, <2>1
  <2> QED
    BY <2>1, <2>2 DEF Phase, Turned, inHandBar
<1> QED
  BY <1>1, <1>2 DEF MappingRight

(* The state the mapping gives to the delivery service is as it was, up to *)
(* the item in hand of the call c.                                         *)
LEMMA MappingOf ==
  ASSUME MappingRight, MappingRight', NEW c \in Calls,
         \A d \in Calls : d # c => call'[d] = call[d]
  PROVE  /\ \A d \in Calls, n \in 1..MaxList : d # c =>
               /\ logged'[<<d, n>>] = logged[<<d, n>>] => phaseBar'[<<d, n>>] = phaseBar[<<d, n>>]
               /\ <<d, n>> \in inHandBar' <=> <<d, n>> \in inHandBar
         /\ \A n \in 1..MaxList :
               logged'[<<c, n>>] = logged[<<c, n>>] /\ (Turned(c, n)' <=> Turned(c, n))
               => phaseBar'[<<c, n>>] = phaseBar[<<c, n>>]
<1>1. ASSUME NEW d \in Calls, NEW n \in 1..MaxList, d # c
      PROVE  /\ logged'[<<d, n>>] = logged[<<d, n>>] => phaseBar'[<<d, n>>] = phaseBar[<<d, n>>]
             /\ <<d, n>> \in inHandBar' <=> <<d, n>> \in inHandBar
  <2>1. call'[d] = call[d]
    BY <1>1
  <2>2. (InHand(d)' <=> InHand(d)) /\ (Turned(d, n)' <=> Turned(d, n))
    BY <2>1 DEF InHand, Turned
  <2> QED
    BY <2>1, <2>2 DEF MappingRight
<1>2. ASSUME NEW n \in 1..MaxList, logged'[<<c, n>>] = logged[<<c, n>>],
             Turned(c, n)' <=> Turned(c, n)
      PROVE  phaseBar'[<<c, n>>] = phaseBar[<<c, n>>]
  BY <1>2 DEF MappingRight
<1> QED
  BY <1>1, <1>2

LEMMA MappingSame ==
  ASSUME MappingRight, MappingRight', UNCHANGED <<logged, copies>>,
         \A c \in Calls : /\ InHand(c)' <=> InHand(c)
                          /\ call'[c].place = call[c].place
  PROVE  UNCHANGED Mail!dvars
<1>1. \A c \in Calls, n \in 1..MaxList : Turned(c, n)' <=> Turned(c, n)
  BY DEF Turned
<1>2. ASSUME NEW c \in Calls, NEW n \in 1..MaxList
      PROVE  /\ phaseBar'[<<c, n>>] = phaseBar[<<c, n>>]
             /\ <<c, n>> \in inHandBar' <=> <<c, n>> \in inHandBar
  <2>1. phaseBar'[<<c, n>>] = phaseBar[<<c, n>>]
    BY <1>1 DEF MappingRight
  <2>2. <<c, n>> \in inHandBar' <=> <<c, n>> \in inHandBar
    BY DEF MappingRight
  <2> QED
    BY <2>1, <2>2
<1>3. \A i \in Items : phaseBar'[i] = phaseBar[i] /\ (i \in inHandBar' <=> i \in inHandBar)
  BY <1>2 DEF Items
<1>4. phaseBar' = phaseBar /\ inHandBar' = inHandBar
  BY <1>3 DEF MappingRight
<1> QED
  BY <1>4 DEF Mail!dvars


(* A step of the call c is one of the delivery service, or none of its.    *)
LEMMA AcceptStep ==
  ASSUME CallInv, MappingRight, MappingRight', NEW c \in Calls, NextRecipient(c)
  PROVE  Mail!Accept(<<c, call[c].place>>) /\ <<c, call[c].place>> \in Items
<1>1. PICK pc \in {"log", "bound", "list"} : CallIs(c, pc, FALSE, call[c].place, call[c].failed)
  BY NextIs DEF CallInv
<1>2. PICK p \in 1..MaxList : p = call[c].place
  BY PlaceIs DEF NextRecipient
<1>3. /\ InHand(c)' /\ call'[c].place = p /\ ~InHand(c) /\ UNCHANGED <<logged, copies>>
      /\ \A d \in Calls : d # c => call'[d] = call[d]
  BY <1>1, <1>2 DEF CallIs, InHand, NextRecipient
<1>4. logged[<<c, p>>] = "none" /\ MaxList \in Nat
  BY <1>2, PlaceIs DEF Account
<1>5. ~Turned(c, p) /\ Turned(c, p)'
  BY <1>2, <1>3 DEF Turned
<1>6. phaseBar[<<c, p>>] = "absent" /\ phaseBar'[<<c, p>>] = "open"
  BY <1>3, <1>4, <1>5 DEF MappingRight
<1>7. \A n \in 1..MaxList : n # p => (Turned(c, n)' <=> Turned(c, n))
  BY <1>2, <1>3 DEF Turned
<1>8. ASSUME NEW d \in Calls, NEW n \in 1..MaxList, <<d, n>> # <<c, p>>
      PROVE  /\ phaseBar'[<<d, n>>] = phaseBar[<<d, n>>]
             /\ <<d, n>> \in inHandBar' <=> <<d, n>> \in inHandBar
  <2>1. CASE d # c
    BY <1>3, <2>1, MappingOf
  <2>2. CASE d = c
    <3>1. n # p
      BY <1>8, <2>2
    <3>2. phaseBar'[<<c, n>>] = phaseBar[<<c, n>>]
      BY <1>3, <1>7, <3>1, MappingOf
    <3>3. <<c, n>> \notin inHandBar' /\ <<c, n>> \notin inHandBar
      BY <1>2, <1>3, <3>1 DEF MappingRight
    <3> QED
      BY <2>2, <3>2, <3>3
  <2> QED
    BY <2>1, <2>2
<1>9. <<c, p>> \in Items /\ <<c, p>> \in inHandBar'
  BY <1>2, <1>3 DEF MappingRight, Items
<1>10. \A i \in Items : i # <<c, p>> =>
          phaseBar'[i] = phaseBar[i] /\ (i \in inHandBar' <=> i \in inHandBar)
  BY <1>8 DEF Items
<1>11. phaseBar' = [phaseBar EXCEPT ![<<c, p>>] = "open"]
  BY <1>6, <1>9, <1>10 DEF MappingRight
<1>12. inHandBar' = inHandBar \cup {<<c, p>>}
  BY <1>9, <1>10 DEF MappingRight
<1> QED
  BY <1>2, <1>3, <1>6, <1>9, <1>11, <1>12 DEF Mail!Accept

LEMMA AcknowledgeStep ==
  ASSUME CallInv, MappingRight, MappingRight', NEW c \in Calls,
         call[c].pc \in {"bound", "try"}, Taken(c)
  PROVE  Mail!Acknowledge(<<c, call[c].place>>) /\ <<c, call[c].place>> \in Items
<1>1. CallIs(c, "log", TRUE, call[c].place, call[c].failed) /\ UNCHANGED logged
  BY TakenIs DEF CallInv, Taken
<1>2. PICK p \in 1..MaxList : p = call[c].place
  BY PlaceIs DEF InHand
<1>3. /\ InHand(c) /\ InHand(c)' /\ call'[c].place = p
      /\ \A d \in Calls : d # c => call'[d] = call[d]
  BY <1>1, <1>2 DEF CallIs, InHand
<1>4. <<c, p>> \in Items /\ <<c, p>> \in inHandBar
  BY <1>2, <1>3 DEF MappingRight, Items
<1>5. copies[<<c, p>>] = 0 /\ copies \in [Items -> Nat]
  BY <1>2, PlaceIs DEF Account, CallInv, HistoryOK
<1>6. copies' = [copies EXCEPT ![<<c, p>>] = 1]
  <2>1. copies' = [copies EXCEPT ![<<c, p>>] = copies[<<c, p>>] + 1]
    BY <1>2 DEF Taken, Item
  <2> QED
    BY <1>5, <2>1
<1>7. \A n \in 1..MaxList : Turned(c, n)' <=> Turned(c, n)
  BY <1>2, <1>3 DEF Turned
<1>8. ASSUME NEW d \in Calls, NEW n \in 1..MaxList
      PROVE  /\ phaseBar'[<<d, n>>] = phaseBar[<<d, n>>]
             /\ <<d, n>> \in inHandBar' <=> <<d, n>> \in inHandBar
  <2>1. CASE d # c
    BY <1>1, <1>3, <2>1, MappingOf
  <2>2. CASE d = c
    <3>1. phaseBar'[<<c, n>>] = phaseBar[<<c, n>>]
      BY <1>1, <1>3, <1>7, MappingOf
    <3>2. <<c, n>> \in inHandBar' <=> <<c, n>> \in inHandBar
      BY <1>2, <1>3 DEF MappingRight
    <3> QED
      BY <2>2, <3>1, <3>2
  <2> QED
    BY <2>1, <2>2
<1>9. \A i \in Items : phaseBar'[i] = phaseBar[i] /\ (i \in inHandBar' <=> i \in inHandBar)
  BY <1>8 DEF Items
<1>10. phaseBar' = phaseBar /\ inHandBar' = inHandBar
  BY <1>9 DEF MappingRight
<1> QED
  BY <1>2, <1>4, <1>5, <1>6, <1>10 DEF Mail!Acknowledge


LEMMA ReportStep ==
  ASSUME CallInv, MappingRight, MappingRight', NEW c \in Calls, WriteAPILog(c)
  PROVE  Mail!DeliveryNext
<1>2. PICK p \in 1..MaxList : p = call[c].place
  BY PlaceIs DEF InHand, WriteAPILog
<1>1. CallIs(c, "next", call[c].ok, p + 1, Named(call[c])) /\ UNCHANGED copies
  <2>1. CallsOK /\ call[c].place \in DOMAIN call[c].list
    BY PlaceIs DEF CallInv, InHand, WriteAPILog
  <2> QED
    BY <1>2, <2>1, LogIs DEF WriteAPILog
<1>3. /\ InHand(c) /\ ~InHand(c)' /\ call'[c].place = p + 1 /\ call[c].pc = "log"
      /\ \A d \in Calls : d # c => call'[d] = call[d]
  BY <1>1 DEF CallIs, InHand, WriteAPILog
<1>4. /\ logged[<<c, p>>] = "none" /\ copies[<<c, p>>] = IF call[c].ok THEN 1 ELSE 0
      /\ MaxList \in Nat
  BY <1>2, <1>3, PlaceIs DEF Account
<1>5. <<c, p>> \in Items /\ <<c, p>> \in inHandBar /\ <<c, p>> \notin inHandBar'
  <2>1. p # p + 1
    BY <1>4
  <2> QED
    BY <1>2, <1>3, <2>1 DEF MappingRight, Items
<1>6. \A n \in 1..MaxList : Turned(c, n)' <=> Turned(c, n)
  BY <1>2, <1>3, <1>4 DEF Turned
<1>7. Turned(c, p) /\ Turned(c, p)'
  BY <1>2, <1>3, <1>4 DEF Turned
<1>8. ASSUME NEW d \in Calls, NEW n \in 1..MaxList, <<d, n>> # <<c, p>>
      PROVE  <<d, n>> \in inHandBar' <=> <<d, n>> \in inHandBar
  <2>1. CASE d # c
    BY <1>3, <2>1, MappingOf
  <2>2. CASE d = c
    <3>1. n # p
      BY <1>8, <2>2
    <3> QED
      BY <1>2, <1>3, <2>2, <3>1 DEF MappingRight
  <2> QED
    BY <2>1, <2>2
<1>9. \A i \in Items : i # <<c, p>> => (i \in inHandBar' <=> i \in inHandBar)
  BY <1>8 DEF Items
<1>10. inHandBar' = inHandBar \ {<<c, p>>}
  BY <1>5, <1>9 DEF MappingRight
<1>11. \A d \in Calls, n \in 1..MaxList :
          logged'[<<d, n>>] = logged[<<d, n>>] => phaseBar'[<<d, n>>] = phaseBar[<<d, n>>]
  <2> SUFFICES ASSUME NEW d \in Calls, NEW n \in 1..MaxList, logged'[<<d, n>>] = logged[<<d, n>>]
               PROVE  phaseBar'[<<d, n>>] = phaseBar[<<d, n>>]
    OBVIOUS
  <2>1. CASE d # c
    BY <1>3, <2>1, MappingOf
  <2>2. CASE d = c
    BY <1>3, <1>6, <2>2, MappingOf
  <2> QED
    BY <2>1, <2>2
<1>12. CASE UNCHANGED logged
  <2>1. \A i \in Items : phaseBar'[i] = phaseBar[i]
    BY <1>11, <1>12 DEF Items
  <2>2. phaseBar' = phaseBar
    BY <2>1 DEF MappingRight
  <2>3. Mail!Abandon
    BY <1>1, <1>10, <2>2 DEF Mail!Abandon
  <2> QED
    BY <2>3 DEF Mail!DeliveryNext
<1>13. CASE logged' = [logged EXCEPT ![Item(c)] = IF call[c].ok THEN "success" ELSE "failed"]
  <2>1. Item(c) = <<c, p>> /\ logged \in [Items -> {"none", "success", "failed"}]
    BY <1>2 DEF Item, CallInv, HistoryOK
  <2>2. \A i \in Items : i # <<c, p>> => logged'[i] = logged[i]
    BY <1>13, <2>1
  <2>3. \A i \in Items : i # <<c, p>> => phaseBar'[i] = phaseBar[i]
    BY <1>11, <2>2 DEF Items
  <2>4. logged'[<<c, p>>] = IF call[c].ok THEN "success" ELSE "failed"
    BY <1>5, <1>13, <2>1
  <2>5. phaseBar'[<<c, p>>] = IF copies[<<c, p>>] = 1 THEN "sent" ELSE "notSent"
    BY <1>2, <1>4, <2>4 DEF MappingRight
  <2>6. phaseBar[<<c, p>>] = "open"
    BY <1>2, <1>4, <1>7 DEF MappingRight
  <2>7. phaseBar' = [phaseBar EXCEPT ![<<c, p>>] =
                       IF copies[<<c, p>>] = 1 THEN "sent" ELSE "notSent"]
    BY <1>5, <2>3, <2>5 DEF MappingRight
  <2>8. Mail!Report(<<c, p>>)
    BY <1>1, <1>5, <1>10, <2>6, <2>7 DEF Mail!Report
  <2> QED
    BY <1>5, <2>8 DEF Mail!DeliveryNext
<1> QED
  BY <1>12, <1>13 DEF WriteAPILog

LEMMA AbandonStep ==
  ASSUME CallInv, MappingRight, MappingRight', Restart
  PROVE  Mail!Abandon
<1>1. UNCHANGED <<logged, copies>>
  BY DEF Restart
<1>2. ASSUME NEW c \in Calls
      PROVE  /\ ~InHand(c)'
             /\ call'[c].place = IF InHand(c) THEN call[c].place + 1 ELSE call[c].place
  BY RestartIs DEF CallInv, InHand
<1>3. ASSUME NEW c \in Calls, NEW n \in 1..MaxList
      PROVE  /\ phaseBar'[<<c, n>>] = phaseBar[<<c, n>>]
             /\ <<c, n>> \notin inHandBar'
  <2>1. Turned(c, n)' <=> Turned(c, n)
    <3>1. call[c].place \in Nat /\ MaxList \in Nat
      BY PlaceIs
    <3> QED
      BY <1>2, <3>1 DEF Turned
  <2>2. phaseBar'[<<c, n>>] = phaseBar[<<c, n>>]
    BY <1>1, <2>1 DEF MappingRight
  <2> QED
    BY <1>2, <2>2 DEF MappingRight
<1>4. \A i \in Items : phaseBar'[i] = phaseBar[i] /\ i \notin inHandBar'
  BY <1>3 DEF Items
<1>5. phaseBar' = phaseBar /\ inHandBar' = {}
  BY <1>4 DEF MappingRight
<1> QED
  BY <1>1, <1>5 DEF Mail!Abandon

LEMMA DeliveryStep ==
  ASSUME CallInv, MappingRight, MappingRight', [Next]_vars
  PROVE  [Mail!DeliveryNext]_(Mail!dvars)
<1> DEFINE Served == [Mail!DeliveryNext]_(Mail!dvars)
<1>0. ASSUME NEW c \in Calls
      PROVE  /\ InHand(c) \/ call[c].pc \notin {"bound", "list", "try", "log"}
             /\ CallsOK /\ KeysOK
  BY DEF InHand, CallInv
<1>1. ASSUME NEW c \in Calls, NEW pc, NEW ok, NEW failed,
             CallIs(c, pc, ok, call[c].place, failed),
             UNCHANGED <<logged, copies>>,
             InHand(c) <=> pc \in {"bound", "list", "try", "log"}
      PROVE  Served
  <2>1. ASSUME NEW d \in Calls
        PROVE  (InHand(d)' <=> InHand(d)) /\ call'[d].place = call[d].place
    BY <1>1 DEF CallIs, InHand
  <2> QED
    BY <1>1, <2>1, MappingSame
<1>2. ASSUME NEW c \in Calls, SendEmailAPI(c) PROVE Served
  <2>1. CASE NextRecipient(c)
    BY <2>1, AcceptStep DEF Mail!DeliveryNext
  <2>2. CASE BoundSendOk(c) \/ TryOk(c)
    BY <2>2, AcknowledgeStep DEF BoundSendOk, TryOk, Mail!DeliveryNext
  <2>3. CASE BoundSendError(c)
    <3>1. CallIs(c, "list", call[c].ok, call[c].place, call[c].failed)
      BY <1>0, <2>3, GotoIs DEF BoundSendError, Places
    <3>2. InHand(c) /\ UNCHANGED <<logged, copies>>
      BY <2>3 DEF BoundSendError, InHand
    <3> QED
      BY <1>1, <3>1, <3>2
  <2>4. CASE ListChannels(c) \/ TryError(c)
    <3>1. PICK pc \in {"log", "try"} : CallIs(c, pc, call[c].ok, call[c].place, call[c].failed)
      BY <1>0, <2>4, TryIs
    <3>2. InHand(c) /\ UNCHANGED <<logged, copies>>
      BY <2>4 DEF ListChannels, TryError, InHand
    <3> QED
      BY <1>1, <3>1, <3>2
  <2>5. CASE WriteAPILog(c)
    BY <2>5, ReportStep
  <2>6. CASE Answer(c)
    <3>1. PICK pc \in {"answered", "unheard"} :
             CallIs(c, pc, call[c].ok, call[c].place, call[c].failed)
      BY <1>0, <2>6, GotoIs DEF Answer, Places
    <3>2. ~InHand(c) /\ UNCHANGED <<logged, copies>>
      BY <2>6 DEF Answer, InHand
    <3> QED
      BY <1>1, <3>1, <3>2
  <2> QED
    BY <1>2, <2>1, <2>2, <2>3, <2>4, <2>5, <2>6 DEF SendEmailAPI
<1>3. CASE UNCHANGED <<call, logged, copies>>
  <2>1. \A d \in Calls : (InHand(d)' <=> InHand(d)) /\ call'[d].place = call[d].place
    BY <1>3 DEF InHand
  <2> QED
    BY <1>3, <2>1, MappingSame
<1>4. ASSUME NEW c \in Calls, Caller(c) PROVE Served
  <2>1. CASE GiveUp(c)
    BY <1>3, <2>1 DEF GiveUp
  <2>2. ASSUME NEW k \in keys,
               NEW list \in (Lists \cup {call[d].failed : d \in Calls}) \ {<<>>},
               Authorize(c, k, list)
        PROVE  Served
    <3>1. list \in Seq(Addresses)
      BY <1>0, CallFields, ListsAssumption
    <3>2. /\ call'[c].pc = "next" /\ call'[c].place = 1
          /\ \A d \in Calls : d # c => call'[d] = call[d]
      BY <1>0, <2>2, <3>1, AuthorizeIs
    <3>3. call[c].pc = "none" /\ call[c].place = 1 /\ UNCHANGED <<logged, copies>>
      <4>1. call[c].pc = "none" /\ UNCHANGED <<logged, copies>>
        BY <2>2 DEF Authorize
      <4>2. call[c] = NoCall
        BY <4>1, PlaceIs DEF Account
      <4> QED
        BY <4>1, <4>2 DEF NoCall
    <3>4. ASSUME NEW d \in Calls
          PROVE  (InHand(d)' <=> InHand(d)) /\ call'[d].place = call[d].place
      BY <3>2, <3>3 DEF InHand
    <3> QED
      BY <3>3, <3>4, MappingSame
  <2> QED
    BY <1>4, <2>1, <2>2 DEF Caller
<1>5. Served
  BY <1>2, <1>3, <1>4, StepsSplit, AbandonStep DEF api, Mail!DeliveryNext
<1> QED
  BY <1>5

(* The API implements the delivery service, for any number of calls,       *)
(* recipients and channels: a call mails each place of its list at most    *)
(* once, the row of api_logs tells the outcome of that mail, and neither a *)
(* failed INSERT nor a restart has a place taken in hand again.            *)
THEOREM APIImplementsDelivery == Spec => ImplementsDelivery
<1>1. Init => Mail!DeliveryInit
  <2> SUFFICES ASSUME Init PROVE Mail!DeliveryInit
    OBVIOUS
  <2>1. ASSUME NEW c \in Calls, NEW n \in 1..MaxList
        PROVE  phaseBar[<<c, n>>] = "absent" /\ <<c, n>> \notin inHandBar
    <3>1. call[c].place = 1 /\ ~InHand(c) /\ MaxList \in Nat
      BY ListsAssumption DEF Init, NoCall, InHand
    <3>2. ~Turned(c, n)
      BY <3>1 DEF Turned
    <3>3. logged[<<c, n>>] = "none"
      BY DEF Init, Items
    <3> QED
      BY <3>1, <3>2, <3>3, MappingIs DEF MappingRight
  <2>2. \A i \in Items : phaseBar[i] = "absent" /\ i \notin inHandBar
    BY <2>1 DEF Items
  <2>3. phaseBar = [i \in Items |-> "absent"] /\ inHandBar = {}
    BY <2>2, MappingIs DEF MappingRight
  <2> QED
    BY <2>3 DEF Init, Mail!DeliveryInit
<1> QED
  BY <1>1, CallInit, CallNext, MappingIs, DeliveryStep, PTL
     DEF Spec, ImplementsDelivery, Mail!DeliverySpec
=============================================================================
