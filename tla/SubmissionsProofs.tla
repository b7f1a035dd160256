------------------------- MODULE SubmissionsProofs -------------------------
(***************************************************************************)
(* Theorems about Submissions for any number of handlers, forms, visitors, *)
(* channels and submissions.                                               *)
(***************************************************************************)
EXTENDS Submissions, TLAPS

USE SetsAssumption, BoundsAssumption DEF Channels, Rows, Kinds, Unbound, NoRow

Places == {"idle", "check", "insert", "choose", "bound", "list", "try", "record"}

-----------------------------------------------------------------------------
(* What an action does to the locals of its handler, field by field; the   *)
(* proofs below read the locals through these lemmas.                      *)
Locals    == req \in [Requests -> RequestType]
Others(r) == Locals' /\ \A s \in Requests : s # r => req'[s] = req[s]
Kept(r)   ==
  /\ req'[r].form = req[r].form /\ req'[r].by = req[r].by
  /\ req'[r].to = req[r].to /\ req'[r].bound = req[r].bound

LEMMA IdleFields ==
  /\ Idle \in RequestType
  /\ Idle.pc = "idle" /\ Idle.row = NoRow /\ Idle.kind = "main" /\ Idle.sent = FALSE
  /\ Idle.form \in Forms /\ Idle.by \in Visitors
  BY DEF Idle, RequestType

LEMMA ReturnFields ==
  ASSUME Locals, NEW r \in Requests, Return(r)
  PROVE  Others(r) /\ req'[r] = Idle
  BY IdleFields DEF Locals, Others, Return

LEMMA GotoFields ==
  ASSUME Locals, NEW r \in Requests, NEW place \in Places, Goto(r, place)
  PROVE  /\ Others(r) /\ Kept(r)
         /\ req'[r].pc = place /\ req'[r].row = req[r].row /\ req'[r].kind = req[r].kind
         /\ req'[r].todo = req[r].todo /\ req'[r].sent = req[r].sent
<1> DEFINE q == [req[r] EXCEPT !.pc = place]
<1>1. req[r] \in RequestType
  BY DEF Locals
<1>2. q \in RequestType
  BY <1>1 DEF RequestType, Places
<1>3. req' = [req EXCEPT ![r] = q]
  BY DEF Goto
<1>4. /\ q.pc = place /\ q.row = req[r].row /\ q.kind = req[r].kind
      /\ q.todo = req[r].todo /\ q.sent = req[r].sent
      /\ q.form = req[r].form /\ q.by = req[r].by /\ q.to = req[r].to /\ q.bound = req[r].bound
  BY <1>1 DEF RequestType
<1> HIDE DEF q
<1>5. Others(r) /\ req'[r] = q
  BY <1>2, <1>3 DEF Locals, Others
<1> QED
  BY <1>4, <1>5 DEF Kept

LEMMA SubmitFields ==
  ASSUME Locals, NEW r \in Requests, NEW f \in Forms, NEW v \in Visitors,
         address[f] \in Addresses, bound[f] \in Channels \cup {Unbound}, SubmitForm(r, f, v)
  PROVE  /\ Others(r)
         /\ req'[r].pc = "check" /\ req'[r].form = f /\ req'[r].by = v
         /\ req'[r].to = address[f] /\ req'[r].bound = bound[f]
         /\ req'[r].row = NoRow /\ req'[r].kind = "main" /\ req'[r].sent = FALSE
<1> DEFINE q == [Idle EXCEPT !.pc = "check", !.form = f, !.by = v,
                             !.to = address[f], !.bound = bound[f]]
<1>1. q \in RequestType
  BY IdleFields DEF RequestType
<1>2. /\ q.pc = "check" /\ q.form = f /\ q.by = v /\ q.to = address[f] /\ q.bound = bound[f]
      /\ q.row = NoRow /\ q.kind = "main" /\ q.sent = FALSE
  BY DEF Idle
<1>3. req' = [req EXCEPT ![r] = q]
  BY DEF SubmitForm
<1> HIDE DEF q
<1> QED
  BY <1>1, <1>2, <1>3 DEF Locals, Others

LEMMA InsertFields ==
  ASSUME Locals, NEW r \in Requests, NEW isSpam \in BOOLEAN, lastRow + 1 \in Rows,
         Insert(r, isSpam)
  PROVE  /\ Others(r) /\ Kept(r)
         /\ req'[r].pc = (IF isSpam THEN "record" ELSE "choose")
         /\ req'[r].row = lastRow + 1
         /\ req'[r].kind = req[r].kind /\ req'[r].sent = req[r].sent
<1> DEFINE q == [req[r] EXCEPT !.row = lastRow + 1,
                               !.pc = IF isSpam THEN "record" ELSE "choose"]
<1>1. req[r] \in RequestType
  BY DEF Locals
<1>2. q \in RequestType
  BY <1>1 DEF RequestType
<1>3. /\ q.pc = (IF isSpam THEN "record" ELSE "choose") /\ q.row = lastRow + 1
      /\ q.kind = req[r].kind /\ q.sent = req[r].sent
      /\ q.form = req[r].form /\ q.by = req[r].by /\ q.to = req[r].to /\ q.bound = req[r].bound
  BY <1>1 DEF RequestType
<1>4. req' = [req EXCEPT ![r] = q]
  BY DEF Insert, Locals
<1> HIDE DEF q
<1> QED
  BY <1>2, <1>3, <1>4 DEF Locals, Others, Kept

LEMMA MailOverFields ==
  ASSUME Locals, NEW r \in Requests, NEW success \in BOOLEAN, MailOver(r, success)
  PROVE  /\ Others(r) /\ Kept(r)
         /\ req'[r].kind = "reply" /\ req'[r].row = req[r].row
         /\ req'[r].pc \in {"choose", "record"}
         /\ req[r].kind = "main"  => req'[r].sent = success
         /\ req[r].kind = "reply" => req'[r].sent = req[r].sent /\ req'[r].pc = "record"
<1> DEFINE next == IF req[r].form \in ReplyForms /\ req[r].by \in Writers
                   THEN "choose" ELSE "record"
           q == [req[r] EXCEPT !.sent = success, !.kind = "reply", !.todo = {}, !.pc = next]
           p == [req[r] EXCEPT !.pc = "record", !.todo = {}]
<1>1. req[r] \in RequestType /\ next \in {"choose", "record"}
  BY DEF Locals
<1>2. CASE req[r].kind = "main"
  <2>1. req' = [req EXCEPT ![r] = q]
    BY <1>2 DEF MailOver
  <2> HIDE DEF next
  <2>2. q \in RequestType
    BY <1>1 DEF RequestType
  <2>3. /\ q.pc = next /\ q.row = req[r].row /\ q.kind = "reply" /\ q.sent = success
        /\ q.form = req[r].form /\ q.by = req[r].by /\ q.to = req[r].to
        /\ q.bound = req[r].bound
    BY <1>1 DEF RequestType
  <2> HIDE DEF q
  <2> QED
    BY <1>1, <1>2, <2>1, <2>2, <2>3 DEF Locals, Others, Kept
<1>3. CASE req[r].kind = "reply"
  <2>1. req' = [req EXCEPT ![r] = p]
    BY <1>3 DEF MailOver
  <2>2. p \in RequestType
    BY <1>1 DEF RequestType
  <2>3. /\ p.pc = "record" /\ p.row = req[r].row /\ p.kind = "reply" /\ p.sent = req[r].sent
        /\ p.form = req[r].form /\ p.by = req[r].by /\ p.to = req[r].to
        /\ p.bound = req[r].bound
    BY <1>1, <1>3 DEF RequestType
  <2> HIDE DEF p
  <2> QED
    BY <1>3, <2>1, <2>2, <2>3 DEF Locals, Others, Kept
<1> QED
  BY <1>1, <1>2, <1>3 DEF RequestType

LEMMA TodoFields ==
  ASSUME Locals, NEW r \in Requests, NEW S \in SUBSET Channels,
         \/ req' = [req EXCEPT ![r].pc = "try", ![r].todo = S]
         \/ req[r].pc = "try" /\ req' = [req EXCEPT ![r].todo = S]
  PROVE  /\ Others(r) /\ Kept(r)
         /\ req'[r].pc = "try" /\ req'[r].todo = S
         /\ req'[r].row = req[r].row /\ req'[r].kind = req[r].kind
         /\ req'[r].sent = req[r].sent
<1> DEFINE q == [req[r] EXCEPT !.pc = "try", !.todo = S]
           p == [req[r] EXCEPT !.todo = S]
<1>1. req[r] \in RequestType
  BY DEF Locals
<1>2. CASE req' = [req EXCEPT ![r].pc = "try", ![r].todo = S]
  <2>1. req' = [req EXCEPT ![r] = q]
    BY <1>2 DEF Locals
  <2>2. q \in RequestType
    BY <1>1 DEF RequestType
  <2>3. /\ q.pc = "try" /\ q.row = req[r].row /\ q.kind = req[r].kind /\ q.sent = req[r].sent
        /\ q.form = req[r].form /\ q.by = req[r].by /\ q.to = req[r].to
        /\ q.bound = req[r].bound /\ q.todo = S
    BY <1>1 DEF RequestType
  <2> HIDE DEF q
  <2> QED
    BY <2>1, <2>2, <2>3 DEF Locals, Others, Kept
<1>3. CASE req[r].pc = "try" /\ req' = [req EXCEPT ![r].todo = S]
  <2>1. req' = [req EXCEPT ![r] = p]
    BY <1>3 DEF Locals
  <2>2. p \in RequestType
    BY <1>1 DEF RequestType
  <2>3. /\ p.pc = "try" /\ p.row = req[r].row /\ p.kind = req[r].kind /\ p.sent = req[r].sent
        /\ p.form = req[r].form /\ p.by = req[r].by /\ p.to = req[r].to
        /\ p.bound = req[r].bound /\ p.todo = S
    BY <1>1, <1>3 DEF RequestType
  <2> HIDE DEF p
  <2> QED
    BY <2>1, <2>2, <2>3 DEF Locals, Others, Kept
<1> QED
  BY <1>2, <1>3

LEMMA Fields ==
  ASSUME Locals, NEW r \in Requests
  PROVE  /\ req[r].pc \in Places /\ req[r].form \in Forms /\ req[r].by \in Visitors
         /\ req[r].to \in Addresses /\ req[r].bound \in Channels \cup {Unbound}
         /\ req[r].row \in Rows \cup {NoRow} /\ req[r].kind \in Kinds
         /\ req[r].todo \in SUBSET Channels /\ req[r].sent \in BOOLEAN
<1>1. req[r] \in RequestType
  BY DEF Locals
<1> QED
  BY <1>1 DEF RequestType, Places

(* One more channel took a mail.                                           *)
LEMMA TookOneMore ==
  ASSUME took \in [Rows \X Kinds -> Seq(Channels)], NEW i \in Rows, NEW k \in Kinds,
         NEW c \in Channels, took' = [took EXCEPT ![<<i, k>>] = Append(@, c)]
  PROVE  /\ took' \in [Rows \X Kinds -> Seq(Channels)]
         /\ took'[<<i, k>>] = Append(took[<<i, k>>], c)
         /\ \A j \in Rows, l \in Kinds : <<j, l>> # <<i, k>> => took'[<<j, l>>] = took[<<j, l>>]
<1> DEFINE m == <<i, k>>
<1>1. m \in Rows \X Kinds
  OBVIOUS
<1>2. \A j \in Rows, l \in Kinds : <<j, l>> \in Rows \X Kinds
  OBVIOUS
<1>3. took' = [took EXCEPT ![m] = Append(took[m], c)]
  OBVIOUS
<1> HIDE DEF m
<1>4. took[m] \in Seq(Channels)
  BY <1>1
<1>5. Append(took[m], c) \in Seq(Channels)
  BY <1>4
<1>6. took' \in [Rows \X Kinds -> Seq(Channels)] /\ took'[m] = Append(took[m], c)
  BY <1>1, <1>3, <1>5
<1>7. \A n \in Rows \X Kinds : n # m => took'[n] = took[n]
  BY <1>1, <1>3
<1> QED
  BY <1>2, <1>6, <1>7 DEF m

-----------------------------------------------------------------------------
(* The type invariant in parts, each of which some actions change.         *)
LocalsOK ==
  /\ Locals
  /\ \A r \in Requests :
        /\ req[r].pc \notin {"idle", "check", "insert"} => req[r].row \in 1..lastRow
        /\ req[r].pc = "bound" => req[r].bound \in Channels
FormsOK ==
  /\ address \in [Forms -> Addresses] /\ bound \in [Forms -> Channels \cup {Unbound}]
  /\ verified \subseteq Forms /\ enabled \subseteq Channels
  /\ link \in [Forms -> Addresses] /\ updating \subseteq EditType
  /\ confirmed \subseteq Forms \X Addresses /\ overwritten \subseteq Forms \X Addresses
  /\ edits \in 0..MaxEdits
RowsOK ==
  /\ lastRow \in Rows \cup {NoRow}
  /\ stored \subseteq 1..lastRow /\ formOf \in [Rows -> Forms] /\ from \in [Rows -> Visitors]
  /\ spam \subseteq 1..lastRow /\ sent \subseteq stored /\ error \subseteq stored
  /\ lost \subseteq Rows \cup {NoRow}
SendsOK ==
  /\ logs \subseteq Rows \X Channels \X BOOLEAN
  /\ took \in [Rows \X Kinds -> Seq(Channels)]
  /\ refused \subseteq Rows \X Channels
  /\ faults \in 0..MaxFaults
NotesOK == bounced \subseteq noted /\ noted \subseteq Forms \X Visitors
HooksOK ==
  /\ client \in [Requests -> Visitors]
  /\ hooks \subseteq Rows \X Requests /\ told \subseteq Rows \X Visitors

LEMMA TypeParts ==
  TypeOK <=> LocalsOK /\ FormsOK /\ RowsOK /\ SendsOK /\ NotesOK /\ HooksOK
  BY DEF TypeOK, LocalsOK, Locals, FormsOK, RowsOK, SendsOK, NotesOK, HooksOK

LEMMA TypePartsNext ==
  LocalsOK' /\ FormsOK' /\ RowsOK' /\ SendsOK' /\ NotesOK' /\ HooksOK' => TypeOK'
  BY DEF TypeOK, LocalsOK, Locals, FormsOK, RowsOK, SendsOK, NotesOK, HooksOK

(* A part whose variables do not change stays true.                        *)
LEMMA FormsKept == FormsOK /\ UNCHANGED formCols => FormsOK'
  BY DEF FormsOK, formCols, formVals, EditType
LEMMA RowsKept == RowsOK /\ UNCHANGED rowCols => RowsOK'
  BY DEF RowsOK, rowCols
LEMMA SendsKept == SendsOK /\ UNCHANGED <<sends, faults>> => SendsOK'
  BY DEF SendsOK, sends
LEMMA NotesKept == NotesOK /\ UNCHANGED dedup => NotesOK'
  BY DEF NotesOK, dedup
LEMMA HooksKept == HooksOK /\ UNCHANGED webhooks => HooksOK'
  BY DEF HooksOK, webhooks
LEMMA LocalsKept == LocalsOK /\ UNCHANGED <<req, lastRow>> => LocalsOK'
  BY DEF LocalsOK, Locals

LEMMA Logged ==
  ASSUME SendsOK, NEW i \in Rows, NEW c \in Channels, NEW success \in BOOLEAN,
         Log(i, c, success)
  PROVE  logs' \subseteq Rows \X Channels \X BOOLEAN /\ faults' \in 0..MaxFaults
  BY DEF SendsOK, Log, Faulty

(* A send that a server took, and one that failed.                         *)
LEMMA SendsTook ==
  ASSUME LocalsOK, RowsOK, SendsOK, NEW r \in Requests, NEW c \in Channels,
         req[r].row \in Rows, Acknowledge(r, c),
         Log(req[r].row, c, TRUE) \/ UNCHANGED <<logs, faults>>
  PROVE  SendsOK'
<1>1. req[r].kind \in Kinds
  BY Fields DEF LocalsOK
<1>2. took' \in [Rows \X Kinds -> Seq(Channels)] /\ refused' = refused
  BY <1>1, TookOneMore DEF Acknowledge, SendsOK
<1> QED
  BY <1>2, Logged DEF SendsOK

LEMMA SendsFailed ==
  ASSUME SendsOK, NEW r \in Requests, NEW c \in Channels,
         req[r].row \in Rows, Fail(r, c),
         Log(req[r].row, c, FALSE) \/ UNCHANGED <<logs, faults>>
  PROVE  SendsOK'
<1>1. took' = took /\ refused' \subseteq Rows \X Channels
  BY DEF Fail, SendsOK
<1> QED
  BY <1>1, Logged DEF SendsOK

(* The edits: an UpdateForm keeps its number, its UPDATE leaves the types. *)
LEMMA EditsGrow ==
  ASSUME FormsOK, edits < MaxEdits, edits' = edits + 1
  PROVE  /\ edits' \in 0..MaxEdits /\ updating \subseteq EditType'
         /\ \A f \in Forms, a \in Addresses, b \in Channels \cup {Unbound} :
               [form |-> f, seen |-> address[f], to |-> a, bound |-> b, n |-> edits'] \in EditType'
<1>1. edits \in Nat /\ edits' \in Nat /\ edits' >= 1 /\ edits' <= MaxEdits
  BY BoundsAssumption DEF FormsOK
<1>2. 1..edits \subseteq 1..edits' /\ edits' \in 1..edits'
  BY <1>1
<1>3. edits' \in 0..MaxEdits
  BY <1>1, BoundsAssumption
<1> QED
  BY <1>2, <1>3 DEF FormsOK, EditType

LEMMA UpdateKept ==
  ASSUME FormsOK, NEW e \in updating, UpdateForm(e)
  PROVE  FormsOK'
<1>1. e \in EditType
  BY DEF FormsOK
<1>2. e.form \in Forms /\ e.to \in Addresses /\ e.bound \in Channels \cup {Unbound}
  BY <1>1 DEF EditType
<1>3. updating' \subseteq EditType' /\ edits' \in 0..MaxEdits
  BY DEF UpdateForm, FormsOK, EditType
<1>4. /\ address' \in [Forms -> Addresses] /\ bound' \in [Forms -> Channels \cup {Unbound}]
      /\ link' \in [Forms -> Addresses]
  BY <1>2 DEF UpdateForm, FormsOK
<1>5. /\ verified' \subseteq Forms /\ enabled' \subseteq Channels
      /\ confirmed' \subseteq Forms \X Addresses /\ overwritten' \subseteq Forms \X Addresses
  BY <1>2 DEF UpdateForm, FormsOK
<1> QED
  BY <1>3, <1>4, <1>5 DEF FormsOK

(* Every variable keeps its type, whatever the handlers and the owner do.  *)
LEMMA TypeStep == TypeOK /\ [Next]_vars => TypeOK'
<1> SUFFICES ASSUME TypeOK, [Next]_vars
             PROVE  TypeOK'
  OBVIOUS
<1>0. LocalsOK /\ FormsOK /\ RowsOK /\ SendsOK /\ NotesOK /\ HooksOK /\ Locals
  BY TypeParts DEF LocalsOK
<1>k. /\ UNCHANGED formCols => FormsOK'
      /\ UNCHANGED rowCols => RowsOK'
      /\ UNCHANGED <<sends, faults>> => SendsOK'
      /\ UNCHANGED dedup => NotesOK'
      /\ UNCHANGED webhooks => HooksOK'
      /\ UNCHANGED <<req, lastRow>> => LocalsOK'
  BY <1>0, FormsKept, RowsKept, SendsKept, NotesKept, HooksKept, LocalsKept
<1>r. \A r \in Requests : req[r].pc \notin {"idle", "check", "insert"} => req[r].row \in Rows
  BY <1>0 DEF LocalsOK, RowsOK
<1> USE <1>0, <1>k, TypePartsNext
<1>1. ASSUME NEW r \in Requests, NEW f \in Forms, NEW v \in Visitors, SubmitForm(r, f, v)
      PROVE  TypeOK'
  <2>a. address[f] \in Addresses /\ bound[f] \in Channels \cup {Unbound}
    BY DEF FormsOK
  <2>b. Others(r) /\ req'[r].pc = "check"
    BY <1>1, <2>a, SubmitFields
  <2>1. LocalsOK'
    BY <1>1, <2>b DEF SubmitForm, rowCols, LocalsOK, Others
  <2>2. HooksOK'
    BY <1>1 DEF SubmitForm, HooksOK
  <2> QED
    BY <1>1, <2>1, <2>2 DEF SubmitForm
<1>2. ASSUME NEW r \in Requests, RefuseEarly(r) \/ Refuse(r) PROVE TypeOK'
  <2>1. LocalsOK'
    BY <1>2, ReturnFields, IdleFields DEF RefuseEarly, Refuse, rowCols, LocalsOK, Others
  <2>2. NotesOK'
    BY <1>2 DEF RefuseEarly, Refuse, dedup, NotesOK
  <2> QED
    BY <1>2, <2>1, <2>2 DEF RefuseEarly, Refuse
<1>3. ASSUME NEW r \in Requests, CheckDuplicateSubmit(r) PROVE TypeOK'
  <2>1. LocalsOK'
    BY <1>3, GotoFields DEF CheckDuplicateSubmit, rowCols, LocalsOK, Others, Places
  <2>2. NotesOK'
    BY <1>3, Fields DEF CheckDuplicateSubmit, NotesOK
  <2> QED
    BY <1>3, <2>1, <2>2 DEF CheckDuplicateSubmit
<1>5. ASSUME NEW r \in Requests, NEW isSpam \in BOOLEAN, Insert(r, isSpam) PROVE TypeOK'
  <2>1. lastRow + 1 \in Rows
    BY <1>5 DEF Insert, RowsOK
  <2>2. LocalsOK'
    <3>1. /\ Others(r) /\ req'[r].row = lastRow + 1
          /\ req'[r].pc = (IF isSpam THEN "record" ELSE "choose")
      BY <1>5, <2>1, InsertFields
    <3>2. lastRow' = lastRow + 1 /\ lastRow \in Nat
      BY <1>5 DEF Insert, RowsOK
    <3> QED
      BY <3>1, <3>2 DEF LocalsOK, Others
  <2>3. RowsOK'
    BY <1>5, <2>1, Fields DEF Insert, RowsOK
  <2> QED
    BY <1>5, <2>2, <2>3 DEF Insert
<1>6. ASSUME NEW r \in Requests, ChooseChannel(r) PROVE TypeOK'
  <2> DEFINE place == IF req[r].bound \in enabled THEN "bound" ELSE "list"
  <2>1. Goto(r, place) /\ UNCHANGED lastRow /\ req[r].pc = "choose"
    BY <1>6 DEF ChooseChannel, rowCols
  <2>2. place \in Places /\ (place = "bound" => req[r].bound \in Channels)
    BY DEF Places, FormsOK
  <2> HIDE DEF place
  <2>3. LocalsOK'
    BY <2>1, <2>2, GotoFields DEF LocalsOK, Others, Kept
  <2> QED
    BY <1>6, <2>3 DEF ChooseChannel
<1>m. ASSUME NEW r \in Requests, NEW success \in BOOLEAN, MailOver(r, success),
             req[r].pc \notin {"idle", "check", "insert"}, UNCHANGED lastRow
      PROVE  LocalsOK'
  BY <1>m, MailOverFields DEF LocalsOK, Others
<1>t. ASSUME NEW r \in Requests, NEW S \in SUBSET Channels, UNCHANGED lastRow,
             req[r].pc \in {"list", "try"},
             \/ req' = [req EXCEPT ![r].pc = "try", ![r].todo = S]
             \/ req[r].pc = "try" /\ req' = [req EXCEPT ![r].todo = S]
      PROVE  LocalsOK'
  <2>1. Others(r) /\ req'[r].pc = "try" /\ req'[r].row = req[r].row
    BY <1>t, TodoFields
  <2> QED
    BY <1>t, <2>1 DEF LocalsOK, Others
<1>7. ASSUME NEW r \in Requests, ListChannels(r) PROVE TypeOK'
  <2>1. LocalsOK'
    <3>1. Own \cap enabled \in SUBSET Channels /\ req[r].pc = "list" /\ UNCHANGED lastRow
      BY <1>7 DEF ListChannels, rowCols
    <3>2. CASE Own \cap enabled = {}
      BY <1>7, <1>m, <3>1, <3>2 DEF ListChannels
    <3>3. CASE Own \cap enabled # {}
      BY <1>7, <1>t, <3>1, <3>3 DEF ListChannels
    <3> QED
      BY <3>2, <3>3
  <2> QED
    BY <1>7, <2>1 DEF ListChannels
<1>8. ASSUME NEW r \in Requests, BoundSendOk(r) PROVE TypeOK'
  <2>1. LocalsOK'
    BY <1>8, <1>m DEF BoundSendOk, rowCols
  <2>2. req[r].row \in Rows /\ req[r].bound \in Channels
    BY <1>8, <1>r DEF BoundSendOk, LocalsOK
  <2>3. SendsOK'
    BY <1>8, <2>2, SendsTook DEF BoundSendOk, BoundLog
  <2> QED
    BY <1>8, <2>1, <2>3 DEF BoundSendOk
<1>9. ASSUME NEW r \in Requests, BoundSendError(r) PROVE TypeOK'
  <2>1. LocalsOK'
    BY <1>9, GotoFields DEF BoundSendError, rowCols, LocalsOK, Others, Places
  <2>2. req[r].row \in Rows /\ req[r].bound \in Channels
    BY <1>9, <1>r DEF BoundSendError, LocalsOK
  <2>3. SendsOK'
    BY <1>9, <2>2, SendsFailed DEF BoundSendError, BoundLog
  <2> QED
    BY <1>9, <2>1, <2>3 DEF BoundSendError
<1>10. ASSUME NEW r \in Requests, NEW c \in Channels, TryOk(r, c) PROVE TypeOK'
  <2>1. LocalsOK'
    BY <1>10, <1>m DEF TryOk, rowCols
  <2>2. SendsOK'
    BY <1>10, <1>r, SendsTook DEF TryOk
  <2> QED
    BY <1>10, <2>1, <2>2 DEF TryOk
<1>11. ASSUME NEW r \in Requests, NEW c \in Channels, TryError(r, c) PROVE TypeOK'
  <2>1. req[r].todo \ {c} \in SUBSET Channels
    BY Fields
  <2>2. LocalsOK'
    BY <1>11, <2>1, <1>m, <1>t DEF TryError, rowCols
  <2>3. SendsOK'
    BY <1>11, <1>r, SendsFailed DEF TryError
  <2> QED
    BY <1>11, <2>2, <2>3 DEF TryError
<1>12. ASSUME NEW r \in Requests, Record(r) \/ RecordFails(r) PROVE TypeOK'
  <2>1. LocalsOK'
    BY <1>12, ReturnFields, IdleFields
       DEF Record, RecordFails, Respond, LocalsOK, Others
  <2>2. RowsOK' /\ req[r].row \in Rows
    BY <1>12, <1>r DEF Record, RecordFails, RowsOK
  <2>3. HooksOK'
    BY <1>12, <2>2 DEF Record, RecordFails, Respond, HooksOK
  <2>4. SendsOK'
    BY <1>12 DEF Record, RecordFails, Faulty, SendsOK, sends
  <2> QED
    BY <1>12, <2>1, <2>2, <2>3, <2>4 DEF Record, RecordFails
<1>14. ASSUME NEW r \in Requests, NEW i \in Rows, SendWebhook(i, r) PROVE TypeOK'
  <2>1. HooksOK'
    BY <1>14 DEF SendWebhook, HooksOK
  <2> QED
    BY <1>14, <2>1 DEF SendWebhook, rowCols
<1>15. ASSUME NEW key \in noted, Lapse(key) PROVE TypeOK'
  <2>1. NotesOK'
    BY <1>15 DEF Lapse, NotesOK
  <2> QED
    BY <1>15, <2>1 DEF Lapse, rowCols
<1>16. ASSUME NEW S \in SUBSET stored, DeleteSubmissions(S) PROVE TypeOK'
  <2>1. RowsOK'
    BY <1>16 DEF DeleteSubmissions, RowsOK
  <2> QED
    BY <1>16, <2>1 DEF DeleteSubmissions
<1>17. ASSUME NEW f \in Forms, NEW a \in Addresses, NEW b \in Channels \cup {Unbound},
              UpdateFormRead(f, a, b)
       PROVE  TypeOK'
  <2>1. FormsOK'
    BY <1>17, EditsGrow DEF UpdateFormRead, FormsOK
  <2> QED
    BY <1>17, <2>1 DEF UpdateFormRead, rowCols
<1>24. ASSUME NEW e \in updating, UpdateForm(e) PROVE TypeOK'
  <2>1. FormsOK'
    BY <1>24, UpdateKept
  <2> QED
    BY <1>24, <2>1 DEF UpdateForm, rowCols
<1>18. ASSUME NEW f \in Forms, NEW a \in Addresses, VerifyForm(f, a) PROVE TypeOK'
  <2>1. FormsOK'
    BY <1>18 DEF VerifyForm, FormsOK, EditType
  <2> QED
    BY <1>18, <2>1 DEF VerifyForm, rowCols
<1>19. ASSUME NEW c \in Channels, EditChannel(c) PROVE TypeOK'
  <2>1. FormsOK'
    BY <1>19, EditsGrow DEF EditChannel, FormsOK
  <2> QED
    BY <1>19, <2>1 DEF EditChannel, rowCols
<1>20. CASE Restart
  <2>1. LocalsOK'
    BY <1>20, IdleFields DEF Restart, LocalsOK, Locals
  <2>2. lost' \subseteq Rows \cup {NoRow}
    BY <1>20, Fields DEF Restart, RowsOK
  <2>3. RowsOK' /\ SendsOK' /\ NotesOK' /\ HooksOK'
    BY <1>20, <2>2 DEF Restart, Faulty, RowsOK, SendsOK, NotesOK, HooksOK, sends
  <2>4. FormsOK'
    BY <1>20 DEF Restart, FormsOK, formVals
  <2> QED
    BY <1>20, <2>1, <2>3, <2>4, TypePartsNext
<1>21. CASE UNCHANGED vars
  BY <1>21 DEF vars, rowCols
<1>22. ASSUME NEW r \in Requests, Handle(r) PROVE TypeOK'
  BY <1>22, <1>2, <1>3, <1>5, <1>6, <1>7, <1>8, <1>9, <1>10, <1>11, <1>12 DEF Handle, Send
<1>23. ASSUME Owner PROVE TypeOK'
  BY <1>23, <1>16, <1>17, <1>18, <1>19, <1>24 DEF Owner
<1> QED
  BY <1>1, <1>14, <1>15, <1>20, <1>21, <1>22, <1>23 DEF Next

THEOREM TypeCorrect == Spec => []TypeOK
<1>1. Init => TypeOK
  <2> SUFFICES ASSUME Init PROVE TypeOK
    OBVIOUS
  <2>1. req \in [Requests -> RequestType] /\ \A r \in Requests : req[r].pc = "idle"
    BY IdleFields DEF Init
  <2>2. took \in [Rows \X Kinds -> Seq(Channels)]
    BY DEF Init
  <2> QED
    BY <2>1, <2>2, IdleFields DEF Init, TypeOK
<1> QED
  BY <1>1, TypeStep, PTL DEF Spec

-----------------------------------------------------------------------------
(* The inductive invariant of the sends.  A handler past the INSERT works  *)
(* on a row that is its own; what its place and its kind of mail say about *)
(* the mails of that row that were taken.                                  *)
Past(r)    == req[r].pc \in {"choose", "bound", "list", "try", "record"}
Sending(r) == req[r].pc \in {"choose", "bound", "list", "try"}
Copies(i, k) == Len(took[<<i, k>>])

RowsApart ==
  /\ \A r \in Requests : ~Past(r) => req[r].row = NoRow
  /\ \A r, s \in Requests : Past(r) /\ Past(s) /\ req[r].row = req[s].row => r = s

HandlerAccounts ==
  \A r \in Requests :
    /\ Past(r) => req[r].form = formOf[req[r].row]
    /\ ~Past(r) => req[r].kind = "main" /\ ~req[r].sent
    /\ Sending(r) => Copies(req[r].row, req[r].kind) = 0
    /\ Past(r) /\ req[r].kind = "main" =>
          /\ Copies(req[r].row, "reply") = 0 /\ ~req[r].sent
          /\ req[r].row \in spam <=> req[r].pc = "record"
    /\ Past(r) /\ req[r].kind = "reply" =>
          /\ req[r].row \notin spam
          /\ req[r].sent <=> Copies(req[r].row, "main") = 1

RowAccounts ==
  \A i \in Rows, k \in Kinds :
    /\ Copies(i, k) <= 1
    /\ i > lastRow => Copies(i, k) = 0

SendInv == RowsApart /\ HandlerAccounts /\ RowAccounts

(* While no statement fails, every success and every failure has its log.  *)
Witnessed(i) == \E c \in Channels : Took(i, c) /\ <<i, c, TRUE>> \in logs

LogInv ==
  faults = 0 =>
    /\ \A r \in Requests : Past(r) /\ req[r].sent => Witnessed(req[r].row)
    /\ LogsComplete

(* While nobody edits, how far down the list of channels a handler is.     *)
First(f)     == IF bound[f] = Unbound THEN {} ELSE {bound[f]}
Failed(i, S) == \A c \in S : <<i, c>> \in refused
MainOf(r)    == Past(r) /\ req[r].kind = "main"

Ranked(r) ==
  /\ req[r].pc # "idle" => req[r].bound = bound[req[r].form]
  /\ MainOf(r) /\ req[r].pc \in {"list", "try"} => Failed(req[r].row, First(req[r].form))
  /\ req[r].pc = "try" =>
        /\ req[r].todo \subseteq Own
        /\ req[r].kind = "main" => Failed(req[r].row, Own \ req[r].todo)
  /\ Past(r) /\ req[r].kind = "reply" /\ ~req[r].sent =>
        Failed(req[r].row, First(req[r].form) \cup Own)

RankedRow(i) ==
  /\ \A c \in Channels \ First(formOf[i]) :
        Took(i, c) => c \in Own /\ Failed(i, First(formOf[i]) \cup {e \in Own : e < c})
  /\ i \in error \ spam => Failed(i, First(formOf[i]) \cup Own)

PriorityInv ==
  edits = 0 =>
    /\ enabled = Channels
    /\ \A r \in Requests : Ranked(r)
    /\ \A i \in Rows : RankedRow(i)

(* What the outcome in a row says, and who is still to write it.           *)
OutcomeInv ==
  /\ sent \cap error = {} /\ sent \cap spam = {}
  /\ \A i \in sent : Copies(i, "main") = 1
  /\ \A i \in error \cup spam : Copies(i, "main") = 0
  /\ \A r \in Requests : Past(r) => req[r].row \notin sent \cup (error \ spam)

(* A form's link was drawn for the address it has, and a verified form's   *)
(* link was opened for it, unless a stale UPDATE put the address there.    *)
ConfirmInv ==
  /\ \A f \in Forms : address[f] = link[f] \/ <<f, address[f]>> \in overwritten
  /\ \A f \in verified : <<f, address[f]>> \in confirmed \cup overwritten
  /\ SendsToConfirmed

-----------------------------------------------------------------------------
(* How the number of mails taken changes.                                  *)
LEMMA CopiesType ==
  ASSUME TypeOK, NEW i \in Rows, NEW k \in Kinds
  PROVE  Copies(i, k) \in Nat
<1>1. <<i, k>> \in Rows \X Kinds
  OBVIOUS
<1>2. took[<<i, k>>] \in Seq(Channels)
  BY <1>1 DEF TypeOK
<1> QED
  BY <1>2 DEF Copies

LEMMA CopiesKept ==
  ASSUME UNCHANGED took, NEW i, NEW k
  PROVE  Copies(i, k)' = Copies(i, k)
  BY DEF Copies

LEMMA CopiesOneMore ==
  ASSUME TypeOK, NEW r \in Requests, NEW c \in Channels, req[r].row \in Rows, Acknowledge(r, c)
  PROVE  \A i \in Rows, k \in Kinds :
            Copies(i, k)' = IF i = req[r].row /\ k = req[r].kind
                            THEN Copies(i, k) + 1 ELSE Copies(i, k)
<1>1. req[r].kind \in Kinds
  BY Fields, TypeParts DEF LocalsOK
<1>2. took \in [Rows \X Kinds -> Seq(Channels)]
  BY DEF TypeOK
<1> SUFFICES ASSUME NEW i \in Rows, NEW k \in Kinds
             PROVE  Copies(i, k)' = IF i = req[r].row /\ k = req[r].kind
                                    THEN Copies(i, k) + 1 ELSE Copies(i, k)
  OBVIOUS
<1>3. took' = [took EXCEPT ![<<req[r].row, req[r].kind>>] = Append(@, c)]
  BY DEF Acknowledge
<1>4. CASE i = req[r].row /\ k = req[r].kind
  <2>1. took'[<<i, k>>] = Append(took[<<i, k>>], c)
    BY <1>2, <1>3, <1>4, TookOneMore
  <2>2. took[<<i, k>>] \in Seq(Channels)
    BY <1>2
  <2>3. Len(took'[<<i, k>>]) = Len(took[<<i, k>>]) + 1
    BY <2>1, <2>2
  <2> QED
    BY <1>4, <2>3 DEF Copies
<1>5. CASE ~(i = req[r].row /\ k = req[r].kind)
  <2>1. <<i, k>> # <<req[r].row, req[r].kind>>
    BY <1>5
  <2>2. took'[<<i, k>>] = took[<<i, k>>]
    BY <1>1, <1>2, <1>3, <2>1, TookOneMore
  <2> QED
    BY <1>5, <2>2 DEF Copies
<1> QED
  BY <1>4, <1>5

(* The ways in which a step leaves the invariant of the sends intact: it   *)
(* has nothing to do with them; a handler ends; a handler goes on with its *)
(* mail; a handler is done with a mail that nobody took, or that one more  *)
(* channel took.                                                           *)
Untouched == UNCHANGED <<lastRow, formOf, spam, took>>

LEMMA SendInvKept ==
  ASSUME SendInv, UNCHANGED req, Untouched
  PROVE  SendInv'
  BY DEF SendInv, Untouched, RowsApart, HandlerAccounts, RowAccounts, Past, Sending, Copies

LEMMA SendInvReturn ==
  ASSUME SendInv, NEW r \in Requests, Others(r), req'[r] = Idle, Untouched
  PROVE  SendInv'
<1>1. \A i, k : Copies(i, k)' = Copies(i, k)
  BY CopiesKept DEF Untouched
<1>2. ~Past(r)' /\ ~Sending(r)'
  BY IdleFields DEF Past, Sending
<1>3. \A s \in Requests : s # r => (Past(s)' <=> Past(s)) /\ (Sending(s)' <=> Sending(s))
  BY DEF Others, Past, Sending
<1>4. RowsApart'
  BY <1>2, <1>3, IdleFields DEF SendInv, RowsApart, Others
<1>5. HandlerAccounts'
  BY <1>1, <1>2, <1>3, IdleFields DEF SendInv, HandlerAccounts, Others, Untouched
<1>6. RowAccounts'
  BY <1>1 DEF SendInv, RowAccounts, Untouched
<1> QED
  BY <1>4, <1>5, <1>6 DEF SendInv

LEMMA SendInvMove ==
  ASSUME SendInv, NEW r \in Requests, Others(r), Kept(r), Untouched,
         req'[r].row = req[r].row, req'[r].kind = req[r].kind, req'[r].sent = req[r].sent,
         Past(r)' <=> Past(r), Sending(r)' <=> Sending(r),
         req'[r].pc = "record" <=> req[r].pc = "record"
  PROVE  SendInv'
<1>1. \A i, k : Copies(i, k)' = Copies(i, k)
  BY CopiesKept DEF Untouched
<1>2. \A s \in Requests :
         /\ (Past(s)' <=> Past(s)) /\ (Sending(s)' <=> Sending(s))
         /\ req'[s].row = req[s].row /\ req'[s].kind = req[s].kind /\ req'[s].sent = req[s].sent
         /\ req'[s].form = req[s].form
         /\ req'[s].pc = "record" <=> req[s].pc = "record"
  BY DEF Others, Kept, Past, Sending
<1>3. RowsApart'
  BY <1>2 DEF SendInv, RowsApart
<1>4. HandlerAccounts'
  BY <1>1, <1>2 DEF SendInv, HandlerAccounts, Untouched
<1>5. RowAccounts'
  BY <1>1 DEF SendInv, RowAccounts, Untouched
<1> QED
  BY <1>3, <1>4, <1>5 DEF SendInv

LEMMA SendInvFailed ==
  ASSUME TypeOK, SendInv, NEW r \in Requests, MailOver(r, FALSE), Sending(r), Untouched
  PROVE  SendInv'
<1>0. Locals /\ req[r].kind \in Kinds /\ req[r].row \in Rows
  BY Fields, TypeParts DEF LocalsOK, RowsOK, Sending
<1>1. \A i, k : Copies(i, k)' = Copies(i, k)
  BY CopiesKept DEF Untouched
<1>2. /\ Others(r) /\ Kept(r)
      /\ req'[r].kind = "reply" /\ req'[r].row = req[r].row
      /\ req'[r].pc \in {"choose", "record"}
      /\ req[r].kind = "main"  => req'[r].sent = FALSE
      /\ req[r].kind = "reply" => req'[r].sent = req[r].sent /\ req'[r].pc = "record"
  BY <1>0, MailOverFields
<1>3. Past(r) /\ Past(r)' /\ (Sending(r)' => req'[r].pc = "choose")
  BY <1>2 DEF Past, Sending
<1>4. \A s \in Requests : s # r => (Past(s)' <=> Past(s)) /\ (Sending(s)' <=> Sending(s))
  BY <1>2 DEF Others, Past, Sending
<1>5. RowsApart'
  BY <1>2, <1>3, <1>4 DEF SendInv, RowsApart, Others
<1>6. HandlerAccounts'
  <2> SUFFICES ASSUME NEW s \in Requests
               PROVE  HandlerAccounts!(s)'
    BY DEF HandlerAccounts
  <2>1. CASE s # r
    BY <1>1, <1>2, <1>4, <2>1 DEF SendInv, HandlerAccounts, Others, Untouched
  <2>2. CASE s = r
    BY <1>0, <1>1, <1>2, <1>3, <2>2 DEF SendInv, HandlerAccounts, Untouched, Kept, Sending
  <2> QED
    BY <2>1, <2>2
<1>7. RowAccounts'
  BY <1>1 DEF SendInv, RowAccounts, Untouched
<1> QED
  BY <1>5, <1>6, <1>7 DEF SendInv

LEMMA SendInvTook ==
  ASSUME TypeOK, SendInv, NEW r \in Requests, NEW c \in Channels, Acknowledge(r, c),
         MailOver(r, TRUE), Sending(r), UNCHANGED <<lastRow, formOf, spam>>
  PROVE  SendInv'
<1>0. Locals /\ req[r].kind \in Kinds /\ req[r].row \in Rows
  BY Fields, TypeParts DEF LocalsOK, RowsOK, Sending
<1>1. \A i \in Rows, k \in Kinds :
         Copies(i, k)' = IF i = req[r].row /\ k = req[r].kind
                         THEN Copies(i, k) + 1 ELSE Copies(i, k)
  BY <1>0, CopiesOneMore
<1>2. /\ Others(r) /\ Kept(r)
      /\ req'[r].kind = "reply" /\ req'[r].row = req[r].row
      /\ req'[r].pc \in {"choose", "record"}
      /\ req[r].kind = "main"  => req'[r].sent = TRUE
      /\ req[r].kind = "reply" => req'[r].sent = req[r].sent /\ req'[r].pc = "record"
  BY <1>0, MailOverFields
<1>3. Past(r) /\ Past(r)' /\ (Sending(r)' => req'[r].pc = "choose")
  BY <1>2 DEF Past, Sending
<1>4. \A s \in Requests : s # r => (Past(s)' <=> Past(s)) /\ (Sending(s)' <=> Sending(s))
  BY <1>2 DEF Others, Past, Sending
<1>5. RowsApart'
  BY <1>2, <1>3, <1>4 DEF SendInv, RowsApart, Others
<1>6. HandlerAccounts'
  <2> SUFFICES ASSUME NEW s \in Requests
               PROVE  HandlerAccounts!(s)'
    BY DEF HandlerAccounts
  <2>1. CASE s # r
    <3>1. Past(s) => req[s].row \in Rows /\ req[s].row # req[r].row
      BY <1>3, <2>1, TypeParts DEF SendInv, RowsApart, LocalsOK, RowsOK, Past
    <3>2. \A k \in Kinds : Past(s) => Copies(req[s].row, k)' = Copies(req[s].row, k)
      BY <1>1, <1>2, <2>1, <3>1 DEF Others
    <3>3. Sending(s) => Past(s) /\ req[s].kind \in Kinds
      BY <1>0, Fields DEF Sending, Past
    <3> QED
      BY <1>2, <1>4, <2>1, <3>2, <3>3 DEF SendInv, HandlerAccounts, Others
  <2>2. CASE s = r
    BY <1>0, <1>1, <1>2, <1>3, <2>2 DEF SendInv, HandlerAccounts, Kept, Sending
  <2> QED
    BY <2>1, <2>2
<1>7. RowAccounts'
  <2> SUFFICES ASSUME NEW i \in Rows, NEW k \in Kinds
               PROVE  Copies(i, k)' <= 1 /\ (i > lastRow' => Copies(i, k)' = 0)
    BY DEF RowAccounts
  <2>1. req[r].row <= lastRow /\ Copies(req[r].row, req[r].kind) = 0 /\ lastRow \in Nat
    BY TypeParts DEF SendInv, HandlerAccounts, LocalsOK, RowsOK, Sending
  <2> QED
    BY <1>0, <1>1, <2>1 DEF SendInv, RowAccounts
<1> QED
  BY <1>5, <1>6, <1>7 DEF SendInv

(* A handler that has nothing of the sends yet: a new request, and one     *)
(* that passed checkDuplicateSubmit.                                       *)
LEMMA SendInvBefore ==
  ASSUME SendInv, NEW r \in Requests, Others(r), ~Past(r), ~Past(r)', Untouched,
         req'[r].row = NoRow, req'[r].kind = "main", ~req'[r].sent
  PROVE  SendInv'
<1>1. \A i, k : Copies(i, k)' = Copies(i, k)
  BY CopiesKept DEF Untouched
<1>2. ~Sending(r)'
  BY DEF Past, Sending
<1>3. \A s \in Requests : s # r => (Past(s)' <=> Past(s)) /\ (Sending(s)' <=> Sending(s))
  BY DEF Others, Past, Sending
<1>4. RowsApart'
  BY <1>3 DEF SendInv, RowsApart, Others
<1>5. HandlerAccounts'
  BY <1>1, <1>2, <1>3 DEF SendInv, HandlerAccounts, Others, Untouched
<1>6. RowAccounts'
  BY <1>1 DEF SendInv, RowAccounts, Untouched
<1> QED
  BY <1>4, <1>5, <1>6 DEF SendInv

(* The INSERT gives the handler a row that no handler had and no mail of   *)
(* which was taken.                                                        *)
LEMMA SendInvInsert ==
  ASSUME TypeOK, SendInv, NEW r \in Requests, NEW isSpam \in BOOLEAN, Insert(r, isSpam)
  PROVE  SendInv'
<1> DEFINE i == lastRow + 1
<1>0. Locals /\ LocalsOK /\ RowsOK
  BY TypeParts DEF LocalsOK
<1>1. i \in Rows /\ lastRow \in Nat /\ lastRow' = i /\ i \notin spam /\ i > lastRow
  BY <1>0 DEF Insert, RowsOK
<1>2. /\ Others(r) /\ Kept(r)
      /\ req'[r].pc = (IF isSpam THEN "record" ELSE "choose")
      /\ req'[r].row = i
      /\ req'[r].kind = req[r].kind /\ req'[r].sent = req[r].sent
  BY <1>0, <1>1, InsertFields
<1>3. UNCHANGED took /\ spam' = (IF isSpam THEN spam \cup {i} ELSE spam) /\ req[r].pc = "insert"
  BY DEF Insert, sends
<1>4. formOf'[i] = req[r].form /\ \A j \in Rows : j # i => formOf'[j] = formOf[j]
  BY <1>0, <1>1 DEF Insert, RowsOK
<1> HIDE DEF i
<1>5. \A j, k : Copies(j, k)' = Copies(j, k)
  BY <1>3, CopiesKept
<1>6. /\ ~Past(r) /\ Past(r)' /\ (Sending(r)' <=> ~isSpam)
      /\ req[r].kind = "main" /\ ~req[r].sent
  BY <1>2, <1>3 DEF Past, Sending, SendInv, HandlerAccounts
<1>7. \A s \in Requests : s # r =>
         /\ (Past(s)' <=> Past(s)) /\ (Sending(s)' <=> Sending(s)) /\ req'[s] = req[s]
  BY <1>2 DEF Others, Past, Sending
<1>8. \A s \in Requests : Past(s) => req[s].row \in Rows /\ req[s].row <= lastRow
  BY <1>0 DEF LocalsOK, RowsOK, Past
<1>9. \A k \in Kinds : Copies(i, k) = 0
  BY <1>1 DEF SendInv, RowAccounts
<1>10. RowsApart'
  <2>1. \A s \in Requests : ~Past(s)' => req'[s].row = NoRow
    BY <1>6, <1>7 DEF SendInv, RowsApart
  <2>2. ASSUME NEW s \in Requests, NEW t \in Requests, Past(s)', Past(t)',
               req'[s].row = req'[t].row
        PROVE  s = t
    BY <1>1, <1>2, <1>7, <1>8, <2>2 DEF SendInv, RowsApart
  <2> QED
    BY <2>1, <2>2 DEF RowsApart
<1>11. HandlerAccounts'
  <2> SUFFICES ASSUME NEW s \in Requests
               PROVE  HandlerAccounts!(s)'
    BY DEF HandlerAccounts
  <2>1. CASE s # r
    <3>1. Past(s) => /\ req[s].row \in Rows /\ req[s].row # i
                     /\ formOf'[req[s].row] = formOf[req[s].row]
                     /\ req[s].row \in spam' <=> req[s].row \in spam
      BY <1>1, <1>3, <1>4, <1>8
    <3>2. Sending(s) => Past(s)
      BY DEF Past, Sending
    <3> QED
      BY <1>5, <1>7, <2>1, <3>1, <3>2 DEF SendInv, HandlerAccounts
  <2>2. CASE s = r
    BY <1>1, <1>2, <1>3, <1>4, <1>5, <1>6, <1>9, <2>2 DEF Kept
  <2> QED
    BY <2>1, <2>2
<1>12. RowAccounts'
  BY <1>1, <1>5 DEF SendInv, RowAccounts
<1> QED
  BY <1>10, <1>11, <1>12 DEF SendInv

(* Every action leaves the invariant of the sends intact.                  *)
LEMMA SendStep == TypeOK /\ SendInv /\ [Next]_vars => SendInv'
<1> SUFFICES ASSUME TypeOK, SendInv, [Next]_vars
             PROVE  SendInv'
  OBVIOUS
<1>0. Locals
  BY TypeParts DEF LocalsOK
<1>1. ASSUME NEW r \in Requests, NEW f \in Forms, NEW v \in Visitors, SubmitForm(r, f, v)
      PROVE  SendInv'
  <2>1. address[f] \in Addresses /\ bound[f] \in Channels \cup {Unbound}
    BY DEF TypeOK
  <2>2. /\ Others(r) /\ req'[r].pc = "check"
        /\ req'[r].row = NoRow /\ req'[r].kind = "main" /\ ~req'[r].sent
    BY <1>0, <1>1, <2>1, SubmitFields
  <2>3. ~Past(r) /\ ~Past(r)' /\ Untouched
    BY <1>1, <2>2 DEF SubmitForm, Past, Untouched, rowCols, sends
  <2> QED
    BY <2>2, <2>3, SendInvBefore
<1>2. ASSUME NEW r \in Requests, RefuseEarly(r) \/ Refuse(r) \/ Record(r) \/ RecordFails(r)
      PROVE  SendInv'
  <2>1. Return(r) /\ Untouched
    BY <1>2 DEF RefuseEarly, Refuse, Record, RecordFails, Respond, Untouched, rowCols, sends
  <2> QED
    BY <1>0, <2>1, ReturnFields, SendInvReturn
<1>3. ASSUME NEW r \in Requests, CheckDuplicateSubmit(r) PROVE SendInv'
  <2>1. Goto(r, "insert") /\ req[r].pc = "check" /\ Untouched
    BY <1>3 DEF CheckDuplicateSubmit, Untouched, rowCols, sends
  <2>2. /\ Others(r) /\ req'[r].pc = "insert" /\ req'[r].row = req[r].row
        /\ req'[r].kind = req[r].kind /\ req'[r].sent = req[r].sent
    BY <1>0, <2>1, GotoFields DEF Places
  <2>3. ~Past(r) /\ ~Past(r)'
    BY <2>1, <2>2 DEF Past
  <2>4. req'[r].row = NoRow /\ req'[r].kind = "main" /\ ~req'[r].sent
    BY <2>2, <2>3 DEF SendInv, RowsApart, HandlerAccounts
  <2> QED
    BY <2>1, <2>2, <2>3, <2>4, SendInvBefore
<1>4. ASSUME NEW r \in Requests, NEW isSpam \in BOOLEAN, Insert(r, isSpam) PROVE SendInv'
  BY <1>4, SendInvInsert
<1>5. ASSUME NEW r \in Requests, NEW place \in {"bound", "list"},
             Goto(r, place), Untouched, Sending(r)
      PROVE  SendInv'
  <2>1. /\ Others(r) /\ Kept(r) /\ req'[r].pc = place /\ req'[r].row = req[r].row
        /\ req'[r].kind = req[r].kind /\ req'[r].sent = req[r].sent
    BY <1>0, <1>5, GotoFields DEF Places
  <2>2. /\ Past(r) /\ Past(r)' /\ Sending(r)'
        /\ req'[r].pc # "record" /\ req[r].pc # "record"
    BY <1>5, <2>1 DEF Past, Sending
  <2> QED
    BY <1>5, <2>1, <2>2, SendInvMove
<1>6. ASSUME NEW r \in Requests, ChooseChannel(r) PROVE SendInv'
  <2>1. /\ Goto(r, "bound") \/ Goto(r, "list")
        /\ Untouched /\ Sending(r)
    BY <1>6 DEF ChooseChannel, Untouched, rowCols, sends, Sending
  <2> QED
    BY <2>1, <1>5
<1>7. ASSUME NEW r \in Requests, NEW S \in SUBSET Channels,
             \/ req' = [req EXCEPT ![r].pc = "try", ![r].todo = S]
             \/ req[r].pc = "try" /\ req' = [req EXCEPT ![r].todo = S],
             Untouched, Sending(r)
      PROVE  SendInv'
  <2>1. /\ Others(r) /\ Kept(r) /\ req'[r].pc = "try" /\ req'[r].row = req[r].row
        /\ req'[r].kind = req[r].kind /\ req'[r].sent = req[r].sent
    BY <1>0, <1>7, TodoFields
  <2>2. /\ Past(r) /\ Past(r)' /\ Sending(r)'
        /\ req'[r].pc # "record" /\ req[r].pc # "record"
    BY <1>7, <2>1 DEF Past, Sending
  <2> QED
    BY <1>7, <2>1, <2>2, SendInvMove
<1>8. ASSUME NEW r \in Requests, ListChannels(r) PROVE SendInv'
  <2>1. Untouched /\ Sending(r)
    BY <1>8 DEF ListChannels, Untouched, rowCols, sends, Sending
  <2>2. CASE Own \cap enabled = {}
    BY <1>8, <2>1, <2>2, SendInvFailed DEF ListChannels
  <2>3. CASE Own \cap enabled # {}
    <3>1. Own \cap enabled \in SUBSET Channels
      OBVIOUS
    <3>2. req' = [req EXCEPT ![r].pc = "try", ![r].todo = Own \cap enabled]
      BY <1>8, <2>3 DEF ListChannels
    <3> QED
      BY <2>1, <3>1, <3>2, <1>7
  <2> QED
    BY <2>2, <2>3
<1>9. ASSUME NEW r \in Requests, BoundSendOk(r) PROVE SendInv'
  <2>1. /\ Acknowledge(r, req[r].bound) /\ MailOver(r, TRUE) /\ Sending(r)
        /\ UNCHANGED <<lastRow, formOf, spam>> /\ req[r].bound \in Channels
    BY <1>9, TypeParts DEF BoundSendOk, Sending, rowCols, LocalsOK
  <2> QED
    BY <2>1, SendInvTook
<1>10. ASSUME NEW r \in Requests, BoundSendError(r) PROVE SendInv'
  <2>1. Goto(r, "list") /\ Untouched /\ Sending(r)
    BY <1>10 DEF BoundSendError, Fail, Untouched, rowCols, Sending
  <2> QED
    BY <2>1, <1>5
<1>11. ASSUME NEW r \in Requests, NEW c \in Channels, TryOk(r, c) PROVE SendInv'
  <2>1. /\ Acknowledge(r, c) /\ MailOver(r, TRUE) /\ Sending(r)
        /\ UNCHANGED <<lastRow, formOf, spam>>
    BY <1>11 DEF TryOk, Sending, rowCols
  <2> QED
    BY <2>1, SendInvTook
<1>12. ASSUME NEW r \in Requests, NEW c \in Channels, TryError(r, c) PROVE SendInv'
  <2> DEFINE rest == req[r].todo \ {c}
  <2>1. Untouched /\ Sending(r) /\ req[r].pc = "try"
    BY <1>12 DEF TryError, Fail, Untouched, rowCols, Sending
  <2>2. rest \in SUBSET Channels
    BY <1>0, Fields
  <2>3. MailOver(r, FALSE) \/ req' = [req EXCEPT ![r].todo = rest]
    BY <1>12 DEF TryError
  <2> QED
    BY <2>1, <2>2, <2>3, <1>7, SendInvFailed
<1>13. CASE UNCHANGED req /\ Untouched
  BY <1>13, SendInvKept
<1>14. CASE Restart
  <2>1. Untouched /\ \A s \in Requests : req'[s] = Idle
    BY <1>14 DEF Restart, Untouched, sends
  <2>2. \A s \in Requests : ~Past(s)' /\ ~Sending(s)'
    BY <2>1, IdleFields DEF Past, Sending
  <2>3. \A i, k : Copies(i, k)' = Copies(i, k)
    BY <2>1, CopiesKept DEF Untouched
  <2>4. RowsApart' /\ HandlerAccounts'
    BY <2>1, <2>2, IdleFields DEF RowsApart, HandlerAccounts
  <2>5. RowAccounts'
    BY <2>1, <2>3 DEF SendInv, RowAccounts, Untouched
  <2> QED
    BY <2>4, <2>5 DEF SendInv
<1>15. ASSUME NEW r \in Requests, Handle(r) PROVE SendInv'
  BY <1>15, <1>2, <1>3, <1>4, <1>6, <1>8, <1>9, <1>10, <1>11, <1>12 DEF Handle, Send
<1>16. ASSUME NEW r \in Requests, NEW i \in Rows, SendWebhook(i, r) PROVE SendInv'
  BY <1>16, <1>13 DEF SendWebhook, Untouched, rowCols, sends
<1>17. ASSUME NEW key \in noted, Lapse(key) PROVE SendInv'
  BY <1>17, <1>13 DEF Lapse, Untouched, rowCols, sends
<1>18. ASSUME Owner PROVE SendInv'
  BY <1>18, <1>13
     DEF Owner, DeleteSubmissions, UpdateFormRead, UpdateForm, VerifyForm, EditChannel, Untouched, rowCols, sends
<1>19. CASE UNCHANGED vars
  BY <1>19, <1>13 DEF vars, Untouched, rowCols, sends
<1> QED
  BY <1>1, <1>14, <1>15, <1>16, <1>17, <1>18, <1>19 DEF Next

(* The handlers never see a mail taken twice, whatever they do with forms, *)
(* channels and restarts between: SendInv, of which NoSecondCopy is what   *)
(* is left when the handlers are not looked at.                            *)
LEMMA SendInvInit == Init => SendInv
<1> SUFFICES ASSUME Init PROVE SendInv
  OBVIOUS
<1>1. \A r \in Requests : req[r] = Idle /\ ~Past(r) /\ ~Sending(r)
  BY IdleFields DEF Init, Past, Sending
<1>2. \A i \in Rows, k \in Kinds : Copies(i, k) = 0
  <2> SUFFICES ASSUME NEW i \in Rows, NEW k \in Kinds PROVE Len(took[<<i, k>>]) = 0
    BY DEF Copies
  <2>1. took[<<i, k>>] = <<>>
    BY DEF Init
  <2> QED
    BY <2>1
<1> QED
  BY <1>1, <1>2, IdleFields DEF SendInv, RowsApart, HandlerAccounts, RowAccounts

THEOREM NoMailTwice == Spec => []NoSecondCopy
<1>1. SendInv => NoSecondCopy
  <2> SUFFICES ASSUME SendInv, NEW m \in Rows \X Kinds PROVE Len(took[m]) <= 1
    BY DEF NoSecondCopy
  <2>1. PICK i \in Rows, k \in Kinds : m = <<i, k>>
    OBVIOUS
  <2> QED
    BY <2>1 DEF SendInv, RowAccounts, Copies
<1> QED
  BY <1>1, SendInvInit, SendStep, TypeCorrect, PTL DEF Spec

-----------------------------------------------------------------------------
(* What a step may do to the locals of any handler: nothing, end it, start *)
(* it on a verified form, or take it further with the same form, visitor,  *)
(* recipient and bound channel.                                            *)
Starts(s) ==
  \E f \in verified : /\ req'[s].pc = "check"
                      /\ req'[s].form = f /\ req'[s].to = address[f] /\ req'[s].bound = bound[f]
GoesOn(s) == req[s].pc # "idle" /\ Kept(s)

LEMMA HandlerSteps ==
  ASSUME TypeOK, [Next]_vars, NEW s \in Requests
  PROVE  \/ req'[s] = req[s] \/ req'[s] = Idle
         \/ Starts(s) /\ UNCHANGED formCols
         \/ GoesOn(s) /\ UNCHANGED formCols
<1> DEFINE Goal == \/ req'[s] = req[s] \/ req'[s] = Idle
                   \/ Starts(s) /\ UNCHANGED formCols
                   \/ GoesOn(s) /\ UNCHANGED formCols
<1>0. Locals
  BY TypeParts DEF LocalsOK
<1>1. ASSUME NEW r \in Requests, NEW f \in Forms, NEW v \in Visitors, SubmitForm(r, f, v)
      PROVE  Goal
  <2>1. address[f] \in Addresses /\ bound[f] \in Channels \cup {Unbound}
    BY DEF TypeOK
  <2>2. /\ Others(r) /\ req'[r].pc = "check" /\ req'[r].form = f
        /\ req'[r].to = address[f] /\ req'[r].bound = bound[f]
    BY <1>0, <1>1, <2>1, SubmitFields
  <2> QED
    BY <1>1, <2>2 DEF SubmitForm, Others, Starts
<1>2. ASSUME NEW r \in Requests, Return(r) PROVE Goal
  BY <1>0, <1>2, ReturnFields DEF Others
<1>3. ASSUME NEW r \in Requests, Others(r), Kept(r), req[r].pc # "idle", UNCHANGED formCols
      PROVE  Goal
  BY <1>3 DEF Others, GoesOn
<1>4. ASSUME NEW r \in Requests, NEW place \in Places, Goto(r, place), req[r].pc # "idle",
             UNCHANGED formCols
      PROVE  Goal
  BY <1>0, <1>3, <1>4, GotoFields
<1>5. ASSUME NEW r \in Requests, NEW success \in BOOLEAN, MailOver(r, success),
             req[r].pc # "idle", UNCHANGED formCols
      PROVE  Goal
  BY <1>0, <1>3, <1>5, MailOverFields
<1>7. ASSUME UNCHANGED req PROVE Goal
  BY <1>7
<1>8. ASSUME Restart PROVE Goal
  BY <1>8 DEF Restart
<1> HIDE DEF Goal
<1>6. ASSUME NEW r \in Requests, Handle(r) PROVE Goal
  <2>1. CASE RefuseEarly(r) \/ Refuse(r) \/ Record(r) \/ RecordFails(r)
    BY <2>1, <1>2 DEF RefuseEarly, Refuse, Record, RecordFails, Respond
  <2>2. CASE CheckDuplicateSubmit(r) \/ ChooseChannel(r) \/ BoundSendError(r)
    <3>1. \E place \in Places : Goto(r, place)
      BY <2>2 DEF CheckDuplicateSubmit, ChooseChannel, BoundSendError, Places
    <3> QED
      BY <2>2, <3>1, <1>4 DEF CheckDuplicateSubmit, ChooseChannel, BoundSendError
  <2>3. ASSUME NEW isSpam \in BOOLEAN, Insert(r, isSpam) PROVE Goal
    <3>1. lastRow + 1 \in Rows
      BY <2>3 DEF Insert, TypeOK
    <3>2. Others(r) /\ Kept(r)
      BY <1>0, <2>3, <3>1, InsertFields
    <3> QED
      BY <2>3, <3>2, <1>3 DEF Insert
  <2>4. CASE ListChannels(r)
    <3>1. CASE Own \cap enabled = {}
      BY <2>4, <3>1, <1>5 DEF ListChannels
    <3>2. CASE Own \cap enabled # {}
      <4>1. Own \cap enabled \in SUBSET Channels
        OBVIOUS
      <4>2. req' = [req EXCEPT ![r].pc = "try", ![r].todo = Own \cap enabled]
        BY <2>4, <3>2 DEF ListChannels
      <4>3. Others(r) /\ Kept(r)
        BY <1>0, <4>1, <4>2, TodoFields
      <4> QED
        BY <2>4, <4>3, <1>3 DEF ListChannels
    <3> QED
      BY <3>1, <3>2
  <2>5. CASE BoundSendOk(r)
    BY <2>5, <1>5 DEF BoundSendOk
  <2>6. ASSUME NEW c \in Channels, TryOk(r, c) \/ TryError(r, c) PROVE Goal
    <3> DEFINE rest == req[r].todo \ {c}
    <3>1. rest \in SUBSET Channels
      BY <1>0, Fields
    <3>2. \/ MailOver(r, TRUE) \/ MailOver(r, FALSE)
          \/ req[r].pc = "try" /\ req' = [req EXCEPT ![r].todo = rest]
      BY <2>6 DEF TryOk, TryError
    <3>3. req[r].pc # "idle" /\ UNCHANGED formCols
      BY <2>6 DEF TryOk, TryError
    <3> HIDE DEF rest
    <3>4. req' = [req EXCEPT ![r].todo = rest] /\ req[r].pc = "try" => Others(r) /\ Kept(r)
      BY <1>0, <3>1, TodoFields
    <3> QED
      BY <3>2, <3>3, <3>4, <1>3, <1>5
  <2> QED
    BY <1>6, <2>1, <2>2, <2>3, <2>4, <2>5, <2>6 DEF Handle, Send
<1>9. ASSUME NEW r \in Requests, NEW i \in Rows, SendWebhook(i, r) PROVE Goal
  BY <1>9, <1>7 DEF SendWebhook
<1>10. ASSUME NEW key \in noted, Lapse(key) PROVE Goal
  BY <1>10, <1>7 DEF Lapse
<1>11. ASSUME Owner PROVE Goal
  BY <1>11, <1>7 DEF Owner, DeleteSubmissions, UpdateFormRead, UpdateForm, VerifyForm, EditChannel
<1>12. ASSUME UNCHANGED vars PROVE Goal
  BY <1>12, <1>7 DEF vars
<1>13. Goal
  BY <1>1, <1>6, <1>8, <1>9, <1>10, <1>11, <1>12 DEF Next
<1> QED
  BY <1>13 DEF Goal

(* The columns of forms change by the owner's edits only, which a restart  *)
(* may cut short.                                                          *)
LEMMA FormSteps ==
  ASSUME [Next]_vars
  PROVE  \/ UNCHANGED formCols
         \/ \E f \in Forms, a \in Addresses, b \in Channels \cup {Unbound} :
               UpdateFormRead(f, a, b)
         \/ \E e \in updating : UpdateForm(e)
         \/ \E f \in Forms, a \in Addresses : VerifyForm(f, a)
         \/ \E c \in Channels : EditChannel(c)
         \/ updating' = {} /\ UNCHANGED formVals
<1>1. ASSUME NEW r \in Requests, Handle(r) PROVE UNCHANGED formCols
  BY <1>1 DEF Handle, Send, RefuseEarly, Refuse, CheckDuplicateSubmit, Insert, ChooseChannel,
              ListChannels, BoundSendOk, BoundSendError, TryOk, TryError, Record, RecordFails
<1> QED
  BY <1>1 DEF Next, Owner, SubmitForm, SendWebhook, Lapse, DeleteSubmissions, Restart, vars

(* What an edit does to the addresses and to what is known of them.        *)
LEMMA UpdateConfirms ==
  ASSUME TypeOK, ConfirmInv, NEW e \in updating, UpdateForm(e)
  PROVE  /\ \A f \in Forms : address'[f] = link'[f] \/ <<f, address'[f]>> \in overwritten'
         /\ \A f \in verified' : <<f, address'[f]>> \in confirmed' \cup overwritten'
         /\ confirmed' = confirmed /\ overwritten \subseteq overwritten'
<1>1. e \in EditType
  BY DEF TypeOK
<1>2. e.form \in Forms /\ e.to \in Addresses
  BY <1>1 DEF EditType
<1>3. address'[e.form] = e.to /\ \A f \in Forms \ {e.form} : address'[f] = address[f]
  BY <1>2 DEF UpdateForm, TypeOK
<1>4. confirmed' = confirmed /\ overwritten \subseteq overwritten'
  BY DEF UpdateForm
<1>5. CASE e.seen # e.to
  <2>1. /\ link'[e.form] = e.to /\ \A f \in Forms \ {e.form} : link'[f] = link[f]
        /\ verified' = verified \ {e.form} /\ overwritten' = overwritten
    BY <1>2, <1>5 DEF UpdateForm, TypeOK
  <2> QED
    BY <1>3, <1>4, <2>1 DEF ConfirmInv, TypeOK
<1>6. CASE e.seen = e.to
  <2>1. link' = link /\ verified' = verified
    BY <1>6 DEF UpdateForm
  <2>2. address[e.form] = e.to \/ <<e.form, e.to>> \in overwritten'
    BY <1>6 DEF UpdateForm
  <2> QED
    BY <1>2, <1>3, <1>4, <2>1, <2>2 DEF ConfirmInv, TypeOK
<1> QED
  BY <1>4, <1>5, <1>6

LEMMA EditsConfirm ==
  ASSUME TypeOK, ConfirmInv, [Next]_vars
  PROVE  /\ \A f \in Forms : address'[f] = link'[f] \/ <<f, address'[f]>> \in overwritten'
         /\ \A f \in verified' : <<f, address'[f]>> \in confirmed' \cup overwritten'
         /\ confirmed \subseteq confirmed' /\ overwritten \subseteq overwritten'
<1> DEFINE Goal ==
      /\ \A f \in Forms : address'[f] = link'[f] \/ <<f, address'[f]>> \in overwritten'
      /\ \A f \in verified' : <<f, address'[f]>> \in confirmed' \cup overwritten'
      /\ confirmed \subseteq confirmed' /\ overwritten \subseteq overwritten'
<1>1. ASSUME NEW e \in updating, UpdateForm(e) PROVE Goal
  BY <1>1, UpdateConfirms
<1>2. ASSUME NEW f \in Forms, NEW a \in Addresses, VerifyForm(f, a) PROVE Goal
  <2>1. /\ address' = address /\ link' = link /\ overwritten' = overwritten
        /\ verified' = verified \cup {f} /\ confirmed' = confirmed \cup {<<f, a>>}
        /\ a = link[f] \/ a = address[f]
    BY <1>2 DEF VerifyForm
  <2>2. <<f, address[f]>> \in confirmed' \cup overwritten
    BY <2>1 DEF ConfirmInv
  <2> QED
    BY <2>1, <2>2 DEF ConfirmInv
<1>3. ASSUME UNCHANGED <<address, verified, link, confirmed, overwritten>> PROVE Goal
  BY <1>3 DEF ConfirmInv
<1> HIDE DEF Goal
<1>4. Goal
  BY <1>1, <1>2, <1>3, FormSteps DEF UpdateFormRead, EditChannel, formCols, formVals
<1> QED
  BY <1>4 DEF Goal

(* The mail of a submission goes to an address that the form's link was    *)
(* opened for: the address is read together with the verification, and an  *)
(* edit that changes the address takes the verification away.  The         *)
(* exception is an address that UpdateForm wrote over another one without  *)
(* a new token, its SELECT older than the other's UPDATE.                  *)
THEOREM MailsGoToConfirmed == Spec => []SendsToConfirmed
<1>1. Init => ConfirmInv
  BY IdleFields DEF Init, ConfirmInv, SendsToConfirmed
<1>2. TypeOK /\ ConfirmInv /\ [Next]_vars => ConfirmInv'
  <2> SUFFICES ASSUME TypeOK, ConfirmInv, [Next]_vars PROVE ConfirmInv'
    OBVIOUS
  <2>1. ASSUME NEW s \in Requests, req'[s].pc # "idle"
        PROVE  <<req'[s].form, req'[s].to>> \in confirmed' \cup overwritten'
    <3>1. \/ req'[s] = req[s] \/ req'[s] = Idle \/ Starts(s) \/ GoesOn(s)
      BY HandlerSteps
    <3> QED
      BY <2>1, <3>1, EditsConfirm, IdleFields
         DEF ConfirmInv, SendsToConfirmed, Starts, GoesOn, Kept
  <2> QED
    BY <2>1, EditsConfirm DEF ConfirmInv, SendsToConfirmed
<1> QED
  BY <1>1, <1>2, TypeCorrect, PTL DEF Spec, ConfirmInv

-----------------------------------------------------------------------------
(* A duplicate has its reason: the invariant is inductive as it stands.    *)
LEMMA JustifiedKept ==
  ASSUME TypeOK, DuplicateJustified, UNCHANGED <<dedup, lastRow, formOf, from>>,
         \A s \in Requests :
            req[s].pc = "insert" =>
               req'[s].pc = "insert" /\ req'[s].form = req[s].form /\ req'[s].by = req[s].by
  PROVE  DuplicateJustified'
  BY DEF DuplicateJustified, dedup

(* A step of the sending of one handler leaves the locals of the others    *)
(* alone.                                                                  *)
LEMMA SendTouchesOne ==
  ASSUME Locals, NEW r \in Requests, Send(r)
  PROVE  \A s \in Requests : s # r => req'[s] = req[s]
<1>1. \A c \in Channels : req[r].todo \ {c} \in SUBSET Channels
  BY Fields
<1>2. Own \cap enabled \in SUBSET Channels
  OBVIOUS
<1>3. \/ \E success \in BOOLEAN : MailOver(r, success)
      \/ \E place \in Places : Goto(r, place)
      \/ \E S \in SUBSET Channels : \/ req' = [req EXCEPT ![r].pc = "try", ![r].todo = S]
                                    \/ req[r].pc = "try" /\ req' = [req EXCEPT ![r].todo = S]
  BY <1>1, <1>2 DEF Send, ChooseChannel, ListChannels, BoundSendOk, BoundSendError, TryOk, TryError,
                    Places
<1>4. Others(r)
  BY <1>3, MailOverFields, GotoFields, TodoFields
<1> QED
  BY <1>4 DEF Others

(* Every action keeps every note justified.                                *)
LEMMA JustifiedStep == TypeOK /\ DuplicateJustified /\ [Next]_vars => DuplicateJustified'
<1> SUFFICES ASSUME TypeOK, DuplicateJustified, [Next]_vars PROVE DuplicateJustified'
  OBVIOUS
<1>0. Locals
  BY TypeParts DEF LocalsOK
<1>1. ASSUME NEW r \in Requests, NEW f \in Forms, NEW v \in Visitors, SubmitForm(r, f, v)
      PROVE  DuplicateJustified'
  <2>1. address[f] \in Addresses /\ bound[f] \in Channels \cup {Unbound}
    BY DEF TypeOK
  <2>2. Others(r) /\ req[r].pc = "idle"
    BY <1>0, <1>1, <2>1, SubmitFields DEF SubmitForm
  <2> QED
    BY <1>1, <2>2, JustifiedKept DEF SubmitForm, rowCols, Others
<1>2. ASSUME NEW r \in Requests, RefuseEarly(r) \/ Record(r) \/ RecordFails(r)
      PROVE  DuplicateJustified'
  <2>1. Return(r) /\ req[r].pc # "insert" /\ UNCHANGED <<dedup, lastRow, formOf, from>>
    BY <1>2 DEF RefuseEarly, Record, RecordFails, Respond, rowCols
  <2>2. Others(r)
    BY <1>0, <2>1, ReturnFields
  <2> QED
    BY <2>1, <2>2, JustifiedKept DEF Others
<1>3. ASSUME NEW r \in Requests, CheckDuplicateSubmit(r) PROVE DuplicateJustified'
  <2> DEFINE new == <<req[r].form, req[r].by>>
  <2>1. /\ Others(r) /\ Kept(r) /\ req'[r].pc = "insert"
        /\ req[r].pc = "check" /\ noted' = noted \cup {new}
        /\ UNCHANGED <<bounced, lastRow, formOf, from>>
    BY <1>0, <1>3, GotoFields DEF CheckDuplicateSubmit, Places, rowCols
  <2>2. <<req'[r].form, req'[r].by>> = new
    BY <2>1 DEF Kept
  <2> HIDE DEF new
  <2>3. \A key \in noted' :
          \/ key = new
          \/ \E i \in 1..lastRow : <<formOf[i], from[i]>> = key
          \/ \E s \in Requests : req[s].pc = "insert" /\ <<req[s].form, req[s].by>> = key
          \/ key \in bounced
    BY <2>1 DEF DuplicateJustified
  <2>4. \A s \in Requests : req[s].pc = "insert" => req'[s] = req[s]
    BY <2>1 DEF Others
  <2> QED
    BY <2>1, <2>2, <2>3, <2>4 DEF DuplicateJustified
<1>4. ASSUME NEW r \in Requests, Refuse(r) PROVE DuplicateJustified'
  <2> DEFINE old == <<req[r].form, req[r].by>>
  <2>1. /\ Others(r) /\ noted' = noted /\ bounced' = bounced \cup ({old} \cap noted)
        /\ UNCHANGED <<lastRow, formOf, from>>
    BY <1>0, <1>4, ReturnFields DEF Refuse, rowCols
  <2>2. \A s \in Requests : s = r \/ req'[s] = req[s]
    BY <2>1 DEF Others
  <2>3. \A key \in noted, s \in Requests :
           req[s].pc = "insert" /\ <<req[s].form, req[s].by>> = key =>
              \/ key = old
              \/ req'[s].pc = "insert" /\ <<req'[s].form, req'[s].by>> = key
    BY <2>2
  <2> HIDE DEF old
  <2> QED
    BY <2>1, <2>3 DEF DuplicateJustified
<1>5. ASSUME NEW r \in Requests, NEW isSpam \in BOOLEAN, Insert(r, isSpam)
      PROVE  DuplicateJustified'
  <2> DEFINE old == <<req[r].form, req[r].by>>
             n   == lastRow + 1
  <2>1. n \in Rows /\ lastRow \in Nat
    BY <1>5 DEF Insert, TypeOK
  <2>2. /\ Others(r) /\ lastRow' = n /\ UNCHANGED <<noted, bounced>>
        /\ formOf' = [formOf EXCEPT ![n] = req[r].form] /\ from' = [from EXCEPT ![n] = req[r].by]
    BY <1>0, <1>5, <2>1, InsertFields DEF Insert, dedup
  <2>3. /\ <<formOf'[n], from'[n]>> = old /\ n \in 1..lastRow'
        /\ \A i \in 1..lastRow : /\ i \in 1..lastRow'
                                 /\ <<formOf'[i], from'[i]>> = <<formOf[i], from[i]>>
    BY <2>1, <2>2 DEF TypeOK
  <2>4. \A key \in noted, s \in Requests :
           req[s].pc = "insert" /\ <<req[s].form, req[s].by>> = key =>
              \/ key = old
              \/ req'[s].pc = "insert" /\ <<req'[s].form, req'[s].by>> = key
    BY <2>2 DEF Others
  <2> HIDE DEF old, n
  <2> QED
    BY <2>2, <2>3, <2>4 DEF DuplicateJustified
<1>6. ASSUME NEW r \in Requests, Send(r) PROVE DuplicateJustified'
  <2>1. /\ req[r].pc \in {"choose", "list", "bound", "try"}
        /\ UNCHANGED <<dedup, lastRow, formOf, from>>
    BY <1>6 DEF Send, ChooseChannel, ListChannels, BoundSendOk, BoundSendError, TryOk, TryError,
                rowCols
  <2>2. \A s \in Requests : s # r => req'[s] = req[s]
    BY <1>6, <1>0, SendTouchesOne
  <2> QED
    BY <2>1, <2>2, JustifiedKept
<1>7. ASSUME NEW key \in noted, Lapse(key) PROVE DuplicateJustified'
  BY <1>7 DEF Lapse, DuplicateJustified, rowCols
<1>8. ASSUME Restart PROVE DuplicateJustified'
  BY <1>8 DEF Restart, DuplicateJustified
<1>9. ASSUME UNCHANGED <<req, dedup, lastRow, formOf, from>> PROVE DuplicateJustified'
  BY <1>9, JustifiedKept
<1>10. ASSUME NEW r \in Requests, NEW i \in Rows, SendWebhook(i, r) PROVE DuplicateJustified'
  BY <1>10, <1>9 DEF SendWebhook, rowCols
<1>11. ASSUME Owner PROVE DuplicateJustified'
  BY <1>11, <1>9 DEF Owner, DeleteSubmissions, UpdateFormRead, UpdateForm, VerifyForm, EditChannel, rowCols
<1>12. ASSUME UNCHANGED vars PROVE DuplicateJustified'
  BY <1>12, <1>9 DEF vars, rowCols
<1> QED
  BY <1>1, <1>2, <1>3, <1>4, <1>5, <1>6, <1>7, <1>8, <1>10, <1>11, <1>12 DEF Next, Handle

(* Nobody is refused as a duplicate without having submitted the same      *)
(* before: the note of checkDuplicateSubmit stands for a row that was      *)
(* inserted, a handler on its way to the INSERT, or a later refusal.       *)
THEOREM DuplicatesAreJustified == Spec => []DuplicateJustified
<1>1. Init => DuplicateJustified
  BY DEF Init, DuplicateJustified
<1> QED
  BY <1>1, JustifiedStep, TypeCorrect, PTL DEF Spec

-----------------------------------------------------------------------------
(* How the channels that took a form's mail change.                        *)
LEMMA TookKept ==
  ASSUME UNCHANGED took
  PROVE  \A i, c : Took(i, c)' <=> Took(i, c)
  BY DEF Took

LEMMA TookNew ==
  ASSUME TypeOK, NEW r \in Requests, NEW c \in Channels, req[r].row \in Rows, Acknowledge(r, c)
  PROVE  \A i \in Rows, d \in Channels :
            Took(i, d)' <=> Took(i, d) \/ (i = req[r].row /\ req[r].kind = "main" /\ d = c)
<1> SUFFICES ASSUME NEW i \in Rows, NEW d \in Channels
             PROVE  Took(i, d)' <=> Took(i, d) \/ (i = req[r].row /\ req[r].kind = "main" /\ d = c)
  OBVIOUS
<1>1. req[r].kind \in Kinds
  BY Fields, TypeParts DEF LocalsOK
<1>2. took \in [Rows \X Kinds -> Seq(Channels)] /\ <<i, "main">> \in Rows \X Kinds
  BY DEF TypeOK
<1>3. took' = [took EXCEPT ![<<req[r].row, req[r].kind>>] = Append(@, c)]
  BY DEF Acknowledge
<1>4. CASE i = req[r].row /\ req[r].kind = "main"
  <2> DEFINE old == took[<<i, "main">>]
  <2>1. took'[<<i, "main">>] = Append(old, c)
    BY <1>2, <1>3, <1>4, TookOneMore
  <2>2. old \in Seq(Channels)
    BY <1>2
  <2> HIDE DEF old
  <2>3. (\E n \in DOMAIN Append(old, c) : Append(old, c)[n] = d)
           <=> (\E n \in DOMAIN old : old[n] = d) \/ d = c
    <3>1. /\ DOMAIN Append(old, c) = 1..(Len(old) + 1) /\ DOMAIN old = 1..Len(old)
          /\ Len(old) \in Nat
          /\ \A n \in 1..Len(old) : Append(old, c)[n] = old[n]
          /\ Append(old, c)[Len(old) + 1] = c
      BY <2>2
    <3> QED
      BY <3>1
  <2> QED
    BY <1>4, <2>1, <2>3 DEF Took, old
<1>5. CASE ~(i = req[r].row /\ req[r].kind = "main")
  <2>1. <<i, "main">> # <<req[r].row, req[r].kind>>
    BY <1>5
  <2>2. took'[<<i, "main">>] = took[<<i, "main">>]
    BY <1>1, <1>2, <1>3, <2>1, TookOneMore
  <2> QED
    BY <1>5, <2>2 DEF Took
<1> QED
  BY <1>4, <1>5

(* The logs only grow; what a step adds to the outcomes and to the failed  *)
(* attempts has a log of its own.                                          *)
LEMMA LogInvStep ==
  ASSUME TypeOK, LogInv, faults' = 0 => faults = 0, logs \subseteq logs',
         \A i \in Rows, c \in Channels : Took(i, c) => Took(i, c)',
         \A s \in Requests : faults' = 0 /\ Past(s)' /\ req'[s].sent =>
            \/ Past(s) /\ req[s].sent /\ req'[s].row = req[s].row
            \/ Witnessed(req[s].row)',
         \A i \in sent' : i \in sent \/ \E s \in Requests :
            Past(s) /\ req[s].sent /\ i = req[s].row,
         \A m \in refused' : m \in refused \/ faults' # 0 \/ <<m[1], m[2], FALSE>> \in logs'
  PROVE  LogInv'
<1> SUFFICES ASSUME faults' = 0
             PROVE  /\ \A s \in Requests : Past(s)' /\ req'[s].sent => Witnessed(req[s].row)'
                    /\ \A i \in sent' : Witnessed(i)'
                    /\ \A m \in refused' : <<m[1], m[2], FALSE>> \in logs'
  BY DEF LogInv, LogsComplete, Witnessed
<1>1. /\ \A s \in Requests : Past(s) /\ req[s].sent => Witnessed(req[s].row)
      /\ \A i \in sent : Witnessed(i)
      /\ \A m \in refused : <<m[1], m[2], FALSE>> \in logs
  BY DEF LogInv, LogsComplete, Witnessed
<1>2. \A i \in Rows : Witnessed(i) => Witnessed(i)'
  BY DEF Witnessed
<1>3. sent \subseteq Rows /\ \A s \in Requests : Past(s) => req[s].row \in Rows
  BY TypeParts DEF LocalsOK, RowsOK, Past
<1>4. \A i \in sent' : Witnessed(i)'
  BY <1>1, <1>2, <1>3
<1>5. ASSUME NEW s \in Requests, Past(s)', req'[s].sent
      PROVE  Witnessed(req[s].row)'
  <2>1. CASE Past(s) /\ req[s].sent /\ req'[s].row = req[s].row
    BY <1>1, <1>2, <1>3, <2>1 DEF Witnessed
  <2> QED
    BY <1>5, <2>1
<1> QED
  BY <1>1, <1>4, <1>5

(* A handler goes on or ends, and neither sends nor writes anything.       *)
LEMMA LogInvMove ==
  ASSUME TypeOK, LogInv, UNCHANGED <<logs, took, refused>>, faults' = 0 => faults = 0,
         sent' \subseteq sent,
         \A s \in Requests : Past(s)' /\ req'[s].sent =>
            Past(s) /\ req[s].sent /\ req'[s].row = req[s].row
  PROVE  LogInv'
  BY LogInvStep, TookKept

(* What the INSERT into email_logs does, if it does not fail.              *)
LEMMA LogFields ==
  ASSUME TypeOK, NEW i, NEW c, NEW success, Log(i, c, success)
  PROVE  /\ logs \subseteq logs'
         /\ faults' = 0 => faults = 0 /\ <<i, c, success>> \in logs'
<1>1. faults \in Nat
  BY DEF TypeOK
<1>2. CASE logs' = logs \cup {<<i, c, success>>} /\ UNCHANGED faults
  BY <1>2
<1>3. CASE Faulty /\ UNCHANGED logs
  <2>1. faults' # 0
    BY <1>1, <1>3 DEF Faulty
  <2> QED
    BY <1>3, <2>1
<1> QED
  BY <1>2, <1>3 DEF Log

(* A mail is taken, or an attempt fails, and is logged if it is the form's.*)
LEMMA LogInvTook ==
  ASSUME TypeOK, LogInv, NEW r \in Requests, NEW c \in Channels, Sending(r),
         Acknowledge(r, c), MailOver(r, TRUE), UNCHANGED sent,
         \/ Log(req[r].row, c, TRUE)
         \/ req[r].kind = "reply" /\ UNCHANGED <<logs, faults>>
  PROVE  LogInv'
<1>0. Locals /\ req[r].kind \in Kinds /\ req[r].row \in Rows /\ Past(r)
  BY Fields, TypeParts DEF LocalsOK, RowsOK, Sending, Past
<1>1. \A i \in Rows, d \in Channels :
         Took(i, d)' <=> Took(i, d) \/ (i = req[r].row /\ req[r].kind = "main" /\ d = c)
  BY <1>0, TookNew
<1>2. /\ Others(r) /\ req'[r].row = req[r].row
      /\ req[r].kind = "reply" => req'[r].sent = req[r].sent
  BY <1>0, MailOverFields
<1>3. logs \subseteq logs' /\ refused' = refused /\ (faults' = 0 => faults = 0)
  BY LogFields DEF Acknowledge
<1>4. CASE req[r].kind = "reply"
  <2>1. \A s \in Requests : Past(s)' /\ req'[s].sent =>
           Past(s) /\ req[s].sent /\ req'[s].row = req[s].row
    BY <1>0, <1>2, <1>4 DEF Others, Past
  <2> QED
    BY <1>1, <1>3, <2>1, LogInvStep
<1>5. CASE req[r].kind = "main"
  <2>1. faults' = 0 => <<req[r].row, c, TRUE>> \in logs'
    BY <1>5, LogFields
  <2>2. faults' = 0 => Witnessed(req[r].row)'
    BY <1>0, <1>1, <1>2, <1>5, <2>1 DEF Witnessed
  <2>3. \A s \in Requests : faults' = 0 /\ Past(s)' /\ req'[s].sent =>
            \/ Past(s) /\ req[s].sent /\ req'[s].row = req[s].row
            \/ Witnessed(req[s].row)'
    <3> SUFFICES ASSUME NEW s \in Requests, faults' = 0, Past(s)', req'[s].sent
                 PROVE  \/ Past(s) /\ req[s].sent /\ req'[s].row = req[s].row
                        \/ Witnessed(req[s].row)'
      OBVIOUS
    <3>1. CASE s = r
      BY <2>2, <3>1
    <3>2. CASE s # r
      BY <1>2, <3>2 DEF Others, Past
    <3> QED
      BY <3>1, <3>2
  <2> QED
    BY <1>1, <1>3, <2>3, LogInvStep
<1> QED
  BY <1>0, <1>4, <1>5

LEMMA LogInvFailed ==
  ASSUME TypeOK, LogInv, NEW r \in Requests, NEW c \in Channels,
         Fail(r, c), UNCHANGED sent,
         \/ Log(req[r].row, c, FALSE)
         \/ req[r].kind # "main" /\ UNCHANGED <<logs, faults>>,
         \A s \in Requests : Past(s)' /\ req'[s].sent =>
            Past(s) /\ req[s].sent /\ req'[s].row = req[s].row
  PROVE  LogInv'
<1>1. logs \subseteq logs' /\ took' = took /\ (faults' = 0 => faults = 0)
  BY LogFields DEF Fail
<1>2. \A m \in refused' : m \in refused \/ faults' # 0 \/ <<m[1], m[2], FALSE>> \in logs'
  <2>1. CASE req[r].kind = "main"
    <3>1. faults' = 0 => <<req[r].row, c, FALSE>> \in logs'
      BY <2>1, LogFields
    <3> DEFINE new == <<req[r].row, c>>
    <3>2. refused' = refused \cup {new} /\ new[1] = req[r].row /\ new[2] = c
      BY <2>1 DEF Fail
    <3> HIDE DEF new
    <3>3. SUFFICES ASSUME NEW m \in refused', m = new, faults' = 0
                   PROVE  <<m[1], m[2], FALSE>> \in logs'
      BY <3>2
    <3> QED
      BY <3>1, <3>2, <3>3
  <2>2. CASE req[r].kind # "main"
    BY <2>2 DEF Fail
  <2> QED
    BY <2>1, <2>2
<1> QED
  BY <1>1, <1>2, LogInvStep, TookKept

(* Every action keeps the logs complete while no statement fails.          *)
LEMMA LogStep == TypeOK /\ SendInv /\ LogInv /\ [Next]_vars => LogInv'
<1> SUFFICES ASSUME TypeOK, SendInv, LogInv, [Next]_vars PROVE LogInv'
  OBVIOUS
<1>0. Locals
  BY TypeParts DEF LocalsOK
<1> DEFINE Quiet == \A s \in Requests : Past(s)' /\ req'[s].sent =>
                       Past(s) /\ req[s].sent /\ req'[s].row = req[s].row
<1>q. ASSUME NEW r \in Requests, Others(r),
             Past(r)' /\ req'[r].sent => Past(r) /\ req[r].sent /\ req'[r].row = req[r].row
      PROVE  Quiet
  BY <1>q DEF Others, Past
<1>i. ASSUME NEW r \in Requests, Return(r) PROVE Quiet
  BY <1>i, <1>0, <1>q, ReturnFields, IdleFields
<1>g. ASSUME NEW r \in Requests, NEW place \in Places, Goto(r, place), Past(r) PROVE Quiet
  BY <1>g, <1>0, <1>q, GotoFields
<1>m. ASSUME NEW r \in Requests, MailOver(r, FALSE), Sending(r) PROVE Quiet
  BY <1>m, <1>0, <1>q, MailOverFields, Fields DEF Past, Sending
<1>t. ASSUME NEW r \in Requests, NEW S \in SUBSET Channels, Past(r),
             \/ req' = [req EXCEPT ![r].pc = "try", ![r].todo = S]
             \/ req[r].pc = "try" /\ req' = [req EXCEPT ![r].todo = S]
      PROVE  Quiet
  BY <1>t, <1>0, <1>q, TodoFields
<1> HIDE DEF Quiet
<1>s. ASSUME Quiet, UNCHANGED <<logs, took, refused>>, faults' = 0 => faults = 0,
             sent' \subseteq sent
      PROVE  LogInv'
  BY <1>s, LogInvMove DEF Quiet
<1>1. ASSUME NEW r \in Requests, NEW f \in Forms, NEW v \in Visitors, SubmitForm(r, f, v)
      PROVE  LogInv'
  <2>1. address[f] \in Addresses /\ bound[f] \in Channels \cup {Unbound}
    BY DEF TypeOK
  <2>2. Others(r) /\ ~req'[r].sent
    BY <1>0, <1>1, <2>1, SubmitFields
  <2>3. Quiet
    BY <2>2, <1>q
  <2> QED
    BY <1>1, <2>3, <1>s DEF SubmitForm, rowCols, sends
<1>2. ASSUME NEW r \in Requests, RefuseEarly(r) \/ Refuse(r) \/ RecordFails(r) PROVE LogInv'
  <2>1. Quiet
    BY <1>2, <1>i DEF RefuseEarly, Refuse, RecordFails, Respond
  <2> QED
    BY <1>2, <2>1, <1>s DEF RefuseEarly, Refuse, RecordFails, Faulty, rowCols, sends, TypeOK
<1>3. ASSUME NEW r \in Requests, CheckDuplicateSubmit(r) PROVE LogInv'
  <2>1. Others(r) /\ req'[r].pc = "insert"
    BY <1>0, <1>3, GotoFields DEF CheckDuplicateSubmit, Places
  <2>2. Quiet
    BY <2>1, <1>q DEF Past
  <2> QED
    BY <1>3, <2>2, <1>s DEF CheckDuplicateSubmit, rowCols, sends
<1>4. ASSUME NEW r \in Requests, NEW isSpam \in BOOLEAN, Insert(r, isSpam) PROVE LogInv'
  <2>1. lastRow + 1 \in Rows
    BY <1>4 DEF Insert, TypeOK
  <2>2. Others(r) /\ req'[r].sent = req[r].sent
    BY <1>0, <1>4, <2>1, InsertFields
  <2>3. ~req[r].sent
    BY <1>4 DEF Insert, SendInv, HandlerAccounts, Past
  <2>4. Quiet
    BY <2>2, <2>3, <1>q
  <2> QED
    BY <1>4, <2>4, <1>s DEF Insert, sends
<1>5. ASSUME NEW r \in Requests, ChooseChannel(r) PROVE LogInv'
  <2>1. Quiet
    BY <1>5, <1>g DEF ChooseChannel, Places, Past
  <2> QED
    BY <1>5, <2>1, <1>s DEF ChooseChannel, rowCols, sends
<1>6. ASSUME NEW r \in Requests, ListChannels(r) PROVE LogInv'
  <2>1. Sending(r) /\ Past(r) /\ Own \cap enabled \in SUBSET Channels
    BY <1>6 DEF ListChannels, Sending, Past
  <2>2. Quiet
    BY <1>6, <2>1, <1>m, <1>t DEF ListChannels
  <2> QED
    BY <1>6, <2>2, <1>s DEF ListChannels, rowCols, sends
<1>7. ASSUME NEW r \in Requests, BoundSendOk(r) PROVE LogInv'
  <2>1. /\ Sending(r) /\ Acknowledge(r, req[r].bound) /\ MailOver(r, TRUE) /\ UNCHANGED sent
        /\ req[r].bound \in Channels
    BY <1>7, TypeParts DEF BoundSendOk, Sending, rowCols, LocalsOK
  <2>2. \/ Log(req[r].row, req[r].bound, TRUE)
        \/ req[r].kind = "reply" /\ UNCHANGED <<logs, faults>>
    BY <1>7, <1>0, Fields DEF BoundSendOk, BoundLog
  <2> QED
    BY <2>1, <2>2, LogInvTook
<1>8. ASSUME NEW r \in Requests, BoundSendError(r) PROVE LogInv'
  <2>1. /\ Fail(r, req[r].bound) /\ UNCHANGED sent /\ req[r].bound \in Channels
        /\ \/ Log(req[r].row, req[r].bound, FALSE)
           \/ req[r].kind # "main" /\ UNCHANGED <<logs, faults>>
    BY <1>8, TypeParts DEF BoundSendError, BoundLog, rowCols, LocalsOK
  <2>2. Quiet
    BY <1>8, <1>g DEF BoundSendError, Places, Past
  <2> QED
    BY <2>1, <2>2, LogInvFailed DEF Quiet
<1>9. ASSUME NEW r \in Requests, NEW c \in Channels, TryOk(r, c) PROVE LogInv'
  <2>1. /\ Sending(r) /\ Acknowledge(r, c) /\ MailOver(r, TRUE) /\ UNCHANGED sent
        /\ Log(req[r].row, c, TRUE)
    BY <1>9 DEF TryOk, Sending, rowCols
  <2> QED
    BY <2>1, LogInvTook
<1>10. ASSUME NEW r \in Requests, NEW c \in Channels, TryError(r, c) PROVE LogInv'
  <2> DEFINE rest == req[r].todo \ {c}
  <2>1. rest \in SUBSET Channels
    BY <1>0, Fields
  <2>2. /\ Fail(r, c) /\ UNCHANGED sent /\ Log(req[r].row, c, FALSE)
        /\ Sending(r) /\ Past(r) /\ req[r].pc = "try"
        /\ MailOver(r, FALSE) \/ req' = [req EXCEPT ![r].todo = rest]
    BY <1>10 DEF TryError, Sending, Past, rowCols
  <2>3. Quiet
    BY <2>1, <2>2, <1>m, <1>t
  <2> QED
    BY <2>2, <2>3, LogInvFailed DEF Quiet
<1>11. ASSUME NEW r \in Requests, Record(r) PROVE LogInv'
  <2>1. Return(r) /\ Past(r) /\ UNCHANGED <<logs, took, refused, faults>>
        /\ sent' \subseteq sent \cup (IF req[r].sent THEN {req[r].row} ELSE {})
    BY <1>11 DEF Record, Respond, Past, sends
  <2>2. Quiet
    BY <2>1, <1>i
  <2>3. \A i \in sent' : i \in sent \/ \E s \in Requests :
            Past(s) /\ req[s].sent /\ i = req[s].row
    BY <2>1
  <2> QED
    BY <2>1, <2>2, <2>3, LogInvStep, TookKept DEF Quiet
<1>12. ASSUME Restart PROVE LogInv'
  BY <1>12 DEF Restart, Faulty, LogInv, TypeOK
<1>13. ASSUME UNCHANGED <<req, sends, faults>>, sent' \subseteq sent PROVE LogInv'
  <2>1. Quiet
    BY <1>13 DEF Quiet, Past
  <2> QED
    BY <1>13, <2>1, <1>s DEF sends
<1>14. ASSUME NEW r \in Requests, Handle(r) PROVE LogInv'
  BY <1>14, <1>2, <1>3, <1>4, <1>5, <1>6, <1>7, <1>8, <1>9, <1>10, <1>11 DEF Handle, Send
<1>15. ASSUME NEW r \in Requests, NEW i \in Rows, SendWebhook(i, r) PROVE LogInv'
  BY <1>15, <1>13 DEF SendWebhook, rowCols
<1>16. ASSUME NEW key \in noted, Lapse(key) PROVE LogInv'
  BY <1>16, <1>13 DEF Lapse, rowCols
<1>17. ASSUME Owner PROVE LogInv'
  BY <1>17, <1>13 DEF Owner, DeleteSubmissions, UpdateFormRead, UpdateForm, VerifyForm, EditChannel, rowCols
<1>18. ASSUME UNCHANGED vars PROVE LogInv'
  BY <1>18, <1>13 DEF vars, rowCols
<1> QED
  BY <1>1, <1>12, <1>14, <1>15, <1>16, <1>17, <1>18 DEF Next

(* While no statement fails, the e-mail logs tell the whole story: a row   *)
(* that says its mail was sent has the log of the channel that took it,    *)
(* and every failed attempt is logged.                                     *)
THEOREM LogsTellTheSends == Spec => []LogsComplete
<1>1. Init => LogInv
  BY IdleFields DEF Init, LogInv, LogsComplete, Past
<1>2. TypeOK /\ LogInv => LogsComplete
  BY DEF LogInv, LogsComplete
<1> QED
  BY <1>1, <1>2, SendInvInit, SendStep, LogStep, TypeCorrect, PTL DEF Spec

-----------------------------------------------------------------------------
(* The outcome in a row is that of the form's mail.  Steps that leave the  *)
(* rows and the form's mails alone keep it as long as no handler takes a   *)
(* row up that has its outcome.                                            *)
LEMMA OutcomeKept ==
  ASSUME TypeOK, OutcomeInv, UNCHANGED spam, sent' \subseteq sent, error' \subseteq error,
         \A i \in Rows : Copies(i, "main")' = Copies(i, "main"),
         \A s \in Requests : Past(s)' => Past(s) /\ req'[s].row = req[s].row
  PROVE  OutcomeInv'
<1>1. sent \subseteq Rows /\ error \subseteq Rows /\ spam \subseteq Rows
  BY TypeParts DEF RowsOK
<1>2. /\ sent' \cap error' = {} /\ sent' \cap spam' = {}
      /\ \A s \in Requests : Past(s)' => req'[s].row \notin sent' \cup (error' \ spam')
  BY DEF OutcomeInv
<1>3. /\ \A i \in sent' : Copies(i, "main")' = 1
      /\ \A i \in error' \cup spam' : Copies(i, "main")' = 0
  BY <1>1 DEF OutcomeInv
<1> QED
  BY <1>2, <1>3 DEF OutcomeInv

(* The row of a submission has its handler to itself, and lies below       *)
(* lastRow.                                                                *)
LEMMA RowsOfHandlers ==
  ASSUME TypeOK, NEW r \in Requests, Past(r)
  PROVE  req[r].row \in Rows /\ req[r].row \in 1..lastRow
  BY TypeParts DEF LocalsOK, RowsOK, Past

LEMMA OutcomeStep == TypeOK /\ SendInv /\ OutcomeInv /\ [Next]_vars => OutcomeInv'
<1> SUFFICES ASSUME TypeOK, SendInv, OutcomeInv, [Next]_vars PROVE OutcomeInv'
  OBVIOUS
<1>0. Locals
  BY TypeParts DEF LocalsOK
<1> DEFINE Quiet == \A s \in Requests : Past(s)' => Past(s) /\ req'[s].row = req[s].row
<1>q. ASSUME NEW r \in Requests, Others(r), Past(r)' => Past(r) /\ req'[r].row = req[r].row
      PROVE  Quiet
  BY <1>q DEF Others, Past
<1>i. ASSUME NEW r \in Requests, Return(r) PROVE Quiet
  BY <1>i, <1>0, <1>q, ReturnFields, IdleFields DEF Past
<1>g. ASSUME NEW r \in Requests, NEW place \in Places, Goto(r, place), Past(r) PROVE Quiet
  BY <1>g, <1>0, <1>q, GotoFields
<1>m. ASSUME NEW r \in Requests, NEW success \in BOOLEAN, MailOver(r, success), Past(r)
      PROVE  Quiet
  BY <1>m, <1>0, <1>q, MailOverFields
<1>t. ASSUME NEW r \in Requests, NEW S \in SUBSET Channels, Past(r),
             \/ req' = [req EXCEPT ![r].pc = "try", ![r].todo = S]
             \/ req[r].pc = "try" /\ req' = [req EXCEPT ![r].todo = S]
      PROVE  Quiet
  BY <1>t, <1>0, <1>q, TodoFields
<1> HIDE DEF Quiet
<1>s. ASSUME Quiet, UNCHANGED <<spam, took>>, sent' \subseteq sent, error' \subseteq error
      PROVE  OutcomeInv'
  <2>1. \A i \in Rows : Copies(i, "main")' = Copies(i, "main")
    BY <1>s, CopiesKept
  <2> QED
    BY <1>s, <2>1, OutcomeKept DEF Quiet
<1>1. ASSUME NEW r \in Requests, NEW f \in Forms, NEW v \in Visitors, SubmitForm(r, f, v)
      PROVE  OutcomeInv'
  <2>1. address[f] \in Addresses /\ bound[f] \in Channels \cup {Unbound}
    BY DEF TypeOK
  <2>2. Others(r) /\ req'[r].pc = "check"
    BY <1>0, <1>1, <2>1, SubmitFields
  <2>3. Quiet
    BY <2>2, <1>q DEF Past
  <2> QED
    BY <1>1, <2>3, <1>s DEF SubmitForm, rowCols, sends
<1>2. ASSUME NEW r \in Requests, RefuseEarly(r) \/ Refuse(r) \/ RecordFails(r) PROVE OutcomeInv'
  <2>1. Quiet
    BY <1>2, <1>i DEF RefuseEarly, Refuse, RecordFails, Respond
  <2> QED
    BY <1>2, <2>1, <1>s DEF RefuseEarly, Refuse, RecordFails, rowCols, sends
<1>3. ASSUME NEW r \in Requests, CheckDuplicateSubmit(r) PROVE OutcomeInv'
  <2>1. Others(r) /\ req'[r].pc = "insert"
    BY <1>0, <1>3, GotoFields DEF CheckDuplicateSubmit, Places
  <2>2. Quiet
    BY <2>1, <1>q DEF Past
  <2> QED
    BY <1>3, <2>2, <1>s DEF CheckDuplicateSubmit, rowCols, sends
<1>4. ASSUME NEW r \in Requests, NEW isSpam \in BOOLEAN, Insert(r, isSpam) PROVE OutcomeInv'
  <2> DEFINE i == lastRow + 1
  <2>1. i \in Rows /\ lastRow \in Nat /\ i \notin 1..lastRow /\ i > lastRow
    BY <1>4 DEF Insert, TypeOK
  <2>2. Others(r) /\ req'[r].row = i
    BY <1>0, <1>4, <2>1, InsertFields
  <2>3. /\ spam' = (IF isSpam THEN spam \cup {i} ELSE spam)
        /\ error' = (IF isSpam THEN error \cup {i} ELSE error)
        /\ UNCHANGED <<sent, took>>
    BY <1>4 DEF Insert, sends
  <2> HIDE DEF i
  <2>4. i \notin sent /\ i \notin error /\ i \notin spam
    BY <2>1 DEF TypeOK
  <2>5. Copies(i, "main") = 0
    BY <2>1 DEF SendInv, RowAccounts
  <2>6. \A j : Copies(j, "main")' = Copies(j, "main")
    BY <2>3, CopiesKept
  <2>7. \A s \in Requests : Past(s) /\ s # r => Past(s)' /\ req'[s] = req[s] /\ req[s].row # i
    BY <2>1, <2>2, RowsOfHandlers DEF Others, Past
  <2>8. \A s \in Requests : Past(s)' => req'[s].row \notin sent' \cup (error' \ spam')
    <3> SUFFICES ASSUME NEW s \in Requests, Past(s)'
                 PROVE  req'[s].row \notin sent' \cup (error' \ spam')
      OBVIOUS
    <3>1. CASE s = r
      BY <2>2, <2>3, <2>4, <3>1
    <3>2. CASE s # r
      <4>1. Past(s) /\ req'[s] = req[s]
        BY <2>2, <3>2 DEF Others, Past
      <4> QED
        BY <2>3, <2>7, <3>2, <4>1 DEF OutcomeInv
    <3> QED
      BY <3>1, <3>2
  <2> QED
    BY <2>3, <2>4, <2>5, <2>6, <2>8 DEF OutcomeInv
<1>5. ASSUME NEW r \in Requests, ChooseChannel(r) PROVE OutcomeInv'
  <2>1. Quiet
    BY <1>5, <1>g DEF ChooseChannel, Places, Past
  <2> QED
    BY <1>5, <2>1, <1>s DEF ChooseChannel, rowCols, sends
<1>6. ASSUME NEW r \in Requests, ListChannels(r) PROVE OutcomeInv'
  <2>1. Past(r) /\ Own \cap enabled \in SUBSET Channels
    BY <1>6 DEF ListChannels, Past
  <2>2. Quiet
    BY <1>6, <2>1, <1>m, <1>t DEF ListChannels
  <2> QED
    BY <1>6, <2>2, <1>s DEF ListChannels, rowCols, sends
<1>7. ASSUME NEW r \in Requests, NEW c \in Channels, Acknowledge(r, c), MailOver(r, TRUE),
             Sending(r), UNCHANGED rowCols
      PROVE  OutcomeInv'
  <2>1. Past(r) /\ req[r].row \in Rows /\ req[r].kind \in Kinds
    BY <1>0, <1>7, RowsOfHandlers, Fields DEF Past, Sending
  <2>2. Quiet
    BY <1>7, <2>1, <1>m
  <2>3. \A i \in Rows : Copies(i, "main")' = IF i = req[r].row /\ "main" = req[r].kind
                                             THEN Copies(i, "main") + 1 ELSE Copies(i, "main")
    BY <1>7, <2>1, CopiesOneMore
  <2>4. CASE req[r].kind = "reply"
    BY <1>7, <2>2, <2>3, <2>4, OutcomeKept DEF Quiet, rowCols
  <2>5. CASE req[r].kind = "main"
    <3>1. req[r].row \notin sent /\ req[r].row \notin error /\ req[r].row \notin spam
      BY <1>7, <2>1, <2>5 DEF OutcomeInv, SendInv, HandlerAccounts, Sending
    <3>2. \A i \in Rows : i # req[r].row => Copies(i, "main")' = Copies(i, "main")
      BY <2>3
    <3>3. sent \subseteq Rows /\ error \subseteq Rows /\ spam \subseteq Rows
      BY TypeParts DEF RowsOK
    <3>4. /\ \A i \in sent : Copies(i, "main")' = 1
          /\ \A i \in error \cup spam : Copies(i, "main")' = 0
      BY <3>1, <3>2, <3>3 DEF OutcomeInv
    <3> QED
      BY <1>7, <2>2, <3>4 DEF OutcomeInv, rowCols, Quiet
  <2> QED
    BY <2>1, <2>4, <2>5
<1>8. ASSUME NEW r \in Requests, BoundSendOk(r) PROVE OutcomeInv'
  BY <1>7, <1>8, TypeParts DEF BoundSendOk, Sending, LocalsOK
<1>9. ASSUME NEW r \in Requests, BoundSendError(r) PROVE OutcomeInv'
  <2>1. Quiet
    BY <1>9, <1>g DEF BoundSendError, Places, Past
  <2> QED
    BY <1>9, <2>1, <1>s DEF BoundSendError, Fail, rowCols
<1>10. ASSUME NEW r \in Requests, NEW c \in Channels, TryOk(r, c) PROVE OutcomeInv'
  BY <1>7, <1>10 DEF TryOk, Sending
<1>11. ASSUME NEW r \in Requests, NEW c \in Channels, TryError(r, c) PROVE OutcomeInv'
  <2> DEFINE rest == req[r].todo \ {c}
  <2>1. rest \in SUBSET Channels
    BY <1>0, Fields
  <2>2. /\ Fail(r, c) /\ UNCHANGED rowCols /\ Past(r) /\ req[r].pc = "try"
        /\ MailOver(r, FALSE) \/ req' = [req EXCEPT ![r].todo = rest]
    BY <1>11 DEF TryError, Past
  <2>3. Quiet
    BY <2>1, <2>2, <1>m, <1>t
  <2> QED
    BY <2>2, <2>3, <1>s DEF Fail, rowCols
<1>12. ASSUME NEW r \in Requests, Record(r) PROVE OutcomeInv'
  <2> DEFINE i == req[r].row
  <2>1. /\ Return(r) /\ Past(r) /\ req[r].pc = "record" /\ UNCHANGED <<spam, took>>
        /\ sent' = (IF i \in stored /\ req[r].sent THEN sent \cup {i} ELSE sent)
        /\ error' = (IF i \in stored /\ ~req[r].sent THEN error \cup {i} ELSE error)
    BY <1>12 DEF Record, Respond, Past, sends
  <2>2. Quiet /\ ~Past(r)'
    BY <1>0, <2>1, <1>i, ReturnFields, IdleFields DEF Past
  <2>3. i \in Rows /\ i \notin sent /\ i \notin error \ spam /\ req[r].kind \in Kinds
    BY <1>0, <2>1, RowsOfHandlers, Fields DEF OutcomeInv
  <2>4. \A j : Copies(j, "main")' = Copies(j, "main")
    BY <2>1, CopiesKept
  <2>5. IF req[r].sent THEN i \notin spam /\ Copies(i, "main") = 1 ELSE Copies(i, "main") = 0
    <3>1. CASE req[r].kind = "main"
      BY <2>1, <2>3, <3>1 DEF SendInv, HandlerAccounts, OutcomeInv
    <3>2. CASE req[r].kind = "reply"
      <4>1. Copies(i, "main") \in Nat /\ Copies(i, "main") <= 1
        BY <2>3, CopiesType DEF SendInv, RowAccounts
      <4> QED
        BY <2>1, <3>2, <4>1 DEF SendInv, HandlerAccounts
    <3> QED
      BY <2>3, <3>1, <3>2
  <2>6. \A s \in Requests : Past(s)' => Past(s) /\ req'[s].row = req[s].row /\ req[s].row # i
    BY <2>1, <2>2 DEF Quiet, SendInv, RowsApart
  <2> HIDE DEF i
  <2>7. \A s \in Requests : Past(s)' => req'[s].row \notin sent' \cup (error' \ spam')
    BY <2>1, <2>6 DEF OutcomeInv
  <2>8. /\ sent' \cap error' = {} /\ sent' \cap spam' = {}
        /\ \A j \in sent' : Copies(j, "main") = 1
        /\ \A j \in error' \cup spam' : Copies(j, "main") = 0
    BY <2>1, <2>3, <2>5 DEF OutcomeInv
  <2> QED
    BY <2>4, <2>7, <2>8 DEF OutcomeInv
<1>13. ASSUME Restart PROVE OutcomeInv'
  <2>1. Quiet
    BY <1>13, IdleFields DEF Restart, Quiet, Past
  <2> QED
    BY <1>13, <2>1, <1>s DEF Restart, sends
<1>14. ASSUME UNCHANGED <<req, spam, took>>, sent' \subseteq sent, error' \subseteq error
       PROVE  OutcomeInv'
  <2>1. Quiet
    BY <1>14 DEF Quiet, Past
  <2> QED
    BY <1>14, <2>1, <1>s
<1>15. ASSUME NEW r \in Requests, Handle(r) PROVE OutcomeInv'
  BY <1>15, <1>2, <1>3, <1>4, <1>5, <1>6, <1>8, <1>9, <1>10, <1>11, <1>12 DEF Handle, Send
<1>16. ASSUME NEW r \in Requests, NEW i \in Rows, SendWebhook(i, r) PROVE OutcomeInv'
  BY <1>16, <1>14 DEF SendWebhook, rowCols, sends
<1>17. ASSUME NEW key \in noted, Lapse(key) PROVE OutcomeInv'
  BY <1>17, <1>14 DEF Lapse, rowCols, sends
<1>18. ASSUME Owner PROVE OutcomeInv'
  BY <1>18, <1>14
     DEF Owner, DeleteSubmissions, UpdateFormRead, UpdateForm, VerifyForm, EditChannel, rowCols, sends
<1>19. ASSUME UNCHANGED vars PROVE OutcomeInv'
  BY <1>19, <1>14 DEF vars, rowCols, sends
<1> QED
  BY <1>1, <1>13, <1>15, <1>16, <1>17, <1>18, <1>19 DEF Next

LEMMA OutcomeInit == Init => OutcomeInv
<1> SUFFICES ASSUME Init PROVE OutcomeInv
  OBVIOUS
<1>1. \A r \in Requests : ~Past(r)
  BY IdleFields DEF Init, Past
<1> QED
  BY <1>1 DEF Init, OutcomeInv

-----------------------------------------------------------------------------
(* The refinement of the delivery service.  What the phases, the hands and *)
(* the copies of the abstract service become in a step.                    *)
RefInv == TypeOK /\ SendInv /\ OutcomeInv

Hands == {i \in Rows \ spam : \E r \in Requests : Past(r) /\ req[r].row = i}

HandsRight == inHandBar = Hands

LEMMA HandsAre == RefInv => HandsRight
<1> SUFFICES ASSUME RefInv PROVE inHandBar = Hands
  BY DEF HandsRight
<1>1. \A r \in Requests : req[r].row \in Rows => (req[r].pc # "idle" <=> Past(r))
  <2>1. NoRow \notin Rows
    OBVIOUS
  <2> QED
    BY <2>1 DEF RefInv, SendInv, RowsApart, Past
<1> QED
  BY <1>1 DEF inHandBar, Working, Hands

LEMMA HandsAreNext == RefInv' => HandsRight'
  BY HandsAre, PTL

LEMMA HandsKept ==
  ASSUME RefInv, RefInv', UNCHANGED spam,
         \A s \in Requests : (Past(s)' <=> Past(s)) /\ (Past(s) => req'[s].row = req[s].row)
  PROVE  UNCHANGED inHandBar
  BY HandsAre, HandsAreNext DEF Hands, HandsRight

LEMMA HandReleased ==
  ASSUME RefInv, RefInv', UNCHANGED spam, NEW r \in Requests, Past(r), Others(r), ~Past(r)'
  PROVE  inHandBar' = inHandBar \ {req[r].row}
<1>1. \A s \in Requests : Past(s)' <=> Past(s) /\ s # r
  BY DEF Others, Past
<1>2. \A s \in Requests : Past(s)' => req'[s].row = req[s].row /\ req[s].row # req[r].row
  BY <1>1 DEF Others, RefInv, SendInv, RowsApart
<1>3. \A i \in Rows : (\E s \in Requests : Past(s)' /\ req'[s].row = i)
                  <=> (\E s \in Requests : Past(s) /\ req[s].row = i) /\ i # req[r].row
  BY <1>1, <1>2
<1> QED
  BY <1>3, HandsAre, HandsAreNext DEF Hands, HandsRight

LEMMA PhasesKept == UNCHANGED <<lastRow, stored, spam, sent, error>> => UNCHANGED phaseBar
  BY DEF phaseBar, Phase

LEMMA CopiesBarKept == UNCHANGED took => UNCHANGED copiesBar
  BY DEF copiesBar

LEMMA CopiesBarIs == copiesBar = [i \in Rows |-> Copies(i, "main")]
  BY DEF copiesBar, Copies

(* A row's phase by its columns.                                           *)
PhasesByRow ==
  \A i \in Rows :
    /\ phaseBar[i] \in {"absent", "open", "sent", "notSent", "removed"}
    /\ phaseBar[i] = "absent"  <=> i > lastRow \/ i \in spam
    /\ phaseBar[i] = "removed" <=> i <= lastRow /\ i \notin spam /\ i \notin stored
    /\ phaseBar[i] = "sent"    <=> i \in sent
    /\ phaseBar[i] = "notSent" <=> i \in error /\ i \notin spam

LEMMA PhasesAre == RefInv => PhasesByRow
<1> SUFFICES ASSUME RefInv, NEW i \in Rows
             PROVE  PhasesByRow!(i)
  BY DEF PhasesByRow
<1>1. /\ lastRow \in Nat /\ stored \subseteq 1..lastRow /\ sent \subseteq stored
      /\ error \subseteq stored /\ sent \cap error = {} /\ sent \cap spam = {}
  BY DEF RefInv, TypeOK, OutcomeInv
<1>2. phaseBar[i] = Phase(i)
  BY DEF phaseBar
<1>3. CASE i > lastRow \/ i \in spam
  BY <1>1, <1>2, <1>3 DEF Phase
<1>4. CASE i <= lastRow /\ i \notin spam
  BY <1>1, <1>2, <1>4 DEF Phase
<1> QED
  BY <1>1, <1>3, <1>4

LEMMA PhasesAreNext == RefInv' => PhasesByRow'
  BY PhasesAre, PTL

(* Every step of the pipeline is a step of the delivery service or one     *)
(* that its caller does not see.                                           *)
LEMMA DeliveryStep ==
  RefInv /\ RefInv' /\ [Next]_vars => [Mail!DeliveryNext]_(Mail!dvars)
<1> SUFFICES ASSUME RefInv, RefInv', [Next]_vars
             PROVE  Mail!DeliveryNext \/ UNCHANGED Mail!dvars
  OBVIOUS
<1> DEFINE Same   == UNCHANGED <<phaseBar, inHandBar, copiesBar>>
           Served == Mail!DeliveryNext \/ UNCHANGED Mail!dvars
           Quiet  == \A s \in Requests :
                        (Past(s)' <=> Past(s)) /\ (Past(s) => req'[s].row = req[s].row)
<1>0. Locals /\ TypeOK /\ SendInv /\ OutcomeInv
  BY TypeParts DEF LocalsOK, RefInv
<1>a. Same => Served
  BY DEF Mail!dvars
<1>b. PhasesByRow /\ PhasesByRow'
  BY PhasesAre, PhasesAreNext
<1>c. /\ copiesBar  = [i \in Rows |-> Copies(i, "main")]
      /\ copiesBar' = [i \in Rows |-> Copies(i, "main")']
  BY DEF copiesBar, Copies
<1>f. phaseBar = [i \in Rows |-> phaseBar[i]] /\ phaseBar' = [i \in Rows |-> phaseBar'[i]]
  BY DEF phaseBar
<1>q. ASSUME NEW r \in Requests, Others(r), Past(r)' <=> Past(r),
             Past(r) => req'[r].row = req[r].row
      PROVE  Quiet
  BY <1>q DEF Others, Past
<1>s. ASSUME Quiet, UNCHANGED <<rowCols, took>> PROVE Served
  BY <1>s, <1>a, HandsKept, PhasesKept, CopiesBarKept DEF rowCols
<1>g. ASSUME NEW r \in Requests, NEW place \in Places, Goto(r, place), Past(r),
             place \in {"bound", "list"}
      PROVE  Quiet
  BY <1>g, <1>0, <1>q, GotoFields DEF Past
<1>m. ASSUME NEW r \in Requests, NEW success \in BOOLEAN, MailOver(r, success), Past(r)
      PROVE  Quiet
  BY <1>m, <1>0, <1>q, MailOverFields DEF Past
<1>t. ASSUME NEW r \in Requests, NEW S \in SUBSET Channels, Past(r),
             \/ req' = [req EXCEPT ![r].pc = "try", ![r].todo = S]
             \/ req[r].pc = "try" /\ req' = [req EXCEPT ![r].todo = S]
      PROVE  Quiet
  BY <1>t, <1>0, <1>q, TodoFields DEF Past
<1> HIDE DEF Quiet, Served, Same
<1>1. ASSUME NEW r \in Requests, NEW f \in Forms, NEW v \in Visitors, SubmitForm(r, f, v)
      PROVE  Served
  <2>1. address[f] \in Addresses /\ bound[f] \in Channels \cup {Unbound}
    BY <1>0 DEF TypeOK
  <2>2. Others(r) /\ req'[r].pc = "check" /\ req[r].pc = "idle"
    BY <1>0, <1>1, <2>1, SubmitFields DEF SubmitForm
  <2>3. Quiet
    BY <2>2, <1>q DEF Past
  <2> QED
    BY <1>1, <2>3, <1>s DEF SubmitForm, sends
<1>2. ASSUME NEW r \in Requests, RefuseEarly(r) \/ Refuse(r) PROVE Served
  <2>1. Others(r) /\ ~Past(r) /\ ~Past(r)'
    BY <1>0, <1>2, ReturnFields, IdleFields DEF RefuseEarly, Refuse, Past
  <2>2. Quiet
    BY <2>1, <1>q
  <2> QED
    BY <1>2, <2>2, <1>s DEF RefuseEarly, Refuse, sends
<1>3. ASSUME NEW r \in Requests, CheckDuplicateSubmit(r) PROVE Served
  <2>1. Others(r) /\ req'[r].pc = "insert" /\ req[r].pc = "check"
    BY <1>0, <1>3, GotoFields DEF CheckDuplicateSubmit, Places
  <2>2. Quiet
    BY <2>1, <1>q DEF Past
  <2> QED
    BY <1>3, <2>2, <1>s DEF CheckDuplicateSubmit, sends
<1>4. ASSUME NEW r \in Requests, NEW isSpam \in BOOLEAN, Insert(r, isSpam) PROVE Served
  <2> DEFINE n == lastRow + 1
  <2>1. n \in Rows /\ lastRow \in Nat /\ n > lastRow
    BY <1>0, <1>4 DEF Insert, TypeOK
  <2>2. /\ Others(r) /\ req'[r].row = n /\ Past(r)' /\ ~Past(r)
    BY <1>0, <1>4, <2>1, InsertFields DEF Insert, Past
  <2>3. /\ spam' = (IF isSpam THEN spam \cup {n} ELSE spam)
        /\ error' = (IF isSpam THEN error \cup {n} ELSE error)
        /\ stored' = stored \cup {n} /\ lastRow' = n /\ UNCHANGED <<sent, took>>
    BY <1>4 DEF Insert, sends
  <2> HIDE DEF n
  <2>4. n \notin sent /\ n \notin error /\ n \notin spam /\ n \notin stored
    BY <1>0, <2>1 DEF TypeOK
  <2>5. \A i \in Rows : i # n => phaseBar'[i] = phaseBar[i]
    <3> SUFFICES ASSUME NEW i \in Rows, i # n PROVE phaseBar'[i] = phaseBar[i]
      OBVIOUS
    <3>1. /\ lastRow' = lastRow + 1 /\ n = lastRow + 1
          /\ i \in spam' <=> i \in spam
          /\ i \in error' <=> i \in error
          /\ i \in stored' <=> i \in stored
      BY <2>3 DEF n
    <3>2. i > lastRow' <=> i > lastRow
      BY <2>1, <3>1
    <3> QED
      BY <1>b, <2>1, <2>3, <3>1, <3>2 DEF PhasesByRow
  <2>6. \A s \in Requests : s # r => req'[s] = req[s] /\ (Past(s)' <=> Past(s))
    BY <2>2 DEF Others, Past
  <2>7. \A i \in Rows : (\E s \in Requests : Past(s)' /\ req'[s].row = i)
                    <=> (\E s \in Requests : Past(s) /\ req[s].row = i) \/ i = n
    BY <2>2, <2>6
  <2>8. n \notin inHandBar /\ UNCHANGED copiesBar
    <3>1. \A s \in Requests : Past(s) => req[s].row # n
      BY <1>0, <2>1, RowsOfHandlers
    <3> QED
      BY <2>3, <3>1, HandsAre, CopiesBarKept DEF Hands, HandsRight
  <2>9. CASE isSpam
    <3>1. phaseBar'[n] = phaseBar[n]
      BY <1>b, <2>1, <2>3, <2>9 DEF PhasesByRow
    <3>2. UNCHANGED phaseBar
      BY <1>f, <2>5, <3>1
    <3>3. \A i \in Rows : i \in inHandBar' <=> i \in inHandBar
      BY <2>3, <2>7, <2>8, <2>9, HandsAre, HandsAreNext DEF Hands, HandsRight
    <3>4. UNCHANGED inHandBar
      BY <3>3, HandsAre, HandsAreNext DEF Hands, HandsRight
    <3> QED
      BY <1>a, <2>8, <3>2, <3>4 DEF Same
  <2>10. CASE ~isSpam
    <3>1. phaseBar[n] = "absent" /\ phaseBar'[n] = "open"
      BY <1>b, <2>1, <2>3, <2>4, <2>10 DEF PhasesByRow
    <3>2. phaseBar' = [phaseBar EXCEPT ![n] = "open"]
      BY <1>f, <2>1, <2>5, <3>1
    <3>3. inHandBar' = inHandBar \cup {n}
      BY <2>1, <2>3, <2>4, <2>7, <2>10, HandsAre, HandsAreNext DEF Hands, HandsRight
    <3>4. Mail!Accept(n)
      BY <2>8, <3>1, <3>2, <3>3 DEF Mail!Accept
    <3> QED
      BY <2>1, <3>4 DEF Mail!DeliveryNext, Served
  <2> QED
    BY <2>9, <2>10
<1>5. ASSUME NEW r \in Requests, ChooseChannel(r) PROVE Served
  <2>1. Quiet
    BY <1>5, <1>g DEF ChooseChannel, Places, Past
  <2> QED
    BY <1>5, <2>1, <1>s DEF ChooseChannel, sends
<1>6. ASSUME NEW r \in Requests, ListChannels(r) PROVE Served
  <2>1. Past(r) /\ Own \cap enabled \in SUBSET Channels
    BY <1>6 DEF ListChannels, Past
  <2>2. Quiet
    BY <1>6, <2>1, <1>m, <1>t DEF ListChannels
  <2> QED
    BY <1>6, <2>2, <1>s DEF ListChannels, sends
<1>7. ASSUME NEW r \in Requests, NEW c \in Channels, Acknowledge(r, c), MailOver(r, TRUE),
             Sending(r), UNCHANGED rowCols
      PROVE  Served
  <2> DEFINE i == req[r].row
  <2>1. Past(r) /\ i \in Rows /\ req[r].kind \in Kinds
    BY <1>0, <1>7, RowsOfHandlers, Fields DEF Past, Sending
  <2>2. Quiet
    BY <1>7, <2>1, <1>m
  <2>3. UNCHANGED <<phaseBar, inHandBar>>
    BY <1>7, <2>2, HandsKept, PhasesKept DEF Quiet, rowCols
  <2>4. \A j \in Rows : Copies(j, "main")' = IF j = i /\ "main" = req[r].kind
                                             THEN Copies(j, "main") + 1 ELSE Copies(j, "main")
    BY <1>0, <1>7, <2>1, CopiesOneMore
  <2> HIDE DEF i
  <2>5. CASE req[r].kind = "reply"
    <3>1. UNCHANGED copiesBar
      BY <1>c, <2>4, <2>5
    <3> QED
      BY <1>a, <2>3, <3>1 DEF Same
  <2>6. CASE req[r].kind = "main"
    <3>1. Copies(i, "main") = 0 /\ i \notin spam
      BY <1>0, <1>7, <2>1, <2>6 DEF SendInv, HandlerAccounts, Sending, i
    <3>2. i \in inHandBar
      BY <2>1, <3>1, HandsAre DEF Hands, i, HandsRight
    <3>3. copiesBar[i] = 0 /\ copiesBar' = [copiesBar EXCEPT ![i] = 1]
      BY <1>c, <2>1, <2>4, <2>6, <3>1
    <3>4. Mail!Acknowledge(i)
      BY <2>3, <3>2, <3>3 DEF Mail!Acknowledge
    <3> QED
      BY <2>1, <3>4 DEF Mail!DeliveryNext, Served
  <2> QED
    BY <2>1, <2>5, <2>6
<1>8. ASSUME NEW r \in Requests, BoundSendOk(r) PROVE Served
  BY <1>0, <1>7, <1>8, TypeParts DEF BoundSendOk, Sending, LocalsOK
<1>9. ASSUME NEW r \in Requests, BoundSendError(r) PROVE Served
  <2>1. Quiet
    BY <1>9, <1>g DEF BoundSendError, Places, Past
  <2> QED
    BY <1>9, <2>1, <1>s DEF BoundSendError, Fail
<1>10. ASSUME NEW r \in Requests, NEW c \in Channels, TryOk(r, c) PROVE Served
  BY <1>7, <1>10 DEF TryOk, Sending
<1>11. ASSUME NEW r \in Requests, NEW c \in Channels, TryError(r, c) PROVE Served
  <2> DEFINE rest == req[r].todo \ {c}
  <2>1. rest \in SUBSET Channels
    BY <1>0, Fields
  <2>2. /\ Fail(r, c) /\ UNCHANGED rowCols /\ Past(r) /\ req[r].pc = "try"
        /\ MailOver(r, FALSE) \/ req' = [req EXCEPT ![r].todo = rest]
    BY <1>11 DEF TryError, Past
  <2>3. Quiet
    BY <2>1, <2>2, <1>m, <1>t
  <2> QED
    BY <2>2, <2>3, <1>s DEF Fail
<1>12. ASSUME NEW r \in Requests, Record(r) PROVE Served
  <2> DEFINE i == req[r].row
  <2>1. /\ Others(r) /\ Past(r) /\ ~Past(r)' /\ UNCHANGED <<spam, took, lastRow, stored>>
        /\ sent' = (IF i \in stored /\ req[r].sent THEN sent \cup {i} ELSE sent)
        /\ error' = (IF i \in stored /\ ~req[r].sent THEN error \cup {i} ELSE error)
    BY <1>0, <1>12, ReturnFields, IdleFields DEF Record, Respond, Past, sends
  <2>2. i \in Rows /\ i \in 1..lastRow /\ i \notin sent /\ i \notin error \ spam
    BY <1>0, <2>1, RowsOfHandlers DEF OutcomeInv
  <2>3. inHandBar' = inHandBar \ {i}
    BY <2>1, HandReleased
  <2>4. UNCHANGED copiesBar
    BY <2>1, CopiesBarKept
  <2>s. i \notin spam => req[r].sent <=> Copies(i, "main") = 1
    <3>1. ASSUME i \notin spam PROVE req[r].kind = "reply"
      BY <1>0, <1>12, <2>1, <3>1, Fields DEF SendInv, HandlerAccounts, Record
    <3> QED
      BY <1>0, <2>1, <3>1 DEF SendInv, HandlerAccounts
  <2> HIDE DEF i
  <2>5. \A j \in Rows : j # i => phaseBar'[j] = phaseBar[j]
    <3> SUFFICES ASSUME NEW j \in Rows, j # i PROVE phaseBar'[j] = phaseBar[j]
      OBVIOUS
    <3>1. (j \in sent' <=> j \in sent) /\ (j \in error' <=> j \in error)
      BY <2>1
    <3> QED
      BY <1>b, <2>1, <3>1 DEF PhasesByRow
  <2>6. CASE i \in spam
    <3>1. phaseBar'[i] = phaseBar[i]
      BY <1>b, <2>1, <2>2, <2>6 DEF PhasesByRow
    <3>2. UNCHANGED <<phaseBar, inHandBar>>
      BY <1>f, <2>3, <2>5, <2>6, <3>1, HandsAre DEF Hands, HandsRight
    <3> QED
      BY <1>a, <2>4, <3>2 DEF Same
  <2>7. CASE i \notin spam
    <3>1. i \in inHandBar /\ copiesBar[i] = Copies(i, "main")
      BY <1>c, <2>1, <2>2, <2>7, HandsAre DEF Hands, i, HandsRight
    <3>2. CASE i \notin stored
      <4>1. phaseBar[i] = "removed" /\ phaseBar'[i] = "removed"
        BY <1>b, <2>1, <2>2, <2>7, <3>2 DEF PhasesByRow
      <4>2. UNCHANGED phaseBar
        BY <1>f, <2>5, <4>1
      <4>3. Mail!Report(i)
        BY <2>3, <2>4, <3>1, <4>1, <4>2 DEF Mail!Report
      <4> QED
        BY <2>2, <4>3 DEF Mail!DeliveryNext, Served
    <3>3. CASE i \in stored
      <4> DEFINE outcome == IF copiesBar[i] = 1 THEN "sent" ELSE "notSent"
      <4>1. phaseBar[i] # "removed" /\ phaseBar'[i] = outcome
        BY <1>b, <2>1, <2>2, <2>7, <2>s, <3>1, <3>3 DEF PhasesByRow
      <4> HIDE DEF outcome
      <4>2. phaseBar' = [phaseBar EXCEPT ![i] = outcome]
        BY <1>f, <2>2, <2>5, <4>1
      <4>3. Mail!Report(i)
        BY <2>3, <2>4, <3>1, <4>1, <4>2 DEF Mail!Report, outcome
      <4> QED
        BY <2>2, <4>3 DEF Mail!DeliveryNext, Served
    <3> QED
      BY <3>2, <3>3
  <2> QED
    BY <2>6, <2>7
<1>13. ASSUME NEW r \in Requests, RecordFails(r) PROVE Served
  <2>1. Others(r) /\ Past(r) /\ ~Past(r)' /\ UNCHANGED <<lastRow, stored, spam, sent, error, took>>
    BY <1>0, <1>13, ReturnFields, IdleFields DEF RecordFails, Respond, Past, sends
  <2>2. inHandBar' = inHandBar \ {req[r].row} /\ UNCHANGED <<phaseBar, copiesBar>>
    BY <2>1, HandReleased, PhasesKept, CopiesBarKept
  <2> QED
    BY <2>2 DEF Mail!Abandon, Mail!DeliveryNext, Served
<1>14. ASSUME Restart PROVE Served
  <2>1. \A s \in Requests : ~Past(s)'
    BY <1>14, IdleFields DEF Restart, Past
  <2>2. inHandBar' = {} /\ UNCHANGED <<phaseBar, copiesBar>>
    BY <1>14, <2>1, HandsAreNext, PhasesKept, CopiesBarKept DEF Restart, Hands, sends, HandsRight
  <2> QED
    BY <2>2 DEF Mail!Abandon, Mail!DeliveryNext, Served
<1>15. ASSUME NEW S \in SUBSET stored, DeleteSubmissions(S) PROVE Served
  <2>1. Quiet /\ UNCHANGED <<spam, took, lastRow>>
    BY <1>15 DEF DeleteSubmissions, sends, Quiet, Past
  <2>2. UNCHANGED <<inHandBar, copiesBar>>
    BY <2>1, HandsKept, CopiesBarKept DEF Quiet
  <2>3. stored' = stored \ S /\ sent' = sent \ S /\ error' = error \ S
    BY <1>15 DEF DeleteSubmissions
  <2>4. \A i \in Rows : \/ phaseBar'[i] = phaseBar[i]
                        \/ phaseBar[i] \notin {"absent", "removed"} /\ phaseBar'[i] = "removed"
    <3> SUFFICES ASSUME NEW i \in Rows
                 PROVE  \/ phaseBar'[i] = phaseBar[i]
                        \/ phaseBar[i] \notin {"absent", "removed"} /\ phaseBar'[i] = "removed"
      OBVIOUS
    <3>1. CASE i \in S /\ i \notin spam
      <4>1. i <= lastRow /\ i \in stored /\ ~(i > lastRow)
        BY <1>0, <3>1 DEF TypeOK
      <4> QED
        BY <1>b, <2>1, <2>3, <3>1, <4>1 DEF PhasesByRow
    <3>2. CASE i \notin S \/ i \in spam
      BY <1>b, <2>1, <2>3, <3>2 DEF PhasesByRow
    <3> QED
      BY <3>1, <3>2
  <2>5. phaseBar' \in [Rows -> Mail!Phases]
    BY <1>b, <1>f DEF PhasesByRow, Mail!Phases
  <2> QED
    BY <2>2, <2>4, <2>5 DEF Mail!Remove, Mail!DeliveryNext, Served
<1>16. ASSUME UNCHANGED <<req, rowCols, took>> PROVE Served
  <2>1. Quiet
    BY <1>16 DEF Quiet, Past
  <2> QED
    BY <1>16, <2>1, <1>s
<1>17. ASSUME NEW r \in Requests, Handle(r) PROVE Served
  BY <1>17, <1>2, <1>3, <1>4, <1>5, <1>6, <1>8, <1>9, <1>10, <1>11, <1>12, <1>13
     DEF Handle, Send
<1>18. ASSUME NEW r \in Requests, NEW i \in Rows, SendWebhook(i, r) PROVE Served
  BY <1>18, <1>16 DEF SendWebhook, sends
<1>19. ASSUME NEW key \in noted, Lapse(key) PROVE Served
  BY <1>19, <1>16 DEF Lapse, sends
<1>20. ASSUME Owner PROVE Served
  BY <1>20, <1>15, <1>16 DEF Owner, UpdateFormRead, UpdateForm, VerifyForm, EditChannel, sends
<1>21. ASSUME UNCHANGED vars PROVE Served
  BY <1>21, <1>16 DEF vars, sends
<1>22. Served
  BY <1>1, <1>14, <1>17, <1>18, <1>19, <1>20, <1>21 DEF Next
<1> QED
  BY <1>22 DEF Served

(* The pipeline implements the delivery service, for any number of         *)
(* handlers, channels and submissions: the server takes the form's mail at *)
(* most once, the row tells the outcome of that mail, and a fault leaves   *)
(* the row open for good.                                                  *)
THEOREM PipelineImplementsDelivery == Spec => ImplementsDelivery
<1>1. Init => Mail!DeliveryInit
  <2> SUFFICES ASSUME Init PROVE Mail!DeliveryInit
    OBVIOUS
  <2>1. \A i \in Rows : Phase(i) = "absent"
    BY DEF Init, Phase
  <2>2. phaseBar = [i \in Rows |-> "absent"]
    BY <2>1 DEF phaseBar
  <2>3. inHandBar = {}
    BY IdleFields DEF Init, inHandBar, Working
  <2>4. copiesBar = [i \in Rows |-> 0]
    <3>1. \A i \in Rows : took[<<i, "main">>] = <<>>
      BY DEF Init
    <3> QED
      BY <3>1 DEF copiesBar
  <2> QED
    BY <2>2, <2>3, <2>4 DEF Mail!DeliveryInit
<1>2. Spec => []RefInv
  BY TypeCorrect, SendInvInit, SendStep, OutcomeInit, OutcomeStep, PTL DEF Spec, RefInv
<1> QED
  BY <1>1, <1>2, DeliveryStep, PTL DEF Spec, ImplementsDelivery, Mail!DeliverySpec

-----------------------------------------------------------------------------
(* The order of the channels.  A failed attempt stays failed; what is left *)
(* alone stays ranked.                                                     *)
LEMMA RankedKept ==
  ASSUME NEW s \in Requests, Ranked(s), req'[s] = req[s], UNCHANGED bound,
         refused \subseteq refused'
  PROVE  Ranked(s)'
  BY DEF Ranked, MainOf, Past, First, Failed

LEMMA RankedRowKept ==
  ASSUME NEW i \in Rows, RankedRow(i), UNCHANGED bound, refused \subseteq refused',
         formOf'[i] = formOf[i], i \in error' \ spam' => i \in error \ spam,
         \A c \in Channels : Took(i, c)' => Took(i, c)
  PROVE  RankedRow(i)'
  BY DEF RankedRow, First, Failed

(* A row that was not inserted yet says nothing.                           *)
LEMMA NothingTook ==
  ASSUME SendInv, NEW i \in Rows, i > lastRow
  PROVE  \A c \in Channels : ~Took(i, c)
<1>1. Len(took[<<i, "main">>]) = 0
  BY DEF SendInv, RowAccounts, Copies
<1> QED
  BY <1>1 DEF Took

LEMMA EditsStep ==
  ASSUME TypeOK, [Next]_vars, edits' = 0
  PROVE  edits = 0 /\ UNCHANGED <<bound, enabled>>
<1>1. edits \in Nat
  BY DEF TypeOK
<1>2. edits + 1 # 0
  BY <1>1
<1>3. edits = 0 => updating = {}
  BY DEF TypeOK, EditType
<1>4. ASSUME NEW e \in updating, UpdateForm(e) PROVE FALSE
  BY <1>3, <1>4 DEF UpdateForm
<1> QED
  BY <1>2, <1>3, <1>4, FormSteps
     DEF formCols, formVals, UpdateFormRead, VerifyForm, EditChannel

(* How the mail of a handler goes from channel to channel.                 *)
LEMMA RankedOver ==
  ASSUME Locals, NEW r \in Requests, NEW success \in BOOLEAN, MailOver(r, success), Past(r),
         Ranked(r), UNCHANGED bound, refused \subseteq refused',
         req[r].kind = "main" /\ ~success =>
            \A c \in First(req[r].form) \cup Own : <<req[r].row, c>> \in refused'
  PROVE  Ranked(r)'
<1>1. /\ Kept(r) /\ req'[r].kind = "reply" /\ req'[r].row = req[r].row
      /\ req'[r].pc \in {"choose", "record"}
      /\ req[r].kind = "main"  => req'[r].sent = success
      /\ req[r].kind = "reply" => req'[r].sent = req[r].sent
  BY MailOverFields
<1>2. req[r].kind \in Kinds
  BY Fields
<1> QED
  BY <1>1, <1>2 DEF Ranked, MainOf, Past, First, Failed, Kept

LEMMA RankedGoto ==
  ASSUME Locals, NEW r \in Requests, NEW place \in {"bound", "list"}, Goto(r, place), Past(r),
         Ranked(r), UNCHANGED bound, refused \subseteq refused',
         req[r].kind = "main" /\ place = "list" =>
            \A c \in First(req[r].form) : <<req[r].row, c>> \in refused'
  PROVE  Ranked(r)'
<1>1. /\ Kept(r) /\ req'[r].kind = req[r].kind /\ req'[r].row = req[r].row
      /\ req'[r].pc = place /\ req'[r].sent = req[r].sent
  BY GotoFields DEF Places
<1> QED
  BY <1>1 DEF Ranked, MainOf, Past, First, Failed, Kept

LEMMA RankedTodo ==
  ASSUME Locals, NEW r \in Requests, NEW S \in SUBSET Own, Past(r),
         \/ req' = [req EXCEPT ![r].pc = "try", ![r].todo = S]
         \/ req[r].pc = "try" /\ req' = [req EXCEPT ![r].todo = S],
         req[r].pc \in {"list", "try"}, Ranked(r), UNCHANGED bound, refused \subseteq refused',
         req[r].kind = "main" => \A c \in Own \ S : <<req[r].row, c>> \in refused'
  PROVE  Ranked(r)'
<1>1. S \in SUBSET Channels
  OBVIOUS
<1>2. /\ Kept(r) /\ req'[r].kind = req[r].kind /\ req'[r].row = req[r].row
      /\ req'[r].pc = "try" /\ req'[r].sent = req[r].sent /\ req'[r].todo = S
  BY <1>1, TodoFields
<1> QED
  BY <1>2 DEF Ranked, MainOf, Past, First, Failed, Kept

(* A channel that takes the form's mail is the bound one or the next of    *)
(* the owner's.                                                            *)
LEMMA RankedTook ==
  ASSUME TypeOK, SendInv, NEW r \in Requests, NEW c \in Channels, Sending(r), Acknowledge(r, c),
         UNCHANGED <<bound, formOf, error, spam>>, Ranked(r),
         \A i \in Rows : RankedRow(i),
         (req[r].pc = "bound" /\ c = req[r].bound) \/ (req[r].pc = "try" /\ IsNext(r, c))
  PROVE  \A i \in Rows : RankedRow(i)'
<1> SUFFICES ASSUME NEW i \in Rows PROVE RankedRow(i)'
  OBVIOUS
<1>1. Past(r) /\ req[r].row \in Rows /\ refused' = refused
  BY RowsOfHandlers DEF Sending, Past, Acknowledge
<1>2. \A d \in Channels :
         Took(i, d)' <=> Took(i, d) \/ (i = req[r].row /\ req[r].kind = "main" /\ d = c)
  BY <1>1, TookNew
<1>3. CASE i # req[r].row \/ req[r].kind # "main"
  BY <1>1, <1>2, <1>3, RankedRowKept
<1>4. CASE i = req[r].row /\ req[r].kind = "main"
  <2>1. MainOf(r) /\ req[r].form = formOf[i]
    BY <1>1, <1>4 DEF MainOf, SendInv, HandlerAccounts
  <2>2. c \notin First(formOf[i]) =>
           c \in Own /\ Failed(i, First(formOf[i]) \cup {e \in Own : e < c})
    <3>1. CASE req[r].pc = "bound" /\ c = req[r].bound
      BY <2>1, <3>1 DEF Ranked, First
    <3>2. CASE req[r].pc = "try" /\ IsNext(r, c)
      <4>1. c \in Own /\ Failed(i, First(formOf[i])) /\ Failed(i, Own \ req[r].todo)
        BY <1>4, <2>1, <3>2 DEF Ranked, IsNext, MainOf
      <4>2. \A e \in Own : e < c => e \notin req[r].todo
        <5>1. c \in Nat /\ \A e \in Own : e \in Nat
          OBVIOUS
        <5>2. \A d \in req[r].todo : c <= d
          BY <3>2 DEF IsNext
        <5> QED
          BY <5>1, <5>2
      <4> QED
        BY <4>1, <4>2 DEF Failed
    <3> QED
      BY <3>1, <3>2
  <2>3. \A d \in Channels \ First(formOf[i]) :
           Took(i, d)' => d \in Own /\ Failed(i, First(formOf[i]) \cup {e \in Own : e < d})
    BY <1>2, <2>2 DEF RankedRow
  <2>4. i \in error \ spam => Failed(i, First(formOf[i]) \cup Own)
    BY DEF RankedRow
  <2> QED
    BY <1>1, <2>3, <2>4 DEF RankedRow, First, Failed
<1> QED
  BY <1>3, <1>4

(* Every action keeps the channels in their order while nobody edits.      *)
LEMMA PriorityStep == TypeOK /\ SendInv /\ PriorityInv /\ [Next]_vars => PriorityInv'
<1> SUFFICES ASSUME TypeOK, SendInv, PriorityInv, [Next]_vars, edits' = 0
             PROVE  /\ enabled' = Channels
                    /\ \A s \in Requests : Ranked(s)'
                    /\ \A i \in Rows : RankedRow(i)'
  BY DEF PriorityInv
<1>0. Locals
  BY TypeParts DEF LocalsOK
<1>a. edits = 0 /\ UNCHANGED <<bound, enabled>>
  BY EditsStep
<1>b. enabled = Channels /\ (\A s \in Requests : Ranked(s)) /\ (\A i \in Rows : RankedRow(i))
  BY <1>a DEF PriorityInv
<1> DEFINE HandlersOK == \A s \in Requests : Ranked(s)'
           AllRows    == \A i \in Rows : RankedRow(i)'
           Goal       == HandlersOK /\ AllRows
<1>h. ASSUME NEW r \in Requests, Others(r), Ranked(r)', refused \subseteq refused'
      PROVE  HandlersOK
  BY <1>h, <1>a, <1>b, RankedKept DEF Others
<1>r. ASSUME UNCHANGED <<formOf, took>>, error' \ spam' \subseteq error \ spam,
             refused \subseteq refused'
      PROVE  AllRows
  BY <1>r, <1>a, <1>b, RankedRowKept, TookKept
<1>o. ASSUME NEW r \in Requests, Others(r), ~Past(r)',
             req'[r].pc # "idle" => req'[r].bound = bound[req'[r].form], refused \subseteq refused'
      PROVE  HandlersOK
  <2>1. Ranked(r)'
    BY <1>o, <1>a DEF Ranked, MainOf, Past
  <2> QED
    BY <1>o, <1>h, <2>1
<1>i. ASSUME NEW r \in Requests, Return(r), refused \subseteq refused' PROVE HandlersOK
  BY <1>i, <1>0, <1>o, ReturnFields, IdleFields DEF Past
<1>m. ASSUME NEW r \in Requests, NEW success \in BOOLEAN, MailOver(r, success), Past(r),
             refused \subseteq refused',
             req[r].kind = "main" /\ ~success =>
                \A c \in First(req[r].form) \cup Own : <<req[r].row, c>> \in refused'
      PROVE  HandlersOK
  BY <1>m, <1>0, <1>a, <1>b, <1>h, RankedOver, MailOverFields
<1>g. ASSUME NEW r \in Requests, NEW place \in {"bound", "list"}, Goto(r, place), Past(r),
             refused \subseteq refused',
             req[r].kind = "main" /\ place = "list" =>
                \A c \in First(req[r].form) : <<req[r].row, c>> \in refused'
      PROVE  HandlersOK
  <2>1. Others(r)
    BY <1>g, <1>0, GotoFields DEF Places
  <2> QED
    BY <1>g, <1>0, <1>a, <1>b, <1>h, <2>1, RankedGoto
<1>t. ASSUME NEW r \in Requests, NEW S \in SUBSET Own, Past(r),
             \/ req' = [req EXCEPT ![r].pc = "try", ![r].todo = S]
             \/ req[r].pc = "try" /\ req' = [req EXCEPT ![r].todo = S],
             req[r].pc \in {"list", "try"}, refused \subseteq refused',
             req[r].kind = "main" => \A c \in Own \ S : <<req[r].row, c>> \in refused'
      PROVE  HandlersOK
  <2>1. S \in SUBSET Channels
    OBVIOUS
  <2>2. Others(r)
    BY <1>t, <1>0, <2>1, TodoFields
  <2> QED
    BY <1>t, <1>0, <1>a, <1>b, <1>h, <2>2, RankedTodo
<1> HIDE DEF HandlersOK, AllRows
<1>1. ASSUME NEW r \in Requests, NEW f \in Forms, NEW v \in Visitors, SubmitForm(r, f, v)
      PROVE  Goal
  <2>1. address[f] \in Addresses /\ bound[f] \in Channels \cup {Unbound}
    BY DEF TypeOK
  <2>2. Others(r) /\ req'[r].pc = "check" /\ req'[r].form = f /\ req'[r].bound = bound[f]
    BY <1>0, <1>1, <2>1, SubmitFields
  <2>3. HandlersOK
    BY <1>1, <1>o, <2>2 DEF SubmitForm, Past, sends
  <2> QED
    BY <1>1, <1>r, <2>3 DEF SubmitForm, rowCols, sends
<1>2. ASSUME NEW r \in Requests, RefuseEarly(r) \/ Refuse(r) \/ RecordFails(r) PROVE Goal
  <2>1. Return(r) /\ UNCHANGED <<formOf, took, error, spam, refused>>
    BY <1>2 DEF RefuseEarly, Refuse, RecordFails, Respond, rowCols, sends
  <2> QED
    BY <1>i, <1>r, <2>1
<1>3. ASSUME NEW r \in Requests, CheckDuplicateSubmit(r) PROVE Goal
  <2>1. Others(r) /\ Kept(r) /\ req'[r].pc = "insert" /\ req[r].pc = "check"
    BY <1>0, <1>3, GotoFields DEF CheckDuplicateSubmit, Places
  <2>2. UNCHANGED <<formOf, took, error, spam, refused>>
    BY <1>3 DEF CheckDuplicateSubmit, rowCols, sends
  <2>3. req'[r].bound = bound[req'[r].form] /\ ~Past(r)'
    BY <1>b, <2>1 DEF Ranked, Kept, Past
  <2> QED
    BY <1>o, <1>r, <2>1, <2>2, <2>3
<1>4. ASSUME NEW r \in Requests, NEW isSpam \in BOOLEAN, Insert(r, isSpam) PROVE Goal
  <2> DEFINE n == lastRow + 1
  <2>1. n \in Rows /\ lastRow \in Nat /\ n > lastRow
    BY <1>4 DEF Insert, TypeOK
  <2>2. /\ Others(r) /\ Kept(r) /\ req'[r].kind = req[r].kind
        /\ req'[r].pc \in {"record", "choose"} /\ req[r].pc = "insert"
    BY <1>0, <1>4, <2>1, InsertFields DEF Insert
  <2>3. /\ formOf' = [formOf EXCEPT ![n] = req[r].form] /\ UNCHANGED <<took, refused>>
        /\ spam' = (IF isSpam THEN spam \cup {n} ELSE spam)
        /\ error' = (IF isSpam THEN error \cup {n} ELSE error)
    BY <1>4 DEF Insert, sends
  <2> HIDE DEF n
  <2>4. req[r].kind = "main"
    BY <2>2 DEF SendInv, HandlerAccounts, Past
  <2>5. Ranked(r)'
    BY <1>a, <1>b, <2>2, <2>4 DEF Ranked, MainOf, Past, Kept
  <2>6. HandlersOK
    BY <1>h, <2>2, <2>3, <2>5
  <2>7. n \notin error
    BY <2>1 DEF TypeOK
  <2>8. AllRows
    <3> SUFFICES ASSUME NEW i \in Rows PROVE RankedRow(i)'
      BY DEF AllRows
    <3>1. CASE i = n
      <4>1. \A c \in Channels : ~Took(i, c)'
        BY <2>1, <2>3, <3>1, NothingTook, TookKept
      <4>2. i \notin error' \ spam'
        BY <2>3, <2>7, <3>1
      <4> QED
        BY <4>1, <4>2 DEF RankedRow
    <3>2. CASE i # n
      <4>1. formOf'[i] = formOf[i] /\ (i \in error' \ spam' => i \in error \ spam)
        BY <2>3, <3>2 DEF TypeOK
      <4> QED
        BY <1>a, <1>b, <2>3, <4>1, RankedRowKept, TookKept
    <3> QED
      BY <3>1, <3>2
  <2> QED
    BY <2>6, <2>8
<1>5. ASSUME NEW r \in Requests, ChooseChannel(r) PROVE Goal
  <2> DEFINE place == IF req[r].bound \in enabled THEN "bound" ELSE "list"
  <2>1. Goto(r, place) /\ Past(r) /\ UNCHANGED <<formOf, took, error, spam, refused>>
    BY <1>5 DEF ChooseChannel, Past, rowCols, sends
  <2>2. place = "list" => First(req[r].form) = {}
    <3>1. req[r].bound = bound[req[r].form] /\ req[r].bound \in Channels \cup {Unbound}
      BY <1>0, <1>b, <2>1, Fields DEF Ranked, Past
    <3> QED
      BY <1>b, <3>1 DEF First
  <2> HIDE DEF place
  <2>3. place \in {"bound", "list"}
    BY DEF place
  <2> QED
    BY <1>g, <1>r, <2>1, <2>2, <2>3
<1>6. ASSUME NEW r \in Requests, ListChannels(r) PROVE Goal
  <2>1. Past(r) /\ req[r].pc = "list" /\ UNCHANGED <<formOf, took, error, spam, refused>>
    BY <1>6 DEF ListChannels, Past, rowCols, sends
  <2>2. req[r].kind = "main" => \A c \in First(req[r].form) : <<req[r].row, c>> \in refused
    BY <1>b, <2>1 DEF Ranked, MainOf, Failed
  <2>3. Own \cap enabled = Own
    BY <1>b
  <2>4. HandlersOK
    <3>1. CASE Own = {}
      BY <1>6, <1>m, <2>1, <2>2, <2>3, <3>1 DEF ListChannels
    <3>2. CASE Own # {}
      BY <1>6, <1>t, <2>1, <2>3, <3>2 DEF ListChannels
    <3> QED
      BY <3>1, <3>2
  <2> QED
    BY <1>r, <2>1, <2>4
<1>7. ASSUME NEW r \in Requests, NEW c \in Channels, Sending(r), Acknowledge(r, c),
             MailOver(r, TRUE), UNCHANGED rowCols,
             (req[r].pc = "bound" /\ c = req[r].bound) \/ (req[r].pc = "try" /\ IsNext(r, c))
      PROVE  Goal
  <2>1. Past(r) /\ UNCHANGED <<bound, formOf, error, spam, refused>>
    BY <1>7, <1>a DEF Sending, Past, Acknowledge, rowCols
  <2>2. HandlersOK
    BY <1>7, <1>m, <2>1
  <2>3. AllRows
    BY <1>7, <1>b, <2>1, RankedTook DEF AllRows
  <2> QED
    BY <2>2, <2>3
<1>8. ASSUME NEW r \in Requests, BoundSendOk(r) PROVE Goal
  BY <1>7, <1>8, TypeParts DEF BoundSendOk, Sending, LocalsOK
<1>9. ASSUME NEW r \in Requests, BoundSendError(r) PROVE Goal
  <2>1. /\ Past(r) /\ req[r].pc = "bound" /\ Goto(r, "list") /\ Fail(r, req[r].bound)
        /\ UNCHANGED <<formOf, took, error, spam>>
    BY <1>9 DEF BoundSendError, Fail, Past, rowCols
  <2>2. First(req[r].form) = {req[r].bound}
    <3>1. req[r].bound = bound[req[r].form] /\ req[r].bound \in Channels
      BY <1>b, <2>1, TypeParts DEF Ranked, LocalsOK
    <3> QED
      BY <3>1 DEF First
  <2>3. /\ refused \subseteq refused'
        /\ req[r].kind = "main" => \A c \in First(req[r].form) : <<req[r].row, c>> \in refused'
    BY <2>1, <2>2 DEF Fail
  <2> QED
    BY <1>g, <1>r, <2>1, <2>3
<1>10. ASSUME NEW r \in Requests, NEW c \in Channels, TryOk(r, c) PROVE Goal
  BY <1>7, <1>10 DEF TryOk, Sending
<1>11. ASSUME NEW r \in Requests, NEW c \in Channels, TryError(r, c) PROVE Goal
  <2> DEFINE rest == req[r].todo \ {c}
  <2>1. /\ Past(r) /\ req[r].pc = "try" /\ Fail(r, c)
        /\ IF rest = {} THEN MailOver(r, FALSE) ELSE req' = [req EXCEPT ![r].todo = rest]
        /\ UNCHANGED <<formOf, took, error, spam>>
    BY <1>11 DEF TryError, Fail, Past, rowCols
  <2>2. rest \in SUBSET Own
    BY <1>b, <2>1 DEF Ranked
  <2>3. /\ refused \subseteq refused'
        /\ req[r].kind = "main" =>
              /\ \A d \in Own \ rest : <<req[r].row, d>> \in refused'
              /\ \A d \in First(req[r].form) : <<req[r].row, d>> \in refused'
    <3>1. refused \subseteq refused'
      BY <2>1 DEF Fail
    <3>2. ASSUME req[r].kind = "main", NEW d \in Own \ rest
          PROVE  <<req[r].row, d>> \in refused'
      <4>1. CASE d = c
        BY <2>1, <3>2, <4>1 DEF Fail
      <4>2. CASE d # c
        BY <1>b, <2>1, <3>1, <3>2, <4>2 DEF Ranked, Failed
      <4> QED
        BY <4>1, <4>2
    <3>3. ASSUME req[r].kind = "main", NEW d \in First(req[r].form)
          PROVE  <<req[r].row, d>> \in refused'
      BY <1>b, <2>1, <3>1, <3>3 DEF Ranked, MainOf, Failed
    <3> QED
      BY <3>1, <3>2, <3>3
  <2> HIDE DEF rest
  <2>4. HandlersOK
    <3>1. CASE rest = {}
      BY <1>m, <2>1, <2>3, <3>1
    <3>2. CASE rest # {}
      BY <1>t, <2>1, <2>2, <2>3, <3>2
    <3> QED
      BY <3>1, <3>2
  <2> QED
    BY <1>r, <2>1, <2>3, <2>4
<1>12. ASSUME NEW r \in Requests, Record(r) PROVE Goal
  <2> DEFINE n == req[r].row
  <2>1. /\ Return(r) /\ Past(r) /\ req[r].pc = "record"
        /\ UNCHANGED <<formOf, took, spam, refused>>
        /\ error' = (IF n \in stored /\ ~req[r].sent THEN error \cup {n} ELSE error)
    BY <1>12 DEF Record, Respond, Past, sends
  <2>2. HandlersOK
    BY <1>i, <2>1
  <2>3. ASSUME n \notin spam, ~req[r].sent
        PROVE  Failed(n, First(formOf[n]) \cup Own)
    <3>1. req[r].kind = "reply" /\ req[r].form = formOf[n]
      BY <1>0, <2>1, <2>3, Fields DEF SendInv, HandlerAccounts
    <3> QED
      BY <1>b, <2>1, <2>3, <3>1 DEF Ranked
  <2> HIDE DEF n
  <2>4. AllRows
    <3> SUFFICES ASSUME NEW i \in Rows PROVE RankedRow(i)'
      BY DEF AllRows
    <3>1. \A c \in Channels : Took(i, c)' <=> Took(i, c)
      BY <2>1, TookKept
    <3>2. CASE i \in error' \ spam' => i \in error \ spam
      BY <1>a, <1>b, <2>1, <3>1, <3>2, RankedRowKept
    <3>3. CASE i \in error' \ spam' /\ i \notin error \ spam
      <4>1. i = n /\ Failed(i, First(formOf[i]) \cup Own)
        BY <2>1, <2>3, <3>3
      <4> QED
        BY <1>a, <1>b, <2>1, <3>1, <4>1 DEF RankedRow, First, Failed
    <3> QED
      BY <3>2, <3>3
  <2> QED
    BY <2>2, <2>4
<1>13. ASSUME UNCHANGED <<formOf, took, refused>>, error' \ spam' \subseteq error \ spam,
              \A s \in Requests : req'[s] = req[s] \/ req'[s] = Idle
       PROVE  Goal
  <2>1. HandlersOK
    <3> SUFFICES ASSUME NEW s \in Requests PROVE Ranked(s)'
      BY DEF HandlersOK
    <3>1. CASE req'[s] = req[s]
      BY <1>13, <1>a, <1>b, <3>1, RankedKept
    <3>2. CASE req'[s] = Idle
      BY <3>2, IdleFields DEF Ranked, MainOf, Past
    <3> QED
      BY <1>13, <3>1, <3>2
  <2> QED
    BY <1>13, <1>r, <2>1
<1>14. ASSUME Restart PROVE Goal
  BY <1>13, <1>14 DEF Restart, sends
<1>15. ASSUME NEW r \in Requests, NEW i \in Rows, SendWebhook(i, r) PROVE Goal
  BY <1>13, <1>15 DEF SendWebhook, rowCols, sends
<1>16. ASSUME NEW key \in noted, Lapse(key) PROVE Goal
  BY <1>13, <1>16 DEF Lapse, rowCols, sends
<1>17. ASSUME Owner PROVE Goal
  BY <1>13, <1>17
     DEF Owner, DeleteSubmissions, UpdateFormRead, UpdateForm, VerifyForm, EditChannel, rowCols, sends
<1>18. ASSUME UNCHANGED vars PROVE Goal
  BY <1>13, <1>18 DEF vars, rowCols, sends
<1>19. ASSUME NEW r \in Requests, Handle(r) PROVE Goal
  BY <1>19, <1>2, <1>3, <1>4, <1>5, <1>6, <1>8, <1>9, <1>10, <1>11, <1>12 DEF Handle, Send
<1>20. Goal
  BY <1>1, <1>14, <1>15, <1>16, <1>17, <1>18, <1>19 DEF Next
<1> QED
  BY <1>a, <1>b, <1>20 DEF HandlersOK, AllRows

(* While nobody edits, the channels are tried in their order: the bound    *)
(* channel, then the owner's by priority, each only after the failure of   *)
(* the ones before it; and a row that says its mail failed has a failure   *)
(* of every one of them.                                                   *)
THEOREM ChannelsInOrder == Spec => []PriorityRespected
<1>1. Init => PriorityInv
  <2> SUFFICES ASSUME Init PROVE PriorityInv
    OBVIOUS
  <2>1. \A r \in Requests : Ranked(r)
    BY IdleFields DEF Init, Ranked, MainOf, Past
  <2>2. \A i \in Rows : took[<<i, "main">>] = <<>>
    BY DEF Init
  <2>3. \A i \in Rows, c \in Channels : ~Took(i, c)
    BY <2>2 DEF Took
  <2> QED
    BY <2>1, <2>3 DEF Init, PriorityInv, RankedRow
<1>2. PriorityInv => PriorityRespected
  BY DEF PriorityInv, PriorityRespected, RankedRow, First, Failed
<1> QED
  BY <1>1, <1>2, SendInvInit, SendStep, PriorityStep, TypeCorrect, PTL DEF Spec
=============================================================================
