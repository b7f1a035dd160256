--------------------------- MODULE AccountsProofs ---------------------------
(***************************************************************************)
(* Theorems about Accounts for any number of users and handlers.           *)
(***************************************************************************)
EXTENDS Accounts, FiniteSetTheorems, TLAPS

USE BoundsAssumption DEF UserIds, NoUser

Places == {"idle", "notify", "countUpdate", "countDelete", "update", "delete", "approve",
           "tellApproved", "readPending", "reject", "tellRejected"}

-----------------------------------------------------------------------------
(* What an action does to the locals of its handler.                       *)
Locals    == req \in [Requests -> RequestType]
Others(r) == Locals' /\ \A s \in Requests : s # r => req'[s] = req[s]

LEMMA Fields ==
  ASSUME Locals, NEW r \in Requests
  PROVE  /\ req[r].pc \in Places /\ req[r].target \in UserIds \cup {NoUser}
         /\ req[r].admin \in BOOLEAN /\ req[r].active \in BOOLEAN /\ req[r].known \in BOOLEAN
<1>1. req[r] \in RequestType
  BY DEF Locals
<1> QED
  BY <1>1 DEF RequestType, Places

LEMMA IdleFields == Idle \in RequestType /\ Idle.pc = "idle"
  BY DEF Idle, RequestType

LEMMA ReturnFields ==
  ASSUME Locals, NEW r \in Requests, Return(r)
  PROVE  Others(r) /\ req'[r].pc = "idle"
  BY IdleFields DEF Locals, Others, Return

LEMMA GotoFields ==
  ASSUME Locals, NEW r \in Requests, NEW place \in Places, Goto(r, place)
  PROVE  /\ Others(r) /\ req'[r].pc = place /\ req'[r].target = req[r].target
         /\ req'[r].known = req[r].known
<1> DEFINE q == [req[r] EXCEPT !.pc = place]
<1>1. req[r] \in RequestType
  BY DEF Locals
<1>2. q \in RequestType /\ q.pc = place /\ q.target = req[r].target /\ q.known = req[r].known
  BY <1>1 DEF RequestType, Places
<1>3. req' = [req EXCEPT ![r] = q]
  BY DEF Goto
<1> HIDE DEF q
<1> QED
  BY <1>2, <1>3 DEF Locals, Others

(* A request begins: with the values of its form, or with a link's user.   *)
LEMMA StartFields ==
  ASSUME Locals, NEW r \in Requests, NEW place \in Places, NEW u \in UserIds,
         NEW isAdmin \in BOOLEAN, NEW isActive \in BOOLEAN,
         \/ req' = [req EXCEPT ![r] = [Idle EXCEPT !.pc = place, !.target = u]]
         \/ req' = [req EXCEPT ![r] = [Idle EXCEPT !.pc = place, !.target = u,
                                                   !.admin = isAdmin, !.active = isActive]]
  PROVE  Others(r) /\ req'[r].pc = place /\ req'[r].target = u
<1> DEFINE p == [Idle EXCEPT !.pc = place, !.target = u]
           q == [Idle EXCEPT !.pc = place, !.target = u, !.admin = isAdmin, !.active = isActive]
<1>1. /\ p \in RequestType /\ p.pc = place /\ p.target = u
      /\ q \in RequestType /\ q.pc = place /\ q.target = u
  BY DEF RequestType, Places, Idle
<1>2. req' = [req EXCEPT ![r] = p] \/ req' = [req EXCEPT ![r] = q]
  OBVIOUS
<1> HIDE DEF p, q
<1> QED
  BY <1>1, <1>2 DEF Locals, Others

LEMMA ReadFields ==
  ASSUME Locals, NEW r \in Requests, ReadPending(r)
  PROVE  Others(r) /\ req'[r].pc = "reject" /\ req'[r].target = req[r].target
<1> DEFINE found == req[r].target \in users \ active
           q == [req[r] EXCEPT !.pc = "reject", !.known = found]
<1>1. req[r] \in RequestType /\ found \in BOOLEAN
  BY DEF Locals
<1>2. req' = [req EXCEPT ![r] = q]
  BY DEF ReadPending, Locals
<1> HIDE DEF found
<1>3. q \in RequestType /\ q.pc = "reject" /\ q.target = req[r].target
  BY <1>1 DEF RequestType
<1> HIDE DEF q
<1> QED
  BY <1>2, <1>3 DEF Locals, Others

(* Every request begins at an idle handler and touches no other.           *)
Begins(r, u) ==
  \/ \E isAdmin, isActive \in BOOLEAN : UpdateUserRole(r, u, isAdmin, isActive)
  \/ DeleteUserRole(r, u) \/ ApproveLink(r, u) \/ RejectLink(r, u)

LEMMA BeginFields ==
  ASSUME Locals, NEW r \in Requests, NEW u \in UserIds, Begins(r, u)
  PROVE  /\ Others(r) /\ req[r].pc = "idle" /\ req'[r].target = u
         /\ UNCHANGED <<rows, fresh, faults, sessions, mailed, notices, decided>>
<1>1. CASE \E isAdmin, isActive \in BOOLEAN : UpdateUserRole(r, u, isAdmin, isActive)
  <2>1. PICK isAdmin \in BOOLEAN, isActive \in BOOLEAN : UpdateUserRole(r, u, isAdmin, isActive)
    BY <1>1
  <2> DEFINE place == IF u \in admins /\ ~isAdmin THEN "countUpdate" ELSE "update"
  <2>2. place \in Places
    BY DEF Places
  <2>3. req' = [req EXCEPT ![r] =
                  [Idle EXCEPT !.pc = place, !.target = u, !.admin = isAdmin, !.active = isActive]]
    BY <2>1 DEF UpdateUserRole
  <2> HIDE DEF place
  <2>4. Others(r) /\ req'[r].target = u
    BY <2>2, <2>3, StartFields
  <2> QED
    BY <2>1, <2>4 DEF UpdateUserRole
<1>2. CASE DeleteUserRole(r, u)
  <2> DEFINE place == IF u \in admins THEN "countDelete" ELSE "delete"
  <2>2. place \in Places
    BY DEF Places
  <2>3. req' = [req EXCEPT ![r] = [Idle EXCEPT !.pc = place, !.target = u]]
    BY <1>2 DEF DeleteUserRole
  <2> HIDE DEF place
  <2>4. Others(r) /\ req'[r].target = u
    BY <2>2, <2>3, StartFields
  <2> QED
    BY <1>2, <2>4 DEF DeleteUserRole
<1>3. CASE ApproveLink(r, u) \/ RejectLink(r, u)
  <2>1. PICK place \in Places : OpenLink(r, u, place)
    BY <1>3 DEF ApproveLink, RejectLink, Places
  <2>2. Others(r) /\ req'[r].target = u
    BY <2>1, StartFields DEF OpenLink
  <2> QED
    BY <2>1, <2>2 DEF OpenLink
<1> QED
  BY <1>1, <1>2, <1>3 DEF Begins

-----------------------------------------------------------------------------
(* The type invariant in parts.                                            *)
RowsOK ==
  /\ lastId \in UserIds
  /\ users \subseteq 1..lastId /\ admins \subseteq users /\ active \subseteq users
Verdicted == {"approved", "rejected", "overtaken"}
LinksOK ==
  /\ sessions \subseteq 1..lastId /\ mailed \subseteq 1..lastId /\ spent \subseteq mailed
  /\ notices \subseteq UserIds \X {"approved", "rejected"}
  /\ decided \subseteq UserIds \X Requests \X Verdicted
CountsOK == fresh \subseteq Requests /\ faults \in 0..MaxFaults

(* A handler that serves a mailed link has spent its user's token, one that *)
(* asks for a review has inserted its user.                                *)
LinkPlaces == {"approve", "tellApproved", "readPending", "reject", "tellRejected"}
Holders    == \A r \in Requests : req[r].pc \in LinkPlaces => req[r].target \in spent

Notifiers  == \A r \in Requests : req[r].pc = "notify" => req[r].target \in 1..lastId

TypeInv == TypeOK /\ Holders /\ Notifiers

LEMMA TypeParts == TypeOK <=> Locals /\ RowsOK /\ LinksOK /\ CountsOK
  BY DEF TypeOK, Locals, RowsOK, LinksOK, CountsOK, Verdicted

LEMMA TypeInvNext ==
  Locals' /\ RowsOK' /\ LinksOK' /\ CountsOK' /\ Holders' /\ Notifiers' => TypeInv'
  BY DEF TypeInv, TypeOK, Locals, RowsOK, LinksOK, CountsOK, Verdicted

(* An INSERT gives an id that nothing refers to.                           *)
LEMMA InsertRows ==
  ASSUME RowsOK, NEW isAdmin \in BOOLEAN, NEW isActive \in BOOLEAN, Insert(isAdmin, isActive)
  PROVE  RowsOK' /\ lastId + 1 \in UserIds /\ lastId' = lastId + 1 /\ lastId \in Nat
<1>1. lastId + 1 \in UserIds /\ lastId' = lastId + 1 /\ lastId \in Nat
  BY DEF Insert, RowsOK
<1>2. 1..lastId \subseteq 1..(lastId + 1) /\ lastId + 1 \in 1..(lastId + 1)
  BY <1>1
<1> QED
  BY <1>1, <1>2 DEF Insert, RowsOK

LEMMA LinkTarget ==
  ASSUME RowsOK, LinksOK, Holders, NEW r \in Requests, req[r].pc \in LinkPlaces
  PROVE  req[r].target \in 1..lastId /\ req[r].target \in UserIds
<1>1. req[r].target \in 1..lastId /\ lastId \in 1..MaxUsers
  BY DEF Holders, LinksOK, RowsOK
<1> QED
  BY <1>1

(* The requests of the page for users begin outside the links' places.     *)
LEMMA BeginPlaces ==
  ASSUME Locals, NEW r \in Requests, NEW u \in UserIds,
         \/ \E isAdmin, isActive \in BOOLEAN : UpdateUserRole(r, u, isAdmin, isActive)
         \/ DeleteUserRole(r, u)
  PROVE  UNCHANGED spent /\ Others(r) /\ req'[r].pc \notin LinkPlaces /\ req'[r].pc # "notify"
<1>1. PICK place \in {"countUpdate", "update", "countDelete", "delete"},
           isAdmin \in BOOLEAN, isActive \in BOOLEAN :
        \/ req' = [req EXCEPT ![r] = [Idle EXCEPT !.pc = place, !.target = u]]
        \/ req' = [req EXCEPT ![r] = [Idle EXCEPT !.pc = place, !.target = u,
                                                  !.admin = isAdmin, !.active = isActive]]
  <2>1. CASE DeleteUserRole(r, u)
    <3>1. (IF u \in admins THEN "countDelete" ELSE "delete") \in {"countDelete", "delete"}
      OBVIOUS
    <3> QED
      BY <2>1, <3>1 DEF DeleteUserRole
  <2>2. CASE \E isAdmin, isActive \in BOOLEAN : UpdateUserRole(r, u, isAdmin, isActive)
    <3>1. PICK isAdmin \in BOOLEAN, isActive \in BOOLEAN : UpdateUserRole(r, u, isAdmin, isActive)
      BY <2>2
    <3> DEFINE place == IF u \in admins /\ ~isAdmin THEN "countUpdate" ELSE "update"
    <3>2. place \in {"countUpdate", "update"}
      OBVIOUS
    <3>3. req' = [req EXCEPT ![r] = [Idle EXCEPT !.pc = place, !.target = u,
                                                 !.admin = isAdmin, !.active = isActive]]
      BY <3>1 DEF UpdateUserRole
    <3> HIDE DEF place
    <3> QED
      BY <3>2, <3>3
  <2> QED
    BY <2>1, <2>2
<1>2. Others(r) /\ req'[r].pc = place
  <2>1. place \in Places
    BY DEF Places
  <2>2. CASE req' = [req EXCEPT ![r] = [Idle EXCEPT !.pc = place, !.target = u]]
    BY <2>1, <2>2, StartFields
  <2>3. CASE req' = [req EXCEPT ![r] = [Idle EXCEPT !.pc = place, !.target = u,
                                                   !.admin = isAdmin, !.active = isActive]]
    BY <2>1, <2>3, StartFields
  <2> QED
    BY <1>1, <2>2, <2>3
<1> QED
  BY <1>2 DEF UpdateUserRole, DeleteUserRole, LinkPlaces

(* Every variable keeps its type.                                          *)
LEMMA TypeStep == TypeInv /\ [Next]_vars => TypeInv'
<1> SUFFICES ASSUME TypeInv, [Next]_vars PROVE TypeInv'
  OBVIOUS
<1>0. Locals /\ RowsOK /\ LinksOK /\ CountsOK /\ Holders /\ Notifiers
  BY TypeParts DEF TypeInv
<1>k. /\ UNCHANGED req => Locals'
      /\ UNCHANGED <<req, spent>> => Holders'
      /\ UNCHANGED <<req, lastId>> => Notifiers'
      /\ UNCHANGED req /\ lastId' = lastId + 1 => Notifiers'
      /\ UNCHANGED rows => RowsOK'
      /\ UNCHANGED <<lastId, sessions, mailed, spent, notices, decided>> => LinksOK'
      /\ UNCHANGED <<fresh, faults>> => CountsOK'
      /\ fresh' = {} /\ UNCHANGED faults => CountsOK'
  <2>1. UNCHANGED req /\ lastId' = lastId + 1 => Notifiers'
    <3> SUFFICES ASSUME UNCHANGED req, lastId' = lastId + 1 PROVE Notifiers'
      OBVIOUS
    <3>1. 1..lastId \subseteq 1..lastId'
      BY <1>0 DEF RowsOK
    <3> QED
      BY <1>0, <3>1 DEF Notifiers
  <2> QED
    BY <1>0, <2>1 DEF Locals, RowsOK, LinksOK, CountsOK, Holders, Notifiers, rows
<1>h. ASSUME NEW r \in Requests, Others(r), spent \subseteq spent',
             req'[r].pc \in LinkPlaces => req'[r].target \in spent'
      PROVE  Holders' /\ Locals'
  BY <1>0, <1>h DEF Holders, Others
<1>n. ASSUME NEW r \in Requests, Others(r), lastId' = lastId \/ lastId' = lastId + 1,
             req'[r].pc = "notify" => req'[r].target \in 1..lastId'
      PROVE  Notifiers'
  <2>1. lastId \in Nat /\ 1..lastId \subseteq 1..lastId'
    BY <1>0, <1>n DEF RowsOK
  <2> QED
    BY <1>0, <1>n, <2>1 DEF Notifiers, Others
<1> USE <1>0
<1>1. ASSUME NEW x \in BOOLEAN, NEW y \in BOOLEAN, CreateUser(x, y) PROVE TypeInv'
  <2>1. RowsOK' /\ lastId' = lastId + 1 /\ lastId \in Nat
    BY <1>1, InsertRows DEF CreateUser
  <2>2. LinksOK'
    BY <1>1, <2>1 DEF CreateUser, LinksOK
  <2> QED
    BY <1>k, TypeInvNext, <1>1, <2>1, <2>2 DEF CreateUser, Outdate
<1>2. ASSUME NEW r \in Requests, NEW y \in BOOLEAN, Register(r, y) PROVE TypeInv'
  <2>1. RowsOK' /\ lastId' = lastId + 1 /\ lastId \in Nat /\ lastId + 1 \in UserIds
    BY <1>2, InsertRows DEF Register
  <2>2. LinksOK'
    BY <1>2, <2>1 DEF Register, LinksOK
  <2>3. Locals' /\ Holders' /\ Notifiers'
    <3>1. CASE y
      BY <1>2, <1>k, <2>1, <3>1 DEF Register
    <3>2. CASE ~y
      <4>1. Others(r) /\ req'[r].pc = "notify" /\ req'[r].target = lastId'
        BY <1>2, <2>1, <3>2, StartFields DEF Register, Places
      <4>2. lastId' \in 1..lastId'
        BY <2>1
      <4> QED
        BY <1>h, <1>n, <1>2, <2>1, <4>1, <4>2 DEF Register, LinkPlaces
    <3> QED
      BY <3>1, <3>2
  <2> QED
    BY <1>k, TypeInvNext, <1>2, <2>1, <2>2, <2>3 DEF Register
<1>13. ASSUME NEW r \in Requests, NotifyAdmin(r) PROVE TypeInv'
  <2>1. Others(r) /\ req'[r].pc = "idle"
    BY <1>13, ReturnFields DEF NotifyAdmin
  <2>2. Locals' /\ Holders' /\ Notifiers'
    BY <1>13, <1>h, <1>n, <2>1 DEF NotifyAdmin, LinkPlaces, rows
  <2>3. LinksOK'
    BY <1>13 DEF NotifyAdmin, LinksOK, Notifiers, rows
  <2> QED
    BY <1>k, TypeInvNext, <1>13, <2>2, <2>3 DEF NotifyAdmin
<1>14. ASSUME NEW r \in Requests, StatementFails(r) PROVE TypeInv'
  <2>1. Others(r) /\ req'[r].pc = "idle"
    BY <1>14, ReturnFields DEF StatementFails
  <2>2. Locals' /\ Holders' /\ Notifiers'
    BY <1>14, <1>h, <1>n, <2>1 DEF StatementFails, LinkPlaces, rows
  <2>3. CountsOK'
    BY <1>14 DEF StatementFails, Faulty, CountsOK
  <2> QED
    BY <1>k, TypeInvNext, <1>14, <2>2, <2>3 DEF StatementFails, rows
<1>3. ASSUME NEW u \in UserIds, Login(u) \/ ApproveUser(u) \/ RejectUser(u) PROVE TypeInv'
  <2>1. RowsOK'
    BY <1>3 DEF Login, ApproveUser, RejectUser, Remove, RowsOK, rows
  <2>2. LinksOK'
    BY <1>3 DEF Login, ApproveUser, RejectUser, LinksOK, RowsOK, rows
  <2>3. UNCHANGED <<req, lastId>>
    BY <1>3 DEF Login, ApproveUser, RejectUser, rows
  <2> QED
    BY <1>k, TypeInvNext, <1>3, <2>1, <2>2, <2>3 DEF Login, ApproveUser, RejectUser, Outdate
<1>4. ASSUME NEW r \in Requests, NEW u \in UserIds,
             \/ \E isAdmin, isActive \in BOOLEAN : UpdateUserRole(r, u, isAdmin, isActive)
             \/ DeleteUserRole(r, u)
      PROVE  TypeInv'
  <2>1. Locals' /\ Holders' /\ Notifiers'
    BY <1>4, <1>h, <1>n, BeginPlaces DEF UpdateUserRole, DeleteUserRole, rows
  <2> QED
    BY <1>k, TypeInvNext, <1>4, <2>1 DEF UpdateUserRole, DeleteUserRole, rows
<1>5. ASSUME NEW r \in Requests, CountAdmins(r) PROVE TypeInv'
  <2>1. Others(r) /\ req'[r].pc \notin LinkPlaces /\ req'[r].pc # "notify"
    BY <1>5, ReturnFields, GotoFields DEF CountAdmins, Places, LinkPlaces
  <2>2. Locals' /\ Holders' /\ Notifiers'
    BY <1>5, <1>h, <1>n, <2>1 DEF CountAdmins, rows
  <2>3. CountsOK'
    BY <1>5 DEF CountAdmins, Faulty, CountsOK
  <2> QED
    BY <1>k, TypeInvNext, <1>5, <2>2, <2>3 DEF CountAdmins, rows
<1>6. ASSUME NEW r \in Requests, UpdateUser(r) \/ DeleteUser(r) PROVE TypeInv'
  <2>1. Locals' /\ Holders' /\ Notifiers'
    BY <1>6, <1>h, <1>n, ReturnFields DEF UpdateUser, DeleteUser, LinkPlaces
  <2>2. RowsOK'
    BY <1>6 DEF UpdateUser, DeleteUser, Remove, RowsOK
  <2> QED
    BY <1>k, TypeInvNext, <1>6, <2>1, <2>2 DEF UpdateUser, DeleteUser, Outdate
<1>7. ASSUME NEW r \in Requests, NEW u \in UserIds, ApproveLink(r, u) \/ RejectLink(r, u)
      PROVE  TypeInv'
  <2>1. PICK place \in Places : OpenLink(r, u, place)
    BY <1>7 DEF ApproveLink, RejectLink, Places
  <2>2. Others(r) /\ req'[r].target = u
    BY <2>1, StartFields DEF OpenLink
  <2>5. req'[r].pc # "notify"
    BY <1>7, StartFields DEF ApproveLink, RejectLink, OpenLink, Places
  <2>3. Locals' /\ Holders' /\ Notifiers'
    BY <1>h, <1>n, <2>1, <2>2, <2>5 DEF OpenLink, rows
  <2>4. LinksOK'
    BY <2>1 DEF OpenLink, LinksOK, rows
  <2> QED
    BY <1>k, TypeInvNext, <2>1, <2>3, <2>4 DEF OpenLink, rows
<1>8. ASSUME NEW r \in Requests, ApproveRegistration(r) \/ RejectRegistration(r) PROVE TypeInv'
  <2>1. req[r].pc \in LinkPlaces
    BY <1>8 DEF ApproveRegistration, RejectRegistration, LinkPlaces
  <2>2. Others(r) /\ req'[r].target = req[r].target /\ req'[r].pc # "notify"
    BY <1>8, GotoFields DEF ApproveRegistration, RejectRegistration, Places
  <2>3. Locals' /\ Holders' /\ Notifiers'
    BY <1>8, <1>h, <1>n, <2>1, <2>2 DEF ApproveRegistration, RejectRegistration, Holders
  <2>4. req[r].target \in 1..lastId /\ req[r].target \in UserIds
    BY <2>1, LinkTarget
  <2>5. RowsOK'
    BY <1>8 DEF ApproveRegistration, RejectRegistration, Remove, RowsOK
  <2>6. LinksOK'
    <3>1. decided' \subseteq UserIds \X Requests \X Verdicted
      BY <1>8, <2>4 DEF ApproveRegistration, RejectRegistration, Decide, LinksOK, Verdicted
    <3>2. UNCHANGED <<lastId, sessions, mailed, spent, notices>>
      BY <1>8 DEF ApproveRegistration, RejectRegistration
    <3> QED
      BY <3>1, <3>2 DEF LinksOK
  <2> QED
    BY <1>k, TypeInvNext, <1>8, <2>3, <2>5, <2>6 DEF ApproveRegistration, RejectRegistration, Outdate
<1>9. ASSUME NEW r \in Requests, TellApproved(r) \/ TellRejected(r) PROVE TypeInv'
  <2>1. Locals' /\ Holders' /\ Notifiers'
    BY <1>9, <1>h, <1>n, ReturnFields DEF TellApproved, TellRejected, LinkPlaces, rows
  <2>2. req[r].target \in 1..lastId /\ req[r].target \in UserIds
    BY <1>9, LinkTarget DEF TellApproved, TellRejected, LinkPlaces
  <2>3. LinksOK'
    BY <1>9, <2>2 DEF TellApproved, TellRejected, LinksOK, rows
  <2> QED
    BY <1>k, TypeInvNext, <1>9, <2>1, <2>3 DEF TellApproved, TellRejected, rows
<1>10. ASSUME NEW r \in Requests, ReadPending(r) PROVE TypeInv'
  <2>1. Others(r) /\ req'[r].target = req[r].target /\ req[r].pc \in LinkPlaces
    BY <1>10, ReadFields DEF ReadPending, LinkPlaces
  <2>2. Locals' /\ Holders' /\ Notifiers'
    <3>1. UNCHANGED <<spent, lastId>> /\ req[r].target \in spent /\ req'[r].pc = "reject"
      BY <1>10, <2>1, ReadFields DEF ReadPending, Holders, rows
    <3> QED
      BY <1>h, <1>n, <2>1, <3>1
  <2> QED
    BY <1>k, TypeInvNext, <1>10, <2>2 DEF ReadPending, rows
<1>11. ASSUME Restart PROVE TypeInv'
  <2>1. Locals' /\ Holders' /\ Notifiers'
    BY <1>11, IdleFields DEF Restart, Locals, Holders, Notifiers, LinkPlaces
  <2>2. RowsOK' /\ lastId' \in Nat /\ lastId \in Nat /\ lastId <= lastId'
    <3>1. CASE users # {}
      <4>1. UNCHANGED <<lastId, users, active>> /\ admins' \subseteq users
        BY <1>11, <3>1 DEF Restart, RowsOK
      <4>2. lastId \in Nat
        BY DEF RowsOK
      <4> QED
        BY <4>1, <4>2 DEF RowsOK
    <3>2. CASE users = {}
      <4>1. Insert(TRUE, TRUE)
        BY <1>11, <3>2 DEF Restart
      <4>2. RowsOK' /\ lastId' = lastId + 1 /\ lastId \in Nat
        BY <4>1, InsertRows
      <4> QED
        BY <4>2
    <3> QED
      BY <3>1, <3>2
  <2>3. LinksOK'
    BY <1>11, <2>2 DEF Restart, LinksOK
  <2>4. CountsOK'
    BY <1>11 DEF Restart, Faulty, CountsOK
  <2> QED
    BY <1>k, TypeInvNext, <2>1, <2>2, <2>3, <2>4
<1>12. ASSUME UNCHANGED vars PROVE TypeInv'
  BY <1>k, <1>12, TypeInvNext DEF vars, rows
<1> QED
  BY <1>1, <1>2, <1>3, <1>4, <1>5, <1>6, <1>7, <1>8, <1>9, <1>10, <1>11, <1>12, <1>13, <1>14
     DEF Next, UpdateRequest, DeleteRequest, ApproveRequest, RejectRequest

LEMMA TypeInit == Init => TypeInv
  BY IdleFields DEF Init, TypeInv, TypeOK, Holders, Notifiers, LinkPlaces

(* The types of the users' rows, the links and the handlers' locals: what  *)
(* a link's handler works on is a user whose token it spent.               *)
THEOREM TypeCorrect == Spec => []TypeOK
<1>1. TypeInv => TypeOK
  BY DEF TypeInv
<1> QED
  BY <1>1, TypeInit, TypeStep, PTL DEF Spec

-----------------------------------------------------------------------------
(* The last administrator.  A handler whose count is still valid is about  *)
(* to write, and there are two administrators or more: every statement     *)
(* that changes who is one outdates all the counts.                        *)
FreshInv ==
  \A r \in fresh : req[r].pc \in {"update", "delete"} /\ Cardinality(admins) >= 2

LEMMA AdminsFinite == TypeOK => IsFiniteSet(admins)
<1> SUFFICES ASSUME TypeOK PROVE IsFiniteSet(admins)
  OBVIOUS
<1>1. lastId \in Int /\ admins \subseteq users /\ users \subseteq 1..lastId
  BY DEF TypeOK
<1>2. IsFiniteSet(1..lastId)
  BY <1>1, FS_Interval
<1> QED
  BY <1>1, <1>2, FS_Subset

(* Of two administrators one is left when any user goes.                   *)
LEMMA OneIsLeft ==
  ASSUME TypeOK, Cardinality(admins) >= 2, NEW u
  PROVE  admins \ {u} # {}
<1> SUFFICES ASSUME admins \subseteq {u} PROVE FALSE
  OBVIOUS
<1>1. IsFiniteSet({u}) /\ Cardinality({u}) = 1
  BY FS_Singleton
<1>2. Cardinality(admins) <= 1 /\ Cardinality(admins) \in Nat
  BY <1>1, FS_Subset, AdminsFinite, FS_CardinalityType
<1> QED
  BY <1>2

LEMMA FreshStep == TypeInv /\ FreshInv /\ [Next]_vars => FreshInv'
<1> SUFFICES ASSUME TypeInv, FreshInv, [Next]_vars PROVE FreshInv'
  OBVIOUS
<1>0. Locals /\ fresh \subseteq Requests /\ TypeOK
  BY DEF TypeInv, TypeOK, Locals
<1>a. ASSUME UNCHANGED <<req, fresh, admins>> PROVE FreshInv'
  BY <1>a DEF FreshInv
<1>b. ASSUME fresh' = {} PROVE FreshInv'
  BY <1>b DEF FreshInv
<1>c. ASSUME NEW r \in Requests, Others(r), r \notin fresh, UNCHANGED <<fresh, admins>>
      PROVE  FreshInv'
  BY <1>0, <1>c DEF FreshInv, Others
<1>1. ASSUME NEW r \in Requests, NEW y \in BOOLEAN, Register(r, y) PROVE FreshInv'
  <2>1. r \notin fresh /\ UNCHANGED <<fresh, admins>>
    BY <1>1 DEF Register, Insert, FreshInv
  <2>2. lastId + 1 \in UserIds
    BY <1>1, InsertRows, TypeParts DEF Register, TypeInv
  <2>3. UNCHANGED req \/ Others(r)
    BY <1>0, <1>1, <2>2, StartFields DEF Register, Places
  <2> QED
    BY <1>a, <1>c, <2>1, <2>3
<1>10. ASSUME NEW r \in Requests, NotifyAdmin(r) PROVE FreshInv'
  BY <1>0, <1>10, <1>c, ReturnFields DEF NotifyAdmin, FreshInv, rows
<1>11. ASSUME NEW r \in Requests, StatementFails(r) PROVE FreshInv'
  BY <1>0, <1>11, ReturnFields DEF StatementFails, FreshInv, Others, rows
<1>2. ASSUME NEW u \in UserIds, Login(u) \/ ApproveUser(u) \/ RejectUser(u) PROVE FreshInv'
  BY <1>2, <1>a, <1>b DEF Login, ApproveUser, RejectUser, Outdate, rows
<1>3. ASSUME NEW r \in Requests, NEW u \in UserIds, Begins(r, u) PROVE FreshInv'
  <2>1. Others(r) /\ UNCHANGED <<fresh, admins>>
    BY <1>0, <1>3, BeginFields DEF rows
  <2>2. r \notin fresh
    BY <1>0, <1>3, BeginFields DEF FreshInv
  <2> QED
    BY <1>c, <2>1, <2>2
<1>4. ASSUME NEW r \in Requests, CountAdmins(r) PROVE FreshInv'
  <2>1. r \notin fresh /\ UNCHANGED admins
    BY <1>4 DEF CountAdmins, FreshInv, rows
  <2>2. Others(r) /\ (fresh' # fresh => req'[r].pc \in {"update", "delete"})
    BY <1>0, <1>4, ReturnFields, GotoFields DEF CountAdmins, Places
  <2>3. CASE UNCHANGED fresh
    BY <1>c, <2>1, <2>2, <2>3
  <2>4. CASE fresh' # fresh
    <3>1. Cardinality(admins) > 1 /\ fresh' = fresh \cup {r}
      BY <1>4, <2>4 DEF CountAdmins
    <3>2. Cardinality(admins) >= 2
      <4>1. Cardinality(admins) \in Nat
        BY <1>0, AdminsFinite, FS_CardinalityType
      <4> QED
        BY <3>1, <4>1
    <3> QED
      BY <1>0, <2>1, <2>2, <2>4, <3>1, <3>2 DEF FreshInv, Others
  <2> QED
    BY <2>3, <2>4
<1>5. ASSUME NEW r \in Requests, UpdateUser(r) \/ DeleteUser(r) \/ RejectRegistration(r)
      PROVE  FreshInv'
  BY <1>5, <1>b DEF UpdateUser, DeleteUser, RejectRegistration, Outdate
<1>6. ASSUME NEW r \in Requests,
             ApproveRegistration(r) \/ TellApproved(r) \/ ReadPending(r) \/ TellRejected(r)
      PROVE  FreshInv'
  <2>1. Others(r)
    BY <1>0, <1>6, GotoFields, ReturnFields, ReadFields
       DEF ApproveRegistration, TellApproved, TellRejected, Places
  <2>2. r \notin fresh /\ UNCHANGED <<fresh, admins>>
    BY <1>6 DEF ApproveRegistration, TellApproved, TellRejected, ReadPending, FreshInv, rows
  <2> QED
    BY <1>c, <2>1, <2>2
<1>7. ASSUME NEW x \in BOOLEAN, NEW y \in BOOLEAN, CreateUser(x, y) PROVE FreshInv'
  BY <1>7, <1>b DEF CreateUser, Outdate
<1>8. ASSUME Restart PROVE FreshInv'
  BY <1>8, <1>b DEF Restart
<1>9. ASSUME UNCHANGED vars PROVE FreshInv'
  BY <1>9, <1>a DEF vars, rows
<1> QED
  BY <1>1, <1>2, <1>3, <1>4, <1>5, <1>6, <1>7, <1>8, <1>9, <1>10, <1>11
     DEF Next, UpdateRequest, DeleteRequest, ApproveRequest, RejectRequest, Begins

(* Which steps end a handler that is about to write.                       *)
LEMMA WritesAre ==
  ASSUME TypeInv, [Next]_vars, NEW r \in Requests, req[r].pc \in {"update", "delete"},
         req'[r].pc = "idle", faults' = faults
  PROVE  UpdateUser(r) \/ DeleteUser(r)
<1>0. Locals /\ TypeOK
  BY DEF TypeInv, TypeOK, Locals
<1>1. ASSUME NEW s \in Requests, Others(s), req[s].pc \notin {"update", "delete"} PROVE FALSE
  BY <1>1 DEF Others
<1>2. UNCHANGED req => FALSE
  OBVIOUS
<1>3. ASSUME NEW s \in Requests, CountAdmins(s) \/ ApproveRegistration(s) \/ TellApproved(s)
                \/ ReadPending(s) \/ RejectRegistration(s) \/ TellRejected(s)
      PROVE  FALSE
  <2>1. Others(s)
    BY <1>0, <1>3, GotoFields, ReturnFields, ReadFields
       DEF CountAdmins, ApproveRegistration, TellApproved, RejectRegistration, TellRejected, Places
  <2>2. req[s].pc \notin {"update", "delete"}
    BY <1>3 DEF CountAdmins, ApproveRegistration, TellApproved, ReadPending, RejectRegistration,
                TellRejected
  <2> QED
    BY <1>1, <2>1, <2>2
<1>4. ASSUME NEW s \in Requests, NEW u \in UserIds, Begins(s, u) PROVE FALSE
  BY <1>0, <1>1, <1>4, BeginFields
<1>5. ASSUME Restart PROVE FALSE
  BY <1>0, <1>5 DEF Restart, Faulty, TypeOK
<1>6. ASSUME NEW s \in Requests, UpdateUser(s) \/ DeleteUser(s)
      PROVE  UpdateUser(r) \/ DeleteUser(r)
  <2>1. Others(s)
    BY <1>0, <1>6, ReturnFields DEF UpdateUser, DeleteUser
  <2>2. s = r
    BY <2>1 DEF Others
  <2> QED
    BY <1>6, <2>2
<1>7. ASSUME NEW x \in BOOLEAN, NEW y \in BOOLEAN, CreateUser(x, y) PROVE FALSE
  BY <1>2, <1>7 DEF CreateUser
<1>10. ASSUME NEW s \in Requests, NEW y \in BOOLEAN, Register(s, y) PROVE FALSE
  <2>1. lastId + 1 \in UserIds
    BY <1>10, InsertRows, TypeParts DEF Register, TypeInv
  <2>2. Others(s) \/ UNCHANGED req
    BY <1>0, <1>10, <2>1, StartFields DEF Register, Places
  <2> QED
    BY <1>1, <1>2, <1>10, <2>2 DEF Register
<1>11. ASSUME NEW s \in Requests, NotifyAdmin(s) PROVE FALSE
  BY <1>0, <1>1, <1>11, ReturnFields DEF NotifyAdmin
<1>12. ASSUME NEW s \in Requests, StatementFails(s) PROVE FALSE
  BY <1>0, <1>12 DEF StatementFails, Faulty, TypeOK
<1>8. ASSUME NEW u \in UserIds, Login(u) \/ ApproveUser(u) \/ RejectUser(u) PROVE FALSE
  BY <1>2, <1>8 DEF Login, ApproveUser, RejectUser
<1>9. ASSUME UNCHANGED vars PROVE FALSE
  BY <1>2, <1>9 DEF vars
<1> QED
  BY <1>3, <1>4, <1>5, <1>6, <1>7, <1>8, <1>9, <1>10, <1>11, <1>12
     DEF Next, UpdateRequest, DeleteRequest, ApproveRequest, RejectRequest, Begins

(* A demotion or a deletion whose count is still valid when it writes      *)
(* leaves an administrator, for any number of users and handlers.          *)
THEOREM LastAdminIsKept == Spec => LastAdminKept
<1>1. Init => FreshInv
  BY DEF Init, FreshInv
<1>2. TypeInv /\ FreshInv /\ [Next]_vars =>
         [\A r \in Requests :
             req[r].pc \in {"update", "delete"} /\ req'[r].pc = "idle"
                /\ r \in fresh /\ faults' = faults
             => admins' # {}]_vars
  <2> SUFFICES ASSUME TypeInv, FreshInv, [Next]_vars, NEW r \in Requests,
                      req[r].pc \in {"update", "delete"}, req'[r].pc = "idle",
                      r \in fresh, faults' = faults
               PROVE  admins' # {}
    OBVIOUS
  <2>1. admins \ {req[r].target} # {}
    BY OneIsLeft DEF FreshInv, TypeInv
  <2>2. UpdateUser(r) \/ DeleteUser(r)
    BY WritesAre
  <2>3. admins \ {req[r].target} \subseteq admins'
    BY <2>2 DEF UpdateUser, DeleteUser, Remove
  <2> QED
    BY <2>1, <2>3
<1> QED
  BY <1>1, <1>2, TypeInit, TypeStep, FreshStep, PTL DEF Spec, LastAdminKept

(* Only the deletion by an administrator removes an active user: both      *)
(* rejections spare whoever is active at their DELETE.                     *)
THEOREM RejectionsSpareActive == Spec => ActiveNotRejected
<1>1. TypeInv /\ [Next]_vars =>
         [\A u \in active :
             u \notin users' => \E r \in Requests : req[r].pc = "delete" /\ req[r].target = u]_vars
  <2> SUFFICES ASSUME TypeInv, [Next]_vars, NEW u \in active, u \notin users'
               PROVE  \E r \in Requests : req[r].pc = "delete" /\ req[r].target = u
    OBVIOUS
  <2>0. u \in users
    BY DEF TypeInv, TypeOK
  <2>1. ASSUME NEW r \in Requests, UpdateRequest(r) \/ CountAdmins(r) \/ ApproveRequest(r)
                 \/ RejectRequest(r) \/ \E v \in UserIds : DeleteUserRole(r, v)
                 \/ NotifyAdmin(r) \/ StatementFails(r)
        PROVE  FALSE
    BY <2>0, <2>1
       DEF NotifyAdmin, StatementFails, UpdateRequest, UpdateUser, UpdateUserRole, DeleteUserRole, CountAdmins,
           ApproveRequest, ApproveRegistration, TellApproved, ApproveLink, RejectRequest,
           ReadPending, RejectRegistration, TellRejected, RejectLink, OpenLink, Remove, rows
  <2>2. ASSUME NEW x \in BOOLEAN, NEW y \in BOOLEAN,
               CreateUser(x, y) \/ \E r \in Requests : Register(r, y)
        PROVE  FALSE
    BY <2>0, <2>2 DEF CreateUser, Register, Insert
  <2>3. ASSUME NEW v \in UserIds, Login(v) \/ ApproveUser(v) \/ RejectUser(v) PROVE FALSE
    BY <2>0, <2>3 DEF Login, ApproveUser, RejectUser, Remove, rows
  <2>4. ASSUME Restart \/ UNCHANGED vars PROVE FALSE
    BY <2>0, <2>4 DEF Restart, Insert, vars, rows
  <2>5. ASSUME NEW r \in Requests, DeleteUser(r)
        PROVE  req[r].pc = "delete" /\ req[r].target = u
    BY <2>0, <2>5 DEF DeleteUser, Remove
  <2> QED
    BY <2>1, <2>2, <2>3, <2>4, <2>5 DEF Next, DeleteRequest
<1> QED
  BY <1>1, TypeInit, TypeStep, PTL DEF Spec, ActiveNotRejected


-----------------------------------------------------------------------------
(* The review by mailed links.  A verdict is about a spent token, there is *)
(* one per application, and one handler at most is at each application:    *)
(* it knows whether its verdict is given, and nobody has told the          *)
(* applicant before it does.                                               *)
DecidePlaces == {"approve", "readPending", "reject"}

Alone ==
  \A r, s \in Requests :
     req[r].pc \in LinkPlaces /\ req[s].pc \in LinkPlaces /\ req[r].target = req[s].target
     => r = s
Settled ==
  \A u \in UserIds :
     /\ Verdicts(u) = {} \/ \E v \in Verdicted : Verdicts(u) = {v}
     /\ Verdicts(u) # {} => u \in spent
ToldAfter ==
  \A u \in UserIds, v \in {"approved", "rejected"} : <<u, v>> \in notices => Verdicts(u) # {}
AtLink(r) ==
  /\ req[r].pc \in DecidePlaces => Verdicts(req[r].target) = {}
  /\ req[r].pc = "tellApproved" =>
        \/ Verdicts(req[r].target) = {"approved"}
        \/ Verdicts(req[r].target) = {"overtaken"} /\ req[r].target \notin users
  /\ req[r].pc = "tellRejected" => Verdicts(req[r].target) \in {{"rejected"}, {"overtaken"}}
  /\ req[r].pc \in LinkPlaces =>
        \A v \in {"approved", "rejected"} : <<req[r].target, v>> \notin notices
AllAtLinks == \A r \in Requests : AtLink(r)

ReviewInv == Alone /\ Settled /\ ToldAfter /\ AllAtLinks

LEMMA ReviewInvNext == Alone' /\ Settled' /\ ToldAfter' /\ AllAtLinks' => ReviewInv'
  BY DEF ReviewInv

(* The verdicts after nothing, and after one, was decided.                 *)
LEMMA VerdictsKept ==
  ASSUME UNCHANGED decided PROVE \A u \in UserIds : Verdicts(u)' = Verdicts(u)
  BY DEF Verdicts

LEMMA VerdictGiven ==
  ASSUME NEW u \in UserIds, NEW r \in Requests, NEW v,
         decided' = decided \cup {<<u, r, v>>}
  PROVE  \A w \in UserIds : Verdicts(w)' = IF w = u THEN Verdicts(w) \cup {v} ELSE Verdicts(w)
<1> DEFINE m == <<u, r, v>>
<1>1. m[1] = u /\ m[3] = v
  OBVIOUS
<1>2. decided' = decided \cup {m}
  OBVIOUS
<1> HIDE DEF m
<1> QED
  BY <1>1, <1>2 DEF Verdicts

(* A step that decides, tells and opens nothing, and leaves the handlers   *)
(* at the links where they are or ends them.                               *)
LEMMA ReviewKept ==
  ASSUME TypeInv, ReviewInv, UNCHANGED <<decided, notices, spent>>,
         users' \cap 1..lastId \subseteq users,
         \A r \in Requests : req'[r].pc \in LinkPlaces => req'[r] = req[r]
  PROVE  ReviewInv'
<1>1. \A u \in UserIds : Verdicts(u)' = Verdicts(u)
  BY VerdictsKept
<1>2. ASSUME NEW r \in Requests, req[r].pc \in LinkPlaces
      PROVE  req[r].target \in UserIds /\ req[r].target \in 1..lastId
  BY <1>2, LinkTarget, TypeParts DEF TypeInv
<1>3. Alone'
  BY DEF Alone, ReviewInv
<1>4. Settled' /\ ToldAfter'
  BY <1>1 DEF Settled, ToldAfter, ReviewInv
<1>5. ASSUME NEW r \in Requests PROVE AtLink(r)'
  <2>1. CASE req'[r].pc \in LinkPlaces
    <3>1. req'[r] = req[r] /\ req[r].target \in UserIds /\ req[r].target \in 1..lastId
      BY <1>2, <2>1
    <3>2. Verdicts(req[r].target)' = Verdicts(req[r].target)
      BY <3>1 DEF Verdicts
    <3>3. AtLink(r)
      BY DEF ReviewInv, AllAtLinks
    <3> QED
      BY <3>1, <3>2, <3>3 DEF AtLink
  <2>2. CASE req'[r].pc \notin LinkPlaces
    BY <2>2 DEF AtLink, LinkPlaces, DecidePlaces
  <2> QED
    BY <2>1, <2>2
<1> QED
  BY <1>3, <1>4, <1>5, ReviewInvNext DEF AllAtLinks


(* The places of the other handlers, when one of them opened a link for    *)
(* the user u, decided about it or told it.                                *)
LEMMA OthersAtLinks ==
  ASSUME TypeInv, ReviewInv, NEW r \in Requests, NEW u \in UserIds, Others(r),
         users' \subseteq users,
         \A w \in UserIds : w # u => Verdicts(w)' = Verdicts(w),
         \A w \in UserIds, v \in {"approved", "rejected"} :
            w # u => (<<w, v>> \in notices' <=> <<w, v>> \in notices),
         NEW s \in Requests, s # r, req[s].pc \in LinkPlaces => req[s].target # u
  PROVE  AtLink(s)'
<1>1. req'[s] = req[s] /\ AtLink(s)
  BY DEF Others, ReviewInv, AllAtLinks
<1>2. CASE req[s].pc \in LinkPlaces
  <2>1. req[s].target \in UserIds /\ req[s].target # u
    BY <1>2, LinkTarget, TypeParts DEF TypeInv
  <2>2. Verdicts(req[s].target)' = Verdicts(req[s].target)
    <3> DEFINE w == req[s].target
    <3>1. \A x \in UserIds : x # u => Verdicts(x)' = {m[3] : m \in {n \in decided' : n[1] = x}}
      BY DEF Verdicts
    <3>2. Verdicts(req[s].target)' = {m[3] : m \in {n \in decided' : n[1] = w}}
      BY <1>1 DEF Verdicts
    <3> QED
      BY <2>1, <3>1, <3>2
  <2> QED
    BY <1>1, <2>1, <2>2 DEF AtLink
<1>3. CASE req[s].pc \notin LinkPlaces
  BY <1>1, <1>3 DEF AtLink, LinkPlaces, DecidePlaces
<1> QED
  BY <1>2, <1>3

(* A link is opened: its application is undecided and nobody is at it.     *)
LEMMA OpenKeepsReview ==
  ASSUME TypeInv, TypeInv', ReviewInv, NEW r \in Requests, NEW u \in UserIds, NEW place \in DecidePlaces,
         OpenLink(r, u, place)
  PROVE  ReviewInv'
<1>0. Locals /\ Holders
  BY TypeParts DEF TypeInv
<1>1. Others(r) /\ req'[r].pc = place /\ req'[r].target = u /\ req[r].pc = "idle"
  BY <1>0, StartFields DEF OpenLink, Places, DecidePlaces
<1>2. /\ UNCHANGED <<decided, notices, users, active>> /\ u \notin spent
      /\ spent \subseteq spent'
  BY DEF OpenLink, rows
<1>3. \A w \in UserIds : Verdicts(w)' = Verdicts(w)
  BY <1>2, VerdictsKept
<1>4. Verdicts(u) = {}
  BY <1>2 DEF ReviewInv, Settled
<1>5. \A s \in Requests : req[s].pc \in LinkPlaces => req[s].target # u
  BY <1>0, <1>2 DEF Holders
<1>6. Alone'
  BY <1>1, <1>5 DEF ReviewInv, Alone, Others
<1>7. Settled' /\ ToldAfter'
  BY <1>2, <1>3 DEF ReviewInv, Settled, ToldAfter
<1>8. AtLink(r)'
  <2>1. \A v \in {"approved", "rejected"} : <<u, v>> \notin notices'
    BY <1>2, <1>4 DEF ReviewInv, ToldAfter
  <2>2. Verdicts(req[r].target)' = {}
    BY <1>1, <1>2, <1>4 DEF Verdicts
  <2> QED
    BY <1>1, <2>1, <2>2 DEF AtLink, DecidePlaces
<1>9. ASSUME NEW s \in Requests, s # r PROVE AtLink(s)'
  BY <1>1, <1>2, <1>3, <1>5, <1>9, OthersAtLinks
<1> QED
  BY <1>6, <1>7, <1>8, <1>9, ReviewInvNext DEF AllAtLinks


(* Two handlers are never at the same application.                         *)
LEMMA OnlyOne ==
  ASSUME ReviewInv, NEW r \in Requests, req[r].pc \in LinkPlaces
  PROVE  \A s \in Requests : s # r /\ req[s].pc \in LinkPlaces => req[s].target # req[r].target
  BY DEF ReviewInv, Alone

(* What a decision does to the row, and the verdict it leaves.             *)
Decision(r, v) ==
  LET u == req[r].target IN
  /\ decided' = decided \cup {<<u, r, v>>}
  /\ \/ v = "approved" /\ u \in users /\ active' = active \cup {u} /\ users' = users
     \/ v = "rejected" /\ u \in users \ active /\ users' = users \ {u} /\ active' = active
     \/ v = "overtaken" /\ u \notin users \ active /\ users' = users /\ active' = active

LEMMA Decisions ==
  ASSUME TypeInv, NEW r \in Requests, ApproveRegistration(r) \/ RejectRegistration(r)
  PROVE  /\ req[r].pc \in DecidePlaces /\ Others(r) /\ req'[r].target = req[r].target
         /\ UNCHANGED <<mailed, notices, spent>>
         /\ \E v \in Verdicted :
               /\ Decision(r, v)
               /\ \/ req'[r].pc = "tellApproved" /\ v # "rejected"
                     /\ (v = "overtaken" => req[r].target \notin users)
                  \/ req'[r].pc = "tellRejected" /\ v # "approved"
<1> DEFINE u == req[r].target
<1>0. Locals /\ active \subseteq users
  BY TypeParts DEF TypeInv, RowsOK
<1>1. CASE ApproveRegistration(r)
  <2>1. Others(r) /\ req'[r].target = u /\ req'[r].pc = "tellApproved"
    BY <1>0, <1>1, GotoFields DEF ApproveRegistration, Places
  <2>2. CASE u \in users
    <3>1. Decision(r, "approved")
      BY <1>1, <2>2 DEF ApproveRegistration, Decide, Decision
    <3> QED
      BY <1>1, <2>1, <3>1 DEF ApproveRegistration, DecidePlaces, Verdicted
  <2>3. CASE u \notin users
    <3>1. Decision(r, "overtaken")
      BY <1>1, <2>3 DEF ApproveRegistration, Decide, Decision
    <3> QED
      BY <1>1, <2>1, <2>3, <3>1 DEF ApproveRegistration, DecidePlaces, Verdicted
  <2> QED
    BY <2>2, <2>3
<1>2. CASE RejectRegistration(r)
  <2>1. Others(r) /\ req'[r].target = u /\ req'[r].pc = "tellRejected"
    BY <1>0, <1>2, GotoFields DEF RejectRegistration, Places
  <2>2. CASE u \in users \ active
    <3>1. decided' = decided \cup {<<u, r, "rejected">>}
      BY <1>2, <2>2 DEF RejectRegistration, Decide
    <3>2. users' = users \ {u} /\ active' = active
      BY <1>2, <2>2 DEF RejectRegistration, Remove
    <3>3. Decision(r, "rejected")
      BY <2>2, <3>1, <3>2 DEF Decision
    <3> QED
      BY <1>2, <2>1, <3>3 DEF RejectRegistration, DecidePlaces, Verdicted
  <2>3. CASE u \notin users \ active
    <3>1. decided' = decided \cup {<<u, r, "overtaken">>}
      BY <1>2, <2>3 DEF RejectRegistration, Decide
    <3>2. users' = users /\ active' = active
      BY <1>0, <1>2, <2>3 DEF RejectRegistration, Remove
    <3>3. Decision(r, "overtaken")
      BY <2>3, <3>1, <3>2 DEF Decision
    <3> QED
      BY <1>2, <2>1, <3>3 DEF RejectRegistration, DecidePlaces, Verdicted
  <2> QED
    BY <2>2, <2>3
<1> QED
  BY <1>1, <1>2

LEMMA DecideKeepsReview ==
  ASSUME TypeInv, TypeInv', ReviewInv, NEW r \in Requests,
         ApproveRegistration(r) \/ RejectRegistration(r)
  PROVE  ReviewInv'
<1>0. Locals /\ Holders /\ RowsOK /\ LinksOK
  BY TypeParts DEF TypeInv
<1>1. req[r].pc \in LinkPlaces /\ req[r].pc \in DecidePlaces
  BY Decisions DEF LinkPlaces, DecidePlaces
<1>2. PICK u \in UserIds : u = req[r].target /\ u \in spent /\ u \in 1..lastId
  BY <1>0, <1>1, LinkTarget DEF Holders
<1>3. Others(r) /\ req'[r].target = u /\ UNCHANGED <<notices, spent>>
  BY <1>2, Decisions
<1>4. PICK v \in Verdicted :
        /\ Decision(r, v)
        /\ \/ req'[r].pc = "tellApproved" /\ v # "rejected" /\ (v = "overtaken" => u \notin users)
           \/ req'[r].pc = "tellRejected" /\ v # "approved"
  BY <1>2, Decisions
<1>5. /\ decided' = decided \cup {<<u, r, v>>} /\ users' \subseteq users
  BY <1>2, <1>4 DEF Decision
<1>6. Verdicts(u) = {} /\ \A x \in {"approved", "rejected"} : <<u, x>> \notin notices
  BY <1>1, <1>2 DEF ReviewInv, AllAtLinks, AtLink
<1>7. \A w \in UserIds : Verdicts(w)' = IF w = u THEN {v} ELSE Verdicts(w)
  <2>1. \A w \in UserIds : Verdicts(w)' = IF w = u THEN Verdicts(w) \cup {v} ELSE Verdicts(w)
    BY <1>5, VerdictGiven
  <2> QED
    BY <1>6, <2>1
<1>8. Verdicts(req[r].target)' = {v}
  <2>1. Verdicts(req[r].target)' = {m[3] : m \in {n \in decided' : n[1] = u}}
    BY <1>3 DEF Verdicts
  <2>2. \A w \in UserIds : Verdicts(w)' = {m[3] : m \in {n \in decided' : n[1] = w}}
    BY DEF Verdicts
  <2> QED
    BY <1>7, <2>1, <2>2
<1>9. Alone'
  BY <1>1, <1>2, <1>3 DEF ReviewInv, Alone, Others
<1>10. Settled' /\ ToldAfter'
  BY <1>2, <1>3, <1>6, <1>7 DEF ReviewInv, Settled, ToldAfter
<1>11. AtLink(r)'
  <2>1. \A x \in {"approved", "rejected"} : <<req'[r].target, x>> \notin notices'
    BY <1>3, <1>6
  <2>2. CASE req'[r].pc = "tellApproved"
    BY <1>3, <1>4, <1>5, <1>8, <2>1, <2>2 DEF AtLink, DecidePlaces, LinkPlaces, Verdicted
  <2>3. CASE req'[r].pc = "tellRejected"
    BY <1>3, <1>4, <1>8, <2>1, <2>3 DEF AtLink, DecidePlaces, LinkPlaces, Verdicted
  <2> QED
    BY <1>4, <2>2, <2>3
<1>12. ASSUME NEW s \in Requests, s # r PROVE AtLink(s)'
  <2>1. req[s].pc \in LinkPlaces => req[s].target # u
    BY <1>1, <1>2, <1>12, OnlyOne
  <2>2. \A w \in UserIds : w # u => Verdicts(w)' = Verdicts(w)
    BY <1>7
  <2> QED
    BY <1>3, <1>5, <1>12, <2>1, <2>2, OthersAtLinks
<1> QED
  BY <1>9, <1>10, <1>11, <1>12, ReviewInvNext DEF AllAtLinks

LEMMA TellKeepsReview ==
  ASSUME TypeInv, TypeInv', ReviewInv, NEW r \in Requests, TellApproved(r) \/ TellRejected(r)
  PROVE  ReviewInv'
<1> DEFINE u == req[r].target
           v == IF req[r].pc = "tellApproved" THEN "approved" ELSE "rejected"
<1>0. Locals /\ Holders /\ RowsOK /\ LinksOK
  BY TypeParts DEF TypeInv
<1>1. req[r].pc \in LinkPlaces
  BY DEF TellApproved, TellRejected, LinkPlaces
<1>2. u \in UserIds
  BY <1>0, <1>1, LinkTarget
<1>3. Others(r) /\ req'[r].pc = "idle"
  BY <1>0, ReturnFields DEF TellApproved, TellRejected
<1>4. /\ notices \subseteq notices' /\ notices' \subseteq notices \cup {<<u, v>>}
      /\ UNCHANGED <<users, active, spent, decided>>
  BY DEF TellApproved, TellRejected, rows
<1>5. \A w \in UserIds : Verdicts(w)' = Verdicts(w)
  BY <1>4, VerdictsKept
<1>6. Verdicts(u) # {}
  BY DEF ReviewInv, AllAtLinks, AtLink, TellApproved, TellRejected
<1>7. Alone' /\ AtLink(r)'
  BY <1>3 DEF ReviewInv, Alone, Others, LinkPlaces, DecidePlaces, AtLink
<1>8. Settled' /\ ToldAfter'
  BY <1>4, <1>5, <1>6 DEF ReviewInv, Settled, ToldAfter
<1>9. ASSUME NEW s \in Requests, s # r PROVE AtLink(s)'
  <2>1. req[s].pc \in LinkPlaces => req[s].target # u
    BY <1>1, <1>9, OnlyOne
  <2>2. \A w \in UserIds, x \in {"approved", "rejected"} :
           w # u => (<<w, x>> \in notices' <=> <<w, x>> \in notices)
    BY <1>4
  <2>3. /\ users' \subseteq users
        /\ \A w \in UserIds : w # u => Verdicts(w)' = Verdicts(w)
    BY <1>4, <1>5
  <2> HIDE DEF u, v
  <2> QED
    BY <1>2, <1>3, <1>9, <2>1, <2>2, <2>3, OthersAtLinks
<1> QED
  BY <1>7, <1>8, <1>9, ReviewInvNext DEF AllAtLinks

LEMMA ReadKeepsReview ==
  ASSUME TypeInv, TypeInv', ReviewInv, NEW r \in Requests, ReadPending(r)
  PROVE  ReviewInv'
<1>0. Locals
  BY TypeParts DEF TypeInv
<1>1. /\ Others(r) /\ req'[r].pc = "reject" /\ req'[r].target = req[r].target
      /\ req[r].pc = "readPending"
  BY <1>0, ReadFields DEF ReadPending
<1>2. UNCHANGED <<users, active, spent, decided, notices>>
  BY DEF ReadPending, rows
<1>3. \A w \in UserIds : Verdicts(w)' = Verdicts(w)
  BY <1>2, VerdictsKept
<1>4. Alone'
  BY <1>1 DEF ReviewInv, Alone, Others, LinkPlaces
<1>5. Settled' /\ ToldAfter'
  BY <1>2, <1>3 DEF ReviewInv, Settled, ToldAfter
<1>6. ASSUME NEW s \in Requests PROVE AtLink(s)'
  <2>1. AtLink(s) /\ req'[s].target = req[s].target
    BY <1>1 DEF ReviewInv, AllAtLinks, Others
  <2>2. Verdicts(req[s].target)' = Verdicts(req[s].target)
    BY <1>2, <2>1 DEF Verdicts
  <2>3. req'[s].pc = req[s].pc \/ (req'[s].pc = "reject" /\ req[s].pc = "readPending")
    BY <1>1 DEF Others
  <2> QED
    BY <1>2, <2>1, <2>2, <2>3 DEF AtLink, DecidePlaces, LinkPlaces
<1> QED
  BY <1>4, <1>5, <1>6, ReviewInvNext DEF AllAtLinks


LEMMA ReviewStep == TypeInv /\ TypeInv' /\ ReviewInv /\ [Next]_vars => ReviewInv'
<1> SUFFICES ASSUME TypeInv, TypeInv', ReviewInv, [Next]_vars PROVE ReviewInv'
  OBVIOUS
<1>0. Locals /\ RowsOK /\ lastId \in Nat
  BY TypeParts DEF TypeInv, RowsOK, ReviewInv
<1>8. ASSUME NEW r \in Requests, NEW y \in BOOLEAN, Register(r, y) PROVE ReviewInv'
  <2>1. UNCHANGED <<decided, notices, spent>> /\ users' = users \cup {lastId + 1}
    BY <1>8 DEF Register, Insert
  <2>2. users' \cap 1..lastId \subseteq users
    BY <1>0, <2>1
  <2>3. lastId + 1 \in UserIds
    BY <1>0, <1>8, InsertRows DEF Register
  <2>4. UNCHANGED req \/ (Others(r) /\ req'[r].pc = "notify")
    BY <1>0, <1>8, <2>3, StartFields DEF Register, Places
  <2> QED
    BY <2>1, <2>2, <2>4, ReviewKept DEF Others, LinkPlaces
<1>9. ASSUME NEW r \in Requests, NotifyAdmin(r) \/ StatementFails(r) PROVE ReviewInv'
  <2>1. Others(r) /\ req'[r].pc = "idle" /\ UNCHANGED <<decided, notices, spent, users>>
    BY <1>0, <1>9, ReturnFields DEF NotifyAdmin, StatementFails, rows
  <2> QED
    BY <2>1, ReviewKept DEF Others, LinkPlaces
<1>1. ASSUME NEW x \in BOOLEAN, NEW y \in BOOLEAN, CreateUser(x, y)
      PROVE  ReviewInv'
  <2>1. /\ UNCHANGED <<req, decided, notices, spent>>
        /\ users' = users \cup {lastId + 1} 
    BY <1>1 DEF CreateUser, Insert
  <2>2. users' \cap 1..lastId \subseteq users
    BY <1>0, <2>1
  <2> QED
    BY <2>1, <2>2, ReviewKept
<1>2. ASSUME NEW u \in UserIds, Login(u) \/ ApproveUser(u) \/ RejectUser(u) PROVE ReviewInv'
  <2>1. /\ UNCHANGED <<req, decided, notices, spent>>
        /\ users' \subseteq users 
    BY <1>0, <1>2 DEF Login, ApproveUser, RejectUser, Remove, rows
  <2> QED
    BY <2>1, ReviewKept
<1>3. ASSUME NEW r \in Requests, CountAdmins(r) \/ UpdateUser(r) \/ DeleteUser(r) PROVE ReviewInv'
  <2>1. Others(r) /\ req'[r].pc \notin LinkPlaces
    BY <1>0, <1>3, ReturnFields, GotoFields
       DEF CountAdmins, UpdateUser, DeleteUser, Places, LinkPlaces
  <2>2. /\ UNCHANGED <<decided, notices, spent>>
        /\ users' \subseteq users 
    BY <1>0, <1>3 DEF CountAdmins, UpdateUser, DeleteUser, Remove, rows
  <2> QED
    BY <2>1, <2>2, ReviewKept DEF Others
<1>4. ASSUME NEW r \in Requests, NEW u \in UserIds,
             \/ \E isAdmin, isActive \in BOOLEAN : UpdateUserRole(r, u, isAdmin, isActive)
             \/ DeleteUserRole(r, u)
      PROVE  ReviewInv'
  <2>1. /\ Others(r) /\ UNCHANGED <<decided, notices, users, active>>
    BY <1>0, <1>4, BeginFields DEF Begins, rows
  <2>2. UNCHANGED spent /\ req'[r].pc \notin LinkPlaces
    BY <1>0, <1>4, BeginPlaces
  <2> QED
    BY <1>0, <2>1, <2>2, ReviewKept DEF Others
<1>5. ASSUME NEW r \in Requests, NEW u \in UserIds, ApproveLink(r, u) \/ RejectLink(r, u)
      PROVE  ReviewInv'
  BY <1>5, OpenKeepsReview DEF ApproveLink, RejectLink, DecidePlaces
<1>6. ASSUME Restart PROVE ReviewInv'
  <2>1. /\ UNCHANGED <<decided, notices, spent>>
        /\ \A r \in Requests : req'[r].pc \notin LinkPlaces
    BY <1>6, IdleFields DEF Restart, Insert, LinkPlaces
  <2>2. users' \cap 1..lastId \subseteq users 
    BY <1>0, <1>6 DEF Restart, Insert
  <2> QED
    BY <2>1, <2>2, ReviewKept
<1>7. ASSUME UNCHANGED vars PROVE ReviewInv'
  BY <1>0, <1>7, ReviewKept DEF vars, rows
<1> QED
  BY <1>1, <1>2, <1>3, <1>4, <1>5, <1>6, <1>7, <1>8, <1>9, DecideKeepsReview, TellKeepsReview, ReadKeepsReview
     DEF Next, UpdateRequest, DeleteRequest, ApproveRequest, RejectRequest

LEMMA ReviewInit == Init => ReviewInv
  BY IdleFields
     DEF Init, ReviewInv, Alone, Settled, ToldAfter, AllAtLinks, AtLink, Verdicts,
         LinkPlaces, DecidePlaces


-----------------------------------------------------------------------------
(* The review as a service: which phase an application is in, and which    *)
(* steps leave the phases as they are.                                     *)
PhaseLaw ==
  \A u \in UserIds :
     /\ Deciding(u) => Phase(u) = "deciding"
     /\ ~Deciding(u) =>
          /\ u \in mailed \ spent => Phase(u) = "pending"
          /\ u \notin mailed => Phase(u) = "none"
          /\ u \in spent /\ Verdicts(u) = {} => Phase(u) = "burnt"
          /\ \A v \in Verdicted : u \in spent /\ Verdicts(u) = {v} => Phase(u) = v

LEMMA PhaseFacts == LinksOK /\ Holders => PhaseLaw
<1> SUFFICES ASSUME LinksOK, Holders, NEW u \in UserIds
             PROVE  /\ Deciding(u) => Phase(u) = "deciding"
                    /\ ~Deciding(u) =>
                         /\ u \in mailed \ spent => Phase(u) = "pending"
                         /\ u \notin mailed => Phase(u) = "none"
                         /\ u \in spent /\ Verdicts(u) = {} => Phase(u) = "burnt"
                         /\ \A v \in Verdicted :
                               u \in spent /\ Verdicts(u) = {v} => Phase(u) = v
  BY DEF PhaseLaw
<1>1. u \in spent => u \in mailed
  BY DEF LinksOK
<1>d. Deciding(u) => u \in spent
  BY DEF Holders, Deciding, LinkPlaces
<1>3. \A v \in Verdicted : Verdicts(u) = {v} => (CHOOSE x \in Verdicts(u) : TRUE) = v
  <2> SUFFICES ASSUME NEW v \in Verdicted, Verdicts(u) = {v}
               PROVE  (CHOOSE x \in Verdicts(u) : TRUE) \in {v}
    OBVIOUS
  <2> QED
    OBVIOUS
<1> DEFINE chosen == CHOOSE v \in Verdicts(u) : TRUE
<1>5. Phase(u) = CASE Deciding(u)          -> "deciding"
                   [] u \in mailed \ spent -> "pending"
                   [] u \notin mailed      -> "none"
                   [] OTHER -> IF Verdicts(u) = {} THEN "burnt" ELSE chosen
  BY DEF Phase
<1> HIDE DEF chosen
<1>6. ~Deciding(u) /\ u \in spent => Phase(u) = IF Verdicts(u) = {} THEN "burnt" ELSE chosen
  BY <1>1, <1>5
<1>7. /\ Deciding(u) => Phase(u) = "deciding"
      /\ ~Deciding(u) /\ u \in mailed \ spent => Phase(u) = "pending"
      /\ ~Deciding(u) /\ u \notin mailed => Phase(u) = "none"
  BY <1>1, <1>d, <1>5
<1>8. \A v \in Verdicted : Verdicts(u) = {v} => chosen = v
  BY <1>3 DEF chosen
<1> QED
  BY <1>6, <1>7, <1>8

(* Where the application u stands, but for the handlers at it.             *)
LEMMA PhaseKept ==
  ASSUME PhaseLaw, PhaseLaw', Settled, LinksOK, NEW u \in UserIds, Deciding(u)' <=> Deciding(u),
         u \in mailed' <=> u \in mailed, u \in spent' <=> u \in spent, Verdicts(u)' = Verdicts(u)
  PROVE  Phase(u)' = Phase(u)
  BY DEF PhaseLaw, Settled, LinksOK

LEMMA DecidingKept ==
  ASSUME NEW r \in Requests, Others(r), NEW u \in UserIds,
         (req'[r].target = u /\ req'[r].pc \in DecidePlaces)
            <=> (req[r].target = u /\ req[r].pc \in DecidePlaces)
  PROVE  Deciding(u)' <=> Deciding(u)
  BY DEF Others, Deciding, DecidePlaces

LEMMA PhaseMoves ==
  ASSUME NEW u \in UserIds, \A w \in UserIds : w # u => Phase(w)' = Phase(w)
  PROVE  phaseBar' = [phaseBar EXCEPT ![u] = Phase(u)']
  BY DEF phaseBar

LEMMA TelledKept == UNCHANGED notices => toldBar' = toldBar
  BY DEF toldBar

LEMMA AccountsKept == UNCHANGED <<users, active>> => accountBar' = accountBar
  BY DEF accountBar

(* A step that opens, decides, tells and interrupts nothing is one of the  *)
(* administrators'.                                                        *)
LEMMA QuietManages ==
  ASSUME PhaseLaw, PhaseLaw', Settled, LinksOK, UNCHANGED <<mailed, spent, decided, notices>>,
         \A u \in UserIds : Deciding(u)' <=> Deciding(u)
  PROVE  Review!ReviewNext
<1>1. \A u \in UserIds : Verdicts(u)' = Verdicts(u)
  BY VerdictsKept
<1>2. \A u \in UserIds : Phase(u)' = Phase(u)
  BY <1>1, PhaseKept
<1>3. phaseBar' = phaseBar /\ toldBar' = toldBar
  BY <1>2, TelledKept DEF phaseBar
<1>4. Review!Manage
  BY <1>3 DEF Review!Manage
<1> QED
  BY <1>4 DEF Review!ReviewNext

(* Nobody decides about an application whose token is not spent.           *)
LEMMA UnspentIsIdle ==
  ASSUME Holders, NEW u, u \notin spent PROVE ~Deciding(u)
  BY DEF Holders, Deciding, LinkPlaces


(* The review of a registration is asked for.                              *)
LEMMA NotifyApplies ==
  ASSUME TypeInv, TypeInv', ReviewInv, PhaseLaw, PhaseLaw', NEW r \in Requests, NotifyAdmin(r)
  PROVE  Review!ReviewNext
<1>0. Locals /\ RowsOK /\ LinksOK /\ Holders /\ Settled /\ Notifiers
  BY TypeParts DEF TypeInv, ReviewInv
<1>1. PICK a \in UserIds : a = req[r].target
  <2>1. req[r].target \in 1..lastId /\ lastId \in 1..MaxUsers
    BY <1>0 DEF NotifyAdmin, Notifiers, RowsOK
  <2> QED
    BY <2>1
<1>2. UNCHANGED <<spent, decided, notices, users, active>>
  BY DEF NotifyAdmin, rows
<1>3. \A u \in UserIds : (Deciding(u)' <=> Deciding(u)) /\ Verdicts(u)' = Verdicts(u)
  <2>1. Others(r) /\ req[r].pc \notin DecidePlaces /\ req'[r].pc \notin DecidePlaces
    BY <1>0, ReturnFields DEF NotifyAdmin, DecidePlaces
  <2> QED
    BY <1>2, <2>1, DecidingKept, VerdictsKept
<1>4. CASE mailed' = mailed
  BY <1>0, <1>2, <1>3, <1>4, QuietManages
<1>5. CASE mailed' # mailed
  <2>1. mailed' = mailed \cup {a} /\ a \notin mailed
    BY <1>1, <1>5 DEF NotifyAdmin
  <2>2. a \notin spent
    BY <1>0, <2>1 DEF LinksOK
  <2>3. ~Deciding(a)
    BY <1>0, <2>2, UnspentIsIdle
  <2>4. Phase(a) = "none"
    BY <1>1, <2>1, <2>3 DEF PhaseLaw
  <2>5. Phase(a)' = "pending"
    BY <1>1, <1>2, <1>3, <2>1, <2>2, <2>3 DEF PhaseLaw
  <2>6. \A w \in UserIds : w # a => Phase(w)' = Phase(w)
    BY <1>0, <1>2, <1>3, <2>1, PhaseKept
  <2>7. phaseBar' = [phaseBar EXCEPT ![a] = "pending"] /\ phaseBar[a] = "none"
    BY <1>1, <2>4, <2>5, <2>6, PhaseMoves DEF phaseBar
  <2>8. Review!Apply(a)
    BY <1>2, <2>7, TelledKept, AccountsKept DEF Review!Apply, Review!MoveTo
  <2> QED
    BY <1>1, <2>8 DEF Review!ReviewNext
<1> QED
  BY <1>4, <1>5

LEMMA LinkOpens ==
  ASSUME TypeInv, TypeInv', ReviewInv, PhaseLaw, PhaseLaw',
         NEW r \in Requests, NEW u \in UserIds, NEW place \in DecidePlaces, OpenLink(r, u, place)
  PROVE  Review!ReviewNext
<1>0. Locals /\ LinksOK /\ Holders /\ Settled
  BY TypeParts DEF TypeInv, ReviewInv
<1>1. /\ Others(r) /\ req'[r].pc = place /\ req'[r].target = u /\ req[r].pc = "idle"
      /\ UNCHANGED <<mailed, decided, notices, users, active>>
      /\ u \in mailed \ spent /\ spent' = spent \cup {u}
  BY <1>0, StartFields DEF OpenLink, Places, DecidePlaces, rows
<1>2. ~Deciding(u) /\ Deciding(u)'
  BY <1>0, <1>1, UnspentIsIdle DEF Deciding, DecidePlaces
<1>3. Phase(u) = "pending" /\ Phase(u)' = "deciding"
  BY <1>1, <1>2 DEF PhaseLaw
<1>4. ASSUME NEW w \in UserIds, w # u PROVE Phase(w)' = Phase(w)
  <2>1. Deciding(w)' <=> Deciding(w)
    BY <1>1, <1>4, DecidingKept DEF DecidePlaces
  <2>2. Verdicts(w)' = Verdicts(w) /\ (w \in spent' <=> w \in spent)
    BY <1>1, <1>4, VerdictsKept
  <2> QED
    BY <1>0, <1>1, <2>1, <2>2, PhaseKept
<1>5. phaseBar' = [phaseBar EXCEPT ![u] = "deciding"] /\ phaseBar[u] = "pending"
  BY <1>3, <1>4, PhaseMoves DEF phaseBar
<1>6. Review!Open(u)
  BY <1>1, <1>5, TelledKept, AccountsKept DEF Review!Open, Review!MoveTo
<1> QED
  BY <1>6 DEF Review!ReviewNext

LEMMA DecisionsMap ==
  ASSUME TypeInv, TypeInv', ReviewInv, ReviewInv', PhaseLaw, PhaseLaw',
         NEW r \in Requests, ApproveRegistration(r) \/ RejectRegistration(r)
  PROVE  Review!ReviewNext
<1>0. Locals /\ RowsOK /\ LinksOK /\ Holders /\ Settled
  BY TypeParts DEF TypeInv, ReviewInv
<1>1. req[r].pc \in LinkPlaces /\ req[r].pc \in DecidePlaces
  BY Decisions DEF LinkPlaces, DecidePlaces
<1>2. PICK u \in UserIds : u = req[r].target /\ u \in spent
  BY <1>0, <1>1, LinkTarget DEF Holders
<1>3. PICK v \in Verdicted : Decision(r, v)
  BY Decisions
<1>4. Others(r) /\ req'[r].target = u /\ req'[r].pc \notin DecidePlaces
  BY <1>2, Decisions DEF DecidePlaces
<1>5. decided' = decided \cup {<<u, r, v>>} /\ UNCHANGED <<mailed, notices, spent>>
  BY <1>2, <1>3, Decisions DEF Decision
<1>8. \A w \in UserIds : Verdicts(w)' = IF w = u THEN {v} ELSE Verdicts(w)
  <2>1. Verdicts(u) = {}
    BY <1>1, <1>2 DEF ReviewInv, AllAtLinks, AtLink
  <2>2. \A w \in UserIds : Verdicts(w)' = IF w = u THEN Verdicts(w) \cup {v} ELSE Verdicts(w)
    BY <1>5, VerdictGiven
  <2> QED
    BY <2>1, <2>2
<1>9. Deciding(u)
  BY <1>1, <1>2 DEF Deciding, DecidePlaces
<1>10. ~Deciding(u)'
  <2>1. ASSUME NEW s \in Requests, req'[s].target = u, req'[s].pc \in DecidePlaces PROVE FALSE
    <3>1. s # r
      BY <1>4, <2>1
    <3>2. req[s].target = u /\ req[s].pc \in LinkPlaces
      BY <1>4, <2>1, <3>1 DEF Others, DecidePlaces, LinkPlaces
    <3> QED
      BY <1>1, <1>2, <3>1, <3>2, OnlyOne
  <2> QED
    BY <2>1 DEF Deciding, DecidePlaces
<1>11. Phase(u) = "deciding" /\ Phase(u)' = v
  BY <1>2, <1>5, <1>8, <1>9, <1>10 DEF PhaseLaw
<1>12. ASSUME NEW w \in UserIds, w # u PROVE Phase(w)' = Phase(w)
  <2>1. Deciding(w)' <=> Deciding(w)
    BY <1>2, <1>4, <1>12, DecidingKept
  <2> QED
    BY <1>0, <1>5, <1>8, <1>12, <2>1, PhaseKept
<1>13. /\ phaseBar' = [phaseBar EXCEPT ![u] = v] /\ phaseBar[u] = "deciding"
       /\ toldBar' = toldBar
  BY <1>5, <1>11, <1>12, PhaseMoves, TelledKept DEF phaseBar
<1>14. CASE v = "approved"
  <2>1. users' = users /\ active' = active \cup {u} /\ u \in users
    BY <1>2, <1>3, <1>14 DEF Decision
  <2>2. accountBar' = [accountBar EXCEPT ![u] = "active"] /\ accountBar[u] # "absent"
    BY <2>1 DEF accountBar
  <2>3. Review!Approve(u)
    BY <1>13, <1>14, <2>2 DEF Review!Approve, Review!MoveTo
  <2> QED
    BY <2>3 DEF Review!ReviewNext
<1>15. CASE v = "rejected"
  <2>1. users' = users \ {u} /\ active' = active /\ u \in users \ active
    BY <1>2, <1>3, <1>15 DEF Decision
  <2>2. accountBar' = [accountBar EXCEPT ![u] = "absent"] /\ accountBar[u] = "waiting"
    BY <2>1 DEF accountBar
  <2>3. Review!Reject(u)
    BY <1>13, <1>15, <2>2 DEF Review!Reject, Review!MoveTo
  <2> QED
    BY <2>3 DEF Review!ReviewNext
<1>16. CASE v = "overtaken"
  <2>1. users' = users /\ active' = active /\ u \notin users \ active
    BY <1>2, <1>3, <1>16 DEF Decision
  <2>2. accountBar' = accountBar /\ accountBar[u] # "waiting"
    BY <2>1 DEF accountBar
  <2>3. Review!Overtake(u)
    BY <1>13, <1>16, <2>2 DEF Review!Overtake, Review!MoveTo
  <2> QED
    BY <2>3 DEF Review!ReviewNext
<1> QED
  BY <1>14, <1>15, <1>16 DEF Verdicted


(* The applicant is told, if the row is there (an approval) or was there   *)
(* (a rejection); otherwise the service sees nothing.                      *)
LEMMA TellsMap ==
  ASSUME TypeInv, TypeInv', ReviewInv, ReviewInv', PhaseLaw, PhaseLaw',
         NEW r \in Requests, TellApproved(r) \/ TellRejected(r)
  PROVE  Review!ReviewNext
<1> DEFINE verdict == IF req[r].pc = "tellApproved" THEN "approved" ELSE "rejected"
<1>0. Locals /\ LinksOK /\ Holders /\ Settled /\ RowsOK
  BY TypeParts DEF TypeInv, ReviewInv
<1>1. req[r].pc \in LinkPlaces /\ req[r].pc \notin DecidePlaces
  BY DEF TellApproved, TellRejected, LinkPlaces, DecidePlaces
<1>2. PICK u \in UserIds : u = req[r].target /\ u \in spent
  BY <1>0, <1>1, LinkTarget DEF Holders
<1>3. PICK v \in {"approved", "rejected"} : v = verdict
  OBVIOUS
<1> HIDE DEF verdict
<1>4. Others(r) /\ req'[r].pc \notin DecidePlaces
  BY <1>0, ReturnFields DEF TellApproved, TellRejected, DecidePlaces
<1>5. UNCHANGED <<mailed, spent, decided, users, active>>
  BY DEF TellApproved, TellRejected, rows
<1>6. \A w \in UserIds : Deciding(w)' <=> Deciding(w)
  BY <1>1, <1>4, DecidingKept
<1>7. notices' = notices \/ (notices' = notices \cup {<<u, v>>} /\ (v = "approved" => u \in users))
  BY <1>2, <1>3 DEF TellApproved, TellRejected, verdict
<1>8. CASE notices' = notices
  BY <1>0, <1>5, <1>6, <1>8, QuietManages
<1>9. CASE notices' = notices \cup {<<u, v>>} /\ (v = "approved" => u \in users)
  <2>1. /\ Verdicts(u) = {v} \/ (v = "rejected" /\ Verdicts(u) = {"overtaken"})
        /\ \A x \in {"approved", "rejected"} : <<u, x>> \notin notices
    BY <1>1, <1>2, <1>3, <1>9
       DEF ReviewInv, AllAtLinks, AtLink, TellApproved, TellRejected, verdict
  <2>2. ~Deciding(u)
    <3>1. \A s \in Requests : req[s].pc \in DecidePlaces => req[s].target # u
      BY <1>1, <1>2, OnlyOne DEF LinkPlaces, DecidePlaces
    <3> QED
      BY <3>1 DEF Deciding, DecidePlaces
  <2>3. Phase(u) = v \/ (v = "rejected" /\ Phase(u) = "overtaken")
    BY <1>2, <2>1, <2>2 DEF PhaseLaw, Verdicted
  <2>4. phaseBar' = phaseBar
    BY <1>0, <1>5, <1>6, VerdictsKept, PhaseKept DEF phaseBar
  <2>5. toldBar' = [toldBar EXCEPT ![u] = {v}] /\ toldBar[u] = {}
    BY <1>9, <2>1 DEF toldBar
  <2>6. Review!Tell(u, v)
    BY <1>5, <2>3, <2>4, <2>5, AccountsKept DEF Review!Tell, phaseBar
  <2> QED
    BY <2>6 DEF Review!ReviewNext
<1> QED
  BY <1>7, <1>8, <1>9

(* A restart, or a statement that fails, ends handlers: what they were     *)
(* deciding never will be.                                                 *)
LEMMA FaultInterrupts ==
  ASSUME TypeInv, TypeInv', ReviewInv, PhaseLaw, PhaseLaw',
         UNCHANGED <<mailed, spent, decided, notices>>,
         \A u \in UserIds : Deciding(u)' => Deciding(u)
  PROVE  Review!ReviewNext
<1>0. LinksOK /\ Holders /\ Settled
  BY TypeParts DEF TypeInv, ReviewInv
<1> DEFINE S == {u \in UserIds : Deciding(u) /\ ~Deciding(u)'}
<1>1. \A u \in UserIds : Verdicts(u)' = Verdicts(u)
  BY VerdictsKept
<1>2. ASSUME NEW u \in UserIds PROVE Phase(u)' = IF u \in S THEN "burnt" ELSE Phase(u)
  <2>1. CASE u \in S
    <3>1. Verdicts(u) = {} /\ u \in spent
      BY <1>0, <2>1 DEF Deciding, Holders, LinkPlaces, DecidePlaces, ReviewInv, AllAtLinks, AtLink
    <3>2. ~Deciding(u)' /\ Verdicts(u)' = {} /\ u \in spent'
      BY <1>1, <2>1, <3>1
    <3> QED
      BY <2>1, <3>2 DEF PhaseLaw
  <2>2. CASE u \notin S
    <3>1. Deciding(u)' <=> Deciding(u)
      BY <2>2
    <3> QED
      BY <1>0, <1>1, <2>2, <3>1, PhaseKept
  <2> QED
    BY <2>1, <2>2
<1>3. \A u \in S : Phase(u) = "deciding"
  BY DEF PhaseLaw
<1> HIDE DEF S
<1>4. S \in SUBSET UserIds
  BY DEF S
<1>5. phaseBar' = [u \in UserIds |-> IF u \in S THEN "burnt" ELSE phaseBar[u]]
  BY <1>2 DEF phaseBar
<1>6. Review!Interrupt(S)
  BY <1>3, <1>4, <1>5, TelledKept DEF Review!Interrupt, phaseBar
<1> QED
  BY <1>4, <1>6 DEF Review!ReviewNext

LEMMA ReviewSimulated ==
  ASSUME TypeInv, TypeInv', ReviewInv, ReviewInv', PhaseLaw, PhaseLaw', [Next]_vars
  PROVE  [Review!ReviewNext]_(Review!rvars)
<1>0. Locals /\ LinksOK /\ Settled
  BY TypeParts DEF TypeInv, ReviewInv
<1>1. ASSUME NEW r \in Requests, Others(r), req[r].pc \notin DecidePlaces, req'[r].pc \notin DecidePlaces,
             UNCHANGED <<mailed, spent, decided, notices>>
      PROVE  Review!ReviewNext
  BY <1>0, <1>1, DecidingKept, QuietManages
<1>2. ASSUME UNCHANGED <<req, mailed, spent, decided, notices>>
      PROVE  Review!ReviewNext
  BY <1>0, <1>2, QuietManages DEF Deciding
<1>3. ASSUME NEW x \in BOOLEAN, NEW y \in BOOLEAN, CreateUser(x, y) PROVE Review!ReviewNext
  BY <1>2, <1>3 DEF CreateUser, Insert
<1>4. ASSUME NEW u \in UserIds, Login(u) \/ ApproveUser(u) \/ RejectUser(u)
      PROVE  Review!ReviewNext
  BY <1>2, <1>4 DEF Login, ApproveUser, RejectUser
<1>5. ASSUME NEW r \in Requests, CountAdmins(r) \/ UpdateUser(r) \/ DeleteUser(r)
      PROVE  Review!ReviewNext
  <2>1. Others(r) /\ req[r].pc \notin DecidePlaces /\ req'[r].pc \notin DecidePlaces
    BY <1>0, <1>5, ReturnFields, GotoFields
       DEF CountAdmins, UpdateUser, DeleteUser, Places, DecidePlaces
  <2>2. UNCHANGED <<mailed, spent, decided, notices>>
    BY <1>5 DEF CountAdmins, UpdateUser, DeleteUser
  <2> QED
    BY <1>1, <2>1, <2>2
<1>6. ASSUME NEW r \in Requests, NEW u \in UserIds,
             \/ \E isAdmin, isActive \in BOOLEAN : UpdateUserRole(r, u, isAdmin, isActive)
             \/ DeleteUserRole(r, u)
      PROVE  Review!ReviewNext
  <2>1. /\ UNCHANGED <<mailed, decided, notices>> /\ req[r].pc = "idle"
    BY <1>0, <1>6, BeginFields DEF Begins
  <2>2. UNCHANGED spent /\ Others(r) /\ req'[r].pc \notin LinkPlaces
    BY <1>0, <1>6, BeginPlaces
  <2> QED
    BY <1>1, <2>1, <2>2 DEF LinkPlaces, DecidePlaces
<1>7. ASSUME NEW r \in Requests, ReadPending(r) PROVE Review!ReviewNext
  <2>1. \A w \in UserIds : Deciding(w)' <=> Deciding(w)
    BY <1>0, <1>7, ReadFields, DecidingKept DEF ReadPending, DecidePlaces
  <2>2. UNCHANGED <<mailed, spent, decided, notices>>
    BY <1>7 DEF ReadPending
  <2> QED
    BY <1>0, <2>1, <2>2, QuietManages
<1>8. ASSUME NEW r \in Requests, NEW u \in UserIds, ApproveLink(r, u) \/ RejectLink(r, u)
      PROVE  Review!ReviewNext
  BY <1>8, LinkOpens DEF ApproveLink, RejectLink, DecidePlaces
<1>9. UNCHANGED vars => UNCHANGED Review!rvars
  BY DEF vars, rows, Review!rvars, phaseBar, toldBar, accountBar, Phase, Deciding, Verdicts
<1>10. ASSUME NEW r \in Requests, NEW y \in BOOLEAN, Register(r, y) PROVE Review!ReviewNext
  <2>1. lastId + 1 \in UserIds
    BY <1>10, InsertRows, TypeParts DEF Register, TypeInv
  <2>2. UNCHANGED req \/ (Others(r) /\ req'[r].pc = "notify")
    BY <1>0, <1>10, <2>1, StartFields DEF Register, Places
  <2>3. UNCHANGED <<mailed, spent, decided, notices>> /\ req[r].pc = "idle"
    BY <1>10 DEF Register
  <2> QED
    BY <1>1, <1>2, <2>2, <2>3 DEF DecidePlaces
<1>11. ASSUME NEW r \in Requests, StatementFails(r) PROVE Review!ReviewNext
  <2>1. Others(r) /\ req'[r].pc = "idle" /\ UNCHANGED <<mailed, spent, decided, notices>>
    BY <1>0, <1>11, ReturnFields DEF StatementFails
  <2>2. \A u \in UserIds : Deciding(u)' => Deciding(u)
    BY <2>1 DEF Others, Deciding
  <2> QED
    BY <2>1, <2>2, FaultInterrupts
<1>12. ASSUME Restart PROVE Review!ReviewNext
  <2>1. UNCHANGED <<mailed, spent, decided, notices>>
    BY <1>12 DEF Restart
  <2>2. \A u \in UserIds : ~Deciding(u)'
    BY <1>12, IdleFields DEF Restart, Deciding
  <2> QED
    BY <2>1, <2>2, FaultInterrupts
<1> QED
  BY <1>3, <1>4, <1>5, <1>6, <1>7, <1>8, <1>9, <1>10, <1>11, <1>12, NotifyApplies, DecisionsMap,
     TellsMap
     DEF Next, UpdateRequest, DeleteRequest, ApproveRequest, RejectRequest

LEMMA ReviewStarts == Init => Review!ReviewInit
<1> SUFFICES ASSUME Init PROVE Review!ReviewInit
  OBVIOUS
<1>1. \A u \in UserIds : ~Deciding(u) /\ u \notin mailed
  BY IdleFields DEF Init, Deciding
<1>2. \A u \in UserIds : Phase(u) = "none"
  BY <1>1, TypeInit, TypeParts, PhaseFacts DEF PhaseLaw, TypeInv
<1> QED
  BY <1>2 DEF Init, Review!ReviewInit, Review!Statuses, phaseBar, toldBar, accountBar

(* The registrations implement the review service: an application's links  *)
(* take effect at most once, by an approval of a row that is there or a    *)
(* rejection that removes a row that waits; a handler that a restart or a  *)
(* failed statement ends, or an administrator overtook, leaves the account *)
(* alone; and the applicant is told at most once, an approval after it     *)
(* took effect, a rejection after it did or was overtaken.                 *)
THEOREM RegistrationsImplementReview == Spec => ImplementsReview
<1>1. TypeInv => PhaseLaw
  BY PhaseFacts, TypeParts DEF TypeInv
<1>2. TypeInv /\ TypeInv' /\ ReviewInv /\ ReviewInv' /\ PhaseLaw /\ PhaseLaw' /\ [Next]_vars
        => [Review!ReviewNext]_(Review!rvars)
  BY ReviewSimulated
<1> QED
  BY <1>1, <1>2, TypeInit, TypeStep, ReviewInit, ReviewStep, ReviewStarts, PTL
     DEF Spec, ImplementsReview, Review!ReviewSpec
=============================================================================
