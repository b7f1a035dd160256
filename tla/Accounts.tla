------------------------------ MODULE Accounts ------------------------------
(***************************************************************************)
(* User accounts: registration and its review by mailed links              *)
(* (internal/handlers/settings.go), the administrators' user management    *)
(* (internal/handlers/users.go), login, and what a start of the program    *)
(* does to the users table (internal/db/db.go, internal/db/seed.go).       *)
(*                                                                         *)
(* Handlers run concurrently, one SQL statement at a time; a session       *)
(* carries the role its user had at login.                                 *)
(***************************************************************************)
EXTENDS Naturals, FiniteSets

CONSTANTS
    MaxUsers,   \* bound on the users ever inserted
    Requests,   \* handlers in flight at the same time
    MaxFaults   \* bound on restarts and failed statements

ASSUME BoundsAssumption == MaxUsers \in Nat \ {0} /\ MaxFaults \in Nat

UserIds == 1..MaxUsers    \* AUTOINCREMENT ids, never reused
NoUser  == 0

VARIABLES
    lastId,     \* the last id given out
    users,      \* the ids with a row
    admins,     \* those with role "admin"
    active,     \* those with status = 1
    sessions,   \* users holding a token that says they are administrators
    mailed,     \* users whose review links were mailed; the token names the user
    spent,      \* review_token_uses
    req,        \* the locals of each handler
    notices,    \* history: <<user, verdict>> mails sent to applicants
    decided,    \* history: <<user, request, verdict>> links that came to their UPDATE
                \*   or DELETE; "overtaken" when it found no row to change
    fresh,      \* history: requests since whose count no role or row changed
    faults

rows == <<lastId, users, admins, active>>
vars == <<rows, sessions, mailed, spent, req, notices, decided, fresh, faults>>

Idle == [pc |-> "idle", target |-> NoUser, admin |-> FALSE, active |-> FALSE,
         known |-> FALSE]

(* The state a first start leaves: EnsureDefaultAdmin has seeded one user. *)
Init ==
    /\ lastId = 1 /\ users = {1} /\ admins = {1} /\ active = {1}
    /\ sessions = {} /\ mailed = {} /\ spent = {}
    /\ req = [r \in Requests |-> Idle]
    /\ notices = {} /\ decided = {} /\ fresh = {} /\ faults = 0

Return(r)      == req' = [req EXCEPT ![r] = Idle]
Goto(r, place) == req' = [req EXCEPT ![r].pc = place]

Faulty         == faults < MaxFaults /\ faults' = faults + 1

(* A statement that changes who is an administrator outdates other counts. *)
Outdate == fresh' = {}

(* Plausible bugs, each of which one of the properties below excludes: a   *)
(* count that allows the last administrator, a rejection of any user, a    *)
(* link that can be spent twice.                                           *)
CountNone(r) ==
    /\ req[r].pc \in {"countUpdate", "countDelete"}
    /\ IF Cardinality(admins) < 1
       THEN Return(r) /\ UNCHANGED fresh
       ELSE /\ Goto(r, IF req[r].pc = "countUpdate" THEN "update" ELSE "delete")
            /\ fresh' = fresh \cup {r}
    /\ UNCHANGED <<rows, sessions, mailed, spent, notices, decided, faults>>
RejectAnyUser(u) ==
    /\ sessions # {} /\ u \in users
    /\ users' = users \ {u} /\ admins' = admins \ {u} /\ active' = active \ {u}
    /\ Outdate
    /\ UNCHANGED <<lastId, sessions, mailed, spent, req, notices, decided, faults>>
OpenSpentLink(r, u, place) ==
    /\ req[r].pc = "idle"
    /\ u \in mailed
    /\ spent' = spent \cup {u}
    /\ req' = [req EXCEPT ![r] = [Idle EXCEPT !.pc = place, !.target = u]]
    /\ UNCHANGED <<rows, sessions, mailed, notices, decided, fresh, faults>>

-----------------------------------------------------------------------------
(* CreateUser by an administrator, or Register with a valid code: an       *)
(* applicant is active at once or waits for the review.                    *)
Insert(isAdmin, isActive) ==
    /\ lastId < MaxUsers
    /\ lastId' = lastId + 1
    /\ users'  = users \cup {lastId + 1}
    /\ admins' = IF isAdmin THEN admins \cup {lastId + 1} ELSE admins
    /\ active' = IF isActive THEN active \cup {lastId + 1} ELSE active

CreateUser(isAdmin, isActive) ==
    /\ sessions # {}
    /\ Insert(isAdmin, isActive)
    /\ Outdate
    /\ UNCHANGED <<sessions, mailed, spent, req, notices, decided, faults>>

Register(r, isActive) ==
    /\ req[r].pc = "idle"
    /\ Insert(FALSE, isActive)
    /\ req' = IF isActive THEN req
              ELSE [req EXCEPT ![r] = [Idle EXCEPT !.pc = "notify", !.target = lastId + 1]]
    /\ UNCHANGED <<sessions, mailed, spent, notices, decided, fresh, faults>>

(* notifyAdminForReview: the review's links are mailed when an             *)
(* administrator's address is known and the mail can be enqueued.          *)
NotifyAdmin(r) ==
    /\ req[r].pc = "notify"
    /\ mailed' \in {mailed, mailed \cup {req[r].target}}
    /\ Return(r)
    /\ UNCHANGED <<rows, sessions, spent, notices, decided, fresh, faults>>

(* Login and LoginByEmailCode; only administrators' sessions matter here.  *)
(* A token outlives a demotion or the deletion of its user.                *)
Login(u) ==
    /\ u \in users \cap admins \cap active
    /\ sessions' = sessions \cup {u}
    /\ UNCHANGED <<rows, mailed, spent, req, notices, decided, fresh, faults>>

-----------------------------------------------------------------------------
(* UpdateUser: the old role, the count when an administrator is demoted,   *)
(* and the UPDATE.                                                         *)
UpdateUserRole(r, u, isAdmin, isActive) ==
    /\ req[r].pc = "idle"
    /\ sessions # {} /\ u \in users
    /\ req' = [req EXCEPT ![r] =
                 [Idle EXCEPT !.pc = IF u \in admins /\ ~isAdmin THEN "countUpdate" ELSE "update",
                              !.target = u, !.admin = isAdmin, !.active = isActive]]
    /\ UNCHANGED <<rows, sessions, mailed, spent, notices, decided, fresh, faults>>

(* DeleteUser: the same for a deletion, never of the caller's own row.     *)
DeleteUserRole(r, u) ==
    /\ req[r].pc = "idle"
    /\ sessions \ {u} # {} /\ u \in users
    /\ req' = [req EXCEPT ![r] =
                 [Idle EXCEPT !.pc = IF u \in admins THEN "countDelete" ELSE "delete",
                              !.target = u]]
    /\ UNCHANGED <<rows, sessions, mailed, spent, notices, decided, fresh, faults>>

(* A count that fails counts as enough administrators.                     *)
CountAdmins(r) ==
    /\ req[r].pc \in {"countUpdate", "countDelete"}
    /\ \/ /\ Cardinality(admins) <= 1
          /\ Return(r) /\ UNCHANGED <<fresh, faults>>
       \/ /\ Goto(r, IF req[r].pc = "countUpdate" THEN "update" ELSE "delete")
          /\ \/ Cardinality(admins) > 1 /\ fresh' = fresh \cup {r} /\ UNCHANGED faults
             \/ Faulty /\ UNCHANGED fresh
    /\ UNCHANGED <<rows, sessions, mailed, spent, notices, decided>>

UpdateUser(r) ==
    LET q == req[r] IN
    /\ req[r].pc = "update"
    /\ admins' = IF q.target \notin users THEN admins
                 ELSE IF q.admin THEN admins \cup {q.target} ELSE admins \ {q.target}
    /\ active' = IF q.target \notin users THEN active
                 ELSE IF q.active THEN active \cup {q.target} ELSE active \ {q.target}
    /\ Outdate
    /\ Return(r)
    /\ UNCHANGED <<lastId, users, sessions, mailed, spent, notices, decided, faults>>

Remove(S) == users' = users \ S /\ admins' = admins \ S /\ active' = active \ S

DeleteUser(r) ==
    /\ req[r].pc = "delete"
    /\ Remove({req[r].target})
    /\ Outdate
    /\ Return(r)
    /\ UNCHANGED <<lastId, sessions, mailed, spent, notices, decided, faults>>

(* ApproveUser and RejectUser of the user management page.                 *)
ApproveUser(u) ==
    /\ sessions # {} /\ u \in users
    /\ active' = active \cup {u}
    /\ UNCHANGED <<lastId, users, admins, sessions, mailed, spent, req, notices, decided,
                   fresh, faults>>

RejectUser(u) ==
    /\ sessions # {} /\ u \in users \ active
    /\ Remove({u})
    /\ Outdate
    /\ UNCHANGED <<lastId, sessions, mailed, spent, req, notices, decided, faults>>

-----------------------------------------------------------------------------
(* A mailed link is opened: INSERT OR IGNORE tells whether its token was   *)
(* spent before.  The same token is in the approving and the rejecting one.*)
OpenLink(r, u, place) ==
    /\ req[r].pc = "idle"
    /\ u \in mailed \ spent
    /\ spent' = spent \cup {u}
    /\ req' = [req EXCEPT ![r] = [Idle EXCEPT !.pc = place, !.target = u]]
    /\ UNCHANGED <<rows, sessions, mailed, notices, decided, fresh, faults>>

ApproveLink(r, u) == OpenLink(r, u, "approve")
RejectLink(r, u)  == OpenLink(r, u, "readPending")

Decide(r, verdict) == decided' = decided \cup {<<req[r].target, r, verdict>>}

ApproveRegistration(r) ==
    LET u == req[r].target IN
    /\ req[r].pc = "approve"
    /\ IF u \in users
       THEN active' = active \cup {u} /\ Decide(r, "approved")
       ELSE UNCHANGED active /\ Decide(r, "overtaken")
    /\ Goto(r, "tellApproved")
    /\ UNCHANGED <<lastId, users, admins, sessions, mailed, spent, notices, fresh, faults>>

(* The applicant's address is read after the UPDATE, by id; the notice may *)
(* fail to be enqueued.                                                    *)
TellApproved(r) ==
    LET u == req[r].target IN
    /\ req[r].pc = "tellApproved"
    /\ \/ u \in users /\ notices' = notices \cup {<<u, "approved">>}
       \/ UNCHANGED notices
    /\ Return(r)
    /\ UNCHANGED <<rows, sessions, mailed, spent, decided, fresh, faults>>

(* For a rejection it is read before the DELETE, both for status = 0 only. *)
ReadPending(r) ==
    /\ req[r].pc = "readPending"
    /\ req' = [req EXCEPT ![r].pc = "reject",
                          ![r].known = req[r].target \in users \ active]
    /\ UNCHANGED <<rows, sessions, mailed, spent, notices, decided, fresh, faults>>

(* The DELETE finds no row when the applicant was admitted or deleted      *)
(* since: the handler does not look at how many it removed.                *)
RejectRegistration(r) ==
    LET u == req[r].target IN
    /\ req[r].pc = "reject"
    /\ Remove({u} \ active)
    /\ Outdate
    /\ Decide(r, IF u \in users \ active THEN "rejected" ELSE "overtaken")
    /\ Goto(r, "tellRejected")
    /\ UNCHANGED <<lastId, sessions, mailed, spent, notices, faults>>

TellRejected(r) ==
    LET q == req[r] IN
    /\ q.pc = "tellRejected"
    /\ \/ q.known /\ notices' = notices \cup {<<q.target, "rejected">>}
       \/ UNCHANGED notices
    /\ Return(r)
    /\ UNCHANGED <<rows, sessions, mailed, spent, decided, fresh, faults>>

(* An UPDATE or DELETE that fails ends its handler; a link that was opened *)
(* stays spent.                                                            *)
StatementFails(r) ==
    /\ req[r].pc \in {"update", "delete", "approve", "reject"}
    /\ Faulty
    /\ Return(r)
    /\ fresh' = fresh \ {r}
    /\ UNCHANGED <<rows, sessions, mailed, spent, notices, decided>>

-----------------------------------------------------------------------------
(* The process ends and is started again.  migrate makes the user with the *)
(* lowest id an administrator when there is none, and EnsureDefaultAdmin   *)
(* seeds one when there is no user at all.  Sessions outlive the process.  *)
Restart ==
    /\ Faulty
    /\ req' = [r \in Requests |-> Idle]
    /\ IF users # {}
       THEN /\ admins' = IF admins = {} THEN {u \in users : \A v \in users : u <= v} ELSE admins
            /\ UNCHANGED <<lastId, users, active>>
       ELSE Insert(TRUE, TRUE)
    /\ fresh' = {}
    /\ UNCHANGED <<sessions, mailed, spent, notices, decided>>

-----------------------------------------------------------------------------
UpdateRequest(r) ==
    \/ \E u \in UserIds, isAdmin, isActive \in BOOLEAN :
          UpdateUserRole(r, u, isAdmin, isActive)
    \/ UpdateUser(r)

DeleteRequest(r) == DeleteUser(r) \/ \E u \in UserIds : DeleteUserRole(r, u)

ApproveRequest(r) ==
    ApproveRegistration(r) \/ TellApproved(r) \/ \E u \in UserIds : ApproveLink(r, u)

RejectRequest(r) ==
    ReadPending(r) \/ RejectRegistration(r) \/ TellRejected(r)
        \/ \E u \in UserIds : RejectLink(r, u)

Next ==
    \/ \E r \in Requests :
          UpdateRequest(r) \/ DeleteRequest(r) \/ CountAdmins(r)
             \/ ApproveRequest(r) \/ RejectRequest(r) \/ StatementFails(r)
             \/ NotifyAdmin(r) \/ \E isActive \in BOOLEAN : Register(r, isActive)
    \/ \E isAdmin, isActive \in BOOLEAN : CreateUser(isAdmin, isActive)
    \/ \E u \in UserIds : Login(u) \/ ApproveUser(u) \/ RejectUser(u)
    \/ Restart

Spec == Init /\ [][Next]_vars

-----------------------------------------------------------------------------
RequestType ==
    [pc : {"idle", "notify", "countUpdate", "countDelete", "update", "delete", "approve",
           "tellApproved", "readPending", "reject", "tellRejected"},
     target : UserIds \cup {NoUser}, admin : BOOLEAN, active : BOOLEAN, known : BOOLEAN]

(* Types of the variables; columns belong to rows.                         *)
TypeOK ==
    /\ lastId \in UserIds
    /\ users \subseteq 1..lastId /\ admins \subseteq users /\ active \subseteq users
    /\ sessions \subseteq 1..lastId /\ mailed \subseteq 1..lastId /\ spent \subseteq mailed
    /\ req \in [Requests -> RequestType]
    /\ notices \subseteq UserIds \X {"approved", "rejected"}
    /\ decided \subseteq UserIds \X Requests \X {"approved", "rejected", "overtaken"}
    /\ fresh \subseteq Requests
    /\ faults \in 0..MaxFaults

(* "at least one admin is required" (UpdateUser), "cannot delete last      *)
(* admin" (DeleteUser): a demotion or deletion whose count is still valid  *)
(* when it writes never removes the last administrator.                    *)
LastAdminKept ==
    [][\A r \in Requests :
          req[r].pc \in {"update", "delete"} /\ req'[r].pc = "idle"
             /\ r \in fresh /\ faults' = faults
          => admins' # {}]_vars

(* A rejection, by link or by page, never removes an active user: while an *)
(* approval overlaps it, one of them wins.                                 *)
ActiveNotRejected ==
    [][\A u \in active :
          u \notin users' => \E r \in Requests : req[r].pc = "delete" /\ req[r].target = u]_vars

-----------------------------------------------------------------------------
(* The reviews as a service.  An application whose link is spent although  *)
(* nothing was decided and no handler is at it is burnt.                   *)
Verdicts(u) == {m[3] : m \in {n \in decided : n[1] = u}}
Deciding(u) == \E r \in Requests :
                  req[r].target = u /\ req[r].pc \in {"approve", "readPending", "reject"}

Phase(u) ==
    CASE Deciding(u)           -> "deciding"
      [] u \in mailed \ spent  -> "pending"
      [] u \notin mailed       -> "none"
      [] OTHER -> IF Verdicts(u) = {} THEN "burnt" ELSE CHOOSE v \in Verdicts(u) : TRUE

phaseBar   == [u \in UserIds |-> Phase(u)]
toldBar    == [u \in UserIds |-> {v \in {"approved", "rejected"} : <<u, v>> \in notices}]
accountBar == [u \in UserIds |-> IF u \notin users THEN "absent"
                                 ELSE IF u \in active THEN "active" ELSE "waiting"]

Review == INSTANCE ReviewService
            WITH Applicants <- UserIds, phase <- phaseBar, told <- toldBar,
                 account <- accountBar

(* The two links of an application (README: 一次性) take effect at most    *)
(* once, one of the two; a restart or a failed statement may spend them    *)
(* without effect, and an administrator on the page for users may have     *)
(* overtaken them.  An approval is told only to an applicant whom the link *)
(* made active; a rejection to one whom the link removed or to one who was *)
(* overtaken, who may be active.                                           *)
ImplementsReview == Review!ReviewSpec
=============================================================================
