---------------------------- MODULE ForeignKeys ----------------------------
(***************************************************************************)
(* The two foreign keys of the schema, submissions.form_id and             *)
(* api_keys.user_id, both ON DELETE CASCADE (internal/db/db.go), and the   *)
(* handlers that insert and delete the rows they relate.                   *)
(*                                                                         *)
(* SQLite enforces foreign keys only on a connection that was told to.     *)
(* The program tells the first one; database/sql closes it after           *)
(* ConnMaxLifetime and opens another, which enforces none.                 *)
(***************************************************************************)
EXTENDS Naturals

CONSTANTS
    MaxForms, MaxUsers, MaxSubmissions, MaxKeys,  \* bounds on the rows ever inserted
    Requests,     \* SubmitForm handlers in flight at the same time
    MaxRecycles,  \* bound on the connections opened after the first
    MaxRestarts

(* What the bounds are assumed to be, wherever this module is used.        *)
Bounds ==
    /\ MaxForms \in Nat /\ MaxUsers \in Nat /\ MaxSubmissions \in Nat /\ MaxKeys \in Nat
    /\ MaxRecycles \in Nat /\ MaxRestarts \in Nat

Forms == 1..MaxForms
Users == 1..MaxUsers
Submissions == 1..MaxSubmissions
Keys  == 1..MaxKeys

VARIABLES
    forms, users,          \* ids with a row; ids are never reused
    submissions, keys,     \* rows as <<id, form_id>> and <<id, user_id>>
    lastForm, lastUser, lastSubmission, lastKey,
    sessions,              \* users that hold a token; it outlives its user
    looked,                \* per SubmitForm in flight, the form it looked up
    enforced,              \* PRAGMA foreign_keys of the connection
    recycles, restarts

lastIds == <<lastForm, lastUser, lastSubmission, lastKey>>
vars == <<forms, users, submissions, keys, lastIds, sessions, looked, enforced,
          recycles, restarts>>

NoForm == 0

Init ==
    /\ forms = {} /\ users = {} /\ submissions = {} /\ keys = {}
    /\ lastForm = 0 /\ lastUser = 0 /\ lastSubmission = 0 /\ lastKey = 0
    /\ sessions = {} /\ looked = [r \in Requests |-> NoForm]
    /\ enforced = TRUE /\ recycles = 0 /\ restarts = 0

-----------------------------------------------------------------------------
(* A plausible bug, which the property below excludes: a deletion without  *)
(* its cascade.                                                            *)
DeleteFormAlone(f) ==
    /\ f \in forms
    /\ forms' = forms \ {f}
    /\ UNCHANGED <<users, submissions, keys, lastIds, sessions, looked, enforced,
                   recycles, restarts>>

CreateForm ==
    /\ lastForm < MaxForms
    /\ lastForm' = lastForm + 1
    /\ forms' = forms \cup {lastForm + 1}
    /\ UNCHANGED <<users, submissions, keys, lastUser, lastSubmission, lastKey, sessions,
                   looked, enforced, recycles, restarts>>

(* DELETE FROM forms: the cascade is SQLite's, when it enforces the key.   *)
DeleteForm(f) ==
    /\ f \in forms
    /\ forms' = forms \ {f}
    /\ submissions' = IF enforced THEN {s \in submissions : s[2] # f} ELSE submissions
    /\ UNCHANGED <<users, keys, lastIds, sessions, looked, enforced, recycles, restarts>>

(* SubmitForm looks the form up, runs its checks, and inserts.             *)
SubmitFormLookup(r, f) ==
    /\ looked[r] = NoForm
    /\ f \in forms
    /\ looked' = [looked EXCEPT ![r] = f]
    /\ UNCHANGED <<forms, users, submissions, keys, lastIds, sessions, enforced,
                   recycles, restarts>>

SubmitFormInsert(r) ==
    LET f == looked[r] IN
    /\ f # NoForm
    /\ lastSubmission < MaxSubmissions
    /\ IF enforced => f \in forms
       THEN /\ lastSubmission' = lastSubmission + 1
            /\ submissions' = submissions \cup {<<lastSubmission + 1, f>>}
       ELSE UNCHANGED <<lastSubmission, submissions>>
    /\ looked' = [looked EXCEPT ![r] = NoForm]
    /\ UNCHANGED <<forms, users, keys, lastForm, lastUser, lastKey, sessions, enforced,
                   recycles, restarts>>

(* DeleteSubmission and BatchDeleteSubmissions join the submissions with   *)
(* the caller's forms, as the listing and the export do.                   *)
DeleteSubmissions(S) ==
    /\ S # {}
    /\ submissions' = submissions \ {s \in S : s[2] \in forms}
    /\ UNCHANGED <<forms, users, keys, lastIds, sessions, looked, enforced, recycles,
                   restarts>>

-----------------------------------------------------------------------------
(* CreateUser or Register, and the user's login.                           *)
CreateUser ==
    /\ lastUser < MaxUsers
    /\ lastUser' = lastUser + 1
    /\ users' = users \cup {lastUser + 1}
    /\ sessions' = sessions \cup {lastUser + 1}
    /\ UNCHANGED <<forms, submissions, keys, lastForm, lastSubmission, lastKey, looked,
                   enforced, recycles, restarts>>

DeleteUser(u) ==
    /\ u \in users
    /\ users' = users \ {u}
    /\ keys' = IF enforced THEN {k \in keys : k[2] # u} ELSE keys
    /\ UNCHANGED <<forms, submissions, lastIds, sessions, looked, enforced, recycles,
                   restarts>>

(* A session is not checked against the users table.                       *)
CreateAPIKey(u) ==
    /\ u \in sessions
    /\ lastKey < MaxKeys
    /\ IF enforced => u \in users
       THEN lastKey' = lastKey + 1 /\ keys' = keys \cup {<<lastKey + 1, u>>}
       ELSE UNCHANGED <<lastKey, keys>>
    /\ UNCHANGED <<forms, users, submissions, lastForm, lastUser, lastSubmission, sessions,
                   looked, enforced, recycles, restarts>>

DeleteAPIKey(u, k) ==
    /\ u \in sessions
    /\ k \in keys /\ k[2] = u
    /\ keys' = keys \ {k}
    /\ UNCHANGED <<forms, users, submissions, lastIds, sessions, looked, enforced, recycles,
                   restarts>>

-----------------------------------------------------------------------------
(* The connection reaches its lifetime and is replaced.                    *)
Recycle ==
    /\ recycles < MaxRecycles
    /\ recycles' = recycles + 1
    /\ enforced' = FALSE
    /\ UNCHANGED <<forms, users, submissions, keys, lastIds, sessions, looked, restarts>>

(* The program starts again: migrate tells the first connection.           *)
Restart ==
    /\ restarts < MaxRestarts
    /\ restarts' = restarts + 1
    /\ enforced' = TRUE
    /\ looked' = [r \in Requests |-> NoForm]
    /\ UNCHANGED <<forms, users, submissions, keys, lastIds, sessions, recycles>>

Next ==
    \/ CreateForm \/ CreateUser \/ Recycle \/ Restart
    \/ \E f \in Forms : DeleteForm(f) \/ \E r \in Requests : SubmitFormLookup(r, f)
    \/ \E r \in Requests : SubmitFormInsert(r)
    \/ \E S \in SUBSET submissions : DeleteSubmissions(S)
    \/ \E u \in Users : \/ DeleteUser(u) \/ CreateAPIKey(u)
                        \/ \E k \in keys : DeleteAPIKey(u, k)

Spec == Init /\ [][Next]_vars

-----------------------------------------------------------------------------
Orphans == {s \in submissions : s[2] \notin forms}
Ownerless == {k \in keys : k[2] \notin users}

(* What the schema declares: every submission belongs to a form, and every *)
(* API key to a user.                                                      *)
NoOrphans == Orphans = {} /\ Ownerless = {}

(* It holds until the first connection is replaced, also for a SubmitForm  *)
(* whose form is deleted between its lookup and its INSERT, and for a      *)
(* CreateAPIKey of a user deleted since the login.                         *)
NoOrphansAtFirst == recycles = 0 => NoOrphans
=============================================================================
