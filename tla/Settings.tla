------------------------------ MODULE Settings ------------------------------
(***************************************************************************)
(* Settings that name things which come and go by themselves: the site's   *)
(* logo, whose setting holds the URL of an uploaded file                   *)
(* (internal/handlers/site_settings.go, web/static/pages/settings.html),   *)
(* and the channel of the service's own mails, whose setting holds the id  *)
(* of a row of channels (UpdateRegistrationSettings in                     *)
(* internal/handlers/settings.go, loadServiceMailChannel in                *)
(* internal/handlers/helpers.go).                                          *)
(*                                                                         *)
(* The favicon has a setting and files of its own and is like the logo.    *)
(* The name of a file is the second of its upload; its extension, which    *)
(* can only keep two uploads of a second apart, is left out.               *)
(***************************************************************************)
EXTENDS Naturals, FiniteSets

CONSTANTS
    Pages,        \* browser pages of administrators
    Loads,        \* service mails being sent at the same time
    NumUsers, NumChannels,
    OwnerOf,      \* channels.owner_user_id
    MaxTime,      \* bound on the clock, in seconds
    MaxEdits,     \* bound on the edits of channels, users and the channel's setting
    MaxFaults     \* bound on the statements and file operations that fail

Users    == 1..NumUsers
Channels == 1..NumChannels
None     == 0

ASSUME ChannelsAssumption == NumUsers \in Nat \ {0} /\ OwnerOf \in [Channels -> Users]
ASSUME BoundsAssumption   ==
    NumChannels \in Nat /\ MaxTime \in Nat \ {0} /\ MaxEdits \in Nat /\ MaxFaults \in Nat

VARIABLES
    now,
    logo,        \* logo_url: the second in the file's name
    files,       \* data/uploads
    page,        \* what a page shows, and the locals of the handler it waits for
    taken,       \* history: names given to files
    lost,        \* history: stored files that an upload deleted
    fresh,       \* history: pages loaded since another page changed anything
    careful,     \* history: no stale page was saved, no name was given twice
    admins,      \* users with role "admin"
    enabled,     \* channels with a row and enabled = 1
    chosen,      \* service_mail_channel_id
    update,      \* the locals of UpdateRegistrationSettings, one per page
    load,        \* the locals of loadServiceMailChannel
    during,      \* history: what held at some time of a load, or all the time
    missed,      \* history: the steps of a load whose SELECT failed
    edits, faults

site == <<now, logo, files, page, taken, lost, fresh, careful>>
mail == <<admins, enabled, chosen, update, load, during, missed, edits>>
vars == <<site, mail, faults>>

Faulty == faults < MaxFaults /\ faults' = faults + 1

(* getSetting: what is stored, or nothing when the SELECT fails.           *)
GetSetting(stored, read) ==
    \/ read = stored /\ UNCHANGED faults
    \/ read = None /\ Faulty

(* primaryAdminUserID: the first administrator, or else the first user.    *)
First(S) == CHOOSE m \in S : \A n \in S : m <= n
PrimaryAdmin == First(IF admins # {} THEN admins ELSE Users)

Closed == [pc |-> "closed", shown |-> None, old |-> None, new |-> None]
Idle   == [pc |-> "idle", want |-> None, valid |-> FALSE]
Rest   == [pc |-> "idle", admin |-> None, id |-> None]
Nothing == [enabled |-> {}, steady |-> {}, primary |-> {}, chosen |-> {}]

Init ==
    /\ now = 1 /\ logo = None /\ files = {}
    /\ page = [p \in Pages |-> Closed]
    /\ taken = {} /\ lost = {} /\ fresh = {} /\ careful = TRUE
    /\ admins = {First(Users)} /\ enabled = Channels /\ chosen = None
    /\ update = [p \in Pages |-> Idle]
    /\ load = [l \in Loads |-> Rest] /\ during = [l \in Loads |-> Nothing]
    /\ missed = [l \in Loads |-> {}]
    /\ edits = 0 /\ faults = 0

-----------------------------------------------------------------------------
(* The page of the site's settings.                                        *)
Turn(p, place)  == page' = [page EXCEPT ![p].pc = place]
Show(p, name)   == page' = [page EXCEPT ![p] = [Closed EXCEPT !.pc = "open", !.shown = name]]

OpenPage(p) ==   \* loadSettings, GetSiteSettings
    /\ page[p].pc \in {"closed", "open"}
    /\ \E read \in {logo, None} : GetSetting(logo, read) /\ Show(p, read)
    /\ fresh' = fresh \cup {p}
    /\ UNCHANGED <<now, logo, files, taken, lost, careful, mail>>

RemoveLogo(p) ==   \* removeLogo, in the page alone
    /\ page[p].pc = "open"
    /\ Show(p, None)
    /\ UNCHANGED <<now, logo, files, taken, lost, fresh, careful, mail, faults>>

(* UploadSiteAsset: the stored URL is read, the file written, and the file *)
(* the stored URL names deleted; the new URL is for the page to save.      *)
UploadRead(p) ==
    /\ page[p].pc = "open"
    /\ \E read \in {logo, None} :
          /\ GetSetting(logo, read)
          /\ page' = [page EXCEPT ![p].pc = "create", ![p].old = read]
    /\ UNCHANGED <<now, logo, files, taken, lost, fresh, careful, mail>>

UploadCreate(p) ==
    /\ page[p].pc = "create"
    /\ files' = files \cup {now}
    /\ taken' = taken \cup {now}
    /\ careful' = (careful /\ now \notin taken)
    /\ \/ page' = [page EXCEPT ![p].pc = "delete", ![p].new = now] /\ UNCHANGED faults
       \/ Faulty /\ Show(p, page[p].shown)   \* the copy breaks off, the file stays
    /\ UNCHANGED <<now, logo, lost, fresh, mail>>

UploadDelete(p) ==
    /\ page[p].pc = "delete"
    /\ files' = files \ {page[p].old}
    /\ lost'  = lost \cup {page[p].old}
    /\ Show(p, page[p].new)
    /\ fresh' = fresh \cap {p}
    /\ UNCHANGED <<now, logo, taken, careful, mail, faults>>

(* UpdateSiteSettings: the stored URL is read, the keys are written one by *)
(* one in no particular order, and a file that is no longer named deleted. *)
SaveRead(p) ==
    /\ page[p].pc = "open"
    /\ \E read \in {logo, None} :
          /\ GetSetting(logo, read)
          /\ page' = [page EXCEPT ![p].pc = "save", ![p].old = read]
    /\ UNCHANGED <<now, logo, files, taken, lost, fresh, careful, mail>>

SaveWrite(p) ==
    /\ page[p].pc = "save"
    /\ \/ logo' = page[p].shown /\ Turn(p, "cleanup") /\ UNCHANGED faults
       \/ Faulty /\ Show(p, page[p].shown) /\ logo' \in {logo, page[p].shown}
    /\ careful' = (careful /\ p \in fresh)
    /\ fresh' = fresh \cap {p}
    /\ UNCHANGED <<now, files, taken, lost, mail>>

(* Plausible bug: the file is deleted although it is still named.          *)
CleanupAlways(p) ==
    /\ page[p].pc = "cleanup"
    /\ files' = files \ {page[p].old}
    /\ Show(p, page[p].shown)
    /\ UNCHANGED <<now, logo, taken, lost, fresh, careful, mail, faults>>

SaveCleanup(p) ==
    /\ page[p].pc = "cleanup"
    /\ files' = IF page[p].shown # page[p].old THEN files \ {page[p].old} ELSE files
    /\ Show(p, page[p].shown)
    /\ UNCHANGED <<now, logo, taken, lost, fresh, careful, mail, faults>>

Tick ==
    /\ now < MaxTime
    /\ now' = now + 1
    /\ UNCHANGED <<logo, files, page, taken, lost, fresh, careful, mail, faults>>

-----------------------------------------------------------------------------
(* What the loads in progress have lived through.                          *)
Note == during' = [l \in Loads |->
                     IF load[l].pc = "idle" THEN during[l]
                     ELSE [enabled |-> during[l].enabled \cup enabled',
                           steady  |-> during[l].steady \cap enabled',
                           primary |-> during[l].primary \cup {PrimaryAdmin'},
                           chosen  |-> during[l].chosen \cup {chosen'}]]

(* The channels page enables, disables and deletes channels, the users     *)
(* page makes and unmakes administrators.                                  *)
EditChannel(c) ==
    /\ edits < MaxEdits /\ edits' = edits + 1
    /\ enabled' = IF c \in enabled THEN enabled \ {c} ELSE enabled \cup {c}
    /\ UNCHANGED <<site, admins, chosen, update, load, missed, faults>>
    /\ Note

EditUser(u) ==
    /\ edits < MaxEdits /\ edits' = edits + 1
    /\ admins' = IF u \in admins THEN admins \ {u} ELSE admins \cup {u}
    /\ UNCHANGED <<site, enabled, chosen, update, load, missed, faults>>
    /\ Note

(* UpdateRegistrationSettings writes twelve other keys, each of which may  *)
(* fail, then looks at the channel and at the primary administrator, and   *)
(* writes its id; a refusal comes after the other keys.                    *)
UpdateKeys(p, c) ==
    /\ update[p].pc = "idle" /\ edits < MaxEdits /\ edits' = edits + 1
    /\ update' = [update EXCEPT ![p] =
                    [Idle EXCEPT !.pc = IF c = None THEN "write" ELSE "check", !.want = c]]
    /\ UNCHANGED <<site, admins, enabled, chosen, load, during, missed, faults>>

UpdateCheck(p) ==
    /\ update[p].pc = "check"
    /\ update' = [update EXCEPT ![p].pc = "admin", ![p].valid = update[p].want \in enabled]
    /\ UNCHANGED <<site, admins, enabled, chosen, load, during, missed, edits, faults>>

UpdateAdmin(p) ==
    LET c == update[p].want IN
    /\ update[p].pc = "admin"
    /\ update' = [update EXCEPT ![p] = IF update[p].valid /\ OwnerOf[c] = PrimaryAdmin
                                       THEN [Idle EXCEPT !.pc = "write", !.want = c]
                                       ELSE Idle]
    /\ UNCHANGED <<site, admins, enabled, chosen, load, during, missed, edits, faults>>

UpdateWrite(p) ==
    /\ update[p].pc = "write"
    /\ \/ chosen' = update[p].want /\ UNCHANGED faults
       \/ Faulty /\ UNCHANGED chosen
    /\ update' = [update EXCEPT ![p] = Idle]
    /\ UNCHANGED <<site, admins, enabled, load, missed, edits>>
    /\ Note

-----------------------------------------------------------------------------
(* loadServiceMailChannel, for the queue's worker that sends a mail.  A    *)
(* SELECT that fails is passed over, the last one fails the mail; the      *)
(* first ends the load where it began.                                     *)
Answered  == UNCHANGED <<missed, faults>>
Passed(l) == Faulty /\ missed' = [missed EXCEPT ![l] = @ \cup {load[l].pc}]

ReadAdmin(l) ==
    /\ load[l].pc = "idle"
    /\ load' = [load EXCEPT ![l] = [Rest EXCEPT !.pc = "setting", !.admin = PrimaryAdmin]]
    /\ during' = [during EXCEPT ![l] = [enabled |-> enabled, steady |-> enabled,
                                        primary |-> {PrimaryAdmin}, chosen |-> {chosen}]]
    /\ UNCHANGED <<site, admins, enabled, chosen, update, missed, edits, faults>>

ReadSetting(l) ==
    /\ load[l].pc = "setting"
    /\ \E read \in {chosen, None} :
          /\ \/ read = chosen /\ Answered
             \/ read = None /\ Passed(l)
          /\ load' = [load EXCEPT ![l].pc = IF read = None THEN "list" ELSE "look",
                                  ![l].id = read]
    /\ UNCHANGED <<site, admins, enabled, chosen, update, during, edits>>

Usable(l, c) == c \in enabled /\ OwnerOf[c] = load[l].admin

(* Plausible bugs: the chosen channel is taken as it is; a setting that    *)
(* names a channel which is gone fails the mail.                           *)
LookUnchecked(l) ==
    /\ load[l].pc = "look"
    /\ load' = [load EXCEPT ![l].pc = "send"]
    /\ UNCHANGED <<site, admins, enabled, chosen, update, during, missed, edits, faults>>
LookOrFail(l) ==
    /\ load[l].pc = "look"
    /\ load' = [load EXCEPT ![l].pc = IF Usable(l, load[l].id) THEN "send" ELSE "failed"]
    /\ UNCHANGED <<site, admins, enabled, chosen, update, during, missed, edits, faults>>

LookUpChosen(l) ==
    /\ load[l].pc = "look"
    /\ \/ /\ Answered
          /\ load' = [load EXCEPT ![l].pc = IF Usable(l, load[l].id) THEN "send" ELSE "list"]
       \/ Passed(l) /\ load' = [load EXCEPT ![l].pc = "list"]
    /\ UNCHANGED <<site, admins, enabled, chosen, update, during, edits>>

(* ListEnabledChannelsByOwner, of which the first is taken.                *)
ListChannels(l) ==
    /\ load[l].pc = "list"
    /\ \E listed \in {{c \in Channels : Usable(l, c)}, {}} :
          /\ \/ listed = {c \in Channels : Usable(l, c)} /\ Answered
             \/ listed = {} /\ Passed(l)
          /\ load' = [load EXCEPT ![l].pc = IF listed = {} THEN "failed" ELSE "send",
                                  ![l].id = IF listed = {} THEN None ELSE First(listed)]
    /\ UNCHANGED <<site, admins, enabled, chosen, update, during, edits>>

(* SendWithOneChannel, or the error that makes the queue try again later.  *)
Finish(l) ==
    /\ load[l].pc \in {"send", "failed"}
    /\ load'   = [load EXCEPT ![l] = Rest]
    /\ during' = [during EXCEPT ![l] = Nothing]
    /\ missed' = [missed EXCEPT ![l] = {}]
    /\ UNCHANGED <<site, admins, enabled, chosen, update, edits, faults>>

-----------------------------------------------------------------------------
SitePage(p) ==
    \/ OpenPage(p) \/ RemoveLogo(p)
    \/ UploadRead(p) \/ UploadCreate(p) \/ UploadDelete(p)
    \/ SaveRead(p) \/ SaveWrite(p) \/ SaveCleanup(p)

RegistrationPage(p) ==
    \/ \E c \in Channels \cup {None} : UpdateKeys(p, c)
    \/ UpdateCheck(p) \/ UpdateAdmin(p) \/ UpdateWrite(p)

LoadServiceMailChannel(l) ==
    \/ ReadAdmin(l) \/ ReadSetting(l) \/ LookUpChosen(l) \/ ListChannels(l) \/ Finish(l)

Next ==
    \/ \E p \in Pages : SitePage(p) \/ RegistrationPage(p)
    \/ \E l \in Loads : LoadServiceMailChannel(l)
    \/ \E c \in Channels : EditChannel(c)
    \/ \E u \in Users : EditUser(u)
    \/ Tick

Spec == Init /\ [][Next]_vars

-----------------------------------------------------------------------------
(* Types of the variables.                                                 *)
TypeOK ==
    LET Names == 0..MaxTime IN
    /\ now \in 1..MaxTime /\ logo \in Names /\ faults \in 0..MaxFaults
    /\ files \subseteq taken /\ taken \subseteq 1..now /\ lost \subseteq Names
    /\ page \in [Pages -> [pc : {"closed", "open", "create", "delete", "save", "cleanup"},
                           shown : Names, old : Names, new : Names]]
    /\ fresh \subseteq Pages /\ careful \in BOOLEAN
    /\ admins \subseteq Users /\ enabled \subseteq Channels /\ edits \in 0..MaxEdits
    /\ chosen \in Channels \cup {None}
    /\ update \in [Pages -> [pc : {"idle", "check", "admin", "write"},
                             want : Channels \cup {None}, valid : BOOLEAN]]
    /\ load \in [Loads -> [pc : {"idle", "setting", "look", "list", "send", "failed"},
                           admin : Users \cup {None}, id : Channels \cup {None}]]
    /\ during \in [Loads -> [enabled : SUBSET Channels, steady : SUBSET Channels,
                             primary : SUBSET Users, chosen : SUBSET (Channels \cup {None})]]
    /\ missed \in [Loads -> SUBSET {"setting", "look", "list"}]

(* The logo that is stored is there to be served, whatever administrators  *)
(* upload, remove and save on several pages and whatever fails (the three  *)
(* deletions in UploadSiteAsset and UpdateSiteSettings).  The exceptions   *)
(* are the program's: an upload deletes the stored file before its own is  *)
(* saved, a page that is saved brings back the logo it had loaded, and two *)
(* uploads of one second have one name.                                    *)
LogoServed == careful => logo \in files \cup lost \cup {None}

(* A service mail goes over a channel that, during the call, was enabled   *)
(* and belonged to the primary administrator, although the setting, the    *)
(* channel and the administrator are read one after another.               *)
ChannelOfAdmin ==
    \A l \in Loads : load[l].pc = "send" =>
        /\ load[l].id \in during[l].enabled
        /\ OwnerOf[load[l].id] \in during[l].primary

(* While the primary administrator stays the same, a service mail finds a  *)
(* channel if one of the administrator's was enabled all the time and the  *)
(* list of them is read, whatever became of the channel that the setting   *)
(* names and of the statements that read it; and it is the channel the     *)
(* setting names if that was usable and chosen all the time and no         *)
(* statement failed, for one that fails counts as "none was chosen".       *)
FoundWhenSteady ==
    \A l \in Loads : \A u \in Users :
        LET steady == {c \in during[l].steady : OwnerOf[c] = u} IN
        during[l].primary = {u} =>
            /\ load[l].pc = "failed" /\ "list" \notin missed[l] => steady = {}
            /\ load[l].pc = "send" /\ missed[l] = {} =>
                  \A c \in steady : during[l].chosen = {c} => load[l].id = c
=============================================================================
