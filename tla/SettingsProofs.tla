--------------------------- MODULE SettingsProofs ---------------------------
(***************************************************************************)
(* Theorems about Settings for any number of pages, users, channels and    *)
(* service mails.                                                          *)
(***************************************************************************)
EXTENDS Settings, WellFoundedInduction, TLAPS

(* The first of a set of numbers is one of it and before the others.       *)
LEMMA FirstOf ==
  ASSUME NEW S \in SUBSET Nat, S # {}
  PROVE  First(S) \in S /\ \A n \in S : First(S) <= n
<1> DEFINE R == {ss \in Nat \X Nat : ss[1] < ss[2]}
<1>0. IsWellFoundedOn(R, Nat)
  BY NatLessThanWellFounded, Zenon DEF OpToRel
<1>1. PICK m \in S : \A n \in S : ~(<<n, m>> \in R)
  BY <1>0, WFMin, Zenon
<1>2. \A n \in S : ~(n < m)
  BY <1>1
<1>3. \A n \in S : m <= n
  BY <1>2
<1> QED
  BY <1>3 DEF First


-----------------------------------------------------------------------------
(* The records of the pages, and the site's half of the types.             *)
Names      == 0..MaxTime
PagePlaces == {"closed", "open", "create", "delete", "save", "cleanup"}
PageType   == [pc : PagePlaces, shown : Names, old : Names, new : Names]
PagesOK    == page \in [Pages -> PageType]

SiteOK ==
  /\ now \in 1..MaxTime /\ logo \in Names
  /\ files \subseteq taken /\ taken \subseteq 1..now /\ lost \subseteq Names
  /\ PagesOK /\ fresh \subseteq Pages /\ careful \in BOOLEAN

(* After a step the page p is so, and the others are what they were.       *)
PageIs(p, place, shown, old, new) ==
  /\ PagesOK'
  /\ page'[p].pc = place /\ page'[p].shown = shown /\ page'[p].old = old /\ page'[p].new = new
  /\ \A q \in Pages : q # p => page'[q] = page[q]

LEMMA PageFields ==
  ASSUME PagesOK, NEW p \in Pages
  PROVE  /\ page[p].pc \in PagePlaces
         /\ page[p].shown \in Names /\ page[p].old \in Names /\ page[p].new \in Names
<1>1. page[p] \in PageType
  BY DEF PagesOK
<1> QED
  BY <1>1 DEF PageType

LEMMA PageSet ==
  ASSUME PagesOK, NEW p \in Pages, NEW r \in PageType, page' = [page EXCEPT ![p] = r]
  PROVE  PageIs(p, r.pc, r.shown, r.old, r.new)
  BY DEF PagesOK, PageIs

LEMMA ShowIs ==
  ASSUME PagesOK, NEW p \in Pages, NEW name \in Names, Show(p, name)
  PROVE  PageIs(p, "open", name, None, None)
<1> DEFINE r == [Closed EXCEPT !.pc = "open", !.shown = name]
<1>1. r \in PageType /\ r.pc = "open" /\ r.shown = name /\ r.old = None /\ r.new = None
  <2>1. 0 \in Names
    BY BoundsAssumption DEF Names
  <2>2. Closed \in PageType /\ Closed.old = None /\ Closed.new = None
    BY <2>1 DEF Closed, PageType, PagePlaces, None
  <2> QED
    BY <2>2 DEF PageType, PagePlaces
<1>2. page' = [page EXCEPT ![p] = r]
  BY DEF Show
<1> HIDE DEF r
<1>3. PageIs(p, r.pc, r.shown, r.old, r.new)
  BY <1>1, <1>2, PageSet
<1> QED
  BY <1>1, <1>3

LEMMA TurnIs ==
  ASSUME PagesOK, NEW p \in Pages, NEW place \in PagePlaces, Turn(p, place)
  PROVE  PageIs(p, place, page[p].shown, page[p].old, page[p].new)
<1> DEFINE r == [page[p] EXCEPT !.pc = place]
<1>1. page[p] \in PageType
  BY DEF PagesOK
<1>2. /\ r \in PageType /\ r.pc = place
      /\ r.shown = page[p].shown /\ r.old = page[p].old /\ r.new = page[p].new
  BY <1>1 DEF PageType
<1>3. page' = [page EXCEPT ![p] = r]
  BY DEF Turn
<1> HIDE DEF r
<1>4. PageIs(p, r.pc, r.shown, r.old, r.new)
  BY <1>2, <1>3, PageSet
<1> QED
  BY <1>2, <1>4

LEMMA OldIs ==
  ASSUME PagesOK, NEW p \in Pages, NEW place \in PagePlaces, NEW name \in Names,
         page' = [page EXCEPT ![p].pc = place, ![p].old = name]
  PROVE  PageIs(p, place, page[p].shown, name, page[p].new)
<1> DEFINE r == [page[p] EXCEPT !.pc = place, !.old = name]
<1>1. page[p] \in PageType
  BY DEF PagesOK
<1>2. /\ r \in PageType /\ r.pc = place
      /\ r.shown = page[p].shown /\ r.old = name /\ r.new = page[p].new
  BY <1>1 DEF PageType
<1>3. page' = [page EXCEPT ![p] = r]
  OBVIOUS
<1> HIDE DEF r
<1>4. PageIs(p, r.pc, r.shown, r.old, r.new)
  BY <1>2, <1>3, PageSet
<1> QED
  BY <1>2, <1>4

LEMMA NewIs ==
  ASSUME PagesOK, NEW p \in Pages, NEW place \in PagePlaces, NEW name \in Names,
         page' = [page EXCEPT ![p].pc = place, ![p].new = name]
  PROVE  PageIs(p, place, page[p].shown, page[p].old, name)
<1> DEFINE r == [page[p] EXCEPT !.pc = place, !.new = name]
<1>1. page[p] \in PageType
  BY DEF PagesOK
<1>2. /\ r \in PageType /\ r.pc = place
      /\ r.shown = page[p].shown /\ r.old = page[p].old /\ r.new = name
  BY <1>1 DEF PageType
<1>3. page' = [page EXCEPT ![p] = r]
  OBVIOUS
<1> HIDE DEF r
<1>4. PageIs(p, r.pc, r.shown, r.old, r.new)
  BY <1>2, <1>3, PageSet
<1> QED
  BY <1>2, <1>4

-----------------------------------------------------------------------------
(* The site, whatever the other half of the module does.  A name is safe   *)
(* when its file is there, or an upload deleted it, and no page that has   *)
(* saved another is about to delete it.  While everybody is careful, the   *)
(* stored logo is safe and so is what a fresh page shows, for it may be    *)
(* the next logo.  All names are those of files there were.                *)
Threatened(n) == \E q \in Pages : /\ page[q].pc = "cleanup" /\ page[q].shown # page[q].old
                                  /\ page[q].old = n
Safe(n)  == n = None \/ (n \in files \cup lost /\ ~Threatened(n))
Known(n) == n \in taken \cup {None}

AllKnown == /\ Known(logo)
            /\ \A p \in Pages : Known(page[p].shown) /\ Known(page[p].old) /\ Known(page[p].new)

FreshSafe ==
  careful =>
    /\ Safe(logo)
    /\ \A p \in fresh : /\ Safe(page[p].shown)
                        /\ page[p].pc = "delete" => Safe(page[p].new)

SiteInv == SiteOK /\ AllKnown /\ FreshSafe

LEMMA SiteUploads ==
  ASSUME SiteInv, NEW p \in Pages,
         OpenPage(p) \/ RemoveLogo(p) \/ UploadRead(p) \/ UploadDelete(p) \/ SaveRead(p)
  PROVE  SiteInv'
<1> USE BoundsAssumption
<1>0. /\ PagesOK /\ logo \in Names /\ None \in Names /\ page[p].new \in Names
      /\ page[p].pc \in PagePlaces
  BY PageFields DEF SiteInv, SiteOK, Names, None
<1>1. CASE OpenPage(p)
  <2>1. PICK read \in {logo, None} :
           /\ PageIs(p, "open", read, None, None) /\ fresh' = fresh \cup {p}
           /\ UNCHANGED <<now, logo, files, taken, lost, careful>>
    BY <1>0, <1>1, ShowIs DEF OpenPage
  <2>2. \A n : Safe(n) => Safe(n)'
    BY <2>1 DEF Safe, Threatened, PageIs
  <2>3. SiteOK'
    BY <2>1 DEF SiteInv, SiteOK, PageIs
  <2>4. AllKnown'
    BY <2>1 DEF SiteInv, AllKnown, Known, PageIs
  <2>5. FreshSafe'
    BY <2>1, <2>2 DEF SiteInv, SiteOK, FreshSafe, PageIs, Safe
  <2> QED
    BY <2>3, <2>4, <2>5 DEF SiteInv
<1>2. CASE RemoveLogo(p)
  <2>1. /\ PageIs(p, "open", None, None, None)
        /\ UNCHANGED <<now, logo, files, taken, lost, fresh, careful>>
    BY <1>0, <1>2, ShowIs DEF RemoveLogo
  <2>2. \A n : Safe(n) => Safe(n)'
    BY <2>1 DEF Safe, Threatened, PageIs
  <2>3. SiteOK'
    BY <2>1 DEF SiteInv, SiteOK, PageIs
  <2>4. AllKnown'
    BY <2>1 DEF SiteInv, AllKnown, Known, PageIs
  <2>5. FreshSafe'
    BY <2>1, <2>2 DEF SiteInv, SiteOK, FreshSafe, PageIs, Safe
  <2> QED
    BY <2>3, <2>4, <2>5 DEF SiteInv
<1>3. CASE UploadRead(p) \/ SaveRead(p)
  <2>1. PICK place \in {"create", "save"}, read \in {logo, None} :
           /\ PageIs(p, place, page[p].shown, read, page[p].new)
           /\ UNCHANGED <<now, logo, files, taken, lost, fresh, careful>>
    BY <1>0, <1>3, OldIs DEF UploadRead, SaveRead, PagePlaces
  <2>2. \A n : Safe(n) => Safe(n)'
    BY <2>1 DEF Safe, Threatened, PageIs
  <2>3. SiteOK'
    BY <2>1 DEF SiteInv, SiteOK, PageIs
  <2>4. AllKnown'
    BY <2>1 DEF SiteInv, AllKnown, Known, PageIs
  <2>5. FreshSafe'
    BY <2>1, <2>2 DEF SiteInv, SiteOK, FreshSafe, PageIs
  <2> QED
    BY <2>3, <2>4, <2>5 DEF SiteInv
<1>4. CASE UploadDelete(p)
  <2>1. /\ PageIs(p, "open", page[p].new, None, None) /\ page[p].pc = "delete"
        /\ files' = files \ {page[p].old} /\ lost' = lost \cup {page[p].old}
        /\ fresh' = fresh \cap {p} /\ UNCHANGED <<now, logo, taken, careful>>
    BY <1>0, <1>4, ShowIs DEF UploadDelete
  <2>2. \A n : Safe(n) => Safe(n)'
    BY <2>1 DEF Safe, Threatened, PageIs
  <2>3. SiteOK'
    BY <2>1, PageFields DEF SiteInv, SiteOK, PageIs
  <2>4. AllKnown'
    BY <2>1 DEF SiteInv, AllKnown, Known, PageIs
  <2>5. FreshSafe'
    BY <2>1, <2>2 DEF SiteInv, SiteOK, FreshSafe, PageIs
  <2> QED
    BY <2>3, <2>4, <2>5 DEF SiteInv
<1> QED
  BY <1>1, <1>2, <1>3, <1>4


LEMMA SiteSaves ==
  ASSUME SiteInv, NEW p \in Pages, UploadCreate(p) \/ SaveWrite(p) \/ SaveCleanup(p)
  PROVE  SiteInv'
<1> USE BoundsAssumption
<1>0. /\ PagesOK /\ logo \in Names /\ None \in Names /\ now \in Names /\ now # None
      /\ page[p].shown \in Names /\ page[p].old \in Names /\ page[p].new \in Names
      /\ now \in 1..MaxTime
  BY PageFields DEF SiteInv, SiteOK, Names, None
<1>1. CASE UploadCreate(p)
  <2>1. /\ files' = files \cup {now} /\ taken' = taken \cup {now}
        /\ careful' = (careful /\ now \notin taken)
        /\ UNCHANGED <<now, logo, lost, fresh>>
    BY <1>1 DEF UploadCreate
  <2>2. \/ PageIs(p, "delete", page[p].shown, page[p].old, now)
        \/ PageIs(p, "open", page[p].shown, None, None)
    BY <1>0, <1>1, NewIs, ShowIs DEF UploadCreate, PagePlaces
  <2>3. \A n : Safe(n) => Safe(n)'
    BY <2>1, <2>2 DEF Safe, Threatened, PageIs
  <2>4. careful' => Safe(now)'
    <3>1. \A q \in Pages : page[q].old \in taken \cup {None}
      BY DEF SiteInv, AllKnown, Known
    <3>2. careful' => now \notin taken
      BY <2>1
    <3>3. now \notin taken => ~Threatened(now)'
      BY <1>0, <2>1, <2>2, <3>1 DEF Threatened, PageIs
    <3> QED
      BY <2>1, <3>2, <3>3 DEF Safe
  <2>5. SiteOK'
    <3>1. careful' \in BOOLEAN
      BY <2>1
    <3>2. files \subseteq taken /\ taken \subseteq 1..now /\ now \in 1..now
      BY <1>0 DEF SiteInv, SiteOK
    <3>3. files' \subseteq taken' /\ taken' \subseteq 1..now'
      BY <2>1, <3>2
    <3> QED
      BY <2>1, <2>2, <3>1, <3>3 DEF SiteInv, SiteOK, PageIs
  <2>6. AllKnown'
    BY <2>1, <2>2 DEF SiteInv, AllKnown, Known, PageIs
  <2>7. careful' => careful
    BY <2>1
  <2>8. FreshSafe'
    <3> SUFFICES ASSUME careful'
                 PROVE  /\ Safe(logo)'
                        /\ \A q \in fresh' : /\ Safe(page[q].shown)'
                                             /\ page'[q].pc = "delete" => Safe(page[q].new)'
      BY DEF FreshSafe
    <3>1. careful /\ fresh' = fresh /\ fresh \subseteq Pages
      BY <2>1, <2>7 DEF SiteInv, SiteOK
    <3>2. /\ Safe(logo)
          /\ \A q \in fresh : /\ Safe(page[q].shown)
                              /\ page[q].pc = "delete" => Safe(page[q].new)
      BY <3>1 DEF SiteInv, FreshSafe
    <3>3. Safe(logo)'
      BY <2>1, <2>3, <3>2
    <3>4. ASSUME NEW q \in fresh'
          PROVE  /\ Safe(page[q].shown)'
                 /\ page'[q].pc = "delete" => Safe(page[q].new)'
      <4>1. CASE q # p
        <5>1. page'[q] = page[q] /\ q \in fresh
          BY <2>2, <3>1, <4>1 DEF PageIs
        <5> QED
          BY <2>1, <2>3, <3>2, <5>1
      <4>2. CASE q = p
        <5>1. page'[q].shown = page[q].shown /\ q \in fresh
          BY <2>2, <3>1, <4>2 DEF PageIs
        <5>2. page'[q].pc = "delete" => page'[q].new = now
          BY <2>2, <4>2 DEF PageIs
        <5> QED
          BY <2>1, <2>3, <2>4, <3>2, <5>1, <5>2
      <4> QED
        BY <4>1, <4>2
    <3> QED
      BY <3>3, <3>4
  <2> QED
    BY <2>5, <2>6, <2>8 DEF SiteInv
<1>2. CASE SaveWrite(p)
  <2>1. /\ page[p].pc = "save" /\ careful' = (careful /\ p \in fresh) /\ fresh' = fresh \cap {p}
        /\ UNCHANGED <<now, files, taken, lost>>
        /\ logo' \in {logo, page[p].shown}
    BY <1>2 DEF SaveWrite
  <2>2. \/ logo' = page[p].shown /\ PageIs(p, "cleanup", page[p].shown, page[p].old, page[p].new)
        \/ PageIs(p, "open", page[p].shown, None, None)
    BY <1>0, <1>2, TurnIs, ShowIs DEF SaveWrite, PagePlaces
  <2>3. \A n : Safe(n) /\ (n # page[p].old \/ n = page[p].shown) => Safe(n)'
    BY <2>1, <2>2 DEF Safe, Threatened, PageIs
  <2>4. PageIs(p, "open", page[p].shown, None, None) => \A n : Safe(n) => Safe(n)'
    BY <2>1 DEF Safe, Threatened, PageIs
  <2>5. SiteOK'
    <3>1. careful' \in BOOLEAN
      BY <2>1
    <3> QED
      BY <1>0, <2>1, <2>2, <3>1 DEF SiteInv, SiteOK, PageIs
  <2>6. AllKnown'
    BY <2>1, <2>2 DEF SiteInv, AllKnown, Known, PageIs
  <2>7. careful' => careful /\ p \in fresh
    BY <2>1
  <2>8. FreshSafe'
    <3> SUFFICES ASSUME careful'
                 PROVE  Safe(logo)' /\ Safe(page[p].shown)' /\ page'[p].pc # "delete"
      BY <2>1 DEF FreshSafe
    <3>1. Safe(logo) /\ Safe(page[p].shown)
      BY <2>1, <2>7 DEF SiteInv, FreshSafe
    <3>2. page'[p].shown = page[p].shown /\ page'[p].pc # "delete"
      BY <2>2 DEF PageIs
    <3>3. Safe(page[p].shown)'
      BY <2>3, <3>1, <3>2
    <3>4. Safe(logo)'
      <4>1. CASE logo' = page[p].shown
        BY <2>3, <3>1, <4>1
      <4>2. CASE logo' # page[p].shown
        BY <2>1, <2>2, <2>4, <3>1, <4>2
      <4> QED
        BY <4>1, <4>2
    <3> QED
      BY <3>2, <3>3, <3>4
  <2> QED
    BY <2>5, <2>6, <2>8 DEF SiteInv
<1>3. CASE SaveCleanup(p)
  <2>1. /\ PageIs(p, "open", page[p].shown, None, None) /\ page[p].pc = "cleanup"
        /\ files' = IF page[p].shown # page[p].old THEN files \ {page[p].old} ELSE files
        /\ UNCHANGED <<now, logo, taken, lost, fresh, careful>>
    BY <1>0, <1>3, ShowIs DEF SaveCleanup
  <2>2. \A n : Safe(n) => Safe(n)'
    BY <2>1 DEF Safe, Threatened, PageIs
  <2>3. SiteOK'
    BY <2>1 DEF SiteInv, SiteOK, PageIs
  <2>4. AllKnown'
    BY <2>1 DEF SiteInv, AllKnown, Known, PageIs
  <2>5. FreshSafe'
    BY <2>1, <2>2 DEF SiteInv, SiteOK, FreshSafe, PageIs
  <2> QED
    BY <2>3, <2>4, <2>5 DEF SiteInv
<1> QED
  BY <1>1, <1>2, <1>3

(* Every step of the module, as the site sees it.                          *)
LEMMA SiteStep == SiteInv /\ [Next]_vars => SiteInv'
<1> SUFFICES ASSUME SiteInv, [Next]_vars PROVE SiteInv'
  OBVIOUS
<1>1. CASE \E p \in Pages : SitePage(p)
  BY <1>1, SiteUploads, SiteSaves DEF SitePage
<1>2. CASE UNCHANGED site
  BY <1>2 DEF site, SiteInv, SiteOK, PagesOK, AllKnown, FreshSafe, Safe, Threatened, Known
<1>3. CASE Tick
  <2>1. now \in 1..MaxTime /\ now < MaxTime /\ now' = now + 1 /\ MaxTime \in Nat
    BY <1>3, BoundsAssumption DEF Tick, SiteInv, SiteOK
  <2>2. now' \in 1..MaxTime /\ (taken \subseteq 1..now => taken \subseteq 1..now')
    BY <2>1
  <2>3. UNCHANGED <<logo, files, page, taken, lost, fresh, careful>>
    BY <1>3 DEF Tick
  <2> QED
    BY <2>2, <2>3 DEF SiteInv, SiteOK, PagesOK, AllKnown, FreshSafe, Safe, Threatened, Known
<1>4. Next => (\E p \in Pages : SitePage(p)) \/ UNCHANGED site \/ Tick
  BY DEF Next, RegistrationPage, LoadServiceMailChannel, EditChannel, EditUser, UpdateKeys,
         UpdateCheck, UpdateAdmin, UpdateWrite, ReadAdmin, ReadSetting, LookUpChosen,
         ListChannels, Finish
<1>5. UNCHANGED vars => UNCHANGED site
  BY DEF vars
<1> QED
  BY <1>1, <1>2, <1>3, <1>4, <1>5

LEMMA SiteInit == Init => SiteInv
<1> SUFFICES ASSUME Init PROVE SiteInv
  OBVIOUS
<1>1. 0 \in Names /\ 1 \in 1..MaxTime
  BY BoundsAssumption DEF Names
<1>2. Closed \in PageType /\ Closed.shown = 0 /\ Closed.old = 0 /\ Closed.new = 0 /\ Closed.pc = "closed"
  BY <1>1 DEF Closed, PageType, PagePlaces, None
<1>3. PagesOK /\ \A p \in Pages : page[p] = Closed
  BY <1>2 DEF Init, PagesOK
<1>4. SiteOK
  BY <1>1, <1>3 DEF Init, SiteOK, None
<1>5. AllKnown
  BY <1>2, <1>3 DEF Init, AllKnown, Known, None
<1>6. FreshSafe
  BY DEF Init, FreshSafe, Safe
<1> QED
  BY <1>4, <1>5, <1>6 DEF SiteInv

(* The stored logo is there to be served while nobody saves a stale page   *)
(* and no two uploads share a second (UploadSiteAsset and                  *)
(* UpdateSiteSettings): for any number of administrators' pages and any    *)
(* statements that fail.                                                   *)
THEOREM LogoIsServed == Spec => []LogoServed
<1>1. SiteInv => LogoServed
  BY DEF SiteInv, FreshSafe, Safe, LogoServed
<1> QED
  BY <1>1, SiteInit, SiteStep, PTL DEF Spec


-----------------------------------------------------------------------------
(* The channel's half of the types.                                        *)
LoadPlaces == {"idle", "setting", "look", "list", "send", "failed"}
LoadType   == [pc : LoadPlaces, admin : Users \cup {None}, id : Channels \cup {None}]
UpdateType == [pc : {"idle", "check", "admin", "write"}, want : Channels \cup {None},
               valid : BOOLEAN]
DuringType == [enabled : SUBSET Channels, steady : SUBSET Channels,
               primary : SUBSET Users, chosen : SUBSET (Channels \cup {None})]

SettingsOK ==
  /\ admins \subseteq Users /\ enabled \subseteq Channels /\ chosen \in Channels \cup {None}
  /\ edits \in 0..MaxEdits /\ update \in [Pages -> UpdateType]
LoadsOK == load \in [Loads -> LoadType] /\ during \in [Loads -> DuringType]
MissedOK == missed \in [Loads -> SUBSET {"setting", "look", "list"}]

LEMMA AdminIsUser ==
  ASSUME NEW A \in SUBSET Users
  PROVE  First(IF A # {} THEN A ELSE Users) \in Users
<1>1. Users # {} /\ Users \in SUBSET Nat
  BY ChannelsAssumption DEF Users
<1>2. A # {} => A \in SUBSET Nat
  BY <1>1
<1> QED
  BY <1>1, <1>2, FirstOf

LEMMA LoadFields ==
  ASSUME LoadsOK, NEW l \in Loads
  PROVE  /\ load[l].pc \in LoadPlaces
         /\ load[l].admin \in Users \cup {None} /\ load[l].id \in Channels \cup {None}
         /\ during[l].enabled \in SUBSET Channels /\ during[l].steady \in SUBSET Channels
         /\ during[l].primary \in SUBSET Users
         /\ during[l].chosen \in SUBSET (Channels \cup {None})
<1>1. load[l] \in LoadType /\ during[l] \in DuringType
  BY DEF LoadsOK
<1> QED
  BY <1>1 DEF LoadType, DuringType

(* After a step the load l is so, and the others are what they were.       *)
LoadIs(l, place, admin, id) ==
  /\ load' \in [Loads -> LoadType]
  /\ load'[l].pc = place /\ load'[l].admin = admin /\ load'[l].id = id
  /\ \A m \in Loads : m # l => load'[m] = load[m]

LEMMA LoadSet ==
  ASSUME LoadsOK, NEW l \in Loads, NEW r \in LoadType, load' = [load EXCEPT ![l] = r]
  PROVE  LoadIs(l, r.pc, r.admin, r.id)
  BY DEF LoadsOK, LoadIs

LEMMA LoadGoes ==
  ASSUME LoadsOK, NEW l \in Loads, NEW place \in LoadPlaces, load' = [load EXCEPT ![l].pc = place]
  PROVE  LoadIs(l, place, load[l].admin, load[l].id)
<1> DEFINE r == [load[l] EXCEPT !.pc = place]
<1>1. load[l] \in LoadType
  BY DEF LoadsOK
<1>2. r \in LoadType /\ r.pc = place /\ r.admin = load[l].admin /\ r.id = load[l].id
  BY <1>1 DEF LoadType
<1>3. load' = [load EXCEPT ![l] = r]
  OBVIOUS
<1> HIDE DEF r
<1>4. LoadIs(l, r.pc, r.admin, r.id)
  BY <1>2, <1>3, LoadSet
<1> QED
  BY <1>2, <1>4

LEMMA LoadReads ==
  ASSUME LoadsOK, NEW l \in Loads, NEW place \in LoadPlaces, NEW id \in Channels \cup {None},
         load' = [load EXCEPT ![l].pc = place, ![l].id = id]
  PROVE  LoadIs(l, place, load[l].admin, id)
<1> DEFINE r == [load[l] EXCEPT !.pc = place, !.id = id]
<1>1. load[l] \in LoadType
  BY DEF LoadsOK
<1>2. r \in LoadType /\ r.pc = place /\ r.admin = load[l].admin /\ r.id = id
  BY <1>1 DEF LoadType
<1>3. load' = [load EXCEPT ![l] = r]
  OBVIOUS
<1> HIDE DEF r
<1>4. LoadIs(l, r.pc, r.admin, r.id)
  BY <1>2, <1>3, LoadSet
<1> QED
  BY <1>2, <1>4

-----------------------------------------------------------------------------
(* What a load has lived through: what holds now is among it, and so is    *)
(* the administrator it read.  And what it knows at each place: the        *)
(* setting it read; that the setting did not name one usable channel all   *)
(* the time, or could not be read; the channel it sends over; that there   *)
(* was none, or they could not be listed.                                  *)
Lived(l) ==
  /\ enabled \subseteq during[l].enabled /\ during[l].steady \subseteq enabled
  /\ PrimaryAdmin \in during[l].primary /\ load[l].admin \in during[l].primary
  /\ chosen \in during[l].chosen

SteadyOf(l, u) == {c \in during[l].steady : OwnerOf[c] = u}

Learnt(l) ==
  /\ load[l].pc = "look" => load[l].id \in during[l].chosen
  /\ load[l].pc = "list" /\ missed[l] = {} =>
        \A u \in Users : during[l].primary = {u} =>
           \A c \in SteadyOf(l, u) : during[l].chosen # {c}
  /\ load[l].pc = "send" =>
        /\ load[l].id \in during[l].enabled /\ OwnerOf[load[l].id] = load[l].admin
        /\ missed[l] = {} => \A u \in Users : during[l].primary = {u} =>
              \A c \in SteadyOf(l, u) : during[l].chosen = {c} => load[l].id = c
  /\ load[l].pc = "failed" /\ "list" \notin missed[l] =>
        \A u \in Users : during[l].primary = {u} => SteadyOf(l, u) = {}

LoadInv ==
  /\ SettingsOK /\ LoadsOK /\ MissedOK
  /\ \A l \in Loads : load[l].pc # "idle" => Lived(l) /\ Learnt(l)

(* The administrators' edits, which the loads in progress live through.    *)
LEMMA EditsNoted ==
  ASSUME LoadInv, SettingsOK', UNCHANGED <<load, missed>>, Note
  PROVE  LoadInv'
<1>0. PrimaryAdmin' \in Users
  BY AdminIsUser DEF SettingsOK, PrimaryAdmin
<1>1. ASSUME NEW l \in Loads
      PROVE  /\ during'[l] \in DuringType
             /\ load[l].pc = "idle" => during'[l] = during[l]
             /\ load[l].pc # "idle" =>
                   /\ during'[l].enabled = during[l].enabled \cup enabled'
                   /\ during'[l].steady = during[l].steady \cap enabled'
                   /\ during'[l].primary = during[l].primary \cup {PrimaryAdmin'}
                   /\ during'[l].chosen = during[l].chosen \cup {chosen'}
  <2>1. during[l] \in DuringType
    BY DEF LoadInv, LoadsOK
  <2>2. CASE load[l].pc = "idle"
    BY <2>1, <2>2 DEF Note
  <2>3. CASE load[l].pc # "idle"
    <3>1. during'[l] = [enabled |-> during[l].enabled \cup enabled',
                        steady  |-> during[l].steady \cap enabled',
                        primary |-> during[l].primary \cup {PrimaryAdmin'},
                        chosen  |-> during[l].chosen \cup {chosen'}]
      BY <2>3 DEF Note
    <3>2. /\ during[l].enabled \cup enabled' \in SUBSET Channels
          /\ during[l].steady \cap enabled' \in SUBSET Channels
          /\ during[l].primary \cup {PrimaryAdmin'} \in SUBSET Users
          /\ during[l].chosen \cup {chosen'} \in SUBSET (Channels \cup {None})
      BY <1>0, LoadFields DEF SettingsOK, LoadInv
    <3> QED
      BY <2>3, <3>1, <3>2 DEF DuringType
  <2> QED
    BY <2>2, <2>3
<1>2. LoadsOK'
  <2>1. during' = [l \in Loads |-> during'[l]]
    BY DEF Note
  <2> QED
    BY <1>1, <2>1 DEF LoadInv, LoadsOK
<1>3. ASSUME NEW l \in Loads, load'[l].pc # "idle" PROVE Lived(l)' /\ Learnt(l)'
  <2>1. load[l].pc # "idle" /\ Lived(l) /\ Learnt(l) /\ load'[l] = load[l]
    BY <1>3 DEF LoadInv
  <2>2. /\ during'[l].enabled = during[l].enabled \cup enabled'
        /\ during'[l].steady = during[l].steady \cap enabled'
        /\ during'[l].primary = during[l].primary \cup {PrimaryAdmin'}
        /\ during'[l].chosen = during[l].chosen \cup {chosen'}
    BY <1>1, <2>1
  <2>3. Lived(l)'
    BY <2>1, <2>2 DEF Lived
  <2>4. /\ \A u : during'[l].primary = {u} => during[l].primary = {u}
        /\ \A c : during'[l].chosen = {c} => during[l].chosen = {c}
        /\ \A u : SteadyOf(l, u)' \subseteq SteadyOf(l, u)
    <3>1. during[l].primary # {} /\ during[l].chosen # {}
      BY <2>1 DEF Lived
    <3>2. \A u : SteadyOf(l, u)' \subseteq SteadyOf(l, u)
      BY <2>2 DEF SteadyOf
    <3> QED
      BY <2>2, <3>1, <3>2
  <2>5. Learnt(l)'
    BY <2>1, <2>2, <2>4 DEF Learnt
  <2> QED
    BY <2>3, <2>5
<1> QED
  BY <1>2, <1>3 DEF LoadInv, MissedOK


(* The locals of UpdateRegistrationSettings.                               *)
LEMMA UpdateTypes ==
  ASSUME SettingsOK, NEW p \in Pages
  PROVE  /\ \A c \in Channels \cup {None} : UpdateKeys(p, c) => update' \in [Pages -> UpdateType]
         /\ UpdateCheck(p) \/ UpdateAdmin(p) \/ UpdateWrite(p) => update' \in [Pages -> UpdateType]
<1> DEFINE Keys(c) == [Idle EXCEPT !.pc = IF c = None THEN "write" ELSE "check", !.want = c]
           Looked  == [update[p] EXCEPT !.pc = "admin", !.valid = update[p].want \in enabled]
           Agreed  == [Idle EXCEPT !.pc = "write", !.want = update[p].want]
<1>1. update[p] \in UpdateType /\ update \in [Pages -> UpdateType] /\ None \in Channels \cup {None}
  BY DEF SettingsOK
<1>2. Idle \in UpdateType
  BY <1>1 DEF Idle, UpdateType
<1>3. update[p].want \in Channels \cup {None}
  BY <1>1 DEF UpdateType
<1>4. ASSUME NEW c \in Channels \cup {None} PROVE Keys(c) \in UpdateType
  BY <1>2 DEF UpdateType
<1>5. Looked \in UpdateType
  <2>1. (update[p].want \in enabled) \in BOOLEAN
    OBVIOUS
  <2> QED
    BY <1>1, <2>1 DEF UpdateType
<1>6. Agreed \in UpdateType
  BY <1>2, <1>3 DEF UpdateType
<1>7. \A c \in Channels \cup {None} :
         UpdateKeys(p, c) => update' = [update EXCEPT ![p] = Keys(c)]
  BY DEF UpdateKeys
<1>8. /\ UpdateCheck(p) => update' = [update EXCEPT ![p] = Looked]
      /\ UpdateAdmin(p) => update' = [update EXCEPT ![p] = Agreed] \/ update' = [update EXCEPT ![p] = Idle]
      /\ UpdateWrite(p) => update' = [update EXCEPT ![p] = Idle]
  BY DEF UpdateCheck, UpdateAdmin, UpdateWrite
<1> HIDE DEF Keys, Looked, Agreed
<1>9. \A r \in UpdateType : [update EXCEPT ![p] = r] \in [Pages -> UpdateType]
  BY <1>1
<1> QED
  BY <1>2, <1>4, <1>5, <1>6, <1>7, <1>8, <1>9

LEMMA EditStep ==
  ASSUME LoadInv, \/ \E c \in Channels : EditChannel(c)
                  \/ \E u \in Users : EditUser(u)
                  \/ \E p \in Pages : RegistrationPage(p)
  PROVE  LoadInv'
<1>0. SettingsOK /\ MaxEdits \in Nat /\ edits \in Nat
  BY BoundsAssumption DEF LoadInv, SettingsOK
<1>1. ASSUME NEW c \in Channels, EditChannel(c) PROVE LoadInv'
  <2>1. SettingsOK'
    BY <1>0, <1>1 DEF EditChannel, SettingsOK
  <2> QED
    BY <1>1, <2>1, EditsNoted DEF EditChannel
<1>2. ASSUME NEW u \in Users, EditUser(u) PROVE LoadInv'
  <2>1. SettingsOK'
    BY <1>0, <1>2 DEF EditUser, SettingsOK
  <2> QED
    BY <1>2, <2>1, EditsNoted DEF EditUser
<1>3. ASSUME NEW p \in Pages, UpdateWrite(p) PROVE LoadInv'
  <2>1. update' \in [Pages -> UpdateType]
    BY <1>0, <1>3, UpdateTypes
  <2>2. update[p].want \in Channels \cup {None}
    BY <1>0 DEF SettingsOK, UpdateType
  <2>3. SettingsOK'
    BY <1>0, <1>3, <2>1, <2>2 DEF UpdateWrite, SettingsOK
  <2> QED
    BY <1>3, <2>3, EditsNoted DEF UpdateWrite
<1>4. ASSUME NEW p \in Pages,
             (\E c \in Channels \cup {None} : UpdateKeys(p, c)) \/ UpdateCheck(p) \/ UpdateAdmin(p)
      PROVE  LoadInv'
  <2>1. update' \in [Pages -> UpdateType]
    BY <1>0, <1>4, UpdateTypes
  <2>2. UNCHANGED <<admins, enabled, chosen, load, during, missed>> /\ edits' \in 0..MaxEdits
    <3>1. /\ UNCHANGED <<admins, enabled, chosen, load, during, missed>>
          /\ edits' = edits \/ (edits < MaxEdits /\ edits' = edits + 1)
      BY <1>4 DEF UpdateKeys, UpdateCheck, UpdateAdmin
    <3>2. edits \in 0..MaxEdits
      BY <1>0 DEF SettingsOK
    <3> QED
      BY <1>0, <3>1, <3>2
  <2>3. SettingsOK'
    BY <1>0, <2>1, <2>2 DEF SettingsOK
  <2>4. PrimaryAdmin' = PrimaryAdmin
    BY <2>2 DEF PrimaryAdmin
  <2> QED
    BY <2>2, <2>3, <2>4 DEF LoadInv, LoadsOK, MissedOK, Lived, Learnt, SteadyOf
<1> QED
  BY <1>1, <1>2, <1>3, <1>4 DEF RegistrationPage

(* The other loads do not notice a step of a load.                         *)
LEMMA OtherLoads ==
  ASSUME LoadInv, NEW l \in Loads, NEW place, NEW admin, NEW id, LoadIs(l, place, admin, id),
         UNCHANGED <<admins, enabled, chosen, update, edits>>,
         during' \in [Loads -> DuringType],
         MissedOK', \A m \in Loads : m # l => during'[m] = during[m] /\ missed'[m] = missed[m],
         place # "idle" => Lived(l)' /\ Learnt(l)'
  PROVE  LoadInv'
<1>1. SettingsOK' /\ LoadsOK'
  BY DEF LoadInv, SettingsOK, LoadsOK, LoadIs
<1>2. PrimaryAdmin' = PrimaryAdmin
  BY DEF PrimaryAdmin
<1>3. ASSUME NEW m \in Loads, m # l, load'[m].pc # "idle" PROVE Lived(m)' /\ Learnt(m)'
  <2>1. load'[m] = load[m] /\ during'[m] = during[m] /\ missed'[m] = missed[m]
    BY <1>3 DEF LoadIs
  <2>2. Lived(m) /\ Learnt(m)
    BY <1>3, <2>1 DEF LoadInv
  <2>3. Lived(m)'
    BY <1>2, <2>1, <2>2 DEF Lived
  <2>4. Learnt(m)'
    BY <2>1, <2>2 DEF Learnt, SteadyOf
  <2> QED
    BY <2>3, <2>4
<1>4. load'[l].pc = place
  BY DEF LoadIs
<1> QED
  BY <1>1, <1>3, <1>4 DEF LoadInv

LEMMA LoadStep ==
  ASSUME LoadInv, NEW l \in Loads, LoadServiceMailChannel(l)
  PROVE  LoadInv'
<1>0. /\ SettingsOK /\ LoadsOK /\ PrimaryAdmin \in Users /\ chosen \in Channels \cup {None}
      /\ during \in [Loads -> DuringType] /\ load[l].pc \in LoadPlaces
  BY AdminIsUser, LoadFields DEF LoadInv, SettingsOK, LoadsOK, PrimaryAdmin
<1>1. CASE ReadAdmin(l)
  <2> DEFINE r == [Rest EXCEPT !.pc = "setting", !.admin = PrimaryAdmin]
             d == [enabled |-> enabled, steady |-> enabled,
                   primary |-> {PrimaryAdmin}, chosen |-> {chosen}]
  <2>1. r \in LoadType /\ r.pc = "setting" /\ r.admin = PrimaryAdmin
    <3>1. Rest \in LoadType
      BY DEF Rest, LoadType, LoadPlaces
    <3> QED
      BY <1>0, <3>1 DEF LoadType, LoadPlaces
  <2>2. /\ d \in DuringType /\ d.enabled = enabled /\ d.steady = enabled
        /\ d.primary = {PrimaryAdmin} /\ d.chosen = {chosen}
    BY <1>0 DEF DuringType, SettingsOK
  <2>3. load' = [load EXCEPT ![l] = r] /\ during' = [during EXCEPT ![l] = d]
    BY <1>1 DEF ReadAdmin
  <2> HIDE DEF r, d
  <2>4. LoadIs(l, r.pc, r.admin, r.id) /\ UNCHANGED <<admins, enabled, chosen, update, missed, edits>>
    BY <1>0, <1>1, <2>1, <2>3, LoadSet DEF ReadAdmin
  <2>5. /\ during' \in [Loads -> DuringType] /\ during'[l] = d
        /\ \A m \in Loads : m # l => during'[m] = during[m]
    BY <1>0, <2>2, <2>3
  <2>6. PrimaryAdmin' = PrimaryAdmin
    BY <2>4 DEF PrimaryAdmin
  <2>7. Lived(l)' /\ Learnt(l)'
    BY <2>1, <2>2, <2>4, <2>5, <2>6 DEF Lived, Learnt, LoadIs
  <2>8. MissedOK' /\ \A m \in Loads : missed'[m] = missed[m]
    BY <2>4 DEF LoadInv, MissedOK
  <2> QED
    BY <2>4, <2>5, <2>7, <2>8, OtherLoads
<1>2. ASSUME NEW place \in LoadPlaces, NEW id, load[l].pc \in {"setting", "look", "list"},
             LoadIs(l, place, load[l].admin, id),
             UNCHANGED <<admins, enabled, chosen, update, during, edits>>,
             Answered \/ Passed(l), Lived(l) => Learnt(l)'
      PROVE  LoadInv'
  <2>1. Lived(l)
    BY <1>2 DEF LoadInv
  <2>2. PrimaryAdmin' = PrimaryAdmin
    BY <1>2 DEF PrimaryAdmin
  <2>3. Lived(l)'
    BY <1>2, <2>1, <2>2 DEF Lived, LoadIs
  <2>4. during' \in [Loads -> DuringType] /\ \A m \in Loads : during'[m] = during[m]
    BY <1>0, <1>2
  <2>5. MissedOK' /\ \A m \in Loads : m # l => missed'[m] = missed[m]
    <3>1. missed \in [Loads -> SUBSET {"setting", "look", "list"}]
      BY DEF LoadInv, MissedOK
    <3>2. load[l].pc \in {"setting", "look", "list"} \/ Answered
      BY <1>2
    <3> QED
      BY <1>2, <3>1, <3>2 DEF MissedOK, Answered, Passed
  <2> QED
    BY <1>2, <2>1, <2>3, <2>4, <2>5, OtherLoads
<1>M. /\ Answered => missed' = missed
      /\ Passed(l) => missed'[l] = missed[l] \cup {load[l].pc}
  BY DEF Answered, Passed, LoadInv, MissedOK
<1>3. CASE ReadSetting(l)
  <2>1. PICK read \in {chosen, None} :
          /\ \/ read = chosen /\ Answered
             \/ read = None /\ Passed(l)
          /\ load' = [load EXCEPT ![l].pc = IF read = None THEN "list" ELSE "look",
                                  ![l].id = read]
    BY <1>3 DEF ReadSetting
  <2>2. load[l].pc = "setting" /\ UNCHANGED <<admins, enabled, chosen, update, during, edits>>
    BY <1>3 DEF ReadSetting
  <2>3. PICK place \in {"list", "look"} : /\ place = IF read = None THEN "list" ELSE "look"
                                          /\ LoadIs(l, place, load[l].admin, read)
    BY <1>0, <2>1, LoadReads DEF LoadPlaces
  <2>4. ASSUME Lived(l) PROVE Learnt(l)'
    <3>1. chosen \in during[l].chosen /\ during[l].steady \subseteq Channels /\ None \notin Channels
      BY <1>0, <2>4, LoadFields DEF Lived, Channels, None
    <3>2. chosen = None => \A c \in during[l].steady : during[l].chosen # {c}
      BY <3>1
    <3>3. CASE Answered
      BY <1>M, <2>1, <2>2, <2>3, <3>1, <3>2, <3>3 DEF Learnt, LoadIs, SteadyOf
    <3>4. CASE Passed(l) /\ read = None
      BY <1>M, <2>2, <2>3, <3>4 DEF Learnt, LoadIs
    <3>5. read = chosen /\ chosen # None => Answered
      BY <2>1
    <3> QED
      BY <2>1, <3>3, <3>4
  <2>5. place \in LoadPlaces
    BY DEF LoadPlaces
  <2> QED
    BY <1>2, <2>1, <2>2, <2>3, <2>4, <2>5
<1>4. CASE LookUpChosen(l)
  <2>1. PICK place \in {"send", "list"} :
          /\ load' = [load EXCEPT ![l].pc = place]
          /\ \/ Answered /\ place = IF Usable(l, load[l].id) THEN "send" ELSE "list"
             \/ Passed(l) /\ place = "list"
    BY <1>4 DEF LookUpChosen
  <2>2. load[l].pc = "look" /\ UNCHANGED <<admins, enabled, chosen, update, during, edits>>
    BY <1>4 DEF LookUpChosen
  <2>3. place \in LoadPlaces /\ LoadIs(l, place, load[l].admin, load[l].id)
    BY <1>0, <2>1, LoadGoes DEF LoadPlaces
  <2>4. ASSUME Lived(l) PROVE Learnt(l)'
    <3>1. /\ load[l].id \in during[l].chosen /\ load[l].admin \in during[l].primary
          /\ enabled \subseteq during[l].enabled /\ during[l].steady \subseteq enabled
      BY <2>2, <2>4 DEF LoadInv, Learnt, Lived
    <3>2. CASE place = "send"
      <4>1. place = "send" /\ load[l].id \in enabled /\ OwnerOf[load[l].id] = load[l].admin
        BY <2>1, <3>2 DEF Usable
      <4>2. \A c : during[l].chosen = {c} => load[l].id = c
        BY <3>1
      <4> QED
        BY <2>2, <2>3, <3>1, <4>1, <4>2 DEF Learnt, LoadIs
    <3>3. CASE ~Usable(l, load[l].id) /\ place = "list"
      <4>1. ASSUME NEW u \in Users, during[l].primary = {u}, NEW c \in SteadyOf(l, u),
                   during[l].chosen = {c}
            PROVE  FALSE
        BY <3>1, <3>3, <4>1 DEF Usable, SteadyOf
      <4>2. \A u : SteadyOf(l, u)' = SteadyOf(l, u)
        BY <2>2 DEF SteadyOf
      <4> QED
        BY <2>2, <2>3, <3>3, <4>1, <4>2 DEF Learnt, LoadIs
    <3>4. CASE Passed(l) /\ place = "list"
      BY <1>M, <2>2, <2>3, <3>4 DEF Learnt, LoadIs
    <3> QED
      BY <2>1, <3>2, <3>3, <3>4
  <2> QED
    BY <1>2, <2>1, <2>2, <2>3, <2>4
<1>5. CASE ListChannels(l)
  <2>1. PICK listed \in SUBSET Channels :
          /\ \/ listed = {c \in Channels : Usable(l, c)} /\ Answered
             \/ listed = {} /\ Passed(l)
          /\ load' = [load EXCEPT ![l].pc = IF listed = {} THEN "failed" ELSE "send",
                                  ![l].id = IF listed = {} THEN None ELSE First(listed)]
    BY <1>5 DEF ListChannels
  <2>2. load[l].pc = "list" /\ UNCHANGED <<admins, enabled, chosen, update, during, edits>>
    BY <1>5 DEF ListChannels
  <2>3. listed # {} => First(listed) \in listed
    BY FirstOf DEF Channels
  <2>4. PICK place \in LoadPlaces, id \in Channels \cup {None} :
          /\ IF listed = {} THEN place = "failed" ELSE place = "send" /\ id \in listed
          /\ load' = [load EXCEPT ![l].pc = place, ![l].id = id]
    BY <2>1, <2>3 DEF LoadPlaces
  <2>5. LoadIs(l, place, load[l].admin, id)
    BY <1>0, <2>4, LoadReads
  <2>6. ASSUME Lived(l) PROVE Learnt(l)'
    <3>1. /\ load[l].admin \in during[l].primary
          /\ enabled \subseteq during[l].enabled /\ during[l].steady \subseteq enabled
      BY <2>6 DEF Lived
    <3>2. \A u : SteadyOf(l, u)' = SteadyOf(l, u)
      BY <2>2 DEF SteadyOf
    <3>3. CASE listed = {c \in Channels : Usable(l, c)} /\ listed = {}
      <4>1. ASSUME NEW u \in Users, during[l].primary = {u} PROVE SteadyOf(l, u) = {}
        BY <1>0, <3>1, <3>3, <4>1 DEF Usable, SteadyOf, SettingsOK
      <4> QED
        BY <2>2, <2>4, <2>5, <3>2, <3>3, <4>1 DEF Learnt, LoadIs
    <3>4. CASE listed # {}
      <4>0. listed = {c \in Channels : Usable(l, c)} /\ missed' = missed
        BY <1>M, <2>1, <3>4
      <4>1. id \in enabled /\ OwnerOf[id] = load[l].admin
        BY <2>4, <3>4, <4>0 DEF Usable
      <4>2. missed[l] = {} => \A u \in Users : during[l].primary = {u} =>
               \A c \in SteadyOf(l, u) : during[l].chosen # {c}
        BY <2>2 DEF LoadInv, Learnt
      <4>3. load'[l].pc = "send" /\ load'[l].id = id /\ load'[l].admin = load[l].admin
        BY <2>4, <2>5, <3>4 DEF LoadIs
      <4> QED
        BY <2>2, <3>1, <3>2, <4>0, <4>1, <4>2, <4>3 DEF Learnt
    <3>5. CASE listed = {} /\ Passed(l)
      <4>1. "list" \in missed'[l] /\ load'[l].pc = "failed"
        BY <1>M, <2>2, <2>4, <2>5, <3>5 DEF LoadIs
      <4> QED
        BY <4>1 DEF Learnt
    <3> QED
      BY <2>1, <3>3, <3>4, <3>5
  <2> QED
    BY <1>2, <2>1, <2>2, <2>5, <2>6
<1>6. CASE Finish(l)
  <2>1. Rest \in LoadType /\ Rest.pc = "idle" /\ Nothing \in DuringType
    BY DEF Rest, LoadType, LoadPlaces, Nothing, DuringType
  <2>2. /\ load' = [load EXCEPT ![l] = Rest] /\ during' = [during EXCEPT ![l] = Nothing]
        /\ missed' = [missed EXCEPT ![l] = {}]
        /\ UNCHANGED <<admins, enabled, chosen, update, edits>>
    BY <1>6 DEF Finish
  <2>3. LoadIs(l, Rest.pc, Rest.admin, Rest.id)
    BY <1>0, <2>1, <2>2, LoadSet
  <2>4. during' \in [Loads -> DuringType] /\ \A m \in Loads : m # l => during'[m] = during[m]
    BY <1>0, <2>1, <2>2
  <2>5. MissedOK' /\ \A m \in Loads : m # l => missed'[m] = missed[m]
    BY <2>2 DEF LoadInv, MissedOK
  <2> QED
    BY <2>1, <2>2, <2>3, <2>4, <2>5, OtherLoads
<1> QED
  BY <1>1, <1>3, <1>4, <1>5, <1>6 DEF LoadServiceMailChannel

LEMMA LoadNext == LoadInv /\ [Next]_vars => LoadInv'
<1> SUFFICES ASSUME LoadInv, [Next]_vars PROVE LoadInv'
  OBVIOUS
<1>1. CASE UNCHANGED <<admins, enabled, chosen, update, load, during, missed, edits>>
  <2>1. PrimaryAdmin' = PrimaryAdmin
    BY <1>1 DEF PrimaryAdmin
  <2> QED
    BY <1>1, <2>1 DEF LoadInv, SettingsOK, LoadsOK, MissedOK, Lived, Learnt, SteadyOf
<1>2. CASE \/ \E c \in Channels : EditChannel(c)
           \/ \E u \in Users : EditUser(u)
           \/ \E p \in Pages : RegistrationPage(p)
  BY <1>2, EditStep
<1>3. CASE \E l \in Loads : LoadServiceMailChannel(l)
  BY <1>3, LoadStep
<1>4. \A p \in Pages : SitePage(p) => UNCHANGED <<admins, enabled, chosen, update, load, during, missed, edits>>
  BY DEF SitePage, OpenPage, RemoveLogo, UploadRead, UploadCreate, UploadDelete, SaveRead,
         SaveWrite, SaveCleanup, mail
<1>5. Tick \/ UNCHANGED vars => UNCHANGED <<admins, enabled, chosen, update, load, during, missed, edits>>
  BY DEF Tick, vars, mail
<1> QED
  BY <1>1, <1>2, <1>3, <1>4, <1>5 DEF Next

LEMMA LoadInit == Init => LoadInv
<1> SUFFICES ASSUME Init PROVE LoadInv
  OBVIOUS
<1>1. First(Users) \in Users /\ MaxEdits \in Nat
  BY AdminIsUser, BoundsAssumption
<1>2. Idle \in UpdateType /\ Rest \in LoadType /\ Rest.pc = "idle" /\ Nothing \in DuringType
  BY DEF Idle, UpdateType, Rest, LoadType, LoadPlaces, Nothing, DuringType
<1>3. SettingsOK
  BY <1>1, <1>2 DEF Init, SettingsOK
<1>4. LoadsOK /\ \A l \in Loads : load[l] = Rest
  BY <1>2 DEF Init, LoadsOK
<1>5. MissedOK
  BY DEF Init, MissedOK
<1> QED
  BY <1>2, <1>3, <1>4, <1>5 DEF LoadInv

-----------------------------------------------------------------------------
(* A service mail is sent over a channel that was enabled, and belonged to *)
(* the primary administrator, while it was loaded (loadServiceMailChannel),*)
(* whatever administrators edit meanwhile.                                 *)
THEOREM MailsGoOverAdminsChannels == Spec => []ChannelOfAdmin
<1>1. LoadInv => ChannelOfAdmin
  <2> SUFFICES ASSUME LoadInv, NEW l \in Loads, load[l].pc = "send"
               PROVE  /\ load[l].id \in during[l].enabled
                      /\ OwnerOf[load[l].id] \in during[l].primary
    BY DEF ChannelOfAdmin
  <2> QED
    BY DEF LoadInv, Lived, Learnt
<1> QED
  BY <1>1, LoadInit, LoadNext, PTL DEF Spec

(* With the primary administrator steady, a service mail finds one of the  *)
(* channels that stayed enabled unless they could not be listed, and the   *)
(* chosen one if it stayed chosen and every statement was answered.        *)
THEOREM SteadyChannelsAreFound == Spec => []FoundWhenSteady
<1>1. LoadInv => FoundWhenSteady
  <2> SUFFICES ASSUME LoadInv, NEW l \in Loads, NEW u \in Users, during[l].primary = {u}
               PROVE  /\ load[l].pc = "failed" /\ "list" \notin missed[l] => SteadyOf(l, u) = {}
                      /\ load[l].pc = "send" /\ missed[l] = {} =>
                            \A c \in SteadyOf(l, u) : during[l].chosen = {c} => load[l].id = c
    BY DEF FoundWhenSteady, SteadyOf
  <2> QED
    BY DEF LoadInv, Learnt
<1> QED
  BY <1>1, LoadInit, LoadNext, PTL DEF Spec
-----------------------------------------------------------------------------
(* Both halves, and the failures they share, keep their types.             *)
THEOREM TypeCorrect == Spec => []TypeOK
<1> DEFINE FaultsOK == faults \in 0..MaxFaults
<1>1. Init => FaultsOK
  BY BoundsAssumption DEF Init
<1>2. FaultsOK /\ [Next]_vars => FaultsOK'
  <2> SUFFICES ASSUME faults \in 0..MaxFaults, [Next]_vars PROVE faults' \in 0..MaxFaults
    OBVIOUS
  <2>1. faults' = faults \/ Faulty
    BY DEF Next, vars, mail, site, Tick, EditChannel, EditUser,
           SitePage, OpenPage, RemoveLogo, UploadRead, UploadCreate, UploadDelete, SaveRead,
           SaveWrite, SaveCleanup, RegistrationPage, UpdateKeys, UpdateCheck, UpdateAdmin,
           UpdateWrite, LoadServiceMailChannel, ReadAdmin, ReadSetting, LookUpChosen,
           ListChannels, Finish, GetSetting, Answered, Passed
  <2> QED
    BY <2>1, BoundsAssumption DEF Faulty
<1>3. SiteInv /\ LoadInv /\ FaultsOK => TypeOK
  BY DEF SiteInv, SiteOK, PagesOK, PageType, PagePlaces, Names, LoadInv, SettingsOK, LoadsOK, MissedOK,
         LoadType, LoadPlaces, UpdateType, DuringType, TypeOK
<1> QED
  BY <1>1, <1>2, <1>3, SiteInit, SiteStep, LoadInit, LoadNext, PTL DEF Spec
=============================================================================
