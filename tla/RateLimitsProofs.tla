--------------------------- MODULE RateLimitsProofs ---------------------------
(***************************************************************************)
(* Theorems about RateLimits for every number of requests, addresses and   *)
(* forms and every choice of the limits and spans.                         *)
(***************************************************************************)
EXTENDS RateLimits, FiniteSetTheorems, TLAPS

USE LimitsAssumption, TimesAssumption DEF Ids, Never

(* The clock and the entries of the form limiter, on their own.            *)
Counter == [minuteCount : Nat, minuteStart : Nat,
            hourCount : Nat, hourStart : Nat]
RateOK == now \in Nat /\ rate \in [Keys -> Counter]

Agree(e) == e.hourCount = e.minuteCount /\ e.hourStart = e.minuteStart

LEMMA CountedType ==
  ASSUME NEW e \in Counter, Agree(e)
  PROVE  Counted(e) \in Counter /\ Agree(Counted(e))
  BY DEF Counted, Counter, Agree

(* An entry that is counted in stays an entry, and its counters agree: the *)
(* hour can only be over when the minute is, and then the entry is new.    *)
LEMMA CountedAgrees ==
  ASSUME RateOK, HourCounterIsMinuteCounter, NEW k \in Keys
  PROVE  LET e == Counted(HourElapsed(CurrentEntry(k))) IN e \in Counter /\ Agree(e)
<1> DEFINE c == CurrentEntry(k)
<1>1. c \in Counter /\ Agree(c) /\ now - c.hourStart < Minute
  <2>1. CASE rate[k].minuteStart = Never \/ now - rate[k].minuteStart >= Minute
    BY <2>1 DEF CurrentEntry, Counter, Agree, RateOK
  <2>2. CASE ~(rate[k].minuteStart = Never \/ now - rate[k].minuteStart >= Minute)
    <3>1. c = rate[k]
      BY <2>2 DEF CurrentEntry
    <3>2. rate[k] \in Counter /\ Agree(rate[k])
      BY DEF RateOK, HourCounterIsMinuteCounter, Agree
    <3>3. now - rate[k].minuteStart < Minute
      BY <2>2, <3>2 DEF Counter, RateOK
    <3> QED  BY <3>1, <3>2, <3>3 DEF Agree
  <2> QED  BY <2>1, <2>2
<1> HIDE DEF c
<1>2. HourElapsed(c) = c
  BY <1>1 DEF HourElapsed, Counter, RateOK
<1>3. Counted(c) \in Counter /\ Agree(Counted(c))
  BY <1>1, CountedType
<1> QED  BY <1>2, <1>3 DEF c

LEMMA PurgedAgrees ==
  ASSUME NEW store \in [Keys -> Counter], \A k \in Keys : Agree(store[k])
  PROVE  Purged(store) \in [Keys -> Counter] /\ \A k \in Keys : Agree(Purged(store)[k])
<1>1. NoEntry \in Counter /\ Agree(NoEntry)
  BY DEF NoEntry, Counter, Agree
<1>2. CASE Cardinality({k \in Keys : store[k].minuteStart # Never}) > StoreCap
  BY <1>1, <1>2 DEF Purged
<1>3. CASE ~(Cardinality({k \in Keys : store[k].minuteStart # Never}) > StoreCap)
  BY <1>3 DEF Purged
<1> QED  BY <1>2, <1>3

(* The hourly counter never counts more than the minute counter: a theorem *)
(* for all limits, and the reason why the hourly limit has no effect.      *)
THEOREM HourCounterUseless == Spec => []HourCounterIsMinuteCounter
<1> DEFINE Inv == RateOK /\ HourCounterIsMinuteCounter
<1>1. Init => Inv
  BY DEF Init, RateOK, Counter, NoEntry, HourCounterIsMinuteCounter
<1>2. Inv /\ [Next]_vars => Inv'
  <2> SUFFICES ASSUME Inv, [Next]_vars PROVE Inv'
    OBVIOUS
  <2>1. ASSUME UNCHANGED rate, now' \in Nat PROVE Inv'
    BY <2>1 DEF RateOK, HourCounterIsMinuteCounter
  <2>2. ASSUME NEW q \in Ids, CheckFormRateLimit(q) PROVE Inv'
    <3> DEFINE e == Counted(HourElapsed(CurrentEntry(Key(q))))
               store == [rate EXCEPT ![Key(q)] = e]
    <3>1. rate' = Purged(store) /\ now' = now
      BY <2>2 DEF CheckFormRateLimit
    <3>2. Key(q) \in Keys => e \in Counter /\ Agree(e)
      BY CountedAgrees
    <3> HIDE DEF e
    <3>3. store \in [Keys -> Counter] /\ \A k \in Keys : Agree(store[k])
      BY <3>2 DEF RateOK, HourCounterIsMinuteCounter, Agree
    <3> HIDE DEF store
    <3>4. Purged(store) \in [Keys -> Counter] /\ \A k \in Keys : Agree(Purged(store)[k])
      BY <3>3, PurgedAgrees
    <3> QED  BY <3>1, <3>4 DEF RateOK, HourCounterIsMinuteCounter, Agree
  <2>3. CASE Tick
    BY <2>1, <2>3 DEF Tick, RateOK
  <2>4. ASSUME NEW q \in Ids, Check(q) PROVE Inv'
    <3>1. CASE RouteCheck(q)
      BY <2>1, <3>1 DEF RouteCheck, RateOK
    <3>2. CASE CheckRateLimit(q)
      BY <2>1, <3>2 DEF CheckRateLimit, RateOK
    <3>3. CASE OtherCheck(q)
      BY <2>1, <3>3 DEF OtherCheck, RateOK
    <3>4. CASE CheckDuplicateSubmit(q)
      BY <2>1, <3>4 DEF CheckDuplicateSubmit, RateOK
    <3> QED  BY <2>2, <2>4, <3>1, <3>2, <3>3, <3>4 DEF Check
  <2>5. ASSUME NEW a \in Ips, NEW f \in Forms, NEW d \in Contents, Arrive(a, f, d)
        PROVE  Inv'
    BY <2>1, <2>5 DEF Arrive, RateOK
  <2>6. CASE Cleanup
    BY <2>1, <2>6 DEF Cleanup, RateOK
  <2>7. CASE UNCHANGED vars
    BY <2>1, <2>7 DEF vars, RateOK
  <2> QED  BY <2>3, <2>4, <2>5, <2>6, <2>7 DEF Next
<1> QED  BY <1>1, <1>2, PTL DEF Spec

-----------------------------------------------------------------------------
(* What the spacing rests on: a request is stamped once, when it passes,   *)
(* and an address's last time is at least that of each request of it that  *)
(* passed, unless it was forgotten when all of them were older than Keep.  *)
GapTypes ==
  /\ now \in Nat \ {0}
  /\ arrived \in Nat
  /\ pc \in [Ids -> Places] /\ ip \in [Ids -> Ips]
  /\ last \in [Ips -> Nat]
  /\ at \in [Ids -> [Checks -> Nat]]

StampedLate ==
  \A q \in Ids :
      /\ q > arrived => pc[q] = "none"
      /\ pc[q] \in {"none", "route", "gap"} => at[q]["gap"] = Never

Remembered ==
  \A q \in Ids :
      at[q]["gap"] # Never =>
          /\ at[q]["gap"] <= now
          /\ \/ last[ip[q]] # Never /\ at[q]["gap"] <= last[ip[q]]
             \/ last[ip[q]] = Never /\ now - at[q]["gap"] > Keep

GapInv == GapTypes /\ StampedLate /\ Remembered /\ Spaced

LEMMA StampsAreTimes ==
  ASSUME GapTypes, NEW q \in Ids
  PROVE  at[q]["gap"] \in Nat /\ ip[q] \in Ips /\ last[ip[q]] \in Nat
  BY DEF GapTypes, Checks

(* A stamp changes one entry of at.                                        *)
LEMMA Stamped ==
  ASSUME GapTypes, NEW q \in Ids, NEW check \in Checks,
         at' = [at EXCEPT ![q][check] = now]
  PROVE  /\ at' \in [Ids -> [Checks -> Nat]]
         /\ \A p \in Ids : at'[p]["gap"] =
               IF p = q /\ check = "gap" THEN now ELSE at[p]["gap"]
  BY DEF GapTypes, Checks

(* A step that stamps nobody and touches neither addresses nor last times. *)
LEMMA GapUntouched ==
  ASSUME GapInv, GapTypes', StampedLate', UNCHANGED <<ip, last>>, now' >= now,
         \A q \in Ids : at'[q]["gap"] = at[q]["gap"]
  PROVE  GapInv'
<1>1. Remembered'
  <2> SUFFICES ASSUME NEW q \in Ids, at[q]["gap"] # Never
               PROVE  /\ at[q]["gap"] <= now'
                      /\ \/ last[ip[q]] # Never /\ at[q]["gap"] <= last[ip[q]]
                         \/ last[ip[q]] = Never /\ now' - at[q]["gap"] > Keep
    BY DEF Remembered
  <2>1. at[q]["gap"] \in Nat /\ last[ip[q]] \in Nat /\ now \in Nat /\ now' \in Nat
    BY StampsAreTimes DEF GapInv, GapTypes
  <2> QED  BY <2>1 DEF GapInv, Remembered
<1>2. Spaced'
  BY DEF GapInv, Spaced, Passed
<1> QED  BY <1>1, <1>2 DEF GapInv

(* A request moves on from where it is, without a stamp of the spacing.    *)
LEMMA Moved ==
  ASSUME GapInv, NEW q \in Ids, pc[q] \in Checks, NEW next \in Places \ {"none"},
         next \in {"route", "gap"} => pc[q] = "route",
         pc' = [pc EXCEPT ![q] = next], UNCHANGED <<now, arrived, ip, last>>,
         at' \in [Ids -> [Checks -> Nat]],
         \A p \in Ids : at'[p]["gap"] = at[p]["gap"]
  PROVE  GapInv'
<1>1. GapTypes'
  BY DEF GapInv, GapTypes
<1>2. pc'[q] = next /\ \A p \in Ids : p # q => pc'[p] = pc[p]
  BY DEF GapInv, GapTypes
<1>3. StampedLate'
  <2>1. q <= arrived
    <3>1. pc[q] # "none"
      BY DEF Checks
    <3>2. q \in Nat /\ arrived \in Nat
      BY DEF GapInv, GapTypes
    <3> QED  BY <3>1, <3>2 DEF GapInv, StampedLate
  <2> QED  BY <1>2, <2>1 DEF GapInv, GapTypes, StampedLate
<1>4. now' >= now
  BY DEF GapInv, GapTypes
<1> QED  BY <1>1, <1>3, <1>4, GapUntouched

LEMMA Refused ==
  ASSUME GapInv, NEW q \in Ids, pc[q] \in Checks,
         NEW why \in {"limited", "tooSoon", "tooMany", "duplicate", "other"},
         Refuse(q, why), UNCHANGED <<now, arrived, ip, last>>
  PROVE  GapInv'
<1>1. why \in Places \ {"none"} /\ why \notin {"route", "gap"}
  BY DEF Places
<1>2. at' \in [Ids -> [Checks -> Nat]] /\ \A p \in Ids : at'[p]["gap"] = at[p]["gap"]
  BY DEF Refuse, GapInv, GapTypes
<1>3. pc' = [pc EXCEPT ![q] = why]
  BY DEF Refuse
<1> QED  BY <1>1, <1>2, <1>3, Moved

LEMMA PassedOther ==
  ASSUME GapInv, NEW q \in Ids, NEW check \in {"route", "rate", "dedup"}, pc[q] = check,
         NEW next \in Places \ {"none"}, next \in {"route", "gap"} => check = "route",
         Pass(q, check, next), UNCHANGED <<now, arrived, ip, last>>
  PROVE  GapInv'
<1>1. check \in Checks /\ check # "gap"
  BY DEF Checks
<1>2. at' = [at EXCEPT ![q][check] = now] /\ pc' = [pc EXCEPT ![q] = next]
  BY DEF Pass
<1>3. at' \in [Ids -> [Checks -> Nat]] /\ \A p \in Ids : at'[p]["gap"] = at[p]["gap"]
  <2>1. GapTypes
    BY DEF GapInv
  <2>2. /\ at' \in [Ids -> [Checks -> Nat]]
        /\ \A p \in Ids : at'[p]["gap"] =
              IF p = q /\ check = "gap" THEN now ELSE at[p]["gap"]
    BY <1>1, <1>2, <2>1, Stamped
  <2> QED  BY <1>1, <2>2
<1> QED  BY <1>1, <1>2, <1>3, Moved

(* Two submissions of one address pass the spacing check at least Gap      *)
(* apart, for every number of requests and any interleaving of them with   *)
(* the clock and the cleanup.                                              *)
THEOREM SubmissionsAreSpaced == Spec => []Spaced
<1>1. Init => GapInv
  <2> SUFFICES ASSUME Init PROVE GapInv
    OBVIOUS
  <2>1. \A q \in Ids : at[q]["gap"] = Never
    BY DEF Init, Checks
  <2>2. at \in [Ids -> [Checks -> Nat]]
    BY DEF Init
  <2>3. GapTypes
    <3>1. Ips # {} => (CHOOSE a \in Ips : TRUE) \in Ips
      OBVIOUS
    <3>2. Ips # {}
      BY SomeAddress
    <3> QED  BY <2>2, <3>1, <3>2 DEF Init, GapTypes, Places
  <2>4. StampedLate /\ Remembered /\ Spaced
    BY <2>1 DEF Init, StampedLate, Remembered, Spaced, Passed
  <2> QED  BY <2>3, <2>4 DEF GapInv
<1>2. GapInv /\ [Next]_vars => GapInv'
  <2> SUFFICES ASSUME GapInv, [Next]_vars PROVE GapInv'
    OBVIOUS
  <2>1. CASE UNCHANGED vars
    BY <2>1 DEF vars, GapInv, GapTypes, StampedLate, Remembered, Spaced, Passed
  <2>2. CASE Tick
    <3>1. GapTypes' /\ StampedLate' /\ now' >= now
      BY <2>2 DEF Tick, GapInv, GapTypes, StampedLate
    <3> QED  BY <2>2, <3>1, GapUntouched DEF Tick
  <2>3. ASSUME NEW a \in Ips, NEW f \in Forms, NEW d \in Contents, Arrive(a, f, d)
        PROVE  GapInv'
    <3> DEFINE n == arrived + 1
    <3>1. n \in Ids /\ pc[n] = "none" /\ at[n]["gap"] = Never
      BY <2>3 DEF Arrive, GapInv, GapTypes, StampedLate
    <3>2. GapTypes'
      <4>1. "route" \in Places
        BY DEF Places, Checks
      <4>2. pc' = [pc EXCEPT ![n] = "route"] /\ ip' = [ip EXCEPT ![n] = a]
        BY <2>3 DEF Arrive
      <4>3. UNCHANGED <<now, last, at>> /\ arrived' = n
        BY <2>3 DEF Arrive
      <4>4. n \in Nat
        BY DEF GapInv, GapTypes
      <4> HIDE DEF n
      <4> QED  BY <3>1, <4>1, <4>2, <4>3, <4>4 DEF GapInv, GapTypes
    <3>3. \A q \in Ids : /\ at'[q]["gap"] = at[q]["gap"]
                         /\ q # n => ip'[q] = ip[q] /\ pc'[q] = pc[q]
      BY <2>3 DEF Arrive, GapInv, GapTypes
    <3>4. UNCHANGED <<now, last>> /\ arrived' = n /\ arrived \in Nat
      BY <2>3 DEF Arrive, GapInv, GapTypes
    <3>5. StampedLate'
      <4> SUFFICES ASSUME NEW q \in Ids
                   PROVE  /\ q > n => pc'[q] = "none"
                          /\ pc'[q] \in {"none", "route", "gap"} => at[q]["gap"] = Never
        BY <3>3, <3>4 DEF StampedLate
      <4>1. CASE q = n
        BY <4>1, <3>1, <3>4
      <4>2. CASE q # n
        BY <4>2, <3>3, <3>4 DEF GapInv, StampedLate
      <4> QED  BY <4>1, <4>2
    <3> HIDE DEF n
    <3>6. Remembered'
      BY <3>1, <3>3, <3>4 DEF GapInv, Remembered
    <3>7. Spaced'
      BY <3>1, <3>3, <3>4 DEF GapInv, Spaced, Passed
    <3> QED  BY <3>2, <3>5, <3>6, <3>7 DEF GapInv
  <2>4. CASE Cleanup
    <3>1. StampedLate' /\ Spaced' /\ UNCHANGED <<now, ip, at>>
      BY <2>4 DEF Cleanup, GapInv, StampedLate, Spaced, Passed
    <3>2. \A a \in Ips : last'[a] = IF now - last[a] > Keep THEN Never ELSE last[a]
      BY <2>4 DEF Cleanup
    <3>3. last' \in [Ips -> Nat]
      BY <2>4 DEF Cleanup, GapInv, GapTypes
    <3>4. GapTypes'
      BY <2>4, <3>3 DEF Cleanup, GapInv, GapTypes
    <3>5. Remembered'
      <4> SUFFICES ASSUME NEW q \in Ids, at[q]["gap"] # Never
                   PROVE  /\ at[q]["gap"] <= now
                          /\ \/ last'[ip[q]] # Never /\ at[q]["gap"] <= last'[ip[q]]
                             \/ last'[ip[q]] = Never /\ now - at[q]["gap"] > Keep
        BY <3>1 DEF Remembered
      <4>1. /\ at[q]["gap"] \in Nat /\ last[ip[q]] \in Nat /\ now \in Nat
            /\ ip[q] \in Ips
        BY StampsAreTimes DEF GapInv, GapTypes
      <4> QED  BY <3>2, <4>1 DEF GapInv, Remembered
    <3> QED  BY <3>1, <3>4, <3>5 DEF GapInv
  <2>5. ASSUME NEW q \in Ids, RouteCheck(q) PROVE GapInv'
    <3>1. pc[q] = "route" /\ UNCHANGED <<now, arrived, ip, last>>
      BY <2>5 DEF RouteCheck
    <3>2. Refuse(q, "limited") \/ Pass(q, "route", "gap")
      BY <2>5 DEF RouteCheck
    <3>3. pc[q] \in Checks /\ "gap" \in Places \ {"none"}
      BY <3>1 DEF Checks, Places
    <3> QED  BY <3>1, <3>2, <3>3, Refused, PassedOther
  <2>6. ASSUME NEW q \in Ids, CheckRateLimit(q) PROVE GapInv'
    <3>1. CASE Refuse(q, "tooSoon") /\ UNCHANGED last
      <4>1. pc[q] \in Checks /\ UNCHANGED <<now, arrived, ip, last>>
        BY <2>6, <3>1 DEF CheckRateLimit, Checks
      <4> QED  BY <3>1, <4>1, Refused
    <3>2. CASE /\ Pass(q, "gap", "rate") /\ last' = [last EXCEPT ![ip[q]] = now]
               /\ ~(last[ip[q]] # Never /\ now - last[ip[q]] < Gap)
      <4> DEFINE a == ip[q]
      <4>1. /\ at' \in [Ids -> [Checks -> Nat]]
            /\ \A p \in Ids : at'[p]["gap"] = IF p = q THEN now ELSE at[p]["gap"]
        BY <3>2, Stamped DEF Pass, Checks, GapInv
      <4>2. UNCHANGED <<now, arrived, ip>> /\ a \in Ips /\ now \in Nat /\ now # Never
        BY <2>6 DEF CheckRateLimit, GapInv, GapTypes
      <4>3. /\ pc'[q] = "rate" /\ pc' \in [Ids -> Places]
            /\ \A p \in Ids : p # q => pc'[p] = pc[p]
        BY <3>2 DEF Pass, GapInv, GapTypes, Places, Checks
      <4>4. /\ last'[a] = now /\ last' \in [Ips -> Nat]
            /\ \A b \in Ips : b # a => last'[b] = last[b]
        BY <3>2, <4>2 DEF GapInv, GapTypes
      <4>5. \A p \in Ids : at[p]["gap"] \in Nat /\ ip[p] \in Ips /\ last[ip[p]] \in Nat
        BY StampsAreTimes DEF GapInv
      <4>6. at[q]["gap"] = Never /\ q <= arrived
        BY <2>6 DEF CheckRateLimit, GapInv, GapTypes, StampedLate
      <4>7. GapTypes'
        BY <4>1, <4>2, <4>3, <4>4 DEF GapInv, GapTypes
      <4>8. StampedLate'
        BY <4>1, <4>2, <4>3, <4>6 DEF GapInv, GapTypes, StampedLate
      <4>9. Remembered'
        <5> SUFFICES ASSUME NEW p \in Ids, at'[p]["gap"] # Never
                     PROVE  /\ at'[p]["gap"] <= now
                            /\ \/ last'[ip[p]] # Never /\ at'[p]["gap"] <= last'[ip[p]]
                               \/ last'[ip[p]] = Never /\ now - at'[p]["gap"] > Keep
          BY <4>2 DEF Remembered
        <5>1. CASE p = q
          BY <5>1, <4>1, <4>2, <4>4
        <5>2. CASE p # q /\ ip[p] = a
          BY <5>2, <4>1, <4>2, <4>4 DEF GapInv, Remembered
        <5>3. CASE p # q /\ ip[p] # a
          BY <5>3, <4>1, <4>2, <4>4, <4>5 DEF GapInv, Remembered
        <5> QED  BY <5>1, <5>2, <5>3
      <4>10. ASSUME NEW p \in Ids, at[p]["gap"] # Never, ip[p] = a
             PROVE  at[p]["gap"] + Gap <= now
        <5>1. CASE last[a] # Never
          BY <5>1, <3>2, <4>2, <4>5, <4>10 DEF GapInv, Remembered
        <5>2. CASE last[a] = Never
          BY <5>2, <4>2, <4>5, <4>10 DEF GapInv, Remembered
        <5> QED  BY <5>1, <5>2
      <4>11. Spaced'
        <5> SUFFICES ASSUME NEW p1 \in Ids, NEW p2 \in Ids, p1 # p2, ip[p1] = ip[p2],
                            at'[p1]["gap"] # Never, at'[p2]["gap"] # Never,
                            at'[p1]["gap"] <= at'[p2]["gap"]
                     PROVE  at'[p1]["gap"] + Gap <= at'[p2]["gap"]
          BY <4>2 DEF Spaced, Passed
        <5>1. CASE p1 = q
          <6>1. at'[p1]["gap"] = now /\ at'[p2]["gap"] = at[p2]["gap"]
            BY <5>1, <4>1
          <6>2. at[p2]["gap"] + Gap <= now
            BY <5>1, <6>1, <4>10
          <6>3. at[p2]["gap"] = now /\ Gap = 0
            BY <6>1, <6>2, <4>2, <4>5
          <6> QED  BY <6>1, <6>3, <4>2
        <5>2. CASE p2 = q
          BY <5>2, <4>1, <4>10
        <5>3. CASE p1 # q /\ p2 # q
          BY <5>3, <4>1 DEF GapInv, Spaced, Passed
        <5> QED  BY <5>1, <5>2, <5>3
      <4> QED  BY <4>7, <4>8, <4>9, <4>11 DEF GapInv
    <3> QED  BY <2>6, <3>1, <3>2 DEF CheckRateLimit
  <2>7. ASSUME NEW q \in Ids, OtherCheck(q) PROVE GapInv'
    <3>1. pc[q] \in Checks /\ Refuse(q, "other") /\ UNCHANGED <<now, arrived, ip, last>>
      BY <2>7 DEF OtherCheck, Checks
    <3> QED  BY <3>1, Refused
  <2>8. ASSUME NEW q \in Ids, CheckFormRateLimit(q) PROVE GapInv'
    <3>1. pc[q] = "rate" /\ UNCHANGED <<now, arrived, ip, last>>
      BY <2>8 DEF CheckFormRateLimit
    <3>2. Refuse(q, "tooMany") \/ Pass(q, "rate", "dedup")
      BY <2>8 DEF CheckFormRateLimit
    <3>3. pc[q] \in Checks /\ "dedup" \in Places \ {"none"}
      BY <3>1 DEF Checks, Places
    <3> QED  BY <3>1, <3>2, <3>3, Refused, PassedOther
  <2>9. ASSUME NEW q \in Ids, CheckDuplicateSubmit(q) PROVE GapInv'
    <3>1. pc[q] = "dedup" /\ UNCHANGED <<now, arrived, ip, last>>
      BY <2>9 DEF CheckDuplicateSubmit
    <3>2. Refuse(q, "duplicate") \/ Pass(q, "dedup", "accepted")
      BY <2>9 DEF CheckDuplicateSubmit
    <3>3. pc[q] \in Checks /\ "accepted" \in Places \ {"none"}
      BY <3>1 DEF Checks, Places
    <3> QED  BY <3>1, <3>2, <3>3, Refused, PassedOther
  <2> QED  BY <2>1, <2>2, <2>3, <2>4, <2>5, <2>6, <2>7, <2>8, <2>9 DEF Next, Check
<1> QED  BY <1>1, <1>2, PTL DEF Spec, GapInv


-----------------------------------------------------------------------------
(* The requests and their stamps, for the other checks: a request is       *)
(* stamped by the checks it has passed, with times that are over, and its  *)
(* address, form and content are those it arrived with.                    *)
RequestTypes ==
  /\ now \in Nat \ {0} /\ arrived \in Nat
  /\ pc \in [Ids -> Places] /\ at \in [Ids -> [Checks -> Nat]]
  /\ DOMAIN ip = Ids /\ DOMAIN form = Ids /\ DOMAIN content = Ids

(* The places at or before a check.                                        *)
Ahead == [route |-> {"none", "route"}, gap |-> {"none", "route", "gap"},
          rate |-> {"none", "route", "gap", "rate"}, dedup |-> {"none"} \cup Checks]

Unarrived == \A q \in Ids : IF q > arrived THEN pc[q] = "none" ELSE ip[q] \in Ips /\ form[q] \in Forms
InThePast == \A q \in Ids, c \in Checks : at[q][c] <= now
InOrder   == \A q \in Ids, c \in Checks : pc[q] \in Ahead[c] => at[q][c] = Never

RequestInv == RequestTypes /\ Unarrived /\ InThePast /\ InOrder

LEMMA AheadIs ==
  /\ \A c \in Checks : "none" \in Ahead[c] /\ "route" \in Ahead[c]
  /\ \A why \in {"limited", "tooSoon", "tooMany", "duplicate", "other", "accepted"},
        c \in Checks : why \notin Ahead[c]
  /\ \A c \in Checks : c \in Ahead[c]
  /\ "gap" \notin Ahead["route"] /\ "rate" \notin Ahead["gap"] /\ "dedup" \notin Ahead["rate"]
  /\ \A c \in Checks : "gap" \in Ahead[c] => "route" \in Ahead[c]
  /\ \A c \in Checks : "rate" \in Ahead[c] => "gap" \in Ahead[c]
  /\ \A c \in Checks : "dedup" \in Ahead[c] => "rate" \in Ahead[c]
  BY DEF Ahead, Checks

(* A request at a check is stamped or not, and goes on or away.            *)
LEMMA Walks ==
  ASSUME RequestInv, NEW q \in Ids, NEW check \in Checks, pc[q] = check,
         NEW next \in Places \ {"none"},
         \A c \in Checks : next \in Ahead[c] => check \in Ahead[c] /\ c # check,
         pc' = [pc EXCEPT ![q] = next], UNCHANGED <<now, arrived, ip, form, content>>,
         at' = at \/ at' = [at EXCEPT ![q][check] = now]
  PROVE  /\ RequestInv' /\ at[q][check] = Never /\ q <= arrived
         /\ \A p \in Ids, c \in Checks : p # q \/ c # check => at'[p][c] = at[p][c]
         /\ at' # at => at'[q][check] = now
<1>1. /\ pc'[q] = next /\ pc' \in [Ids -> Places]
      /\ \A p \in Ids : p # q => pc'[p] = pc[p]
  BY DEF RequestInv, RequestTypes
<1>2. now \in Nat /\ at \in [Ids -> [Checks -> Nat]]
  BY DEF RequestInv, RequestTypes
<1>3. /\ at' \in [Ids -> [Checks -> Nat]]
      /\ \A p \in Ids, c \in Checks : p # q \/ c # check => at'[p][c] = at[p][c]
      /\ at'[q][check] \in {at[q][check], now}
      /\ at' # at => at'[q][check] = now
  <2>1. CASE at' = at
    BY <1>2, <2>1
  <2>2. CASE at' = [at EXCEPT ![q][check] = now]
    BY <1>2, <2>2
  <2> QED
    BY <2>1, <2>2
<1>4. at[q][check] = Never
  BY AheadIs DEF RequestInv, InOrder
<1>5. q <= arrived
  BY DEF RequestInv, RequestTypes, Unarrived, Checks
<1>6. RequestTypes'
  BY <1>1, <1>3 DEF RequestInv, RequestTypes
<1>7. Unarrived'
  BY <1>1, <1>5 DEF RequestInv, RequestTypes, Unarrived
<1>8. InThePast'
  BY <1>2, <1>3 DEF RequestInv, InThePast
<1>9. InOrder'
  <2> SUFFICES ASSUME NEW p \in Ids, NEW c \in Checks, pc'[p] \in Ahead[c]
               PROVE  at'[p][c] = Never
    BY DEF InOrder
  <2>1. CASE p = q
    <3>1. check \in Ahead[c] /\ c # check
      BY <1>1, <2>1
    <3> QED
      BY <1>3, <2>1, <3>1 DEF RequestInv, InOrder
  <2>2. CASE p # q
    BY <1>1, <1>3, <2>2 DEF RequestInv, InOrder
  <2> QED
    BY <2>1, <2>2
<1> QED
  BY <1>3, <1>4, <1>5, <1>6, <1>7, <1>8, <1>9 DEF RequestInv

LEMMA PassWalks ==
  ASSUME RequestInv, NEW q \in Ids, NEW check \in Checks, pc[q] = check,
         NEW next, <<check, next>> \in {<<"route", "gap">>, <<"gap", "rate">>,
                                        <<"rate", "dedup">>, <<"dedup", "accepted">>},
         Pass(q, check, next), UNCHANGED <<now, arrived, ip, form, content>>
  PROVE  /\ RequestInv' /\ at[q][check] = Never /\ at'[q][check] = now
         /\ \A p \in Ids, c \in Checks : p # q \/ c # check => at'[p][c] = at[p][c]
<1>1. next \in Places \ {"none"}
  BY DEF Places, Checks
<1>2. \A c \in Checks : next \in Ahead[c] => check \in Ahead[c] /\ c # check
  BY DEF Ahead, Checks
<1>3. pc' = [pc EXCEPT ![q] = next] /\ at' = [at EXCEPT ![q][check] = now]
  BY DEF Pass
<1>4. at'[q][check] = now
  BY <1>3 DEF RequestInv, RequestTypes
<1> QED
  BY <1>1, <1>2, <1>3, <1>4, Walks

LEMMA RefuseWalks ==
  ASSUME RequestInv, NEW q \in Ids, NEW check \in Checks, pc[q] = check,
         NEW why \in {"limited", "tooSoon", "tooMany", "duplicate", "other"},
         Refuse(q, why), UNCHANGED <<now, arrived, ip, form, content>>
  PROVE  RequestInv' /\ at' = at
<1>1. why \in Places \ {"none"}
  BY DEF Places, Checks
<1>2. \A c \in Checks : why \in Ahead[c] => check \in Ahead[c] /\ c # check
  BY AheadIs
<1>3. pc' = [pc EXCEPT ![q] = why] /\ at' = at
  BY DEF Refuse
<1> QED
  BY <1>1, <1>2, <1>3, Walks


(* A step that stamps nobody for a check leaves its stamps and whose they  *)
(* are as they were.                                                       *)
Stamp(c) == [q \in Ids |-> at[q][c]]
StampsKept(c) ==
  /\ Stamp(c)' = Stamp(c) /\ now' >= now
  /\ \A q \in Ids : at[q][c] # Never =>
        ip'[q] = ip[q] /\ form'[q] = form[q] /\ content'[q] = content[q]

CheckAction(c, q) ==
  CASE c = "route" -> RouteCheck(q)
    [] c = "gap"   -> CheckRateLimit(q)
    [] c = "rate"  -> CheckFormRateLimit(q)
    [] c = "dedup" -> CheckDuplicateSubmit(q)

LEMMA CheckWalks ==
  ASSUME RequestInv, NEW q \in Ids, NEW check \in Checks, CheckAction(check, q)
  PROVE  /\ RequestInv' /\ pc[q] = check /\ UNCHANGED <<now, arrived, ip, form, content>>
         /\ at[q][check] = Never
         /\ \/ at' = at
            \/ /\ at'[q][check] = now
               /\ \A p \in Ids, c \in Checks : p # q \/ c # check => at'[p][c] = at[p][c]
<1> DEFINE Goal == /\ RequestInv' /\ at[q][check] = Never
                   /\ \/ at' = at
                      \/ /\ at'[q][check] = now
                         /\ \A p \in Ids, c \in Checks : p # q \/ c # check => at'[p][c] = at[p][c]
<1>1. pc[q] = check => at[q][check] = Never
  BY AheadIs DEF RequestInv, InOrder
<1>2. ASSUME NEW next, <<check, next>> \in {<<"route", "gap">>, <<"gap", "rate">>,
                                            <<"rate", "dedup">>, <<"dedup", "accepted">>},
             NEW why \in {"limited", "tooSoon", "tooMany", "duplicate", "other"},
             pc[q] = check, UNCHANGED <<now, arrived, ip, form, content>>,
             Refuse(q, why) \/ Pass(q, check, next)
      PROVE  Goal
  <2>1. CASE Refuse(q, why)
    BY <1>1, <1>2, <2>1, RefuseWalks
  <2>2. CASE Pass(q, check, next)
    BY <1>2, <2>2, PassWalks
  <2> QED
    BY <1>2, <2>1, <2>2
<1> HIDE DEF Goal
<1>3. ASSUME RouteCheck(q), check = "route"
      PROVE  Goal /\ pc[q] = check /\ UNCHANGED <<now, arrived, ip, form, content>>
  <2>1. /\ pc[q] = check /\ UNCHANGED <<now, arrived, ip, form, content>>
        /\ Refuse(q, "limited") \/ Pass(q, "route", "gap")
    BY <1>3 DEF RouteCheck
  <2> QED
    BY <1>2, <1>3, <2>1
<1>4. ASSUME CheckRateLimit(q), check = "gap"
      PROVE  Goal /\ pc[q] = check /\ UNCHANGED <<now, arrived, ip, form, content>>
  <2>1. /\ pc[q] = check /\ UNCHANGED <<now, arrived, ip, form, content>>
        /\ Refuse(q, "tooSoon") \/ Pass(q, "gap", "rate")
    BY <1>4 DEF CheckRateLimit
  <2> QED
    BY <1>2, <1>4, <2>1
<1>5. ASSUME CheckFormRateLimit(q), check = "rate"
      PROVE  Goal /\ pc[q] = check /\ UNCHANGED <<now, arrived, ip, form, content>>
  <2>1. /\ pc[q] = check /\ UNCHANGED <<now, arrived, ip, form, content>>
        /\ Refuse(q, "tooMany") \/ Pass(q, "rate", "dedup")
    BY <1>5 DEF CheckFormRateLimit
  <2> QED
    BY <1>2, <1>5, <2>1
<1>6. ASSUME CheckDuplicateSubmit(q), check = "dedup"
      PROVE  Goal /\ pc[q] = check /\ UNCHANGED <<now, arrived, ip, form, content>>
  <2>1. /\ pc[q] = check /\ UNCHANGED <<now, arrived, ip, form, content>>
        /\ Refuse(q, "duplicate") \/ Pass(q, "dedup", "accepted")
    BY <1>6 DEF CheckDuplicateSubmit
  <2> QED
    BY <1>2, <1>6, <2>1
<1>7. \/ check = "route" /\ RouteCheck(q)
      \/ check = "gap" /\ CheckRateLimit(q)
      \/ check = "rate" /\ CheckFormRateLimit(q)
      \/ check = "dedup" /\ CheckDuplicateSubmit(q)
  BY DEF CheckAction, Checks
<1> QED
  BY <1>3, <1>4, <1>5, <1>6, <1>7 DEF Goal

LEMMA RequestStep ==
  ASSUME RequestInv, [Next]_vars, NEW c \in Checks
  PROVE  /\ RequestInv'
         /\ StampsKept(c) \/ \E q \in Ids : CheckAction(c, q)
<1>0. now \in Nat /\ arrived \in Nat
  BY DEF RequestInv, RequestTypes
<1>1. ASSUME UNCHANGED <<arrived, pc, ip, form, content, at>>, now' \in Nat, now' >= now
      PROVE  RequestInv' /\ StampsKept(c)
  <2>1. RequestTypes' /\ Unarrived' /\ InOrder' /\ StampsKept(c)
    BY <1>0, <1>1 DEF RequestInv, RequestTypes, Unarrived, InOrder, StampsKept, Stamp
  <2>2. \A q \in Ids, d \in Checks : at[q][d] \in Nat
    BY DEF RequestInv, RequestTypes
  <2>3. InThePast'
    BY <1>0, <1>1, <2>2 DEF RequestInv, InThePast
  <2> QED
    BY <2>1, <2>3 DEF RequestInv
<1>2. CASE UNCHANGED vars
  BY <1>0, <1>1, <1>2 DEF vars
<1>3. CASE Tick
  BY <1>0, <1>1, <1>3 DEF Tick
<1>4. CASE Cleanup
  BY <1>0, <1>1, <1>4 DEF Cleanup
<1>5. ASSUME NEW q \in Ids, OtherCheck(q) PROVE RequestInv' /\ StampsKept(c)
  <2>1. /\ pc[q] \in Checks /\ Refuse(q, "other") /\ UNCHANGED <<now, arrived, ip, form, content>>
    BY <1>5 DEF OtherCheck, Checks
  <2>2. RequestInv' /\ at' = at
    BY <2>1, RefuseWalks
  <2> QED
    BY <1>0, <2>1, <2>2 DEF StampsKept, Stamp
<1>6. ASSUME NEW q \in Ids, NEW d \in Checks, d # c, CheckAction(d, q)
      PROVE  RequestInv' /\ StampsKept(c)
  <2>1. /\ RequestInv' /\ UNCHANGED <<now, ip, form, content>>
        /\ \A p \in Ids : at'[p][c] = at[p][c]
    BY <1>6, CheckWalks
  <2> QED
    BY <1>0, <2>1 DEF StampsKept, Stamp
<1>7. ASSUME NEW q \in Ids, CheckAction(c, q) PROVE RequestInv'
  BY <1>7, CheckWalks
<1>8. ASSUME NEW a \in Ips, NEW f \in Forms, NEW d \in Contents, Arrive(a, f, d)
      PROVE  RequestInv' /\ StampsKept(c)
  <2>1. PICK n \in Ids : n = arrived + 1
    BY <1>0, <1>8 DEF Arrive
  <2>2. pc[n] = "none" /\ \A e \in Checks : at[n][e] = Never
    BY <1>0, <2>1, AheadIs DEF RequestInv, Unarrived, InOrder
  <2>3. /\ arrived' = n /\ UNCHANGED <<now, at>>
        /\ pc' = [pc EXCEPT ![n] = "route"] /\ ip' = [ip EXCEPT ![n] = a]
        /\ form' = [form EXCEPT ![n] = f] /\ content' = [content EXCEPT ![n] = d]
    BY <1>8, <2>1 DEF Arrive
  <2>4. /\ pc'[n] = "route" /\ ip'[n] = a /\ form'[n] = f
        /\ \A q \in Ids : q # n =>
              pc'[q] = pc[q] /\ ip'[q] = ip[q] /\ form'[q] = form[q] /\ content'[q] = content[q]
    BY <2>3 DEF RequestInv, RequestTypes
  <2>5. RequestTypes'
    BY <1>0, <2>1, <2>3 DEF RequestInv, RequestTypes, Places, Checks
  <2>6. Unarrived'
    BY <1>0, <2>1, <2>3, <2>4 DEF RequestInv, Unarrived
  <2>7. InThePast' /\ InOrder'
    BY <2>2, <2>3, <2>4 DEF RequestInv, InThePast, InOrder
  <2>8. StampsKept(c)
    BY <1>0, <2>2, <2>3, <2>4 DEF StampsKept, Stamp
  <2> QED
    BY <2>5, <2>6, <2>7, <2>8 DEF RequestInv
<1>9. ASSUME NEW q \in Ids, Check(q)
      PROVE  OtherCheck(q) \/ \E d \in Checks : CheckAction(d, q)
  BY <1>9 DEF Check, CheckAction, Checks
<1> QED
  BY <1>2, <1>3, <1>4, <1>5, <1>6, <1>7, <1>8, <1>9 DEF Next

LEMMA RequestInit == Init => RequestInv
<1> SUFFICES ASSUME Init PROVE RequestInv
  OBVIOUS
<1>1. RequestTypes
  BY DEF Init, RequestTypes, Places, Checks
<1>2. Unarrived /\ InThePast /\ InOrder
  BY DEF Init, Unarrived, InThePast, InOrder
<1> QED
  BY <1>1, <1>2 DEF RequestInv


-----------------------------------------------------------------------------
(* Repeated content.  Each submission that was accepted is noted, with its *)
(* time or a later one, or the window since it has passed: a note goes     *)
(* only when it is replaced or when the purge finds it older than that.    *)
NotesAreTimes == \A m \in dedup : m[3] \in Nat /\ m[3] <= now
Noted ==
  \A q \in Ids :
     at[q]["dedup"] # Never =>
        \/ \E m \in dedup : m[1] = Key(q) /\ m[2] = content[q] /\ at[q]["dedup"] <= m[3]
        \/ at[q]["dedup"] + Dedup <= now

DedupInv == NotesAreTimes /\ Noted /\ NoRepetition

LEMMA StampKeptAt ==
  ASSUME RequestInv, NEW c \in Checks, StampsKept(c), NEW q \in Ids
  PROVE  /\ at'[q][c] = at[q][c] /\ now \in Nat /\ at[q][c] \in Nat
         /\ at[q][c] # Never => ip'[q] = ip[q] /\ form'[q] = form[q] /\ content'[q] = content[q]
<1>1. Stamp(c)'[q] = Stamp(c)[q]
  BY DEF StampsKept
<1>2. at'[q][c] = at[q][c]
  BY <1>1 DEF Stamp
<1> QED
  BY <1>2 DEF StampsKept, RequestInv, RequestTypes

LEMMA NotesKept ==
  ASSUME RequestInv, RequestInv', DedupInv, StampsKept("dedup"), UNCHANGED dedup
  PROVE  DedupInv'
<1>0. "dedup" \in Checks
  BY DEF Checks
<1>1. now \in Nat /\ now' \in Nat /\ now' >= now
  BY DEF RequestInv, RequestTypes, StampsKept
<1>2. \A q \in Ids :
         /\ at'[q]["dedup"] = at[q]["dedup"] /\ at[q]["dedup"] \in Nat
         /\ at[q]["dedup"] # Never => Key(q)' = Key(q) /\ ip'[q] = ip[q] /\ form'[q] = form[q]
                                        /\ content'[q] = content[q]
  BY <1>0, StampKeptAt DEF Key
<1>3. NotesAreTimes'
  BY <1>1 DEF DedupInv, NotesAreTimes
<1>4. Noted'
  BY <1>1, <1>2 DEF DedupInv, Noted
<1>5. NoRepetition'
  BY <1>2 DEF DedupInv, NoRepetition, Passed, SameKey
<1> QED
  BY <1>3, <1>4, <1>5 DEF DedupInv

(* The window since every earlier submission of this content has passed.   *)
LEMMA AcceptedLate ==
  ASSUME RequestInv, DedupInv, NEW q \in Ids,
         \A m \in dedup : m[1] = Key(q) /\ m[2] = content[q] => ~(now - m[3] < Dedup),
         NEW p \in Ids, at[p]["dedup"] # Never, Key(p) = Key(q), content[p] = content[q]
  PROVE  at[p]["dedup"] + Dedup <= now
<1>1. now \in Nat /\ at[p]["dedup"] \in Nat
  BY DEF RequestInv, RequestTypes, Checks
<1>2. \/ \E m \in dedup : m[1] = Key(q) /\ m[2] = content[q] /\ at[p]["dedup"] <= m[3]
      \/ at[p]["dedup"] + Dedup <= now
  BY DEF DedupInv, Noted
<1>3. ASSUME NEW m \in dedup, m[1] = Key(q), m[2] = content[q], at[p]["dedup"] <= m[3]
      PROVE  at[p]["dedup"] + Dedup <= now
  <2>1. m[3] \in Nat /\ m[3] <= now /\ ~(now - m[3] < Dedup)
    BY <1>3 DEF DedupInv, NotesAreTimes
  <2> QED
    BY <1>1, <1>3, <2>1
<1> QED
  BY <1>2, <1>3

LEMMA DedupStep ==
  ASSUME RequestInv, RequestInv', DedupInv, NEW q \in Ids, CheckDuplicateSubmit(q)
  PROVE  DedupInv'
<1> DEFINE mine  == {m \in dedup : m[1] = Key(q) /\ m[2] = content[q]}
           note  == <<Key(q), content[q], now>>
           noted == (dedup \ mine) \cup {note}
<1>0. /\ "dedup" \in Checks /\ CheckAction("dedup", q)
      /\ now \in Nat /\ \A p \in Ids : at[p]["dedup"] \in Nat /\ at[p]["dedup"] <= now
  BY DEF Checks, CheckAction, RequestInv, RequestTypes, InThePast
<1>1. /\ UNCHANGED <<now, arrived, ip, form, content>> /\ at[q]["dedup"] = Never
      /\ \/ at' = at
         \/ /\ at'[q]["dedup"] = now
            /\ \A p \in Ids, c \in Checks : p # q \/ c # "dedup" => at'[p][c] = at[p][c]
  BY <1>0, CheckWalks
<1>2. CASE Refuse(q, "duplicate") /\ UNCHANGED dedup
  <2>1. StampsKept("dedup")
    BY <1>0, <1>1, <1>2 DEF StampsKept, Stamp, Refuse
  <2> QED
    BY <1>2, <2>1, NotesKept
<1>3. CASE /\ Pass(q, "dedup", "accepted") /\ ~(\E m \in mine : now - m[3] < Dedup)
           /\ dedup' = IF Cardinality(noted) > StoreCap
                       THEN {m \in noted : now - m[3] <= Dedup} ELSE noted
  <2>1. /\ at'[q]["dedup"] = now
        /\ \A p \in Ids : p # q => at'[p]["dedup"] = at[p]["dedup"]
    <3>1. at' = [at EXCEPT ![q]["dedup"] = now]
      BY <1>3 DEF Pass
    <3> QED
      BY <1>0, <3>1 DEF RequestInv, RequestTypes
  <2>2. note[1] = Key(q) /\ note[2] = content[q] /\ note[3] = now
    OBVIOUS
  <2>3. note \in dedup'
    BY <1>0, <1>3, <2>2
  <2>4. /\ dedup' \subseteq noted
        /\ \A m \in dedup \ mine : m \in dedup' \/ now - m[3] > Dedup
    BY <1>0, <1>3 DEF DedupInv, NotesAreTimes
  <2> HIDE DEF note
  <2>5. \A p \in Ids : Key(p)' = Key(p) /\ content'[p] = content[p] /\ now' = now
    BY <1>1 DEF Key
  <2>6. NotesAreTimes'
    BY <1>0, <1>1, <2>2, <2>4 DEF DedupInv, NotesAreTimes
  <2>7. ASSUME NEW p \in Ids, at'[p]["dedup"] # Never
        PROVE  \/ \E m \in dedup' : m[1] = Key(p) /\ m[2] = content[p] /\ at'[p]["dedup"] <= m[3]
               \/ at'[p]["dedup"] + Dedup <= now
    <3>1. CASE Key(p) = Key(q) /\ content[p] = content[q]
      <4>1. at'[p]["dedup"] <= now
        BY <1>0, <2>1
      <4> QED
        BY <2>2, <2>3, <3>1, <4>1
    <3>2. CASE ~(Key(p) = Key(q) /\ content[p] = content[q])
      <4>1. p # q /\ at'[p]["dedup"] = at[p]["dedup"]
        BY <2>1, <3>2
      <4>2. CASE at[p]["dedup"] + Dedup <= now
        BY <4>1, <4>2
      <4>3. CASE \E m \in dedup : m[1] = Key(p) /\ m[2] = content[p] /\ at[p]["dedup"] <= m[3]
        <5>1. PICK m \in dedup : m[1] = Key(p) /\ m[2] = content[p] /\ at[p]["dedup"] <= m[3]
          BY <4>3
        <5>2. m \notin mine
          BY <3>2, <5>1
        <5>3. m[3] \in Nat /\ (m \in dedup' \/ now - m[3] > Dedup)
          BY <2>4, <5>2 DEF DedupInv, NotesAreTimes
        <5>4. now - m[3] > Dedup => at[p]["dedup"] + Dedup <= now
          BY <1>0, <5>1, <5>3
        <5> QED
          BY <4>1, <5>1, <5>3, <5>4
      <4> QED
        BY <2>7, <4>1, <4>2, <4>3 DEF DedupInv, Noted
    <3> QED
      BY <3>1, <3>2
  <2>8. Noted'
    BY <2>5, <2>7 DEF Noted
  <2>9. \A p \in Ids : at[p]["dedup"] # Never /\ SameKey(p, q) /\ content[p] = content[q]
                         => at[p]["dedup"] + Dedup <= now
    <3>1. \A m \in dedup : m[1] = Key(q) /\ m[2] = content[q] => ~(now - m[3] < Dedup)
      BY <1>3
    <3>2. \A p \in Ids : SameKey(p, q) => Key(p) = Key(q)
      BY DEF SameKey, Key
    <3> QED
      BY <3>1, <3>2, AcceptedLate
  <2>10. NoRepetition'
    <3> SUFFICES ASSUME NEW p1 \in Ids, NEW p2 \in Ids, p1 # p2, SameKey(p1, p2),
                        content[p1] = content[p2],
                        at'[p1]["dedup"] # Never, at'[p2]["dedup"] # Never,
                        at'[p1]["dedup"] <= at'[p2]["dedup"]
                 PROVE  at'[p1]["dedup"] + Dedup <= at'[p2]["dedup"]
      BY <1>1 DEF NoRepetition, Passed, SameKey
    <3>1. CASE p1 = q
      <4>1. at[p2]["dedup"] + Dedup <= now /\ at'[p2]["dedup"] = at[p2]["dedup"]
        BY <2>1, <2>9, <3>1 DEF SameKey
      <4> QED
        BY <1>0, <2>1, <3>1, <4>1
    <3>2. CASE p2 = q
      BY <2>1, <2>9, <3>2
    <3>3. CASE p1 # q /\ p2 # q
      BY <2>1, <3>3 DEF DedupInv, NoRepetition, Passed
    <3> QED
      BY <3>1, <3>2, <3>3
  <2> QED
    BY <2>6, <2>8, <2>10 DEF DedupInv
<1> QED
  BY <1>2, <1>3 DEF CheckDuplicateSubmit

(* The same content is accepted once in any stretch of the window, for any *)
(* number of requests, any interleaving and any size of the store.         *)
THEOREM RepetitionsAreRefused == Spec => []NoRepetition
<1>1. Init => DedupInv
  <2> SUFFICES ASSUME Init PROVE DedupInv
    OBVIOUS
  <2>1. dedup = {} /\ \A q \in Ids : at[q]["dedup"] = Never
    BY DEF Init, Checks
  <2> QED
    BY <2>1 DEF DedupInv, NotesAreTimes, Noted, NoRepetition, Passed
<1>2. RequestInv /\ [Next]_vars => RequestInv'
  BY RequestStep DEF Checks
<1>3. RequestInv /\ RequestInv' /\ DedupInv /\ [Next]_vars => DedupInv'
  <2> SUFFICES ASSUME RequestInv, RequestInv', DedupInv, [Next]_vars PROVE DedupInv'
    OBVIOUS
  <2>1. ASSUME NEW q \in Ids, CheckAction("dedup", q) PROVE DedupInv'
    BY <2>1, DedupStep DEF CheckAction
  <2>2. CASE ~\E q \in Ids : CheckAction("dedup", q)
    <3>1. StampsKept("dedup")
      BY <2>2, RequestStep DEF Checks
    <3>2. UNCHANGED dedup
      BY <2>2 DEF Next, Check, CheckAction, Arrive, RouteCheck, CheckRateLimit, OtherCheck,
                  CheckFormRateLimit, Cleanup, Tick, vars
    <3> QED
      BY <3>1, <3>2, NotesKept
  <2> QED
    BY <2>1, <2>2
<1>4. DedupInv => NoRepetition
  BY DEF DedupInv
<1> QED
  BY <1>1, <1>2, <1>3, <1>4, RequestInit, PTL DEF Spec


-----------------------------------------------------------------------------
(* Fixed windows, for the limiter of the route and for that of the forms:  *)
(* P is a set of requests that passed, s their stamps, and a window begins *)
(* with a request that passes and lasts for a span.                        *)
From(P, s, t)       == {q \in P : t <= s[q]}
Between(P, s, t, u) == {q \in P : t <= s[q] /\ s[q] < u}

(* The window that began at start counted n of the requests; before it, in *)
(* the minute up to it, there are less than max.                           *)
Window(P, s, start, span, n, max) ==
  /\ \A q \in P : s[q] < start + span
  /\ Cardinality(From(P, s, start)) <= n
  /\ Cardinality(From(P, s, start + 1)) < n
  /\ \A t \in Nat : start < t + Minute => Cardinality(Between(P, s, t, start)) < max

(* No window is counting: in the last minute there were less than max.     *)
Quiet(P, s, time, max) ==
  /\ \A q \in P : s[q] < time
  /\ \A t \in Nat : time < t + Minute => Cardinality(From(P, s, t)) < max

Bursts(P, s, time, max) ==
  \A t \in 1..time : Cardinality(Between(P, s, t, t + Minute)) < 2 * max

LEMMA Cards ==
  ASSUME NEW T \in SUBSET Ids, NEW S \in SUBSET T
  PROVE  /\ IsFiniteSet(S) /\ IsFiniteSet(T)
         /\ Cardinality(S) \in Nat /\ Cardinality(T) \in Nat
         /\ Cardinality(S) <= Cardinality(T)
<1>1. IsFiniteSet(1..MaxRequests)
  BY FS_Interval
<1>2. IsFiniteSet(T)
  BY <1>1, FS_Subset
<1>3. IsFiniteSet(S) /\ Cardinality(S) <= Cardinality(T)
  BY <1>2, FS_Subset
<1> QED
  BY <1>2, <1>3, FS_CardinalityType

LEMMA Stretches ==
  ASSUME NEW P \in SUBSET Ids, NEW s \in [Ids -> Nat], NEW t \in Nat, NEW u
  PROVE  /\ From(P, s, t) \in SUBSET P /\ From(P, s, t) \in SUBSET Ids
         /\ Between(P, s, t, u) \in SUBSET From(P, s, t)
         /\ Cardinality(From(P, s, t)) \in Nat /\ Cardinality(Between(P, s, t, u)) \in Nat
<1>1. /\ From(P, s, t) \in SUBSET P /\ From(P, s, t) \in SUBSET Ids
      /\ Between(P, s, t, u) \in SUBSET From(P, s, t)
  BY DEF From, Between
<1> QED
  BY <1>1, Cards

(* Only the stamps of the requests in P matter.                            *)
LEMMA SameStamps ==
  ASSUME NEW P, NEW s, NEW r, \A q \in P : r[q] = s[q]
  PROVE  /\ \A t : From(P, r, t) = From(P, s, t)
         /\ \A t, u : Between(P, r, t, u) = Between(P, s, t, u)
  BY DEF From, Between

LEMMA SameWindows ==
  ASSUME NEW P, NEW s, NEW r, \A q \in P : r[q] = s[q]
  PROVE  /\ \A start, span, n, max : Window(P, s, start, span, n, max) => Window(P, r, start, span, n, max)
         /\ \A time, max : Quiet(P, s, time, max) => Quiet(P, r, time, max)
         /\ \A time, max : Bursts(P, s, time, max) => Bursts(P, r, time, max)
<1>1. /\ \A t : From(P, r, t) = From(P, s, t)
      /\ \A t, u : Between(P, r, t, u) = Between(P, s, t, u)
  BY SameStamps
<1>2. ASSUME NEW start, NEW span, NEW n, NEW max, Window(P, s, start, span, n, max)
      PROVE  Window(P, r, start, span, n, max)
  BY <1>1, <1>2 DEF Window
<1>3. ASSUME NEW time, NEW max, Quiet(P, s, time, max) PROVE Quiet(P, r, time, max)
  BY <1>1, <1>3 DEF Quiet
<1>4. ASSUME NEW time, NEW max, Bursts(P, s, time, max) PROVE Bursts(P, r, time, max)
  BY <1>1, <1>4 DEF Bursts
<1> QED
  BY <1>2, <1>3, <1>4

(* A window whose span has passed leaves quiet: of the last minute it      *)
(* holds no more than what followed the request that began it.             *)
LEMMA WindowEnds ==
  ASSUME NEW P \in SUBSET Ids, NEW s \in [Ids -> Nat], NEW start \in Nat, NEW span \in Nat,
         NEW n \in Nat, NEW max \in Nat, NEW time \in Nat,
         Window(P, s, start, span, n, max), n <= max, Minute <= span, start + span <= time
  PROVE  Quiet(P, s, time, max)
<1>1. \A q \in P : s[q] < time
  BY DEF Window
<1>2. ASSUME NEW t \in Nat, time < t + Minute PROVE Cardinality(From(P, s, t)) < max
  <2>1. start + 1 <= t
    BY <1>2
  <2>2. From(P, s, t) \in SUBSET From(P, s, start + 1)
    <3>1. \A q \in P : s[q] \in Nat
      OBVIOUS
    <3>2. \A q \in P : t <= s[q] => start + 1 <= s[q]
      BY <2>1, <3>1
    <3> QED
      BY <3>2 DEF From
  <2>3. From(P, s, start + 1) \in SUBSET Ids
    BY DEF From
  <2>4. Cardinality(From(P, s, start + 1)) < n
    BY DEF Window
  <2>5. /\ Cardinality(From(P, s, t)) <= Cardinality(From(P, s, start + 1))
        /\ Cardinality(From(P, s, t)) \in Nat /\ Cardinality(From(P, s, start + 1)) \in Nat
    BY <2>2, <2>3, Cards
  <2> QED
    BY <2>4, <2>5
<1> QED
  BY <1>1, <1>2 DEF Quiet

LEMMA QuietLasts ==
  ASSUME NEW P \in SUBSET Ids, NEW s \in [Ids -> Nat], NEW max \in Nat, NEW time \in Nat,
         NEW later \in Nat, time <= later, Quiet(P, s, time, max)
  PROVE  Quiet(P, s, later, max)
<1>1. \A q \in P : s[q] < later
  BY DEF Quiet
<1>2. ASSUME NEW t \in Nat, later < t + Minute PROVE Cardinality(From(P, s, t)) < max
  BY <1>2 DEF Quiet
<1> QED
  BY <1>1, <1>2 DEF Quiet

(* The requests, when q passed at a time.                                  *)
PassesAt(P, s, q, r, time) ==
  /\ P \in SUBSET Ids /\ s \in [Ids -> Nat] /\ r \in [Ids -> Nat]
  /\ q \in Ids \ P /\ r[q] = time /\ \A p \in P : r[p] = s[p]

LEMMA WindowBegins ==
  ASSUME NEW P, NEW s, NEW q, NEW r, NEW time \in Nat, PassesAt(P, s, q, r, time),
         NEW span \in Nat \ {0}, NEW max \in Nat \ {0}, Quiet(P, s, time, max)
  PROVE  Window(P \cup {q}, r, time, span, 1, max)
<1>0. /\ r[q] = time /\ q \notin P
      /\ \A p \in P : r[p] = s[p] /\ s[p] \in Nat /\ s[p] < time
  BY DEF PassesAt, Quiet
<1>1. From(P \cup {q}, r, time) = {q}
  BY <1>0 DEF From
<1>2. From(P \cup {q}, r, time + 1) = {}
  BY <1>0 DEF From
<1>3. \A t \in Nat : Between(P \cup {q}, r, t, time) = From(P, s, t)
  BY <1>0 DEF From, Between
<1>4. Cardinality({q}) = 1 /\ Cardinality({}) = 0
  BY FS_Singleton, FS_EmptySet
<1>5. \A p \in P \cup {q} : r[p] < time + span
  BY <1>0
<1>6. \A t \in Nat : time < t + Minute => Cardinality(Between(P \cup {q}, r, t, time)) < max
  BY <1>3 DEF Quiet
<1>7. /\ Cardinality(From(P \cup {q}, r, time)) <= 1
      /\ Cardinality(From(P \cup {q}, r, time + 1)) < 1
  BY <1>1, <1>2, <1>4
<1> QED
  BY <1>5, <1>6, <1>7 DEF Window

LEMMA WindowGoesOn ==
  ASSUME NEW P, NEW s, NEW q, NEW r, NEW time \in Nat, PassesAt(P, s, q, r, time),
         NEW span \in Nat, NEW max \in Nat, NEW n \in Nat, NEW start \in Nat,
         Window(P, s, start, span, n, max), start <= time, time < start + span
  PROVE  Window(P \cup {q}, r, start, span, n + 1, max)
<1>0. /\ r[q] = time /\ q \notin P /\ q \in Ids /\ P \in SUBSET Ids /\ s \in [Ids -> Nat]
      /\ \A p \in P : r[p] = s[p] /\ s[p] \in Nat
  BY DEF PassesAt
<1>1. From(P \cup {q}, r, start) = From(P, s, start) \cup {q}
  BY <1>0 DEF From
<1>2. From(P \cup {q}, r, start + 1) \subseteq From(P, s, start + 1) \cup {q}
  BY <1>0 DEF From
<1>3. \A t \in Nat : Between(P \cup {q}, r, t, start) = Between(P, s, t, start)
  <2>1. ~(r[q] < start)
    BY <1>0
  <2> QED
    BY <1>0, <2>1 DEF Between
<1>4. ASSUME NEW t \in Nat
      PROVE  /\ IsFiniteSet(From(P, s, t)) /\ From(P, s, t) \cup {q} \in SUBSET Ids
             /\ Cardinality(From(P, s, t)) \in Nat
             /\ Cardinality(From(P, s, t) \cup {q}) = Cardinality(From(P, s, t)) + 1
  <2>1. From(P, s, t) \in SUBSET Ids /\ From(P, s, t) \cup {q} \in SUBSET Ids /\ q \notin From(P, s, t)
    BY <1>0 DEF From
  <2>2. IsFiniteSet(From(P, s, t)) /\ Cardinality(From(P, s, t)) \in Nat
    BY <2>1, Cards
  <2> QED
    BY <2>1, <2>2, FS_AddElement
<1>5. Cardinality(From(P \cup {q}, r, start)) <= n + 1
  <2>1. Cardinality(From(P, s, start)) <= n
    BY DEF Window
  <2> QED
    BY <1>1, <1>4, <2>1
<1>6. Cardinality(From(P \cup {q}, r, start + 1)) < n + 1
  <2> DEFINE S == From(P \cup {q}, r, start + 1)
             T == From(P, s, start + 1) \cup {q}
  <2>1. /\ T \in SUBSET Ids /\ S \in SUBSET T /\ Cardinality(T) = Cardinality(From(P, s, start + 1)) + 1
        /\ Cardinality(From(P, s, start + 1)) \in Nat
    <3>1. start + 1 \in Nat
      OBVIOUS
    <3> QED
      BY <1>2, <1>4, <3>1
  <2> HIDE DEF S, T
  <2>2. Cardinality(S) <= Cardinality(T) /\ Cardinality(S) \in Nat
    BY <2>1, Cards
  <2>3. Cardinality(From(P, s, start + 1)) < n
    BY DEF Window
  <2> QED
    BY <2>1, <2>2, <2>3 DEF S
<1>7. \A p \in P \cup {q} : r[p] < start + span
  BY <1>0 DEF Window
<1>8. \A t \in Nat : start < t + Minute => Cardinality(Between(P \cup {q}, r, t, start)) < max
  BY <1>3 DEF Window
<1> QED
  BY <1>5, <1>6, <1>7, <1>8 DEF Window

LEMMA WindowWidens ==
  ASSUME NEW P \in SUBSET Ids, NEW s \in [Ids -> Nat], NEW start \in Nat, NEW span, NEW max,
         NEW n \in Nat, NEW m \in Nat, n <= m, Window(P, s, start, span, n, max)
  PROVE  Window(P, s, start, span, m, max)
<1>1. start + 1 \in Nat
  OBVIOUS
<1>2. Cardinality(From(P, s, start)) \in Nat /\ Cardinality(From(P, s, start + 1)) \in Nat
  BY <1>1, Stretches
<1> QED
  BY <1>2 DEF Window

(* A stretch of a minute that reaches into the window meets at most max of *)
(* its requests and less than max before it.                               *)
LEMMA WindowBounds ==
  ASSUME NEW P \in SUBSET Ids, NEW s \in [Ids -> Nat], NEW start \in Nat, NEW span \in Nat,
         NEW n \in Nat, NEW max \in Nat, NEW t \in Nat,
         Window(P, s, start, span, n, max), n <= max, start < t + Minute
  PROVE  Cardinality(Between(P, s, t, t + Minute)) < 2 * max
<1> DEFINE A == Between(P, s, t, start)
           B == From(P, s, start)
           S == Between(P, s, t, t + Minute)
<1>1. /\ A \in SUBSET Ids /\ B \in SUBSET Ids /\ A \cup B \in SUBSET Ids
      /\ S \in SUBSET (A \cup B)
  <2>1. \A q \in P : s[q] < start \/ start <= s[q]
    <3>1. \A q \in P : s[q] \in Nat
      OBVIOUS
    <3> QED
      BY <3>1
  <2> QED
    BY <2>1 DEF From, Between
<1>2. Cardinality(A) < max /\ Cardinality(B) <= max
  <2>1. Cardinality(A) < max /\ Cardinality(B) <= n
    BY DEF Window
  <2>2. Cardinality(B) \in Nat
    BY Stretches
  <2> QED
    BY <2>1, <2>2
<1> HIDE DEF A, B, S
<1>3. /\ IsFiniteSet(A) /\ IsFiniteSet(B) /\ Cardinality(A) \in Nat /\ Cardinality(B) \in Nat
      /\ Cardinality(S) <= Cardinality(A \cup B) /\ Cardinality(S) \in Nat
      /\ A \cap B \in SUBSET A
  BY <1>1, Cards
<1>4. Cardinality(A \cap B) \in Nat
  BY <1>1, <1>3, Cards
<1>5. Cardinality(A \cup B) = Cardinality(A) + Cardinality(B) - Cardinality(A \cap B)
  BY <1>3, FS_Union
<1> QED
  BY <1>2, <1>3, <1>4, <1>5 DEF S

LEMMA BurstsLast ==
  ASSUME NEW P \in SUBSET Ids, NEW s \in [Ids -> Nat], NEW max \in Nat \ {0}, NEW time \in Nat,
         NEW later \in Nat, time <= later, \A q \in P : s[q] <= time, Bursts(P, s, time, max)
  PROVE  Bursts(P, s, later, max)
<1> SUFFICES ASSUME NEW t \in 1..later
             PROVE  Cardinality(Between(P, s, t, t + Minute)) < 2 * max
  BY DEF Bursts
<1>1. CASE t <= time
  BY <1>1 DEF Bursts
<1>2. CASE t > time
  <2>1. Between(P, s, t, t + Minute) = {}
    <3>1. \A q \in P : s[q] \in Nat /\ s[q] <= time
      OBVIOUS
    <3>2. t \in Nat
      OBVIOUS
    <3>3. \A q \in P : ~(t <= s[q])
      BY <1>2, <3>1, <3>2
    <3> QED
      BY <3>3 DEF Between
  <2>2. Cardinality({}) = 0
    BY FS_EmptySet
  <2>3. Cardinality(Between(P, s, t, t + Minute)) = 0
    BY <2>1, <2>2
  <2>4. 0 < 2 * max
    OBVIOUS
  <2> QED
    BY <2>3, <2>4
<1> QED
  BY <1>1, <1>2

LEMMA BurstsGoOn ==
  ASSUME NEW P, NEW s, NEW q, NEW r, NEW time \in Nat, PassesAt(P, s, q, r, time),
         NEW span \in Nat, NEW max \in Nat, NEW n \in Nat, NEW start \in Nat,
         Window(P \cup {q}, r, start, span, n, max), n <= max, start <= time,
         Bursts(P, s, time, max)
  PROVE  Bursts(P \cup {q}, r, time, max)
<1> SUFFICES ASSUME NEW t \in 1..time
             PROVE  Cardinality(Between(P \cup {q}, r, t, t + Minute)) < 2 * max
  BY DEF Bursts
<1>1. CASE t + Minute <= time
  <2>1. Between(P \cup {q}, r, t, t + Minute) = Between(P, s, t, t + Minute)
    <3>1. /\ r[q] = time /\ q \notin P
          /\ \A p \in P : r[p] = s[p] /\ s[p] \in Nat
      BY DEF PassesAt
    <3> QED
      BY <1>1, <3>1 DEF Between
  <2> QED
    BY <2>1 DEF Bursts
<1>2. CASE time < t + Minute
  <2>1. P \cup {q} \in SUBSET Ids /\ r \in [Ids -> Nat] /\ t \in Nat /\ start < t + Minute
    BY <1>2 DEF PassesAt
  <2> HIDE DEF Bursts
  <2> QED
    BY <2>1, WindowBounds
<1> QED
  BY <1>1, <1>2


-----------------------------------------------------------------------------
(* The windows of the route's limiter and of the forms'.                   *)
Least(m, n) == IF m <= n THEN m ELSE n

RouteOf(a) == {q \in Ids : at[q]["route"] # Never /\ ip[q] = a}
RateOf(k)  == {q \in Ids : at[q]["rate"] # Never /\ Key(q) = k}

RouteEntryOK(a) ==
  IF route[a].resetAt = Never
  THEN RouteOf(a) = {}
  ELSE \E start \in Nat :
          /\ route[a].resetAt = start + Minute /\ start <= now /\ route[a].count >= 1
          /\ Window(RouteOf(a), Stamp("route"), start, Minute + 1,
                    Least(route[a].count, RouteMax), RouteMax)

RouteInv ==
  /\ route \in [Ips -> [count : Nat, resetAt : Nat]]
  /\ \A a \in Ips : RouteEntryOK(a) /\ Bursts(RouteOf(a), Stamp("route"), now, RouteMax)

LEMMA StampTypes ==
  ASSUME RequestInv, NEW c \in Checks
  PROVE  /\ Stamp(c) \in [Ids -> Nat] /\ now \in Nat \ {0}
         /\ \A q \in Ids : Stamp(c)[q] = at[q][c] /\ Stamp(c)[q] <= now
  BY DEF Stamp, RequestInv, RequestTypes, InThePast

(* What a step for another check, the clock or an arrival leaves.          *)
LEMMA RouteKept ==
  ASSUME RequestInv, RequestInv', RouteInv, StampsKept("route"), UNCHANGED route
  PROVE  RouteInv'
<1>0. "route" \in Checks
  BY DEF Checks
<1>1. now \in Nat /\ now' \in Nat /\ now <= now' /\ Stamp("route")' = Stamp("route")
  BY DEF RequestInv, RequestTypes, StampsKept
<1>2. \A a : RouteOf(a)' = RouteOf(a)
  BY <1>0, StampKeptAt DEF RouteOf, RequestInv, RequestTypes
<1>3. ASSUME NEW a \in Ips PROVE RouteEntryOK(a)'
  BY <1>1, <1>2 DEF RouteInv, RouteEntryOK
<1>4. ASSUME NEW a \in Ips PROVE Bursts(RouteOf(a), Stamp("route"), now, RouteMax)'
  <2>1. /\ RouteOf(a) \in SUBSET Ids /\ Stamp("route") \in [Ids -> Nat]
        /\ \A q \in RouteOf(a) : Stamp("route")[q] <= now
    BY <1>0, StampTypes DEF RouteOf
  <2>2. Bursts(RouteOf(a), Stamp("route"), now, RouteMax)
    BY DEF RouteInv
  <2>3. Bursts(RouteOf(a), Stamp("route"), now', RouteMax)
    BY <1>1, <2>1, <2>2, BurstsLast
  <2> QED
    BY <1>1, <1>2, <2>3
<1> QED
  BY <1>3, <1>4 DEF RouteInv


(* Nothing passed: no window, and no burst.                                *)
LEMMA NothingPassed ==
  ASSUME NEW s, NEW time \in Nat, NEW max \in Nat \ {0}
  PROVE  Quiet({}, s, time, max) /\ Bursts({}, s, time, max)
<1>1. \A t, u : From({}, s, t) = {} /\ Between({}, s, t, u) = {}
  BY DEF From, Between
<1>2. Cardinality({}) = 0 /\ 0 < max /\ 0 < 2 * max
  BY FS_EmptySet
<1> QED
  BY <1>1, <1>2 DEF Quiet, Bursts

LEMMA RouteEntryIs ==
  ASSUME RequestInv, RouteInv, NEW b \in Ips
  PROVE  /\ RouteEntry(b) \in [count : Nat, resetAt : Nat]
         /\ route[b].count \in Nat /\ route[b].resetAt \in Nat
         /\ IF route[b].resetAt = Never \/ now > route[b].resetAt
            THEN RouteEntry(b).count = 1 /\ RouteEntry(b).resetAt = now + Minute
            ELSE /\ RouteEntry(b).count = route[b].count + 1
                 /\ RouteEntry(b).resetAt = route[b].resetAt
<1>1. route[b] \in [count : Nat, resetAt : Nat] /\ now \in Nat
  BY DEF RouteInv, RequestInv, RequestTypes
<1> QED
  BY <1>1 DEF RouteEntry

LEMMA RouteStep ==
  ASSUME RequestInv, RequestInv', RouteInv, NEW q \in Ids, RouteCheck(q)
  PROVE  RouteInv'
<1>0. "route" \in Checks /\ CheckAction("route", q)
  BY DEF Checks, CheckAction
<1>1. /\ UNCHANGED <<now, arrived, ip, form, content>> /\ at[q]["route"] = Never
      /\ \/ at' = at
         \/ /\ at'[q]["route"] = now
            /\ \A p \in Ids, c \in Checks : p # q \/ c # "route" => at'[p][c] = at[p][c]
  BY <1>0, CheckWalks
<1>2. PICK b \in Ips : b = ip[q]
  BY DEF RouteCheck, RequestInv, RequestTypes, Unarrived
<1>3. PICK e \in [count : Nat, resetAt : Nat] : e = RouteEntry(b)
  BY RouteEntryIs
<1>4. /\ route' = [route EXCEPT ![b] = e]
      /\ IF e.count > RouteMax THEN Refuse(q, "limited") ELSE Pass(q, "route", "gap")
  BY <1>2, <1>3 DEF RouteCheck
<1>5. /\ route' \in [Ips -> [count : Nat, resetAt : Nat]] /\ route'[b] = e
      /\ \A a \in Ips : a # b => route'[a] = route[a]
  BY <1>4 DEF RouteInv
<1>6. PICK time \in Nat \ {0} : time = now
  BY DEF RequestInv, RequestTypes
<1>7. PICK s \in [Ids -> Nat] : s = Stamp("route") /\ \A p \in Ids : s[p] = at[p]["route"] /\ s[p] <= now
  BY <1>0, StampTypes
<1>8. PICK r \in [Ids -> Nat] : r = Stamp("route")' /\ \A p \in Ids : r[p] = at'[p]["route"]
  <2>1. Stamp("route")' \in [Ids -> Nat]
    BY DEF RequestInv, RequestTypes, Stamp, Checks
  <2>2. \A p \in Ids : Stamp("route")'[p] = at'[p]["route"]
    BY DEF Stamp
  <2> QED
    BY <2>1, <2>2
<1>9. PICK P \in SUBSET Ids : P = RouteOf(b)
  BY DEF RouteOf
<1>10. q \notin P /\ \A p \in Ids \ {q} : r[p] = s[p]
  <2>1. \A p \in Ids : p # q => at'[p]["route"] = at[p]["route"]
    BY <1>0, <1>1
  <2>2. q \notin P
    BY <1>1, <1>9 DEF RouteOf
  <2> QED
    BY <1>7, <1>8, <2>1, <2>2
(* The other addresses.                                                    *)
<1>11. ASSUME NEW a \in Ips, a # b
       PROVE  (RouteEntryOK(a) /\ Bursts(RouteOf(a), Stamp("route"), now, RouteMax))'
  <2>1. RouteOf(a)' = RouteOf(a) /\ q \notin RouteOf(a) /\ RouteOf(a) \in SUBSET Ids
    <3>1. \A p \in Ids : p # q => at'[p]["route"] = at[p]["route"]
      BY <1>0, <1>1
    <3>2. \A p \in Ids : ip'[p] = ip[p]
      BY <1>1
    <3> QED
      BY <1>2, <1>11, <3>1, <3>2 DEF RouteOf
  <2>2. \A p \in RouteOf(a) : r[p] = s[p]
    BY <1>10, <2>1
  <2>3. RouteEntryOK(a) /\ Bursts(RouteOf(a), s, now, RouteMax)
    BY <1>7 DEF RouteInv
  <2>4. Bursts(RouteOf(a), r, now, RouteMax)
    BY <2>2, <2>3, SameWindows
  <2>5. \A start, n : Window(RouteOf(a), s, start, Minute + 1, n, RouteMax)
                        => Window(RouteOf(a), r, start, Minute + 1, n, RouteMax)
    BY <2>2, SameWindows
  <2>6. RouteEntryOK(a)'
    BY <1>1, <1>5, <1>7, <1>8, <1>11, <2>1, <2>3, <2>5 DEF RouteEntryOK
  <2> QED
    BY <1>1, <1>8, <2>1, <2>4, <2>6
(* The address of the request: what the count says of those that passed.   *)
<1>12. Bursts(P, s, time, RouteMax)
  BY <1>6, <1>7, <1>9 DEF RouteInv
<1>13. CASE Refuse(q, "limited") /\ e.count > RouteMax
  <2>1. at' = at /\ r = s
    BY <1>7, <1>8, <1>13 DEF Refuse, Stamp
  <2>2. RouteOf(b)' = P
    BY <1>1, <1>9, <2>1 DEF RouteOf
  <2>3. /\ ~(route[b].resetAt = Never \/ now > route[b].resetAt)
        /\ route[b].count \in Nat /\ e.resetAt = route[b].resetAt
        /\ e.count = route[b].count + 1
    BY <1>3, <1>13, RouteEntryIs
  <2>4. PICK start \in Nat :
           /\ route[b].resetAt = start + Minute /\ start <= now
           /\ Window(P, s, start, Minute + 1, Least(route[b].count, RouteMax), RouteMax)
    BY <1>7, <1>9, <2>3 DEF RouteInv, RouteEntryOK
  <2>5. /\ Least(route[b].count, RouteMax) \in Nat /\ Least(e.count, RouteMax) \in Nat
        /\ Least(route[b].count, RouteMax) <= Least(e.count, RouteMax)
    BY <2>3 DEF Least
  <2>6. Window(P, s, start, Minute + 1, Least(e.count, RouteMax), RouteMax)
    BY <2>4, <2>5, WindowWidens
  <2>7. RouteEntryOK(b)'
    <3>1. e.count >= 1 /\ e.resetAt = start + Minute /\ start <= now' /\ e.resetAt # Never
      BY <1>1, <2>3, <2>4
    <3> QED
      BY <1>5, <1>8, <2>1, <2>2, <2>6, <3>1 DEF RouteEntryOK
  <2>8. Bursts(RouteOf(b), Stamp("route"), now, RouteMax)'
    BY <1>1, <1>6, <1>8, <1>12, <2>1, <2>2
  <2> QED
    BY <1>5, <1>11, <2>7, <2>8 DEF RouteInv
<1>14. CASE Pass(q, "route", "gap") /\ e.count <= RouteMax
  <2>1. r[q] = time
    <3>1. at' = [at EXCEPT ![q]["route"] = now]
      BY <1>14 DEF Pass
    <3> QED
      BY <1>0, <1>6, <1>8, <3>1 DEF RequestInv, RequestTypes
  <2>2. PassesAt(P, s, q, r, time)
    BY <1>10, <2>1 DEF PassesAt
  <2>3. RouteOf(b)' = P \cup {q}
    <3>1. at'[q]["route"] # Never
      BY <1>6, <1>8, <2>1
    <3>2. \A p \in Ids : p # q => at'[p]["route"] = at[p]["route"]
      BY <1>7, <1>8, <1>10
    <3> QED
      BY <1>1, <1>2, <1>9, <3>1, <3>2 DEF RouteOf
  <2>4. ASSUME NEW start \in Nat, NEW n \in Nat, start <= time, e.resetAt = start + Minute,
               n = e.count, n >= 1, Window(P \cup {q}, r, start, Minute + 1, n, RouteMax)
        PROVE  RouteInv'
    <3>1. Least(e.count, RouteMax) = n /\ n <= RouteMax /\ e.resetAt # Never
      BY <1>14, <2>4 DEF Least
    <3>2. RouteEntryOK(b)'
      BY <1>1, <1>5, <1>6, <1>8, <2>3, <2>4, <3>1 DEF RouteEntryOK
    <3>3. Bursts(P \cup {q}, r, time, RouteMax)
      BY <1>12, <2>2, <2>4, <3>1, BurstsGoOn
    <3>4. Bursts(RouteOf(b), Stamp("route"), now, RouteMax)'
      BY <1>1, <1>6, <1>8, <2>3, <3>3
    <3> QED
      BY <1>5, <1>11, <3>2, <3>4 DEF RouteInv
  <2>5. CASE route[b].resetAt = Never \/ now > route[b].resetAt
    <3>1. e.count = 1 /\ e.resetAt = time + Minute
      BY <1>3, <1>6, <2>5, RouteEntryIs
    <3>2. Quiet(P, s, time, RouteMax)
      <4>1. CASE route[b].resetAt = Never
        <5>1. P = {}
          BY <1>9, <4>1 DEF RouteInv, RouteEntryOK
        <5> QED
          BY <5>1, NothingPassed
      <4>2. CASE route[b].resetAt # Never
        <5>1. PICK start \in Nat :
                 /\ route[b].resetAt = start + Minute
                 /\ Window(P, s, start, Minute + 1, Least(route[b].count, RouteMax), RouteMax)
          BY <1>7, <1>9, <4>2 DEF RouteInv, RouteEntryOK
        <5>2. start + (Minute + 1) <= time
          BY <1>6, <2>5, <4>2, <5>1
        <5>3. Least(route[b].count, RouteMax) \in Nat /\ Least(route[b].count, RouteMax) <= RouteMax
          BY DEF Least, RouteInv
        <5>4. Minute + 1 \in Nat /\ Minute <= Minute + 1 /\ RouteMax \in Nat /\ time \in Nat
          OBVIOUS
        <5> QED
          BY <5>1, <5>2, <5>3, <5>4, WindowEnds
      <4> QED
        BY <4>1, <4>2
    <3>3. Window(P \cup {q}, r, time, Minute + 1, 1, RouteMax)
      BY <2>2, <3>2, WindowBegins
    <3> QED
      BY <2>4, <3>1, <3>3
  <2>6. CASE ~(route[b].resetAt = Never \/ now > route[b].resetAt)
    <3>1. /\ route[b].count \in Nat /\ e.resetAt = route[b].resetAt
          /\ e.count = route[b].count + 1
      BY <1>3, <2>6, RouteEntryIs
    <3>2. PICK start \in Nat :
             /\ route[b].resetAt = start + Minute /\ start <= now
             /\ Window(P, s, start, Minute + 1, Least(route[b].count, RouteMax), RouteMax)
      BY <1>7, <1>9, <2>6 DEF RouteInv, RouteEntryOK
    <3>3. Least(route[b].count, RouteMax) = route[b].count
      BY <1>14, <3>1 DEF Least
    <3>4. start <= time /\ time < start + (Minute + 1)
      BY <1>6, <2>6, <3>2
    <3>5. Window(P \cup {q}, r, start, Minute + 1, route[b].count + 1, RouteMax)
      <4>1. Minute + 1 \in Nat /\ RouteMax \in Nat /\ time \in Nat
        OBVIOUS
      <4> QED
        BY <2>2, <3>1, <3>2, <3>3, <3>4, <4>1, WindowGoesOn
    <3>6. e.resetAt = start + Minute /\ e.count >= 1 /\ e.count \in Nat
      BY <3>1, <3>2
    <3> QED
      BY <2>4, <3>1, <3>4, <3>5, <3>6
  <2> QED
    BY <2>5, <2>6
<1> QED
  BY <1>4, <1>13, <1>14


-----------------------------------------------------------------------------
(* The counters of the forms; a purge leaves no entry, but then the last   *)
(* minute is quiet.                                                        *)
RateEntryOK(k) ==
  IF rate[k].minuteStart = Never
  THEN Quiet(RateOf(k), Stamp("rate"), now, MaxPerMinute)
  ELSE /\ rate[k].minuteStart <= now /\ rate[k].minuteCount >= 1
       /\ Window(RateOf(k), Stamp("rate"), rate[k].minuteStart, Minute,
                 Least(rate[k].minuteCount, MaxPerMinute), MaxPerMinute)

RateInv ==
  /\ RateOK /\ HourCounterIsMinuteCounter
  /\ \A k \in Keys : RateEntryOK(k) /\ Bursts(RateOf(k), Stamp("rate"), now, MaxPerMinute)

LEMMA RateKept ==
  ASSUME RequestInv, RequestInv', RateInv, StampsKept("rate"), UNCHANGED rate
  PROVE  RateInv'
<1>0. "rate" \in Checks
  BY DEF Checks
<1>1. now \in Nat /\ now' \in Nat /\ now <= now' /\ Stamp("rate")' = Stamp("rate")
  BY DEF RequestInv, RequestTypes, StampsKept
<1>2. \A k : RateOf(k)' = RateOf(k)
  <2>1. \A p \in Ids : /\ at'[p]["rate"] = at[p]["rate"]
                       /\ at[p]["rate"] # Never => Key(p)' = Key(p)
    BY <1>0, StampKeptAt DEF Key
  <2> QED
    BY <2>1 DEF RateOf
<1>3. ASSUME NEW k PROVE /\ RateOf(k) \in SUBSET Ids /\ Stamp("rate") \in [Ids -> Nat]
                         /\ \A q \in RateOf(k) : Stamp("rate")[q] <= now
  BY <1>0, StampTypes DEF RateOf
<1>4. ASSUME NEW k \in Keys PROVE RateEntryOK(k)'
  <2>1. RateEntryOK(k) /\ rate[k] \in Counter
    BY DEF RateInv, RateOK
  <2>2. Quiet(RateOf(k), Stamp("rate"), now, MaxPerMinute)
          => Quiet(RateOf(k), Stamp("rate"), now', MaxPerMinute)
    BY <1>1, <1>3, QuietLasts
  <2>3. rate[k].minuteStart <= now => rate[k].minuteStart <= now'
    BY <1>1, <2>1 DEF Counter
  <2> QED
    BY <1>1, <1>2, <2>1, <2>2, <2>3 DEF RateEntryOK
<1>5. ASSUME NEW k \in Keys PROVE Bursts(RateOf(k), Stamp("rate"), now, MaxPerMinute)'
  <2>1. Bursts(RateOf(k), Stamp("rate"), now, MaxPerMinute)
    BY DEF RateInv
  <2>2. Bursts(RateOf(k), Stamp("rate"), now', MaxPerMinute)
    BY <1>1, <1>3, <2>1, BurstsLast
  <2> QED
    BY <1>1, <1>2, <2>2
<1>6. RateOK' /\ HourCounterIsMinuteCounter'
  BY <1>1 DEF RateInv, RateOK, HourCounterIsMinuteCounter
<1> QED
  BY <1>4, <1>5, <1>6 DEF RateInv

LEMMA CountedIs ==
  ASSUME RateInv, NEW k \in Keys
  PROVE  LET e == Counted(HourElapsed(CurrentEntry(k))) IN
         /\ e \in Counter /\ Agree(e) /\ now - e.minuteStart <= Hour
         /\ rate[k] \in Counter /\ now \in Nat
         /\ IF rate[k].minuteStart = Never \/ now - rate[k].minuteStart >= Minute
            THEN e.minuteCount = 1 /\ e.minuteStart = now
            ELSE e.minuteCount = rate[k].minuteCount + 1 /\ e.minuteStart = rate[k].minuteStart
<1> DEFINE c == CurrentEntry(k)
           over == rate[k].minuteStart = Never \/ now - rate[k].minuteStart >= Minute
<1>1. rate[k] \in Counter /\ now \in Nat /\ Agree(rate[k])
  BY DEF RateInv, RateOK, HourCounterIsMinuteCounter, Agree
<1>2. /\ c \in Counter /\ Agree(c) /\ now - c.hourStart < Minute
      /\ IF over THEN c.minuteCount = 0 /\ c.minuteStart = now ELSE c = rate[k]
  <2>1. CASE over
    BY <1>1, <2>1 DEF CurrentEntry, Counter, Agree
  <2>2. CASE ~over
    <3>1. c = rate[k]
      BY <2>2 DEF CurrentEntry
    <3>2. now - c.hourStart < Minute
      BY <1>1, <2>2, <3>1 DEF Counter, Agree
    <3> QED
      BY <1>1, <2>2, <3>1, <3>2
  <2> QED
    BY <2>1, <2>2
<1> HIDE DEF c, over
<1>3. HourElapsed(c) = c /\ now - c.minuteStart <= Hour
  BY <1>1, <1>2 DEF HourElapsed, Counter, Agree
<1>4. /\ Counted(c) \in Counter /\ Agree(Counted(c))
      /\ Counted(c).minuteCount = c.minuteCount + 1 /\ Counted(c).minuteStart = c.minuteStart
  BY <1>2, CountedType DEF Counted, Counter
<1>5. IF over THEN Counted(c).minuteCount = 1 /\ Counted(c).minuteStart = now
      ELSE Counted(c).minuteCount = rate[k].minuteCount + 1 /\ Counted(c).minuteStart = rate[k].minuteStart
  BY <1>2, <1>4
<1> QED
  BY <1>1, <1>3, <1>4, <1>5 DEF c, over

(* A purge takes entries that are older than an hour.                      *)
LEMMA PurgeTakesOld ==
  ASSUME NEW store \in [Keys -> Counter], NEW k \in Keys
  PROVE  \/ Purged(store)[k] = store[k]
         \/ Purged(store)[k] = NoEntry /\ now - store[k].hourStart > Hour
  BY DEF Purged


LEMMA RateEntries ==
  ASSUME RequestInv, RateInv, NEW q \in Ids, CheckFormRateLimit(q),
         NEW b \in Keys, b = Key(q), NEW e, e = Counted(HourElapsed(CurrentEntry(b)))
  PROVE  /\ rate'[b] = e /\ rate' \in [Keys -> Counter] /\ HourCounterIsMinuteCounter'
         /\ \A k \in Keys : k # b =>
               \/ rate'[k] = rate[k]
               \/ rate'[k] = NoEntry /\ now - rate[k].minuteStart > Hour
<1> DEFINE store == [rate EXCEPT ![b] = e]
<1>1. rate' = Purged(store)
  BY DEF CheckFormRateLimit
<1>2. /\ e \in Counter /\ Agree(e) /\ now - e.minuteStart <= Hour /\ now \in Nat
  BY CountedIs
<1>3. \A k \in Keys : rate[k] \in Counter /\ Agree(rate[k])
  BY DEF RateInv, RateOK, HourCounterIsMinuteCounter, Agree
<1>4. /\ store \in [Keys -> Counter] /\ store[b] = e
      /\ \A k \in Keys : k # b => store[k] = rate[k]
  BY <1>2 DEF RateInv, RateOK
<1> HIDE DEF store
<1>5. \A k \in Keys : Agree(store[k])
  BY <1>2, <1>3, <1>4
<1>6. rate' \in [Keys -> Counter] /\ HourCounterIsMinuteCounter'
  <2>1. Purged(store) \in [Keys -> Counter] /\ \A k \in Keys : Agree(Purged(store)[k])
    BY <1>4, <1>5, PurgedAgrees
  <2> QED
    BY <1>1, <2>1 DEF HourCounterIsMinuteCounter, Agree
<1>7. ~(now - e.hourStart > Hour)
  BY <1>2 DEF Agree, Counter
<1>8. rate'[b] = e
  BY <1>1, <1>4, <1>7, PurgeTakesOld
<1>9. ASSUME NEW k \in Keys, k # b
      PROVE  \/ rate'[k] = rate[k]
             \/ rate'[k] = NoEntry /\ now - rate[k].minuteStart > Hour
  <2>1. store[k] = rate[k] /\ rate[k].hourStart = rate[k].minuteStart
    BY <1>3, <1>4, <1>9 DEF Agree
  <2> QED
    BY <1>1, <1>4, <2>1, PurgeTakesOld
<1> QED
  BY <1>6, <1>8, <1>9

(* A form's window that has passed, or none, is quiet.                     *)
LEMMA RateQuiet ==
  ASSUME RequestInv, RateInv, NEW k \in Keys,
         rate[k].minuteStart = Never \/ now - rate[k].minuteStart >= Minute
  PROVE  Quiet(RateOf(k), Stamp("rate"), now, MaxPerMinute)
<1>0. /\ rate[k] \in Counter /\ now \in Nat /\ RateEntryOK(k)
      /\ RateOf(k) \in SUBSET Ids /\ Stamp("rate") \in [Ids -> Nat]
  BY StampTypes DEF RateInv, RateOK, RateOf, Checks
<1>1. CASE rate[k].minuteStart = Never
  BY <1>0, <1>1 DEF RateEntryOK
<1>2. CASE rate[k].minuteStart # Never
  <2>1. Window(RateOf(k), Stamp("rate"), rate[k].minuteStart, Minute,
               Least(rate[k].minuteCount, MaxPerMinute), MaxPerMinute)
    BY <1>0, <1>2 DEF RateEntryOK
  <2>2. /\ Least(rate[k].minuteCount, MaxPerMinute) \in Nat
        /\ Least(rate[k].minuteCount, MaxPerMinute) <= MaxPerMinute
        /\ rate[k].minuteStart \in Nat /\ rate[k].minuteStart + Minute <= now
    BY <1>0, <1>2 DEF Least, Counter
  <2>3. Minute \in Nat /\ MaxPerMinute \in Nat /\ Minute <= Minute
    OBVIOUS
  <2> QED
    BY <1>0, <2>1, <2>2, <2>3, WindowEnds
<1> QED
  BY <1>1, <1>2

LEMMA RateStep ==
  ASSUME RequestInv, RequestInv', RateInv, NEW q \in Ids, CheckFormRateLimit(q)
  PROVE  RateInv'
<1>0. "rate" \in Checks /\ CheckAction("rate", q)
  BY DEF Checks, CheckAction
<1>1. /\ UNCHANGED <<now, arrived, ip, form, content>> /\ at[q]["rate"] = Never
      /\ \A p \in Ids : p # q => at'[p]["rate"] = at[p]["rate"]
      /\ \A p \in Ids : Key(p)' = Key(p)
  BY <1>0, CheckWalks DEF Key
<1>2. PICK b \in Keys : b = Key(q)
  BY DEF CheckFormRateLimit, RequestInv, RequestTypes, Unarrived, Key, Keys
<1>3. PICK e \in Counter : e = Counted(HourElapsed(CurrentEntry(b)))
  BY CountedIs
<1>4. IF e.minuteCount > MaxPerMinute \/ e.hourCount > MaxPerHour
      THEN Refuse(q, "tooMany") ELSE Pass(q, "rate", "dedup")
  BY <1>2, <1>3 DEF CheckFormRateLimit
<1>5. /\ rate'[b] = e /\ rate' \in [Keys -> Counter] /\ HourCounterIsMinuteCounter'
      /\ \A k \in Keys : k # b =>
            \/ rate'[k] = rate[k]
            \/ rate'[k] = NoEntry /\ now - rate[k].minuteStart > Hour
  BY <1>2, <1>3, RateEntries
<1>6. PICK time \in Nat \ {0} : time = now
  BY DEF RequestInv, RequestTypes
<1>7. PICK s \in [Ids -> Nat] : s = Stamp("rate") /\ \A p \in Ids : s[p] = at[p]["rate"] /\ s[p] <= now
  BY <1>0, StampTypes
<1>8. PICK r \in [Ids -> Nat] : r = Stamp("rate")' /\ \A p \in Ids : r[p] = at'[p]["rate"]
  <2>1. Stamp("rate")' \in [Ids -> Nat]
    BY DEF RequestInv, RequestTypes, Stamp, Checks
  <2>2. \A p \in Ids : Stamp("rate")'[p] = at'[p]["rate"]
    BY DEF Stamp
  <2> QED
    BY <2>1, <2>2
<1>9. PICK P \in SUBSET Ids : P = RateOf(b)
  BY DEF RateOf
<1>10. q \notin P /\ \A p \in Ids \ {q} : r[p] = s[p]
  BY <1>1, <1>7, <1>8, <1>9 DEF RateOf
<1>11. RateOK' /\ HourCounterIsMinuteCounter'
  BY <1>1, <1>5 DEF RateInv, RateOK
(* The other keys, of which a purge may take the entry.                    *)
<1>12. ASSUME NEW k \in Keys, k # b
       PROVE  (RateEntryOK(k) /\ Bursts(RateOf(k), Stamp("rate"), now, MaxPerMinute))'
  <2>1. RateOf(k)' = RateOf(k) /\ q \notin RateOf(k) /\ RateOf(k) \in SUBSET Ids
    BY <1>1, <1>2, <1>12 DEF RateOf
  <2>2. \A p \in RateOf(k) : r[p] = s[p]
    BY <1>10, <2>1
  <2>3. RateEntryOK(k) /\ Bursts(RateOf(k), s, now, MaxPerMinute)
    BY <1>7 DEF RateInv
  <2>4. Bursts(RateOf(k), r, now, MaxPerMinute)
    BY <2>2, <2>3, SameWindows
  <2>5. /\ Quiet(RateOf(k), s, now, MaxPerMinute) => Quiet(RateOf(k), r, now, MaxPerMinute)
        /\ \A start, n : Window(RateOf(k), s, start, Minute, n, MaxPerMinute)
                           => Window(RateOf(k), r, start, Minute, n, MaxPerMinute)
    BY <2>2, SameWindows
  <2>6. RateEntryOK(k)'
    <3>1. CASE rate'[k] = rate[k]
      BY <1>1, <1>7, <1>8, <2>1, <2>3, <2>5, <3>1 DEF RateEntryOK
    <3>2. CASE rate'[k] = NoEntry /\ now - rate[k].minuteStart > Hour
      <4>1. rate[k].minuteStart \in Nat /\ now \in Nat
        BY DEF RateInv, RateOK, Counter
      <4>2. Quiet(RateOf(k), s, now, MaxPerMinute)
        BY <1>7, <3>2, <4>1, RateQuiet
      <4>3. rate'[k].minuteStart = Never
        BY <3>2 DEF NoEntry
      <4> QED
        BY <1>1, <1>8, <2>1, <2>5, <4>2, <4>3 DEF RateEntryOK
    <3> QED
      BY <1>5, <1>12, <3>1, <3>2
  <2> QED
    BY <1>1, <1>8, <2>1, <2>4, <2>6
(* The key of the request.                                                 *)
<1>13. Bursts(P, s, time, MaxPerMinute)
  BY <1>6, <1>7, <1>9 DEF RateInv
<1> DEFINE over == rate[b].minuteStart = Never \/ now - rate[b].minuteStart >= Minute
<1>14. /\ IF over THEN e.minuteCount = 1 /\ e.minuteStart = now
          ELSE e.minuteCount = rate[b].minuteCount + 1 /\ e.minuteStart = rate[b].minuteStart
       /\ rate[b] \in Counter /\ Agree(e)
  BY <1>3, CountedIs
<1>15. ~over => /\ rate[b].minuteStart # Never /\ rate[b].minuteStart <= now
                /\ rate[b].minuteStart \in Nat /\ now < rate[b].minuteStart + Minute
                /\ Window(P, s, rate[b].minuteStart, Minute,
                          Least(rate[b].minuteCount, MaxPerMinute), MaxPerMinute)
  <2>1. rate[b].minuteStart # Never =>
           /\ rate[b].minuteStart <= now
           /\ Window(P, s, rate[b].minuteStart, Minute,
                     Least(rate[b].minuteCount, MaxPerMinute), MaxPerMinute)
    BY <1>7, <1>9 DEF RateInv, RateEntryOK
  <2>2. rate[b].minuteStart \in Nat /\ now \in Nat
    BY <1>6, <1>14 DEF Counter
  <2>3. ~over => rate[b].minuteStart # Never /\ now - rate[b].minuteStart < Minute
    BY <2>2
  <2>4. now - rate[b].minuteStart < Minute => now < rate[b].minuteStart + Minute
    BY <2>2
  <2> QED
    BY <2>1, <2>2, <2>3, <2>4
<1>16. over => Quiet(P, s, time, MaxPerMinute)
  BY <1>6, <1>7, <1>9, RateQuiet
<1> HIDE DEF over
<1>17. CASE Refuse(q, "tooMany") /\ (e.minuteCount > MaxPerMinute \/ e.hourCount > MaxPerHour)
  <2>1. at' = at /\ r = s
    BY <1>7, <1>8, <1>17 DEF Refuse, Stamp
  <2>2. RateOf(b)' = P
    BY <1>1, <1>9, <2>1 DEF RateOf
  <2>3. ~over
    BY <1>14, <1>17 DEF Agree
  <2>4. /\ Least(rate[b].minuteCount, MaxPerMinute) \in Nat /\ Least(e.minuteCount, MaxPerMinute) \in Nat
        /\ Least(rate[b].minuteCount, MaxPerMinute) <= Least(e.minuteCount, MaxPerMinute)
        /\ e.minuteCount >= 1
    BY <1>14, <2>3 DEF Least, Counter
  <2>5. Window(P, s, rate[b].minuteStart, Minute, Least(e.minuteCount, MaxPerMinute), MaxPerMinute)
    BY <1>15, <2>3, <2>4, WindowWidens
  <2>6. RateEntryOK(b)'
    BY <1>1, <1>5, <1>8, <1>14, <1>15, <2>1, <2>2, <2>3, <2>4, <2>5 DEF RateEntryOK
  <2>7. Bursts(RateOf(b), Stamp("rate"), now, MaxPerMinute)'
    BY <1>1, <1>6, <1>8, <1>13, <2>1, <2>2
  <2> QED
    BY <1>11, <1>12, <2>6, <2>7 DEF RateInv
<1>18. CASE Pass(q, "rate", "dedup") /\ e.minuteCount <= MaxPerMinute
  <2>1. r[q] = time
    <3>1. at' = [at EXCEPT ![q]["rate"] = now]
      BY <1>18 DEF Pass
    <3> QED
      BY <1>0, <1>6, <1>8, <3>1 DEF RequestInv, RequestTypes
  <2>2. PassesAt(P, s, q, r, time)
    BY <1>10, <2>1 DEF PassesAt
  <2>3. RateOf(b)' = P \cup {q}
    <3>1. at'[q]["rate"] # Never
      BY <1>6, <1>8, <2>1
    <3> QED
      BY <1>1, <1>2, <1>9, <3>1 DEF RateOf
  <2>4. ASSUME NEW start \in Nat, NEW n \in Nat, start # Never, start <= time,
               e.minuteStart = start, n = e.minuteCount, n >= 1,
               Window(P \cup {q}, r, start, Minute, n, MaxPerMinute)
        PROVE  RateInv'
    <3>1. Least(e.minuteCount, MaxPerMinute) = n /\ n <= MaxPerMinute
      BY <1>18, <2>4 DEF Least
    <3>2. RateEntryOK(b)'
      BY <1>1, <1>5, <1>6, <1>8, <2>3, <2>4, <3>1 DEF RateEntryOK
    <3>3. Bursts(P \cup {q}, r, time, MaxPerMinute)
      BY <1>13, <2>2, <2>4, <3>1, BurstsGoOn
    <3>4. Bursts(RateOf(b), Stamp("rate"), now, MaxPerMinute)'
      BY <1>1, <1>6, <1>8, <2>3, <3>3
    <3> QED
      BY <1>11, <1>12, <3>2, <3>4 DEF RateInv
  <2>5. CASE over
    <3>1. e.minuteCount = 1 /\ e.minuteStart = time
      BY <1>6, <1>14, <2>5
    <3>2. Window(P \cup {q}, r, time, Minute, 1, MaxPerMinute)
      BY <1>16, <2>2, <2>5, WindowBegins
    <3> QED
      BY <2>4, <3>1, <3>2
  <2>6. CASE ~over
    <3>1. /\ e.minuteCount = rate[b].minuteCount + 1 /\ e.minuteStart = rate[b].minuteStart
          /\ rate[b].minuteCount \in Nat
      BY <1>14, <2>6 DEF Counter
    <3>2. Least(rate[b].minuteCount, MaxPerMinute) = rate[b].minuteCount
      BY <1>18, <3>1 DEF Least
    <3>3. Minute \in Nat /\ MaxPerMinute \in Nat
      OBVIOUS
    <3>4. Window(P \cup {q}, r, rate[b].minuteStart, Minute, rate[b].minuteCount + 1, MaxPerMinute)
      BY <1>6, <1>15, <2>2, <2>6, <3>1, <3>2, <3>3, WindowGoesOn
    <3>5. rate[b].minuteStart <= time /\ e.minuteCount >= 1 /\ e.minuteCount \in Nat
      BY <1>6, <1>15, <2>6, <3>1
    <3> QED
      BY <1>15, <2>4, <2>6, <3>1, <3>4, <3>5
  <2> QED
    BY <2>5, <2>6
<1>19. e.minuteCount \in Nat
  BY DEF Counter
<1> QED
  BY <1>4, <1>17, <1>18, <1>19

(* The windows of both limiters, at first; and those of the forms'         *)
(* counters in every step.                                                 *)
LEMMA WindowsInit == Init => RouteInv /\ RateInv
<1> SUFFICES ASSUME Init PROVE RouteInv /\ RateInv
  OBVIOUS
<1>1. now = 1 /\ \A q \in Ids : at[q]["route"] = Never /\ at[q]["rate"] = Never
  BY DEF Init, Checks
<1>2. (\A a : RouteOf(a) = {}) /\ (\A k : RateOf(k) = {})
  BY <1>1 DEF RouteOf, RateOf
<1>3. /\ \A a : Bursts(RouteOf(a), Stamp("route"), now, RouteMax)
      /\ \A k : /\ Bursts(RateOf(k), Stamp("rate"), now, MaxPerMinute)
                /\ Quiet(RateOf(k), Stamp("rate"), now, MaxPerMinute)
  BY <1>1, <1>2, NothingPassed
<1>4. RouteInv
  BY <1>2, <1>3 DEF Init, RouteInv, RouteEntryOK
<1>5. RateInv
  BY <1>3 DEF Init, RateInv, RateEntryOK, RateOK, Counter, NoEntry, HourCounterIsMinuteCounter
<1> QED
  BY <1>4, <1>5

LEMMA RateNext == RequestInv /\ RequestInv' /\ RateInv /\ [Next]_vars => RateInv'
<1> SUFFICES ASSUME RequestInv, RequestInv', RateInv, [Next]_vars PROVE RateInv'
  OBVIOUS
<1>1. ASSUME NEW q \in Ids, CheckAction("rate", q) PROVE RateInv'
  BY <1>1, RateStep DEF CheckAction
<1>2. CASE ~\E q \in Ids : CheckAction("rate", q)
  <2>1. StampsKept("rate")
    BY <1>2, RequestStep DEF Checks
  <2>2. UNCHANGED rate
    BY <1>2 DEF Next, Check, CheckAction, Arrive, CheckDuplicateSubmit, CheckRateLimit,
                OtherCheck, RouteCheck, Cleanup, Tick, vars
  <2> QED
    BY <2>1, <2>2, RateKept
<1> QED
  BY <1>1, <1>2

(* No minute sees twice the limit of the route for an address, or twice    *)
(* the limit of a form for a form and an address: for all limits, any      *)
(* number of requests and whatever the purges take.                        *)
THEOREM BurstsAreBounded == Spec => []BurstsBounded
<1>1. Init => RouteInv /\ RateInv
  BY WindowsInit
<1>2. RequestInv /\ [Next]_vars => RequestInv'
  BY RequestStep DEF Checks
<1>3. RequestInv /\ RequestInv' /\ RouteInv /\ [Next]_vars => RouteInv'
  <2> SUFFICES ASSUME RequestInv, RequestInv', RouteInv, [Next]_vars PROVE RouteInv'
    OBVIOUS
  <2>1. ASSUME NEW q \in Ids, CheckAction("route", q) PROVE RouteInv'
    BY <2>1, RouteStep DEF CheckAction
  <2>2. CASE ~\E q \in Ids : CheckAction("route", q)
    <3>1. StampsKept("route")
      BY <2>2, RequestStep DEF Checks
    <3>2. UNCHANGED route
      BY <2>2 DEF Next, Check, CheckAction, Arrive, CheckDuplicateSubmit, CheckRateLimit,
                  OtherCheck, CheckFormRateLimit, Cleanup, Tick, vars
    <3> QED
      BY <3>1, <3>2, RouteKept
  <2> QED
    BY <2>1, <2>2
<1>4. RequestInv /\ RequestInv' /\ RateInv /\ [Next]_vars => RateInv'
  BY RateNext
<1>5. RouteInv /\ RateInv => BurstsBounded
  <2>1. ASSUME NEW t \in 1..now, NEW a
        PROVE  {q \in Within("route", t, Minute) : ip[q] = a}
                  = Between(RouteOf(a), Stamp("route"), t, t + Minute)
    BY DEF Within, Passed, Between, RouteOf, Stamp
  <2>2. ASSUME NEW t \in 1..now, NEW k
        PROVE  {q \in Within("rate", t, Minute) : Key(q) = k}
                  = Between(RateOf(k), Stamp("rate"), t, t + Minute)
    BY DEF Within, Passed, Between, RateOf, Stamp
  <2> SUFFICES ASSUME RouteInv, RateInv, NEW t \in 1..now
               PROVE  /\ \A a \in Ips :
                            Cardinality({q \in Within("route", t, Minute) : ip[q] = a}) < 2 * RouteMax
                      /\ \A k \in Keys :
                            Cardinality({q \in Within("rate", t, Minute) : Key(q) = k}) < 2 * MaxPerMinute
    BY DEF BurstsBounded
  <2>3. \A a \in Ips : Cardinality(Between(RouteOf(a), Stamp("route"), t, t + Minute)) < 2 * RouteMax
    BY DEF RouteInv, Bursts
  <2>4. \A k \in Keys : Cardinality(Between(RateOf(k), Stamp("rate"), t, t + Minute)) < 2 * MaxPerMinute
    BY DEF RateInv, Bursts
  <2> QED
    BY <2>1, <2>2, <2>3, <2>4
<1> QED
  BY <1>1, <1>2, <1>3, <1>4, <1>5, RequestInit, PTL DEF Spec


-----------------------------------------------------------------------------
(* Refusals.  Every time and every note the checks keep is that of a       *)
(* submission that passed, and the minute counter of a form counts no      *)
(* more, up to its limit, than passed in its window: a refused request is  *)
(* counted only when the limit is reached.                                 *)
LastIsStamp ==
  \A a \in Ips : last[a] # Never => \E p \in Ids : ip[p] = a /\ at[p]["gap"] = last[a]

NoteIsStamp ==
  \A m \in dedup : \E p \in Ids :
     /\ m[3] # Never /\ at[p]["dedup"] = m[3] /\ Key(p) = m[1] /\ content[p] = m[2]

CountsPassed ==
  \A k \in Keys : rate[k].minuteStart # Never =>
     Least(rate[k].minuteCount, MaxPerMinute)
        <= Cardinality(From(RateOf(k), Stamp("rate"), rate[k].minuteStart))

(* What a check leaves of the requests, as the next three lemmas use it.   *)
LEMMA OthersKept ==
  ASSUME RequestInv, NEW q \in Ids, NEW check \in Checks, CheckAction(check, q)
  PROVE  /\ at[q][check] = Never /\ ip[q] \in Ips /\ Key(q) \in Keys
         /\ UNCHANGED <<ip, form, content>>
         /\ \A p \in Ids : p # q => at'[p][check] = at[p][check]
         /\ \A p \in Ids : Key(p)' = Key(p)
<1>1. /\ pc[q] = check /\ UNCHANGED <<ip, form, content>> /\ at[q][check] = Never
      /\ \/ at' = at
         \/ /\ at'[q][check] = now
            /\ \A p \in Ids, c \in Checks : p # q \/ c # check => at'[p][c] = at[p][c]
  BY CheckWalks
<1>2. ip[q] \in Ips /\ form[q] \in Forms
  BY <1>1 DEF RequestInv, Unarrived, Checks
<1>3. Key(q) \in Keys
  BY <1>2 DEF Key, Keys
<1>4. \A p \in Ids : Key(p)' = Key(p)
  BY <1>1 DEF Key
<1>5. \A p \in Ids : p # q => at'[p][check] = at[p][check]
  BY <1>1
<1> QED
  BY <1>1, <1>2, <1>3, <1>4, <1>5

LEMMA LastStep == RequestInv /\ LastIsStamp /\ last \in [Ips -> Nat] /\ [Next]_vars
                    => LastIsStamp' /\ last' \in [Ips -> Nat]
<1> SUFFICES ASSUME RequestInv, LastIsStamp, last \in [Ips -> Nat], [Next]_vars
             PROVE  LastIsStamp' /\ last' \in [Ips -> Nat]
  OBVIOUS
<1>0. "gap" \in Checks /\ now \in Nat
  BY DEF Checks, RequestInv, RequestTypes
<1>1. CASE \E q \in Ids : CheckAction("gap", q)
  <2>1. PICK q \in Ids : CheckRateLimit(q)
    BY <1>1 DEF CheckAction
  <2>2. /\ UNCHANGED ip /\ ip[q] \in Ips /\ at[q]["gap"] = Never
        /\ \A p \in Ids : p # q => at'[p]["gap"] = at[p]["gap"]
    BY <1>0, <2>1, OthersKept DEF CheckAction
  <2>3. CASE last' = last /\ at' = at
    BY <2>2, <2>3 DEF LastIsStamp
  <2>4. CASE last' = [last EXCEPT ![ip[q]] = now] /\ at' = [at EXCEPT ![q]["gap"] = now]
    <3>1. at'[q]["gap"] = now
      BY <1>0, <2>4 DEF RequestInv, RequestTypes
    <3> QED
      BY <1>0, <2>2, <2>4, <3>1 DEF LastIsStamp
  <2> QED
    BY <2>1, <2>3, <2>4 DEF CheckRateLimit, Pass, Refuse
<1>2. CASE ~\E q \in Ids : CheckAction("gap", q)
  <2>1. StampsKept("gap")
    BY <1>0, <1>2, RequestStep
  <2>2. \A p \in Ids : at'[p]["gap"] = at[p]["gap"] /\ (at[p]["gap"] # Never => ip'[p] = ip[p])
    BY <1>0, <2>1, StampKeptAt
  <2>3. last' = last \/ last' = [a \in Ips |-> IF now - last[a] > Keep THEN Never ELSE last[a]]
    BY <1>2 DEF Next, Check, CheckAction, Arrive, RouteCheck, CheckDuplicateSubmit, OtherCheck,
                CheckFormRateLimit, Cleanup, Tick, vars
  <2>4. last' \in [Ips -> Nat] /\ \A a \in Ips : last'[a] = last[a] \/ last'[a] = Never
    BY <2>3
  <2> QED
    BY <2>2, <2>4 DEF LastIsStamp
<1> QED
  BY <1>1, <1>2

LEMMA NoteStep == RequestInv /\ NoteIsStamp /\ [Next]_vars => NoteIsStamp'
<1> SUFFICES ASSUME RequestInv, NoteIsStamp, [Next]_vars PROVE NoteIsStamp'
  OBVIOUS
<1>0. "dedup" \in Checks /\ now \in Nat \ {0}
  BY DEF Checks, RequestInv, RequestTypes
<1>1. CASE \E q \in Ids : CheckAction("dedup", q)
  <2>1. PICK q \in Ids : CheckDuplicateSubmit(q)
    BY <1>1 DEF CheckAction
  <2>2. /\ at[q]["dedup"] = Never
        /\ \A p \in Ids : /\ p # q => at'[p]["dedup"] = at[p]["dedup"]
                          /\ Key(p)' = Key(p) /\ content'[p] = content[p]
    BY <1>0, <2>1, OthersKept DEF CheckAction
  <2>3. CASE dedup' = dedup
    BY <2>2, <2>3 DEF NoteIsStamp
  <2>4. CASE dedup' \subseteq dedup \cup {<<Key(q), content[q], now>>} /\ Pass(q, "dedup", "accepted")
    <3>1. at'[q]["dedup"] = now
      BY <1>0, <2>4 DEF Pass, RequestInv, RequestTypes
    <3>2. \A m \in dedup' : m \in dedup \/ (m[1] = Key(q) /\ m[2] = content[q] /\ m[3] = now)
      BY <2>4
    <3>3. ASSUME NEW m \in dedup'
          PROVE  \E p \in Ids : /\ m[3] # Never /\ at'[p]["dedup"] = m[3]
                                /\ Key(p)' = m[1] /\ content'[p] = m[2]
      <4>1. CASE m \in dedup
        BY <2>2, <4>1 DEF NoteIsStamp
      <4>2. CASE m[1] = Key(q) /\ m[2] = content[q] /\ m[3] = now
        BY <1>0, <2>2, <3>1, <4>2
      <4> QED
        BY <3>2, <4>1, <4>2
    <3> QED
      BY <3>3 DEF NoteIsStamp
  <2>5. \/ dedup' = dedup
        \/ dedup' \subseteq dedup \cup {<<Key(q), content[q], now>>} /\ Pass(q, "dedup", "accepted")
    BY <2>1 DEF CheckDuplicateSubmit
  <2> QED
    BY <2>3, <2>4, <2>5
<1>2. CASE ~\E q \in Ids : CheckAction("dedup", q)
  <2>1. StampsKept("dedup")
    BY <1>0, <1>2, RequestStep
  <2>2. \A p \in Ids : /\ at'[p]["dedup"] = at[p]["dedup"]
                       /\ at[p]["dedup"] # Never => Key(p)' = Key(p) /\ content'[p] = content[p]
    BY <1>0, <2>1, StampKeptAt DEF Key
  <2>3. dedup' = dedup
    BY <1>2 DEF Next, Check, CheckAction, Arrive, RouteCheck, CheckRateLimit, OtherCheck,
                CheckFormRateLimit, Cleanup, Tick, vars
  <2> QED
    BY <2>2, <2>3 DEF NoteIsStamp
<1> QED
  BY <1>1, <1>2

LEMMA CountStep ==
  ASSUME RequestInv, RequestInv', RateInv, MaxPerMinute <= MaxPerHour, CountsPassed, [Next]_vars
  PROVE  CountsPassed'
<1>0. "rate" \in Checks
  BY DEF Checks
<1>1. CASE \E q \in Ids : CheckAction("rate", q)
  <2>1. PICK q \in Ids : CheckFormRateLimit(q)
    BY <1>1 DEF CheckAction
  <2>2. /\ at[q]["rate"] = Never
        /\ \A p \in Ids : p # q => at'[p]["rate"] = at[p]["rate"]
        /\ \A p \in Ids : Key(p)' = Key(p)
    BY <1>0, <2>1, OthersKept DEF CheckAction
  <2>3. PICK b \in Keys : b = Key(q)
    BY <2>1 DEF CheckFormRateLimit, RequestInv, RequestTypes, Unarrived, Key, Keys
  <2>4. PICK e \in Counter : e = Counted(HourElapsed(CurrentEntry(b)))
    BY CountedIs
  <2>5. IF e.minuteCount > MaxPerMinute \/ e.hourCount > MaxPerHour
        THEN Refuse(q, "tooMany") ELSE Pass(q, "rate", "dedup")
    BY <2>1, <2>3, <2>4 DEF CheckFormRateLimit
  <2>6. /\ rate'[b] = e
        /\ \A k \in Keys : k # b => rate'[k] = rate[k] \/ rate'[k] = NoEntry
    BY <2>1, <2>3, <2>4, RateEntries
  <2>7. /\ IF rate[b].minuteStart = Never \/ now - rate[b].minuteStart >= Minute
           THEN e.minuteCount = 1 /\ e.minuteStart = now
           ELSE e.minuteCount = rate[b].minuteCount + 1 /\ e.minuteStart = rate[b].minuteStart
        /\ rate[b] \in Counter /\ Agree(e)
    BY <2>4, CountedIs
  <2>8. /\ Stamp("rate") \in [Ids -> Nat]
        /\ \A p \in Ids : Stamp("rate")[p] = at[p]["rate"] /\ Stamp("rate")[p] <= now
        /\ \A p \in Ids : Stamp("rate")'[p] = at'[p]["rate"]
        /\ now \in Nat \ {0}
    BY <1>0, StampTypes DEF Stamp
  <2>9. ASSUME NEW k \in Keys, k # b, rate'[k].minuteStart # Never
        PROVE  (Least(rate[k].minuteCount, MaxPerMinute)
                  <= Cardinality(From(RateOf(k), Stamp("rate"), rate[k].minuteStart)))'
    <3>1. rate'[k] = rate[k]
      BY <2>6, <2>9 DEF NoEntry
    <3>2. RateOf(k)' = RateOf(k) /\ q \notin RateOf(k)
      BY <2>2, <2>3, <2>9 DEF RateOf
    <3>3. \A p \in RateOf(k) : Stamp("rate")'[p] = Stamp("rate")[p]
      BY <2>2, <2>8, <3>2 DEF RateOf
    <3>4. \A t : From(RateOf(k), Stamp("rate")', t) = From(RateOf(k), Stamp("rate"), t)
      BY <3>3, SameStamps
    <3> QED
      BY <2>9, <3>1, <3>2, <3>4 DEF CountsPassed
  <2>10. (Least(rate[b].minuteCount, MaxPerMinute)
             <= Cardinality(From(RateOf(b), Stamp("rate"), rate[b].minuteStart)))'
    <3> DEFINE start == rate[b].minuteStart
    <3>1. CASE e.minuteCount > MaxPerMinute
      <4>1. /\ start # Never /\ e.minuteStart = start /\ rate[b].minuteCount >= MaxPerMinute
        BY <2>7, <3>1 DEF Counter
      <4>2. at' = at
        BY <2>5, <3>1 DEF Refuse
      <4>3. RateOf(b)' = RateOf(b) /\ Stamp("rate")' = Stamp("rate")
        BY <2>2, <4>2 DEF RateOf, Stamp
      <4>4. Least(rate[b].minuteCount, MaxPerMinute) = Least(e.minuteCount, MaxPerMinute)
        BY <2>7, <3>1, <4>1 DEF Least, Counter
      <4>5. Least(rate[b].minuteCount, MaxPerMinute)
              <= Cardinality(From(RateOf(b), Stamp("rate"), start))
        BY <4>1 DEF CountsPassed
      <4> QED
        BY <2>6, <4>1, <4>3, <4>4, <4>5
    <3>2. CASE e.minuteCount <= MaxPerMinute
      <4>1. Pass(q, "rate", "dedup")
        BY <2>5, <2>7, <3>2 DEF Agree, Counter
      <4>2. at'[q]["rate"] = now
        BY <1>0, <4>1 DEF Pass, RequestInv, RequestTypes
      <4>3. RateOf(b)' = RateOf(b) \cup {q} /\ q \notin RateOf(b) /\ RateOf(b) \in SUBSET Ids
        BY <2>2, <2>3, <2>8, <4>2 DEF RateOf
      <4>4. \A p \in RateOf(b) : Stamp("rate")'[p] = Stamp("rate")[p]
        BY <2>2, <2>8, <4>3 DEF RateOf
      <4>5. rate[b].minuteStart # Never => rate[b].minuteStart <= now
        BY DEF RateInv, RateEntryOK
      <4>6. PICK t \in Nat : t = e.minuteStart /\ t <= now
        BY <2>7, <2>8, <4>5 DEF Counter
      <4>7. From(RateOf(b)', Stamp("rate")', t) = From(RateOf(b), Stamp("rate"), t) \cup {q}
        BY <2>8, <4>2, <4>3, <4>4, <4>6 DEF From
      <4>8. q \notin From(RateOf(b), Stamp("rate"), t) /\ From(RateOf(b), Stamp("rate"), t) \in SUBSET Ids
        BY <4>3 DEF From
      <4>9. /\ Cardinality(From(RateOf(b), Stamp("rate"), t)) \in Nat
            /\ Cardinality(From(RateOf(b), Stamp("rate"), t) \cup {q})
                 = Cardinality(From(RateOf(b), Stamp("rate"), t)) + 1
        BY <4>8, Cards, FS_AddElement
      <4>10. e.minuteCount <= Cardinality(From(RateOf(b), Stamp("rate"), t)) + 1
        <5>1. CASE e.minuteCount = 1
          BY <4>9, <5>1
        <5>2. CASE e.minuteCount # 1
          <6>1. /\ e.minuteCount = rate[b].minuteCount + 1 /\ t = start /\ start # Never
                /\ rate[b].minuteCount \in Nat
            BY <2>7, <4>6, <5>2 DEF Counter
          <6>2. Least(rate[b].minuteCount, MaxPerMinute) = rate[b].minuteCount
            BY <3>2, <6>1 DEF Least
          <6>3. rate[b].minuteCount <= Cardinality(From(RateOf(b), Stamp("rate"), start))
            BY <6>1, <6>2 DEF CountsPassed
          <6> QED
            BY <4>9, <6>1, <6>3
        <5> QED
          BY <5>1, <5>2
      <4>11. Least(e.minuteCount, MaxPerMinute) = e.minuteCount
        BY <3>2 DEF Least
      <4> QED
        BY <2>6, <4>6, <4>7, <4>9, <4>10, <4>11
    <3>3. e.minuteCount \in Nat
      BY DEF Counter
    <3> QED
      BY <3>1, <3>2, <3>3
  <2> QED
    BY <2>9, <2>10 DEF CountsPassed
<1>2. CASE ~\E q \in Ids : CheckAction("rate", q)
  <2>1. StampsKept("rate")
    BY <1>0, <1>2, RequestStep
  <2>2. \A k : RateOf(k)' = RateOf(k)
    <3>1. \A p \in Ids : /\ at'[p]["rate"] = at[p]["rate"]
                         /\ at[p]["rate"] # Never => Key(p)' = Key(p)
      BY <1>0, <2>1, StampKeptAt DEF Key
    <3> QED
      BY <3>1 DEF RateOf
  <2>3. rate' = rate
    BY <1>2 DEF Next, Check, CheckAction, Arrive, RouteCheck, CheckRateLimit, OtherCheck,
                CheckDuplicateSubmit, Cleanup, Tick, vars
  <2> QED
    BY <2>1, <2>2, <2>3 DEF CountsPassed, StampsKept
<1> QED
  BY <1>1, <1>2


(* Only the check a request is at refuses it with the check's reason.      *)
LEMMA RefusedThere ==
  ASSUME RequestInv, [Next]_vars, NEW q \in Ids, NEW check, NEW why,
         <<check, why>> \in {<<"gap", "tooSoon">>, <<"rate", "tooMany">>, <<"dedup", "duplicate">>},
         pc[q] = check, pc'[q] = why
  PROVE  CheckAction(check, q)
<1>0. pc \in [Ids -> Places] /\ check # why /\ why # "route" /\ why # "other" /\ check # "route"
  BY DEF RequestInv, RequestTypes
<1>1. ASSUME NEW a, NEW f, NEW d, Arrive(a, f, d) PROVE FALSE
  BY <1>0, <1>1 DEF Arrive
<1>2. ASSUME NEW p \in Ids, p # q, Check(p) PROVE FALSE
  <2>1. \E place : pc' = [pc EXCEPT ![p] = place]
    BY <1>2 DEF Check, RouteCheck, CheckRateLimit, OtherCheck, CheckFormRateLimit,
                CheckDuplicateSubmit, Pass, Refuse
  <2> QED
    BY <1>0, <1>2, <2>1
<1>3. CASE Check(q)
  <2>1. ~RouteCheck(q)
    BY <1>0 DEF RouteCheck
  <2>2. ~OtherCheck(q)
    BY <1>0 DEF OtherCheck, Refuse
  <2>3. /\ CheckRateLimit(q) => check = "gap"
        /\ CheckFormRateLimit(q) => check = "rate"
        /\ CheckDuplicateSubmit(q) => check = "dedup"
    BY DEF CheckRateLimit, CheckFormRateLimit, CheckDuplicateSubmit
  <2> QED
    BY <1>3, <2>1, <2>2, <2>3 DEF Check, CheckAction
<1>4. ~Cleanup /\ ~Tick /\ vars' # vars
  BY <1>0 DEF Cleanup, Tick, vars
<1> QED
  BY <1>1, <1>2, <1>3, <1>4 DEF Next

(* What a refusal rests on, in the state the refused request finds.        *)
RefusalInv ==
  /\ RequestInv /\ RateInv
  /\ LastIsStamp /\ last \in [Ips -> Nat] /\ NoteIsStamp
  /\ MaxPerMinute <= MaxPerHour => CountsPassed

LEMMA TooSoonIsJustified ==
  ASSUME RefusalInv, [Next]_vars, NEW q \in Ids, pc'[q] = "tooSoon", pc[q] = "gap"
  PROVE  \E p \in Passed("gap") : ip[p] = ip[q] /\ now < at[p]["gap"] + Gap
<1>1. CheckRateLimit(q) /\ "gap" \in Checks
  <2>1. CheckAction("gap", q)
    BY RefusedThere DEF RefusalInv
  <2> QED
    BY <2>1 DEF CheckAction, Checks
<1>2. ip[q] \in Ips
  BY <1>1, OthersKept DEF RefusalInv, CheckAction
<1>3. pc \in [Ids -> Places]
  BY DEF RefusalInv, RequestInv, RequestTypes
<1>4. last[ip[q]] # Never /\ now - last[ip[q]] < Gap
  BY <1>1, <1>3 DEF CheckRateLimit, Pass
<1>5. now \in Nat /\ last[ip[q]] \in Nat /\ Gap \in Nat
  BY <1>2, TimesAssumption DEF RefusalInv, RequestInv, RequestTypes
<1>6. PICK p \in Ids : ip[p] = ip[q] /\ at[p]["gap"] = last[ip[q]]
  BY <1>2, <1>4 DEF RefusalInv, LastIsStamp
<1>7. p \in Passed("gap")
  BY <1>4, <1>6 DEF Passed
<1> QED
  BY <1>4, <1>5, <1>6, <1>7

LEMMA DuplicateIsJustified ==
  ASSUME RefusalInv, [Next]_vars, NEW q \in Ids, pc'[q] = "duplicate", pc[q] = "dedup"
  PROVE  \E p \in Passed("dedup") : /\ SameKey(p, q) /\ content[p] = content[q]
                                    /\ now < at[p]["dedup"] + Dedup
<1>1. CheckDuplicateSubmit(q)
  <2>1. CheckAction("dedup", q)
    BY RefusedThere DEF RefusalInv
  <2> QED
    BY <2>1 DEF CheckAction
<1>2. pc \in [Ids -> Places] /\ now \in Nat /\ at \in [Ids -> [Checks -> Nat]] /\ "dedup" \in Checks
  BY DEF RefusalInv, RequestInv, RequestTypes, Checks
<1>3. PICK m \in dedup : m[1] = Key(q) /\ m[2] = content[q] /\ now - m[3] < Dedup
  BY <1>1, <1>2 DEF CheckDuplicateSubmit, Pass
<1>4. PICK p \in Ids : /\ m[3] # Never /\ at[p]["dedup"] = m[3]
                       /\ Key(p) = m[1] /\ content[p] = m[2]
  BY <1>3 DEF RefusalInv, NoteIsStamp
<1>5. p \in Passed("dedup") /\ SameKey(p, q) /\ content[p] = content[q]
  BY <1>3, <1>4 DEF Passed, SameKey, Key
<1>6. now < at[p]["dedup"] + Dedup
  <2>1. at[p]["dedup"] \in Nat /\ Dedup \in Nat
    BY <1>2, TimesAssumption
  <2> QED
    BY <1>2, <1>3, <1>4, <2>1
<1> QED
  BY <1>5, <1>6

LEMMA TooManyIsJustified ==
  ASSUME RefusalInv, [Next]_vars, MaxPerMinute <= MaxPerHour,
         NEW q \in Ids, pc'[q] = "tooMany", pc[q] = "rate"
  PROVE  Cardinality({p \in Passed("rate") :
            SameKey(p, q) /\ now < at[p]["rate"] + Minute}) >= MaxPerMinute
<1>0. /\ "rate" \in Checks /\ RequestInv /\ RateInv /\ CountsPassed
      /\ MaxPerMinute \in Nat \ {0} /\ MaxPerHour \in Nat /\ Minute \in Nat /\ now \in Nat
      /\ pc \in [Ids -> Places] /\ at \in [Ids -> [Checks -> Nat]]
  BY LimitsAssumption, TimesAssumption DEF RefusalInv, RequestInv, RequestTypes, Checks
<1>1. CheckFormRateLimit(q) /\ CheckAction("rate", q)
  <2>1. CheckAction("rate", q)
    BY <1>0, RefusedThere
  <2> QED
    BY <2>1 DEF CheckAction
<1>2. PICK b \in Keys : b = Key(q)
  BY <1>0, <1>1, OthersKept
<1>3. PICK e \in Counter : e = Counted(HourElapsed(CurrentEntry(b)))
  BY <1>0, CountedIs
<1>4. e.minuteCount > MaxPerMinute \/ e.hourCount > MaxPerHour
  BY <1>0, <1>1, <1>2, <1>3 DEF CheckFormRateLimit, Pass
<1>5. /\ IF rate[b].minuteStart = Never \/ now - rate[b].minuteStart >= Minute
         THEN e.minuteCount = 1 /\ e.minuteStart = now
         ELSE e.minuteCount = rate[b].minuteCount + 1 /\ e.minuteStart = rate[b].minuteStart
      /\ rate[b] \in Counter /\ e.hourCount = e.minuteCount
  BY <1>0, <1>3, CountedIs DEF Agree
<1>6. /\ rate[b].minuteStart # Never /\ now - rate[b].minuteStart < Minute
      /\ rate[b].minuteCount >= MaxPerMinute
  <2>1. e.minuteCount \in Nat /\ rate[b].minuteCount \in Nat
    BY <1>5 DEF Counter
  <2>2. e.minuteCount > MaxPerMinute
    BY <1>0, <1>4, <1>5, <2>1
  <2>3. e.minuteCount # 1
    BY <1>0, <2>2
  <2>4. rate[b].minuteStart \in Nat
    BY <1>5 DEF Counter
  <2>5. ~(rate[b].minuteStart = Never \/ now - rate[b].minuteStart >= Minute)
    BY <1>5, <2>3
  <2>6. e.minuteCount = rate[b].minuteCount + 1
    BY <1>5, <2>5
  <2>7. rate[b].minuteCount >= MaxPerMinute
    BY <1>0, <2>1, <2>2, <2>6
  <2> QED
    BY <1>0, <2>4, <2>5, <2>7
<1>7. PICK start \in Nat : start = rate[b].minuteStart /\ start # Never /\ now < start + Minute
  BY <1>0, <1>5, <1>6 DEF Counter
<1>8. MaxPerMinute <= Cardinality(From(RateOf(b), Stamp("rate"), start))
  <2>1. Least(rate[b].minuteCount, MaxPerMinute) = MaxPerMinute
    BY <1>0, <1>5, <1>6 DEF Least, Counter
  <2> QED
    BY <1>0, <1>7, <2>1 DEF CountsPassed
<1> DEFINE mine == {p \in Passed("rate") : SameKey(p, q) /\ now < at[p]["rate"] + Minute}
<1>9. From(RateOf(b), Stamp("rate"), start) \subseteq mine
  <2> SUFFICES ASSUME NEW p \in From(RateOf(b), Stamp("rate"), start) PROVE p \in mine
    OBVIOUS
  <2>1. p \in Ids /\ at[p]["rate"] # Never /\ Key(p) = Key(q) /\ start <= Stamp("rate")[p]
    BY <1>2 DEF From, RateOf
  <2>2. Stamp("rate")[p] = at[p]["rate"] /\ at[p]["rate"] \in Nat
    BY <1>0, <2>1 DEF Stamp
  <2>3. now < at[p]["rate"] + Minute
    BY <1>0, <1>7, <2>1, <2>2
  <2> QED
    BY <2>1, <2>3 DEF Passed, SameKey, Key
<1>10. mine \in SUBSET Ids
  BY DEF Passed
<1>11. /\ Cardinality(From(RateOf(b), Stamp("rate"), start)) \in Nat
       /\ Cardinality(mine) \in Nat
       /\ Cardinality(From(RateOf(b), Stamp("rate"), start)) <= Cardinality(mine)
  BY <1>9, <1>10, Cards
<1> QED
  BY <1>0, <1>8, <1>11

(* A refused submission comes too soon after one that passed, repeats one  *)
(* that passed within the window, or follows as many as the limit allows   *)
(* within a minute (checkRateLimit, checkDuplicateSubmit,                  *)
(* checkFormRateLimit): refused requests alone never keep anybody out.     *)
THEOREM RefusalsAreJustified == Spec => RefusalJustified
<1>1. Init => RefusalInv
  <2> SUFFICES ASSUME Init PROVE RefusalInv
    OBVIOUS
  <2>1. RequestInv
    BY RequestInit
  <2>2. RateInv
    BY WindowsInit
  <2>3. LastIsStamp /\ last \in [Ips -> Nat] /\ NoteIsStamp
    BY DEF Init, LastIsStamp, NoteIsStamp, Never
  <2>4. CountsPassed
    BY DEF Init, CountsPassed, NoEntry
  <2> QED
    BY <2>1, <2>2, <2>3, <2>4 DEF RefusalInv
<1>2. RefusalInv /\ [Next]_vars => RefusalInv'
  <2> SUFFICES ASSUME RefusalInv, [Next]_vars PROVE RefusalInv'
    OBVIOUS
  <2>0. RequestInv /\ RateInv
    BY DEF RefusalInv
  <2>1. RequestInv'
    BY <2>0, RequestStep DEF Checks
  <2>2. RateInv'
    BY <2>0, <2>1, RateNext
  <2>3. LastIsStamp' /\ last' \in [Ips -> Nat]
    BY LastStep DEF RefusalInv
  <2>4. NoteIsStamp'
    BY NoteStep DEF RefusalInv
  <2>5. MaxPerMinute <= MaxPerHour => CountsPassed'
    BY <2>0, <2>1, CountStep DEF RefusalInv
  <2> QED
    BY <2>1, <2>2, <2>3, <2>4, <2>5 DEF RefusalInv
<1>3. RefusalInv /\ [Next]_vars
        => [\A q \in Ids :
              /\ pc'[q] = "tooSoon" /\ pc[q] = "gap" =>
                    \E p \in Passed("gap") : ip[p] = ip[q] /\ now < at[p]["gap"] + Gap
              /\ pc'[q] = "duplicate" /\ pc[q] = "dedup" =>
                    \E p \in Passed("dedup") :
                       /\ SameKey(p, q) /\ content[p] = content[q]
                       /\ now < at[p]["dedup"] + Dedup
              /\ pc'[q] = "tooMany" /\ pc[q] = "rate" /\ MaxPerMinute <= MaxPerHour =>
                    Cardinality({p \in Passed("rate") :
                       SameKey(p, q) /\ now < at[p]["rate"] + Minute}) >= MaxPerMinute]_vars
  BY TooSoonIsJustified, DuplicateIsJustified, TooManyIsJustified
<1> QED
  BY <1>1, <1>2, <1>3, PTL DEF Spec, RefusalJustified
=============================================================================
