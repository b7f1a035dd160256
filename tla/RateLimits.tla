----------------------------- MODULE RateLimits -----------------------------
(***************************************************************************)
(* The four in-memory checks a submission passes before it is stored: the  *)
(* limiter of the route (internal/middleware/ratelimit.go), the spacing of *)
(* one address's submissions, the counters per form and address, and the   *)
(* detection of repeated content (internal/handlers/submissions.go).       *)
(*                                                                         *)
(* Each check is atomic under a mutex of its own and reads the clock just  *)
(* before or after it takes it (the wait for the mutex is taken to be nil);*)
(* between the checks a request does other work, so requests overtake each *)
(* other and time passes.                                                  *)
(***************************************************************************)
EXTENDS Naturals, FiniteSets

CONSTANTS
    Ips, Forms, Contents,
    MaxRequests,   \* bound on the requests that arrive
    MaxTime,       \* bound on the clock
    RouteMax,      \* rate_limit_per_minute
    MaxPerMinute,  \* rate_limit_per_form_minute
    MaxPerHour,    \* rate_limit_per_form_hour
    Gap,           \* the spacing: 5 seconds
    Keep,          \* age at which the cleanup forgets an address: 300 seconds
    Minute, Hour,
    Dedup,         \* the window of repeated content: 10 minutes
    StoreCap       \* size above which a store is purged: 20000

ASSUME LimitsAssumption ==
    /\ RouteMax \in Nat \ {0} /\ MaxPerMinute \in Nat \ {0} /\ MaxPerHour \in Nat \ {0}
    /\ MaxRequests \in Nat /\ MaxTime \in Nat /\ StoreCap \in Nat
ASSUME SomeAddress == Ips # {}
ASSUME TimesAssumption ==
    /\ Gap \in Nat /\ Keep \in Nat /\ Dedup \in Nat
    /\ Minute \in Nat \ {0} /\ Hour \in Nat /\ Gap <= Keep /\ Minute <= Hour

Ids  == 1..MaxRequests
Keys == Forms \X Ips       \* token|ip

VARIABLES
    now,
    arrived,     \* the number of requests so far
    pc, ip, form, content,  \* per request: the check it is at, and what it carries
    route,       \* RateLimiter.store: per address with an entry, its counter
    last,        \* submitRateLimit: per address, Unix time of its last submission
    rate,        \* formRateStore
    dedup,       \* dedupStore: <<key, content, time>>
    at           \* history: per request, the times it passed the four checks

vars == <<now, arrived, pc, ip, form, content, route, last, rate, dedup, at>>

Checks == {"route", "gap", "rate", "dedup"}
Places == Checks \cup {"none", "limited", "tooSoon", "tooMany", "duplicate", "other", "accepted"}
Never  == 0     \* the clock starts at 1

Key(q) == <<form[q], ip[q]>>

NoEntry == [minuteCount |-> 0, minuteStart |-> Never, hourCount |-> 0, hourStart |-> Never]

Init ==
    /\ now = 1 /\ arrived = 0
    /\ pc      = [q \in Ids |-> "none"]
    /\ ip      = [q \in Ids |-> CHOOSE a \in Ips : TRUE]
    /\ form    = [q \in Ids |-> CHOOSE f \in Forms : TRUE]
    /\ content = [q \in Ids |-> CHOOSE d \in Contents : TRUE]
    /\ route   = [a \in Ips |-> [count |-> 0, resetAt |-> Never]]
    /\ last    = [a \in Ips |-> Never]
    /\ rate    = [k \in Keys |-> NoEntry]
    /\ dedup   = {}
    /\ at      = [q \in Ids |-> [s \in Checks |-> Never]]

-----------------------------------------------------------------------------
Tick ==
    /\ now < MaxTime
    /\ now' = now + 1
    /\ UNCHANGED <<arrived, pc, ip, form, content, route, last, rate, dedup, at>>

Arrive(a, f, d) ==
    /\ arrived < MaxRequests
    /\ LET q == arrived + 1 IN
          /\ arrived' = q
          /\ pc'      = [pc EXCEPT ![q] = "route"]
          /\ ip'      = [ip EXCEPT ![q] = a]
          /\ form'    = [form EXCEPT ![q] = f]
          /\ content' = [content EXCEPT ![q] = d]
    /\ UNCHANGED <<now, route, last, rate, dedup, at>>

(* The request goes on to the next place, or is refused there.             *)
Pass(q, check, next) ==
    /\ pc' = [pc EXCEPT ![q] = next]
    /\ at' = [at EXCEPT ![q][check] = now]

Refuse(q, why) == pc' = [pc EXCEPT ![q] = why] /\ UNCHANGED at

(* Plausible bugs, each of which one of the properties below excludes: a   *)
(* request that is not counted by the route or in the second counter of a  *)
(* form, a minute that ends with the hour, a cleanup of every address,     *)
(* content that is not noted.                                              *)
UncountedRouteEntry(a) ==
    IF now > route[a].resetAt THEN [count |-> 1, resetAt |-> now + Minute] ELSE route[a]
HourUncounted(e) == [e EXCEPT !.minuteCount = @ + 1]
HourlyEntry(k) ==
    IF rate[k].minuteStart = Never \/ now - rate[k].minuteStart >= Hour
    THEN [minuteCount |-> 0, minuteStart |-> now, hourCount |-> 0, hourStart |-> now]
    ELSE rate[k]
CleanupAll ==
    /\ last' = [a \in Ips |-> Never]
    /\ UNCHANGED <<now, arrived, pc, ip, form, content, route, rate, dedup, at>>
UnnotedSubmit(q) ==
    /\ pc[q] = "dedup"
    /\ Pass(q, "dedup", "accepted")
    /\ UNCHANGED <<now, arrived, ip, form, content, route, last, rate, dedup>>

-----------------------------------------------------------------------------
(* RateLimiter.Middleware: counted in windows that start with a request.   *)
RouteEntry(a) ==
    IF route[a].resetAt = Never \/ now > route[a].resetAt
    THEN [count |-> 1, resetAt |-> now + Minute]
    ELSE [route[a] EXCEPT !.count = @ + 1]

RouteCheck(q) ==
    LET ent == RouteEntry(ip[q])
    IN  /\ pc[q] = "route"
        /\ route' = [route EXCEPT ![ip[q]] = ent]
        /\ IF ent.count > RouteMax THEN Refuse(q, "limited") ELSE Pass(q, "route", "gap")
        /\ UNCHANGED <<now, arrived, ip, form, content, last, rate, dedup>>

(* checkRateLimit: a refused request does not postpone the next one.       *)
CheckRateLimit(q) ==
    LET a == ip[q] IN
    /\ pc[q] = "gap"
    /\ IF last[a] # Never /\ now - last[a] < Gap
       THEN Refuse(q, "tooSoon") /\ UNCHANGED last
       ELSE Pass(q, "gap", "rate") /\ last' = [last EXCEPT ![a] = now]
    /\ UNCHANGED <<now, arrived, ip, form, content, route, rate, dedup>>

(* The goroutine that forgets addresses, every ten minutes.                *)
Cleanup ==
    /\ \E a \in Ips : last[a] # Never /\ now - last[a] > Keep
    /\ last' = [a \in Ips |-> IF now - last[a] > Keep THEN Never ELSE last[a]]
    /\ UNCHANGED <<now, arrived, pc, ip, form, content, route, rate, dedup, at>>

(* A check without state of its own refuses: the form is unknown, its      *)
(* address not verified, the origin not allowed, a captcha wrong, ...      *)
OtherCheck(q) ==
    /\ pc[q] \in {"gap", "rate"}
    /\ Refuse(q, "other")
    /\ UNCHANGED <<now, arrived, ip, form, content, route, last, rate, dedup>>

(* checkFormRateLimit: the entry of a key is replaced when its minute is   *)
(* over; refused requests count too.                                       *)
CurrentEntry(k) ==
    IF rate[k].minuteStart = Never \/ now - rate[k].minuteStart >= Minute
    THEN [minuteCount |-> 0, minuteStart |-> now, hourCount |-> 0, hourStart |-> now]
    ELSE rate[k]

HourElapsed(e) ==
    IF now - e.hourStart >= Hour THEN [e EXCEPT !.hourCount = 0, !.hourStart = now] ELSE e

Counted(e) ==
    [minuteCount |-> e.minuteCount + 1, minuteStart |-> e.minuteStart,
     hourCount   |-> e.hourCount + 1,   hourStart   |-> e.hourStart]

Purged(store) ==
    IF Cardinality({k \in Keys : store[k].minuteStart # Never}) > StoreCap
    THEN [k \in Keys |-> IF now - store[k].hourStart > Hour THEN NoEntry ELSE store[k]]
    ELSE store

CheckFormRateLimit(q) ==
    LET e == Counted(HourElapsed(CurrentEntry(Key(q)))) IN
    /\ pc[q] = "rate"
    /\ rate' = Purged([rate EXCEPT ![Key(q)] = e])
    /\ IF e.minuteCount > MaxPerMinute \/ e.hourCount > MaxPerHour
       THEN Refuse(q, "tooMany") ELSE Pass(q, "rate", "dedup")
    /\ UNCHANGED <<now, arrived, ip, form, content, route, last, dedup>>

(* checkDuplicateSubmit: only a submission that is no duplicate is noted.  *)
CheckDuplicateSubmit(q) ==
    LET mine  == {m \in dedup : m[1] = Key(q) /\ m[2] = content[q]}
        noted == (dedup \ mine) \cup {<<Key(q), content[q], now>>}
    IN  /\ pc[q] = "dedup"
        /\ IF \E m \in mine : now - m[3] < Dedup
           THEN Refuse(q, "duplicate") /\ UNCHANGED dedup
           ELSE /\ Pass(q, "dedup", "accepted")
                /\ dedup' = IF Cardinality(noted) > StoreCap
                            THEN {m \in noted : now - m[3] <= Dedup} ELSE noted
        /\ UNCHANGED <<now, arrived, ip, form, content, route, last, rate>>

-----------------------------------------------------------------------------
Check(q) ==
    RouteCheck(q) \/ CheckRateLimit(q) \/ OtherCheck(q)
        \/ CheckFormRateLimit(q) \/ CheckDuplicateSubmit(q)

Next ==
    \/ \E a \in Ips, f \in Forms, d \in Contents : Arrive(a, f, d)
    \/ \E q \in Ids : Check(q)
    \/ Cleanup
    \/ Tick

Spec == Init /\ [][Next]_vars

-----------------------------------------------------------------------------
Passed(check)  == {q \in Ids : at[q][check] # Never}
Within(check, t, span) == {q \in Passed(check) : t <= at[q][check] /\ at[q][check] < t + span}
SameKey(p, q)  == ip[p] = ip[q] /\ form[p] = form[q]

(* Two submissions of one address pass the spacing check at least Gap      *)
(* apart, although the cleanup forgets addresses (checkRateLimit, init).   *)
Spaced ==
    \A p, q \in Passed("gap") :
        p # q /\ ip[p] = ip[q] /\ at[p]["gap"] <= at[q]["gap"] =>
            at[p]["gap"] + Gap <= at[q]["gap"]

(* In any stretch of a minute less than twice the limit of the route       *)
(* passes for an address, and less than twice the limit of a form for a    *)
(* form and an address: the windows start with a request that passes, so a *)
(* stretch meets at most two of them, and the first without its start.     *)
BurstsBounded ==
    \A t \in 1..now :
        /\ \A a \in Ips :
              Cardinality({q \in Within("route", t, Minute) : ip[q] = a}) < 2 * RouteMax
        /\ \A k \in Keys :
              Cardinality({q \in Within("rate", t, Minute) : Key(q) = k}) < 2 * MaxPerMinute

(* At most MaxPerHour submissions per hour for a form and an address, as   *)
(* the comment on checkFormRateLimit and the configuration promise.        *)
HourLimit ==
    \A k \in Keys, t \in 1..now :
        Cardinality({q \in Within("rate", t, Hour) : Key(q) = k}) <= MaxPerHour

(* Why it fails: an entry lives for a minute, and its two counters agree.  *)
HourCounterIsMinuteCounter ==
    \A k \in Keys : rate[k].hourCount = rate[k].minuteCount
                 /\ rate[k].hourStart = rate[k].minuteStart

(* The same content for a form from an address is accepted once in any     *)
(* stretch of the window, also when requests overtake each other and the   *)
(* store is purged (checkDuplicateSubmit).                                 *)
NoRepetition ==
    \A p, q \in Passed("dedup") :
        /\ p # q /\ SameKey(p, q) /\ content[p] = content[q]
        /\ at[p]["dedup"] <= at[q]["dedup"]
        => at[p]["dedup"] + Dedup <= at[q]["dedup"]

(* A refusal has its reason in submissions that passed, never in refused   *)
(* ones: trying again too soon does not lock anybody out for longer.       *)
RefusalJustified ==
    [][\A q \in Ids :
         /\ pc'[q] = "tooSoon" /\ pc[q] = "gap" =>
               \E p \in Passed("gap") : ip[p] = ip[q] /\ now < at[p]["gap"] + Gap
         /\ pc'[q] = "duplicate" /\ pc[q] = "dedup" =>
               \E p \in Passed("dedup") :
                  /\ SameKey(p, q) /\ content[p] = content[q]
                  /\ now < at[p]["dedup"] + Dedup
         /\ pc'[q] = "tooMany" /\ pc[q] = "rate" /\ MaxPerMinute <= MaxPerHour =>
               Cardinality({p \in Passed("rate") :
                  SameKey(p, q) /\ now < at[p]["rate"] + Minute}) >= MaxPerMinute]_vars
=============================================================================
