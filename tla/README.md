# Formail: specification, model checking and proofs

Formail (Go, Gin, SQLite) takes submissions of static web forms at
`POST /f/:token`, stores them, mails them to a verified recipient over the
owner's mail channels, and offers accounts, a mail API and a mail queue around
that. This directory holds TLA+ modules of the parts of it whose correctness
depends on the order of events, the TLC configurations that check them on small
instances, and TLAPS proofs of the main results for every instance.

Contents: 1 inventory, 2 modules, 3 runs, 4 proofs, 5 divergences between code
and promises, 6 abstractions, 7 not modelled, 8 plan.

## 1. Inventory

How the parts interact: every HTTP handler is a goroutine. All handlers and the
two queue workers share one SQLite connection (`db.go:17`, `SetMaxOpenConns(1)`),
so *statements* are atomic and ordered, and almost no handler holds a
transaction: whatever a handler read may have changed when it writes. The
limits on submissions live in process memory under mutexes. A mail is sent
either by a handler that waits for it (submissions, auto-reply, e-mail API) or
by a detached goroutine (verification mails of forms) or through the
`mail_jobs` table (codes, review mails, notices). The process can end between
any two statements.

| Component | State | Operations | What makes it hard | What makes it correct |
|---|---|---|---|---|
| Mail queue (`services/mail_queue.go`, `handlers/queue.go`) | `mail_jobs`; the job each worker holds | `EnqueueMail`, `claimNextJob`, send, `markJobDone`, `markJobRetry`, `RetryMailJob`, `DeleteMailJob`, restart | two workers, administrators at the same rows, dropped errors, the end of the process while a job is being sent | one worker per job; no mail sent again after an acknowledgement; status tells the outcome; bounded attempts; every job is settled |
| Forms and verification (`handlers/forms.go`) | `forms` (recipient, token, verified, channel) | create, update, delete, resend, show, open a link | check, read and write are separate statements; links outlive the address they were given out for | a form is verified only through a link that was given out for its present address |
| Channels and sharing (`handlers/channels.go`) | `channels` | create, update, delete, bind | limits are counted before the binding is written | a binding is owned or shared, enabled, within both limits |
| Submission pipeline (`handlers/submissions.go`, `services/mailer.go`) | `submissions`, `email_logs`, locals of the handler during sends of half a minute | `SubmitForm`, fallback over channels, auto-reply, outcome, deletions | the owner edits forms and channels meanwhile; faults; two mails share one row | one copy, to a confirmed address (one race aside, section 5), in order of priority; the row tells the outcome of its own mail; a duplicate is one |
| Submission limits (`middleware/ratelimit.go`, `submissions.go:138-238`) | four in-memory stores | route limiter, spacing, per form and address, duplicates, cleanup | windows, boundaries, overtaking, purges | spacing, window limits, no repetition, no unjustified refusal |
| Accounts and review (`handlers/users.go`, `handlers/settings.go`, `db/seed.go`) | `users`, spent review links, sessions (JWT) | create, register, update, delete, approve and reject by page or mailed link, restart | count and write are separate; a link is spent before it acts, and what follows may fail or come too late; stale roles | an administrator remains; one verdict per application; one notice at most, and why it was sent |
| Verification codes (`handlers/auth_code.go`, `services/verification.go`) | `verification_codes`, `code_request_logs` | `SendEmailCode`, `VerifyCodeOnce`, login, `Register` | check-then-insert, read-then-mark, several rows per address | a code is used once, attempts count, limits hold up to overlap |
| Captcha and challenges (`services/captcha.go`, `handlers/captcha.go`, `utils/challenge.go`) | `captcha_challenges`; signed challenges are stored nowhere | generate, precheck, consume, sign, verify | attempts are read and written back | one answer accepted outside overlaps, bounded wrong answers, one code per captcha |
| Schema and connection (`db/db.go`) | foreign keys of a connection that the pool replaces | cascading deletes, insertions of children | a setting of the first connection only | no child without its parent |
| E-mail API (`handlers/email_api.go`, `handlers/apikeys.go`, `middleware/apikey.go`) | `api_keys`, `api_logs` | `RequireAPIKey`, `SendEmailAPI`, key management | some recipients fail and others do not; the caller gives up, repeats; the key's channel and owner change | the answer is true; who repeats what it names mails nobody more often than was first asked; at most one copy per place in the list of a call |
| Webhook (`submissions.go:515`, `sendWebhook`) | a detached goroutine holding the context of its request | one request | runs after its handler returned and gin gave the context to another request | it names the submitter's address (it may not, section 5) |
| Service mail (`handlers/helpers.go`) | `service_mail_channel_id` | `loadServiceMailChannel`, enqueue | the setting, the channel and the primary administrator are read one after another, each changes by itself, and a failed read counts as no setting | the channel was enabled and the primary administrator's; one is found when there was one and it could be read |
| Site settings (`handlers/site_settings.go`, `pages/settings.html`) | settings rows, files in `data/uploads`, the values a page has loaded | load, upload, save | an upload deletes the stored file before the page saves the new URL; pages go stale | the stored logo is there to be served, outside three exceptions |
| SSO, other settings, statistics, templates, encryption, pages | see section 7 | | | |

Properties the code should have are stated in the modules, each above a comment
in words; PROJECT.json lists the hazards at their source lines with the
properties that would catch them.

## 2. Modules

| Module | Models | Correspondence |
|---|---|---|
| `MailService` | the abstract promise of the queue | phases of a mail, the mails in hand, the receipts; no workers, counters or statements |
| `MailQueue` | the queue | `pc[w]` is the statement of `workerLoop` a worker is about to run; `ClaimNextJob` is the transaction at `mail_queue.go:84-115`; `MarkJobDone`, `MarkJobRetry` the outcome's `UPDATE`, `MarkFails` the same statement failing (its error is dropped at lines 72-79); `snap` is the attempt count read by the claim, which the retry writes back plus one |
| `MailQueueRefinement` | the mapping of the queue to the service | `ImplementsMailService` |
| `Delivery` | the abstract promise of whoever mails while a caller waits: an item is in one hand, acknowledged at most once, and reported as it was; an interrupted one is never taken up again | implemented by `Submissions` (an item is a submission) and by `EmailAPI` (an item is a place in the list of a call) |
| `ReviewService` | the abstract promise of the reviews: the two links of an application decide it once together, or are burnt, or overtaken by an administrator on the page for users; one notice at most | implemented by `Accounts` |
| `MailQueueProofs` | proofs | section 4 |
| `Forms` | forms, verification, channels | each handler is cut at its statements: `UpdateFormCheck`, `UpdateFormRead`, then `UpdateFormNewAddress` or `UpdateFormSameAddress`; `VerifyEmailRead`, `VerifyEmail`; `DeleteChannelUnbind`, `DeleteChannel`. `given` holds the links that left the program: mailed, also in a mail that failed, or shown with the row by `ListForms` and `GetForm` (`ShowForm`); any of them may be opened by anybody (`opened`) |
| `FormsProofs` | proofs | section 4 |
| `Submissions` | the pipeline from the form's `SELECT` to the recorded outcome and the webhook | per handler the locals in `req[r]`; `CheckDuplicateSubmit` sets the note that only time or a restart takes back; `BoundSend*` is the bound channel, `ListChannels` and `Try*` the fallback, used for the form's mail and again for the auto-reply (`kind`); an edit of the form is `UpdateFormRead` and then `UpdateForm`, so that the race of `Forms` is here too; `client[r]` is the visitor whose request a gin context carries, which `SendWebhook` reads when it runs |
| `SubmissionsProofs` | proofs | section 4 |
| `RateLimits` | the four checks with memory | one action per check, atomic as under its mutex; requests overtake each other and time passes between checks |
| `RateLimitsProofs` | proofs | section 4 |
| `Accounts` | users, roles, reviews, restart | `CountAdmins` and the write are two steps; `Register` inserts, `NotifyAdmin` mails the links later, or not; `OpenLink` is the `INSERT OR IGNORE` that spends a link, the decision and the notice are later steps, `StatementFails` is the write that does not succeed; `decided` says of each link that came to its write whether it found a row |
| `AccountsProofs` | proofs | section 4 |
| `ForeignKeys` | cascades and the life of the connection | `enforced` is `PRAGMA foreign_keys` of the present connection |
| `EmailAPI` | API keys and `POST /v1/emails`, over `ForeignKeys` (`Schema!`) | `call[c]` holds the locals of a call: `NextRecipient` is the head of the loop, `BoundSend*`, `ListChannels`, `Try*` the ways to send, `WriteAPILog` the end of a turn; `waiting` and `GiveUp` are the caller. A list may name an address several times, and each place is an item of its own, as in the code |
| `EmailAPIProofs` | proofs of `EmailAPI` and `ForeignKeys` | section 4 |
| `Captcha` | captchas and challenges | `ReadCaptcha`, then `Reject` or `Accept`, which write what the read saw; every caller of `VerifyCaptchaWithConsume` |
| `Codes` | codes | counts and insertion are two steps of `SendEmailCode`, reading and marking two of `VerifyCodeOnce` |
| `SignIn` | captcha and codes composed | `SendEmailCode` as it is when `captcha_enabled` is set: `PayByCaptcha` consumes, then `AskForCode` looks at purpose and limits, and `Refuse` loses the captcha |
| `SignInProofs` | proofs of `SignIn`, `Captcha` and `Codes` | section 4 |
| `Settings` | the settings that name something: the logo's file, the service channel | `page[p]` is what a page of an administrator shows and the handler it waits for; `UploadRead`, `UploadCreate`, `UploadDelete`, and `SaveRead`, `SaveWrite`, `SaveCleanup` are the steps of the two handlers; `load[l]` the locals of `loadServiceMailChannel`, `missed[l]` its `SELECT`s that failed; `GetSetting` reads nothing when its statement fails |
| `SettingsProofs` | proofs | section 4 |
| `MC...` | finite values, symmetry, constraints for TLC | |

`Submissions`, `Accounts`, `Captcha`, `Codes`, `SignIn` and `Settings` define a
type invariant too (`TypeOK`, `SignTypeOK`). No run lists it: it is proved, and
it is the base of the invariants of section 4.

Each module with properties begins with a block of *plausible bugs*: definitions
with the parameters of an action or helper, changed the way a slip in that code
would change it. No specification uses them. Putting one in the place of the
definition it imitates violates the property PROJECT.json pairs it with, which
shows that the property depends on the code.

## 3. Runs

All runs with their properties are in PROJECT.json. Unless said otherwise
deadlock is not checked because the bounded system really stops: all rows are
used up, the clock is at its bound, and no administrator has to do anything.

| Run | Bounds | Shows |
|---|---|---|
| `MailQueue` | 2 workers, 2 jobs, 2 attempts, 1 manual retry, 2 faults | safety, refinement of `MailService` and liveness of the queue |
| `Forms` | 2 forms, 2 requests; either 2 addresses, 3 tokens and one administrator, or 1 channel, 3 users, limits 0 and 1 | the verification of addresses, the rules of binding |
| `FormsStaleUpdate` | 1 form, 2 requests | a violation, section 5 |
| `SubmissionsFallback` | 1 request with auto-reply and webhook, 2 edits, 1 fault; 3 channels of which 2 are the owner's; or 2 addresses and no binding | fallback while the owner edits |
| `SubmissionsOverlap` | 2 requests of one visitor with auto-replies, 2 rows, 1 channel, deletions, 1 fault | the delivery service, duplicates, liveness |
| `WebhookAddress` | 1 context, 2 visitors, 2 rows | a violation, section 5 |
| `RateLimits` | 4 requests of one address to one form, 4 units of time, minute 2, hour 3, duplicates 3 | all four checks |
| `RateLimitsHour` | 3 requests, 7 units | a violation, section 5 |
| `Accounts` | 2 requests, 3 users, 1 restart or failing statement | roles, or reviews |
| `EmailAPI` | 2 forms, 1 user, 1 key, 2 submissions, 1 new connection, 1 restart; or 2 calls, each with one address twice or with a good and an invalid one, or with what an answer named, over 2 channels of which 1 is another user's, 1 lost log, 1 edit, 1 restart | cascades, or calls |
| `SignIn` | 2 requests; 1 captcha with a limit of 3, 1 challenge, 1 fault; or 3 codes paid for with it; or 4 codes asked for in 4 units, or 2 entered, 1 fault | captchas, codes, and what they cost |
| `Settings` | 2 pages in 4 seconds, 1 fault; or 1 service mail, 2 users, 3 channels, 5 edits, 1 fault | the logo, or the channel of service mails |

Why the bounds are enough. The races of this code are between two handlers
around one row, so two actors and one or two rows show each of them; a third
actor adds a repetition. The queue needs two jobs so that workers can differ in
what they hold, and two attempts so that one is a retry. The fallback needs three
channels: bound, first and second of the list, one of them shared. The times of
`RateLimits` keep the order of the code's times (5 s < minute < 10 min < hour)
and are small enough that every window begins and ends inside the run. The
theorems of section 4 remove the bounds from every safety property and every
refinement of the passing runs; only the two liveness properties and the three
runs that expect a violation rest on them.

Symmetry is used only where requests, workers or users are compared for
equality alone, and never in a run with a liveness property.

Constraints keep to questions that have no property in common, where one
instance would multiply what it need not. `Forms`: either addresses are
verified and no channel exists, or channels are shared and the links stay
unopened (`MCVerifying`, `MCSharing`). `Accounts`: the management of
administrators without reviews, or the reviews with one administrator
(`MCManagement`, `MCReview`). `EmailAPI`: the foreign keys without calls, or the
calls over one key (`MCSchema`, `MCCalling`). `SubmissionsFallback`: edits of
bindings and channels, or of the recipient's address (`MCRouting`,
`MCAddressing`). `SignIn`: captchas alone, codes
paid for and not entered, or without captchas codes asked for, or entered
(`MCScreening`, `MCPaying`, `MCAsking`, `MCEntering`). `Settings`: the logo, up
to the first careless step, or the channel (`MCLogo`, `MCChannel`).

### Fairness

* `MailQueue!Fairness`. A worker's loop is driven by a ticker and never ends
  (`mail_queue.go:53-82`): weak fairness of its claim. Dialling and the
  connection have deadlines in `mailer.go`, so a send returns: weak fairness of
  `SendMail`. The outcome's statement is executed or fails: weak fairness of
  `Mark \/ MarkFails`. Time passes: `Tick`. No fairness for callers and
  administrators, nor for faults, which are bounded by `MaxFaults`: nothing
  forces one, and a run with none is among those checked. A claim needs only weak
  fairness: a due job stays due until a worker takes the lowest one, and there
  are finitely many jobs.
* `Submissions!FairSpec`. A handler that runs comes to its end, for the same
  deadlines: weak fairness of `Handle(r)`, and of nothing else.

`EventuallySettled` and `OutcomeEventually` name their exceptions: a job or a
submission that a fault caught in the middle stays as it is for ever
(`Stranded`, `lost`), and `StrandedForever` says so as a property of its own.

## 4. Proofs

Checked by TLAPS for every value of the constants that the named assumptions
in the modules allow: sets not empty, bounds natural numbers, spans ordered,
the handlers of `SignIn` finitely many. They stand in the module that declares
the constants, and the runs evaluate them. Every safety property, action
property and refinement that a passing run checks is a theorem too. Few of
them are inductive as they stand; for each module this is what had to be
added, and why.

**MailQueueProofs.** The inductive invariant `IInv` joins the types,
`ExclusiveClaim` (two workers never hold one job), `HeldJobIsSending` (a held
job has status `sending`, or was deleted), `HolderAccounts` (what the worker's
place says about the transmissions of its job), `RowAccounts` (what the status
says), `AcknowledgedOnce` and `AttemptsBounded`. Exclusivity alone is not
inductive: the claim takes `pending` jobs only, and what keeps a held job from
being pending is `HeldJobIsSending`; that one in turn needs exclusivity, for
otherwise a second holder could write the outcome. The accounts carry the
argument that a mail acknowledged is in `markDone` or `done`, from where no
step leads to another transmission, except that a failed update leaves it in
`sending`, where nothing takes it. Theorems: `TypeCorrect`, `Inductive`,
`ClaimsAreExclusive`, `NeverSentAgain`, `StatusIsTrue`,
`TransmissionsBounded`, `OnlyFaultsStrand`, the action properties
`FinalStatusIsKept` and `StrandedIsForever`, and the refinement
`QueueImplementsService`: each action of the queue is one of the service or a
stutter under the mapping.

**FormsProofs.** `VerifiedMeansConfirmed` is inductive together with: tokens
in use were drawn and are unique, a link was given out only for the address it
verifies (`LinkNamesRecipient`), and a `VerifyEmail` between its two
statements works for an opened link. A form in `stale` is the exception of
section 5, in both. `BindingAllowed` is about a step, so it needs what holds before the
write: the check of a request that is still `fresh` would come out the same if
it were made now (`FreshInv`), because every write to a binding, a form or a
channel ends the freshness of the others.

**SubmissionsProofs.** `SendInv` says that a handler past the `INSERT` works
on a row that no other handler has (`RowsApart`), what its place and the kind
of mail it is at say about the copies taken so far (`HandlerAccounts`), and
that there is at most one copy of each kind (`RowAccounts`). The three need
each other: a copy is taken only by a handler whose account says none was, and
it is the only one at that row. From it follow `NoSecondCopy`, the outcome
columns (`OutcomeInv`), and the refinement of `Delivery`
(`PipelineImplementsDelivery`), where the hand of an item is the handler past
the `INSERT` with its row (`HandsRight`). Apart from it stand `ConfirmInv`
(`link` is the address a form's token was drawn for; it is the one in the row,
or a stale edit wrote that, so what is opened confirms the row's address or the
row is an `overwritten` one, which the read of the form hands on to the send),
`LogInv` (while no statement failed, a handler that has sent left the log of
it), and
`PriorityInv`: while nobody edits, a handler has been refused by the bound
channel and by each own channel that is no longer in its `todo`.
`DuplicateJustified` is inductive with the types.

**RateLimitsProofs.** `HourCounterUseless`: the hourly counter and the minute
counter of an entry are always equal; an entry is replaced when its minute is
over, so the hour of an entry can only be over when the entry is new. Hence
the hourly limit refuses nothing the minute limit would not.
`SubmissionsAreSpaced`: `last[a]` is not before any passing of the check by
address `a`, or it was forgotten when all of them were more than `Keep >= Gap`
ago (`GapInv`). `RepetitionsAreRefused`: each accepted content is noted with
its time or a later one, or its window is over (`DedupInv`).
`BurstsAreBounded` is about any span of a minute, while the code counts in
windows that begin with the first request. What is inductive is about the
present window (`Window`): its requests are no more than its counter says, and
of a minute that reaches into it less than the limit lies before its start
(`RouteInv`, `RateInv`). The lemma `WindowBounds` adds the two parts.
`RefusalsAreJustified`: what the stores keep are the times and counts of
requests that passed, so the one a refusal rests on is there to name
(`RefusalInv`).

**AccountsProofs.** `LastAdminKept`: a handler whose count is still fresh is
about to write and there are two administrators or more (`FreshInv`); every
statement that changes who is one ends all freshness. `ActiveNotRejected`
follows from the statements and the types alone.
`RegistrationsImplementReview` refines `ReviewService` by `ReviewInv`: one
handler at most is at each application's link (`Alone`, from the spent token),
an application with a verdict has one and a spent token (`Settled`), who was
told something has a verdict (`ToldAfter`), and a handler's place says which
verdict is given and that nobody was told (`AllAtLinks`): before its write
there is none, and one about to tell of an approval or a rejection gave it or
was overtaken; an overtaken approval was of a deleted applicant, who gets no
mail. Without `Alone` two handlers could decide differently between each
other's steps. That links are of inserted users while `Register` has not
mailed them yet (`Notifiers`) goes with the types.

**EmailAPIProofs.** `NoOrphansAtFirst` holds because the first connection
enforces (`SchemaInv`). `AnswerTrue` needs the account of each call at each
place of the loop (`Account`): places of the list not reached have no copy, the one
in hand has none until the server says so, of those done each address has as
many without a copy as the failed list names it, and the logs follow. Since a
list may name an address twice, all this is counted and not a matter of sets.
`PatientMailsBounded` adds `Repeats`: the calls of a patient caller before the
last were answered, and for each address the mails taken in them and the places
of the last list together are no more than the places of the first list
(`Bounded`). An answer replaces places by the copies they got and the names it
gives, so the sum stays. The same accounts give the refinement
`APIImplementsDelivery`, item by item.

**SignInProofs.** One composed specification, so that the theorems about
`Captcha` and `Codes` hold for their composition and not for each alone.

* A code: one not marked was never accepted, acceptances and the handlers
  about to accept are together no more than the handlers, and where two never
  judged the row at once there is one of them (`OnceInv`); there the handler
  about to count a wrong code holds the row's own count (`CountInv`). An
  account had its code because who is past the comparison works for the
  address of a mailed row (`AccountInv`).
* The limits on asking: in every stretch of time as long as the window the
  codes made, with the handlers past the counts while the stretch is open,
  leave room under the limit and the handlers (`LimitsInv`). It must speak of
  every stretch, not of the last one, for the counts look back from any time.
* A captcha: `AcceptInv` is like `OnceInv`. `FailuresOfTwoBounded` needs a
  potential: with `F` the failure limit, a row at `k` tries can still absorb
  `(F - k)(F - k + 1) / 2` wrong answers of two handlers (`Descent`, twice
  that), for a handler that holds an old count `s` can set the count back to
  `s + 1`. `FailInv` says that twice the wrong answers and what the row and
  the two handlers can still owe (`OneOwes`, `TwoOwe`) are at most `Descent(0)`
  while the row is open; closing it adds one wrong answer at most.
* Payment: codes bought with a captcha and handlers with it in hand are
  together no more than its acceptances (`PayInv`).

**SettingsProofs.** `LogoServed`: while everybody is careful the stored logo
is safe, and so is what a fresh page shows, which may be the next logo. A safe
file is there, or is one an upload deleted (an exception of section 5), and no
page that has saved another is about to delete it (`FreshSafe` with `SiteOK`
and `AllKnown`). A read of the setting that fails reads as no logo, which is
safe. The two properties of service
mails are about what changed during a load: what holds now is in what the load
lived through (`Lived`), and each place knows what it has excluded: that the
setting named one usable channel all the time, or that the administrator had
one (`Learnt`), unless the statement that would have told failed (`missed`).

Only model-checked, because the provers reach neither fairness nor ENABLED:
the two liveness properties `EventuallySettled` and `OutcomeEventually`. The
three violations of section 5 are counterexamples, which TLC finds. The models
have no recursive definitions, so nothing had to be left out for them.

## 5. Divergences between the code and its promises

Three have a run that shows them:

1. `FormsStaleUpdate`, `RecipientConfirmed`. `UpdateForm` decides by an address
   it read earlier whether to draw a new token (`forms.go:272-312`). When
   another edit changes the address in between, the branch for an unchanged
   address writes its own address under the other's token, and the link given
   out for the other address verifies it. The README of Formail says that a form
   takes effect only after its recipient was verified. `VerifiedMeansConfirmed`
   is proved with this race as its only exception, and `SendsToConfirmed` of
   `Submissions` with the addresses it writes: over such a form submissions are
   mailed to an address whose link was not opened.
2. `RateLimitsHour`, `HourLimit`. `checkFormRateLimit` replaces the whole entry
   each minute (`submissions.go:196-199`), so the hourly limit named in its
   comment and in `config.go` never acts.
3. `WebhookAddress`, `WebhookNamesSubmitter`. The goroutine of the webhook calls
   `c.ClientIP()` when it runs (`submissions.go:518`). By then the handler may
   have returned, and gin may have given its context to the next request, whose
   address is posted beside the first one's data. The documentation of the
   payload (`docs.html:196-202`) shows the two side by side.

Others are behaviours of the models too, and the checked properties are stated
with them as exceptions:

* `UpdateUser` and `DeleteUser` count administrators before they write; two at
  once can remove both (`LastAdminKept` holds for a count that is still valid).
  `RejectUser` looks at the status only and deletes a disabled last
  administrator. The next start promotes the user with the lowest id.
* `RejectRegistration` mails a rejection although an approval on the page for
  users came between its `SELECT` and its `DELETE` and the row was kept
  (`settings.go:188-195`). `ActiveNotRejected` says that it was kept;
  `ReviewService` allows the notice to who was overtaken, and to nobody else.
  A link whose `UPDATE` or `DELETE` fails is spent without effect.
* The token that verifies a form is part of its JSON (`models.go:23`), which its
  owner and the administrators read, and `GET /verify/:token` asks for no login.
  That a form is verified therefore says that somebody had a link given out for
  its present address, not that the mailbox was reached.
* Foreign keys are enforced on the first connection only; after an hour
  deletions leave orphans that no handler reaches (`NoOrphansAtFirst`
  holds until then).
* Wrong answers to a captcha are counted from a stale read; two overlapping
  handlers lose counts (`FailuresOfTwoBounded` is how many at most). A signed
  challenge serves any number of submissions while it is valid.
* A code can be used by two overlapping logins (`UsedOnceAlone`), which can lose
  a wrong attempt too (`AttemptsCountedAlone`), and limits on
  asking for codes are exceeded by the handlers in flight (`LimitsUpToOverlap`).
* A submission is noted as seen before the honeypot, the schema and the `INSERT`;
  when one of them refuses it, the same content sent again is refused as a
  duplicate for ten minutes (`DuplicateJustified` has this case by name).
* The e-mail API answers 500 when one recipient of several failed. A caller that
  repeats the whole call mails the others twice; one that repeats what the
  answer names mails no address more often than it first asked
  (`PatientMailsBounded`). A caller that heard nothing cannot know. An address
  named twice is mailed twice, and an answer may name it although one of the two
  mails was taken (`AnswerTrue` counts them).
* A setting that cannot be read counts as not set: a service mail then goes over
  the administrator's first channel and not the configured one
  (`FoundWhenSteady` has this case by name). An administrators' count that
  fails counts as enough of them (`users.go:118`, `154`); the write is then not
  one `LastAdminKept` speaks of.
* The auto-reply over the bound channel leaves no row in `email_logs`
  (`submissions.go:496`); `LogsComplete` is about the form's mail.
* An upload deletes the file of the stored logo at once, while the stored URL
  keeps naming it until the page is saved; a page loaded earlier and saved later
  brings back a URL whose file is gone; two uploads of one second share a file.
  `LogoServed` holds outside these three, and each of the three is needed.
* One captcha, judged by two handlers at once, pays for two codes
  (`CodesPaidFor`).
* The settings of the registration are refused for their channel after the
  other twelve keys were written.
* Share limits are counted before the binding is written (`BindingAllowed`
  holds when nothing changed since the count). An edit of a bound form at the
  limit counts the form itself and is refused.
* A job claimed when the process ends keeps the status `sending`; no handler
  retries it.

## 6. Abstractions

* Texts, addresses, hosts and credentials are members of small sets; formatting,
  logging and HTTP answers are left out.
* Ids come from `AUTOINCREMENT` and are never reused. Random tokens are drawn
  from a counter: never twice.
* A mail is *acknowledged* when the server's answer says so. A server that
  took the mail and whose connection broke before the answer counts as an
  error here and in the code, which then sends again; no property speaks of
  mailboxes.
* Times are scaled: a unit of `MailQueue` is 15 seconds, of the others the
  least span that orders the code's constants. The clock does not go back.
* `RateLimits` reads the clock together with the store: the code reads it just
  before or after it takes the mutex, and the wait for the mutex is taken to
  be nil.
* `Codes` has one network address and one device, the case in which every
  limit applies, and merges the four counts of `SendEmailCode` into one step;
  `Forms` merges the reads of `channelBindableByUser`. The place where a race
  matters, between these reads and the write, is kept.
* `Captcha` keeps the failure limit constant and treats an answer as right or
  wrong; an answer from another address is refused before any write and left
  out.
* `EmailAPI` has addresses as they are after trimming, in lists of any length and
  with repetitions (of two places at most in the run), and mails that are told
  apart by their place alone.
* `Settings` has the logo and not the favicon, which is handled alike; the keys
  of one save are written in no particular order, so a failing one leaves the
  logo's either written or not. In it a channel's deletion and its disabling
  are one edit: both make it unusable.
* In `Submissions` a gin context serves one request at a time and is then free
  for the next, as in gin's pool; the order in which the pool gives contexts out
  is left open.
* A failing statement is modelled where the code drops or mishandles its error,
  or where an earlier statement of the handler had its effect already: the
  outcomes of queue and submissions, the logs, the UPDATE of a form's address,
  the count of administrators and the writes of reviews, codes and captchas,
  the settings. Elsewhere an error ends the handler without an effect, which is
  the same as the request not having come. In `Submissions` an `UPDATE` of a
  form that fails is one that never comes.

## 7. Not modelled

* `ensureSSOUser` (`middleware/sso.go`): it inserts the user of a token whose
  id has no row, with the role the gateway names, and never changes a row that
  exists (of two first requests at once, one is answered 500). The row it
  writes is one that `CreateUser` of `Accounts` writes.
* Statistics, listings, exports and logs: read-only queries.
* The settings that name nothing else, and `config.toml`: key-value rows of one
  administrator and a file read once; the models take the values as constants.
* Column migrations: each is one guarded `ALTER TABLE` at start.
* IMAP test, templates, captcha pictures, hashing, encryption, JWT signatures:
  library calls or pure functions without shared state.
* The program's start, certificates and static files; the browser pages.

## 8. Plan

Order of work, most important first; what is done is marked.

1. Mail queue, its abstract service and proofs (done).
2. Forms, verification and sharing with proofs (done).
3. Submissions and their limits (done as two modules, with proofs; the note
   against duplicates and the webhook included; refines `Delivery`).
4. Accounts, codes, captcha, foreign keys (done, with proofs; accounts refine
   `ReviewService`; captcha and codes composed in `SignIn`).
5. `EmailAPI` (done, with proofs; refines `Delivery`).
6. The settings that name a file or a channel (done, with proofs).
7. Remaining: the users of the single sign-on, and the hazards that PROJECT.json
   lists without a property, each with the reason why.
