# AvtoTest: TLA+ models of the platform's protocols

AvtoTest is an exam-preparation platform for Uzbek driving licences: a Go API
(`backend/`), a Next.js frontend (`frontend/`), a Windows kiosk agent for
classrooms (`backend/station/`), a Telethon relay that turns a bank's Telegram
messages into payments (`services/humo-watcher/`), PostgreSQL, Redis and
object storage. The API runs as several processes behind a load balancer, and
nearly everything that matters happens in short database transactions of
concurrent HTTP requests, in a few background loops, and in the in-memory
goroutines of the arena.

This directory models the parts whose correctness depends on how those steps
interleave: who gets access for which payment, what an exam verdict rests on,
how a live duel ends, who is signed in as whom, and what reaches whom.

Start a run with `tlc -config <cfg> <module>` and check a proof module with
`tlapm <module>.tla`. `PROJECT.json` lists components, runs, the source lines of
every definition, hazards, findings and theorems.

## 1. Inventory

| Component | State | Operations | What is hard | What makes it correct |
|---|---|---|---|---|
| Payme webhook (`billing/payme`) | `payment.status`, `payme_transaction` | Create, Perform, Cancel | overlapping retries, five statements without a transaction in Create, a 12-hour window, requests that die | days granted once per performed transaction; access exactly while a transaction is performed |
| Click webhook (`billing/click`) | `payment.status`, `click_transaction` | Prepare, Complete | checks on rows read without a lock, a decline without a lock at all | one grant per order, a verdict that stays unless success and decline overlap |
| Card-to-card payment (`billing/manual_pay.go`) | `payment`, `manual_pay_assignment`, `_card`, `_event` | checkout, claim, confirm, reject, ingest, two sweeps, void, edit of a card | two checkouts on one card, late transfers, admin against bot against sweeper, a card that gets another number | the sum identifies the order; the money goes to its payer |
| HUMO relay (`humo-watcher`) | SQLite spool | put, drain, ack, retry | crash between success and ack, time-out with a late answer | at-least-once delivery, counted once |
| Entitlements, promo, referrals, wallet (`billing`) | `entitlement`, `promo_*`, `referral*`, wallet | checkout, grant, trial, redeem, reward, spend, void | stacked grants, limits, refund of a rewarded payment | no day lost or granted twice, books that add up |
| Reconciliation (`billing/recon`) | none | Run | reads while writers write | its error findings are stated as properties of the writers |
| Sign-up and sign-in (`auth`) | `profile`, OTP challenges, refresh tokens, Redis claims and grace, Telegram attempts and links | register, refresh, logout, block, login, link, reset | rotation racing itself, racing registrations, one chat with several requests | one successor per token, one profile per phone, only the owner of a number is signed in by it |
| Bilets, ordered practice, exams (`session`) | `variant_progress`, `practice_cursor`, `exam_session`, `session_answer` | start, answer, finish, sweep, view, reset | three writers at the deadline, side effects after the commit, reset against finish | the verdict follows from the answers and is final; a reset keeps what is open; the cursor counts work done |
| Learning, progress, leaderboard | FSRS memory, mastery, streak, Redis sorted sets | review, roll up, bump, record a point, rebuild | read-modify-write without locks, rebuild against updates | updates may be lost, never invented; caps hold |
| Arena (`arena`) | match goroutine, hub, sockets, Redis queue, invites, claims | join, invite, duel, disconnect, rejoin, finish, drain | two clocks, lost answers of Redis and Postgres, replaced sockets, pairing races | one verdict, one rating change, one record; nobody in two duels or lost in the queue |
| Broadcast (`broadcast`) | campaign, outbox rows, in-app rows | create, expand, claim, deliver, reclaim, cancel, retract | several workers, leases, death, retract against delivery | everybody reached once per claim; a campaign finishes |
| Classrooms (`b2b`, `station`) | licences, seats, keys, tokens, diagnostics, files of a PC | enrol, revoke, reactivate, rotate, report, update, self-install | lost answers, two PCs for one seat, power cuts between renames | seats within the contract; a PC always has a build |
| Admin console (`admin`) | staff, sessions, TOTP, edited rows, audit | sign-in, lock-out, enrol, edit | check-then-increment, read-then-write | budgets exceeded only by what was in flight; the trail is complete |
| Support chat (`supportchat`, `support`) | conversation, counters, hub, tickets | post, open, status, connect, fan out | commit order against send order, lagging sockets | no message is lost to a reader, each socket gets it once |
| Bot, web push | reminder claims, quiz session, subscriptions | daily pass, quiz, digest, test | a lock that lives in one connection, overlapping handlers | nobody told twice but for repeated calls, no confirmed question number posted twice |
| Avatars, content, importer, account, demo, events, site, flags, ops, server, commands, frontend, deployment | | | single statements, texts, I/O | section 8 |

The payment modules end in `billing.Service.ProcessPaymentGrant` and share
`payment.status` with the admin's `VoidPayment`; the relay drives
`IngestHumoPush` over HTTP; sessions call learning, progress and leaderboard;
the arena service hands sockets' events to match goroutines through a bounded
inbox; the support inbox hands committed messages to the hub.

## 2. Modules

| Module | Models | State and actions |
|---|---|---|
| `Payme` | `billing/payme/methods.go`, `VoidPayment` | `status`, `txn` are tables, `req[w]` a request with what it has read, `rowLock` is `FOR UPDATE`. Create is five statements; `Perform*` and `Cancel*` lock in one step and commit in another. `live` counts unrevoked entitlements, `grants` the runs of `ProcessPaymentGrant`. |
| `Click` | `billing/click/methods.go`, `VoidPayment` | as `Payme`; `click_trans_id` is not unique, so one id can have several `Rows`. `Paying` and `Declining` say with which code Click may complete an id; an id may be in both. |
| `ManualPay` | `billing/manual_pay.go`, `expire_manual.go`, the admin handlers | `last4` is the number a card has now, `asg` the assignment, `cardLock` the `FOR UPDATE OF c SKIP LOCKED` of a checkout, `push` a transfer, `ing` an `IngestHumoPush` with its candidate; time is a counter. |
| `HumoWatcher` | `watcher.py` and the API side of the ingest | `spool` is the SQLite table, `drain` the one `drain_spool`, `call` the API's requests, which outlive the watcher's time-out. |
| `Ledger` | `checkout.go`, `promo.go`, `entitlement.go`, `referral.go`, `wallet.go` | one record per transaction of a request; locks from the step that takes them to the commit. |
| `SignUp` | `auth/service.go`, `telegram_login.go`, `ratelimit.go` | three racing paths from a phone to a profile with trial, referral and session. |
| `RefreshTokens` | `auth/service.go` | `row` is the token table, `grace` and claims are Redis keys whose reads may fail, a request is a process of round trips. Implements `SessionChain`. |
| `SessionChain` | (abstract) | a chain per sign-in with one spendable head. |
| `TelegramAuth` | `telegram_login.go`, `password_reset.go`, `telegram_webapp_login.go`, bot updates | `login` and `reset` are requests, `link` the account links; `opening` holds the transactions that are opening a link, with the rows they have found and locked, `stale` (history) what still waits in a chat although a later opening saw it; contacts and taps arrive late and in any order. |
| `AdminAuth` | `admin/service.go`, `totp.go`, `middleware.go` | lock-out counter, second factor, one-time refresh tokens. |
| `AdminDesk` | `admin/handlers.go`, `content.go`, `limits.go`, `flags.go` | an edit as read, update, revision, audit, each of which may fail; a bulk verify row by row with one summary; a trigger keeps its own trail of settings and tickets. |
| `ExamSession` | `session/service.go`, `expire.go`, `rules.go` | `row`, `answers`, `cert` are tables, `req` the requests on the row, `rowLock` its lock; `revealed`, `reviews` are history. |
| `Tickets` | bilets in `session/service.go`, `rules.go` | `progress`, `ceiling`, `bypass`, `vip` are columns, `reset` the READ COMMITTED transaction with the chain it read. |
| `PracticeWalk` | `session/ordered_practice.go`, `AdvancePracticeCursor` | `cursor` is the stored place, `sess` the open sessions, `walk` history. |
| `StudyDay` | `learning/`, `progress/`, draws of `session/service.go` | rows read, recomputed and written back whole by tabs, arena results and the demo migration. A session given up for another in the same tab is not answered any more. |
| `Leaderboard` | `leaderboard/service.go`, `rebuildleaderboard` | sorted sets beside the answers they count. |
| `ArenaMatch` | `arena/match.go`, `EloStore.applyResult`, `FinishPersist` | `seat` holds clocks and verdicts, `inbox` the channel, `fin` the next call of `finish`, `expired` its context; `result` is the Redis key, `record` the rows, `hub` who is still in the match. |
| `ArenaPresence` | `hub.go`, `conn.go`, `serveWS`, `handle` | the two threads of each socket, `sleepers` the forfeit timers; `awaySince` is history. |
| `ArenaQueue` | `arena/service.go`, `handlers.go`, `arena_join.lua` | a player is a process, beside the callback of a closing socket and a timer per queue entry; Redis commands are steps, the join script is one. |
| `Broadcast` | `broadcast/service.go`, `audience.go`, `handlers_learner.go` | workers run one loop against one outbox; leases, death, cancel, retract. |
| `Classroom` | `b2b`, `station/internal/agent` | licences, seats, keys, stations; `b2b_org`'s row lock, each transaction with its own `now()`. |
| `StationUpdate` | `station/internal/updater`, `selfinstall`, `main.go` | a file is the version it holds; each rename, and the check for a running lesson before a restart, is a step between which the power may go. |
| `StationDiag` | `b2b/diag.go`, `reporter.go`, `agent/diag.go`, `status` | rows in the order of the transactions' start. |
| `DailyReminder`, `GroupQuiz` | `bot/daily_reminder.go`, `audience.go`; `bot/quiz.go` | passes with an advisory lock that dies with its connection, calls that are repeated and whose answers are lost; handlers that work on the row they have read. |
| `SupportInbox`, `SupportHub` | `supportchat/`, `support/store.go` | conversation row and messages, which staff list by pages; sockets, tickets, queues. |
| `WebPush` | `push/` | endpoints and their owners; a run goes through its list alone (digest, test) or with a pool of workers (broadcast), each sending to one browser after another. |

`MCRetries`, `MCMoney`, `MCStudy`, `MCLearner`, `MCArena`, `MCAccounts`,
`MCIdentity` and `MCService` put components that share no row next to each
other: `part`, chosen at the start, says which one a behaviour exercises; the
others rest in their initial states. The proof modules extend these, since they
declare the constants and variables of the instances (`Lobby == INSTANCE
ArenaQueue` and so on), and a theorem is about one component: `Lobby!LobbySpec
=> []LobbyInv`, with no `part` in its specification and for every value of the
constants.

Operators after a `\* Mutant:` comment are faulty variants of the operator that
follows (a dropped guard, a missing reset, a wrong comparison). They belong to
no specification; they show that each property fails when the code it is about
is wrong.

## 3. Runs

| Run (module) | Checks |
|---|---|
| `retries` (MCRetries) | Payme: GrantedOnce, AccessIffPerformed, StatusAgrees; ClickSafe (success and decline of one transaction may overlap); HumoInv; SignUpInv; RetriesEnd (a caller that keeps trying gets there) |
| `money` (MCMoney) | ManualInv, ManualSteps; LedgerInv, GrantsStand |
| `study` (MCStudy) | ExamSession: MarkingInv, KeySealed, VerdictIsFinal, TimedIsClosed; WalkInv; LeaderInv; BiletsSafe |
| `learner` (MCLearner) | StudyInv |
| `arena` (MCArena) | MatchInv, FirstVerdictCounts; LobbyInv; PresenceInv; WaitsEnd (every duel and every search ends) |
| `accounts` (MCAccounts) | RefreshInv, RefreshIsAChain (refinement of `SessionChain`); StaffSafe; DeskInv; InboxInv |
| `identity` (MCIdentity) | TgSafe; ClassSafe |
| `broadcast` (Broadcast) | BroadcastSafe, CampaignEnds |
| `service` (MCService) | ReminderInv, QuizInv, UpdateSafe, DiagInv, HubInv, PushInv, ServiceSettles |
| `click_pending` (Click) | OnlyPendingGranted, **violated**: canceled or voided between check and lock |
| `tickets_reset` (Tickets) | ResetKeepsOpen, **violated**: reset, go on from the ceiling, reset again |
| `arena_match_wedge` (ArenaMatch) | WedgeIsSurvived, **violated**: `finish` retries with an expired context |

The violated properties quote a comment or a document; quotations and lines are
in `PROJECT.json` under `findings`. In short: Click's Complete decides on a
status read before its lock; `ResetVariantProgress` walks the chain from bilet 1,
which is right for the first reset only; `finish` of a duel retries for ever
with the ten-second context of its step.

### Observations

The models also reach states that comments rule out or that a reader may not
expect, for which no run is kept. They explain why some properties are stated
as weakly as they are.

Payments

* Payme's create and Click's prepare write `pending` unconditionally after an
  earlier check (`payme/methods.go:129`, `click/methods.go:90`): a late write
  covers `paid`, `canceled` or `voided`. "Performed implies paid"
  (`recon.go:176`) and "voided is immutable" (`admin/payments.go:345`) do not
  hold; the two halves in StatusAgrees do.
* Click's `rejectTransaction` takes no lock (`click/methods.go:218`): while a
  success and a decline of one transaction are both under way its verdict may
  change either way, against "already rejected and can't be completed again"
  (`:110-111`): complete tests a row it read without a lock, and confirmAndGrant
  tests only for state 1. An order confirmed, declined and confirmed by a third
  request is granted twice. ClickSafe holds in a run that reaches these cases: it
  says that nothing else changes a verdict or grants a second time.
* The match of a transfer joins on the number the card has now
  (`FindManualPayMatchCandidate`). If a card with an open order gets another
  number (`admin/manual_pay.go:134`) and its old one is given to a second card,
  a late transfer to the old number goes to the order open on that card when the
  sums are the same. PayerFirst therefore speaks of orders whose card still has
  the number the money went to.
* A referral code that was already applied and is typed again at checkout makes
  `CreateReferral` fail and aborts the checkout (`referral.go:245-267`). A later
  stacked grant keeps access after a refund (`entitlement.go:361-364`).

Accounts

* A collision of referral codes aborts the transaction, so the retry of
  `createProfileWithReferral` inside it cannot succeed.
* Staff: the lock-out is checked, then incremented, so requests in flight pass
  together; two TOTP enrolments race; `DisableTOTP` clears whatever is stored;
  sessions survive password and TOTP changes; codes have no attempt limit.
* Console: of two patches of limits one may be lost; attributed audit entries
  may be missing or stale while the trigger of migration 0051 keeps the exact
  trail; a bulk verify rewrites `verified_by` of rows it skips, leaves one
  entry that names none of its rows, and takes no content_revision, although
  migration 0053 drops the trigger because it did (`0053_…up.sql:19-24`).
* A failed Redis read counts as a missing grace entry or claim
  (`auth/service.go:553`, `:646-647`): one failed EXISTS while a rotation is in
  flight makes an honest retry look like theft and signs every device out.
* Telegram: a login and a reset opened in one chat at the same time stay both
  armed, since each clears the other's table before the other commits; the next
  contact or tap goes to the login first. "Their phone share and taps are about
  the reset" (`password_reset.go:269-272`) holds for links opened one after
  another.
* Support: opening a thread or reading with a `before` cursor lists one page and
  clears `unread_admin` all the same (`supportchat/handlers.go:304`), and a
  message between the list and the clear is not counted as unread either; broadcasts may leave in another order than commits.

Study

* A bilet finished between the read and the delete of a first reset is lost
  (`session/service.go:1313`).
* `AdvancePracticeCursor` compares positions, not walks
  (`queries/session.sql:381`): an answer of an earlier walk counts once the new
  walk has reached its start.
* Memory, mastery and streak lose updates; an arena settlement and an answer can
  deadlock (the victim aborts); open sessions exceed the free allowance by at
  most their number times the limit.
* A rebuild between an answer's commit and its point counts it twice; an answer
  just before midnight may be credited to the next day.

Arena, broadcast, push, bot

* A joiner who is claimed while searching takes up to eight others out of the
  queue (`arena/service.go:388`); they are never told and search on until their
  own time-out. A late dequeue may follow (`:893-900`).
* "Retract … stops further delivery" (`broadcast/service.go:214`) does not reach
  deliveries in flight; a late `failRecipient` or a second expander can hand
  work back to a completed campaign (comment at `:610`).
* Overlapping digests or test clicks both pass the cooldown, and a test click
  whose cooldown cannot be read goes through (`push/service.go:265`); a digest
  that reached no browser blocks the next for twenty hours. A push goes to the
  browsers listed for the profile, also one that another has taken over since.
* The reminder repeats every call that fails otherwise than by a time-out
  (`bot/daily_reminder.go:551-595`), so a call that broke off after Telegram took
  the message, or a 5xx, tells the user twice, although `:548` and `:67` speak of
  failures in which "nothing was sent". Whether the claim is handed back depends
  on the last attempt alone (`:443-450`), so an earlier attempt that arrived can
  be followed by a second bundle.
* "No poll, so the number reserved above was never asked" (`bot/quiz.go:395`):
  after a lost answer the chat shows a poll that has no row; votes on it count for
  nobody, and the next poll carries the same number.
* A failure of `failRecipient` is ignored (`broadcast/service.go:456`): the row
  stays in processing until its lease runs out.
* A 403 can overwrite a later unblock; users re-enabled after the pass get
  nothing that evening. A vote between `SendPoll` and `CreateQuizPoll` is lost,
  a redelivered one counts twice, two handlers can post two final messages.

Classrooms

* "Unreachable in normal operation" (`b2b/enroll.go:280-289`) is reachable;
  `ReactivateStation` of a row deleted meanwhile reports success; `HardDelete`
  leaves shadow profiles; revoked stations cannot report diagnostics.
* "A downgrade repairs itself within minutes" fails when `update-staged.json`
  names the release; an installer started beside a running agent only opens
  the kiosk. `maybeRestart` checks for a lesson and shuts down in two steps: a
  kiosk call in between is cut off. Enrolment gives up after twelve attempts.
* The fleet list and the history can disagree after overlapping reports, and
  overlapping sweeps leave one row too many; the warning of `connect.go:105-109`
  does not stay on the screen; an enrolled PC whose token is refused never
  reports.

## 4. Bounds, and why they are enough

* Payme, Click: one order, since no rule relates two orders; two Click ids, one
  of which may be paid and declined; two transactions
  or rows reach every conflict on the active one; two requests (three for
  Click, whose checks are spread wider); `MaxAborts` requests die. `SignUp`: two
  requests for one phone. `HumoWatcher`: two messages, two calls, three faults.
* `ManualPay`: two orders, one card with two numbers of which it changes once
  (`MaxEdits`), two sums, a clock of two ticks with `Hold`
  and `TTL` 1: held cards at 0, released ones with an open order at 1, stale
  orders, a sum given out again and a late transfer at 2. `Ledger`: two
  profiles, two transactions. The constraint `OneAtATime` sells
  a second order only while nobody withdraws and the console rests.
* `ExamSession`: two questions, a mode that forgives no mistake and others that
  forgive one, two requests and the sweeper, deadline at tick 1 of 2.
  `PracticeWalk`: three questions, sessions and walks. `Tickets`: three bilets,
  one below the threshold.
* `StudyDay`: two tabs, two questions of one category (so that different answers
  meet in one row of mastery), three days, one start and two grades beyond what
  the learner begins with: a subscriber's first day, or a free learner with an
  allowance of one who has answered in one tab and has a session open in the
  other. So three practice answers are within reach where two are allowed.
* `ArenaMatch`: two questions, an inbox of two, three events, one fault (two in
  the wedge run); ranked and bot duels (each half of a friend duel is in one of
  them). `ArenaPresence`: two sockets, a grace of one tick; the theorem is about
  any number.
* `RefreshTokens`: three tokens, two requests (symmetric), one fault, which may
  be a failed Redis read. `SupportInbox`: three messages, pages of two.
* `TelegramAuth`: two users with a number each, a login and a reset, two
  questions, one link token at a time; one chat is followed from the opening of
  a link on. `Classroom`: two PCs, two keys, licences of one seat each. The clock
  (two ticks) is too short for a seat to be reclaimed from a PC that has fallen
  silent, so that part of ClassSafe (LessonGoesOn) rests on its theorem.
* `Broadcast`: two workers and learners, pages of one, two attempts, one worker
  upset and one expired lease.
* `DailyReminder`: two processes, two users, a call repeated once (`Retries`); `GroupQuiz`: two handlers, two
  questions; `StationUpdate`: three builds, three events; `SupportHub`: two
  learners, one of staff, a queue of one. `WebPush`: two profiles, a pool of two workers.

The largest runs are `identity` (1.2 million distinct states), `money` (0.8) and
`service` (0.65), two minutes each or less. Symmetry is used only where no
liveness is checked. `CHECK_DEADLOCK FALSE`
stands where a system really stops: a duel that is over, a budget used up.

## 5. Fairness

Weak fairness of a step stands for a process that is scheduled, strong fairness
for somebody who must get a turn between others. Faults and deaths are bounded,
as any such claim needs; users and players are never fair.

* Payme: a running request goes on (weak), Payme repeats a perform until it is
  answered (strong, since other requests hold the row in between).
* `HumoWatcher`: the container restarts, `retry_spool_loop` comes back, the API
  finishes its requests. `SignUp`: requests proceed and the window of the rate
  limit ends; a limited learner tries again (strong).
* `ExamSession`: time passes, the sweeper's ticker fires, whoever holds the row
  goes on, and Postgres hands a free lock to some waiter.
* Arena: timers fire, goroutines are scheduled, Redis and Postgres answer calls
  whose context is alive; the queue's time-out and the clean-up run.
* `Broadcast`: a worker that lives goes on, back-off and leases run out.
* Service: a pass of the reminder, handlers and timers of the quiz, the
  reporter and its server, socket handlers; the updater retries and the PC is
  switched off some day (strong).

## 6. What is proved

Every safety property of every run is proved with TLAPS, except StudyInv. The
theorems hold for every value of the constants that satisfies the named
assumptions: the `ASSUME`s of the component module, which TLC evaluates on its
instance, or for an instance of a component the hypothesis of the theorem
(`WalkConstants` and the like), which says the same kind of thing: a set of
requests is finite, a limit is a number, a placeholder is not one of the names.

| Proof module | Theorems | About |
|---|---|---|
| `PaymeProofs` | TypeCorrect, GrantedOnceThm, AccessIffPerformedThm, StatusAgreesThm | any orders, transactions, requests and deaths |
| | ClickSafeThm | ClickInv and VerdictIsFinal, for any choice of codes, one transaction paid and declined included |
| | HumoThm | any messages, calls and faults of the relay |
| | SignUpThm | any number of racing registrations |
| `ManualPayProofs` | ManualSafe, ManualStepsThm | ManualInv and the action property ManualSteps |
| | LedgerThm, GrantsThm | any profiles, transactions, prices, terms, limits, percentages |
| `ExamProofs` | MarkingThm, KeySealedThm, VerdictIsFinalThm | any questions, requests, deadline and budget |
| | WalkThm | any bank, sessions and walks |
| | LeaderThm | any players, days, caps and requests |
| | BiletsThm | any bilets, resets and finishes |
| `RefreshProofs` | RefreshSafe, Refinement | RefreshInv, and `RefreshTokens` implements `SessionChain` |
| | StaffThm, DeskThm, InboxThm | any requests of staff and learners, any limits |
| `TelegramProofs` | TgSafeThm | invariants and action property of TgSafe |
| | ClassSafeThm | invariants and action properties of ClassSafe, any PCs, keys and licences |
| `ArenaProofs` | MatchThm, FirstVerdictThm | MatchInv and the action property FirstVerdictCounts |
| | PresenceThm, LobbyThm | any sockets and grace period; any players, codes and timers |
| `BroadcastProofs` | BroadcastSafeThm | invariants and action property of BroadcastSafe |
| `ServiceProofs` | ReminderThm, QuizThm, HubThm, PushThm | any users, handlers, sockets and deliveries |
| | UpdateThm, DiagThm | any builds, power cuts, outages and restarts of a PC |

Hardly any of the properties is inductive by itself; for each component the
module defines an inductive invariant that adds what the code silently relies
on. TLC checked each of them on the instance of the run before it was proved.

Money:

* **Payme.** GrantedOnce fails from a state in which a request has read state 1
  of a row that is performed by now. `LockOwned` and `LockHeld` say that a
  request in perform or cancel holds its row's lock and that what it has seen is
  what is stored; `CreateNamed` that a create knows its ids; `RowNamed` and
  `OneActive` (the unique index) that an order's access can be read off a single
  transaction.
* **Click.** The same lock argument for `confirmAndGrant` (`RowOwned`). Rows
  whose transaction Click pays and declines (`Mixed`) are set apart: every
  other row is wanted by one side of the verdict only (`CallNamed`,
  `RowVerdict`), and a rejected mixed one is confirmed only by a request that had
  read it before.
* **HumoWatcher.** `Matching`: a message has no event yet, or one, and then at
  most one request is on its way to the match. `AckKnows`: a drain about to
  delete a message has the answer of a request that found or made its event.
* **ManualPay.** A checkout in flight has no rows yet (`CheckoutIsNew`) and
  names a card when it commits (`CheckoutNamesCard`), an order exists exactly
  when it has a card (`AssignedCard`), a push carries the sum its payer was shown
  (`PushShows`), and an ingest on its way to the mark holds a paid order
  (`MarksPaid`). The number of a push is found on one card at most, since no two
  cards have the same (`CardsDiffer`, the unique index), so one order at most
  matches. Every action is first reduced to a shape (`Turn`): which rows it
  touches and what it keeps of them; the invariant is proved of the shape.
* **Ledger.** Until a transaction commits nobody else has its payment, its code
  or the profiles it locked (`Apart`), so what it read under the locks still
  holds (`Facts`). Grants of a profile form a stack without overlap (`GrantRows`,
  `Stacked`, `Worth`); commissions agree with sales (`Settled`), balances with
  rows (`Solvent`), holds with withdrawals (`Holds`). The totals are folds over
  sets of rows, so the module first proves what such a fold computes: that
  `SumOf` does not depend on the order in which `FoldSet` takes the rows, and
  what adding, removing or changing one row does to it.

Accounts:

* **RefreshTokens.** Whoever is between update and commit finds its token live
  and is alone (`RotationOwns`); a live token has no successor (`Lineage`); a
  rotated token stays claimed until a fault takes the claim, and a token whose
  reader was misled by a failed read counts as one that lost it (`Excused`). The
  refinement maps a commit to the abstract spend and revocations to closing a
  chain; all else stutters.
* **SignUp.** Who is about to commit (the one request that holds the phone), who
  may sign in (only into a profile that exists), and the guesses still being
  compared, which count with the attempts on a code (`Guesses`).
* **TelegramAuth.** An approval trusts what was stored with the question
  (`Core`): `LoginOK` and `ResetOK` say that a request waits only for the user in
  whose chat it is pending, that a remembered contact is that user's own number,
  and that a reset's question was earned by the owner of the profile's number;
  `LinksOK` that a user has one verified link. What an opening may do at its
  commit rests on what it locked (`Chats`): its own row is as it was found
  (`Held`), whatever waits in its chat it locked or came since (`Seen`), and one
  request of each kind waits in a chat, by the unique index (`OneEach`).
  `NamesAssumption`: every Telegram user has a number, and the names of logins,
  resets and placeholders differ.
* **AdminAuth.** The failures on the account plus the logins that have passed
  the lock and not yet compared stay below the limit plus the requests in flight
  (`Lockout`); no two sessions hold the same refresh token and none holds one
  that was exchanged (`OneHolder`).
* **AdminDesk.** An edit before its update knows a value the row has had, one
  after it an entry of the trail (`Knows`). While no two edits have overlapped
  there is at most one (`OneAtATime`), and unless a statement failed, a request
  died or a bulk verify summed up, the attributed log is the trail up to it
  (`Complete`).
* **SupportInbox.** While a staff request stands between its list and its clear,
  whatever waits and was off its page, or came since, is marked as missed
  (`Cleared`); each committed
  message is announced or has one request that will do it (`Announced`).

Study:

* **ExamSession.** A transaction on the row holds its lock and knows the current
  row (`LockHeld`); a view may hold an old row, but one that was true
  (`ViewSeen`); an answer names a question of the session (`AnswerNamed`), is
  new (`Fresh`), and still has its point coming (`PointsOwed`).
* **PracticeWalk.** An answer of the current walk passes the guard of
  `AdvancePracticeCursor` because its session was drawn at or before the cursor
  (`DrawnBehind`); what the cursor has passed was answered (`Covered`).
* **Leaderboard.** A board leaves room for every point in flight: what it shows,
  what a request has read and what a rebuild has counted, each with the answers
  in flight on top, is covered by the answers given and those known to be
  counted twice (`Room`). Each step is proved to keep it (`RoomKept`).
* **Tickets.** The chain a reset carries is the unbroken run of the bilets it saw
  completed, and those were completed at some time, whatever has happened since
  (`Unbroken`, `Reading`).

Arena:

* **ArenaMatch.** After a lost answer `finish` starts again from the rating with
  deltas it may have got before. `Books` says what each of its calls may rely
  on: past the rating, the deltas in hand are the ones Redis keeps; past the
  row, the row is stored. `SeatOK`: a seat has verdicts on exactly the questions
  before its own. `Flow`: nothing is rated, stored or told before the end.
* **ArenaPresence.** PresenceInv speaks of moments when nothing is half-way. An
  open socket has the hub's entry or is being replaced (`Held`); while the last
  word the match will hear is a disconnect, a live socket has a newer one beside
  it that still has to send its reconnect (`WordToCome`); a check of the present
  generation was sent a whole grace after the drop (`Timely`, `Counted`).
* **ArenaQueue.** The claims being started and the duels running are pairwise
  different, and each is what all its humans point at (`Starting`, `Duels`), so
  releasing one frees nobody else. A searching player waits in the queue, is
  claimed, is a candidate in a joiner's hands, or counts as bumped (`Reachable`).

What runs in the background:

* **Broadcast.** A worker that outlived its lease pushes for a claim whose row
  somebody else has claimed again, so `PushesBounded` alone is not inductive.
  `Covered` counts what is owed: pushes shown plus workers that may yet show one
  never exceed the attempts on the row. A completed campaign needs that a
  retracted one is cancelled (`MarksOK`). Every other step has one shape
  (`Still`): no attempt, push or debt changes.
* **DailyReminder.** The advisory lock is no part of the argument, since a pass
  goes on after its session has lost it. A pass between its claim and the first
  message is the only one that holds that user, and nothing but a copy whose
  answer was lost has reached them (`Claims`); it sends the recorded question or
  one that no longer fits (`Picks`).
* **GroupQuiz.** The numbers reserved and not yet confirmed are distinct, at most the
  counter and not among the polls (`Numbers`); once the counter has reached the
  last question only handlers that had decided before can go past it (`Bounded`).
* **SupportHub.** The hub's tables hold nobody who has left (`Known`); a
  learner's open socket that is not the registered one is named by the handler
  that replaced it and will close it (`Replaced`).
* **WebPush.** The deliveries that still have a profile on their list count with
  its rows (`Reached`): a launch raises the count by one and the number of runs
  with it, and with a cooldown the count is at most the deliveries at work
  (`Digests`, `Tests`).

Classrooms:

* **Classroom.** Whoever holds `b2b_org`'s row lock may still rely on the seats,
  stations and key it read under it, since whatever happens without the lock
  only frees seats or adds licences (`CallOK`, `DeskOK`, `Locks`). `PcOK`: a PC
  whose station is in use was seen at its last renewal. `Keyring`: one key
  opens. The seats of a contract are a sum over licences, proved as above.
* **StationUpdate.** The disk must be safe after every file operation. Some build
  is on it or in the installer's download (`Available`); before the updater
  deletes `target.prev`, and while an installer copies, the build in use is in
  place or set aside (`Kept`); a file that is renamed takes the running image
  with it (`Image`); a new build is moved into place only when the process does
  not run from there (`Placed`). What LastCopyKept adds: an installer that sweeps
  while nothing is installed is the only one that can delete the last copy, and
  it still holds its download (`Installing`).
* **StationDiag.** A row that one open transaction may miss was written by the
  other, and whoever commits is no longer behind anything, so the two never miss
  rows at once and where two are missed there is room for one (`Limited`). While
  no answer was lost, one request is under way at a time, its row is the newest,
  and it is the one the summary is rewritten for (`Undisturbed`).

Induction. The library's induction theorems take an operator, which the
installed provers cannot instantiate. Where a total or a counted set needs
induction (`Leaderboard`, `Ledger`, `Classroom`), it is done over a set: the
counterexamples have a least element by `WFMin` of `WellFoundedInduction`
(`NatLeast`, `LeastNat`, `LeastSubset`), and the least one leads to a
contradiction.

Only model-checked:

* all liveness (CampaignEnds, RetriesEnd, TimedIsClosed, WaitsEnd,
  ServiceSettles), since the provers handle neither fairness nor ENABLED;
* StudyInv, whose parts need a theory of the longest run of
  study days and of the counting draws, on top of the sums.

No module declares a RECURSIVE operator.

## 7. Plan

1. Done: all modules of section 2, the runs of section 3, the proofs of
   section 6.
2. Left: a proof of StudyInv. Abstract specifications for `Broadcast` (delivery
   at least once) and `HumoWatcher` (a set of recorded messages) in the manner
   of `SessionChain`.

## 8. Abstractions, and what is not modelled

* Providers call back only for orders whose checkout they got; no code path
  writes `failed`, so it appears only in guards. In the provider modules
  `ProcessPaymentGrant` and the revocation are one grant and one revocation per
  order; what they do to days, promo codes, referrals and the wallet is `Ledger`.
* Input refused before anything is written (signatures, amounts, invalid ids)
  is no step.
* `ManualPay`: confirm, reject, claim and void are one step each, since each
  locks or conditionally updates both rows in one transaction; a deadlock victim
  is a step that did not happen. A push is the number of the card, its sum and
  time; a payer transfers to the number the card had at the checkout or has now.
* `Tickets`: bilet numbers are contiguous, one open session per bilet.
* `PracticeWalk`: quarantine removes the last question of the topic; removing
  another shifts the numbering of old sessions, which the code accepts.
* `ExamSession`: drawing, allowance and streaks are in `StudyDay`, bilets in
  `Tickets`. `StudyDay`: scheduling is reduced to what a right or wrong answer
  does to repetitions, lapses and the due day; the streak's upsert is merged with
  the commit.
* `ArenaMatch`: points are 0 or 1 and a rating moves by its sign; a full inbox
  makes a sender wait instead of dropping the event after its second; the
  process does not crash, and the markers a restart leaves are not modelled.
  `ArenaPresence`: one player.
* `AdminAuth`: one account; the budget per IP is abstracted. `SupportHub`:
  uploads and the public ticket form are left out. `DailyReminder`: one evening.
  `WebPush`: a push that fails while the subscription is kept changes no row.
* `Classroom`: one school; request limits, including the organisation-wide cap
  of 500 and the limit on token failures, are left out.
* Not modelled: floating-point scheduling (FSRS, Elo); parsing, formatting,
  encryption, object storage and the frontend, which are I/O or data;
  single-statement CRUD, which has no interleavings; deployment.
