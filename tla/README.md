# Ordely in TLA+

Ordely phones the customers of online shops to confirm their orders. A shop places an order;
the backend phones the customer through a voice agent ("Maria"), up to three times, inside the
shop's calling hours; the customer's answer confirms or cancels the order, and an order that
nobody could settle becomes `unreachable` and is left to the staff. Around the calls there are
merchants with accounts, shops with a plan, an onboarding and settings, live pages, figures for
the shop and for the platform's administrators.

These modules model that system from the TypeScript and JavaScript of `src/backend` and
`src/frontend`, TLC checks them on small instances, and TLAPS proves part of what TLC checks for
every instance. `PROJECT.json` holds, for every definition, the lines it stands for; the hazards
of the code, with the properties that address them; the runs; and one mutant for every property.

## 1. The system

| Part | State it keeps | Operations | Modelled in |
|---|---|---|---|
| Calling policy: `call-orchestration-policy.ts`, `voice.rules.ts` | none | retry delay, attempt cap, calling window, decision threshold | `CallPolicy` |
| Tables `orders`, `calls`: `schema.prisma` | an order's status; per order and attempt number one call row | read, conditional update, insert | `CallTables` |
| Call orchestrator: `call-orchestrator.service.ts` | `polling`, `pollAgain`, the interval timer | `pollOnce` (expire, read a batch, create an attempt, dispatch), wake-ups | `CallOrchestrator` |
| Call dispatcher: `call-dispatcher.service.ts` | `activeDispatches` | `dispatchCall`, for the poll and for a manual request | `CallDispatcher` |
| Ringio adapter: `ringio.adapter.ts` | the handle of one child process | `checkCapacity`, `startTask`, the exit handler | `CallDispatcher`, `VoiceRuntime` |
| Voice worker: `voiceCallAgent.js`, `ordelyCallbackClient.js` | one call: decision, timers, session, output queue | events of the call server, of the media connection, of Gemini, of its timers | `VoiceCall`, `MediaBridge`; seen from the backend: `VoiceRuntime` |
| Gemini session: `geminiLiveSession.js` | one socket, its setup, its listeners | `connect`, messages, `close` | `GeminiSession` |
| Voice callbacks: `voice/callbacks/` | none | `handleEvent`, `handleResult` | `CallCallbacks` |
| Calls API: `calls.service.ts` | none | queue, queue all, retry after review, manual dispatch, edit, list | `ShopRequests`, `ShopFigures` |
| Orders API: `orders.service.ts` | none | create, edit, delete, CSV import and its dialect | `ShopRequests`, `OrderImport` |
| Call artifacts: `voice/artifacts/` | transcript, recordings | lines, uploads | `CallArtifacts` |
| Former dispatcher and callbacks: `voice-dispatcher.service.ts`, `voice-callbacks.service.ts` | one pass at a time | tick, fragments, results | `RemoteAgent` |
| Authentication: `auth/` | users, links, session tokens, pictures | register, login, verify, reset, change, picture | `Accounts` |
| Billing, boutique, onboarding: `billing/`, `boutique/`, `admin/plans.ts` | a shop, its payments | sections, completion, settings, subscribe | `Plans`, `Boutiques` |
| Administration: `admin/` | none (a cache of one minute) | the reports | `AdminFigures` |
| Analytics, dashboard: `analytics/`, `dashboard/` | none | the shop's reports | `ShopFigures` |
| Realtime: `realtime/`, `RealtimeProvider.tsx` | rooms, sockets | connect, announce, refresh | `Console` |
| Web application: `src/frontend` | cookie, forms, the studio | redirects, forms, Voice Lab | `Pages`, `SettingsForms`, `OrderDesk`, `VoiceLab` |
| Voice task endpoint, reclamations, mail, storage, fake client | see section 5 | | no |

### How the parts interact

The backend is one Node.js process: a handler runs without interruption up to an `await`, and
every other handler may run there. The orchestrator polls when it starts, every interval, and
when an order or a result wakes it; a wake-up during a poll is only a flag. The poll, and a
manual request of the staff, call `dispatchCall`, which updates the counter, asks the adapter for a
worker and writes the row. The adapter forks **one** child process at a time. The child connects a
Gemini session when the customer has answered, posts status events, transcript lines and its one result over HTTP to the
same backend, without retry. `handleResult` closes the call, and moves the order only if it is
still pending, in one transaction. The staff's requests read and write the same two tables; when one
is done it announces an event to the sockets of its shop, and the provider in each open page renders that page again.

The other parts meet these only through rows: authentication writes users and shops, the
onboarding makes a shop callable, billing gives it a plan, the reports read all tables.

### What is hard

- Every `await` between a read and a write: the adapter looks at its handle, awaits the call
  server twice and forks; `queue`, `queueAllPending` and `retryAfterReview` read the calls and
  insert an attempt later; the poll decides on a snapshot; `handleResult` looks the call up
  before its transaction; two requests open the same reset link; two transcript lines rewrite one transcript.
- Four parties close one call: the result, the expiry, the dispatcher (refused start), the
  adapter (dead worker). The first one must win and the order must follow it.
- The task id is stored after the fork: an event or a result can arrive before it and is lost.
- Requests are lost, events are reordered, workers die or outlive the timeout of their call,
  and a restart kills the workers with the backend.
- Liveness: retries, the cap, the calling window, the phone that is busy, the cursor over
  batches and the lost wake-up decide whether an order is ever settled.
- In the worker: the session resolves after the end, a handler continues after the end, two
  timers, Maria's report and the hang-up race for the decision, and the goodbye must be heard.
- In the session: `connect` races a socket, a setup and a timer while the call may end.
- Outside the database: the card is charged and a file is put before the row that names it is written.
- In the browser: pages, sockets and server actions answer late; React resets a form when its
  action has answered, and several places redirect on their own reading of the session.
- In the figures: windows, local days, months and cohorts in separate queries that must agree.

### What makes each part correct

- *Policy, orchestrator, dispatcher, staff*: never two open attempts of an order, no gaps, retries
  spaced and capped; one worker on the phone; the counter exact; a customer phoned once per attempt.
- *Callbacks*: an ended call stays as it ended; the order and its calls tell the same story; a
  decision of the staff is not overwritten.
- *Together*: the subsystem implements `OrderConfirmation`; orders are settled, calls end,
  wake-ups and later orders are not forgotten.
- *Worker and session*: the first decision is the one reported; the goodbye is heard; a connected
  call ends; nothing keeps the process alive after that; no session is open that nobody uses.
- *Accounts, billing, onboarding*: a reset link works once and a refused request stays refused; a new
  session is accepted; a plan was paid for; a completed shop can be called; files that rows name exist.
- *Screens*: a page catches up with the table; redirects end somewhere right; a form tells the truth of what it sent.
- *Figures*: reports agree with each other, and a figure that is final does not change.

## 2. The modules

```
OrderConfirmation          what the subsystem promises (abstract specification)
CallPolicy                 policy and result mapping, pure operators
  CallTables               the rows of orders and calls, ages, calling windows
    VoiceRuntime           the adapter's handle, workers, events and results on their way
      CallDispatcher       dispatchCall and startTask, one record per concurrent caller
        CallCallbacks      handleEvent, handleResult
          CallOrchestrator pollOnce, wake-ups, timer
            ShopRequests   requests of the staff and of the shops
              CallSystem   Init, Next, restarts, time, fairness
                CallProperties    the properties, and the refinement mapping
                  MC_Core         values of the constants for TLC
                  CallProofs      types, counter, one worker, decisions of the staff, one open attempt;
                                  phoned once, ends stay, retries spaced, the promise
MediaBridge                the worker's output queue, pure operators
  VoiceCall                one run of the worker, with its properties
    VoiceCallProofs        its types, what is left running, decision and goodbye
GeminiSession              one session with the Live API
Plans                      prices, quotas, recommendation
  Boutiques                one shop: onboarding, settings, subscribe
    Pages                  redirects and the tabs of the merchant
  AdminFigures             the administrators' reports, over a history of shops
    ShopFigures            one shop's reports
Accounts                   users, links, sessions, pictures
CallArtifacts              transcript lines, recordings, the worker's files
RemoteAgent                the former dispatcher and its callbacks
Console                    live pages, sockets, announcements
OrderImport                the import of a sheet, the dialect of the exports
SettingsForms, OrderDesk, VoiceLab    the forms and the studio
  Forms                    the three side by side
AccountProofs              Accounts, Pages and what is under them
AgentProofs                GeminiSession, RemoteAgent, CallArtifacts
FigureProofs               AdminFigures, ShopFigures
ImportProofs               OrderImport
ScreenProofs               Console, Forms
MC_Web                     Pages .. VoiceLab, explored one part at a time
  WebProofs                the composition, from the proofs of its parts
```

Each module of the calling subsystem EXTENDS the one above it; `CallSystem` composes their actions.
The parts of `MC_Web` share no state that one of them waits for (they meet in rows whose writers are
modelled in each part as far as it reads them), so `MC_Web` chooses one of 16 parts in its initial
state and moves only that part's variables: a product would multiply states and add no behaviour.

### State and code: the calls

| Variable | Code |
|---|---|
| `order[o]` | `orders.status`, with `absent` and `deleted` for rows that do not exist |
| `call[o][n]` | the row of attempt `n`: `status`, `disposition`, `phase` (`transportPhase`), `task` (`taskId`), `dispatched`, `completed` |
| `open` | the shops inside their calling window |
| `issued[o][n]` | how many task ids were made for an attempt; with it a task id is `<<o, n, k>>`, in place of a UUID |
| `child` | the adapter's `child` and its task |
| `live`, `reported` | the worker processes that run, and those that posted their result |
| `events`, `results`, `resolved` | requests on their way, and results whose call was looked up and whose transaction has not started |
| `activeDispatches`, `disp[c]` | the dispatcher's counter; where each concurrent `dispatchCall` is (`reading` with the counter up, `starting`, `accepted`, `rejected`) and its call |
| `poll`, `again`, `lag`, `openThen`, `stale`, `giveUp`, `todo`, `cursor` | where `pollOnce` is, `pollAgain`, and its local variables |
| `request[r]` | a staff request between its read and its write, with the rows it will insert |
| `crashes` | restarts so far (a bound) |

`dispatchCall` takes a step for each `await`: `Enter` raises the counter before anything is known of the
call, which need not be there; `Check` and `Refuse` decide on the row as it was read; `Launch`, `Reject` and `Defer`
are the answers of `startTask`; `Record` writes the row. Every way out goes through `Leave`, the `finally` block.

Time is a `Tick`. The columns `dispatchedAt` and `completedAt` are **ages** in ticks that saturate once
no comparison distinguishes them; `RetryDelays` and `StaleTimeout` are in the same unit. `Tick` is not
synchronised with the poll: `lag` and `openThen` keep what the poll took from the clock when it started.

In `VoiceCall`, `stage` follows the call server and the media connection, `gemini` the session's
promise, `greeting` `greetingStarted` and `greetingComplete`, `out` the queue, rest, timer, turn and
silence counter of the bridge. `waiting` is `drainWaiters`, `resumed` a promise that is resolved and
whose handler has not continued; every other event requires `~resumed`, because a microtask runs
before the next event. `ending` is `finishPhase`, and `cleanup` where `cleanup()` is. `GeminiSession`
opens that promise up: `link` is the socket, `connecting` the `await` at which `connect` is, `setup` the setup's promise.

### State and code: the other parts

- `Accounts`: `accounts` is the users table; `sessions` the tokens handed out, by second of issue;
  `mails` the links that arrived; `req[r]` a request with what its method read before its last `await`.
  Time is in half seconds, because a session's `iat` is in whole seconds and `passwordChangedAt` is not.
- `CallArtifacts`: `entries` are `call_transcript_entries`, `transcript` the column that every request
  rewrites, `posts` the requests between their reads and writes; `worker` the process with its lines and files.
- `Boutiques` and `Pages`: `shop`, `payments`, `charged` (what the provider accepted), `work[t]` a tab's
  request; `cookie`, `accepted`, `verified`, `admin` is all the pages decide on; `Target` follows the redirects.
- `AdminFigures`, `ShopFigures`: a history of sign-ups, plans, orders and calls at a few `Moments`, in
  half days. A call is a row of its own with the moment of its insertion: an order has none at first, and may get
  several on later days; they go with it when it is deleted. Each report is an operator over the tables, with its
  window, its grouping and its rounding rule kept as part and whole.
- `RemoteAgent`: `pass` is where the dispatcher's tick is, `agent` the scripted agent of
  `scripts/fake-voice-agent.js`, `posted` the callbacks under way.
- `Console`: `table` the rows, `request` a staff request (write, announce, answer), `room` and `socket` the
  two ends of a connection, `wire` its events, `page` what a visit shows and its refresh in progress.
- `OrderImport`: a text is a sequence of characters over the alphabet that the parser and the checks tell
  apart (comma, quote, line breaks, spaces, list separator, formula signs); `Cells` walks over a line as `parseCsvLine`
  does and each cell is trimmed as `importCsv` does; the sheets are written by the rules of the format.
- `SettingsForms`, `OrderDesk`, `VoiceLab`: what a field shows, the request it sent, the row; a server
  action is asked for, accepted or refused, and answered in steps of its own.

### Abstractions

Names, amounts and languages are left out. A confidence is a number of
tenths; `MinConfidence` is the threshold. A provider call id does not exist: nothing in the core
decides on it. Event phases are a set. Two rows of one `createMany` are inserted in one step,
as the database does, and skip duplicates as the unique key makes them. `handleEvent` is one step: it
reads and updates only the transport columns. Audio is counted in frames, with one bit for a rest.
A password is its own hash; a random token or object key is the next number. One field of a form
stands for all fields that are alike.

## 3. What is checked

All passing runs finish with the whole state space explored.

| Run | Instance | Shows |
|---|---|---|
| `calls` (1.17 million states) | one order, three attempts, five kinds of result, lost requests, dying workers, one restart | `TypeOK`, `PhonedOncePerAttempt`, `OrderMatchesCalls`, `EndedCallStays`, `ImplementsPromise` |
| `staff` (0.97 million) | one order, four attempts, one staff request at a time beside the poll, edits, deletion, calling windows | `OneOpenAttempt`, `StaffDecisionStays`, `RetriesSpaced` |
| `manual` (3.19 million) | manual dispatches beside the poll, also of calls that are closed, missing or outside their hours; forks that throw, deletion, calling windows that open and close | `OneWorker`, `CounterIsExact` |
| `settled` (279 thousand) | fair; lost requests, dying workers, unclear results, calling windows that open and close | `EveryOrderSettled` |
| `ends` (37 thousand states) | fair, the interval timer only where a property asks for it; lost and reordered requests, a restart | `EveryCallEnds`, `NoLostWake` |
| `starve` (239 thousand) | fair; two orders, batches of one, the first order stuck | `EveryOrderCalled` |
| `voice` (2.7 thousand) | one worker: prebuffer of two frames, one silent frame, a queue of at most four | `VoiceCallTypeOK`, `NothingLeftRunning`, `DecisionStays`, `GoodbyeHeard`, `CallFinishes`, `NoEndlessCall` |
| `web` (847 thousand) | the 16 parts of `MC_Web` | see below |

The parts of `web`, with `WebTypeOK` for all of them:

| Part | Instance | Properties |
|---|---|---|
| sign-up, passwords, pictures | two addresses, one of them the administrator's, two concurrent requests, three random values, four instants half a second apart, mails lost, a restart of the API | `ResetLinkOnce`, `RefusedStaysRefused`, `NewSessionWorks`, `AvatarStored` |
| transcript, recordings | two dispatches of one call, two requests under way, two numbered lines, one without a number | `TranscriptLacksOnlyOverlapped`, `UploadedIsStored` |
| shop | two tabs, windows of exactly an hour, of less, reversed or none, tokens that are accepted, declined, malformed, two charges | `PaidPlanWasPaid`, `CompletedShopIsCallable` |
| pages | one tab, a second window that changes the account, every combination of session, confirmation and shop | `RedirectsLead` |
| figures | two merchants, two orders, two calls, each at one of three moments, of one order or of two; windows of a day, a week and 30 days take in some, none or all; at most five facts (`MaxFacts`) | `FiguresAgree`, `RevenueSplits`, `CohortFiguresFinal` |
| shop figures | two orders, two calls, two moments | `ShopFiguresAgree` |
| agent | one call on its last attempt, two fragments, two callbacks under way | `AgentWordKept`, `FinishedCallStays` |
| session | three messages, every mix of transcript, audio, tool calls and ends of turns | `SessionAccountedFor` |
| console | two visits, one order, one write, a dropped connection, a revoked session, a restart | `PagesStayCurrent` |
| import | sheets of up to three rows of six kinds (commas, quotes, spaces, lists, formulas, a blank line), three headers, quoted or not, an upload limit of two | `ImportKeepsRows` |
| settings, order forms, voice lab | every card and form; two or three sends; another window's save; two calls of which one is new | `FormsKeepTheirWord` |

Four runs find what a document or comment of the repository claims and the code does not do:

| Run | Claim | What the code does |
|---|---|---|
| `exhausted` | after the third attempt the order becomes `unreachable` (voice-confirmation-policy.md:55) | the dispatcher closes a third attempt whose start is refused, and nothing ever moves the order |
| `unasked` | re-check that the order is pending before dispatching (s03-call-orchestration-layer.md:58) | only the call's status is checked, so a customer is phoned for an order just cancelled |
| `twice` | a dispatched call is not dispatched again (call-dispatcher.service.ts:67, s03-call-orchestration-layer.md:65) | the guard looks at a phase that the worker's events overwrite |
| `recordings` | transcript and both recordings appear on the call (README.md:214-215) | `finalizeCall` names no file, so the worker uploads neither: a call with both speakers' audio on disk and a line of its transcript posted stays without a recording |

The first of these also says what `EveryOrderSettled` assumes: `settled` has no refused start. The
last is about the worker's side: `UploadedIsStored` is checked on uploads as the API receives them.

### Bounds, and why they are enough

- *One order* in most runs: orders share only the phone, the counter, the batch and the cursor.
  `starve` has two orders for the cursor, and a dispatch of the poll beside one of the staff contends
  for the phone and the counter on one order as well as on two. The safety proofs have no such bound.
- *Three rows* (`MaxRows`), four where the staff retries an unreachable order: the cap is three,
  so the fourth is the first attempt beyond it.
- *Delays of one and two ticks, a stale timeout of zero*: a tick is longer than the timeout and
  shorter than the first delay or equal to it, so a call can be stale or not, due or not.
  `manual` and `starve` have no delays, so that nothing but the races orders the steps.
- *Requests in flight* at most two: a result and the failure report, or two results, overlap.
- *One restart*; *one task per attempt* from requests of the staff (`MaxTasks`), beside those of the poll: what
  races in `manual` are the callers, and the theorems `OneWorkerHolds` and `CounterHolds` have no such bound; `twice` has two.
- *Results*: one above the threshold, one exactly at it, one below it, one without an answer, and
  the adapter's failure report. Runs about something else use fewer.
- *MaxLag* is 0: a poll reads its batch in the tick in which it started.
- *Facts*: a plan, its end, an onboarding, a membership of the team, an order, a call and each different moment count one;
  with five, two calls of one order (or two orders with a call) fall on two different moments, which is what
  separates a call's time from its order's.
- *Audio*: with a prebuffer of two, a queue of up to four frames is below, at and above it; one
  silent frame shows both a bridged gap and an expired one.
- *Two* requests, tabs, visits, callbacks or uploads: every race among the hazards of these parts is between a pair.
- *Moments* 13, 26 and 44 half days: one inside a day and two at its start, the first two less than a
  week apart, the last two more, the first and the last more than two weeks.
- *One write* in `console`: a page that is behind after it can be behind only for that write; with an
  event for each write, more of them queue on the wire and ask for the same refresh.
- *Sheets of three rows*, a limit of two: below, at and above the limit.

Deadlock is not checked in `web`: a part ends when its bounded moves are used up or its user has no
request left, as a browser that is left alone does. The bounded histories (`MaxFresh`, `MaxWrites`,
`MaxSends`, ...) are named constants in the guards of the actions they stop.

`PROJECT.json` names for every property a mutation of a modelled definition (a dropped guard, a
forgotten reset, a stale read) with which TLC finds it violated under the same configuration.

### Fairness

`ServiceFairness` of `CallSystem` is what the event loop and the environment give:

- weak fairness of what only waits for an answered `await` (the poll, each dispatch, the callbacks):
  Node.js runs every continuation, and Prisma and `fetch` answer or reject;
- strong fairness of a free phone and of an accepted start: the call server, asked again and again, has
  capacity some time. The poll asks again at every interval, so the action is enabled infinitely
  often, not continuously;
- weak fairness of the end of a worker, which `VoiceCall` looks into: after the connection
  `CallFinishes` and `NoEndlessCall` justify it, before it the call server must stop ringing;
- strong fairness of `Tick`; weak fairness of the timer, which `ends` leaves out of its specification:
  `NoLostWake` holds without it, and `EveryCallEnds` states it as its hypothesis.

Nothing is assumed of the staff, of the calling hours (a property that needs a shop to stay open says
`<>[]IsOpen`), of crashes, or of the contents of a report.

In `VoiceCall`, timers fire and promises settle (`WorkerFairness`). The duration timer needs strong
fairness: a continuation that is about to run disables it for a moment, again and again. `CallFinishes`
alone assumes that Maria completes her turns, calls `end_call` after a decision and is silent after
that (`MariaFairness`); `NoEndlessCall` shows that the maximum duration bounds a call without those
assumptions as long as she has reported nothing. Once she has, `forceUnclear` returns early and only
her protocol ends the call: this is the assumption to watch.

The parts of `web` state safety only, and so need no fairness.

## 4. What is proved

tlapm checks every proof to its leaves, for every value of the constants, from the assumptions on them
(`PolicyAssumption` and the like, all weaker than what the code fixes).

**`CallProofs`** — `TypesHold`, `CounterHolds`, `OneWorkerHolds`. None of the three is inductive alone.
The type of `activeDispatches` (at most `maxConcurrency`) rests on the counter being the number of
callers inside `dispatchCall`, counted from the moment it is raised, so that the exits before `startTask` (a call
that is missing, closed, dispatched already or outside its hours, a busy handle) are among the ways out that
must bring it back; that there is one such caller rests on the counter's guard; that there
is one worker rests on there being one caller inside, on every live worker being the handle's child,
and on the handle being empty while a caller is in `starting`. The invariant is
`Inv == TypeOK /\ OneDispatch /\ OneOnThePhone`, preserved action by action, restarts included.
`StaffDecisionHolds` needs the types only: every write of an order either has `status = 'pending'` in its `WHERE`,
or is an edit or a deletion of the staff, or is the retry, which inserts an open attempt in the same transaction.

A further part of the module proves `OneOpenAttemptHolds`: only the latest attempt can be open, and there is no gap.
The invariant must speak about what others hold: a row that the poll has in `todo`, or that a request
is going to insert, names an attempt whose predecessors are closed, or one that exists by then (and the unique
key drops it). Ended calls do not reopen, so what was read stays true while it waits. It holds for any
number of orders and of concurrent requests, **under the assumption that the staff does not set a
call back to `pending` by hand** (`"pending" \notin CallEdits`), which `PATCH /calls/:id` would allow.

The second half of `CallProofs` starts with `PhonedOnceHolds`: an attempt is phoned at most once more than the backend restarted,
**while the staff dispatches nothing by hand** (`"dispatch" \notin Operations`; the run `twice` shows
what happens otherwise). `CountInv` says that only the poll dispatches, that it does so for one call
without a task at a time (`OnlyThePoll`), that a row that does not exist has no task (`RowsInv`), and
that a row without a task, whose task is not about to be recorded, has had at most as many tasks as there were restarts
(`IssuedInv`): a fork whose trace is lost costs a restart.

It goes on with `EndedCallStaysHolds` and `RetriesSpacedHolds`, **while the staff edits no call and
dispatches none by hand** (edits of orders are allowed). `WaitInv` says that the call `startTask` is to answer
for still waits, and that a result that was looked up belongs to a call with a task: so neither the answer,
written by id, nor a result reaches a call that has ended. `DueInv` says of every attempt chosen and not yet
inserted that it is due (`Earned`), or there already, or its order deleted; ended calls keep
their disposition and only grow older, so what was due when it was chosen is due when it is inserted.

Next is `OrdersMatchHolds`: the order and its calls tell the same story, **while the staff only
places, queues, retries and deletes** (no edits of a status, no manual dispatch). `MatchInv` names
the writers that act on what they read earlier and says why each is harmless: the row to be inserted
is there by then or its order is still pending (`PlansFit`), the call that `startTask` answers for still
waits (`DispatchWaits`), a result that was looked up belongs to a call with a task, never to one that
waits (`ResultsKnown`), and the order to be given up is pending with its last attempt closed (`GiveUpFits`).
It builds on the three invariants above.

The last part of the module proves the refinement, `PromiseImplemented`, under the same conditions. Each writer
of the tables maps to one step of `OrderConfirmation`: an insertion to `Call`, the close of a call
to `EndWithout`, `EndWith` or `GiveUp` (`ClosesPromise`), the manual retry to `Reopen`, a deletion to `Remove`; all
other steps stutter. Its abstract counter is the number of rows of an order, so the proof needs that attempts have no gap
(`MadeUpTo`, from `OneOpenAttempt`), and that one transaction of the retry reopens one order (`Reopening`).

**`VoiceCallProofs`** — `VoiceTypesHold`, `NothingLeftRunningHolds`, `DecisionHolds`, `GoodbyeHolds`, for
buffers of any size. `GoodbyeHeard` needs `ResumedWhenDrained` (a handler about to continue finds the output drained,
unless the call is over), and that needs `BridgeSound`: a frame being played belongs to a started
turn, so a pump inside an open turn releases nobody.

**`AgentProofs`** — `SessionsAreAccountedFor`, for any number of messages. The invariant adds which
stages of `connect` go with which states of the socket, of the setup and of the worker; that every tool call
of a message is acknowledged is a fact about sequences (the places of tool events in a concatenation), proved as lemmas.

`AgentWordHolds` and `FinishedCallHolds` are about the former dispatcher, with any number of calls, fragments and
callbacks under way. `AgentInv` adds that the dispatcher's tick, while it awaits, is at a call of the queue, and that
an order which left `pending` without the merchant has a call that left it too: so no callback finds an open
call beside a decided order.

`TranscriptWholeHolds` and `UploadedHolds` are about what a call leaves behind. Each request rewrites the whole
transcript from what it read, so `ArtifactsInv` has to say what the requests in between hold: what one has read
and nobody overlapped is what is stored (`ReadsKnown`, `Alone`), and the column lacks only lines of requests
that are still to write or were overlapped (`LacksOnlyItsOwn`).

**`AccountProofs`** — `ResetLinkUsedOnce`, `AvatarIsStored`, `NewSessionsWork`, `RefusedSessionsStayRefused`,
`ShopsAreOwned` and `AccountTypesHold`, for any addresses, keys and requests, and over restarts; these proofs start
where nobody is registered (`AccountsInit`), and `WebProofs` adds the start where somebody is. `AccountsInv` has one part for
each table a request may have read before its last `await`: a key is drawn once, so no two rows, requests
or mails share one (`LinksInv`, `PicturesInv`: a request deletes no picture but the one its own write
took out of the row); no `passwordChangedAt` is ahead of the second a session counts (`TimesInv`), and it only grows
(`TimesGrow`), since the write of a slower reset matches its link again.

`CompletedShopHolds`, `PaidPlanHolds` and `RedirectsHold` are about a shop and its pages, with any number of tabs,
payments and failures: `PagesInv` says that a required section, once filled, is replaced and never taken away
(`SectionsFilled`), that the plan is the one of the last payment that succeeded and a request past its payment was
charged (`PlansPaid`), and that the page shown fits the shop. That the redirects end is a fact about `Target`
alone: after at most four of them a page stays, for every cookie, account and shop.

**`FigureProofs`** — `FiguresTypes`, `RevenueSplitsAlways`, `ShownFiguresAreFinal`: the types carry the foreign keys (a
call has its order, an order its shop, through every deletion and its cascade), on which every join rests; nothing
recorded lies ahead of the clock (`NothingAhead`); running time is clamped to the
period, so that of two adjoining periods adds up; a cohort that is shown has no member to come and its week
is over, so neither `Members` nor `ActiveInWeek` can change. All five parts of `FiguresAgree` are proved
(`FiguresAlwaysAgree`; `OverviewAlwaysAgrees` and `HealthAlwaysTellsStatus` are two of them), and so is
`ShopFiguresAgree` (`ShopFiguresAlwaysAgree`), for any history of the shops. Both assume that the tables are finite.

The sums are folds over sets in an order nobody knows. The module proves the laws that the reports rest on
(a sum over a disjoint union is the sum of the sums; a sum by groups is the sum of the whole; equal terms give
equal sums) from a smallest set for which one would fail: this needs no induction theorem, only that a finite set
has a smallest counterexample, and one step of the fold. The days, hours, weekdays, months and plans
are then shown to be groups: each row falls into exactly one of those that the report lists. Each call is
placed by its own time, for which the counts by merchant and those by day, hour or ending
are two ways to group one set of calls (`CallsHere`). The lists that a report sorts
(`Ranked`) are shown to lose and repeat nobody, and the one sorted downwards to be the reverse of
the one sorted upwards. `ShopInv` adds to the types that no order, call or end lies in the future.

**`ScreenProofs`** — `PagesAreCurrent`, for any visits and writes: `ConsoleInv` says that what a page lacks that is at rest, or that a refresh
in progress has read without it, is coming: as an event on the wire, as the announcement that the request is about
to make, or by a refresh that is to be repeated, unless it was written without an event (`Stale`, `Coming`).

`FormsKeepWord` joins three invariants of forms that share no state. `CardInv`: what the inputs and boxes of a settings card show
while nobody typed is what it sent, and the row is what was sent while no other window saves (of selects it says
nothing: see 6). `DeskInv`: what
became an order stands in the form only until its answer resets the form (`SentOnce`), and a saved edit
is what the row has (`SavedEdit`). `LabInv`: the server actions run one at a time, so the details of a call that are to be shown
are at least as new as what the studio and the list show (`RunOK`), and no older than the row.

**`ImportProofs`** — `ImportKeeps`, for any rows, headers and quoting. The core is that reading undoes writing, for
every text: `ClosingQuote` finds the end of what `InQuotes` wrote, `Unquoted` gives back what was doubled,
and `Cells` gives back the texts that `Joined` put on a line (`CellsAreBack`), for the spreadsheet's line and for the
export's (`ExportIsBack`). The walks of the parser are recursive functions; the library's theorems about those take
an operator and cannot be used, so the module first proves that a walk that only looks ahead exists
(`WalkExists`, from a smallest place where it would not), and then reasons at the first place where it would go wrong.
`FlattenSeq` is treated by two laws, where a piece stands in the whole and what mapping the pieces does.
`ImportInv` then says of each stage of an import what has been read, and `ImportKeepsRows` follows. The assumption is the
model's: no cell holds a line break (see 5).

**`WebProofs`** — `WebRunsItsParts`: a run of the composition is a run of `Pages`, of the artifacts, the
callbacks, the Gemini session, the figures, the live pages, the import and the forms, each by its own specification. The
lemmas `WebMovesPages` and its like say of any step of `WebNext` that it is a step or a stutter of the part. The
reports of one shop share the clock with those of the administrators, so `ClockKeepsShop` says that the history
of the shop stays in order while only the clock goes on. `WebInv` puts the invariants of the parts side by side,
and `RegisteredAccounts` shows that the accounts' invariant holds where the first user is registered from the start too.
From it follow `WebTypes` and `WebKeepsItsWord`, which states all other properties of the run `web` for the
composition. What the forms promise did not need all of their types, which rest on invariants of their own: a
required field of a card is never empty, neither in the row nor in what was sent (`CardTypes`), a request
under way was counted (`DeskTypes`), and the versions and the lines the studio waits for stay within their bounds (`LabTypes`).

`WebAssumption` is the only new assumption: an administrator's address is configured among the addresses,
somebody can choose a password, there is a tab, and the bounds of the histories are at least one. Without them
the registered start does not exist or a history has no step; TLC evaluates them in the run.

### Only model-checked

The liveness properties (`EveryOrderSettled`, `EveryCallEnds`, `NoLostWake`, `EveryOrderCalled`,
`CallFinishes`, `NoEndlessCall`) are out of the prover's reach. The theorems of
`CallProofs` about phoning once, ended calls and the orders' story say nothing of a shop that dispatches
calls by hand: there `manual` checks the counter and the worker, and `twice` shows that an attempt is then
phoned twice. Every invariant and every action property of the passing runs is a theorem.

## 5. What is not modelled, and why

- *Voice task endpoint* (`voice.controller.ts`): a test call that goes to `startTask` beside the
  dispatcher's counter. Nothing in the repository calls it; with it two workers can run, since the adapter's look at its
  handle and its fork are two `await`s apart. `OneWorker` is about the callers of `dispatchCall`.
- *Former voice dispatcher and its callbacks*: modelled in `RemoteAgent`, but no module of the application provides
  them, so nothing runs them. Their properties hold of code that is kept and tested, and no hazard rests on them; `FinishedCallStays`
  covers the status and the time of dispatch, and a late fragment is still appended.
- *Reclamations*: independent inserts and updates of one row, which nothing else reads.
- *Mail and storage*: wrappers of SMTP and of the object store; their callers see a mail that is sent or lost, an
  object that is put, missing or deleted.
- *Call and order tables*: every table but the reclamations, with the columns that are decided on.
- `isWithinCallWindow` computes with a time zone and minutes; the model has a shop open or closed. The
  dispatcher's second look at the window is kept.
- The bearer token of the callbacks, validation and authorisation of requests; rate limits but the mail's cooldown.
- The choice between a local and a fallback call server, and their HTTP timeouts: capacity is a choice.
- `Restart` is one of the whole host. When only the backend goes down, a worker has no handler for the lost channel: it
  may go on talking and post its result later, beside a worker that the new process starts.
- `handleEvent` awaits its lookup and its update apart; here they are one step. `WorkerDeath` has the adapter report every
  worker that died as a failure; the code does so for an exit code other than zero, unless the worker said `ended` before.
- The whole-country box and the list of regions beside it, which are component state of the shop's card.
- `stopTask`, which nothing calls, and the fake client of the tests.
- The exchange of ICE candidates and the reconnection of the worker's socket, which change nothing the
  worker's decisions read; resampling, metrics and files of the audio.
- A second backend on the same database: the code assumes one (its counter and its handle are in memory).
- What pages render, their charts and the administration's pages; the password forms, which only post what
  `Accounts` models; the seed scripts.
- The cache of the administrators' reports: they are computed from one state here, while the code keeps
  each a minute, so two reports of one screen may be a minute apart.
- A line break inside a quoted cell of an import: the code splits the file into lines first, so such a
  row becomes two; the sheets of the model have none.

## 6. Observations

Met while modelling and not shown by a run of their own: what no document contradicts, and what lies
outside the bounds of a run.

- *Calls*: a crash between the close of a last attempt and the move of its order leaves the order pending
  with nothing left to find it (`call-orchestrator.service.ts:163`); `EveryOrderSettled` is
  checked without crashes. `PATCH /calls/:id` closes a call without `completedAt`, so no retry is due.
- *Pages*: the dispatcher, the callbacks, the orchestrator and queue-all announce nothing, so an open page
  shows calls as they were at its last refresh; events between a page's render and its socket's join are not fetched
  later. `PagesStayCurrent` excuses exactly these.
- *Order forms*: `createOrder` answers with an empty object, so the dialog's test for success never holds
  and it stays open; an edit always sends every field, so a page that is old overwrites another's edit.
- *Settings*: a select (the sector, the confirmation process) goes back to the option it was mounted with when its form
  is reset, since React looks at a changed default of an input and not at one of a select. After a refusal what was picked is
  lost, where `settings/actions.ts:171` and `onboarding/actions.ts:9` say that a refused save loses nothing; after a
  save the former option stands beside "saved", and a second save writes it back. `CardTellsTheTruth`
  therefore says nothing of selects. What is typed while a save runs is lost when the form is reset.
- *Voice Lab*: the notice says a call was dispatched also when the API deferred it; the list never gains the test call.
- *Import*: the same file sent twice inserts its orders twice; an empty item in `a;;b` shifts the quantities; row numbers
  of errors do not count blank lines.
- *Accounts*: a session issued in the second of a reset survives it; a password change that was under way overwrites
  a reset. *Billing*: a charge whose record fails is a charge without a plan, and completing the onboarding again charges again.
- *Figures*: the cohort's start is at UTC+1 whatever the configured zone is; `outcomes.pending` counts
  unreachable orders and the daily chart does not.
- *Gemini*: no timer runs before the socket opens; a socket that hangs keeps the call to its duration limit.

## 7. What would come next

Add the voice task endpoint to `CallDispatcher` as a caller
without the counter, with `OneWorker` restated; state a contract of the worker (at most one result, nothing after it)
that `VoiceCall` implements and `VoiceRuntime` uses, and prove that it does; check `web`'s forms with live events
between them.
