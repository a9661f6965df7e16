# A TLA+ verification of whatsapp-agent

whatsapp-agent is a multi-tenant WhatsApp business platform: a NestJS API
(`src/apps/api`), a Next.js web client (`src/apps/web`), a Prisma/PostgreSQL
schema (`src/packages/db`), Redis for BullMQ queues and counters, and two
WhatsApp providers (Meta Cloud API, Evolution). The modules here model it from the
source: the message path, the services around it, and the pages of the console that
keep state of their own. TLC checks them on small instances, and TLAPS proves
theorems about them for every value of the constants.

## 1. Inventory

| Component | State | Operations | Hard parts |
|---|---|---|---|
| Outbound guardrails (`whatsapp/guardrail.service.ts`, `whatsapp.service.ts`) | Redis `wa:rate:<acct>` with a 60 s expiry, `wa:daily:<acct>:<day>`, `outboundPaused` | preflight, consumeRate, daily counter, refundRate, sendOutbound, setOutboundPaused | every check and its counter are separate commands; refunds race with expiry; stale account rows |
| Plan limits (`billing/plan-limits.service.ts`, `client`, `whatsapp`, `embedded-signup`) | UsageRecord per agency and month, agency.plan, counted rows | assertCanSendMessage, assertCanAdd* then create | increment-check-compensate, month and plan changes in between; count-then-create |
| Job queues (`queue/queue.module.ts`) | BullMQ jobs: waiting, active, delayed, completed, failed | add, take, complete, fail, stall | retries run the handler again from the top |
| Outbound worker (`queue/processors.service.ts` 129-194) | message rows, waMessageId | load, quota, dispatch, record, activity | a retry after the provider took the message sends it again |
| Webhook ingest (`webhook/webhook.service.ts`) | contacts, conversations, messages, inbound jobs | ingestInbound, receipts, connection updates | providers redeliver and reorder; find-then-create; errors swallowed per message |
| Inbound worker, AI (`processors.service.ts` 45-127, `ai/ai-agent.service.ts`) | replies, AI hand-off flag | transcribe, flows, respond, reply | retries repeat flows and replies; hand-off races with replies |
| Flow engine (`flow/flow.executor.ts`, `flow.service.ts`) | contact tags, deals, conversation status; the flow document | runForTrigger, execNode; update | cycles, MAX_NODES, read-modify-write of tags; whole-document saves |
| Campaigns (`campaign.service.ts`, `processors.service.ts` 196-257) | campaign status and counters | create, start, pause, send job | three slots share the guardrails with the outbound slot; counters and retries |
| Sessions (`auth/token.service.ts`, `auth.service.ts`, web `lib/api.ts`) | refresh-token families | issue, rotate, reuse detection, logout | rotation is find, issue, revoke: concurrent refreshes |
| Accounts (`auth/auth.service.ts`, `auth/password-reset.service.ts`, `team`, `client`) | one row per kind and address, OTP rows, e-mail tokens, MFA challenges | sign-up, login, code check, reset, verification, removal | attempts counted after the check; one address in several tables; a login under way while its password is replaced |
| Subscriptions (`billing/billing.service.ts`) | subscription row, agency.plan, isActive | checkout, cancel, webhook | provider events out of order or repeated, interleaved with checkouts |
| Rate limits (`common/rate-limit.guard.ts`, `global-rate-limit.middleware.ts`) | counters per address and minute, and per route | two INCR/EXPIRE pairs | a failure between the two commands |
| Contacts (`contact/contact.service.ts`) | tags | importCsv, parseCsv | read-modify-write against flows; quoting |
| CRM (`crm/`), deals page | pipelines, ordered stages, deals | create, reorder, move, remove | cascades under handlers that have read; stale boards |
| Knowledge base, starter bundles (`ai/rag.service.ts`, `template/template.service.ts`) | base, chunks, vectors; a bundle's parts | ingest, chunk, apply | boundaries of windows; statements that fail one by one |
| Integrations (`integrations/`) | encrypted credentials per client and kind | OAuth start and finish, API keys, disconnect, refresh | a refresh in flight while the owner disconnects or reconnects |
| Message templates (`templates-meta/`) | rows with Meta's id and status | submit, syncFromMeta | lost answers, names taken, edits in Meta's manager |
| Number onboarding (sign-up page, `embedded-signup.service.ts`) | the page's last ids and code; account rows | windows, finish, complete | two events per window in any order; a code is good once |
| Inbox page and gateway (`inbox/page.tsx`, `lib/socket.ts`, `realtime.gateway.ts`) | cached lists, one socket, rooms | fetch, events, send, join | answers that overtake events; a socket that is thrown away |
| Flow editor (`flows/[id]/page.tsx`) | canvas, cached query | edit, save, fetch | overlapping saves; stale canvas |
| Payment links (`billing/payment-links.service.ts`) | link rows, messages | createAndSend | row, then message, then job |
| Custom domains, analytics, quick replies, email, HTTP plumbing | none shared | CRUD, aggregation, I/O | none worth a model |

How they interact: a webhook delivery stores an inbound row and adds an inbound
job; its worker runs flows and the AI agent, both of which store outbound rows
and add outbound jobs, as people in the inbox and payment links do; the
outbound worker charges the quota, passes the guardrails and calls the
provider. The campaign worker calls the same guardrails directly. The other services
meet the message path at a few points only: `agency.plan` (subscriptions write it, limits
read it), contact tags (imports and flows), deals (flows and the board), and the rows of
numbers (sign-up and limits). All of it runs in one Node process: concurrency is the
interleaving of continuations between two awaits, and a crash loses every handler
in flight but neither Redis nor PostgreSQL.

What makes each part correct is listed under `hazards` in `PROJECT.json`, at the
line where the code could go wrong, with the properties that would notice.

## 2. Modules and code

Conventions. One action is one `await` of the code: a query, a Redis command, an
HTTP call. Between two actions of a handler every other handler may run, which is
exactly what Node allows. A query that may throw has a disjunct in which it does. A Redis
command may wait but does not throw, because the client is created with
`maxRetriesPerRequest: null` (`queue/queue.module.ts:27`); `RateLimits` admits errors of
Redis all the same, since its code has a branch for them. Variables commented `history` exist in no row or key; they record what the properties compare. A
"fault" is always one of a few named events (a lost answer, a failed write after
the provider acted, a crash), and the properties say that nothing else does
damage. Each module also holds a few operators no action uses
(`GrantedOffByOne`, `QuotaErrorIgnored`, ...): each is a plausible mistake in the
definition it precedes, and `mutants` in `PROJECT.json` says which property notices it.

The message path:

| Module | Code | State and actions |
|---|---|---|
| `Guardrail` | `whatsapp/guardrail.service.ts`, `sendOutbound` of `whatsapp.service.ts` | `rate`, `ttl`, `daily` are the Redis keys, `pc` and `call` the place and the locals of each call. `Preflight`, `ConsumeRate` (INCR), `Expire` (EXPIRE), `CheckDaily`, `IncrementDaily`, `ProviderAccepts`/`ProviderRejects`, `RefundRead`, `RefundDecr`, `Return` follow the code line by line; `WindowExpires`, `NewDay`, `SetOutboundPaused`, `ContactWarms`, `ContactCools` are the world around it |
| `PlanQuota` | `assertCanSendMessage` of `billing/plan-limits.service.ts` | `usage` is UsageRecord.messages by month. `GetContext`, `Upsert` (increment, returned value compared), `Compensate` (its failure is swallowed) |
| `JobQueue` | BullMQ, as `queue/queue.module.ts` configures it | `jobState`, `attempts`, `stalls`; `Add` ignores a known jobId, `Fail` decides between backoff and the failed set, `Stall` is what a dead process leaves behind |
| `Outbound` | the outbound worker, `message.service.ts` send | composes `JobQueue`, `PlanQuota` and `Guardrail` for one number; `row` is the message, `stage` the place of the handler. The sub-modules' own actions are conjoined, so the worker takes the very steps of `assertCanSendMessage` and `sendOutbound` |
| `Inbox`, `Ingest` | `webhook/webhook.service.ts`, `conversation.service.ts` resolve and assign | `Inbox` is the promise: stored at most once, queued at most once, in this order. `Ingest` has one action per query of `ingestInbound` (account, duplicate and sender checks, contact, conversation, insert under the unique `waMessageId`, update, job), several deliveries at once, and the find and create by which the campaign worker opens a conversation of the same contact (`processors.service.ts` 231-244) |
| `FlowExecutor` | `flow/flow.executor.ts` | a flow is a document with nodes and labelled edges. `RunForTrigger` selects, `Enter` starts at the TRIGGER node, `Exec` executes one node and follows `NextNode`, `Leave` ends the walk (no next node, limit, exception) |
| `Inbound` | the inbound worker, `AiAgentService.respond` | composes `JobQueue` (one slot) and `FlowExecutor` with one conversation: its last rows (`recent`), its transcriptions, its AI switch. The steps of the handler are in the order of the code, `TakeJob` to `FinishJob` |
| `Campaign` | `campaign.service.ts` start and pause, the campaign worker | `status`, `excluded` (opted out or blocked), the requests that start it, one handler per recipient's job; `RemoveCompleted` is `removeOnComplete` |
| `Receipts` | the status branch of `webhook.service.ts`, `parseWebhook` of the Cloud API provider, the update after `sendOutbound` | `copies` are the ids Meta has given, `waMessageId` the one each row has, `receipts` what is on its way, in any order and repeated |

Accounts:

| Module | Code | State and actions |
|---|---|---|
| `Sessions` | `auth/token.service.ts`, login/refresh/logout of `auth.service.ts` and its controller, the revocation of a reset, `apps/web/lib/api.ts` | `issued`, `family`, `revoked`, `expired` are RefreshToken rows, `cookie` the browsers'. `Find`, `Issue`, `RevokeOld`, `RevokeFamily` are the queries of `rotate` |
| `Accounts` | sign-up, login with MFA, `password-reset.service.ts`, creation and removal in `client` and `team` | the rows, codes, challenges and links of one address, which may have a row in every table. A handler is two or more queries; `live` says which kinds have a session, `Sessions` what a session is |
| `Signup` | the sign-up page, `EmbeddedSignupService.complete` | `windows` with the number chosen in each, `reports` they have still to make, the page's `result_`, `completes` (requests: exchange, check, find, insert), `traded` codes, `accounts` |
| `RateLimits` | the middleware and the route's guard | `counter` is the Redis keys, `visit` the place of each call: count, expire, guard, expire route |

Tenants' data and pages, composed by `Workspace`:

| Module | Code | State and actions |
|---|---|---|
| `Capacity` | `assertCanAddClient`, `assertCanAddNumber` with the handlers that insert | EXTENDS `PlanQuota` for the plan; `add` is the place of each request: count, exchange with Meta (embedded sign-up), check for the name, insert, provision (Evolution), each of which may fail; numbers and clients are removed and the plan changes meanwhile |
| `Subscription` | `billing.service.ts` | `remote` is Razorpay's side, `record` the one row, `bill` each call: checkout and cancel (two to four queries and calls) and `applyWebhook` (find by subscription, update by id, plan, suspend) |
| `Contacts`, `Csv` | `contact.service.ts`, the tag nodes | writers read a contact and write its whole tag list; `Csv` is `parseCsv` one character at a time, on the text that `Texts` says a spreadsheet writes for a table (a table whose last row is one empty cell is left out, `CsvAssumption`: its text is that of the table without this row, and the code reads it so) |
| `Deals` | `crm/`, CREATE_DEAL, the deals page | rows are numbered in their order of creation; each request is at the query it has got to; `board` is what the page shows |
| `Knowledge` | `rag.service.ts`, `knowledge-base.service.ts`, `template.service.ts` | a text is its positions; `Cut` is the loop of `chunk`, rows and vectors are stored one statement at a time; `bundle` is the part `apply` has got to |
| `Integrations` | `integrations/` | `grants` are consents in the order given, `store` the row, `link` each request, refreshes included |
| `Templates` | `templates-meta.service.ts` | `meta` is what Meta holds by name, `local` the rows; submit and sync are one step per call and query |
| `InboxPage` | `inbox/page.tsx`, `lib/socket.ts`, `realtime.gateway.ts` | query data (what is shown, and what is shown twice) and functions per conversation, the socket with its handler and room, events on the `wire`, the page's own posts |
| `FlowEditor` | `flows/[id]/page.tsx`, `flow.service.ts` | per tab: canvas, cached query, running fetch; saves on their way to the one stored flow |
| `Workspace` | | the services share no variable but the plan, so a behaviour is one of a single part, chosen at the start; this checks sixteen properties of fourteen services in one run instead of their product |

`MC*` modules give the constants their values, `*Proofs` modules hold the
theorems. `Campaign` does not compose `Guardrail`: what the campaign worker sees
of `sendOutbound` is an answer or an error, with the message taken or not, and
`Guardrail` itself is checked with several callers, the campaign's slots among them.

## 3. What is checked

| Run | Instance | Shows |
|---|---|---|
| `guardrail` | 2 slots, one number, 2 per minute, 1 per day, 1 crash | slots pass the daily cap by at most one message each beyond the first; a window grants the limit plus its stale refunds; a counter is never without expiry unless the process died between INCR and EXPIRE; a pause lets out one message per slot; a full bucket always drains |
| `outbound` | 2 messages (one blank), 2 attempts, 1 stall, 1 crash, 2 months, quota 1 | a second copy of a message has a fault behind it; the provider never takes more than was charged; each job completes or lands in the failed set |
| `outbound_paused` | 1 message, 5 attempts | violated: see findings |
| `ingest` | 2 deliveries at a time and 1 campaign slot, 3 messages of one sender, one without id and one the handler ignores, 4 conversations, 1 reopened | `Ingest` implements `Inbox`; a stored message without job has a fault behind it; the number of open conversations is bounded by the deliveries handled and campaign jobs run together, and what agents reopen; one bad message does not lose the rest of its delivery |
| `inbound` | a voice note and a text that asks for a person, a looping flow, a flow with a dangling edge, at most 3 nodes, window 2, 2 attempts, 1 stall, 1 crash | one AI answer per message plus one per fault after an answer; at most one answer after the AI was switched off; a contact handed to the team is told, unless a fault hit in between; every message is settled whatever the flows look like |
| `inbound_voice` | the same | violated: see findings |
| `campaign` | 2 contacts, 2 slots, started twice, paused at any moment, 2 attempts, 1 stall, 1 crash, one remembered completed job | one message per contact plus one per fault while the queue remembers the job; a pause lets out one message per slot; an opt-out at most one |
| `sessions` | 2 browsers, 2 requests at a time, 3 tokens | a revoked family stays revoked unless a rotation of it was past its check; a browser that refreshes one call at a time keeps its session |
| `accounts` | one address with 2 codes and a row in one of 3 tables, or 1 code and rows in two, 1 link, 2 requests, 1 attempt | guesses pass the limit by the requests that overlap and no more; a login leaves no code open that was there when it invalidated, so that several codes open an account only when logins overlap; a reset shuts out whoever knows the old password, logins under way aside |
| `account_reset` | a self-served account (agency and client), 1 request | violated: see findings |
| `workspace` | 14 services and pages, one per behaviour, two callers each (below) | the sixteen properties of the next table |
| `billing_grace` | one subscription past due | violated: see findings |

The properties of `workspace`:

| Property | Says |
|---|---|
| `UsageAccounted`, `AdmissionWithinPlan` | no interleaving, plan change or month change admits a message past the plan it was checked against, and the month's counter is exactly its admissions, pending compensations and leaks |
| `CapacityHolds` | counted rows pass the plan by the requests that found room together, all but one of them, whatever is removed and however the plan moves |
| `SuspensionEarned` | billing suspends an agency only for a subscription that has ended at Razorpay and that its row still names, unless a checkout replaced it while the event was being applied: late and repeated events of a replaced subscription suspend nobody |
| `TagsKept` | a tag is only lost to writers that overlap |
| `CsvRoundTrip` | `parseCsv` gives back the table a spreadsheet wrote, quotes, embedded commas and line ends included |
| `DealsOnBoard` | a deal's stage belongs to the deal's pipeline, also when it is dropped on an outdated or switched board |
| `IngestComplete`, `BundleBacked` | chunks that carry a vector cover the text without a gap; the agent of a starter bundle has its whole seed document, whatever an earlier attempt left behind |
| `CredentialsAreConnected` | a disconnected integration stays disconnected; a row has the credentials of the last connection unless one was made while a refresh of the previous waited for Google |
| `ApprovedAsSent` | a row marked APPROVED has the id and the content of a template that Meta approved |
| `NothingLostQuietly` | a loaded list shows every message of its conversation, or it is on its way, or was missed for one of the reasons the code leaves open, an answer that holds only the newest messages among them; only the page's own messages are ever shown twice |
| `SavedNodesKept` | saved nodes are in the stored flow, as long as no save was sent from an outdated canvas |
| `TokenFitsNumber` | a connected number belongs to its business account, and its token is its own and good for that account if Meta reports scopes |
| `ReceiptsApplied` | a row is marked by receipts of its own message, and a reported delivery is marked, on its way or missed for a named reason |
| `LimitsLapse` | a key that counts has an expiry, or a call about to set it, or one that failed in between; it lets no more through than its limit |

### Bounds

`MaxCrashes`, `MaxRate`, `MaxUsage`, `LastPeriod`, `MaxDeliveries`, `MaxConvs`,
`MaxReopens`, `MaxStarts`, `MaxRows`, `MaxLinks` bound the world, not the
code; `MaxAttempts` and `MaxNodes` of the message path are the code's own constants
(5 and 100) taken small. They are enough for the cases the properties are about:

- Guardrails: two slots are what it takes to pass a check together; limit 2 with
  `MaxRate` 3 lets a refused call, a refund and an expiry meet; one crash reaches
  the counter without expiry.
- Outbound: two attempts give a first try, a retry and exhaustion; one stall and
  one crash give a job that is handed out again after its message went out; the
  second month separates the month charged from the month sent. Five attempts in
  `outbound_paused` because the claim is about the real number.
- Ingest: mixed and overlapping deliveries of the same message, a message
  without id, one of an unknown number or without sender (`Ignored`), a campaign job
  that opens a conversation of the sender meanwhile, and a resolved conversation that is
  reopened while a delivery has already chosen another. One sender is enough: nothing
  relates the conversations of two.
- Inbound: the second message is what makes `respond` look at a row that is not
  its job's; window 2 lets rows of agents and flows push the message out; the flow
  limit of 3 is passed by the loop on every message.
- Sessions: three tokens are a token, its successor and a login or second
  successor; two requests are the overlap.
- Campaign: two contacts, two slots and `KeepCompleted` 1 reach the removal of a
  job while another start is adding.
- Accounts: `OTP_MAX_ATTEMPTS` is 1 instead of 5, so that two requests that overlap
  are enough to pass it. `MaxRows` 3 is shared by tables with a row of the address (or a
  trace of one) and codes: two logins that overlap leave two codes of one row, which a
  third one invalidates, or the agency and client of a sign-up have a code between them.
- Workspace: two requests (`Caller`) are the overlap of every part. Plan limits are 1
  and 2, with `MaxUsage` 3 and two months. A second
  subscription at Razorpay takes over the one row and lets an event of the first one
  arrive late (`MaxSubs` 2, `MaxRows` 1); of Razorpay's nine statuses three are reported
  there (`Statuses`: one the service calls active, one past due, one ended) and other
  ones in `billing_grace`. Two
  rows per import, four runs of writers (`MaxRuns`). CSV: one row of two cells or two
  rows, cells of up to two characters out of quote, comma, both characters of a line end
  and a plain one, which reaches every pair of adjacent characters. Two pipelines, three stages, one
  deal (the property is about each). Texts of 4 and 9 characters with windows of 6 and
  overlap 1: one window and several, with breaks nowhere, at the end of a window and
  everywhere; three rows hold a complete ingest and the start of another (`MaxDocs`);
  the three verticals have both a seed document and a flow, a document only, and neither. Two grants and two OAuth states; one name, one template Meta creates under it (`MaxIds`), which its
  owner edits and deletes there; two conversations with one message or one with two, in answers that hold both or
  the newest one (the code's 50, `page`), or one with a payment
  link; two tabs with one new node, one edit, two saves (`MaxNodes`, `MaxEdits`,
  `MaxSaves`); two windows and two clicks on Finish; two copies and one repeated
  receipt; limits of 1 and 2 over two minutes with four visits. The properties of a part
  do not mention another's variables.

Symmetry is used only for sets the properties treat alike, and never in a run
with a liveness property. Deadlock is checked except in `workspace` and
`billing_grace`, whose parts end where their bounds do (the parser at the end of the
text, a page after its last save).

### Fairness

`FairSpec` of each module assumes what Node and the libraries provide and nothing
of people, providers or clients:

- weak fairness of a handler: Node runs the continuation of every awaited
  operation that settles, and each query, Redis command and HTTP call settles (the
  HTTP calls carry timeouts of 10 to 60 s: `meta-cloud.provider.ts:51`, `anthropic.client.ts:37`, `sarvam.client.ts:15`, `flow.executor.ts:238`). Nobody is obliged to send, pause, deliver or toggle;
- weak fairness of `WindowExpires` in `Guardrail` and `Outbound`: Redis expires a
  key that carries an expiry;
- weak fairness of `BackoffOver` and strong fairness of `TakeJob`: BullMQ promotes
  delayed jobs and hands waiting jobs out in order, so a job that waits while the
  slot is taken again and again is not passed over for ever;
- weak fairness of each call's steps in `SubSpec` (`Subscription`), for the same reason as
  the handlers'; nothing is assumed of Razorpay, the customer or the clock.

The other modules are checked for safety only. Settling in `outbound` and `inbound`
allows the failed set: a job whose attempts are used up is settled, not delivered.

### Findings

Four runs find the code at odds with what the repository says of it; each
configuration checks that one sentence.

- `outbound_paused`: "When true, all outbound is queued but not sent"
  (`schema.prisma:116`). The refusal is an exception; after five attempts the job
  is in the failed set and resuming the number does not send it.
- `inbound_voice`: "transcribe voice note via Sarvam ... run matching ... flows"
  (`README.md:178-180`). The flows get the text of the row that was read before the
  transcription was stored.
- `account_reset`: "Password reset with 30-min tokens that revoke all sessions on
  success" (`README.md:61`). Sign-up makes an agency and a client with one address and
  password; the reset picks the agency's row, and the client's session and password stay.
- `billing_grace`: "Auto-suspend agency after grace period expires" (`README.md:71`).
  `graceUntil` is written and never read; an agency whose grace has lapsed stays active
  until Razorpay cancels.

Met while modelling, and kept as bounds or conditions of the properties instead of runs:

- the per-minute limit and the daily cap are exceeded by what
  `RateBoundedUpToStaleRefunds` and `DailyOvershootBounded` allow
  (`guardrail.service.ts:37,95,118`);
- a quota unit is charged per attempt (`processors.service.ts:161`), so the month's
  counter may exceed the messages sent, which `schema.prisma:468` says it counts;
- a refused quota is described as staying in the queue (`processors.service.ts:155-158`);
  it does for five attempts;
- campaigns call the provider without `assertCanSendMessage`
  (`processors.service.ts:210`), so the monthly quota counts none of their messages;
- two overlapping deliveries of a new sender open two conversations
  (`webhook.service.ts:109`);
- a failure between the row of an inbound message and its job is swallowed, and the
  redelivery stops at the duplicate check: the message is stored and never answered;
- two overlapping refreshes of one token leave two live tokens of its family
  (`token.service.ts:76`); a browser that loses the answer with its new cookie comes back
  with a revoked one and is signed out (`auth.controller.ts:93`);
- a refresh past its check inserts a live token after a reset has revoked the family;
- recipients whose jobs ran while a campaign was paused are not contacted by a
  later start (`campaign.service.ts:75`), and recipients whose completed jobs have
  been removed are contacted twice;
- `respond` answers the last inbound row, so of two messages that arrive together the
  first is not looked at, hand-off keyword included, and the second is answered twice
  (`ai-agent.service.ts:126`);
- only the inbound worker runs flows; the triggers named at
  `flow.executor.ts:22` (contact creation, deal stage change) are never fired;
- count-then-create lets requests that overlap pass the limits of a plan
  (`plan-limits.service.ts:29`);
- ADD_TAG and imports write the whole list back and lose a tag added in between
  (`flow.executor.ts:155`);
- moving to FREE swallows a failed cancellation and deletes the row, so that Razorpay
  may go on billing a subscription the service no longer knows (`billing.service.ts:36`);
- the comment above the suspension says "Suspend agency on hard cancel after grace."
  (`billing.service.ts:145`); the code suspends at once, whatever `graceUntil` says;
- a list answers the newest 50 messages and the inbox page asks for no others
  (`message.service.ts:24`, `inbox/page.tsx:154`): older ones are never shown;
- a campaign that writes to a contact while its first message is delivered opens a
  second conversation (`processors.service.ts:235`);
- `getSocket` replaces a socket that is still connecting, with the handlers registered on
  it (`lib/socket.ts:11`); an older answer of a list overwrites events;
- the sign-up page may pair the code of one window with the ids of another
  (`connect-whatsapp/page.tsx:56`); the server's checks catch it when Meta reports
  what the token is good for.

## 4. What is proved

`tlapm` checks every theorem for all values of the constants that satisfy the
named assumptions of the module (finite sets, naturals, model values distinct). The
assumptions are evaluated by TLC in the runs above.

| Theorems | Argument |
|---|---|
| `GuardrailProofs`: `TypeCorrect` | inductive as it stands |
| `NeverImmortal` | inductive with `TypeCorrect`: the caller that creates the key is at `expire` until it sets the expiry, and every other step lowers the counter, keeps the expiry or clears both (`CounterSteps`, `ExpireWaits`) |
| `DailyOvershoot` | `DailyInv`: the counter plus the slots between check and increment stay within cap + slots - 1. The property alone is not inductive: it forgets who has passed the check |
| `RateBounded` | `RateInv`: granted tokens not given back are still counted, but for the decrements of stale refunds |
| `PauseLeak` | `PauseInv`: while paused, what leaked plus the calls that have not seen the pause is at most the number of slots, and no call joins them |
| `ServiceProofs`: `QuotaTypeCorrect`, `BooksBalance` | the balance is inductive; the work is in the cardinality of the pending compensations |
| `QuotaRespected` | an action property, from `BooksBalance`: the counter is never below the admissions, so the value the upsert returns bounds them |
| `IngestProofs`: `TypeCorrect`, `StoredMessagesAccounted` | a message with a row and no job is held by a request or was lost to a fault |
| `IngestImplementsInbox` | step simulation: `CreateMessage` maps to `Store`, `AddJob` to `Queue`, everything else to a stutter; the invariant gives that a request about to add a job holds a stored message that no other request holds |
| `OpenConversations` | open conversations plus requests and campaign slots about to create one are bounded by requests, slots and reopenings: a slot joins only when the contact has no conversation at all (`Creating`, `Opening`) |
| `SessionsProofs`: `TypeCorrect`, `RevocationLasts` | the invariant says that a dead family has no live member and no rotation past its check |
| `SequentialRefreshIsSafe` | `Undisturbed`: no two browsers hold tokens of one family (`Apart`), so that no other browser can have this one's family revoked; a browser that never met trouble has one request under way, whose token, the old or the new one, is live (`OnCourse`) |
| `PeopleProofs`: `AccountsTypeCorrect`, `GuessesAreBounded` | `AccountsInv`: a request that has read a code's counter and has not recorded its guess is counted (`Trying`), as in `DailyInv`; the row it is about to write is still there |
| `PendingCodesAreBounded` | the property counts the requests about to insert a code with the codes that open a row, and is inductive with `AccountsInv`: an invalidation leaves no such code and at most every request about to insert one, an insert moves its request from one summand to the other (`RoomStep`). That no code outlives a later login is `FreshStep`, by what each login had seen when it invalidated (`SeenThere`) |
| `ReplacedPasswordsFade` | whatever a request, a challenge or a session holds of a replaced password it has from a request under way (`Carried`, `ClaimsCarried`), back to the logins that the reset noted |
| `DealsStayOnBoard` | `DealsInv`: a request that looked up a stage still holds one of its deal's pipeline, since stages are only added and renumbered and a deal never changes pipeline |
| `TagsStay` | `TagInv`: the list a writer is going to write has all the tags its contact has now, but for those it removes, unless the contact was written since the writer read it (`WriterInv`) |
| `TablesComeBack` | `CsvInv`: what is left of the text is what a spreadsheet writes from here on, at one of four places: before a cell's opening quote, before its k-th character, after it, or between the two characters of a line end (`Reading`). No quote follows a cell (`NoQuoteFollows`), which is what makes a closing quote distinct from a doubled one. The text is a recursive function, `From`, whose equation is proved by the last position that would break it (`LastOne`) |
| `CampaignProofs`: `TypeCorrect` | the queue's part (`QueueInv`: attempts left, active jobs fit the slots) is proved once for any step of one job (`QueueStep`) |
| `CopiesBounded`, `PauseLeak`, `OptOut` | `CopiesInv`: a job that has not sent in this attempt and may still run has at most as many copies as faults; `PauseInv` and `OptOutInv` as for the guardrails |
| `InboundProofs`: `OneAnswer`, `SwitchHolds`, `HandOffTold` | one invariant `IInv`: handler and queue agree on the job in progress, answers are bounded as copies are, and no answer has leaked while one is in the making |
| `ServiceProofs`: `LimitsHold` | `KeyInv`, per key: what it has let through fits its count and its limit with room for the one call that has still to set its expiry |
| `SuspensionIsEarned` | `EarnedInv`: every report of an end that is on its way, and every call that acts on one, is about a subscription that has ended; an end is final, so the report stays true however long it takes. `NamedInv`: a call that found the row by its subscription and has not been overtaken by a checkout still finds that subscription in it |
| `CapacityIsHeld` | `CapInv`: rows plus requests that found room and have not inserted (`Underway`) are bounded by the largest limit so far plus the other requests: a request joins them only when the rows alone are below the limit, and its insert only moves it from one summand to the other |
| `ReceiptsAreApplied` | `ReceiptInv`: the id a row has, or the worker is about to store, is one Meta gave for that row, and whatever Meta has reported of it is `Settled`: marked, on its way or missed |
| `IngestIsComplete`, `BundlesAreBacked` | `KnowInv`. `TextInv`: what lies before the place the loop of `chunk` has reached is in a chunk; afterwards every position is in a retrievable row or in a chunk still to be stored; the advance to `end - OVERLAP`, never past the end of the last chunk, leaves no gap. `SeedInv`: the parts of a bundle come in order, so its agent finds the base and the whole seed |
| `ApprovedRowsAreApproved` | `MetaInv`: at Meta, in the rows, in the row a request is going to write and in the list a sync copies, APPROVED stands only beside an id and body that Meta approved (`Vouched`); approvals are not taken back, so that stays true on the way |
| `SavesLoseNothing` | `EditorInv`: a canvas filled from the stored version, or the last one its tab saved, has all of it that was not deleted (`CanvasInv`), and while no outdated canvas is saved one save at a time is under way, with everything saved before (`SavedInv`) |
| `ListsLoseNothingQuietly` | `PageDataInv`: an answer on its way to a list lacks, as a loaded list does, only messages that are elsewhere: not yet emitted, on the wire or missed for a named reason, of which those older than the answer holds are one; the answer of a fetch that began before an event is the case that needs it |
| `TokensFit` | `SignupInv`: ids that the page holds belong together, since both come from one message; a request past the exchange owns its code (`OwnsCode`): no account has it and no other request holds it, which the exchange, good once per code, establishes |
| `CredentialsConnected` | `LinkInv`: while no connection was made under a refresh, the credentials of a refresh under way are those of the last connection or the row has been disconnected |
| `OutboundProofs`: `CopiesAreExplained`, `TakenIsCounted` | `OutInv`: handler and queue agree on the job in progress, and a slot is inside `sendOutbound` only between the quota and the answer; a job that may still run and is not out in this attempt (`Out`) has no more copies than faults; an admission not yet spent (`Unspent`) is counted and not yet taken |

The invariants are needed because each property speaks of a result while the
danger is in a handler that has passed a check and not yet acted on it; each
strengthening counts those handlers.

Only model-checked: the liveness properties (`BucketDrains`, `EveryJobSettles`,
`EveryMessageTried`, `EveryMessageSettles`), since the prover has no rules for
fairness and ENABLED; and the four claims of the findings, which are false. Every other
invariant and action property of the runs is the conclusion of a theorem. Type
invariants (`TypeOK`, `RateTypeOK`, ...) are part of the proofs and of no run of their own.

## 5. What is abstracted

- Contents: texts, media, phone numbers and ids are model values; keywords and
  matches are membership in a set. A message without text is in a set of its own where
  the code tells it apart. CSV and chunking, where characters matter, are modelled
  on characters and positions; the trimming of white space at the ends of a chunk
  is left out.
- `warmupCapForAge` (tiers of the daily cap by account age) is the constant
  `DailyCap`; quality events, `setLimits` and connection updates are left out, or a step
  that may fail a delivery.
- Rows of other tenants: every module is about one agency, number, conversation,
  campaign, account or flow, since the code shares nothing between them but the worker
  slots.
- `lastMessageAt` of a conversation, and which conversation a message is stored in: no
  property of `Ingest` reads them, and the queries that write them are steps that may fail.
- Templates at Meta are one list: the sync asks for its first page only
  (`templates-meta.service.ts` 106-120), so rows of later pages stay as they
  are, as if nobody had asked for a sync.
- A Google grant with or without a refresh token is not told apart: an access token about
  to expire is refreshed or used as it is.
- Clocks: windows, months, expiries, grace periods and backoffs end at any moment.
- The order of waiting jobs, which a retry's backoff changes anyway.
- The order of messages within a list of the inbox page, which the properties do not
  mention: a list is the set of messages it shows and those it shows twice.
- Dashboard counters, activities, notes, amounts, presence and typing indicators, and
  audit rows, unless writing them can fail a handler; then that failure is an outcome.
  Events of payment links (`billing.service.ts` 101-124) only add an activity.
- Flow nodes that write contacts, deals or the assignment are one kind without an
  effect on the conversation in `Inbound`; their effects are in `Contacts` and `Deals`.
- Encryption, signatures, request formats and the texts of starter bundles.
- `isActive`, `mfaEnabled` and `emailVerifiedAt` may have either value when read.
- A rate limit of zero, which switches the middleware off.

## 6. What is not modelled

`PROJECT.json` lists every component with its status and reason. Custom domains (a row
and a DNS lookup), quick replies and agents' settings (CRUD on independent rows),
analytics (read-only aggregation), e-mail and the providers' formats (I/O), framework
configuration, and the pages that show what they fetch have no behaviour of several
steps or actors to get wrong. The schema's unique constraints and cascades are part of
the actions that rely on them.

## 7. Plan

Done: sending (`Guardrail`, `PlanQuota`, `JobQueue`, `Outbound`), receiving (`Inbox`,
`Ingest`, `FlowExecutor`, `Inbound`, `Receipts`), campaigns, sessions and accounts, money
and limits (`Subscription`, `Capacity`), tenants' data (`Contacts`, `Csv`, `Deals`,
`Knowledge`, `Integrations`, `Templates`, `Signup`), pages (`InboxPage`, `FlowEditor`) and
`RateLimits`.

Theorems to add: refinements of the abstract specifications other than `Inbox` (a job queue
that runs each job at least once, a bucket that grants its limit per window), and the
invariants under `EveryJobSettles` and `BucketDrains` - that a job which is not settled can
always be run - which are the safety half of the liveness properties.

Left of the code: quality events and `setLimits` of the guardrails, presence and typing in
the gateway, and the CRUD of agents and their limit.
