# CSPR402 in TLA+

CSPR402 sells virtual cards to software agents. An operator signs in to a
dashboard, mints an API key and hands its one-time claim code to an agent; the
agent trades the code for the key and funds its wallet. It then asks the backend
for an order, the owner's policy decides whether the order is let through,
blocked or shown to the owner, the agent pays on the Casper chain, and the
backend checks the transfer with a Casper node and hands out a card. An older
pipeline bought cards from VCC with the treasury's XLM and refunded what failed.

This directory holds TLA+ models of that system, translated from the source, the
instances TLC checks, and theorems the TLA+ proof system proves. Paths below are
relative to the repository; the backend lives in `backend/src/`, the client in
`sdk/src/`.

## Inventory

| Part | Source | State | Operations |
|---|---|---|---|
| Policy engine | `policy.js` | reads `api_keys`, sums `orders` | `checkPolicy` |
| Payment arithmetic | `payments/casper.js`, `casper-cep18.js` | transfer id counter in `system_state` | `usdToMotes`, `allocateTransferId`, `buildCasperPayment`, `buildMockUsdcPayment` |
| Orders API | `api/orders.js`, `middleware/auth.js`, `payments/casper-verify.js` | `orders`, `idempotency_keys`, `api_keys.total_spent_usdc` | create, verify-payment, read, stream |
| Dashboard API | `api/dashboard.js` | `api_keys`, `approval_requests` | approve, reject, suspend, update, delete, mint |
| Jobs | `jobs.js` | all tables, guards in memory | expire orders, expire approvals, prune, retry webhooks, reconcile, recover, funding check |
| Webhooks | `fulfillment.js`, `jobs.js` | `webhook_queue`, a breaker per origin in memory | fire, enqueue, retry |
| Card pipeline | `jobs.js`, `fulfillment.js`, `vcc-client.js`, `api/vcc-callback.js`, `payments/xlm-sender.js` | `orders` in `ordering`, `refund_pending` | reconcile, recover, callback, refund |
| Onboarding | `app.js`, `lib/claim-hash.js`, `lib/agent-state.js`, `sdk/src/commands/onboard.ts` | `agent_claims`, agent state of `api_keys` | claim, report status, funding check |
| Login | `api/auth.js`, `middleware/requireAuth.js` | `auth_codes`, `wallet_auth_challenges`, `users`, `dashboards`, `sessions` | code, verify, wallet, demo, logout |
| Signer | `sdk/src/casper-signer.ts` | `inflight.json` and lockfiles of the agent's machine, a map per process | pay and verify an order |
| Stream and wait | `api/orders.js`, `api/dashboard.js`, `sdk/src/client.ts` | two counters of open streams in memory | open, tick, close; `waitForCard` |
| Price oracle | `payments/cspr-price.js` | cache in memory | `getCsprUsdRate` |
| Alerts, audit, statistics, e-mail | `lib/` | append-only records | notify, record |
| Web, video, examples, scripts | `web/`, `video/`, `examples/`, `scripts/` | none the backend reads | |

The backend's parts meet in one SQLite database and one Node process. A handler
runs without interruption between two `await`s, and a `db.transaction` runs
without interruption altogether; everything else interleaves. The process may
die at any point between two statements, and what is not in the database is then
gone. The signer's processes (CLI runs and MCP servers of one agent) meet in two
kinds of files: a ledger that each reads once and overwrites whole, and a
lockfile per order.

What is hard, in this code:

* a handler reads rows, awaits (bcrypt, the price, a node, VCC, a webhook) and
  then writes by what it read: create, verify, approve, the funding check,
  reconcile and recover all do;
* an order and its approval request are two rows, changed by six handlers and
  two jobs, partly in transactions and partly in autocommit mode;
* a deploy on the chain may be presented for several orders at once, before and
  after the order expired;
* a stuck order is closed by whichever comes first of a retry, a hard fail, a
  poll and two kinds of callbacks, while its invoice may be under way;
* a payment whose answer is lost may or may not have landed, in the treasury's
  transfers and in the agent's;
* clients retry, jobs overlap with handlers, processes crash or are killed;
* webhooks are retried across crashes, with a breaker that forgets;
* an event stream ends in six ways, each of which must give one slot back and
  leave its reader neither waiting nor misled;
* a claim code, a login code and the ownership of a fresh instance go to whoever
  comes first, once.

For each part the properties that make it correct: the policy lets through what
the owner allowed and nothing else; a price is never rounded down; a card is
sold for one good transfer of its own; limits hold under concurrency; an order
moves forward only and is closed in the end; order and approval agree; a webhook
is delivered or given up, once unless the process died; the treasury pays an
invoice once, and an order ends in a card or a refund; a claim code is worth one
key, guesses at a login code are bounded, an instance has one owner; a deposit
is noticed; an agent never pays an order twice nor forgets that it paid; who
waits for a card is told what became of it; the stream counters are the streams.

## Modules

```
Policy ──┬── MCPolicy ───────────────────────┬── MCPolicyProofs
         ├── CalculationProofs (and Money) ──┘
Money  ──┴── Orders ──┬── MCOrders
     OrderPromise ────┴── OrdersProofs (and CalculationProofs)

SettlementPromise ── Fulfilment ──┬── MCFulfilment
                     OrderMoves ──┼── FulfilmentProofs
                                  ├── OrdersProofs
                                  └── CardStream ──┬── MCCardStream
                                                   └── CardStreamProofs

Login ── Onboarding ──┬── MCOnboarding        Webhooks ──┬── MCWebhooks
                      └── OnboardingProofs               └── WebhooksProofs
Signer ──┬── MCSigner
         └── SignerProofs (and OrderPromise)
```

**`Policy`** is `checkPolicy` as a function: a policy row (a column is `None`,
`Corrupt` or a value), a request, the total of the day and the time give a
deciding rule and its verdict. `Rules` lists the rules in the order of the code.

**`Money`** is the arithmetic of an instruction, on the naturals (the code uses
BigInt): decimals are a number of units over a scale.

**`Orders`** is the live path. Its variables are the tables (`order`,
`approval`, `idem`, `key`, `nextTid`), the requests between their awaits
(`call`, `verify`, `decide`), what the chain knows of each deploy (`chain`), and
the clock. Its actions:

| Action | Code |
|---|---|
| `CreateBegin`, `CreateCommit` | `POST /v1/orders`: middleware and awaits, then the transaction with its branches (`CreateAnswered`, `CreateAwaitingApproval`, `CreateSandbox`, `CreatePendingPayment`) |
| `VerifyBegin`, `VerifyClaim`, `VerifyRefused`, `VerifyTooLate` | `verify-payment` before and after the node's answer |
| `ApproveBegin`, `ApproveCommit`, `ApproveRolledBack`, `ApproveMockUsdc` | approve, which awaits the price for a native order only |
| `Reject`, `Suspend`, `Unsuspend`, `UpdateKey`, `DeleteKey` | the other dashboard handlers |
| `ExpireStaleOrders`, `ExpireApprovalRequests`, `PruneIdempotencyKeys` | the jobs |
| `Crash`, `CrashInClaim`, `CrashInReject`, `CrashInSuspend`, `CrashInExpireApprovals` | death of the process, between handlers or between two autocommit statements of one |
| `Pay`, `Tick` | agent's wallet and clock (external) |

What a handler carries over an await is exactly what the code keeps in a local:
`call[c]` holds the limit and the total the middleware read; `verify[v]` holds
the price and the transfer id of the order row. Two ghost variables
(`uncredited`, `undecided`) name the rows a crash cut short, so that properties
can say "but for those".

Abstractions. An order bears the name of the request that inserts it. Amounts
are small naturals in one unit. A transfer on the chain is `good` if it executed
and its chain, contract and recipient are right; the parsing of node answers is
not modelled. A request that fails validation changes nothing and is left out.
The freeze switch, disabled and expired keys only stop requests from starting,
which `CreateBegin` may always do, since nothing forces it. `Payable` stands for
the minimum transfer. Unlike in the code, ids of transfers count from 1.

**`OrderPromise`** is what an agent may rely on: an order moves from absent to
awaiting approval, awaiting payment and ready, or is closed in the phase that
says what it waited for; and a coin (a deploy) buys one card. It knows no
requests, jobs, clocks or crashes. `Orders` implements it under the mapping at
the end of `Orders` (`Phase` is the table `PHASE` of the code).

**`Webhooks`** is delivery: the first call outside the queue, the row inserted
when it fails (without the card), the retry job with its mutex, the card put
back from the vault, attempts and delays, the breaker. Times are counted down,
so there is no last tick and no bound on time. `Failed` records a non-2xx answer
twice, as the code does.

**`Fulfilment`** is the old card pipeline. `row` holds the checkpoints of an
order's row, `job` where the tick is and the rows its SELECT returned, `vcc` the
status of VCC's job, `paid` and `refunds` what landed on Stellar.

| Action | Code |
|---|---|
| `StartReconcile`, `Reconcile` (`GiveUpOn`, `ClaimAttempt`) | `reconcileOrderingFulfillment` up to its first await for an order |
| `InvoiceAnswered`, `UrlAnswered`, `PayAnswered`, `NotifyAnswered`, and `...Lost` | its awaits: `getInvoice`, the payment URL, `callPayCtxOrderWithAmbiguousPark`, `notifyPaid` |
| `VccReads`, `HardFailAnswered` | the question to VCC before a hard fail, and what follows the answer |
| `StartRecover`, `Recover`, `VccReads`, `PollAnswered` | `recoverStuckOrders` |
| `AttemptEnds` | an error, or the end of the `try` |
| `FulfilledCallback`, `FailedCallback` | `api/vcc-callback.js` |
| `RefundOrQuarantine`, `RefundAnswered` | `refundOrQuarantine`, `scheduleRefund` before and after its await |
| `VccDecides`, `VccGivesInvoiceUp`, `VccRunsAgain`, `Freeze`, `Unfreeze`, `Crash`, `Tick` | VCC, operators, process and clock |

A question to VCC takes two steps, `VccReads` and the answer, so that the job
and the row may move while the answer is under way. Ghosts say how a payment
came to be unknown (`cut`: a crash came between sending and recording) or late
(`late`: it landed after the order was closed). Nothing in the source sets
`ordering` any more, so `Init` has rows as an earlier release left them, in the
shapes the comment at `jobs.js:225` lists. The breaker of `vcc-client.js` only
turns calls into failing ones, which `AttemptEnds` covers. A 404 for a hash is
taken to mean that the transfer will never land, as the code takes it.

**`SettlementPromise`** is what the pipeline promises of an order that was paid
for: it ends with a card, a refund or in an operator's hands, once and for all,
and no refund begins once the payment for its card is on the books (the rule
`refundOrQuarantine` was written for). It knows no callbacks, jobs, clocks or
crashes. `Fulfilment` implements it: `EndOf` reads an order's end off the refunds
under way, what was sent, and the status of the row; the books are the payment
hash of the row (`ctx_stellar_txid`).

**`OrderMoves`** lists the UPDATEs of an order's status, whoever runs them. It is
where the order modules meet: `Orders` and `Fulfilment` are proved to move orders
along it (`OrdersFollow`, `RowsFollow`), and `CardStream` watches an order that
does. It holds moves one would not expect, which the pipeline really makes: a
delivered or refunded order parked as `failed` by a payment of unknown outcome,
and a refund recorded over that. A handler that fails an order and refunds it at
once is one step of `Fulfilment` and two moves of `CardStream`, where nobody need
look in between.

**`Login`** is `api/auth.js`: codes, challenges, users, dashboards, sessions.
**`Onboarding`** extends it: the operator mints a key through a session, the
agent redeems the claim and reports, the funding check polls the chain.

| Action | Code |
|---|---|
| `RequestCode`, `VerifyCode`, `WrongCode`, `ExpireCode` | `/auth/login`, `/auth/verify` |
| `IssueChallenge`, `SignChallenge`, `DemoLogin`, `EndSession` | the wallet and demo logins, logout and expiry |
| `RequestKey`, `MintKey` | `POST /dashboard/api-keys`, `POST /auth/portal-key`, before and after the hash |
| `DeleteKey`, `PatchWallet` | the key's owner |
| `StartOnboarding`, `RedeemClaim`, `RedeemCut`, `OpeningFails`, `ClaimRefused`, `ReportWallet`, `ReportLost` | `onboard --claim` against `POST /v1/agent/claim` and `/status`; `RedeemCut` commits the claim and is stopped before the answer, by a throw or by the death of the process |
| `ReportState` | any other use of `/v1/agent/status` |
| `StartFundingCheck`, `BalanceAnswered`, `BalanceUnavailable` | `checkAgentFundingStatus`, its SELECT and each of its awaits |
| `Deposit`, `ExpireClaim`, `Crash` | chain, clock and process |

Clocks are left out of both: anything that may expire may do so at any moment.

**`Signer`** is `payAndVerifyOrder` as several processes run it for several
orders: `mem` and `disk` are the ledger in each process and in `inflight.json`,
`lock` the lockfiles, `call` where each call is.

| Action | Code |
|---|---|
| `Ask`, `Enter`, `LockTimeout` | the status check, `withOrderLock`, `hydrateLedger` and `ledgerGet` |
| `SeeStale`, `Steal` | a stale lockfile, seen and removed in two steps |
| `PrepareFails`, `Sign`, `PutToNode` | key, probe, signing, `ledgerSet`, the failover of `put_deploy` |
| `BackendVerifies`, `VerifyAnswered`, `VerifyFails`, `VerifyByHand` | `verifyPayment` and what the client does with its answer |
| `Execute`, `Expire`, `End` | chain, backend and the end of a process |

`persistLedger` may fail at any write, and `hydrateLedger` at its one read: a file
it cannot read or parse is an empty ledger to that process, which then overwrites
it. Ghosts count both for an order, `unwritten` and `unread`, so that properties
can say "but for those".

**`CardStream`** is how an agent learns the outcome. `server` and `client` are
the two ends of a stream, `wire` and `pipe` what lies between them, `perKey` and
`total` the counters it shares with the dashboard's feed.

| Action | Code |
|---|---|
| `Move`, `PurgeOldCards` | the statuses that other handlers and jobs write; the retention sweep |
| `StreamOpens`, `OpeningThrows`, `StreamRefused`, `Tick`, `TickThrows` | `GET /v1/orders/:id/stream` and its timers |
| `OpenFeed`, `FeedLoadFails`, `FeedThrows` | `GET /dashboard/stream`: its statements up to the close handler may throw with the slot taken |
| `OnClose`, `SocketDies`, `Crash` | the close event, network and process |
| `Wait`, `Read`, `ReadEnd`, `ReadBreaks`, `Abort` | `waitForCard`, `waitForCardStream` |
| `Poll`, `PollAnswered`, `PollFails`, `DeadlinePasses` | `waitForCardPoll`: an answer is made before it is read |

`updated_at` is a version of the row: the code compares it for equality, and two
changes of one order's status are more than a millisecond apart. What the
dashboard's feed carries is left out; it only holds a slot. Ghosts say which
orders were ever delivered (`issued`), which streams the server ended without
an outcome (`cut`) and which slots a feed took and nobody will give back
(`lost`).

## Runs

| Run | Instance | Shows |
|---|---|---|
| `policy` | every policy over limits 1, 2; amounts 0 to 3; totals 0, 1; 3 minutes a day, 2 days a week | verdicts equal what a policy promises, written independently of `Rules` (the window is walked minute by minute) |
| `payment` | 2 requests of a live and a sandbox key, native and mockUSDC, 2 deploys, 2 verify requests, a crash, 3 ticks | one card per deploy, only for a good transfer of the order; totals equal deliveries; ids are unique; in-flight and daily limits hold; a retried request opens no second order; `OrderPromise` is implemented, so that what is closed stays closed |
| `approval` | 2 orders on both sides of the threshold, 2 approve requests, 1 owner action (which may move the threshold), a crash, fairness | order and approval agree, suspension leaves nothing waiting, the owner is asked above the threshold in force, every order closes |
| `webhooks` | 2 queued and 1 direct notification to one origin, 1 fault, fairness | bounded calls, one acknowledgement, the card arrives, cooldown lasts, every webhook settles |
| `fulfilment` | 1 order in every shape, 2 attempts, 2 faults (crash, freeze, job run again), fairness | the invoice is paid once, the order ends in a card or a refund, a paid order is not refunded, closed is closed, `SettlementPromise` is implemented, every order closes |
| `signer` | 1 process, 2 orders, 2 nodes, 1 fault (kill, failed write or failed read), fairness | but for such a write or read no order is paid twice and what was sent is on record until delivered, and what was paid is delivered |
| `onboarding` | 1 e-mail and 1 wallet, 2 codes of 2 guesses, 1 key, 2 agents, 2 accounts, 1 fault, fairness | guesses are bounded, one owner, a claim is spent by sending its key or by a cut before the answer, a funded wallet received a deposit, deposits are noticed |
| `card_stream` | 1 call, 2 browsers of a dashboard with 1 slot, 1 fault, fairness | the counters are the open streams and the lost slots, and within limits; a caller is told the outcome through refused, broken and ended streams, and only if it is so; slots come back |
| `spend_limit`, `expiry`, `refusal`, `two_signers` | violated | see Findings |

Bounds. Time constants of the orders keep the order of the deployed defaults
(payment 60 minutes, below order age and approval window of 2 hours, below the
24 hours of an idempotency row), and so do those of the pipeline (retry 2,
recover 10, fail 30 minutes). `MaxTime` lies beyond the largest of them in use,
so expiry before, at and after each deadline happens. `LastCall` stops new
orders, which keeps the rest of the run for what happens to them. Two orders,
two deploys and two requests per kind are what the hazards need: every race in
the code is between two actors over one row. The pipeline's orders meet only in
the job, which handles one at a time; one order races VCC, the callbacks, the
refund and the job, and the proofs cover any number. `MaxCrashes`, `MaxUpdates`
and `MaxFaults` of 1 or 2 suffice because after a fault the system is in a state
from which the others start anew; the pipeline needs two, so that a crash may
follow a freeze or a job that VCC runs again. The signer has one process in the
passing run, because with two its promises do not hold (`two_signers`). The
feeds share one slot, and a call may wait again after it was told. An order
changes its status at most 4 times (`MaxMoves`): parking and late refunds could
go round for ever, and 4 changes take an order from approval to a card and
through a parking and a refund.
Symmetry is used over requests, deploys, verify and approve requests in the
safety runs; not where there is liveness. The runs of `Orders`, `Webhooks` and
`Policy` switch the deadlock check off: an instance with bounded time and a
finite number of requests ends. The others never stop, and are checked for
deadlock.

Fairness. `approval` assumes that time passes and that the two expiry jobs run:
`setInterval` starts `runJobs` every five minutes, each job under a guard of its
own, so neither a failing sub-job nor a slow one keeps the others away for ever.
Nothing is assumed of agents, owners or the node. `webhooks` assumes the job,
time, and that a call ends: it has a timeout of ten seconds. `fulfilment`
assumes the job, time, an operator who ends a freeze, and of VCC that again and
again it answers, that it decides every job, and that the callback of a
delivered card comes sooner or later; the callback of a failure need not come.
`signer` assumes that the agent calls again while its order is pending, that a
call ends, and that it does not always stop waiting just before a dead lock is
stale nor meet only verify calls that fail. `onboarding` assumes that the
funding check is started and ends: timer and request timeout. `card_stream`
assumes that a connection is answered, the tick runs, the client reads and
polls, and the close event follows a dead socket; not that a deadline passes.

Each property of a passing run has a mutant: a definition next to the one it
alters, with a plausible bug (a dropped guard, a comparison off by one, a write
left out), under which TLC finds the property violated. They are marked
"Mutant:" in the modules.

## Findings

* **Spend limit** (`spend_limit`). Create checks the limit inside the
  transaction, but against `req.apiKey`, read before bcrypt and the price. An
  order that is delivered in between is neither in flight nor in that total.
* **Expiry** (`expiry`). The job expires orders two hours after creation; an
  order approved late has a payment window that is still open.
* **Refusal** (`refusal`). Reject, suspend and the expiry of approvals write two
  rows in autocommit mode. A crash between them leaves an order that waits for a
  decision already taken, and no job closes it. `ApprovalAgrees` and
  `EveryOrderCloses` therefore except those orders.
* **Two signers** (`two_signers`). `hydrateLedger` reads `inflight.json` once in
  the life of a process (`casper-signer.ts:827`). A process that has looked up
  an order before never sees the hash another process recorded since, lock or
  not, and signs a second transfer; the comment at lines 44-50 promises that it
  re-verifies the first.

Seen while modelling and not checked:

* a webhook answered by something other than 2xx is recorded as a failure twice
  (`fulfillment.js:205-214`), so the circuit opens after three such answers, not
  the five of `CB_THRESHOLD`; `Failed` does the same;
* `waitForCard` promises to poll if the stream fails for any reason
  (`client.ts:405-408`), but a stream that the server ends without an outcome is
  reported as a timeout at once (`client.ts:537`): after an error in a write or
  a tick, or in `pending_manual_recovery`, which is terminal for the stream and
  unknown to the client (`cut` in `OutcomeIsTold`);
* a webhook whose retries all meet an open circuit is given up without having
  been called again, since an open circuit costs an attempt;
* a sandbox key above its threshold waits for its owner and is then asked for a
  real payment;
* parking an ambiguous payment (`jobs.js:128-134`) has no guard on the status: a
  row delivered while the payment was under way is set to `failed`. The comment
  at 249-254 says that parked rows stay in `ordering`;
* a failed callback during a payment that is under way refunds the order, whose
  invoice is then paid all the same (`late` in `RefundedWasUnpaid`);
* a refund skipped because the system is frozen is not tried again, and an order
  whose payment was recorded but whose `notifyPaid` failed is never notified
  again: reconcile leaves rows with a payment hash alone. It closes only when
  VCC gives the job up;
* nothing in the source freezes the system, which only an unfreeze route ends;
* `persistLedger` writes the map of one process over the entries of the others,
  and two processes that both see a stale lock may remove the lock of a third;
* a claim is spent when its transaction commits (`app.js:360`); a statement that
  throws, or a crash, before the answer (451) burns it with nothing sent, and
  the key may not even be marked `initializing` (`burnt` in `ClaimSpentOnce`);
* an `inflight.json` that cannot be read becomes an empty ledger
  (`casper-signer.ts:847-851`, which accepts a duplicate payment). The next write
  then drops the entries of the other orders too, which the comment does not
  say (`unread` in the signer's properties);
* the dashboard's feed takes its slot (`dashboard.js:83`) and reads its keys before
  anything could give the slot back; a read that throws loses it until a restart,
  which the comment at 100-102 means to rule out (`lost` in `SlotsAreStreams`);
* approve checks the spend limit again, and then awaits the price before its
  transaction (`dashboard.js:895-935`): a limit lowered meanwhile does not count;
* an answer of `/v1/agent/claim` that is lost burns the claim, and a lost status
  report leaves the agent `initializing`; an owner who changes the wallet, or an
  agent that reports again, during a funding check may end as `funded` with an
  empty wallet (`touched` in `FundedHasDeposit`);
* a client told `failed` while its refund is under way does not cancel its
  reader, and the stream, not terminal for the server, holds its slot until the
  refund ends (the exception in `SlotsComeBack`);
* after the retention sweep `openCard` makes an object of nulls, and a client
  that waits then is handed a card without a number (`blank card`);
* if the first write of the dashboard's feed throws, `closeStream` runs before
  the bus listener and the timer exist, which are then set up all the same.

## Proofs

`CalculationProofs`, about `Money`: `divCeil` is the ceiling; the motes quoted are
worth at least the amount, and one mote less is not; base units are exact. About
`Policy`: `VerdictOf`, the first rule to fire decides, so that what breaks a hard
rule (`Broken`) is blocked and the rest is a question of the threshold alone. About
`Total`, the sum of the orders of a set, which takes its members in an order
`CHOOSE` picks: the sum of a finite set exists and does not depend on that
order (`SumsExist`, `SumsAgree`), and it is the sum without a member plus that
member (`SumRemoves`), so that it grows with its set (`SumGrows`). Induction over
finite sets, which the prover cannot cite, is replaced by a least
counterexample: a set of finite sets has a minimal member, for strict inclusion
is well founded (`MinimalSubset`).

`MCPolicyProofs`, for every calendar and all sets of amounts, limits and totals:

* `WindowsAreRightOverMidnight`: the comparisons of `inAllowedHours` admit the
  minutes a clock passes from the start of a window to its end, overnight too.
* `LetThroughWithinPolicy`, `OwnerAskedAboveThreshold`, `BlockedForACause`: the
  properties of the run `policy`, from that and `VerdictOf`.

`OrdersProofs`, for all constants that satisfy the assumptions (any number of
keys, orders, requests, any policies and time constants):

* `TypeCorrect`: `Spec => []TypeOK`, one step per action.
* `Invariant`: `Spec => []IInv`. The safety properties are not inductive alone:
  a transfer id could repeat if the counter were not above every id issued
  (`TidsIssued`); a deploy could be held by an order that is not delivered
  (`OnlyDeliveredHolds`); an insert could overwrite an order if a call not yet
  done had one (`CallFresh`); a refusal could hit an order already paid if
  pending requests did not belong to waiting orders (`PendingAwaits`). `IInv` is
  their conjunction with the properties. Its proof first sorts the steps of
  `Next` into six kinds by what they do to orders (`StepKinds`: insert, grant,
  deliver, expire, refuse, or nothing), then shows each conjunct against the
  kinds instead of against every action.
* `RedeemedOnce`, `UniqueTransferIds`, `ApprovalsAgree`: the properties of the
  runs, from `IInv`; and `ClosedStaysClosed`, that an order delivered, expired or
  rejected stays so.
* `DeliveredWasPaid`: a verify request carries over its await what the node will
  say, so `JobsFit` says that a request whose answer is good still fits the order
  it was checked against: terms do not change once quoted.
* `RetriesBuyOnce`: by `RememberedOrOld`, an order placed under an idempotency key
  is remembered in the table under it or is older than the retention, whatever
  the pruning job did.
* `NothingWaitsSuspended`: a step that suspends a key refuses what waits under it
  or a crash cut that short, and the verdict an insert rests on is blocked for a
  suspended key (`VerdictOf`).
* `NothingAboveThresholdUnasked`: an order becomes payable by an approval or by a
  verdict (`QuotedBy`), which `VerdictOf` ties to the threshold in the key's row
  as the transaction reads it, so that the owner may change it at any time.
* `SettledIsDelivered`: a claim moves one order to `delivered` and credits it once,
  in one statement after the other, or a crash leaves it in `uncredited`
  (`ClaimSettles`). What is summed is delivered, so it is among the orders
  inserted, and those are finitely many although `Calls` need not be: one step
  inserts one (`FinitelyMany`).
* `DailyLimitHolds`, `InFlightLimitHolds`: an insert is decided within its
  transaction on the sum of the rows as they are (`DecisionWithinDaily`,
  `InsertDecided`), against a limit read earlier, which is still the key's while
  the owner changes nothing (`LimitsRead`, `PoliciesKept`). All other steps take
  orders out of the sums or leave them (`CountedBefore`). That a daily limit is
  a natural number is an assumption on `Policies`: a column that is not a number
  blocks every order and is `Corrupt`, not a value.
* `OnlyStaleReadsOverspend`, `OnlyApprovedExpireEarly`, `OnlyCrashesLeaveRefused`:
  of each finding in this part, that its cause is its only one. The spend limit
  holds of every behaviour in which the total read at the start of a request is
  right when its order is inserted (`ReadsAreFresh`); with a job that waits at
  least as long as the payment window, only an order its owner approved expires
  inside the window; and without a crash no refused order waits.
* `OrdersFollow`: every change of a status is a move of `OrderMoves`.
* `PromiseKept`: `Spec => KeepsPromise`, initial states to initial states and
  every step to a step of `OrderPromise` or a stutter.

`FulfilmentProofs`, for any number of orders, attempts, delays and faults:

* `TypeCorrect`: `Spec => []TypeOK`.
* `Invariant`: `Spec => []IInv`. `SettledOnce` needs to know that an open order
  has no refund under way (`OpenIsUnsettled`); `PaidOnceUnlessCut` that an unpaid
  row's payments were all cut off (`UnpaidByTheRow`) and that an attempt that
  may still pay is on an unpaid row, although its snapshot is old
  (`JobKnowsPayments`: no order is handled twice in a tick, and what the job
  read of a payment still holds); `RefundedWasUnpaid` that a refund under way was
  due (`RefundWasDue`). Again `StepKinds` sorts the steps, here by what they do
  to one order: nothing, deliver, close, pay, end its refund, or crash.
* `SettledAtMostOnce`, `PaidAtMostOnce`, `RefundsOnlyUnpaid`, `ClosedOrdersStay`:
  the safety properties of the run.
* `SettlementKept`: `Spec => KeepsSettlement`. An order handed to an operator must
  be one whose payment was booked (`OperatorSeesPaid`), although the poll and the
  callback decide on a row they read before (`KnownPaid`); a payment may be
  booked on an order that is closed by then, which the promise allows (`Book`).
* `RowsFollow`: every change of a status is a move of `OrderMoves`.

`OnboardingProofs`, for any number of addresses, wallets, keys, agents, accounts
and tokens:

* `TypeCorrect`: `Spec => []TypeOK`, for `Login` and `Onboarding` together.
* `Invariant`: `Spec => []Inv`, a conjunct for login (`LoginInv`) and one for
  onboarding (`OnboardingInv`), which touch disjoint variables but for the
  session that mints a key. `FundedHasDeposit` is not inductive: the check writes
  by a wallet it read earlier, so `RowOK` says that what it read of a row still
  holds unless somebody touched the row, and `KeyOK` that only a live key is
  funded, for else a key minted in a deleted row's place could be. `deposited` is
  what ever received a deposit: money that left again is not modelled. `OneOwner`
  needs that a user has a dashboard before a session (`SessionsAreOfUsers`).
* `GuessesAreBounded`, `OneOwnerOnly`, `CredentialsSentOnce`, `FundedIsTrue`: the
  safety properties of the run. A claim is spent by one step, which either sends
  the key or is cut (`burnt`).

`WebhooksProofs`, for any number of webhooks, delays, attempts and faults (the
circuit's threshold is at least 2, as in the code):

* `Invariant`: `Spec => []Inv`. `CallsBounded` and `AcknowledgedOnce` count calls
  over time, so the invariant says what the row records of them: a row exists
  from its first call on (`RowFollowsCall`), a claimed row is one that was due
  (`RetriesDue`), calls and acknowledgements are accounted for by attempts and
  faults (`CallsCounted`, `AcksCounted`), and a payload lost its card only by
  the purge (`CardsPurged`).
* `CallsAreBounded`, `AcknowledgedOnceOnly`, `CardsArrive`, `CooldownHolds`.

`CardStreamProofs`, for any number of calls, browsers, keys and orders, whatever
the limits:

* `TypeCorrect`: `Spec => []TypeOK`.
* `SlotsMatch`: the counters are cardinalities of sets of open streams and of lost
  slots; a step opens one stream and takes one slot (`SlotsOpened`), closes one
  and gives one back (`SlotsClosed`), loses one (`SlotLost`), or does none of
  these (`SlotsKept`). Each lost slot has a fault of its own (`LostCounted`). That
  `Release` stops at zero never matters.
* `TruthTold`: by `TruthInv`, every event on a wire and every answer not yet
  read was true when written and is still (`WiresTrue`, `AnswersTrue`), because
  the two facts a client is told of an order are stable (`Stable`).

`SignerProofs`, for any number of orders, nodes, kills, failed writes and reads:

* `TypeCorrect`: `Spec => []TypeOK`, for any number of processes.
* `Invariant`: for one process at a time (`Processes = {p}`; the run `two_signers`
  shows that two break it), `Spec => []Inv(p)`. `PaysOnce` counts what reached a
  node, so the invariant counts what was signed: no order has more than one
  transfer beyond its failed writes and reads (`SignedOnce`), because an order
  without an entry, in the ledger the process uses (`NoEntryUnpaid`) or in the file a
  restart will read (`NoFileEntryUnpaid`), has none that a failed write or read
  does not explain. Memory and file differ after either, in both directions:
  `ForgottenDelivered` says that what only the file still holds was delivered or
  not read.
* `PaidOnce`, `PaymentRemembered`, `EntriesKept`: the safety properties of the run.
* `OneProcessReverifies`: the promise that `two_signers` refutes holds of one
  process, of every entry it could read: what it forgot was delivered and is not
  asked for again (`ForgottenUnasked`).
* `BackendIsThePromised`, for any number of processes: the backend of this module,
  which takes an order's status and the deploy that bought it in single steps,
  takes no step but those of `OrderPromise`, with the transfers signed as coins.
  `Orders` implements that promise (`PromiseKept`), so the signer assumes nothing
  of an order that the backend does not keep.

The assumptions are those of the modules, which TLC evaluates in every run.

Every safety invariant, action property and refinement a passing run checks is a
theorem. Only model-checked are the temporal properties under fairness
(`EveryOrderCloses`, `EveryStuckOrderCloses`, `EveryHookSettles`, `PaidIsDelivered`,
`DepositIsSeen`, `OutcomeIsTold`, `SlotsComeBack`): the prover has no rule for
fairness here.

## Not modelled, and why

Components with status `not_modelled` in `PROJECT.json` say why. In short: the
price oracle, previews, read endpoints, alerts, statistics, audit and e-mail only
read, record or tell;
platform administration only reports, but for the unfreeze that `Fulfilment`
has; the vault and the secret box are cryptography over one value; web, site and
video draw. Parsing and building of chain requests is left out wherever a
caller sees only its outcome.

## Plan

Done: the policy, the live path and its promise, webhooks, the card pipeline and
its promise, login and onboarding, the signer, the streams, proofs of all of
them, and what ties them together: `OrderPromise` between backend and signer,
`OrderMoves` between those who write statuses and those who watch them.

Left: the checks of a transfer (`casper-verify.js`) and the price oracle as modules
of their own, which are here outcomes; and a proof that what `CardStream` tells a
caller of an order is what `OrderPromise` says of it, which needs the two
modules' rows to be one.
