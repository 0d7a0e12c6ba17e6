# drogon-pay in TLA+

drogon-pay is a payment plugin for the Drogon web framework: it books orders,
payment attempts, refunds and ledger entries in PostgreSQL and talks to WeChat
Pay and Alipay. This directory models what the services of
`src/libs/drogon-pay/src/services/` do to those rows, what the WeChat client
believes, and how the plugin starts, sweeps and stops; it checks the models with
TLC on small instances and proves the central invariants with TLAPS.

The models follow the code at the level of SQL statements. Each action is one
statement (or one channel call, or one lost answer) with the branch the code
takes on its result; whatever runs between two statements of one handler is
another handler's action.

## The system

| Component | State it keeps | Operations | Meets others through |
|---|---|---|---|
| `PaymentService::createPayment` | order and attempt rows, the key's row | reserve, validate, insert, call channel, book the answer, store the response | the idempotency row, the order number, the channel's trade |
| `PaymentService::createQRPayment` | further attempts at an order | probe, refuse if settled, book, offer, promote or close | the same order and attempts |
| `PaymentService::queryOrder` and the WeChat and Alipay syncs | one transaction per round | ask the channel, pick an attempt, CAS, write order, post income | attempts, order, ledger |
| `CallbackService` (payment, refund) | notification reservations, one transaction per delivery | look up, drop or insert the reservation, lock, CAS, order, ledger, stamp, COMMIT, answer | all rows above |
| `RefundService` | refund rows, ledger entries | reserve, check, lock the payment, sum, insert, call channel, book the answer, respond, sync | refunds, order, ledger, the key's row |
| `IdempotencyService` | `pay_idempotency` | reserve, answer a conflict, store, clear, purge | every request that names a key |
| `WechatPayClient` | platform certificates, the time of the last download | download, install, verify notifications and answers | every WeChat call and notification; the plugin's timer |
| `ReconciliationService` | its timer | list what is in flight, query, sync, close what has expired, purge keys | calls the services and the channels |
| `PayPlugin`, `ChannelRegistry` | worker loop, timers, frozen registry | start, stop | owns all of the above |
| `PayUtils` | none | status mappings, refund cover, amounts | called by all |
| HTTP handlers, auth, Alipay client | none | parsing, key comparison, HTTP, signing | call or are called by the services |

What is hard in it: handlers are chains of asynchronous callbacks, so every
statement of one interleaves with every statement of another; a channel call
may happen and its answer be lost; notifications are repeated, delayed and
overlap; COMMIT may be applied and answered with an error; the process may die
between any two statements, and nothing but the rows survives; certificates
rotate and expire under the traffic they verify; the plugin is torn down while
ticks and answers are on their way. PROJECT.json lists the places where this
bites as hazards, each with the properties that would catch it.

## Modules

| Module | Models |
|---|---|
| `PayStatus` | status vocabularies, `mapTradeState`, `mapRefundStatus`, `resolveRefundedOrderStatus` |
| `BookedMoney` | abstract: what the books promise about the money of one order |
| `PaymentStore` | order, attempts, ledger and transactions of one order; READ COMMITTED with row locks; these rows as the books of `BookedMoney` |
| `PaymentCallback` | `handlePaymentCallback` |
| `PaymentSync` | `queryOrder` and `syncOrderStatusFromWechat` |
| `QRPayment` | `createQRPayment` after its idempotency check |
| `Settlement` | the three above on the same rows, with restarts: how WeChat money gets booked |
| `AlipaySync` | `queryOrder` and `syncOrderStatusFromAlipay`, and the notification handler that ends in it |
| `AlipayPayment` | `AlipaySync` and `QRPayment` on the same rows, with restarts: how Alipay money gets booked |
| `RefundStore` | order, refund rows, entries, settling transactions |
| `RefundCreate` | `createRefund` after its idempotency check, to the booking of its answer |
| `RefundSync` | `queryRefund` and `syncRefundStatusFromWechat` |
| `RefundCallback` | `handleRefundCallback` |
| `Refunding` | the three above on the same rows, with restarts: how money goes back |
| `ClientKey` | abstract: what an idempotency key promises its client |
| `Idempotency` | `IdempotencyService` over the rows of client keys |
| `CreatePayment` | `createPayment` over those rows, with a QR attempt, the payer and the notification as one step each |
| `KeyedRefund` | the idempotency wrapper of `createRefund`, composed from `RefundCreate` and `Idempotency`: what each caller is told |
| `WechatChannel` | `WechatPayClient`: certificates, verification, downloads, lifetime |
| `Reconciliation` | the sweep over pending rows: listing, batch, queries, answers, close of expired orders |
| `PluginLifecycle` | registry, worker loop with its queue, timers, start and shutdown |
| `Maintenance` | `Reconciliation` driven by the timer of `PluginLifecycle` |
| `PaymentStoreProofs` | lemmas about `PaymentStore` and `QRPayment` that both settlement proofs use |
| `SettlementProofs`, `AlipayPaymentProofs`, `RefundingProofs`, `KeyedRefundProofs`, `CreatePaymentProofs`, `WechatChannelProofs`, `MaintenanceProofs` | the proofs, one module per system |
| `MC...` | symmetry sets and structured constants for TLC |

A transaction is a record of buffered writes (`tx`, `wtx`) published by COMMIT
and dropped by rollback, a failing statement or a restart. A row lock is held
from the buffered write or the `FOR UPDATE` on, and an action whose row is
locked is not enabled. Writes by primary key are unconditional actions; writes
with a status criterion test the row in the action. Payloads and log lines are
left out; amounts are the numbers the sum checks compare, and "the channel
collected another amount" is the flag `exact`. In `WechatChannel` a message is
the serial it names, the certificate that signed it and what its body amounts
to; a serial has two spellings, since the code compares it after stripping
zeros and folding case, and `Printed` is what OpenSSL's text of a certificate's
serial reads as: itself below ten, nothing from 128 bits on.

Definitions named `X_Something` directly above `X` are mutants: `X` with a
plausible bug. The mutants of PROJECT.json replace `X` by them, and TLC then
finds the named property violated. They are used nowhere else.

Choices a reader may want to argue about:

- `Settlement` and `AlipayPayment` have one order. Orders share no rows, so
  more would add nothing. `Refunding` and `KeyedRefund` start from a settled
  order.
- `CreatePayment` has several orders and keys. The handlers derive a key when
  the client sends none, so every request has one. Expiry is allowed only when
  no request is working under the key: the lifetime is days, a request seconds.
- The request hash of `createPayment` is the order number: amount, currency and
  description are taken to go with it, and the user is not modelled. The hash of
  `createRefund` is the amount: order and reason go with it, and
  payment and refund number, which the code leaves out, are not part of it.
- In `CreatePayment` a channel may answer a call in any of five ways whatever
  trade is open under the number; a certain refusal proves only that this call
  opened nothing.
- `QRAttempt` and `NotificationSettles` in `CreatePayment` are single steps:
  what happens inside them is the subject of `Settlement`.
- A refund that WeChat reports CLOSED or ABNORMAL counts as not returned.
- An answer of Alipay may be any status the trade has had, since old
  notifications come late; a trade refunded in full reports TRADE_CLOSED.
  TRADE_FINISHED, mapped like TRADE_SUCCESS, is not told apart from it.
- `Reconciliation` has one row per order or refund with the outcome of its
  sync in one step; the statements of a sync are the subject of `Settlement`,
  `AlipayPayment` and `Refunding`. `Unknown` are the rows the asked channel never
  knows, about which every query fails: refunds of Alipay payments (the refund
  sweep asks WeChat) and orders whose process died before the create call.
- `KeyedRefund` takes the settling transaction of a notification or a query as
  one step, which may come between any two statements of a request. A query's
  step may write an answer the channel gave earlier.
- The Redis copy of a snapshot is written and never read by this code. The
  nonce and time window a WeChat notification must pass (also in Redis,
  `CallbackService.cc:256`) are taken as passed: a repeat comes with a nonce of
  its own.

## Runs

Passing runs and what they show:

| Run | Instance | Properties |
|---|---|---|
| `callbacks` | 2 overlapping deliveries of 3 kinds of notice, 2 QR attempts, 1 fault | `AckedMoneyIsBooked`, `StampedMoneyIsBooked`, `RefundedOrderIsCovered`, `SettledIsFinal` |
| `rounds` | a query round and a delivery on one attempt, 1 fault, fair | `PaidOrderIsBooked`, `InexactMoneyNeverBooked`, `SomeHandlerCanMove`, `MoneyIsKept`, `NotificationsBookPaidTrade`, `SweepsBookPaidTrade` |
| `alipay_pay` | 2 rounds or notifications with old answers, 2 QR attempts, 1 fault | `InexactMoneyNeverBooked`, `MoneyIsKept` |
| `money` | 2 refund requests, a query, 1 fault, fair | `NeverOverRefunded`, `FailMeansNotRefunded`, `RefundedMeansMoneyBack`, `EntryMeansMoneyBack`, `ReturnedIsEventuallyBooked` |
| `settling` | 2 partial refunds, a delivery, a query, 1 fault | `StampedRefundIsEntered`, `SomeSettlerCanMove`, `OnlyQueriesReopen` |
| `keyed` | 3 WeChat refund requests of 2 amounts under 1 key, notifications and queries, 2 faults | `OneUndecidedPerKey`, `ResponseIsBooked`, `AnswerIsStable` |
| `create` | 2 requests, 2 keys, 1 order, 2 faults | `OneOfferPerOrder`, `CreatedIsPayable`, `OpenTradeHasOpenAttempt`, `KeyIsKept`, `SettledAttemptIsFinal`, `KeyIsReleased` |
| `trust` | 2 certificates and a foreign one, a notification, a request, a download, teardown | `BelievedIsSigned`, `CacheIsGenuine`, `WindowSpentByOneRequest`, `NoUseAfterRelease`, `BelievedWhileValid`, `RequestComesBack` |
| `maintenance` | an order with a deadline, one WeChat does not know, an Alipay refund, a batch of 2, 1 fault | `TeardownIsClean`, `SettledAgrees`, `MissedIsRecovered`, `ExpiredIsSettled` |

Every module of a system has its type invariant, `TypeOK` (with parts in the
modules it composes). TLC finds no violation of it in these instances, and for
six of the seven systems it is proved; the runs spend their time on the rest.
`SettledIsFinal` on the Alipay route and `LedgerOnlyForSettled` follow from
`MoneyIsKept`.

Three runs expect a violation; each shows a disagreement between the code and a
comment or document (PROJECT.json, findings):

- `refunded_terminal` (`TECH_SPECS.md:246`): an Alipay trade that was refunded in
  full reports TRADE_CLOSED, and the next sync writes FAILED over the order's
  REFUNDED.
- `refund_final` (`RefundService.cc:1561`, "Writing FAIL over that would un-refund
  money"): a query reads the row in flight and an answer that says so, a
  notification settles the refund, and `RefundService.cc:1990` writes the old
  answer by primary key over REFUND_SUCCESS. Nothing but a query does this
  (`OnlyQueriesReopen`), and the sweep books the refund again, in the end for
  good (`ReturnedIsEventuallyBooked`). Between the two an acknowledged refund is
  not booked, and it is entered in the ledger already.
- `notice_taken` (`WechatChannel.cc:21`, "OpenSSL's i2s_ASN1_INTEGER pads them"):
  OpenSSL prints small serials in decimal and those of 128 bits and more with
  `0x` in front, and `normalizeSerialHex` turns that into `X...`. WeChat's serials
  are 160 bits long, so no downloaded certificate is filed, a deployed one serves
  no serial, and a notification is refused however often it is repeated. With
  serials below ten, such as the 1 of the tests, `NoticeIsTaken` holds of the same
  instance. The defect makes the client refuse more, never believe more: the
  properties of `trust` are proved for either printing, and the run has short
  serials because with long ones nothing would be believed at all.

Refinement. `BookedMoney` says what the books promise: an attempt settles
together with its entry and its order row, or joins money already entered;
nothing settled or entered is taken back; the order row speaks of money only
while some is on the books. `MoneyIsKept` is that specification with the rows
of `PaymentStore` in place of its variables. `Settlement` and `AlipayPayment`
implement it although they book by transactions of several statements, with
losers, faults and restarts at any of them; an update on a connection of its
own (the mutants) does not. `ClientKey` says what a key promises: one request
at a time works for it and answers, gives it back or leaves it taken; an answer
stands until the key lapses; no key lapses under a request at work. `KeyIsKept`
is that specification read off the rows of `Idempotency`, for `CreatePayment`
(run `create`, where it implies `OneAtWorkPerKey`) and for `KeyedRefund`, where
replays pass through the statements that store a response and free a key; there
the proof shows it.

Bounds. Two handlers of a kind are the smallest number that race, and a third
party (round, request, payer) comes along in most runs. `MaxAttempts` 2 gives
an older and a newer attempt, which is what matching must tell apart; a REFUND
notice can meet an attempt in flight only with two. `Total` of 1 to 3 with
amounts 1 and 2 gives full, partial and exceeding refunds. `MaxFaults` counts
failing statements, lost COMMIT answers and restarts; one is enough to separate
any two statements of a handler, and `create` and `keyed` allow two, so that a
retry may fail as well. Two deliveries, two rounds and two attempts at once are
beyond a short run: `callbacks` has two deliveries, `alipay_pay` two rounds,
`rounds` one of each, and the proofs are for any number. In `keyed` three requests
let two race and a third repeat after either; a second key would only add
requests that share nothing but the payment. One rotation suffices in `trust` and
`notice_taken`, because a certificate once replaced never signs again. In
`maintenance` the batch holds the pending rows of each kind, so no row is crowded
out and the two liveness properties hold without that excuse; the rows that never
settle compete for the batch and the faults. Deadlock
checking is off because the systems may end: all requests are answered, all
notifications acknowledged, the plugin is shut down. That nobody waits for a
lock for ever is stated by `SomeHandlerCanMove` and `SomeSettlerCanMove`, by the
guards of each handler's next statement. In their instances these guards agree
with `ENABLED` of the handlers' steps.

Fairness. A handler that has begun is served (weak fairness of its steps: the
event loop and PostgreSQL go on). The channel repeats a notification until it
is acknowledged, and the reconciliation timer asks again about what is in
flight. In `Settlement` these two are the premises `RepeatedNotifications` and
`RepeatedSweeps` of the two properties, so that each path is shown to suffice
alone; in `Refunding` they are part of `FairSpec`, as strong fairness per
refund, because one delivery slot or query slot is shared by all refunds and is
busy with others in between, while the real repeats do not depend on it. In
`CreatePayment` time passes and the timer purges (it does with
`reconcile.enabled`). In `trust` a request is answered or times out, as it does
with a timeout above zero; in `notice_taken` WeChat also repeats its notification
and answers downloads, and the download window opens again as time passes. In `Maintenance` the loop thread
runs what is queued and the timer ticks while it is armed; the properties of the
sweep are premised on the plugin staying up (`<>[]Serves(r)`) and on the row not
being crowded out of the batch for good. Faults are bounded, so from some point
on nothing fails. Nothing is assumed about new requests, the payer or the
channel's verdict, except that `Refunding` has the channel decide each refund in
the end. Notifications are shown to suffice with one delivery at a time:
deliveries that overlap for ever can go on dropping each other's reservation,
since the drop names no owner.

## Further disagreements

Met while modelling. The first group fails as a property of the models; the
name is the definition to check, in the module and instance given.

- `OneRefundPerKey` (`KeyedRefund`, run `keyed`): the snapshot of one request is
  lost, so its key is free while its refund is in flight; a repeat under the key
  passes the check for a settled twin (`RefundService.cc:765`), a notification
  settles the first, the repeat passes the check for one in flight (line 869),
  and a partial amount passes the sum: two live refunds under one key. Line 760
  says that "The SUM check inside the transaction provides atomic safety", which
  it does for the whole amount only. On Alipay it takes no race: a refund that
  timed out is booked as failed. What holds on WeChat is `OneUndecidedPerKey`.
- `CoveredOrderIsClosed` (`Refunding`, two refunds, one delivery, one query):
  two settlements each sum without the other's uncommitted row, neither closes
  the order, and later notifications and queries return at the settled-row check
  before they sum (`RefundService.cc:1951`). Line 2083 says that the sum "is what
  recovers the concurrent case".
- `FailMeansNotRefunded` (`Refunding` with `Channel = "alipay"`): every error of
  the Alipay refund call, a timeout included, is booked REFUND_FAIL
  (`RefundService.cc:1334`). Line 43: "Only a refund that certainly did not
  happen may be booked terminal." Such a refund also leaves its key answered
  with a failure, or free when the snapshot is lost, and can then be asked for
  again.
- `SettlingQueryPostsEntry` (`Refunding`, two partial refunds, one query):
  `insertLedgerEntry` looks for an entry by payment and type
  (`RefundService.cc:163`), so the second partial refund settled by a query posts
  none, where `sql/006_ledger_payment_income_unique.sql:15` calls partial refunds
  "legitimate repeats against the same payment_no".
- `PaidOrderStaysPaid` (`CreatePayment`, one request): `bookRefusedAttempt`
  writes FAILED to the order by primary key (`PaymentService.cc:400`), also when a
  QR attempt at the number has been paid meanwhile; line 1687 explains why the QR
  path does not.
- `AckedMoneyIsBooked` (`AlipayPayment`): `syncOrderStatusFromAlipay` answers its
  caller, and the handler answers Alipay, before the ledger entry is posted and
  the transaction commits (`PaymentService.cc:3125`). When either fails the
  notification has been acknowledged and is not repeated.
- `RefundedIsTerminal`, the same formula over `Settlement`: a round that read answer and refund sum before
  the refunds settled writes the order from REFUNDED back to PAID
  (`PaymentService.cc:2558`).
- `NeverOverRefunded` (`Refunding` with two `Payments`): the lock is on the
  payment a refund names, the sum over the order (`RefundService.cc:1002`).
  Refunds that name two settled payments of one order can both pass the check.

And, seen in the code and the reachable states:

- A round that finds its attempt settled already posts income
  (`PaymentService.cc:2582`, `:3114`), where
  `sql/006_ledger_payment_income_unique.sql:8` wants it only "on the branch where
  the pay_payment status UPDATE actually hit". With a second attempt booked
  between `refuseIfAlreadySettled` and `bookQrPayment` an order can get two
  PAYMENT entries for one trade; `BookedMoney` therefore allows `Enter`.
- `PaymentService.cc:494`: the hash of `createPayment` leaves out the user,
  although line 1337 says of the QR route that it "has to cover every field that
  changes the booking". The hash of `createRefund` leaves out the payment number.
- The sweep lists the newest rows first and each query may renew a row's
  `updated_at`: as many rows as a batch holds that never settle keep an older one
  out (`Crowded`). The comment at `ReconciliationService.cc:168` ("is recovered")
  holds only while the pending rows fit a batch. The refund sweep has no channel
  filter, so Alipay refunds in flight are asked of WeChat and take part of it.
- An order whose process died between its insert and the channel call is unknown
  to the channel: its query fails with 404 (`WechatChannel.cc:548`), the sweep
  returns on the error before it looks at the deadline
  (`ReconciliationService.cc:208`), and the order stays CREATED and listed for ever.
  `ExpiredIsSettled` is therefore about the orders the channel knows.
- Shutdown may call a channel's `onStop` while its `onStart` is still queued;
  the drain runs it afterwards.
- `ChannelRegistry.h` says registration "asserts when called after freeze()"; it
  logs and ignores.
- `AlipayChannel.cc:438` passes a timeout kept in milliseconds where seconds are
  expected.

## Proofs

TLC checks the instances above. TLAPS proves, for any number of attempts,
requests, deliveries, rounds, keys, orders, refunds, certificates, channels,
rows and faults:

| Module | Proved of the system |
|---|---|
| `SettlementProofs` | `TypeOK`, `PaidOrderIsBooked`, `AckedMoneyIsBooked`, `StampedMoneyIsBooked`, `LedgerOnlyForSettled`, `InexactMoneyNeverBooked`, `RefundedOrderIsCovered`, `SomeHandlerCanMove`, `SettledIsFinal`, the refinement `MoneyIsKept` |
| `AlipayPaymentProofs` | `TypeOK`, `PaidOrderIsBooked`, `InexactMoneyNeverBooked`, `SomeSyncCanMove`, the refinement `MoneyIsKept` |
| `RefundingProofs` | `TypeOK`, `EntryMeansMoneyBack`, `RefundedMeansMoneyBack`, `SomeSettlerCanMove`; on WeChat `FailMeansNotRefunded`, and for one payment `NeverOverRefunded`; `StampedRefundIsEntered`, `OnlyQueriesReopen` |
| `KeyedRefundProofs` | `TypeOK`, on WeChat `OneUndecidedPerKey`, `ResponseIsBooked`, `AnswerIsStable`, the refinement `KeyIsKept` |
| `CreatePaymentProofs` | `TypeOK`, `OneAtWorkPerKey`, `OneOfferPerOrder`, `CreatedIsPayable`, `OpenTradeHasOpenAttempt`, `SettledAttemptIsFinal`, the refinement `KeyIsKept` |
| `WechatChannelProofs` | `TypeOK`, `BelievedIsSigned`, `CacheIsGenuine`, `WindowSpentByOneRequest`, `NoUseAfterRelease`, `BelievedWhileValid` |
| `MaintenanceProofs` | `TeardownIsClean`, `SettledAgrees` |

Each module proves `Spec => []IInv` for an inductive strengthening of its
properties, one lemma per action (or group of actions that touch the same part),
and reads the properties off it.

*Settlement.* The properties speak of committed rows, but a COMMIT publishes
what earlier statements buffered, so `IInv` says what each transaction holds at
each statement (`DeliveryHolds`, `RoundHolds`). The argument that two handlers
do not undo each other is `LocksProtect`: a locked attempt is in flight and has
one holder, so what a handler has seen under its lock is still true at COMMIT.
`SettledMeansBooked` is needed because a delivery that finds the order's money
settled on another attempt acknowledges. The refinement follows from the same
invariant: only a COMMIT changes what `BookedMoney` sees, and what its
transaction holds at that point makes it `Collect` (attempt, entry and order
row), `Confirm` (attempt alone, on a booked order), `Enter` (the entry of a
settled attempt), `Restate` or a stutter. Two more facts are inductive on top
of `IInv` (`ClaimsInv`): money of another amount has stopped at a gate, so no
handler behind one holds a claim of it; and whoever is about to write REFUNDED
has weighed the claim, which stays weighed because settled refunds never
shrink. That nobody waits in a circle (`SomeHandlerCanMove`) follows the order
in which locks are taken: attempt, order row, ledger entry, reservation. Who
holds a reservation is at COMMIT (`StampsComeLast`, the one fact `IInv` does not
give); who holds an entry waits at most for a reservation; who holds the order
row, at most for an entry; who holds an attempt, at most for the order row.

*AlipayPayment.* The same locks, the same books (`LocksProtect`, `BooksAgree` of
`PaymentStore`) and the same steps of `BookedMoney`; `SyncHolds` is what a
round's transaction holds. `InexactMoneyNeverBooked` takes more here, because a
round picks among the attempts and one that finds none answers success without
having met the amount gate. `TradeHasAttempt` rules that round out: while the
trade can bring money, or has, some attempt is settled, or is in flight and
past the refusal that would close it. `WordsAreReported` ties a round's old
answer to what the trade has been. `SomeSyncCanMove` says of this route what
`SomeHandlerCanMove` says of the other, by the same order of locks.

*Refunding.* A status may be written long after it was decided, so `IInv` says
of every row, buffered write and answer in flight that it agrees with what the
channel has done (`Agrees`), and that nothing has left a request before its
call. Channel verdicts are final, so agreement survives any delay. `BookedInv` is
inductive on top of it: a delivery in its transaction holds a row in flight,
alone, so what it read of the row is true when it commits, and the stamp and the
entry appear together. A query holds its row too but has not read it under the
lock: it may commit an older answer, and is the only one that can
(`OnlyQueriesReopen`). Entries are never taken back, which is why a stamp
proves an entry (`StampedRefundIsEntered`) and not a status.

The sums of `Refunding` are folds over finite sets of refunds. What one refund
adds to a sum is proved once (`SumRecursion`, `SumAdd`, `SumRemove`, `SumMono`,
`SumSame`), by induction over the finite subsets of `Refunds`: the library's
induction theorem takes an operator and cannot be used, but that proper subsets
of a finite set are well-founded is a plain formula, and a least counterexample
gives the rest. `RefundedMeansMoneyBack` then needs `ClosersCounted`: a
settlement that sums long before it closes has counted money that is back and
that the channel never takes again. For `NeverOverRefunded` the obvious
candidate, that the live rows of the order fit its amount, is not inductive: a
query's old answer can reopen a row booked as failed after its amount was
reserved by another. `Claims` are the refunds whose money is moving or may yet
move; they are among the live rows, so the check under the payment's lock
(`CheckedSumFits`) covers them, and only a request's COMMIT adds one, while it
holds that lock alone (`OneInserter`). The theorem is about WeChat and one
payment, because otherwise it is false of the code: a timed-out Alipay refund
is booked as failed while its money may move, and refunds that name two
payments lock two rows (see "Further disagreements"). `SomeSettlerCanMove` is
the lock order again: refund row, order row, reservation; the holder of a
payment lock waits for nobody (`LocksFollowPlaces`).

*KeyedRefund.* A key may change hands many times: its request failed and freed
it, its snapshot was lost and it expired, the process died. `KeyHeld` says that
a request at work finds its own live row; `SharedKeyIsAnswered`, that two share a
row only to replay what is stored in it. So requests of one key pass the twin
checks one after the other. For `OneUndecidedPerKey`, `TwinInv` says that a refund
the channel has not decided is booked in flight, whoever writes its row, and that
one past the check for a twin in flight has none that is undecided: whoever could
have sent one in between would be at work under the same key.
`PlacesAgree` ties the wrapper's place to the flow's, since the flow of an
answered request runs on. For `KeyIsKept` a request works for a key while it
relies on a row without a snapshot (`WorksFor`); one that relies on a row with a
snapshot replays, and by `KeyHeld` what it stores is what is there.

*CreatePayment.* `OneAtWorkPerKey` is inductive only with `KeyHeld`: a request
at work finds its own unexpired, unanswered row, so nobody else can reserve the
key, fill the row or purge it. `OneAttemptPerOrder` rests on the unique order
number. The properties about the channel rest on `AnswerProves` and
`TradeMatched`: an open trade has an attempt whose call was not refused, hence
one that no refusal will close; and the attempt a notification settles is that
one, because an order has one attempt by this route. `KeyIsKept` is read off
`KeyHeld`: the row a request fills or clears is the one it reserved, and an
expired row has nobody at work.

*WechatChannel.* What is believed rests on what is cached at the moment of
verification, and what is cached on the checks of `setPlatformCert`; a
certificate once published stays published, so neither is taken back. That a
handler inside the client keeps it alive is the pin, a conjunct per handler.

*Maintenance.* The two halves have an invariant each. `WorkerInv` speaks of the
order of the posted tasks: a timer's arming comes before its disarming, so
running the disarming leaves nothing that arms it again; while a timer can fire
during shutdown its disarming is still queued; and the drain task is the last,
so the loop has run everything when it is done. `SweepInv` says that an answer
held by a sweep is still true if it is final: a trade that is paid or closed
stays so, and an old NOTPAY leaves a row pending, never closed.

Assumptions are those named in the modules: numbers are naturals, the workers
are the deliveries and rounds, the sets of handlers are disjoint, the refunds of
an order are finitely many, markers such as `"absent"` and `"none"` are no hashes
or refund numbers, a configured anchor or key is WeChat's. TLC
evaluates them in every run.

Only model-checked:

- liveness (`NotificationsBookPaidTrade`, `SweepsBookPaidTrade`,
  `ReturnedIsEventuallyBooked`, `KeyIsReleased`, `RequestComesBack`,
  `MissedIsRecovered`, `ExpiredIsSettled`): fairness is out of the prover's reach;
- `TypeOK` of `Maintenance`: `recent` is re-sorted with `SelectSeq`, which takes an
  operator the provers cannot instantiate. Its parts that the two theorems need
  are conjuncts of `WorkerInv` and `SweepInv`, and proved.

## Not modelled

- The idempotency wrapper of QR requests: the same service calls as in
  `CreatePayment` and `KeyedRefund`.
- The Alipay client (HTTP, one configured key), HTTP handlers other than the
  Alipay notification, auth: no state between calls. Their answers are the
  models' choices.
- Freshness of notifications (nonce and time window in Redis).
- Parsing of amounts, dates, addresses, currencies and configuration: which
  bodies pass is data; the branches for those that do not are there.
- `OnceCallback`: each handler in the models has one path to its answer.
- Generated ORM code, example applications, scripts, tests.

## Plan

Done, in this order: settlement of an order; refunds; idempotent creation; the
WeChat client; the Alipay sync; sweep and plugin; the abstract books and the
refinements; keyed refunds; the abstract key and its refinements; the proofs of
every safety property the passing runs check. Next: the idempotency wrapper of
`createQRPayment`, as a third implementation of `ClientKey`.
