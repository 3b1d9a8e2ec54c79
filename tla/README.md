# Internal system: a TLA+ model

This directory models the core of the internal system (a NestJS application over
PostgreSQL: stock, purchasing, receipts, payments, accounting, sales, users and their
sessions, the migrations of its schema), checks it with TLC and proves much of it with
TLAPS. Paths below are relative to the application's own
source directory, `src/src/`.

## 1. Inventory

The application is a set of stateless request handlers. All shared state is in PostgreSQL,
in READ COMMITTED transactions; there is no queue and no in-memory cache that matters.
A handler is a sequence of awaited queries, so between any two of them every other handler
may run. What keeps handlers apart is only what the code asks for: `forUpdate()` on a row
inside a transaction, a unique key, a foreign key, or the row lock that every `UPDATE`
takes until its commit. Much of the code asks for less than one expects: many operations
are a read, a check in JavaScript, and an `UPDATE ... WHERE id` that does not look again.

| component | state | operations | interacts with | must hold |
|---|---|---|---|---|
| stock ledger (`inventory/inventory.service.ts`) | `inventory_items.stock_qty`, `stock_movements` | `applyMovement` | called in the transaction of its caller | running balances exact, never negative, one movement at a time per item |
| stock requests (`stock/`) | `stock_requests.status` | create, approve, reject, fulfil; `adjustStock` | ledger; drafts a purchase request in the same transaction | fulfilled once, with its goods and its reorder draft |
| goods receipts (`inventory/claims.service.ts`) | `inventory_claims` | create, confirm, reject | `PurchaseOrdersService.receive`, ledger | confirmed once, atomically, within the tolerance |
| purchase requests (`procurement/purchase-requests.service.ts`) | `purchase_requests` | create, submit, decide, cancel, remove, reorder draft | rates, approval limits, purchase orders | rate and USD total together; approved within the limit; one order |
| purchase orders (`procurement/purchase-orders.service.ts`) | `purchase_orders`, their items | createFromRequest, receive, cancel, payment roll-up | receipts, payments, requests | status follows lines, payment status follows payments |
| payments and journal (`procurement/payments.service.ts`, `accounting/journal.service.ts`) | `payments`, `journal_entries`, `journal_lines` | record, recordIncome | order row, rates, settings | never over-paid; books agree with payments |
| rates, approval limits, settings | their rows | set, check, read | read before transactions | values in flight may be out of date |
| sales (`sales/sales.service.ts`) | `sales_documents` | create, update, setStatus, convertToInvoice, issueInvoice, recordReceipt, nextNumber | journal, rates, the connection pool | one live invoice per quotation, a held document stands, the receivable clears to exactly zero |
| sessions and tokens (`auth/`, `session/`) | `session`, `auth_tokens` | sign-in, refresh, logout, invitations and reset links, password and e-mail changes | the user row | a token is used once, a refresh rotates once, sessions follow the password |
| users and roles (`users/`, `admin/`, `permissions/`) | `user` | create, edit, deactivate, delete, override a password, on the admin screen and through the users API | sessions, tokens, Telegram | an admin is left; a password an admin chose is changed |
| Telegram (`telegram/`) | `telegram_updates`, `telegram_id` and `telegram_link_token` of a user | webhook, link by code or credentials, unlink | user row, Mini App guard | an update is processed once, a code links one chat |
| notifications (`notifications/`) | `notifications` | notify, mark as sent, mark as read | fire and forget after a commit; the Bot API | the row before the message, marked only if a message went out |
| migrations (`database/`, `../migrations/`) | the schema, which migrations were applied | migrate.ts, TypeORM's `up` and `down`, Prisma's | everything: keys, checks, triggers | every database comes to one schema; what left the triggers is done once |
| connection pool (`prisma/prisma.service.ts`) | connections in use | a query takes one, a transaction keeps one | every handler | nobody waits for ever |
| Mini App (`miniapp/`) | none of its own | its guard, login; the web pages' operations | the same services | as for the services |
| activity log, reports, OCR, files, mail, reference data, views | | | | nothing that another step decides by |

The hard behaviours, at their lines, are the `hazards` of `PROJECT.json`. They are of these
kinds: a check on a row that has changed by the time of the write (most of the code), and
its worst form, a whole user row written back as it was read; two ways to the same column of
which one does less (the users API beside the admin screen); two transactions that meet on
a row (ledger, claims, lines, orders, payments, invoices); a request of several statements
outside any transaction that stops between two of them; boundaries of rounding, tolerance
and roll-up; lock order, and a transaction that asks the pool for a second connection; an
external message that is redelivered, refused or lost; a schema that several histories of
migrations lead to.

## 2. Plan

Done, in this order:

1. `StockLedger`, the one component every movement of stock goes through; `StockRequests` over it.
2. `Receiving` over it, with `Receipts` as what confirming a claim promises.
3. `PurchaseRequests`, with `RequestLifecycle` as what its guards promise.
4. `Payments`, with the cash-basis journal.
5. `Sales` with the connection pool, and `Receivable` as what it promises.
6. `Accounts`, which composes `Sessions`, `Administration`, `TelegramLinks` and
   `Notifications` over the one user row of `Users`.
7. `Migrations`, over `LegacyMigrations`, `PrismaMigrations` and `Renumbering`.
8. Proofs about each of 1 to 6: every safety invariant, action property and refinement
   that a passing run checks, and for each failing run what has to be kept apart for its
   property to hold.

To do, most important first:

1. `Warehouse`: stock requests and receipts over one ledger, with fulfil's reorder draft
   flowing into `PurchaseRequests`, whose orders `Receiving` receives.
2. `Approvals`: limits that change while a request is decided (they are constants now).
3. `Recipients`: which event goes to whom, against the statuses the other modules move.

## 3. Modules

A *handler* is one request in flight. A per-handler variable (`at`, `rx`, `moving`) says
where it stands and what it has read; everything else is committed rows, or history that
only properties read (each is marked so where it is declared). An action is what
runs between two awaits that others can tell apart. The writes of a transaction stay in
the handler's own variable until the action named for the commit, so another handler sees
the old rows until then; a lock is held as long as the handler's place says so. `Abandon`
is an error or a crash at any await: an open transaction rolls back, an unlocked handler
never reaches its update.

| module | models | state and actions |
|---|---|---|
| `Money` | `MoneyService.toUsd`, the tolerance comparison | amounts are integers in units of the stored scale; division rounds half up |
| `StockLedger` | `InventoryService.applyMovement` | `stockQty`, `ledger`; `BeginMovement` (lock, read, sign check), `CommitMovement`, `RollbackMovement`; its own specification `LedgerSpec` |
| `StockRequests` | `StockRequestsService`, `adjustStock` | extends the ledger; `ReadForApproval`/`Approve`, `ReadForRejection`/`Reject`, `LockRequest`/`MoveStock`/`Fulfil`, `BeginAdjustment`/`CommitAdjustment`, `RefuseIssue` |
| `Receipts` | what `ClaimsService.confirm` promises | one indivisible `Confirm` of claim, line, order, stock and ledger |
| `Receiving` | `ClaimsService`, `PurchaseOrdersService.receive` and `cancel` | extends the ledger; `LockClaim`, `LockLine`, `LockOrder`, `RollUp`, `MoveStock`, `Confirm` are the transaction in the order it locks; `Reject` and `Cancel` are read then update |
| `RequestLifecycle` | what the status guards promise together | one step per operation |
| `PurchaseRequests` | `PurchaseRequestsService`, `createFromRequest`, `ApprovalThresholdsService.check`, `RatesService` | every operation is a read (kept in `at[h].seen`) and an update by id; a deleted row is not updated; the foreign key refuses deleting a row an order refers to |
| `Payments` | `PaymentsService.record`, `lockForPayment`, `rollUpPaymentStatus`, `JournalService` | `ReadRate`, `ReadTolerance` before the transaction; `LockOrder`, `RollUp`, `Record` in it; `RecordDirect`, `RecordIncome`; rate, tolerance and cancellation change meanwhile |
| `Receivable` | what invoicing promises of one receivable | `stage`, `due`, `owed`; `Bill`, `Collect`, `Settle`, and `Overtake` for a stale write |
| `Sales` | `SalesService`, `JournalService.post` with trigger T2, the pool | `docs`, `received`, `receipts`, `journal`; `create`, `update`, `setStatus`, `convertToInvoice` are a read (`ReadFor…`), a number (`TakeNumber`) and a write by id, which an edit or a mark makes from a connection it keeps while it waits for the row (`BeginUpdate`/`Update`, `BeginMark`/`SetStatus`); `Issue` and `LockInvoice`/`TakeReceiptNumber`/`Receive` are transactions that keep a connection; `overtaken` holds the documents a write landed on that would not pass its check any more |
| `Users` | the user row and its guards | `users`, `requests`, `at`; what the four modules below share |
| `Sessions` | `AuthService`, `WebAuthService`, `AuthTokensService` | `sessions`, `tokens`; one action per statement: `Mint`, `Refresh`, `Invalidate`/`IssueToken`, `CheckToken`/`ClaimToken`, `DropSessions`/`SetPassword`, `ProfileChange`; `excused` holds the sessions the code spares |
| `Administration` | `AdminUsersController`, `UsersController`, `UsersService`, the API's resetPassword and confirmNewEmail | on the admin screen `InsertUser`/`FlagUser`, the six statements of an edit, `CountAdmins`/`FindTarget`/`EndForDelete`/`RemoveUser`; of the users API `ReadForApiCreate`/`ApiInsert`, `ApiUpdate`, `ApiRemove`; and the two write-backs of a whole row. `chosenBy` of a row says who chose its password: the user, an admin on the screen, or an admin through the API |
| `TelegramLinks` | `TelegramLinkService`, `TelegramController` | `codes`, `updates`; `TakeUpdate`, `FindCode` or `Credentials`, `CheckTaken`, `LinkChat`, `Unlink` |
| `Notifications` | `NotificationsService.notify` | `rows`, `marked`, `delivered`; `Record`, `Send`, `MarkSent` |
| `Accounts` | the four over one user row | `Next`, `Abandon` and the properties |
| `Schema` | what a migration may do to a database | a database is the set of facts about it; `Execute` a statement, with what PostgreSQL refuses |
| `LegacyMigrations`, `PrismaMigrations` | the migrations, up and down | sequences of statements |
| `Renumbering` | the migrations that renumber documents and customers | functions on small sets of documents |
| `Migrations` | `migrate.ts`, and the triggers' work that services took over | `migrate` on every database the system has had |
| `MC*` | | the instances TLC checks |
| `*Proofs` | | the theorems |

`PROJECT.json` maps each definition to the lines it stands for. Left out of the models:
wording, the activity log (written after the commit, read by nothing), when the other
services call `notify` (`Notifications` lets any event happen at any time), permissions
(the handlers modelled are those that passed the guard), departments and other dimensions,
the request and order lines' contents.

What a stale write does is part of the behaviours and not hidden: where a property cannot
hold of a row such a write has landed on, the module remembers that row (`overtaken`,
`excused`, `disturbed`, `displaced`) and the property is stated of all others. A row enters
one of these sets only by the step that does the damage. Such a property therefore says
that nothing else does that damage; it does not say that the steps it excepts do none, and
some of them need no race: the profile page and the users API change a password and end no
session (§4 lists them).

Where a race of two requests is the only source of a violation, the property is the
implication instead: `LimitUnlessResubmitted` and `RateUnlessResubmitted` (no two
submissions of one request overlap), `ConvertedUnlessOverlapped` (no two operations on one
request do), `OneInvoiceUnlessOverlapped` (no two conversions of one quotation do),
`DeleteKeepsAdmin` (what the deletion counted is still so).

**Slips.** Operators under a comment that starts with `Slip:` are not part of any
specification. Each is a mutation of the action or helper below it, a bug someone could
plausibly write there (a lock left out, a sum read too early, a guard one status too
wide); substituted for that action, it makes TLC report the property `PROJECT.json` names
beside it. They keep the properties honest: each one can be broken.

## 4. Runs

`tlc -config <cfg> <module>`; every run is exhaustive for its instance.

| run | instance | shows |
|---|---|---|
| `MCStockRequests` | two requests for 2 of an item with 3 in stock, reorder point 1; one approver, one rejecter, two fulfillers, one adjuster (+2, -1), an adjustment started only while there are fewer than three rows | ledger exact and never negative, `FulfilledWasIssued`, `ReordersFollowIssues`, refinement of `LedgerSpec`, `HandlersFinish` |
| `MCStockRequestsTwice` | as above, requests for 1 | **fails**: `FulfilledOnce` |
| `MCReceiving` | an order of two lines (2 and 1), tolerance 50 %; claims of 1, 2, 2 and 1; two confirmers, a clerk who rejects and cancels | `NeverOverReceived`, `ReceivedOnce`, `ReceiptsAccounted`, `OrderFollowsLines`, refinement of `Receipts`, `HandlersFinish` |
| `MCReceivingUndone` | smaller | **fails**: `DecidedOnce` |
| `MCPurchaseRequests` | one foreign request of 9, rates 1 and 2 (9 or 5 USD), limits 5 and none; two submitters, two deciders, a canceller, a remover, two buyers, at most two orders | what holds whatever interleaves: `UsdFollowsRate`, `OrderHasRequest`, `OrderWasDecided`; unless two submissions overlap `LimitUnlessResubmitted`, `RateUnlessResubmitted`, and unless two operations do `ConvertedUnlessOverlapped` |
| `MCPurchaseRequestsSerial` | a foreign request and a reorder draft, every role on one handler | refinement of `RequestLifecycle` |
| `MCPurchaseRequestsOrders` | two buyers | **fails**: `OrderFromApproved` |
| `MCPurchaseRequestsLimit` | two submitters, one decider | **fails**: `ApprovedWithinLimit` |
| `MCPayments` | an order of 10, payments of 7 or 4 as the rate moves, tolerance 0 or 10 %; two handlers (symmetric), at most two entries | `NeverOverpaid`, `StatusExact`, `BooksAgree` |
| `MCPaymentsCancelled` | one rate, no tolerance | **fails**: `CancelledNotPaid` |
| `MCSales` | two customers, documents of 2 (1 before VAT) at 2 to the dollar, instalments of 1 or of the rest, so that the first is worth 1 USD of 1 and the last nothing; a pool of two; one document created, three in all, two receipts; two handlers, one a clerk and cashier, the other a converter, issuer and cashier | `EntriesBalance`, `OneInvoiceUnlessOverlapped`, `DocumentStands`, refinement of `Receivable`, `HandlersFinish` |
| `MCAccounts` | two admins, one of them linked, or one admin and a free seat; two passwords, two chats, two codes, two sessions, two tokens, three requests on two handlers; two edits an admin may ask for, two updates with the first code | `SingleUse`, `SessionsCurrent`, `InitialPasswordMustChange`, `CodeLinksOnce`, `RowsBeforeMessages`, `DeleteKeepsAdmin`; before it starts TLC evaluates the assumptions of `Migrations` and `Renumbering`, below |

Why these bounds: every race here is between two handlers over one row, so two of each
kind that can collide, plus one of each kind that can disturb them, reach it; quantities
are chosen so that one action fits, two together land exactly on the limit, and two others
pass it. Three requests are enough for `MCAccounts`: its properties are broken by two that
overlap after one that set them up. `MaxMovements`, `MaxOrders`, `MaxEntries`, `MaxDocs`,
`MaxCreated`, `MaxReceipts`, `MaxRequests`, `MaxSessions`, `MaxTokens` and `MaxCodes` only
end the growth of a history; they guard the start of a movement, a request or an insert and
forbid nothing before it. Deadlock
checking is off because every system here may stop: all documents are decided and nobody
has to send a request. That nobody waits for ever is `HandlersFinish`.

`ConversionsApart` holds throughout `MCSales`, which has one converter: behaviours in which
two conversions overlap satisfy `OneInvoiceUnlessOverlapped` without more ado, so a second
converter would add nothing to it. With the hypotheses of the others `MCPurchaseRequests`
has states on both sides.

The five failing runs are disagreements between the code and what its own comments,
messages and documents say. All have one shape, a status read outside the transaction (or
under no lock) and a write that trusts it; `findings` in `PROJECT.json` gives each the
lines and the quotation.

1. `approve` reopens a fulfilled stock request, which is then fulfilled again.
2. `reject` overwrites the confirmation of a claim whose goods are in stock.
3. Two purchase orders are raised from one approved request.
4. Two submits around an approval leave a request approved above its approver's limit.
5. A payment is recorded on a cancelled order.

The models contain more disagreements, which have no run of their own; where a property
excepts one by a hypothesis or a remembered row, it is named.

* Two submits around a conversion leave an order at another rate than its request
  (`OrderAtLockedRate` fails; `RateUnlessResubmitted`), although "the order inherits the
  rate the request locked" (`purchase-orders.service.ts:201`). Same cause as 4.
* A cancellation lands after the conversion and closes a request under its order, or a
  decision does and puts it back among the approved (`OrderedIsConverted` fails;
  `ConvertedUnlessOverlapped`), although "a converted request cannot be cancelled"
  (`purchase-requests.service.ts:321`).
* Two conversions of one quotation that overlap make two invoices of it (`OneLiveInvoice`
  fails; `OneInvoiceUnlessOverlapped`), although it "already has an invoice"
  (`sales.service.ts:439`). Same shape as 3.
* Two admins who delete each other leave none (`DeleteKeepsAdmin` asks that the count
  stands), although the screen is to "never leave the system with no way in"
  (`admin-users.controller.ts:397`). `DELETE /users/:id` and `DELETE /auth/me` do not ask at
  all, so the property is about the screen only.
* Without any race, `PATCH /users/:id` sets a password and ends no session (`excused`),
  although "an admin-set password invalidates ... every live session"
  (`admin-users.controller.ts:274`), and neither it nor `POST /users` sets the flag that makes
  the owner choose another (`chosenBy` is then `"api"`, of which `InitialPasswordMustChange`
  says nothing), although the flag is "set when an admin sets a password directly"
  (`users/dto/update-user.dto.ts:48`). Nor does `PATCH` end the sessions of an account it
  deactivates; the guards of the web pages look at the row each time and turn it away.
  The profile page, too, changes a password and ends no session.

Other races the models contain: a rejection of a stock request that lands after its
fulfilment; an approved request deleted by a removal that read it pending; an order
cancelled after the receipt that completed it; an invoice issued while an edit rewrites its
total, or voided by a `setStatus` that read a draft; a session that outlives its password
(a sign-in overtaken by the change, an edit that stops before it ends them); a role, a
deactivation or a forced change undone by `resetPassword` or `confirmNewEmail`, which write
back the row they read, the latter even a hash of a hash that no password matches; a link
code that two chats look up before either write clears it, and that links both; a `/link`
update that fails after its `update_id` was stored and is dropped as a duplicate when
Telegram sends it again. A chat that a soft-deleted user still holds is refused by the
unique key, not by the check, and so goes that way. `EntriesBalance` rests on the check
`journal_line_one_sided`: with four or more tiny instalments each rounded up, the rest that
the last one takes can be negative, and the receipt is refused.

### The schema

Migrations are not behaviours but functions, so what they must satisfy is stated as
assumptions, which TLC evaluates with `MCAccounts`:

* `LegacyReachesBaseline`: the TypeORM-era migrations, from wherever a deploy stopped, leave
  the schema that Prisma's baseline creates, as `migrate.ts` says, except for the default
  of `file.id` (`uuid_generate_v4` in one, `gen_random_uuid` in the other).
* `EveryDatabaseMigrates`: a fresh, a TypeORM-built and a partly migrated database come to
  one schema, no statement is refused on the way, and a second deploy changes nothing.
* `DownUndoesUp`: each `down` takes its `up` back. `LimitComesBackIfSeeded`: the data of one
  does not, when the manager's limit had been changed from the seeded 1000.
* `GuardsAreThere`: the keys and checks the other modules count on exist in the end.
* `MovedOnce`: the work the triggers on claims, stock requests and payments did is what the
  services do now, and no trigger is left to do it twice.
* `StartsAreSequential`, `CodesAndNumbersAgree`, over every set of up to three documents:
  after each renumbering numbers are unique, without gaps, hold the customer's code and are
  repeated by the journal memos, and the next number goes on from them.

### Fairness

`FairSpec` of `StockRequests` and `Receiving` adds strong fairness to `Continue(h)`, the
steps of a handler that has begun. Every awaited query returns (or fails, which is
`Abandon`), so a handler goes on when it can; strong, because a step may wait for a row
lock, and PostgreSQL serves the waiters of a row in a queue. Nothing is assumed of people:
no fairness obliges anyone to start a request, to set a rate, or a handler to fail.

`FairSpec` of `Sales` is the same but that a handler may also go on by failing: the pool
fails a query that has waited `connectionTimeoutMillis`, and a check that no longer passes
throws. Only these failures are in the fairness condition (`Fail`), never a crash. That is
what `HandlersFinish` turns on: with a pool of two, two receipts, or a receipt and a stale
edit or mark of the same invoice, hold both connections; the receipt waits for another one
to read its number, the edit for the receipt's row, and they end because the pool gives up
on the receipt. The slip without the time limit waits for ever.

The other specifications state no liveness and no fairness.

## 5. Proofs

For every number of handlers, documents and items, every quantity, rate and form:

* `ArithmeticProofs`: what the others need of numbers. `ToUsdNearest` and `ToUsdMonotone`:
  rounding half up gives the stored amount nearest to the quotient, and never more for a
  part than for the whole. `SumAdd`, `SameSum`, `SumInt`: the community modules' sum over a
  finite set is a fold, and one element more adds its value whichever element the fold
  happens to pick first.
* `StockLedgerProofs`: `LedgerCorrect`. `LedgerInv` is inductive: balances are running
  balances and not negative, an open movement was computed from stock that has not changed
  since (`MovementExclusive`), because the row lock keeps others from the item.
  `StockReconciles`: the stock is the opening stock plus the sum of the rows; it follows
  from the chain of running balances, along the rows.
* `StockRequestsProofs`: `TypeCorrect`; `ImplementsLedger`, each step is a ledger step or
  leaves the ledger alone, whence `BalancesRun`, `StockNotNegative` and `MovementsApart`;
  `FulfilledHasIssue` and `IssuedAsAsked` (which no run checks), for which `HandlerInv` ties the open movement of
  a handler to the request it is fulfilling. `DraftsFollowIssues`: the one-to-one map from
  an item's drafts to its low issues (`RaisedFor`) is extended by one pair at a commit that
  raises a draft and is left as it is by every other, because fulfil compares the reorder
  point with the balance it writes. `FulfilledOnceUnlessOverlapped`: while no approve and no
  fulfil of one request overlap (`ApprovalsApart`), an issued request is fulfilled or
  rejected for good and never issued again. So `approve`'s late update is the only source of
  the violation its run shows.
* `ReceivingProofs`: `TypeCorrect`, `ImplementsLedger`, `ConfirmAtomic`, `OverReceiptGuard`,
  `RollUpExact`, `ConfirmedOnce`. The invariant is `LockInv`: what a handler has read under
  its locks still holds of the committed rows (`Own`), and two confirmations hold different
  claims, lines and orders (`Apart`). With it the commit is exactly `Receipts!Confirm` and
  every other step maps to a step of `Receipts` or a stutter; the invariants are then proved
  of `Receipts`, where confirming is one step, and carried over. `NothingLost` is one of
  them: `Accounted` adds to it that the claims a line has received are finitely many, and a
  confirmed claim was not among them before (`Once`). `RejectionsStand`: whatever overlaps,
  the only decision undone is a confirmation, by a rejection; and while no rejection and no
  confirmation of one claim overlap (`RejectionsApart`) none is
  (`DecidedOnceUnlessOverlapped`), so that is what the failing run needs.
* `PaymentsProofs`: `TypeCorrect`, `OverpaymentGuard`, `StatusRolledUp`. `IInv` adds to the
  three: one handler holds an order (`Exclusive`), and what the holder has checked and
  summed still fits the committed payments (`Own`). Neither invariant is inductive without
  them: the guard looks at a sum that another commit could otherwise move. `BooksBalance`:
  an entry appended to the journal adds its amount to the sum of the target it refers to and
  to no other. The proof needs the word that income entries carry as their reference to be
  neither an order nor the direct payments, which `PaymentsAssumption` now says.
* `PurchaseRequestsProofs`: `TypeCorrect`; `TotalsFollowRates`, `OrdersKeepRequests` and
  `OrdersWereDecided`, by `HistoryInv`, which says what a handler carries between its read
  and its update: a total at its rate, a request that exists, a decision if an order is to
  come of it. `RowMove` lists every change a step may make to a request and the handler
  behind it; it is proved once per action and used by everything else. While no two
  submissions of one request overlap (`SubmissionsApart`), `ApprovalsWithinLimit` and
  `OrdersAtLockedRate`: `AmountInv` says that a request is submitted only while it is `Fresh`
  (not decided, being decided, ordered or being ordered), so the amount a decider or a buyer
  has read is still the request's. They are `LimitUnlessResubmitted` and
  `RateUnlessResubmitted`: two submissions side by side, as in the failing
  `MCPurchaseRequestsLimit`, are the only source of either violation. `ServedInTurn`,
  `OrdersFromApproved` and `OrderedStaysConverted`: while each request is served by one
  operation at a time (`OneAtATime`; any number of requests side by side), what an operation
  has checked is still so when it writes (`StillGuarded`), so each write is a step of
  `RequestLifecycle`, an order comes from an approved request, and as the lifecycle has no
  step out of converted, a request with an order stays so.
* `SalesProofs`: `TypeCorrect`, `EntriesAreBalanced`, `OneInvoicePerQuotation`,
  `DocumentsStand`, `SalesCollect`. `OneInvoicePerQuotation` is
  `OneInvoiceUnlessOverlapped`: `OneEach` says that a quotation has one invoice that is not
  void at most, and none while a conversion of it is between check and write; a step gives
  it one only in `Convert`, since a void invoice stays void and an edit keeps the source, so
  the hypothesis is needed for other conversions alone, and the guard for the check. For the
  others the invariant `IInv` adds to the types: what the holder of an
  invoice read under its lock still fits the row (`Fits`), one handler holds it
  (`Exclusive`), and `Tally`, which ties an invoice that no stale write has reached to what
  was received and to what its entries leave on account 1100. `StepWrites` then classifies
  the steps by the one document they touch (drafts, edits, marks, issues, receives), and both
  `DocumentsStand` and the refinement are read off that list: the receipt that settles takes
  `usd - received.usd`, which `Tally` says is all the ledger still shows, so it clears to
  exactly 0 for every rate and every split into instalments. `PaidIsCleared` says what the
  refinement comes to on the documents. `DraftsArePostable`: the figures of a document, and
  those a handler carries to its write, are always those of one form at one rate
  (`Figures`), so trigger T2 never refuses an issue for an entry that does not balance.
* `AccountsProofs`: `TypeCorrect`, `CredentialsOnce`, `SessionsFollowPasswords`,
  `InitialPasswordsChange`, `CodesLinkOnce`, `MessagesHaveRows`, `DeletionsKeepAdmin`.
  `StepMoves` sorts the steps into quiet ones and the few that write passwords, sessions,
  flags or tokens; each property has an invariant that only those can disturb. `SpentInv`: a
  spent token reads used or deleted, a spent refresh hash is below the session's.
  `SessionsInv`: while a handler is between ending sessions and writing the password, the user's live
  sessions are excused or the one it keeps. `InitialInv`: a handler about to flag a password
  is the one that set it. `CodesInv`: a code is on one profile at most, and on none once it
  has linked. `OutboxInv`: a row stands for every message delivered or still to be sent.
  The two about passwords cover the users API in that its steps enlarge `excused` and mark
  what they write. `DeletionsKeepAdmin` rests on `Checked`: a deletion gets past its check
  only if its target was no admin or some other admin was counted. If both are still so when
  it writes, either another active admin stays, or the target is none itself.

**No deadlock.** `NoDeadlock` of `StockRequestsProofs`, `ReceivingProofs` and `SalesProofs`
is the safety half of `HandlersFinish`, for any number of handlers: whoever waits for a row
waits, directly or along a chain, for a handler that can go on. `CanGo(h)` writes out the
guards of the fairness condition, since `ENABLED` is out of the prover's reach; on the
instances of the three passing runs TLC finds it equal to
`ENABLED <<Continue(h)>>_vars` (in `Sales` of `Continue(h) \/ Fail(h)`) in every reachable
state. In `Receiving` the waits go up in `Depth`, the number of the four rows a transaction
holds, so they cannot close a circle. In `StockRequests` a chain is at most two rows long. In
`Sales` the holder of an invoice waits for nothing but a connection, and that wait times
out; `OnlyThePool` says what the time-out is for: without it everybody waits only when
receipts, issues, edits and marks have every connection between them, and each is a receipt
that asks for a second one or waits for the invoice of such a receipt.

**Sums.** The induction theorems of the library take an operator as a parameter, which the
provers cannot instantiate. A property of a sum, or of a sequence's prefix, is shown here by
its smallest counterexample instead (`SmallestSubset`, `Least`): those come from `WFMin` of
the library, which takes a set.

The theorems assume only the named assumptions of the modules (`LedgerAssumption`,
`StockRequestsAssumption`, `ReceivingAssumption`, `PurchaseRequestsAssumption`,
`PaymentsAssumption`, `SalesAssumption`, and of accounts `UsersAssumption`,
`SessionsAssumption`, `AdministrationAssumption`, `TelegramLinksAssumption`,
`NotificationsAssumption`, `AccountsAssumption`) and the hypotheses named above: ranges of
the constants, positive quantities and rates, references that can be told apart, and which
roles make up the handlers. TLC evaluates them in every run.

Only model-checked: the three `HandlersFinish`, because liveness under fairness is out of
the prover's reach, and the existence of the bad interleavings behind the hypotheses
`ApprovalsApart`, `RejectionsApart`, `SubmissionsApart` and `OneAtATime`, which is what the
failing runs show. That of `ConversionsApart` is described above and has no run. The fifth, a payment on a cancelled order, has no such hypothesis: nothing
in the code keeps the two apart. What the migrations do is evaluated, not proved: it is a
computation on one given schema, with recursive operators.

## 6. Not modelled

* Reports, the dashboard and the lists only read; the activity log only appends, after the
  commit, and nothing reads it to decide.
* OCR, files, mail and the PDFs are input and output with external services. `setLanguage`
  of a sales document changes a column that only the PDF reads.
* Reference data (customers, suppliers, departments, accounts, categories) is edited one row
  at a time with no rule between rows.
* The Mini App calls the same services as the web pages; its requests are among the handlers
  of the models, its guard and its login are in `Users` and `TelegramLinks`. The bot's menus
  and replies change no state.
* Limits are constants of `PurchaseRequests`: one that changes while a request is decided is
  a hazard that no property covers.
* Outside `Sales` a query gets its connection at once.
* A user's row that is deleted between the read and the write inside one `update` of the
  repository; accounts that `add_sales_documents` seeds; a sequence that
  `CREATE SEQUENCE IF NOT EXISTS` finds (none of the databases has one); and
  `random_customer_code`, which would not return once all 9000 codes are taken.
