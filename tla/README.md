# NestShop: specifications and proofs

NestShop is the backend of a shop: a NestJS server over a MySQL database (Prisma), with VNPay for
payments, S3 (MinIO) for files, Redis/Bull for two queues, Firebase for carts and socket.io for events.
This directory holds TLA+ models of its parts, TLC configurations that check them on small instances,
and TLAPS proofs of what matters most for every value of the constants.

The code has hardly any tests of behaviour (the spec files check that a class can be made), no locks of
its own, and few transactions. Handlers are `async` functions: between two of their `await`s any other
request runs, and a process that ends leaves what was written. The models are about that.

Paths below are relative to the repository; `src/src/` of the map in PROJECT.json is its `src/`.

## 1. Inventory

| component | state | operations | what is hard | what makes it correct |
|---|---|---|---|---|
| Orders `api/orders` | orders, details, payment, ratings, `Product.quantityInStock` | create, pay, two VNPay callbacks, cancel (customer, administrator, refund), confirm, ship, unclaimed, complete, rate | check-then-act on the status; a refund over HTTP inside a transaction; late, repeated and reordered callbacks | stock is neither lost nor made up, and no unit is sold that is not there; goods leave only against money; a refund is booked only if it happened; orders follow a lifecycle |
| Order pricing (in `createOrder`) | local `discount`, the three sums of the order row | discount, cap, floor | fractions in Int columns, 0 meaning none, a negative discount | the price is the capped reduction, never below 10000 |
| Vouchers `api/vouchers` | vouchers, user_vouchers | create general/personal, delete; spent by createOrder | looked up outside the transaction that spends it | the remaining quantity and the orders add up |
| VNPay `common/external-services/vnpay` | outside the shop: payments taken and given back | URL, callbacks, refund | no delivery guarantees | – |
| Flash sales `api/flash-sales` | flash_sales, `salePrice`, `quantityInStock`, `currentFlashSale`; cron jobs in memory | create, delete, jobs at start and end | jobs lost on restart; stock set absolutely; no transaction | price and units are given back; a sale ends; jobs and orders add nothing to what negative numbers take from the stock |
| Sessions `auth` | one hashed token pair per user | four logins, refresh, logout, guards | refresh and logout race; stale row in handlers | a logged-out session stays out |
| Two-factor `auth/tfa` | `tfaEnabled`, `tfaSecret`, flags inside tokens | secrets by mail or QR, turn on/off, verify | flags copied from token to token | 2FA cannot be got around; nobody is locked out by it |
| Accounts `auth` | users by e-mail, Google or Github id | register, verify, first social sign-in | register deletes and re-creates | an address is verified by its own link |
| Pictures and storage `files`, `products`, `categories`, `blogs`, `users` | uploaded_files, picture rows, thumbnails; objects in S3 | upload, attach, remove, delete owner | four stores written in turn, `Promise.all`, cascades | a picture shown has its object; nothing is forgotten |
| Import queue `files/file.processor.ts` | Bull jobs; stock | upload a sheet; import its rows; mail the result | stalled jobs run again from the first row | a row is booked once a run; the mail tells what was booked; every upload ends |
| Mail queue `flash-sales`, `notifications/mail` | cron jobs and a loop in memory, Bull jobs | announce a sale, enqueue a mail per customer, send | a restart loses the loop but not the jobs; a stalled job mails again | one mail a run, only for announced sales; every customer's job comes to an end |
| Chats `api/chats`, `websocket` | rooms, messages, files of messages; who is online | send text or file (both sides), open a room, push | find-or-create; the newest message is read back after the write | what is pushed reaches the other side and, while there is an administrator, nobody else; no chat file is forgotten |
| Comments `api/comments` | product_comments in two levels, comment reports | comment, reply, delete (author, administrator), report | read, then write by id; cascades | replies and listed reports refer to what they were made about |
| Reports `api/reports` | system_reports, user_reports, notifications | file, decide, answer by mail and notification | mail and notification are not awaited; two decisions overlap | the reporter is told the decision that stands |
| Carts, favorites `api/shopping-carts`, `api/favorites` | entries in Firebase by product code | add, remove; swept by deleteProduct | the sweep is not awaited and precedes the commit | an entry of a deleted product is swept |
| Tags, addresses, guards, CASL, DTOs, helpers, configuration | rows of their own, or none | one call each | – | – |

Interactions: createOrder, cancelOrder, imports and flash-sale jobs all write `quantityInStock`;
updateProduct and flash-sale jobs write `salePrice`; status changes and decided reports call
notifications (database row, then a socket event); products, categories, blogs, users and chats call
`files`, which calls S3; deleteProduct also sweeps Firebase; comments and orders keep a product from being
deleted; flash sales fill the mail queue. There is no shared memory but the cron registry.

## 2. Modules

| module | models | composed with |
|---|---|---|
| `Orders` | orders.service.ts with vouchers.service.ts, importProduct, the gateway and createSpecificNotification | refines `OrderLifecycle` |
| `OrderLifecycle` | abstract: the life of each order, what is paid and reviewed | – |
| `FlashSales` | flash-sales.service.ts, with one action each for the imports, orders, cancellations and price changes of the rest of the shop | – |
| `Serving` | how many requests the server has in hand | `Sessions`, `Chats`, `Comments`, `Reports`, `Carts` |
| `Sessions` | auth.service.ts (tokens), tfa.service.ts, both strategies, password changes | `Serving` |
| `Accounts` | register, verifyAccount and first social sign-in | – |
| `Media` | files.service.ts, aws-s3.service.ts and all handlers that upload or remove pictures | – |
| `Bull` | a job of a Bull queue: its state, lock and stalls | `Imports`, `Notices` |
| `Imports` | importProductsFromExcel and file.processor.ts | `Bull`; part of `Queues` |
| `Notices` | notiFlashSale, the general notification and mail.processor.ts | `Bull`; part of `Queues` |
| `Queues` | the server with both queues | – |
| `Chats` | chats.service.ts, uploadFileToChat…, websocket.gateway.ts | `Serving`; part of `BackOffice` |
| `Comments` | comments.service.ts, createCommentReport | `Serving`; part of `BackOffice` |
| `Reports` | reports.service.ts with its mails and notifications | `Serving`; part of `BackOffice` |
| `Carts` | shopping-carts.service.ts, favorites.service.ts, the sweeps of deleteProduct | `Serving`; part of `BackOffice` |
| `Pricing` | lines 166–271 of createOrder | part of `BackOffice` |
| `BackOffice` | the server with the five parts above | – |
| `MC*` | symmetry sets and values for TLC | extend the module they are named after |
| `*Proofs` | theorems | extend module and TLAPS |

`Queues` and `BackOffice` put parts together that share no state. Every step is a step of one part that
leaves the others alone, so the product of all their states shows nothing the parts do not; `part` is
chosen at the start and only that part moves, which makes the state space a sum. `EveryPartBehaves` and
`QueuesCorrect` are the formal half of that argument: the server implements each part's specification.

### How the code is read

* One database call is one action; so are one call to S3 and one answer of VNPay. A handler with several
  calls occupies a slot of `req` (`work` in `FlashSales`, `up` for an upload pipeline in `Media`,
  `chatting`, `posting`, `judging`, `trading` in the back office, `run` and `sending` for the two workers),
  whose record is what the handler has read and will use. `at` names the call it makes next. An action's
  guard is the `where` clause or the check before the call.
* A Prisma batch `$transaction([...])` is one action. The interactive one in `cancelOrder` that awaits
  VNPay is `BeginRefund`, the gateway's answer and `CancelPaidCommit`; in between `Locked` and
  `ProductLocked` keep other writers of the order row and its products away, as InnoDB's row locks do. The
  callbacks are not held back by it: they update the payment row through the order, and letting them in
  at any time only adds behaviours. `CancelPaidCommit` writes status, stock and payment at once, and a
  transaction that dies writes nothing. A nested write of Prisma is a transaction of several statements
  under REPEATABLE READ: where what it reads matters (`Chats`), its snapshot and its write are two actions.
* A read with `include` is atomic. Ids are never reused (AUTO_INCREMENT); a unique index refuses.
* `width`, of `Serving`, is the number of requests in hand at a time. It is chosen at the start, so one run
  shows what holds of requests served one after the other (`Alone`) and what holds of interleaved ones.
* `Fail(r)`, and `ChatDies`, `PosterDies`, `JudgeDies`, `ClerkDies`, end a request at any `await`: an error of
  database or gateway, a time-out of a transaction, a server stopped. In `FlashSales` an exception in a
  cron callback, and `Restart`, end the process: jobs and handlers at work are gone (`Crash`); a notification
  that fails in `Reports` does the same, being an unhandled rejection. In `Media` storage and database may
  turn any call down.
* Tables are functions from ids to rows; columns no property tells apart are left out.

### Orders

`order` joins orders, order_details and order_payments (1:1 and created together). `issued`, `captured`
and `refunded` are VNPay's books. A `paymentCode` is null, the `vnp_TxnRef` of an attempt (then
transactionNo is stored with it) or a `vnp_TransactionNo`; `RefundReference` is `split('-')[1]` together
with transactionNo, and names a payment only for the second kind. Both callbacks may come late, twice, in
any order or never, for every captured attempt. Numbers that validation leaves free are integers of either sign:
the quantity of an import (`received` and `withdrawn` add up what imports brought and took) and of a general
voucher. Voucher dates and the minimum order price are left to
chance (`CreateOrderReject`).

`crossed` is a history variable: while a cancellation has read the payment of its order and not yet acted on it,
it remembers whether another request had that order in hand, or a callback came. `OrderlySpec` is `Spec`
restricted to steps that keep `Orderly`: from the first read that decides to the write, one request at a time has
an order in hand, and one at a time spends a voucher; requests about different orders still interleave, and
VNPay's callbacks come at any moment. The code has no such locks: the specification says which properties it would
have with them.

`OrderLifecycle` is the diagram of the statuses. Two things follow from it, and so hold of whatever implements
it: an order never goes back (`OnlyForward`), and what has been reviewed is Completed (`ReviewedIsCompleted`).

### FlashSales

One product. A worker is a handler or a job at work; the jobs of a sale are pairs in `jobs`. `units` is a
history variable: units not promised to a customer. Flash prices and quantities are integers of either sign, as
the DTO admits, and so are imports; `lowest`, a history variable too, is the lowest quantity an administrator has
put on sale, or 0. A job in the past is refused by the cron library (`JobsOf`). `Interleaved = FALSE` lets orders and time wait for
the handler at work: the runs "one at a time". The notice of a sale is in `Notices`.

### Sessions

One user. A pair of tokens is made and stored together, so a pair is an index into `pairs`, whose payload
is what the tokens carry; `otp`, which is no field of the token, remembers the secret whose code was
checked. Lifetimes of tokens and codes are left to chance: a user may always present one or not. The
guard's read and the handler's first decision are one action (`Start`).

### Accounts

One account per key. `told` remembers the ids whose owner was answered "Verify email successfully".

### Media

An upload `u` stands for its row in uploaded_files and its picture row, which are made with it: the
pipeline `up[u]` puts the object, makes the first row, makes the second. `Promise.all` answers on the first
failure and the other pipelines go on. `ordered` holds the products that a row with a restricting foreign
key (an order, a comment) refers to. Left out: slugs (but for `ThumbnailRefused`), equal keys of different
requests in the same millisecond. S3 refuses an empty list of keys.

### Bull, Imports and Notices

A `Job` is what Redis keeps: it survives the server. With the options the code leaves at their defaults, a
job is tried once, one job runs at a time, and a job whose lock is gone is found stalled and runs again from
its start, `MaxStalled` times at most. A lock may go while its run does (`FormLockExpires`,
`MailLockExpires`): `Returned` ends only the job of a worker that still has the lock. `catch` blocks that log and
go on are `GiveUp` and the last disjunct of `SendNotice`; they make Bull complete the job.

`Imports` reads a worksheet as a row of product codes (`Blank` and `Unknown` fail their check) and a header
that is right or not. `run.success` is the local list that the mail names. `Notices` keeps apart what is
memory of the server (`scheduled`, `toEnqueue`) from what is not; `cut` remembers what a death of the server took.

### Chats

The time of a message is the client clock when `prisma.user.update` or `prisma.chatroom.update` is called;
two messages may have the same one only if their calls overlap (`SameTime`). The nested write is
`TakeSnapshot` and `WriteMessage`, and what it reads back, `orderBy createdAt desc, take 1`, is any `Newest` of
snapshot and own message. `Push` hands that to the users of `Channels` who are online; `unseen` remembers those
who were not. `admins` are the users with the role Admin. No code of the repository gives or takes that role, so the
set is chosen at the start and then kept, and it may be empty: then socket.io's `to([])` addresses everyone
(`Addressed`) and a customer's message is broadcast. The slots of files not yet written are those of `CreateRoom`,
`UploadChatFile`, `CreateFileRow`.

### Comments, Reports, Carts

`Comments` has rows of product_comments with their root and the comment reports, whose comment a deletion sets
to null. `Reports` abstracts a report to its status and remembers what was mailed, and in `contested` which
reports two requests have had in hand at a time; comment reports are decided as user reports are. `Carts` has
one product code and the products that bear it one after the other, since entries of different codes never meet; `nr` and `since` order sweeps and entries, because Firebase
reads all users once and then writes each.

### Pricing

`discount` is rewritten by four statements; each is an action. Discounts are in hundredths, so that a
percentage of a price that is not a whole number is seen by `Whole`, as the Int columns see it.

## 3. Runs

| run | instance | shows |
|---|---|---|
| `orders_serial` | `OrderlySpec`, 2 slots, 2 orders for one unit, 1 voucher | one at a time per order and voucher: `StockConserved`, `VoucherOncePerUser`, `UserCancelsUnconfirmed`, `RefundedOrderIsCanceled` (while nothing died) and refinement of `OrderLifecycle`, with callbacks at any moment |
| `orders_race` | 2 slots, 1 order, a failure | what no race breaks: `NoUnitLost`, `PaidBeforeConfirmed`, `CompletedPaymentHasCode`, `RefundedPaymentIsReal`; `CancelFitsPayment` (unless `crossed`); and every request is answered |
| `vouchers_race` | 2 slots, 3 orders, 2 users, 2 units, a voucher of 2 uses or of -1, imports of either sign | `NeverOversold`, `VoucherLedger` |
| `prod_payment_refund` | 1 slot, 1 order | violation, see section 6 |
| `flash_serial` | 3 sales, time 0..3, 1 worker | `StockBooks`, `PriceRestored`, `FlashSaleEnds` |
| `flash_race` | 2 sales, 2 workers, 1 restart | `NeverOversold`, `NeverDearer`: flash quantities of 1 and -1, an import of a unit either way |
| `sessions` | width 1 and 2, 5 pairs, 2 secrets, 2 failures | `SecondFactorAsked` for both widths; `SecretInForceProved`, `LoggedOutStaysOut`, `AnsweredTokensWork` one at a time |
| `accounts_race` | 2 slots, 2 addresses, a social id, 4 ids | one account per key (`TypeOK`), `OwnLinkVerifies` |
| `accounts_replaced` | the same | violation, see section 6 |
| `media` | 1 product, category, blog, user; 2 files, 2 slots, a failure | `PicturesShow`, `NothingForgotten`, `BlogThumbnailAlive` |
| `queues` | 2 uploads of 2 worksheets, a product that may go; a sale, 2 customers of whom one has no address; 1 stall | `RowsBookedOncePerRun`, `ReportsTellTheBooks`, `MailedOncePerRun`; and `FormsSettle`, `CustomersAreTold` |
| `back_office` | width 1 and 2; with and without an administrator, 2 customers, 2 messages; 2 authors, 3 comments; 2 reports, 3 decisions; 2 lists, 2 products of a code; a death each; 41 totals and 73 vouchers | `MessagesReachTheirReaders`, `ChatFilesAccounted`, `ReferencesHold`, `DecisionMailed`, `DeadEntriesExplained`, `PriceIsAsked` |

"One at a time" is a claim about the code: what holds if the handlers that meet on one row did not overlap.
Where a property is lost as soon as they do, the weaker one that survives is checked in the race run next to it
(or the property says both, with `Alone`, `contested` or `crossed`), and the race is listed as a hazard.
Deadlock is not an error in any run: every client may stop, and the bounds end every behaviour.

### Bounds and why they are enough

`MaxAttempts`, `MaxImport`, `MaxOrdered`, `MaxFailures`, the number of orders (`OrderIds`), sales
(`Sales`), `MaxTime`, `MaxRestarts`, `MaxPairs`, `MaxSecrets`, `MaxId`, `Uploads`, `Forms`, `MaxMessages`,
`MaxComments`, `MaxCommentReports`, `MaxDecisions`, `MaxProducts` and the `Max...Deaths` bound what would
otherwise grow; each is named at its guard (`\* bound:`). All hazards listed are between two requests,
or one request and a callback, job or crash, on one shared row; two slots on one row show them. Two
orders, in the hands of two requests, compete for one unit and a voucher in `orders_serial`, where no request
dies: the theorems about the same five properties allow any number of deaths (`RefundedOrderIsCanceled` itself
speaks of runs without one). Three customers' orders compete for two units in
`vouchers_race`, where an import moves one unit in or out and a voucher may be made with a quantity of 2 or -1.
One payment attempt gives two callbacks that overwrite each other
and replace the code cancelOrder has read. Three sales in
`flash_serial` let one start when another ends. Five pairs allow login, switch, refresh and verification
in a race. Two files suffice to have one fail while the other goes on; with different names, as
`SameNames = FALSE` says (section 6). Two uploads compete for the one worker; two rows of one product let it go
between them; `MaxStalled = 1` is Bull's default, and lets a job run twice. Two messages of one room are what
can overtake; three comments are a root, its reply and a reply to that. Two products of one code let an entry
of the first meet the deletion of the second. The proofs remove the bounds for the properties they cover.

### Fairness

* `Orders!FairSpec`: strong fairness of each request's next step. A waiting writer gets its row lock
  (InnoDB queues them), the gateway answers or the request dies by the time-out of the transaction.
  No client is obliged to start anything, and VNPay is not obliged to call.
* `FlashSales!FairSpec`: time passes (strong, since in `flash_serial` it waits for handlers that others
  keep starting), jobs fire, a handler's database calls return. Nobody is obliged to order.
* `ImportsFairness`, `NoticesFairness`: a worker's awaited calls return, Bull hands out waiting jobs and looks
  for stalled ones (every 30 s), the enqueueing loop goes on. Weak fairness suffices: no other process
  keeps disabling these steps. The server is not obliged to live: a death ends the run and unlocks its job,
  which a server started again recovers. Whether the time of a notice comes first is left open.


## 4. Proofs

All theorems hold for every value of the constants that satisfies the named assumption of the module.

| module | theorem | inductive invariant |
|---|---|---|
| `OrdersProofs` | `TypeCorrect` | `Typed` = `TypeOK` and `RequestsRefer` (a request that works on an order refers to a stored one; orders are never deleted) |
| | `StockSafe` | `Typed` and `NeverOversold`: the stock is below zero by no more than negative imports took |
| | `PaymentSafe`, `PaymentCodeSafe`, `RefundSafe` | `PaymentInv`: besides the rows, every request between check and write, and every notice, has a paid order, and an accepted refund is on VNPay's books |
| | `LedgerSafe` | `VoucherInv`: a voucher not yet made is in no order (`Unmade`), one that is there is `Balanced`, and the orders are finitely many; requests interleave freely |
| | `UnitsSafe` | `NoUnitLost` with `Typed` and the finiteness of `Rows` (from `VoucherInv`). `UnitsOrdered` numbers the units of each order, so that the sum over all orders is the cardinality of a set. Every step leaves the units where they are, takes those of a new order, returns those of a canceled one or lets one arrive (`UnitsMove`); the cardinality theorems say what each does to `Held` (`HeldStep`) |
| | `UserCancelSafe` | `RequestsReady` (`OrderlySpec`): what a handler checked of its order still holds when it writes |
| | `UnitsExact` | `RequestsReady`: the order a cancellation restocks still has its units (`OrderlySpec`) |
| | `LifecycleImplemented` | `RequestsReady`, `PaymentInv` and `Billed` (only placed online orders are billed): every step is a step of `OrderLifecycle` or a stutter (`OrderlySpec`) |
| | `OrdersOnlyForward` | none of its own: proved of `OrderLifecycle` and inherited through `LifecycleImplemented` |
| | `RefundCancels` | that of `LifecycleImplemented`, and after the refund the transaction that cancels is the request's next step (`OrderlySpec`) |
| | `VoucherSafe` | `RequestsSpendable` (the voucher a request looked up is still usable), `VoucherInv` and `Once` (`OrderlySpec`) |
| | `CancelSeesPayment` | `MeetingsSeen` (whoever meets a cancellation on its order is remembered) and `PaymentsAsRead`: what cancelOrder read of the payment of an order not crossed is still so; of `Spec`, with all its races |
| `FlashSalesProofs` | `FlashTypeCorrect`, `FlashStockSafe` | `Sound`: rows and workers' copies never put more on sale than there was (`RowsFair`, `WorkFair`), so what a job adds back is never negative; and nothing a job will set the stock to is below `Level`, which imports and new sales lower but nothing raises |
| | `FlashPriceSafe` | `Sound` and `Cheap`; assumes that updateProduct sets no price above the first |
| | `FlashBooksSafe` | `Orderly` (needs `Calm`): flash sales do not meet (`Apart`), no job is late (`JobsAhead`), the current sale has begun and will end (`CurrentRuns`), what the worker read is still so (`WorkersKnow`) |
| | `FlashPriceRestored` | `Orderly` and `Kept`: the price a flash sale puts back is the first; assumes `Calm` and that nobody updates the price |
| `SessionsProofs` | `SessionsTypeCorrect`, `SecondFactorSafe` | `Sound`: every payload with tfaVerified, stored or about to be, has a checked code |
| | `SecretInForceSafe`, `LogoutSafe`, `AnswersWork` | `AloneInv`: one at a time, what a handler has read and will write fits the user's row (`Fits`), and so does the stored pair (`PairFits`) |
| `PricingProofs` | `PricingTypeCorrect`, `PriceCorrect` | `Sound`: what `discount` is worth before each statement (`Progress`) |
| `AccountsProofs` | `AccountsTypeCorrect`, `OwnLinkSafe` | `Sound`: a confirmation under way came in through a link that was mailed (`VerifyLinked`); links belong to ids given out, so a new account is never told of |
| `MediaProofs` | `MediaTypeCorrect`, `PicturesSafe` | `Sound`: under different names every upload has its own key (`OwnKeys`), a stage of the pipeline implies its object (`Pipelines`), and a removal about to delete objects has deleted their rows (`Removals`) |
| | `NothingLost` | `FilesKept`: while nothing failed, objects, rows and pictures that do not belong together are those of a pipeline or a removal under way (`Accounted`, `Strays`) |
| | `BlogThumbnailSafe` | `BlogsKept`: the thumbnail a request will take away, or has put, is not the one the blog keeps (`RemovalFits`, `UploadFits`) |
| `QueuesProofs` | `ImportsTypeCorrect`, `RowsBookedCorrect`, `ReportsCorrect` | `Inv`: a run works on a job that has begun (`RunOfItsJob`); rows before the one at hand are booked once in this run, later ones not (`RowsBehind`, `RowsAhead`); a job not begun has booked nothing (`Fresh`) |
| | `NoticesCorrect` | `NoticesInv`: the mail being sent is of a begun job (`SendingItsJob`), jobs are of announced sales (`JobsOfNotice`), one not yet begun has mailed nothing (`MailAhead`) |
| | `QueuesTypeCorrect`, `QueuesCorrect` | the server implements the specification of either queue and so has their properties |
| `BackOfficeProofs` | `CommentsTypeCorrect`, `ReferencesCorrect` | `CommentsInv`: ids are given out in order (`CommentIds`), what a poster has found is there or its write is refused (`PostingHolds`) |
| | `ReportsTypeCorrect`, `DecisionsCorrect` | `ReportsInv`: nobody else decides on an uncontested report in hand (`OneJudge`); the last mail of such a report is of its decision unless a decision is under way (`LastMailed`); a notification follows the mail (`RungWasMailed`) |
| | `CartsTypeCorrect`, `DeadEntriesCorrect` | `CartsInv`: a sweep not yet finished, or cut short, stands for each entry older than it (`SweptOrKept`); one at a time no entry is younger than its product's sweep (`EntriesInTime`) |
| | `ChatsTypeCorrect`, `MessagesCorrect` | `ChatsInv`: of the newest messages of a room, the one written first is pushed by its own request (`NewestOnItsWay`); messages are written by requests that were started (`MessagesCounted`); `PrivateMessages` is about a server with an administrator |
| | `ChatFilesCorrect` | files of chats and messages that carry them are counted (`Holding`, `FileMessages`) with the cardinality theorems |
| | `EveryPartBehaves`, `BackOfficeTypeCorrect`, `BackOfficeCorrect` | the server implements the specification of each of its five parts and so has their properties |

Theorems about one request at a time say which requests must not overlap, as narrowly as they can: in
`OrdersProofs` those about one order, and those spending one voucher (`OrderlySpec`), with any number of requests
at work on the others, or nothing but the orders that two actors met on (`crossed`); in `Reports` those about one
report (`contested`); in `Chats`, `Carts` and `Sessions`, whose
models have one room, one code and one user each, all of them (`Alone`, the width is 1). `Calm` in
`FlashSalesProofs` is one worker, `Interleaved` false, no restart, and every sale lasts (`MinLength > 0`), as in
`MCFlashSalesSerial.cfg`; each part is needed, a restart for instance loses the job that gives the units back.
They say that the handler is right on its own, and what it relies on; the interleaved runs show what breaks when
two overlap (section 6).

The safety properties are not inductive because a handler acts on what it read earlier: each invariant
says of the requests under way what the property says of the tables, that what they have read stays true, or
true enough, until their next step. The proofs have one step per action; a property over tables an action
leaves alone follows from a lemma (`UnchangedKept`, `WorkUnchanged`, `GotoType` and the like).

Only model-checked is liveness (`RequestsAnswered`, `FlashSaleEnds`, `FormsSettle`, `CustomersAreTold`), which is
out of the prover's reach. Every other property of a passing run is a theorem.

No module uses a RECURSIVE operator, so every module can be proved about. Units are counted as the members of
a set and not summed with a fold: a fold is a recursive definition, whose laws need an induction the prover
cannot instantiate. The type invariants of `Orders`, `FlashSales`, `Sessions` and `BackOffice` are theorems and
are not checked again by their runs.

## 5. Not modelled

* Reads that only answer: lists, details, statistics, `getRecentMessages`.
* The websocket handshake (`Push` reaches any set of those addressed, whoever is online) and the
  echo `handleMessage`.
* Authorization: guards and CASL decide on the row already read; where a handler's refusal matters it is
  its guard (`UserMayCancel`, `MayPost`).
* Formatting, hashing, signatures, query strings, mail templates, DTO validation.
* Attributes, tags and addresses: one call per handler, on rows nobody else writes.
* The 32 bits of Int columns: sums and prices in `Pricing`, like stock and quantities, are unbounded integers.
* Start and end dates of vouchers; product variants; rows of comments and ratings beyond what others refer to.
* A payment made after its order was canceled: it is booked as Completed and no handler refunds it
  (a hazard in PROJECT.json). The money stays in `captured`; that it be given back is a missing feature.

## 6. What the models showed of the code

Checked as violations:

* `prod_payment_refund`: the callback marked as the one for production stores `vnp_TransactionNo` as
  paymentCode and no transactionNo; cancelOrder then makes a refund request out of two `undefined`s, and the
  order is canceled without its money.
* `accounts_replaced`: register deletes an account by id that it read as unverified; a confirmation in
  between was answered with success.

Found by loosening a bound, and kept as hazards, each with what is still claimed there, if anything: two cancellations
restock twice; a customer cancels an order confirmed meanwhile; a confirmation checked before a
cancellation revives the order; two createFlashSale calls overlap; a voucher is spent twice; a sale with
start equal to end never ends; a cancellation overwrites a payment that completed after it was read, and
the money is neither booked nor refunded; files of one name in one request share a key, after which a row shows the
other's picture. Two messages of one room that overtake each other make the newer one be pushed twice and the older
one not at all; a stalled upload books its rows twice; a restart between a sale's notice and its last
customer leaves the rest without mail; a cart entry of a deleted product stays when its request overtook
the sweep.

Numbers without a minimum go through: a negative import lowers the stock below zero (import-product.dto.ts:11-13,
products.service.ts:737), a negative flash quantity passes the one check there is and becomes the stock of the
product while the sale runs (create-flash-sale.dto.ts:9-15, flash-sales.service.ts:74, :180, :190), and a general
voucher can be made with less than no uses. `NeverOversold`, in `Orders` and in `FlashSales`, says that orders,
jobs and races add nothing to that. While no user has the role Admin, which no code of the repository gives, what
one customer writes is broadcast to the others (chats.service.ts:159-168 and :225-234, websocket.gateway.ts:28);
`PrivateMessages` claims privacy of a shop that has an administrator.

Met while reading: createProduct without images fails on spreading `undefined`, and without thumbnail on
`productThumbnail.id`, the product row stored; deleteCategory without picture answers with an error after the
category is gone; deleteProduct of an ordered product fails after its pictures are gone; a flash sale that
starts within two minutes is answered with an error although row and jobs exist.


## 7. Plan

Done: every component with state of its own between two calls, with the theorems of section 4. Left:

1. `StockRoom`: an abstract stock that `Orders`, `FlashSales` and `Imports` share, each shown to implement its
   side of it; today `FlashSales` has one action each for what the others do to the product.
2. Several products and product variants in `FlashSales` and `Carts`.
