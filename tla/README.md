# Verification of the storefront platform's backend

TLA+ models of `backend/app` and its database: what several requests make of the
rows they share, and what one tenant's request can reach of another's. Each
module names the source it translates; `PROJECT.json` maps every definition to
its lines, lists the components, and says at which line each hazard bites.

All handlers have one shape, and so have the modules. A request runs in one
PostgreSQL transaction at READ COMMITTED (`core/dependencies.py`, `get_db`:
commit on success, rollback on any exception). Only the database, the Redis
counters of the AI quota and the row locks a request takes on its way order two
requests. So an action is one SQL statement or Redis command of one request, a
plain `SELECT` sees what is committed, an `UPDATE` takes its row's lock until the
transaction ends and tests its `WHERE` clause on the committed row, and a
`Rollback`, `Crash` or `Abort` may come between any two statements. The larger
modules join statements between which nothing another request does can be told
apart, and say so in their heads.

## Inventory

| component | state | operations | what is hard | what makes it correct |
|---|---|---|---|---|
| numbering (`services/numbering.py`) | orders, donations, pledges; advisory locks by hashed key | next number, insert, commit | MAX select and insert are two statements; hash collisions; rollback after a number is taken | numbers 1, 2, 3, ... per series, no gap or duplicate |
| orders and stock (`services/order_create.py`, `inventory.py`) | stock_qty, track_inventory, stock_movements, orders | storefront and POS sale, cancel, restock, edit | two lock orders; partial failure of a cart; restores guarded by an unlocked check; edits under a sale | never oversold; an order takes all or nothing; a cancellation returns what was taken, once |
| status workflows (`api/v1/status_transitions.py`, POS cancel) | status, fulfillment_status, audit_events | four transitions | validated on an unlocked read, written by id | no step skipped; audit and stock agree |
| till shifts (`api/v1/pos.py`) | pos_shifts, orders.shift_id | open, close, sale, cancel | the open shift is read and used later; cash is summed before the close | one open shift; the count is right |
| AI quota (`services/ai_quota.py`, both gateways) | Redis counters, conversations, usage log | rate, reserve, call, adjust or roll back, save | provider failures, month end, crashes between Redis and the database | the quota holds; failures are free; conversations stay apart |
| accounts (`api/v1/auth.py`, `members.py`, `tenants.py`, `platform_admin.py`, `core/dependencies.py`) | users, tenants, tenant_members, audit_events | login, provisioning, invite, accept, remove, change role, create, suspend | counts, roles and invitations read without a lock; unique keys met late | an owner remains; only the entitled are served; refusals are true |
| schema (`alembic/versions`, `app/models`) | tables, columns, constraints, policies | 37 revisions up and down | written by hand twice, as migrations and as models | each downgrade undoes its upgrade; no table unguarded; models and schema differ as known, no more |
| tenant isolation (policies, `get_db_with_tenant`, every endpoint) | rows, connection settings, the pool | every endpoint and worker task | pooled connections, commits in the middle, ids from outside, platform administrators | a request stays in its tenant |
| catalogue (`api/v1/products.py`, `product_variants.py`, `services/catalog_codes.py`) | products, variants, their codes and names, the categories they are in | create, edit, delete, bulk delete; deletion of categories | uniqueness spans two tables; one 409 for whatever the database refuses; foreign keys of the ledger; cascades and ON DELETE SET NULL | codes name one item; the ledger keeps its items; a 409 has a reason |
| submissions (`api/v1/public_storefront.py`, `services/customer_link.py`, `workers/`, `notification_preferences.py`) | customers, submitted rows, settings, Celery queue | submit, link, notify; edit customers and settings | check-then-insert; enqueue after the commit; worker failures | the right customer; at most one message per channel, of committed rows |
| analytics (`services/analytics_ingest.py`) | visitors, sessions, events | ingest a batch | racing batches; upserts whose conflict target is not the primary key | one view per window; the first source sticks |
| categories, storefront settings, media, reports | one row per request, or none | CRUD, reads | | as part of tenant isolation; the deletion of a category, under the edits of its products, in `Catalog` |
| AI provider, identity service, frontend | | | outside of the repository's backend, or I/O | |

Interactions: a sale calls numbering and stock in one transaction (`OrderStock` and
`Numbering` share the advisory lock `Number`); a POS sale joins a shift
(`PosShift` takes the sale itself as one commit); a cancellation is a status
transition that calls the stock restore (`OrderLifecycle` says *when* stock is
restored, `OrderStock` *what*, `Catalog` whether the items are still there); a
submission calls the customer link and, once committed, the worker
(`Submissions`); the policies the migrations leave at head (`Migrations`) are the
ones `Isolation` evaluates.

## Modules

**SequenceCounter / Numbering.** `Numbering` is `_next_number` and its callers:
`AcquireLock` (`pg_advisory_xact_lock(hashtext(key))`), `ReadMax`, `Insert`,
`Commit`, `Rollback`. `LockOf` is any function from series to locks, so colliding
hashes are covered. `SequenceCounter` is what the docstring promises: every commit
issues the next number.

**StockBook / OrderStock.** `OrderStock` is stock, statement by statement. `stock`
is committed, `new` what the holder of a row has written; `holder` is every lock
(rows, orders, the number). A storefront sale goes `ReadCatalog`, the decrement
loop (`SkipLine`, `TakeLine`, `OutOfStock`), `LockNumber`, `InsertOrder`; a POS
sale locks the number *first*, with the loop last. A cancellation goes `ReadOrder`,
`MarkCancelled` (locks the order), then per line `CheckLine` (tracking now,
and the idempotency select) and `PutBack`. Edits write only columns that differ
from what they loaded, as the ORM does. `snap` is the session's identity map: a
product loaded once is not read again. `DeadlockAbort` is PostgreSQL's detector.
`StockBook` is the abstract promise: units are on the shelf or in an order, and
sales, cancellations and restocks are atomic. The unique index on
restore movements is deliberately absent: the module shows that the loop does
without it.

**OrderLifecycle.** The transition tables of orders, donations, pledges and
fulfilment, and the pattern all four handlers share: `Load` (unlocked),
`Refuse`, `Update` (by id), `Commit` (status, audit row and restore together).

**PosShift.** Open, close, sale and cancellation. A sum of cash is modelled as the
set of sales it adds up, so that a wrong sum cannot be right by accident.
`IndexBusy` is the wait an insert has on the partial unique index. `before[t]` is a
history variable: what had succeeded when `t` began.

**AiQuota.** Both chat pipelines around the shared monthly counter. Redis
commands take effect at once and survive a failed request; database writes are
private to it. `booked` and `settled` are history: in which month's key a chat was
reserved, and in which it was adjusted or given back.

**Accounts.** Users, tenants and memberships, and the requests that change them.
Every request runs `get_current_user` (with auto-provisioning), then the
membership, the tenant and the role; `wr` is what its transaction has written and
nobody sees yet. `entitled` and `stale` are history: what was true at some moment
of the request, and whether memberships changed under it. `audit` has its events in
the order of their commits, and each with the stamp its readers order it by: `at` is
`created_at`, the start of the transaction (`began`), so that a request that began
first and commits last has the earlier stamp. `RequireRole` compares the role the
request loaded first. The session's identity map holds objects weakly, so a later
statement may load a fresher one; the model keeps the first, the staler choice.

**Schema / Models / Migrations.** A schema is a set of objects (table, column,
NOT NULL, foreign key, unique index, check, policy, and the type of a JSON
column), a revision a pair of lists of statements; `Schema` holds the
37 of `alembic/versions`, `Models` the objects the 26 ORM classes declare and, in `KnownDrift`, those the
migrations never make.
`Migrations` runs the chain up and down, over sets of rows that can make a
statement fail (a NULL for a column that becomes NOT NULL, a value a check
excludes). PostgreSQL refuses a statement on what is not there, and a drop of
what something else needs. `MigratorBypassesRls` says whether the migrating role
is subject to the policies it creates.

**Isolation.** Every endpoint and worker task is the list of its statements: which
guarded table, which command, how its rows are selected (`Endpoints`). An id of the
body that no statement looks up, but an insert or update stores as a foreign key, is
a `refer`: PostgreSQL checks foreign keys outside row level security, so that any
tenant's row will do and only an id of none is refused. The policies at head are taken from `Schema`. `settings[n]` are the settings of a
pooled connection; `SET LOCAL` ends with the transaction and leaves empty
strings. The properties quantify over callers, headers and ids of both tenants.

**Catalog.** Products, variants and the code they share (SKU and barcode follow the
same rules, so one kind stands for both), the ledger's and the orders' references
to them, the cascade from a product to its variants, the names and categories of products,
and the statements of every request that reads one and writes another. What the body
of a create or an edit sends besides the code (a name, a category, a null for a
required column) is chosen at the flush, where alone it matters: there each
constraint refuses what it must (`Violates`), and all refusals are one 409. The
deletion of a category sets it to NULL in its products.

**Submissions.** A visitor's order, donation or pledge: the customer link (two
selects, an insert in a savepoint, two selects again), the save with its
attribution row and commit, and the tasks enqueued after it; workers that read
the settings, the row and send on two channels; the staff that edits customers
and settings. `request[c].touched` and `.stale` are history: a change by the
staff since the request came.

**Attribution.** The ingest of a batch: two upserts, each of which looks for its
conflict target first and then meets the primary key, the search for a recent
view, the events and the commit. `offered` and `.fresh` are history.

Prices, currencies, message texts, prompt building and HTTP bodies are left out.
All modules but `Isolation`, `Accounts` and `Attribution` model one tenant and
requests that have passed their schema; `Isolation` is why one tenant is enough.

## Runs

| run | question | what it shows |
|---|---|---|
| `numbering` | Do three handlers over three series, two on one lock, number without gaps, and does each end? | `GapFree`, `ImplementsCounter`, `HandlersEnd` |
| `stock_trade` | Do racing sales, cancellations and restocks amount to a serial execution? | `Serializable` (refinement of `StockBook`); each line restored once; books balanced over both channels; sales at the till alone never deadlock |
| `stock_edit` | And with edits of stock and tracking in between? | stock stays non-negative; every request ends, deadlocks being broken |
| `lifecycle_races` | Can racing requests skip a workflow step, or make stock and audit disagree? | no; a step may be repeated or overwritten, none is left out |
| `shift_count` | One open shift, sound counts, no sale into a shift closed before? | yes, with the counts right about all that was over when the close began |
| `quota_races` | Does the hard limit hold through races, failures, crashes and a month's end? | up to what answers exceed their estimates; failed calls are free; conversations stay apart |
| `accounts_races` | What do logins, invitations, removals, role changes and suspensions make of each other? | a tenant loses its last owner, and a removed member comes back, only by a request that read what another then changed; nobody is served without entitlement; the latest event of the audit trail tells the state, unless a change that began earlier committed later; refusals are true |
| `migrations` | Is every revision what its neighbours take it for, from every state of the data? | up and down are inverse; only rows stop a downgrade; every tenant table is guarded at every revision; models and schema differ in `KnownDrift` and in nothing else |
| `isolation` | Does every endpoint stay in its tenant, whoever asks, with whatever header and id, on a used connection? | yes, in what it reads, writes and looks up; three endpoints alone store a reference they have not looked up; an error is one of five known cases |
| `catalog` | Do deletions, edits, sales and cancellations keep the ledger and the codes? | yes; codes are shared only by a race; a 409 has a reason that is real when it is given; only an order without movements can become impossible to cancel |
| `submissions` | Is the row linked to its customer, and told of once, whoever races or stops? | yes; failures and lost chats need a change by the staff in between; every task ends |
| `attribution` | Do racing batches keep one view per window and the first source? | yes; a batch fails only over an id of another tenant or one stored meanwhile |

Several properties name the exceptions the code has (`OwnerlessOnlyIfStale`,
`CodesAreSharedOnlyInARace`, `FailuresAreKnown`, ...): they say that nothing but the
named interleaving leads there, and the next section says that the exceptions do
occur.

### Counterexamples to run by hand

The following configurations check a sentence of the docs or of a comment, or what
a reader would take for granted, that the code does not keep. TLC answers each with the shortest run that breaks it:
`tlc -config <cfg> <module>`.

| configuration, module | statement | what the trace shows |
|---|---|---|
| `OrderStockLockCycle.cfg`, `MCOrderStock` | concurrent callers "serialise safely" (numbering.py) | a storefront sale locks rows, then the number (order_create.py:132, 184); a POS sale the number, then rows: they deadlock, and PostgreSQL aborts one |
| `OrderStockDuplicate.cfg`, `MCOrderStock` | a cancelled order gives back what it took | the idempotency check is by (order, row): of two lines of one product one is restored (inventory.py:150) |
| `OrderStockToggle.cfg`, `MCOrderStock` | and no more | tracking is asked again at the cancellation (inventory.py:138) |
| `OrderLifecycleTerminal.cfg`, `MCOrderLifecycle` | "Terminal: fulfilled, cancelled" (endpoints.md:365) | a confirmation validated before a cancellation commits overwrites it (status_transitions.py:136) |
| `PosShiftGate.cfg`, `MCPosShift` | "A POS sale requires an open shift" (backlog-v1.md:523) | a sale that found the shift open commits after the close, and is in no count (pos.py:269) |
| `AiQuotaHistory.cfg`, `MCAiQuota` | "append user + assistant messages" (ai_gateway.py:197) | two chats write back the list they read, one exchange is lost |
| `AccountsOwner.cfg`, `MCAccounts` | "Cannot remove the last owner" (members.py:134) | two owners remove or demote each other |
| `AccountsConflict.cfg`, `MCAccounts` | 409 on "email match with different sub" (auth.py:147) | two first logins of one person: the second select finds the first's row |
| `AccountsAccept.cfg`, `MCAccounts` | invitations are flipped to active (auth.py:339) | of invitations by two tenants only those of the last tenant set are written (auth.py:356-374) |
| `AccountsAudit.cfg`, `MCAccounts` | every role change is in the audit trail, in its order | the latest event by `created_at` (audit_event.py:27) names another role than the row has: a change that began earlier committed later |
| `MigrationsBackfill.cfg`, `Migrations` | "normalize all existing invited_email values" (p0q1r2s3t4u5) | under FORCE ROW LEVEL SECURITY the backfill sees no rows |
| `IsolationFulfilment.cfg`, `MCIsolation` | a fulfilment is answered 200 (test_m12_fulfillment.py) | the refresh after the commit runs in a transaction without a tenant (status_transitions.py:280) |
| `IsolationReference.cfg`, `MCIsolation` | a row of a tenant refers to rows of the tenant | the category of a product (products.py:160, 233) and the product of an upload (media.py:99) are not looked up: another tenant's id is stored, an id of none refused |

Further observations met while modelling:

- A storefront order writes no stock movement, against "single path for all
  stock movements" (inventory.py:1). Its variant can be deleted, and the order can
  then never be cancelled: the restore meets the foreign key.
- Deleting a product with movements fails unhandled (products.py:366; the bulk
  delete at 345 takes all others with it).
- Restocking a row whose `stock_qty` is NULL leaves it NULL (inventory.py:98).
- A crash between INCR and EXPIRE leaves a rate key without expiry (ai_quota.py:48).
- Re-inviting a removed member fails unhandled: the old row keeps the unique key
  (members.py:103). Two first requests of a person race in
  `get_current_user`, and the loser fails unhandled (dependencies.py:84).
- A member of several tenants who sends no `X-Tenant-Id` fails in
  `scalar_one_or_none` (dependencies.py:135).
- `list_members` does not filter by tenant (members.py:31): a caller also sees
  their own memberships and invitations elsewhere, which the policy admits.
- A platform administrator's transition of another tenant's row fails unhandled:
  three handlers select by id alone, and the policy lets them read it
  (status_transitions.py:127, 167, 200).
- Visitor and session ids are primary keys across tenants, and the browser keeps
  them per origin: a second storefront of the origin is answered an error
  (analytics_ingest.py:58). So may be two first batches of a session.
- An empty source in a session's first batch is stored and then sticks, against
  "NULLIF treats '' as NULL" (analytics_ingest.py:66).
- A submission retried by its client is stored twice: it carries no key.
- "Email wins" of the customer link can split one contact over two customers.
- `send_email` "never raises" but catches `ClientError` only; any other error of the
  client library loses the Telegram message that would follow.
- Telegram can be left enabled without a chat by two racing settings changes.
- Models and migrations differ (`KnownDrift` in `Models`): `opened_by` and `closed_by`
  of `pos_shifts` (the foreign key clears them, pos_shift.py:36 has a plain one), the
  times of creation of twelve tables and `visits.landed_at`, which the models declare
  NOT NULL and the first migrations leave nullable, and `products.metadata`, JSONB in
  the model and JSON in the table.
- `create_product`, `update_product` and `create_upload_url` accept the id of another
  tenant's category or product. An upload for a product that is not there fails
  unhandled (media.py:99).
- "Product name, SKU, or barcode already exists" is also the answer to a category that
  is not there and to an explicit null for a required column (products.py:181, 239;
  likewise product_variants.py:183).
- A category deleted under an edit that sends it makes that edit a 409; deleted just
  after, it leaves the product without one.

### Bounds and fairness

- `numbering`: three handlers, three series of at most two rows (`MaxRows`). Two
  handlers race for a lock and the third keeps a stale view; colliding and separate
  locks both occur. The proofs cover every size.
- `stock_trade`: four requests over two products and a variant; carts that cross,
  take several units, and take a product with its variant; stock low enough
  that the third sale fails. Four is a sale, its two racing cancellations, and a
  sale of what they return. Requests are symmetric.
- `stock_edit`: three requests, no symmetry (liveness). `stock_qty` is edited to
  NULL only together with `track_inventory` false, as the edit page does.
- `lifecycle_races`: any three of 14 requests. A chain has three steps, and what
  can go wrong takes one stale request and two fresh ones.
- `shift_count`: two opens, two closes, a cash and a card sale, a cancellation:
  a shift, its close, and a second shift with a sale that straddles them.
- `quota_races`: three chats with estimates 3, 3, 2 over a quota of 6; answers that
  use less and more than the estimate; two months (`LastMonth`); conversations
  that exist before or do not; one message per window, so that the second chat of a
  user is refused or comes after the window has ended.
- `accounts_races`: three of 18 requests over three tenants, one with two owners
  and one slug still free, and room for three more memberships (`MaxMembers`).
  Each exception needs one stale request, one that changes what it read, and one
  that sees the result.
- `migrations`: the whole chain; the rows that matter are at most one per column
  or value a statement minds.
- `isolation`: every endpoint and caller of two tenants: an owner invited to the
  other, a removed member with two invitations, a member of both, a platform
  administrator. One pooled connection, so that every request meets what the one
  before left; two clients take turns on it.
- `catalog`: one product with a variant, in a category, and a new one of each; one
  code, one category, two names, so that a new product may take or leave the name of
  the first; four requests, two at a time (`MaxRequests`): a sale, its deletion, its
  cancellation and an edit. Clients and orders are symmetric.
- `submissions`: two emails and two phones, three requests, two at a time, one
  worker. The situations split what cannot meet: visitors against edits of
  customers, tasks against edits of the settings.
- `attribution`: one visitor, two sessions, two storefronts; three batches, two at
  a time; a window of two ticks on a clock of two.

Deadlock is checked in every run but `numbering`, where handlers stop at
`MaxRows`; a request that waits for a lock nobody frees would be one.

Fairness is weak fairness of each request's own steps: a server process runs the
request it has begun, PostgreSQL grants a lock that stays free, its detector
acts on a cycle that stays, and every send of a worker has a timeout. Clients
need not send anything: `Begin`, `Ask`, `Rollback`, `Crash` and `Abort` are never fair. Only
`AcquireLock` of `Numbering` is strongly fair: handlers there come again for ever,
and PostgreSQL queues waiters in order of arrival.

## Proofs

`tlapm` checks them for every value of the constants the named assumptions allow;
TLC evaluates the assumptions on the instances of the runs, and checked each
inductive invariant on an instance before it was proved. A `*Proofs` module has
the invariant, one lemma per action (`...Inv`), and the theorems; where a second
invariant is built on the first, its part follows with lemmas and theorems of its own.
Components that keep related things share one: `KeysProofs` is about `Numbering` and
`Catalog` (numbers and codes, both unique without a constraint that says so),
`VisitProofs` about `Attribution` and `AiQuota`, `SubmissionProofs` about
`Submissions` and `OrderLifecycle`. `Sums` has the lemmas about sums over finite sets.

| module | theorem | property | by |
|---|---|---|---|
| `KeysProofs` | `NumbersGapFree`, `NumbersStayNext`, `CounterRefined` | `GapFree`, `ImplementsCounter` | `NumberingInv` |
| | `LedgerKept`, `CodesShared`, `SalesCancellable` | `LedgerKeepsItsItems`, `CodesAreSharedOnlyInARace`, `RecordedSalesCanBeCancelled` | `RequestsFit`, `InsertsDiffer`, `MovementsFit` |
| | `ConflictsReal` | `ConflictsAreReal` | `Real`, `Outcome` |
| `OrderStockProofs` | `Types`, `NoOverselling`, `RestoredOnce` | `NeverOversold`, `RestoredAtMostOnce` | `Basic`, `RestoreOK` |
| | `TillIsDeadlockFree` | `TillNeverDeadlocks` | `LockOK` |
| | `BooksBalance` | `StockReconciles` | `OwnOK`, `BooksOK` |
| | `SalesAreSerializable` (of a `PlainShop`) | `Serializable` | `PlainOK` |
| `PosShiftProofs` | `CountHolds`, `SalesStopAtClose` | `CountIsSound`, `NoSaleAfterClose` | `IndexHolds`, `Selections`, `SumsAreSound` |
| `AccountsProofs` | `Types`, `ServedEntitled`, `AuditTrail` | `ServedWereEntitled`, `AuditTellsTheState` | `EntitledOK`, `WritesOK`, `LocksOK`, `AuditOK`, `StampsOK` |
| | `Refusals`, `RemovedStaysOut` | `RefusalsAreReal`, `RemovedComesBackOnlyByStaleAccept` | `LoadedOK`, `EntitledOK` |
| | `LastOwnerLost` (`OwnedAtFirst`) | `OwnerlessOnlyIfStale` | `LoadedOK` (`Spared`), `RowOK` |
| `IsolationProofs` | `TenantsAreIsolated`, `PoolIsClean` | `StaysInTheTenant`, `PooledConnectionsCarryNoTenant` | `Good`, `IdleIsClean` |
| | `FailuresKnown`, `ForeignIdsRefused` | `FailuresAreKnown`, `ForeignIdsAreNotFound` | `Answers`: `HeldOK`, `IdOK`, `DeleteOK`, `Named` |
| `VisitProofs` | `ViewsAreApart`, `OnlySharedIdsFail` | `OneViewPerWindow`, `ErrorsAreOfSharedIds` | `LocksHold`, `RowsHeld`, `EventsPast`, `SeenStays` |
| | `SourceSticks` | `FirstAttributionSticks` | `SourcesOK` |
| | `AdmittedFit`, `UsageIsCounted` | `HardLimitHolds`, `FailedCallsFree` | `ChatsOK`, `UsedIsCounted`, `SharesFit` |
| | `ConversationsOwn`, `ConversationsOnce` | `ConversationIsOwn` | `ChainInv` |
| `SubmissionProofs` | `SubmissionsTyped`, `RowsAreToldOnce` | `ToldOnceOfARow` | `Apart`, `NotYet`, `Stored`, `WorkInv` |
| | `FailuresAreOvertaken`, `RowsAreLinked`, `ChatIsLostInARace` | `FailuresAreRaces`, `LinkedToItsCustomer`, `TelegramLosesItsChatInARaceOnly` | `RequestsFit`: `Clean`, `Read` |
| | `StepsInOrder`, `AuditedCancellationRestores` | `NoStepSkipped`, `RestoredIffCancelled` | `RowsKnown`, `PendingIsLegal` |

**Numbering.** `GapFree` alone is not inductive: a commit keeps it only if nobody
of the series has committed since the MAX select. So `NumberingInv` adds that a handler
past `AcquireLock` holds the lock of its series, and that the number it read is still
the next. `MaxIsCount` is the arithmetic: on a gap-free series the MAX select is the
number of rows. `CounterRefined` then follows from the same invariant: each commit
issues the number the counter would.

**OrderStock.** `Basic` says what each statement's handler may assume: its request
(`ControlOK`), its position among its lines (`LinesOK`), and that a row's new value is
its committed one unless the row is locked, and is not negative (`StockOK`). The
stock test of the decrement is part of the UPDATE, which reads the locked row;
that is the whole of `NoOverselling`. `RestoredOnce` is about the idempotency
check of `restore_stock_for_cancelled_order`, a plain select, and works because
`MarkCancelled` has locked the order before: two cancellations of one order are
never between check and commit together, and one that comes later sees the movements
the first has committed (`RestoreOK`).

Sales at the till do not deadlock because they take the lock of the number before
any row: a sale that waits for a row is the only one that owns anything, and a
restock waits for its one row with empty hands (`LockOK`), so that nobody waits for
somebody who waits. `BooksBalance` says that a row of the catalogue nobody edits is
what it was, plus the ledger, less what the storefront has shipped without a
movement: a row's holder has changed it by what it will book (`BooksOK`), and a
request has written only what its own movements and lines say (`OwnOK`). The sums
are those of the community modules over sets of any size; what they do when an
element is added, or changes, is proved in `Sums` from well-founded induction on
subsets. `SalesAreSerializable` maps each commit to the operation of `StockBook` it
stands for. It is about a `PlainShop`: all products are tracked, nobody edits them
meanwhile, and no cart names a row twice. `stock_trade` is such a shop. The three
are needed: a cancellation restores one line of a row that an order names twice
(`OrderStockDuplicate.cfg`), and after tracking is switched a cancelled storefront
order is restored without having been taken (`OrderStockToggle.cfg`).

**OrderLifecycle.** Handlers validate on an unlocked read, so a row may have changed
by the time of the UPDATE. What saves `NoStepSkipped` is that history only grows:
the value a handler has read was once reached (`PendingIsLegal`), and every
value a row holds is initial or audited (`RowsKnown`).

**PosShift.** `IndexHolds` extends the partial unique index to the shift whose insert
is not committed. `CountIsSound` speaks about everything over before the close
began; `Selections` says that what a close or a sale found has been committed, and
`SumsAreSound` that a sum, once taken, stays right about what is past, since a
past sale does not change but by a cancellation that is not past.

**Accounts.** A handler reads memberships without a lock, so the invariant says what
a handler has loaded against what is there, as long as nobody has changed memberships
since (`~stale`, in `LoadedOK`), what its statements have written against the rows
they change (`RowOK`, `TenantRowOK`, `EventOK`), and that no two transactions write one
row (`LocksOK`). From these follow that the event of a row that was committed last names what the
row is (`AuditOK`), that a refusal had its reason at some moment of the request (`EntitledOK`),
and that what goes wrong needs a stale read. The trail is read by time stamps, of
which each audited request has one of its own (`StampsOK`; two in one microsecond have
no order at all). So when the latest event by stamp is not the last committed, the last
committed has an earlier stamp, and `AuditTellsTheState` says that it is this one that
tells. The duplicate that
`uq_tenant_members_tenant_user` refuses needs no race: the member may have been
removed before, and the old row kept (`"removed"` in `entitled`). `LastOwnerLost`
supposes that tenants have an owner at first, which `create_tenant` sees to in the
transaction that makes them.

**Isolation.** That a request stays in its tenant does not depend on what the routes
do: of them the argument uses only `RoutesAssumption`, the order in which a route may
borrow a connection, identify its caller, set the tenant and touch rows, and of the
policies only `PoliciesAssumption`, that at the head of the migrations each guarded
table has the clauses `Clauses` lists. TLC evaluates both on the real lists. `Good` says what the
settings of the connection a request holds tell about it (`Tells`), and that all it
has read, loaded, listed and written is of its tenant, but for the statements meant
for all tenants; `IdleIsClean`, that a connection nobody holds carries nothing.
So a new endpoint that keeps the order is in its tenant without a new proof. What
is refused needs more, `CarefulRoutesAssumption`: a row is loaded by its id, saved and
refreshed while the tenant is named, by commands its policies allow, and the routes
that are exceptions are named there; TLC evaluates it on the real lists too. Then
what a request holds is of its tenant, but for a platform administrator's row of a
transition and for invitations (`HeldOK`), so that a flush matches all its rows, and
who has got past a load by id named an id of the tenant (`IdOK`). References that are
stored without being looked up are no part of this: the assumption names the three
routes that have them (`StoresReferences`), `ForeignIdsRefused` says that no other
route stores a reference to another tenant's row, and a reference to no row is the
fifth case of `FailuresKnown`. `Named` is for
`accept_invite`, whose address is named before the loop. `MembershipsAssumption` adds
that there are finitely many tenants and memberships, and the unique index: two
memberships a caller is resolved to are of two tenants.

**Catalog.** `RequestsFit` says of every request what others may have changed since it
looked: it knows all holders of its code but those that took it since (`Looked`); what
it is to insert is still new (`InsertsDiffer`). Deletes are refused while a movement
names the item, and a movement names what its order names (`MovementsFit`): hence
`LedgerKept`, and that what is on the ledger can be given back. `ConflictsReal` is about
steps: a 409 is given by the very statement that sees another holder of the code, or by
the flush, which the database refuses over what is there at that moment: a code or a
name that is taken, a category or a product that is gone, a null. `Real` lists
the reasons, `FlushOutcome` and `ViolationIsReal` say that a refused flush has one, for
whatever the body sends.

**Attribution.** The views of a session are apart although the search for a recent
view takes no lock: the upsert just before has locked the session's row
(`LocksHold`, `RowsHeld`), so that nobody else inserts events of it until the commit
(`SeenStays`), and events that do not claim a time of their own are not of the future
(`EventsPast`). With the upsert after the search, TLC finds two views at once.
`SourceSticks` says for a history of any length what the two nested COALESCEs of the
upsert amount to: the source of the first request, or of the first later one that
names one (`Sticks`); each upsert sees the row of the last (`SourcesOK`).

**AiQuota.** A chat decides on the total its INCRBY has returned, which others may
have changed by the time it looks. Two sums carry the argument. `UsedIsCounted`: the
counter of a month is what the chats have added to it, estimates reserved and
differences settled (`Counted`); once all are settled this is the sum of their
tokens, `FailedCallsFree`. `SharesFit`: what the chats take of the quota for good
(`Share`) fits in the limit. Nothing but admission makes a share greater, and at
admission the shares are below the counter, term by term: `SumMonotone` does the rest.
A chat over its estimate, and one that settles in a month it was not reserved in,
are what separates shares from tokens, hence the two terms of `HardLimitHolds`. In
`ChainInv` every list a chat has loaded, and every list it writes back, is one of
chats of its user, in the order of the usage log; `ConversationsOnce` follows. That a
list written back may have lost what another chat saved in between is no
contradiction: see `AiQuotaHistory.cfg`.

**Submissions.** Each request has a number of its own and stores under it
(`Apart`, `NotYet`), so that what it stores is new, and a task is of a row that is
there (`Stored`): it is enqueued after the commit. `WorkInv` is about the workers: no
two run one task, and a message is only sent at the step that is its turn, so it is
not in `sent` yet. What a request knows rests on what the staff does: as long as no
customer is changed or deleted, customers are only added, and one that was found is
still there; the second search of `find_or_create_customer` then finds whoever won the
race for the insert (`Clean`). Likewise for the settings (`Read`). One lemma says
what any step leaves of the requests that do not take it (`Steady`).

Only model-checked: liveness (`HandlersEnd`, `RequestsEnd`, `TasksEnd`), whose
fairness and ENABLED are out of the provers' reach; and `Migrations`, which has no
parameter to generalise over: its runs are the whole chain.

## Not modelled

- The AI provider, the identity service, the mail and chat services and the object
  store: a call answers or fails. Token checks, hashing and settings are pure.
- What reports add up, prices and currencies: arithmetic in SQL, without a second
  actor. `Isolation` has whose rows they read.
- What is in the rows of categories, storefront settings and media: each is written
  by one statement of one request. `Isolation` has their endpoints, and `Catalog` the
  deletion of a category; that categories are also created adds nothing an edit can
  fail over.
- What ON DELETE SET NULL and CASCADE do to rows of another tenant, once a reference
  to it is stored: foreign keys are not subject to the policies. `Catalog` has what
  they do within a tenant.
- Values of a body that PostgreSQL refuses for their range or length, which are
  errors of another class than the 409s of `Catalog`.
- Request schemas as such: they are the sets of requests the modules enumerate. A
  body of the notification settings with an explicit null for a flag is not among
  them (`Settable`): it passes the schema and then fails on the NOT NULL column.
- Expiry of the month keys of the quota and changes of plan.
- Plain indexes, primary keys, server defaults and column types other than
  JSON in `Schema`.
- The dashboard and the storefront, as clients of the endpoints.
