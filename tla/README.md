# Verification of MuradERP-AI

TLA+ modules of the parts of MuradERP-AI that decide what is posted, what is
charged, who may do it, what the pages and the assistant tell their user, and
what is kept while there is no network, with the TLC instances that check them
and the TLAPS proofs about them. Paths below are relative to the repository
(`backend/` is `backend/src/`, a number alone a migration of
`supabase/migrations/`).

Contents: [the system](#the-system) · [modules](#modules) ·
[runs](#runs) · [fairness](#fairness) · [proofs](#proofs) ·
[findings](#findings) · [observations](#observations) ·
[abstractions](#abstractions) · [not modelled](#not-modelled) ·
[plan](#plan) · [running the checks](#running-the-checks)

## The system

MuradERP-AI is a multi-tenant ERP for a trading and depot business. A browser
application (`frontend/`) talks to an Express API (`backend/`), of which
several processes may run; all authoritative state is in PostgreSQL. Money and
goods are written by SECURITY DEFINER functions only, one transaction per call;
the API validates, works out a fingerprint of the request and calls them. An AI
Copilot turns a conversation into an action the user confirms, and executes it
with the same functions.

| Component | State | Operations | Hard behaviour | What makes it correct |
|---|---|---|---|---|
| **Transaction posting** (`20260829173824`, `20260902090000`, `20261020120000`) | invoices, purchases, receipts, credit notes, vendor payments, inventory, movements, ledgers, journal, idempotency tables | `post_invoice_atomic`, `record_purchase`, `record_customer_payment`, `record_sales_return`, `record_vendor_payment`, `commit_copilot_sale` | calls of several users in any order, retries after a lost answer, reused keys, settlements racing for one document, rounding | one document per call; replay returns the original (two exceptions, see [observations](#observations)); nothing settled beyond what was billed; sub-ledgers, stock and money accounts agree with the journal |
| **Membership, routes and sessions** (`tenant-access.service.ts`, `apiKeyAuth.ts`, `routes/`, `app.js`) | memberships, permissions, branch grants; session cookie; account and workspace of each tab; cached machine context | sign in and out, discover workspaces, the lookups of every route and tool | lookups made one by one while rights change, late session checks, tabs that share a cookie | no page works in a workspace found for another account (three exceptions); nothing is answered or written without each right |
| **Pages that post** (`invoices.js`, `payments.js`, `returns.js`, `purchases.js`, `vendor-payments.js`, `*.browser.routes.ts`) | form, loaded source document, reviewed draft and its key; API key rows | open, type, load, review, post, retry | late and lost answers while the user goes on | what is posted was reviewed; a retry finds its document; the button comes back |
| **Registers** (`customers.js`, `vendors.js`, `products.js`, `warehouses.js`, `stock.js` and their routes) | rows read so far, cursor, form | load, load more, search, save | pages by key while others write, answers out of order | a list read to its end is exact; a form saves the record it was opened for |
| **Reports** (`dashboard.js`, `reports.js`, `reports/`) | figures shown | general ledger by offset, stock by key | documents posted between pages and between parts | the figures are those of the documents |
| **Rate lists** (`20260930103000`, `20261021100000`, `rate-lists.js`) | lists, versions | draft, publish, import, change a price | racing publications; prices asked for meanwhile | one active version, the newest |
| **Estimates** (`20260907120000`, `estimates.js`, `estimate-clone-reprice.service.ts`) | form and stored draft, estimates, idempotency rows with snapshots | price, review a list change, save online or queued, convert | late rates, lost answers, edits during a save, prices published during a conversion | a rate is the list's; one estimate per save; converted at the reviewed prices |
| **Depot operations** (`20261021130000`, `tools/operations.ts`) | stock, memos, transfers, dispatches | prepare, approve, recheck, commit, verify each tool's draft | documents changed by other drafts between showing and committing | charged as approved; billed once; what is moved was sold |
| **Copilot conversation** (`copilot-ui.js`, `ai-copilot.routes.ts`, `confirmation.ts`) | thread of a tab, signed token, stored drafts, voice recorder | turn, confirm by message or card, review, record, switch workspace | tokens forked by duplicated tabs and lost answers; one busy flag set and cleared by all of them | only what was shown is posted; what is announced was posted, and a thread that waits for the API becomes usable again (exceptions below) |
| **Copilot agent** (`agent/agent.ts`, `agent/business-tools.ts`, `agent/erp-tools.ts`) | products, customer, draft and payment of the task | the tools a model calls in a turn | a model that calls anything in any order | what is stored was shown; what was asked is settled by an answer that leaves one candidate |
| **Copilot action execution** (`copilot.runtime.ts`, `tools/operations.ts`) | rows of `ai_copilot_actions`; learned slip patterns | `persistPlan`, `confirmAndExecute`, `verifyAndComplete`, `learn_confirmed_copilot_slip` | compare-and-set claims between processes, reads stale after an await, a process that dies anywhere | an action takes effect at most once; what is recorded was done; a claim ends |
| **Offline outbox** (`offline-sync.js`, `offline-store.js`) | IndexedDB outbox shared by tabs | `queueJsonRequest`, `flushOfflineQueue` | overlapping flushes, network loss, closed tabs | no draft lost, doubled or resurrected; queued drafts are sent |
| **Bank reconciliation**, **profile and credit actions**, **language model providers** | see [not modelled](#not-modelled) | | | |

Interactions: the browser calls the API over HTTP, directly or from the outbox
with the same idempotency key; every route makes its lookups and then calls the
posting functions, which ask again; the Copilot's conversation stores drafts
that its runtime executes under keys derived from the action;
`commit_copilot_sale` calls `post_invoice_atomic` and `record_customer_payment`
in its own transaction; `commit_depot_action` prices from the rate lists, makes
estimates READY and converts them. All state is shared through the database or,
between tabs, through IndexedDB, the session cookie and the session storage a
duplicated tab copies. `PROJECT.json` lists the hazards of this code, each at the
line where it bites and with the properties that cover it.

## Modules

| Module | What it is |
|---|---|
| `Posting`, `PostingProperties`, `PostingProofs` | the posting functions; what they guarantee; theorems for every instance |
| `CopilotAction`, `CopilotPromise` | the life of one action by concurrent requests; the abstract life it implements |
| `CopilotProperties`, `CopilotProofs` | properties, refinement mapping, fairness; theorems |
| `Outbox`, `OutboxProofs` | the outbox, its flushes, the network and the tabs |
| `Pages`, `PagesProofs` | the five pages that post, the handlers they call, one commit of Posting each |
| `Routes` | what each route and assistant tool asks, as data |
| `Access` (extends `Routes`), `AccessProofs` | sessions, workspaces, requests served lookup by lookup |
| `Registers` | lists and forms of master data, balances and movements |
| `Reports` (extends `Registers`), `RegistersProofs` | ledger and stock figures, read by pages; theorems about both |
| `RateLists` | versions, the page that drafts and publishes them, import and price change |
| `Estimates` (extends `RateLists`) | the form, creation, conversion |
| `Depot` (extends `Estimates`), `DepotProofs` | the assistant's write tools over the same prices and estimates; theorems about all three |
| `Conversation` | threads, tokens, proposals, confirmations, reviews |
| `Assistant` (extends `Conversation`), `ConversationProofs` | the tools of a turn and the state in the token; theorems about both |
| `MC...` | instances of each for TLC; `MCAssistant`, `MCRegisters` and `MCEstimates` are those of the largest composition |

Modules that extend one another share its state and check the composition:
`Depot` commits against the versions and estimates that `Estimates` and
`RateLists` change, and `Access` serves each request by the record `Routes` has
of it. `Assistant` and `Reports` are checked beside what they extend, in one
state space with budgets of which one side is zero: an assistant turn is what
`Conversation` calls one step, and a stock page is one of `Registers`' lists.

Definitions marked `Mutant` in the modules are wrong variants of the definition
that follows; no action uses them. Each says which mistake a property would
find, and `PROJECT.json` pairs each property of each run with one.

### Posting

`db` is the record of all tables; `grants` are the grants in force; `answer`
is what each request was last told. One function call is one action because
each function is one transaction that locks every row it decides on
(`FOR UPDATE`, or an advisory lock for the key) before it writes. For every
function:

| Operator | Code |
|---|---|
| `XxxAdmitted` | the checks before the idempotency row is looked at, so a replay has to pass them too |
| `XxxPosts` | these, a fresh key, and the checks after it: a new document is posted |
| `XxxAfter` | every write of the function: document, stock, movements, sub-ledger, journal, key row, statuses |
| `PostXxx` | the action |
| `Replay` | the same key, caller, branch and fingerprint: the first document is returned |
| `Refuse` | anything else raises and is rolled back |

The order of these checks is part of the model, since it decides what a retry
is told: `record_customer_payment` checks whose invoices it pays before the key
but what is outstanding after it, and `post_invoice_atomic` checks the status of
the estimate before the key. `commit_copilot_sale` composes `SaleAfter` and
`ReceiptAfter`; either both commit or neither. `Revoke` and `Regrant` are
administrators; `MarkReady` is the step of `commit_depot_action` that sets an
estimate READY.

The cost floor of a copilot sale (`AboveFloor`) is worked out from the purchases
of the moment (`BoughtOn`, `Latest`, `CoversPurchase`), on every call and before
the key is looked up, as `copilot_purchase_floor` does.

### CopilotAction

A request drafts an action and then confirms it, one awaited statement an
action, so that other requests come in between: `ReuseDraft`/`MissDraft`,
`InsertDraft` (unique key), `ReadAction`, `Decide` (on the row read before, kept
in `memory`), `Claim` (an update conditional on status DRAFT), `Execute` (the
ERP call under the action's own key, which may commit and lose its answer),
`Checkpoint`, `Verify`/`Mistrust`, `Learn`, `Complete`, `Doubt`, `Fail`. `Die`
ends a process at any of these places. `CopilotPromise` is what the row means to
a user: proposed, claimed, taken effect, recorded, executed, abandoned.

### Outbox

One IndexedDB transaction is one action. A flush (`Run`) lists the pending
items once (`Begin`), then for each marks it syncing (`Mark`), sends it
(`Accept`, `Unavailable`, `Reject`, `Lose`) and settles it (`Settle`) on the
list it read at the start, whatever other flushes did since. `Close` ends a
tab's flushes anywhere and leaves the outbox as it is.

### Pages

A page is the editor one of the five `*.js` files opens: which form it holds,
which source document it has loaded for which selection, the reviewed draft
with its key. Requests are records in `calls` that the server takes from
`sent` to `checked` (the API's own checks, its key table) and to `answered`
(the posting); each may be lost before or after it was served, and the user
goes on meanwhile. The five pages differ in what they compare when an answer
comes, which is a predicate per page (`Listing`, `Offers`, the guards of
`Review` and of the answers), not a module per page.

### Routes and Access

`Routes` has one record per route and tool: who may call it (browser, API key,
internal token), the lookups it makes in order, the permission that covers what
it does, and what its transaction asks again. `Access` runs requests by these
records one lookup an action, while memberships, permissions and branch grants
change; and it models how a tab comes to name an account and a workspace: the
first session check, sign-in and sign-out, discovery, and the mounting of pages.
One tab is enough, since the others act on it through the shared cookie only
(`CookieChanges`). `whose` is the account a discovery was served for, which is
that of the cookie then and not of the user who asked; `listed` is the account
the list in the tab (`found`, `availableWorkspaces`) was found for; and `account`
is the one the tab's workspace was found for. `astray` marks the tabs in which one
of three things happened that may set these apart from the account shown.

### Conversation and Assistant

In `Conversation` a tab holds the thread, the token it last accepted, cards and
the busy flag; the server keeps drafts only. The flag belongs to nobody:
analysing, confirming, preparing, the voice recorder and every button that fails
set and clear it, which `Frees` does and records in `freed` when something was
still under way. The recorder (`Record`, `Granted`, `Denied`, `StopRecording`,
`Stopped`, `Close`) waits for the browser's answer about the microphone, which may
come after the dialog was closed, after signing out, or never. One turn is one request, served in
one step that may propose, replace, confirm or refuse. `CopilotAction` has what
a confirmation consists of, so here it is one step. `Assistant` opens that step
up: in a turn (`Ask` ... `End`) the model calls tools one by one, each of which
reads and changes the state in the token; `Prepare...` marks a draft viewed, and
a confirmation stores it if its token says it still is the one prepared.

### Registers and Reports

A `Registers` page is one of five kinds over one table. Asking (`Load`, `More`,
`Save`, ...), `Serve` and `Deliver` are separate; an answer holds the rows of
the moment it was served. A search field may hold a term that is not asked for
yet (`typed`) when a dialog is opened over the list. `disturbed`
records the exemptions `ListIsExact` states. `Reports` reads the lines that
`LinesOf` gives a document in pages; `ReadLedger` is one page, an offset into
the order of `(date, id)` as it is at that moment, and `ReadStock` one page by
key. What a screen shows together is a set of such reads.

### RateLists, Estimates, Depot

`versions` is a sequence, the index being the id. `PriceIn` is
`findBestRateListItem` for one version, `Resolve` what `resolvePrice` returns for
a list. `Publish`, `Import` and `Reprice` are one transaction each. The estimate
form is a record with one line whose fields change by the listeners' actions;
rates, customer creation, creation and conversion are requests in `calls`.
A conversion is priced line by line (`ResolveLine`), so that a publication can
come between two lines. In `Depot` a draft is a task: `Prepare...` reads and
shows, `Approve` confirms, `Recheck` prepares again and compares (`Holds`),
`Commit...` is the branch of `commit_depot_action`, `Verify` the read back.
`Estimates`' own pages and the drafts run over the same `versions` and
`estimates`.

## Runs

| Run | Asks | Bounds, and why they suffice | Distinct states |
|---|---|---|---|
| `posting_sales` | sales, copilot sales, receipts and returns in any order and any number of times | 3 sales (two under one key by two users with different contents, one of them and a third converting the same estimate, the third with the invoice number of the copilot sale), goods for two of them, 1 copilot sale, 2 receipts and 2 returns that do not fit together on one invoice | 11 thousand |
| `posting_purchases` | purchases, payments racing for them, what was bought sold, collected for and returned; the books reconcile after all six operations | 3 purchases over 2 keys (one vendor invoice number twice), 3 payments of which some only fit in one order, a sale with one product on both lines, a copilot sale, returns | 18 thousand |
| `posting_access` | two organizations, three branches, grants revoked and given back between calls; returns at net rates that division must round | the same key in two organizations, requests naming another branch's or tenant's rows; `Unit` and `Fine` above 1 | 40 thousand |
| `copilot_race` | requests on one action, two plans; two of three requests mortal; the refinement; liveness of the third | a claim race needs two, a stale reader beside it a third | 108 thousand |
| `outbox_tabs` | two tabs, two flushes, two drafts; network drop, unavailable API, closed tab | each fault once (`MaxDrops`, `MaxClosed`) between any two steps | 667 thousand |
| `pages_retry` | each of the five editors with late and lost answers, edits, closing | two source documents to confuse (returns), two reviewed drafts, two posts, another person settling once | 459 thousand |
| `pages_estimate` | [finding](#findings) | as `pages_retry` | |
| `access_tabs` | signing in and out by itself, requests by themselves, one request of every route | two accounts, two workspaces, a tab; the change between two lookups needs one right taken and one given | 1.0 million |
| `conversation_threads` | threads of two tabs; and turns of one thread | 4 requests, or 3 with a duplicated tab, or 3 with reviews and one use of another button or the recorder, or 1 with two; a turn with up to 4 tools of chosen kinds, two turns (a stale view needs a second) | 439 thousand |
| `conversation_replaced` | [finding](#findings) | threads of `conversation_threads` | |
| `registers_lists` | lists and forms of each kind; and the dashboard or the report page | one row to a page, up to 3 records, one or two changes by others; ledger pages of two lines, stock pages of one, two months of two days, one or two postings meanwhile | 412 thousand |
| `estimates_prices` | the rate list page, the form, a conversion, and the assistant's drafts, over one set of versions and estimates | one product, two tiers, one or two lists, up to three versions; two to four steps of the page looked at and one or two of others | 1.1 million |

`Budgets` (and `Reading`) are sets of records of bounds considered together: a
record names the page or part that is used, how often, and how often others
interfere, and TLC starts from each. They keep a product of independent parts
from being explored while each part meets everything that can interfere with
it. Requests to Posting and CopilotAction are sent any number of times in any
order, so their documents are bounded by the keys and not by a counter. The
passing runs between them take every action. `CHECK_DEADLOCK FALSE` in the runs
whose budgets are spent in the end, and in the Outbox where everything comes to
rest when each draft is settled.

What the runs show. In these instances each call makes one document, whatever
was sent before and however often; a receipt never takes more than is
outstanding, even with a return posted between its drafting and its posting; the
control accounts, sub-ledgers, money accounts, cost of goods and inventory rows
agree after any sequence of calls; a retry by a user who still has the grant is
answered with the first document, by the functions and by the pages (but for
conversions of estimates, and copilot sales that a later purchase put below cost);
an action takes effect at most once with confirmations
racing and dying anywhere; no draft is lost from, or comes back to, the outbox;
what is posted from a page or a thread was shown for review with that content;
the model cannot have a draft stored that differs from the one shown, and while
the user is asked which product is meant it cannot settle that by naming a number
or the first of several, but by a search, rate or query that comes down to one
product; no request is answered
without each right having been seen while it was served; lists read to their
end are exact and figures are those of the documents, outside the exemptions
each property names; the newest version of a rate list is the active one, and
prices charged are those that were shown. The exemptions are behaviours of the
code, listed under [observations](#observations).

## Fairness

Only four runs state fairness; the others are pure safety.

- `copilot_race`: requests whose process stays up are carried on
  (`WF(Advance(q))` for `q` not in `Mortal`: Node runs each continuation, and the
  HTTP client gives each ERP call an end). Nothing is assumed of the others.
- `outbox_tabs`: the event loop of an open tab carries its flushes on, the user
  opens the application again, and the network comes back.
- `pages_retry`: reads, posts and reloads of a page come to an end
  (`WF(Advance(p))`), with an answer or an error. These requests use plain
  `fetch` without a time limit, so the end is the browser's.
- `conversation_threads`: a request in flight is answered or lost
  (`WF(\E c : Lose(c) \/ Deliver(c))`); nothing is assumed of the user.

How a race is resolved is never assumed.

## Proofs

All theorems are of the specification that the runs check, for any values of
the constants that satisfy the modules' named assumptions, which TLC evaluates
in every run. The larger invariants were checked by TLC on the runs' instances
before they were proved. `PROJECT.json` lists the theorems with the property of
the runs that each states.

| Module | Theorems (properties of the runs they state) | Proved |
|---|---|---|
| `PostingProofs` | `TypeCorrect` (`TypeOK`), `SettlementSound` (`SettledWithinBilled`), `PaymentSound` (`PurchasePaidWithinTotal`), `StatusIsFate` (`StatusTellsFate`), `CallsOnce` (`OneDocumentPerCall`), `RepeatsGiveFirstAnswer` (`ReplayReturnsOriginal`), `PostingAuthorized` (`OnlyAuthorized`), `TenancySound` (`TenantIsolation`), `BooksAlwaysReconcile` (`BooksReconcile`), `RoundingSound` (`RoundingStaysSmall`) | for any organizations, parties, requests, amounts and opening stock |
| `CopilotProofs` | `TypeSound`, `EffectOnce`, `RecordSound`, `AnswerSound`, `TeachingSound` (`EffectAtMostOnce`, `RecordedMeansDone`, `AnswerIsTrue`, `TaughtOnce`), `PromiseKept` (`KeepsPromise`) | for any actions, plans and requests |
| `OutboxProofs` | `RemovalSound` (`RemovedWasAccepted`), `RemovalFinal` (`NoResurrection`) | for any tabs, flushes and drafts |
| `PagesProofs` | `PostedWasReviewed` (`DocumentWasReviewed`), `RetryIsFound` (`RetryFindsDocument`) | for any pages, sources, amounts and requests |
| `AccessProofs` | `WorkspaceStaysOfAccount` (`WorkspaceOfAccount`), `WriteIsGranted` (`WriteWasGranted`) | for any tabs, users and workspaces, and the routes of `Routes` |
| `ConversationProofs` | `PostedWasShown` (`PostedAsShown`), `AnnouncedIsPosted` (`AnnouncedWasPosted`), `StoredWasViewed` (`PreparedAsViewed`), `QuestionHolds` (`AskedIsAnswered`) | for any tabs, workspaces and items, products, customers and tool calls |
| `RegistersProofs` | `ListsAreExact` (`ListIsExact`), `WritesAreRead` (`ReadsOwnWrites`), `FormsSaveWhatTheyOpened` (`SavedAsOpened`), `FiguresTrue` (`FiguresAreTrue`) | for any kind of list, any records, and any number of other people |
| `DepotProofs` | `ActiveNewest` (`ActiveIsNewest`), `RatesOfLists` (`RatesAreTheLists`), `SavedOnceForAll` (`SavedOnce`), `ConvertedReviewed` (`ConvertedAsReviewed`), `ChargedApproved` (`ChargedAsApproved`), `BilledOnceForAll` (`DispatchedIsBilledOnce`), `GoodsWereSold` (`MovedWasSold`) | for any lists, products, tiers, drafts and number of other people |

**Posting.** Assumed are `UnitAssumption`, `OwnershipAssumption`,
`RequestAssumption`, `PriceAssumption` and, for rounding, `DiscountAssumption`.
Amounts and inventory rows are
natural numbers, so that no stock and no posted amount is ever negative. `TypeOK`
is not inductive: the net rate of a return, and with it the credit, would be
negative if a line's discount could exceed the line; `SoundIn` adds that, and
the bounds on `paid` and `returned`. Each function has a lemma on the types of
what it writes and one on `SoundIn`, stated of the tables before and after and
not of `db`, so that the two of `commit_copilot_sale` compose. On these rest
more invariants:

- `FateIn` adds what the statuses of invoices and estimates tell.
- `OnceIn`, `AnsweredIn`: documents, keys and entries are numbered after all
  that their tables have, so a call makes one of each and no answer of another
  call is its own. That a repeated request gets its first answer needs besides
  that whatever admitted it still stands, except the grant of its user
  (`RepeatInv`) and the cost floor of a copilot sale, which the theorem assumes.
- every document was posted by a user who held the grant when it was, which is
  an argument about one step: no function writes a document without asking.
- `IsolatedIn`: every reference of a document stays within its organization.

*Reconciliation* is about sums over sets of rows, which the library's fold works
out by recursion. That the fold's function is the sum is found by counting the
things still to be added (well-founded induction over the natural numbers, and
finite-set induction with the set of the good sets as the property); from it
come lemmas on a total when a row is added, left alone or changed. A posting
adds one journal entry, one ledger row and the movements of its goods, all named
after a document that is new (`NumberedIn`), and moves the documents by what the
entry says (`Shifts`, `Booked`): accounts, ledgers, documents and goods move in
step. Assumed is what `BooksReconcile` states as its scope, that amounts are such
as `journal_lines` can hold (`Unit = 1`), and that parties are finitely many.

*Rounding* is for every `Unit` and `Fine`. Each entry has a row of its own,
within half a `Unit` of it, because each function rounds one amount once
(`PairedIn`). What an invoice has credited is what came back at its net rates
(`CreditedIn`), and a net rate is a quotient within half of the smallest
fraction: of each line where the discount of lines is fixed, of the whole
invoice where it is not, so the bound is proved twice, by cancelling the divisor.
It needs that prices are coarser than net rates (`PriceAssumption`) and that
discounts line by line add up to the invoice's, which
`snapshot_invoice_commercial_terms` asks before it keeps them, and which a
conversion, sending all lines of its estimate, satisfies (`DiscountAssumption`).

**Copilot.** The inductive invariant has four parts. `RowSound` relates a row to
its effect and to what was taught; `RequestSound` what a request remembers to
the row, at each of its places; `OneClaimant` says that at most one request is
between the claim and the checkpoint of an action, which is why the effect
happens once. The refinement is proved case by case from them.

**Outbox.** `RemovedWasAccepted` says nothing of the flushes. The invariant adds
what each knows (`FlushSound`): it lists drafts that were queued, and after an
"ok" the API has the one at the head of its list. A flush removes nothing else,
and only queueing, which is of new drafts, puts one in; so what is gone stays
gone whatever other flushes do in between.

**Pages.** What a page holds, sends and has sent is one review's body under that
review's key, all the way from the draft (`DraftsReviewed`) through the calls
(`CallsFit`) to the documents (`DocsReviewed`). The one exception, a draft
half set by the invoices page, has no key, and no handler accepts it: each asks
for the key, or for a review that such a draft does not have. A retry has the
key and the body of the document's own call, so the key table finds it.

**Access.** First every record of `Routes` is shown to ask, by itself or in its
transaction, for all that it needs (`Covers`): the routes are looked at one by
one, here by the prover. Then an invariant of the requests says that what was
looked up so far was granted at some moment since the request was identified.
`WorkspaceOfAccount` needs to know of every tab that is not astray that its list
was found for the account it shows, or that the discovery which replaces the list
is under way (`ListOfAccount`), and of every discovery that still counts that the
account itself started it or that it finds the list empty (`FindTimely`).

**Conversation.** Requests and rows have numbers of their own (`NumbersOK`), so
that a row of the future cannot be one that was shown. `ShownInv` follows what a
user was shown into every token and answer of any tab, duplicates included.
`WaitInv` says that in a tab that nothing made idle (`freed`), one request at a time
is live and keeps it busy, the recorder included, from which what is announced is
what was confirmed; `PostedInv` that what was confirmed is posted.

**Assistant.** `Fit` is the hidden part: a prepared draft's discounts are those
of its customer, so that preparing it again shows the same. `ViewSound` and
`ThreadInv` say the view is the draft as long as both are prepared, `Waits` in
which part of the turn's state an open question is kept, since that moves.

**Registers.** The hidden part is what may be concluded from an answer that was
served some time ago. Ids are handed out once and a record that is there never
goes back to an older revision (`Onward`), so what was told of a record stays
true of it for as long as it exists. The invariant says which answers the page
can still take in: two loads are told apart by their numbers, or were asked for
at once, which is the disturbance `ListIsExact` exempts; a further page
continues where the list that is shown ends; rows are in the order of their
ids, so none is shown twice. `ListIsExact` follows as the list covers all ids up
to where it ends. A page is put in order by counting how many ids come before
each (`Ordered`); that each place has exactly one id is proved by induction over
finite sets. For `SavedAsOpened` the form,
the detail being loaded and what is selected name one record, but on the
warehouses page. The run checks registers and reports in one state space
(`BothSpec`), where a step is of one or the other by definition; the lemma
`ReportsAreAside` only carries the theorems over to it and says nothing of the
code.

**Reports.** `FiguresTrue` has an invariant of what is being read (`RInv`). A
report is the beginning of the ledger of its period as that is now (`Partly`): a
document posted meanwhile either comes after all that was read, or shifts the
reading, and then what is no longer in its place was not there at first
(`GrownLedger`). Reads asked for together stay complete (`Complete`), because the
number of a load is used once. A stock overview holds the newest movements down
to its cursor, since ids only grow and the ones still open are what `quiet` says.
A report read to its end is then the ledger of the documents its last page saw
(`Fully`), and what is left is bookkeeping, proved in three steps. The sum over
the positions of a ledger is one over its lines, those differing in day, key or
code; the lines of a document weigh what it adds to an account (`WeightOf`); so
each figure is a sum of documents less another (`AccountsWeigh`, `LedgerSum`).
For the trend each day falls into one month, the first that ends on it or later
(`MonthOfDay`, `MonthsApart`). Assumed are `RegistersAssumption` and
`ReportsAssumption`: documents have keys of their own, positive amounts and days
up to today, and finitely many are posted at the start. Sums are reasoned about
by counting, and by an induction over finite sets that is stated of a set of sets
(`SetInduction`), the library's induction theorem being out of the prover's reach.

**Depot.** Assumed are `RateListsAssumption`, `BudgetsAssumption` (versions at
the start are in order), `EstimatesAssumption` and `DepotAssumption`. The
invariant is `DepotInv`, with `SavedInv` for saving:

- versions (`VersionsInv`): the numbers of a list are bounded, so that they have
  a greatest and the one that replaces the active version is above all; a version
  is never changed but in its status, and none that was archived comes back
  (`Stays`). The greatest exists by well-founded induction, which the library
  has a theorem for.
- pages (`PagesInv`): a price that was answered stays a price of its list,
  archived or not, and an answer is put only on a line that is still what it was
  asked for.
- books (`BooksInv`): what a draft is bound to exists; a draft that was rechecked
  shows a version that was not archived when it was approved; an estimate with a
  draft's key is of a draft that is over, so its price is its own; invoices of
  estimates and converted estimates are in one-to-one correspondence, which every
  step either leaves alone (`Quiet`) or extends by one of each; an order is
  delivered if and only if all its items are and it has its invoice.
- saves (`SavedInv`): everything that was asked of one edition of the form is
  one request, and fits the form as long as that is its edition; the form
  waits for one attempt at most; and what was refused stays unacceptable, because
  the estimate in its way stays and none can be created later that would answer
  it. From these a refusal can never be of something already saved.

- goods (`GoodsInv`): the memos of a line amount to no more than it sold, since
  what they reserve is what they are of less what was delivered, and what was
  delivered counts as come back. What is allocated of a memo is the sum of its
  transfers, and a memo is closed if and only if all of it is allocated and
  delivered. The sums are reasoned about by counting things, as in
  `PostingProofs`; each of the two modules has its own lemmas on them, so that it
  can be checked alone. Assumed is that what was sold at the start did not come
  back in greater quantity than it was sold (`DepotAssumption`).

Only model-checked is liveness (`ClaimSettles`, `NoMissedFlush`,
`ButtonComesBack`, `BusyEnds`), which is beyond the prover. Every safety property
that a run finds to hold is stated by a theorem.

No module uses RECURSIVE operators; recursion is by folds.

## Findings

Each is a run that TLC ends with a counterexample; `PROJECT.json` quotes the
lines.

- `pages_estimate`: the same conversion of an estimate sent again is refused,
  because the API and the function both ask for a READY estimate before they look
  at the key. `docs/ARCHITECTURE-DECISIONS.md:32` promises the original result.
- `conversation_replaced`: a proposal that a later message replaced is posted by
  a "yes" if the answer to that message was lost, since the tab still holds the
  token with the old one. `backend/ai-copilot/agent/agent.ts:96` says that a new
  request replaces the previous proposal.

## Observations

Behaviours met while modelling that no document contradicts, or that concern
code no run disagrees with. Those that make a property need an exemption name
it.

Posting and outbox
- `record_sales_return` does not compare its credit with what is outstanding: a
  return of goods already paid for makes the outstanding amount negative.
- A net rate finer than 0.0001 is rounded in the journal but not in the customer
  ledger; `RoundingStaysSmall` bounds the difference per document.
- A `fetch` error marks an outbox item failed, which no flush sends again
  (`offline-sync.js:51`); an item whose tab is closed while it is sent stays
  syncing (`offline-sync.js:42`); items pending because the API was unavailable
  wait for the next online event.
- After a lost ERP answer an action is FAILED; drafted again it has a new key
  (`copilot.runtime.ts:556`).
- Cost floors are worked out anew by every `commit_copilot_sale`, before the key is
  looked up (`20261020120000:195`): after a dearer purchase the retry of a committed
  sale is refused, and not answered with the original as
  `docs/ARCHITECTURE-DECISIONS.md:32` says of replays. Without its second exemption
  `ReplayReturnsOriginal` fails in `posting_sales` after a copilot sale and a
  purchase.

Pages
- The invoices page does not compare the estimate it loaded with the one
  selected (`invoices.js:125`, unlike `returns.js:144`); a half-set draft is
  posted without a key (`invoices.js:173`); a late success closes whichever
  editor is open (`invoices.js:194`); an edit during a post takes a new key; what
  is outstanding is as old as the page; receivables show the first 100 only.
- A purchase without a date is fingerprinted with the day it arrives
  (`erp.routes.ts:50`): the same request on the next day is another one.

Access
- `astray`: the late answer of a tab's first session check (`app.js:210`) overrides
  a completed sign-in but not its workspace; a discovery is answered for the cookie
  of the moment, which is another account's after another tab signed in, or after
  a sign-in or sign-out whose answer was lost; signing in and out forget the
  workspace but not `availableWorkspaces` (`app.js:134`), so that the dialog, when
  submitted before the next discovery is answered, takes a workspace of the account
  before (`app.js:194`). `frontend/workspace-context.test.js:60` tests that
  what is discovered is dropped after a change of user, which it is. All data of
  such a page is still asked for with the cookie's rights.
- An authorization is three lookups; master data, price lists, imports and new
  parties are not asked again in a transaction. Internal routes for sales,
  purchases, payments and returns ask only in the transaction, which skips the
  branch if no branch header is sent (`20260829173824:477`; both headers are
  always named in the model). The default context of an API key is cached 60
  seconds (`apiKeyAuth.ts:40`).
- Earlier routers shadow `erp.routes.ts` for products, and for warehouses
  except `DELETE`. `/review` with the intent "auto" reads before it asks.

Conversation and assistant
- Cancelling during a confirmation leaves `pendingAction` in the token.
  `confirmDraft` reads `activeDraft` after its await (`copilot-ui.js:588`), so the
  thread announces another draft than it confirmed, or one that is not posted, if
  it was made idle meanwhile. All of these make it idle: preparing or failing to
  prepare a review (`copilot-ui.js:564`), a quotation that cannot be copied or
  downloaded (`:675`), a recording that ends by itself or fails (`:646`), closing the
  dialog while it records (`:709`), a late refusal of the microphone (`:658`) and
  signing out. `freed` has the tabs where that happened while something was under
  way.
- A dialog closed while the browser asks for the microphone leaves the thread busy
  when it is granted: closing counts `recordingVersion` on (`copilot-ui.js:709`), so
  `:633` returns and `:655` does not clear the flag. Only signing out or loading the
  page helps; `BusyEnds` is of threads that wait for the API.
- A review's answer is not compared with the scope it was asked in
  (`copilot-ui.js:524`); duplicated tabs fork one token and share its key.
- A search, a rate or a query of the model's own that comes down to one product
  settles the question which one is meant, as an answer of the user would.
- `set_task_context` after a prepare leaves a stale "prepared" view, which is
  refused when stored; a customer that is not found is removed from the state
  but not from the draft; a payment may name any customer id if none is in
  context; a line added while no rate can be had keeps no discount although
  one is remembered.
- Only customer returns, supplier bills, inventory adjustments and rate list
  updates reach `/review` from the page. Of these a rate list update is never
  drafted (no version number), a customer return always fails (no source line or
  reason), and an adjustment is always refused; a supplier bill line with a list
  and no rate is priced when posted and never shown.

Registers and reports
- `disturbed`: a page without load numbers that asks twice at once; a party saved
  while the list is read shows a stale "Load more" or the party twice; after a
  failed refresh a late save shows only the saved record.
- A warehouse's late detail overwrites `selected` (`warehouses.js:64`), so the
  form of a new warehouse updates another; a detail that fails leaves its dialog
  open, to be filled by the answer of another row; a late success makes "Edit" open a new
  form. A second submit, or a retry after a lost answer, creates a duplicate; a
  stale form overwrites what others changed.
- `shifted`: a document dated before where a ledger read is moves the offsets and
  a line is counted twice (`supabase-reporting.gateway.ts:94`). Profit and loss,
  a summary and its trial balance, and the months of the trend are separate
  reads. `quiet`: ids of movements are given out before they are committed. The
  profit dialog and the report form have no request version. Movement types
  outside the two lists of the dashboard count as 0.

Rate lists and estimates
- A version published before its day archives the current one at once, after
  which imports and price changes fail. Import and price change set
  `effective_from` to now while documents ask for the price at midnight UTC of
  their date, so that they have none until the next day. `publish` does not set
  `effective_to`. A late detail redirects a draft to another list.
- An applied review ignores quantities changed behind it; reload gives lines
  entered by hand the form's list; a form that is edited while it is saved is
  shown as saved and loses its stored draft; a lost customer answer makes a
  second customer; after a lost answer and an edit the number is taken.
- The replay check of a conversion comes before the commit of a concurrent first
  confirmation, which the unique key then settles.

Depot
- A transfer's quote is not checked again and its estimate stays DRAFT, to be
  converted or dispatched and billed twice. A plain return can use up what a memo
  reserved, whose delivery is then refused for ever. A conversion elsewhere
  strands a dispatch. Converting a DRAFT estimate is prepared and always refused
  at commit. An invoice is refused on any change of the stock shown. A price
  change between execution and verification makes a done action look unverified.

Some hazards weighed and not listed, because another one at the same place
covers them: the order of purchases under one key (`20260902090000`), receipts in
a second currency, and an action drafted again after FAILED.

## Abstractions

- An idempotency key stands for service principal and key, a body for the
  arguments and for their fingerprint (hashes do not collide).
- Documents of `Posting` have up to two lines, enough for one product on two
  lines, or two. Sums over earlier rows are running totals on the document.
- Parties, products, warehouses and branches are fixed and active in `Posting`;
  the cost floor is the dearer of a fixed part (`Floor`: the product's own price, the
  baseline of its brand, purchase lists) and what the last purchase cost, one purchase being later than another by its number, not
  its date. Tax, currency conversion and dates are left
  out where the functions copy them without deciding on them.
- Amounts are integers in the smallest fraction `numeric` keeps. `Unit` of them
  are the 0.0001 of `journal_lines`; prices are multiples of `Fine`, so that
  quotients have finer digits than what is divided. Where all amounts fit
  `journal_lines`, both are 1.
- Membership, permission and branch access are one grant in `Posting`; `Access`
  takes them apart and asks them one by one.
- `CopilotAction`: the ERP call is one effect that may be refused, committed, or
  committed with its answer lost. A plan is a value.
- `Outbox` leaves out attempt counts and error texts.
- `Pages`: a posting is one commit against what a source has left; `Posting` has
  the rest. A form is its source, number, amount and whether all else passes.
- `Conversation`: a message is what it leads to; a document a user uploads for
  review is one answer with one plan. `Assistant`: how text becomes tool calls is
  any choice; vendors go the way of customers; tools without a trace in the state
  are left out.
- `Registers`: rows have an id, a content and a revision; of parties, warehouses,
  balances and movements the content does not matter.
- `Reports`: a document has an amount and a cost; days are numbers and months
  have equal length; the random id of a journal entry is its key.
- `RateLists` and later: a date is before, today or later; a form has one line;
  estimates have the lines, list and customer, no rent or carriage. `Depot`'s
  drafts are for one customer and executed once, by a permitted user.

## Not modelled

- Language model providers, prompts, speech and image input (external; what they
  produce is a tool call or a plan, which the models take as any).
- Bank reconciliation: imported by nothing but its test, and no migration creates
  its tables. `transaction-automation.service.ts`, `pricing.repository.ts`,
  `DefaultRateListLifecycle` and `AuthoringService.activateVersion` are used by
  tests only. So is `createConversionSession` (`frontend/estimate-conversion.js`);
  it is modelled all the same, being the repository's one client of the
  conversion routes.
- Profiles, credit limits and `record_inventory_adjustment`: one transaction each
  that no other part reads; `commit_copilot_profile_action`'s price change is in
  `RateLists`. Sites and expenses of the depot likewise.
- PDF, WhatsApp sharing, rendering, the service worker's cache, the price check,
  and the line editor of a draft version.
- Row-level security policies and the roles permissions are given by; row locks
  below the granularity of an action, and with them which calls can wait for each
  other (`20260902090000:378` against `20260829173824`); analytics of the Copilot.
- `scripts/` (checks of the repository itself, not of the running system).

## Plan

What would add most, in order:

1. **Locks**: the row locks each posting function takes, in order, foreign keys
   included, composed of two or three calls; a lock table with a total order as
   the abstract specification.
2. An abstract specification of a conversation (a proposal shown, confirmed,
   posted) that `Conversation` refines, and one of a register that only
   publication moves for `RateLists`.
3. Extraction and review of uploaded documents, with what the review decides line
   by line; profile, credit and adjustment actions as further commits of `Depot`.
4. Two lines in the estimate form; fixed cost floors that change.

## Running the checks

    tlc -workers 2 -config MCPosting_sales.cfg MCPosting
    for m in *Proofs.tla; do tlapm $m; done

Each run takes between a few seconds and three minutes, each module of proofs
between a few seconds (`OutboxProofs`) and eleven minutes (`PostingProofs`, `DepotProofs`,
`RegistersProofs`). `PROJECT.json` lists
every run with its module, configuration and properties, the mutants, the source
lines each definition models, and the theorems.
