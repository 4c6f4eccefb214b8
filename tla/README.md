# Stellances: a TLA+ model of the escrow and of the services around it

Stellances is a freelance marketplace: a client locks the price of a job in a
Soroban escrow contract on Stellar, a NestJS backend with a PostgreSQL database
drives the job through its milestones, and the escrow pays the freelancer.
Money moves on a ledger that the database only observes, so most of what can go
wrong lies *between* the two. Around that core are sessions, notifications over
event streams, a board of jobs, and a wallet component that talks to a browser
extension. This directory models these parts of the program, checks them with
TLC and proves their safety with TLAPS.

Paths below are relative to `src/`. `lib.rs` is
`stellance/Contracts/src/lib.rs`; the services are under
`stellance/backend/src/`, the web application under `stellance/frontend/`.

## 1. Inventory

| Component | State it keeps | Operations | What makes it hard | What makes it correct |
|---|---|---|---|---|
| Escrow contract, `lib.rs` | persistent `EscrowEntry` per contract id; one token account (the pool) for all escrows | `fund`, `release_milestone`, `release`, `refund`, `dispute`, `resolve_dispute` (and readers) | one pool backs every entry; any order of calls by four kinds of caller; one account may play several roles; rounding and i128 overflow of a split | no unit lost, minted or paid twice; the pool covers all entries; terminal and disputed entries are frozen; nobody pays himself; the admin can always settle |
| Storage lifetime, `lib.rs:184` | time to live of each entry | `extend_ttl` after writes | a write extends a lifetime only when it has become short; an archived entry can neither be read nor created anew | an escrow in use is never archived; archival loses nothing |
| Contract lifecycle, `contracts/contracts.service.ts` | rows `Contract`, `Milestone`, `Payment`, and `Job.status` | `create`, `confirmFund`, `submitMilestone`, `approveMilestone`, `dispute`, `resolveDispute`, `cancel`, `_maybeCompleteContract` | each handler reads, awaits the chain for up to 30 s, and writes by id without looking again; retries; crashes between chain and database | the database never claims a payment the chain did not make; a completed contract has nothing left in escrow; a disputed one is frozen |
| Admin transactions, `escrow/escrow.service.ts` | none of its own; the sequence number of the admin account | prepare, send, poll (`_submitAdminInvocation`); `verifyTransaction`; XDR builders | concurrent handlers share one sequence number; equal calls are one transaction; the poll may end before the transaction's time bound | a success is reported only for a transaction that landed and returned Ok; every request is answered |
| Jobs, `jobs/jobs.service.ts` | row `Job` | create, search with pages, update, `cancel` | `cancel` and `update` check, then write by id; page numbers and limits come from the caller | the pages are a partition of what matches, whatever the caller asks for |
| Sessions, `auth/auth.service.ts` | rows `RefreshToken`, `User.tokenVersion`; access tokens, which are stored nowhere | register, login, refresh, logout, logout-all | two refreshes with one token; logout-all is two writes; a token read before them and rotated after | rotation does not fork a session; logout-all ends every session |
| Notifications, `notifications/*` | rows `Notification`; a `Subject` per user | create, mark, delete, list, count, SSE `stream` | the tabs of one user share a Subject that any close event removes; store and push are two steps, so are stream and list | no open stream is deaf; a tab that lists after it listens misses nothing; the badge agrees with the list |
| Payments, `payments/payments.service.ts` | none (reads `Payment` rows, calls Horizon) | balances, transactions, earnings, `withdraw` | kind and sign of a payment are inferred from the row; a withdrawal is a payment of the admin account and shares its sequence number with every escrow call | the views agree with what was paid; a withdrawal is answered CONFIRMED once for each payment made |
| Users, `users/users.service.ts` | row `User` | create (for register), profile | unique columns | one account per email |
| Wallet, `lib/stores/walletStore.ts`, `hooks/useStellarWallet.ts` | one Zustand store: status, key, balance, loading | silent probe of every mount, connect, disconnect, refresh | every wallet component runs its own probe on the shared store; answers of Freighter and Horizon come late and in any order; a status is a dependency of the effect that sets it | probes never override the user; the spinner stops; a click is answered; the balance is the connected account's |
| Board of jobs, `app/(dashboard)/jobs/page.tsx`, `lib/api/jobs.ts` | the page's data, input, timer, filters and page number | type, select, clear, remove a chip, turn a page, refetch | the data and the page number outlive each other; the keyword reaches the filter by a timer and past it | no empty page while something matches; the filter follows the input |
| Shell, `main.ts`, `prisma.service.ts`; other pages of the frontend | none of their own | - | - | - |

**How they interact.** The frontend calls the HTTP controllers. A controller
calls one service method, which runs as a chain of awaited database queries and,
for approve, dispute, resolve and cancel, one awaited call of
`EscrowService._submitAdminInvocation`. That builds a transaction signed with
the platform's admin key, simulates it, sends it, and polls for its result. The
parties can also sign transactions themselves: `fund` always (from XDR the backend builds, or
with any other freelancer, admin, token and amount), and any entry point the
contract lets them call, none of which the backend notices. Node runs one continuation at a time, so two
requests interleave at awaits only. Nothing reconciles the database with the
ledger afterwards: there is no listener, no job queue and no recovery at start.
A handler that has written its rows calls `NotificationsService.create`, which
stores a row and then pushes it to the user's Subject, if there is one. In the
browser, each wallet component mounts the hook, and all of them share one store;
the board fetches open jobs once and works on its copy.

**Hazards.** `PROJECT.json` lists the hazards of this code at the lines where
they bite, each with the properties that would catch it.

## 2. The modules

```
EscrowRules            checks, effects and payouts of lib.rs; one entry, no state
  |-- Escrow           storage + pool + tokens: the contract on chain
  |     |-- EscrowPromise          what its users are promised (INSTANCE ... WITH)
  |     |-- EscrowTtl              Escrow + ledgers that close, archival, restoration
  |     |     |-- EscrowProofs     theorems about Escrow, its pool and EscrowTtl
  |     |     `-- MCEscrowTtl      TLC instance
  |     `-- MCEscrow               TLC instance
  `-- ContractService  database + handlers + network + one escrow entry
        |-- ContractServiceProofs  theorems; OnChain is EscrowPromise over that entry
        `-- PaymentViews           what the parties are shown of it
              |-- PaymentViewsProofs theorems
              `-- MCContractService  TLC instances
AuthSessions           accounts, refresh tokens, tokenVersion, access tokens
  |-- AuthSessionsProofs           theorems
  `-- MCAuthSessions               TLC instance
Notifications          rows, the Subject, connections of a user's tabs
  |-- NotificationsProofs          theorems
  `-- MCNotifications              TLC instance
Wallet                 the wallet store and the chains that work on it
  |-- WalletProofs                 theorems
  `-- MCWallet                     TLC instance
JobBoard               JobsService and the page of open jobs
  |-- JobBoardProofs               theorems
  `-- MCJobBoard                   TLC instance
SumTheorems            sums over finite sets, for the proofs above
```

A definition called `<rule>_<slip>`, such as `FundError_KeyReused`, is a variant
of `<rule>` with a plausible programming error in it. No specification uses one.
Each property is shown to notice at least one of them, by putting it in place of
the rule (`mutants` in `PROJECT.json`).

### EscrowRules

One operator per decision in `lib.rs`: `<EntryPoint>Error` is the first failing
check, in the order of the early returns; `<EntryPoint>Entry` is the entry
written; `Payout` is what the freelancer and the client get. `AccessError` is
the prefix that the five later entry points share (found, status, role). Amounts
are integers and the only overflow that is reachable, `remaining *
freelancer_bps` in `resolve_dispute`, is an error like in the code. `I128Max` is
a constant, so that a small instance can reach it.

### Escrow

| Variable | Code |
|---|---|
| `entries` | persistent storage under `DataKey::Escrow(id)` (`lib.rs:87-93`) |
| `balance`, `allowance` | the SEP-41 token, external: `transfer_from`, `transfer`, `approve` |
| `received` | history: what each escrow paid to whom |
| `last` | history: entry point, signer and result of the last invocation that passed its checks |

One action per entry point. A Soroban invocation is atomic, so each is one step:
an error changes nothing, a trap of the token rolls everything back, otherwise
all effects apply. `require_auth` makes `caller` the signer. `Approve` and
`Spend` are what token holders do outside: allowances change, balances are spent,
and tokens may even be sent to the pool by mistake.

`EscrowPromise` is the contract without entry points and error codes: a deposit,
payments that leave something locked, a freeze, and one closing division.
`KeepsPromise` is the refinement: `phase` is computed from the status, the sums
paid from `received`.

### EscrowTtl

`Escrow` on a ledger. `ttl[id]` is what is left of an entry's lifetime, in
ledgers. `Invoke` is any step of `Escrow` that finds the entries it writes at
hand and extends them as `extend_ttl` does; `LedgerCloses` takes one ledger off
every lifetime; an entry that reaches 0 is `Archived`: it cannot be read,
written or created anew until somebody's `Restore`. `idle` is history: the
ledgers since the last write. The three thresholds are constants with the one
assumption that the threshold is not above the target.

### ContractService and PaymentViews

One job and its contract, with any number of milestones and of requests in
`Slot`s.

| Variable | Code |
|---|---|
| `job`, `contract`, `milestone`, `payments` | columns of `Job`, `Contract`, `Milestone`, `Payment` (`prisma/schema.prisma`); `contract.hash` is `escrowTxHash != null` |
| `entry`, `received` | the escrow on chain, by the rules of `EscrowRules` |
| `seq`, `pending`, `succeeded` | the admin account's sequence number; admin transactions accepted, and landed with Ok |
| `confirmed` | history: withdrawals answered CONFIRMED |
| `req` | per slot: which endpoint, where its handler stands, what it has read |

Each handler is cut where it awaits: a first step reads and checks (`Create`,
`ApproveMilestone`, `Cancel`, ...), `Prepare`, `Send` and `Poll` are
`_submitAdminInvocation`, `ReadRemaining` is `_remainingAmount`, and the
`...Commit` step is the final transaction, which - as in the code - writes by id
and does not check again. A `$transaction` of this service is one step: those in
`contracts.service.ts` read nothing, so under READ COMMITTED, too, all their
effects appear at the commit, and two that write one row or one unique value
take turns. Requests the first check
refuses change nothing and are not modelled as steps. `PENDING`, a duplicate and
`TRY_AGAIN_LATER` all lead to polling, because `escrow.service.ts:363` tells
only `ERROR` apart. `APPROVED` does not appear among the milestone's statuses:
the code writes it and `PAID` in one transaction, so nobody sees it. A
transaction is identified by what it calls, its sequence number and the second
it was built in, which is what its hash depends on; so two equal approvals built
in one second really are one transaction. `Land` may let a transaction fail at
any time: the escrow has changed since its simulation, or its token refuses. `Withdraw` is a payment of the same
admin account, so it takes its sequence number from the same source and goes
through the same three steps. `Die` is a crash, a restart or an unreachable
database or RPC server at any await. `Direct` is
anybody who calls an entry point of the contract with a key of his own. The
platform's key is the one exception: it signs what `_submitAdminInvocation`
builds and nothing else.

`Fund` is the deposit. The client may sign what `create` proposed (`Agreed`) or
any of `OtherDeposits`, which may name anybody as freelancer or admin, any token
and any amount; so may a stranger, since `fund` checks only the signature of the
client it is given, and the first deposit under an id is the escrow.
`VerifyTransaction` is likewise what the code does: it answers whether Horizon
knows a hash, so `confirmFund` may succeed with no deposit, a failed one or
another one.

The pool always pays in this model. That is justified by a theorem, not by
assumption: `PaymentsNeverTrap`, below.

`PaymentViews` adds what `payments.service.ts` shows of the rows: `Shown` infers
the kind of a payment from its milestone and the sign from the side of the
caller; `GetEarnings` sums every row of the contract.

### AuthSessions

One email address. `accounts` counts the `User` rows with it, `row` is the table
`RefreshToken` with the tokens as keys (the hash stands for the token),
`tokenVersion` the column of `User`, `access` the versions of access tokens
still unexpired. `Register` looks for the address and `InsertUser` inserts, with
the slow hash between them. `Refresh` reads; `Rotate` is the transaction at
`auth.service.ts:147` up to its conditional update, which is what makes a second
rotation fail, and `RotateCommit` its commit: between the two the old row is
`Locked` and the new one is seen by nobody, as PostgreSQL's default READ
COMMITTED has it. `BumpVersion` and `RevokeAll` are the two writes of
`logoutAll`, which also follow a detected reuse; the second takes the rows that
are committed when it begins and ends (`RevokeAllEnd`) when it has had them all. `root` is history: the login that a token descends from.

### Notifications

One user, several tabs. `row` is the table; `unpushed` holds the rows whose
`create` has not come to its push; `stream` is the entry of the map `streams`,
named after the tab that made it; `conn` is a tab's connection and the Subject it
took. `Stream` is the handler of `GET stream` with its close listener,
`Subscribe` is Nest's subscription to what the handler returned, `Close` is the
close event, which completes and deletes whatever Subject is in the map by then.
`Fetch` is a tab that lists after it listens. `MarkRead` and `DeleteOne` act on
what `Find` has found before. `Restart` loses everything but the rows.

### Wallet

The store's four fields, and in `chain` the async calls that work on it: one per
mount of `useStellarWallet` (its silent probe) and one per `connect` or
`refreshBalance` under way. Each is cut at its awaits. `ChainsAfter` is React: a
status that changes restarts the probe's effect, so the clean-up of every mounted
probe runs and sets its `cancelled`; it runs in a microtask, before any answer of
the extension can come in, and is therefore part of the step that sets the
status.

### JobBoard

`jobs` and `editing` are the server's: `CreateJob`, `Update` and `UpdateCommit`
(check, then write by id), `SetJobStatus` for the changes that other services
make; `FindAll` is the search with its pages. The rest is the page: `allJobs` is
the data of the last fetch, `keyword`, `debouncedKeyword` and `timers` the input
and its debounce, `select` the two boxes, `currentPage` the page asked for.
Texts, categories and budgets of a job are its `kind`; what a kind matches is
given by constants. A fetch is one step.

## 3. The runs

Bounds are constants or are named in the guard they bound.

| Run | Question | Bounds | Result |
|---|---|---|---|
| `escrow_two` | do two escrows on one pool stay solvent, whatever is called? | two contracts, two parties hiring each other, amounts -1, 1, 2, three tokens in circulation; a split of 5000 bps rounds at 1, overflows at 2; 10001 bps is refused; deposits to the pool by mistake | holds, 191,700 states |
| `escrow_roles` | do the promises made to the parties hold when the roles coincide in any way, and does an escrow in use outlive the ledger's archival? | one contract, 27 role assignments, amounts 0, 1, 3, five values of bps; lifetimes of 1 to 3 ledgers | holds, 22,188 states |
| `service_concurrent` | does the database ever claim more than the chain did? | two milestones of one price, two requests at once (of every kind but withdrawals and the cancellation of a job, which touch nothing its properties speak of), three admin calls, faults, every entry point called directly by anybody; the agreed deposit, one that is short by a milestone and goes to the client himself in another token, and one that is over by a unit and names the platform as freelancer, so that `dispute` through the endpoint succeeds and the states behind it are reached | holds, 1,293,380 states |
| `service_calm` | do the books and the views agree when nothing goes wrong? | one request at a time, withdrawals included, four calls, disputes that the parties raise on chain, deposits of the price to anybody and in any token, no fault, a poll that outlasts the transaction | holds, 31,930 states |
| `service_live` | is every request answered, and does the last approval complete the contract? | two requests, three calls, two seconds, impatient polls, no faults, the agreed deposit, and no cancellation, which would be the other way out | holds under fairness, 211,319 states |
| `auth_sessions` | does a registration race make two accounts, does rotation fork a session, and does logout-all end all? | three tokens, two requests, `MaxVersion` 1 | holds, 27,725 states |
| `notifications_tabs` | does every tab see everything? | two tabs, two requests, three notifications, a list cut at two | holds, 1,576,171 states |
| `wallet_store` | do probes, calls and late answers of several components agree on one store? | two mounts, two calls, two accounts | holds under fairness, 11,774 states |
| `job_board` | are the pages, of the server and of the page, a partition of what matches, and does the filter follow the input? | three jobs of two kinds, a largest page of two, a page size of one, one keyword, limits -1, 1, 5 | holds, about 175,000 states |
| `service_retry` | is a 503 safe to retry? | one request at a time | violated |
| `service_cancelfunded` | does a cancelled contract have money locked? | one request at a time | violated |
| `wallet_stuck` | does a silent check come to a result? | as `wallet_store` | violated |

**Why the bounds are enough.** An escrow interacts with another only through the
pool, so two contracts show every interference a pair can have; the theorems
cover any number. A lifetime of three ledgers with a threshold of two has a
write that extends, a write that does not, and an expiry. For the handlers the
interesting cases need two requests (a read and a commit with another commit
between), two milestones (the last two approvals), and three calls that land (two
payments and a late third). Among the deposits is
each way to mislead the service: another payee and token, too little, too much. Equal prices make transactions collide. `Second` has
one member where two equal calls are to be one transaction, and two where they
may be one or two. For sessions,
three tokens allow a login, a rotation and a competing login or rotation; two
versions allow one logout-all and a reuse after it. Two tabs share a Subject, and
three notifications exceed the cut of two with one to spare. Two mounts, two
calls and two accounts let a late answer for one account meet a connection to
the other. The three jobs of `JobBoard` fill more than the largest page and
three pages of the board. Every invariant and action property of these runs is
proved for all values of the constants as well (section 4); what rests on the
bounds alone is liveness.

**Properties and where they come from.**

- `PoolSolvent`, `OnlyFundTraps`, `AdminCanSettle`: no escrow pays with the
  money of another; only `fund` can fail in the token contract; no sequence of
  partial releases and disputes leads to money nobody can move, in spite of the
  overflow check of a split.
- `Conservation`, `EntriesTellTheTruth`: status, `released_amount` and what was
  really paid agree, although they are written by different entry points
  (`resolve_dispute` leaves `released_amount` behind).
- `SettledIsFinal`, `FrozenUntilAdminActs`, `PaidByTheOtherSide`,
  `KeepsPromise`: what each step may do.
- `ActiveEntriesStayLive`: an escrow written once in `TTL_EXTEND_IF_BELOW`
  ledgers is never archived, although most writes extend nothing.
- `PaidBackedByChain`: milestones PAID never add up to more than the escrow has
  paid to its freelancer, whatever was deposited. Who that is, and in which
  token, the deposit says: see section 5. The property rests on
  `Payment.stellarTxHash` being unique: two approvals that built one transaction
  both see it succeed, and only the unique column stops the second from marking
  its milestone.
- `PaymentsAreReal`: a Payment row is a receipt. `CompletedMeansSettled` and
  `FrozenWhileDisputed` relate the contract's status to the chain under any
  interleaving, crash, deposit and direct call: a COMPLETED contract leaves
  nothing in escrow but what was deposited beyond its price.
- `OnlyUnguardedWritesReopen`: handlers write a status by id; what keeps a
  contract COMPLETED is that its settled escrow refuses the call that has to
  come first. The property names the only writes that escape this: those no call
  precedes, the second of two disputes, and those a surplus in escrow admits.
- `BooksAgree`, `WithdrawalsAgree`, `ViewsAgree`: without failures and overlap,
  `_remainingAmount` is what the escrow holds, each CONFIRMED is one payment, and
  the parties' histories agree with the milestones.
- `EveryRequestIsAnswered`, `AllPaidCompletes`: of two approvals that commit
  concurrently the later sees both milestones PAID. It is conditional on
  `NothingStale`: a doubled submit or confirm-fund that writes late undoes a
  status, and on no surplus, which admits a late dispute; see section 5.
- `OneTokenPerLogin`, `SessionsEndAtLogoutAll`, `ReuseEndsEverySession`: a
  session cannot be forked; between the two writes of logout-all nothing becomes
  usable, because a rotation stores the version it *read*; a second use of a
  rotated token revokes every token stored when it begins. A row that a rotation
  has inserted and not committed by then escapes the second write; its version
  is an old one, so it is not usable either, which is the part of
  `SessionsEndAtLogoutAll` that the version check carries alone.
- `OpenStreamHearsAll`, `ListAndStreamCoverAll`, `SubjectIsFreed`: the close event
  of any tab, even a late one, removes the Subject of all, and yet no stream is
  left open and deaf; a tab that listens first and lists second misses nothing,
  because `create` stores first and pushes second; no Subject is left behind.
  `BadgeMatchesList`: the list of unread ones is filtered before it is cut.
- `UserDecides`, `RestingBalance`, `SpinnerStops`, `ClickIsAnswered`: what several
  components and late answers may do to the one store.
- `PagesShowEveryMatch`, `ServerPagesPartition`, `FilterFollowsInput`,
  `FilterSettles`: a page number that outlives its list, limits out of range, and
  a keyword that is cleared past its timer.

**Deadlock** says nothing in the escrow runs, where a refused call is always
possible; that no escrow is stuck is `AdminCanSettle`. In the others the bounds
(`MaxCalls`, `HasRoom`, `MaxId`) let the system stop, and a finished contract, a
user with no calls left or a page left alone has nothing left to do.

**Fairness.** `FairSpec` of ContractService assumes weak fairness of each running
handler (Node runs every continuation that is due; an await of the database or
of RPC ends in a value or an exception) and of the network (`Land \/ Expire`: a
transaction is included or its 60 s pass). The poll is bounded at 20 tries of
1.5 s (`escrow.service.ts:370`), which `Poll` reflects: it may give up. Nothing is
assumed of users: no request, no direct call and no deposit need ever
happen. Where `Faults` is FALSE no handler dies: with TRUE, `AllPaidCompletes`
fails, see section 5. AuthSessions assumes weak fairness of its handlers, on the
same ground. Wallet assumes that Freighter and Horizon answer, if only with an
error, and that a user closes a dialogue at last; JobBoard assumes that a timer
of the browser fires.

## 4. The proofs

The theorems hold for every value of the constants, from the assumptions the
modules name (`EscrowAssumption`, `ServiceAssumption`, ...): prices are positive
and milestones are finitely many, the pool is no party's account, tabs and
mounts are distinct from calls, and the inputs have their types. The theorems on
the pool also assume that `ContractId` is finite, as storage is. Each module of
proofs has one inductive invariant, and one lemma per action that says the action
keeps it.

| Module | Inductive invariant | What is proved |
|---|---|---|
| `EscrowProofs`, the state machine | `IInv`: types, and `Sound` of each entry | `TypeCorrect`, `ConservationHolds`, `TruthfulEntries`, `SettledForever`, `FrozenUntilResolved`, `OtherSideSigns`, `Refinement` (`Spec => KeepsPromise`), `ResolutionIsFair` |
| `EscrowProofs`, the pool | `Backed`: the pool holds the sum of what is owed | `Solvency`, `PaymentsNeverTrap`, `NoEscrowIsStuck` |
| `EscrowProofs`, storage | `TtlInv`: the ledgers an entry has left and those since its last write add up to the threshold at least | `TtlImplementsEscrow`, `PromiseKeptThroughArchival`, `LifetimesBounded`, `ActiveStayLive` |
| `ContractServiceProofs` | `CInv` | `TypeCorrect`, `PaidBacked`, `RowsAreReal`, `CompletedIsSettled`, `DisputedIsFrozen`, `ReopenedOnlyUnguarded`, `LastPaymentCompletes`, `EscrowKeepsPromise` (`Spec => OnChain!Spec`), `NobodyStranded`, `RequestsRunOut` |
| `PaymentViewsProofs` | `KInv`: the rows are the receipts of what landed, and what the one handler has read is still so | `BooksAlwaysAgree`, `WithdrawalsAlwaysAgree`, `ViewsAlwaysAgree` |
| `AuthSessionsProofs` | `SInv`: a token has the version of the login it descends from, a request remembers no later one | `TypeCorrect`, `NoFork`, `LogoutAllEndsSessions` |
| `NotificationsProofs` | `NInv`: who listens, listens to the Subject in the map and has heard what was pushed since | `OneSubject`, `NoOpenStreamIsDeaf`, `NothingIsMissed`, `NoSubjectIsLeft`, `BadgeIsRight` |
| `WalletProofs` | `WInv`: past "idle" every running probe is cancelled | `TypeCorrect`, `BalanceAtRest`, `UserHasTheSay` |
| `JobBoardProofs` | `IInv`: one timer at most, which carries what the input says; the page's data are of rows that exist | `NewestFirstLists`, `PagesAlwaysShowEveryMatch`, `ServerPagesAlwaysPartition`, `FilterAlwaysFollows`, `NothingWaitsForever` |
| `SumTheorems` | - | lemmas on sums, which the others cite |

*The escrow.* `Conservation` alone is not inductive: that `released_amount` is
what the freelancer received must be known to show that the remainder is right,
and that a live entry still owes something to show that `Released` was reached by
paying everything. `Sound(e, r)` says all this of one entry `e` that has paid
`r`. `EffectSound` shows that each entry point keeps an entry sound, with the
arithmetic of a split taken from `SplitShareBounds`. `NextShape` reduces a step
of the whole contract to one such effect on one entry, or to no effect, so each
later theorem looks at effects only. `ResolutionIsFair` says of every state that
can be reached, by any sequence of calls, and of every resolution it accepts,
that both shares lie between nothing and all that is left, that they add up to
it, and that a split gives the freelancer the exact proportion rounded down; it
needs `Sound`, since in an arbitrary entry the rest may be negative. `EscrowTtl`
refines `Escrow` step by step
(`TtlImplementsEscrow`), so what is proved of the one holds of the other.

*Sums.* `PoolSolvent`, `PaidBackedByChain` and `BadgeMatchesList` are about sums
and cardinalities of sets that grow. `MapThenSumSet` is a fold, defined by
recursion over subsets, and an induction with an operator parameter is out of
the provers' reach. `SumTheorems` takes a smallest counterexample instead: were
some subset without the property, there would be a smallest one (`SmallestSubset`,
from the well-foundedness of strict inclusion), and taking out one element would
leave a smaller. `FoldIsUnique`, `SumTakeOut`, `SumMonotone` and `SumOfChange`
(a fold takes its set in one order that is not known, and these say that it does
not matter) follow in that way, and the theorems state the sums exactly as the runs check
them.

*The contract lifecycle.* The argument runs along the money: what is PAID is
receipted by Payment rows (`Paid` within `Receipted`), each row of a milestone
spends a release of its own (`Sum(Price, Receipted) <= Sum(AmountOf, Spent)`,
where the two unique columns are needed), those releases all landed (`Spent`
within `Releases`), and what landed the freelancer has (`Ledger`). `Holds` ties
a handler to this: past its poll it has a transaction that succeeded, and before
the last write of a completion all milestones have their receipt. `Books` repeats
what `Escrow` guarantees of one entry, whatever was deposited. What is left after
the last release is then `entry.total - Total` at most: nothing, or less than
nothing, which says that such a release was refused, unless more than the price
was deposited; so a refund after it is known to fail, or there is a surplus.

*The escrow the backend drives.* `OnChain` is `EscrowPromise` over the one escrow
of `ContractService`, whose deposit is the agreed one or any of `OtherDeposits`. `Books` gives what is locked, `CallKeepsPromise` maps an
entry point to a payment, a freeze or a division (`PromisedPay`,
`PromisedFreeze`, `PromisedClose`), and `FundKeepsPromise` the deposit.
So transactions that are late, doubled or lost, and calls the backend does not
know of, do nothing to the escrow that `EscrowPromise` does not allow.

*Safety cores of liveness.* The theorems below say that what is waited for
is in the hands of a handler; that the handler goes on is left to fairness.
`NobodyStranded` and `RequestsRunOut` are the core of `EveryRequestIsAnswered`:
a request stands where a step of its handler begins, and each step decreases
`StepsLeft`. `LastPaymentCompletes` is that of `AllPaidCompletes`, without
faults, without a surplus, and under `NoLateConfirm`, the part of `NothingStale`
that it needs: the approval that makes the last milestone PAID finds that it is the last,
and no write undoes its end. Two invariants carry it: `Secured` (who approves or
disputes saw the contract funded) and `DisputeStops` (a dispute that landed left
the releases short of the total), by which a dispute still to be written and a
contract with every milestone PAID exclude each other.

*When nothing goes wrong.* The theorems of `PaymentViewsProofs` assume `Calm`:
one slot, no faults, a poll that outlasts the transaction, no direct call
but a dispute, which pays nothing, and deposits of the price, to whomever they
are (`Priced`). `CInv` bounds what the database claims by what the chain
did; `KInv` makes the bounds equalities. While the handler is between its
transaction and its write exactly that transaction is missing from the rows
(`Accounts`), and what it checked first still holds when it writes (`Checked`):
the unique columns are free, so no row is lost. Overlap breaks the second part
and faults the first, which is why the assumption is needed.

*The board.* `NewestFirst` chooses its n-th id by the number of newer ones.
`RankExists` shows that the choice is possible, by the smallest counterexample
over subsets again, and `RankOrder` that it is unique. `Shown` in
`PagesShowEveryMatch` and `Walk` in `ServerPagesPartition` are recursive
functions, which TLA+ defines by choice: `WalkExists` gives a solution of the
equation, `WalkShows` shows that any solution has, after page p, the beginning
of the list up to `p * size`. The page size, the number of jobs and the limit
asked for are arbitrary.

*Model-checked only.* Liveness (`EveryRequestIsAnswered`, `AllPaidCompletes`,
`ReuseEndsEverySession`, `SpinnerStops`, `ClickIsAnswered`, `FilterSettles`),
which rests on fairness and ENABLED and is out of the prover's reach, and the
three violated claims of section 5, for which a counterexample is the result.

## 5. What the checks show about the code

The three violated runs are listed under `findings`:

1. `escrow.service.ts:370`: the poll gives up at 30 s, the transaction lives for
   60 s. An approval answered 503 and retried pays a milestone twice, out of
   the money of another.
2. `contracts.service.ts:475`: `escrowTxHash` is set at confirm-fund only. A
   client whose fund transaction has landed can cancel as if unfunded; the money
   stays in the escrow of a CANCELLED contract, and no endpoint refunds it.
3. `useStellarWallet.ts:172`: the silent probe sets the status that its own effect
   depends on, which cancels it; it then returns without a word, and the status
   stays "checking" until the user acts elsewhere.

Seen while modelling, and not given a run of their own:

- `lib.rs:459`: `Refunded` is also written after partial releases, when it is not
  the full refund of `lib.rs:102`.
- `contracts.service.ts:152`: confirm-fund writes ACTIVE by id after its Horizon
  call, over a CANCELLED or COMPLETED written meanwhile.
- `contracts.service.ts:311`: completion is a separate write after the last
  payment, and nothing repeats it after a crash.
- `jwt.strategy.ts:48`: an access token survives logout-all until it expires,
  which `docs/api-reference.md:207` does not say.
- confirm-fund accepts the hash of any transaction Horizon knows
  (`contracts.service.ts:150`, `escrow.service.ts:112-123`), one that was included
  and failed among them, and looks at no escrow, where `docs/escrow-flow.md:138`
  says it "Confirms escrow entry exists". The invariant
  `contract.hash => Present(entry)` does not hold. With no entry, or too
  small a one, calls fail and nothing is recorded as PAID. But nobody compares
  the entry with the contract either: a client who funds with another account as
  freelancer, or in another token, has milestones PAID of which the freelancer
  of the database has nothing. What remains true is `PaidBackedByChain`, for the
  payee and the token the deposit names.
- A client who deposits more than the price (`lib.rs:214` takes any amount) leaves
  the surplus in escrow when the contract is COMPLETED, and no endpoint moves it.
  It also keeps the escrow Funded, so that a cancel that passed its check earlier
  still refunds, and writes CANCELLED over COMPLETED
  (`contracts.service.ts:495`): the last disjunct of `OnlyUnguardedWritesReopen`.
- The second write of `logoutAll` (`auth.service.ts:218`) misses the row of a
  rotation that has inserted it and not committed: that row is never marked
  revoked. It carries an old version, so `refresh` rejects it.
- A doubled submit that is slow writes IN_REVIEW over PAID
  (`SubmitMilestoneCommit`), and the milestone can be approved again; the unique
  `Payment.milestoneId` stops the row, not the transfer.
- The dispute endpoint signs with the admin key, which `lib.rs:502` refuses unless
  the admin is a party; a dispute raised on chain is not seen by the database,
  and resolve then refuses.
- A job cancellation and the creation of a contract can both pass their checks
  (`JobCancelCommit`, `CreateCommit`); an update that found the job open writes
  to it when it has been hired for (`UpdateCommit`).
- Cancelling a contract reopens its job, but the row stays: the job can neither
  be hired for nor cancelled (`JobCancelRefused`).
- `BooksAgree` needs one request at a time: `_remainingAmount` is read before the
  transaction that records it.
- Earnings count refunds and the client's part of a split
  (`payments.service.ts:289`); the comment at line 240 speaks of REFUND where the
  code shows FULL_RELEASE.
- A withdrawal is answered CONFIRMED and paid by the platform's admin account,
  where `docs/api-reference.md:709-725` speaks of PENDING and a connected wallet.
- `walletStore.ts:20` says `publicKey` is null when disconnected; a second connect
  that fails leaves it set.
- The board fetches the first 100 open jobs (`lib/api/jobs.ts:149`): more are on
  no page.
- The comment at `lib.rs:184` takes 2,076,480 ledgers for a year; at its 5 s per
  ledger they are about 120 days.

## 6. Not modelled, and why

Counted in lines the map is small, for two reasons. More than half of the
implementation is Prisma's generated client (`backend/src/generated`, about
15,000 lines), which has no logic of this program; about 9,000 are
presentation: pages, forms, styles and mock data. What decides anything is in the
modules above.

- `backend/src/generated`: generated. Its semantics (unique columns, conditional
  updates, `$transaction`) is in the modules that use it.
- Pages, forms and API wrappers of the frontend: they show one response or mock
  data and keep no state beyond the page, except for the wallet and the board,
  which are modelled.
- Reading, searching and formatting endpoints that no property is about.
- XDR and the hashing of contract ids (`contractIdToSymbol`), passwords, cookies,
  role guards, throttling: pure data, configuration or libraries. `submitRelease`
  and `buildDisputeXdr` have no caller.
- Validation of DTOs, except where a property depends on it (amounts, bps, page
  and limit).
- `updateProfile`: guarded by a unique column as `create` is, and nothing depends
  on the profile.
- The lifetime of the escrow contract's own instance and code, which `lib.rs`
  never extends; restoring them is up to whoever runs it.
- Several jobs at once: contracts share no rows but those of one job; on chain
  they share the pool, which `Escrow` models, and the admin's sequence number,
  of which two concurrent calls of one contract already show the effects.
- Notifications in `ContractService`: they follow a handler's last write, and one
  that fails is like a handler that dies there.
- `main.ts`, `prisma.service.ts`: no state of their own.

## 7. Plan

1. Safety cores of the liveness properties that are left: `ReuseEndsEverySession`,
   `ClickIsAnswered`. Those of `EveryRequestIsAnswered`, `AllPaidCompletes` and
   `FilterSettles` are proved, and `RestingBalance` is that of `SpinnerStops`.
2. Two contracts in `ContractService` on one admin account, to see two jobs
   collide on a sequence number; two calls of one contract show the same effects
   today.
