# enterprise-system: a formal model

TLA+ modules for the parts of enterprise-system whose correctness depends on
the order in which things happen, the TLC runs that check them on small
instances, and proofs, checked by TLAPS, that hold for every instance. Paths
below are relative to the repository (`src/src/...` is its TypeScript,
`src/supabase/migrations/...` its SQL).

## 1. The system

The repository is an identity and ledger service: a NestJS application in
layers (domain, application, infrastructure, security, presentation) over a
PostgreSQL database whose SQL functions carry the financial logic, with Redis
as cache and as the queue of domain events.

| Part | State it keeps | Operations | What is hard about it | Model |
|---|---|---|---|---|
| Financial functions, `00005_financial_schema.sql`, `00007_secure_functions.sql` | accounts, transactions, ledger entries | `process_transaction`, `create_account`, the `validate_balance` trigger | concurrent sessions at READ COMMITTED, row locks and deadlocks, retried idempotency keys, checks on unlocked rows | `Ledger`, `AtomicLedger` |
| Rate limiter, `00003_security_infrastructure.sql` | a token row per action and claim | `check_rate_limit` | its row lock orders everything that follows | in `Ledger` |
| `CircuitBreaker`, `common/utils/async.util.ts` | state, two counters, the time of the next attempt | `execute`, the `state` getter, `reset`, the `onStateChange` callback | results of old calls arriving in a new state; a callback that throws | `CircuitBreaker` |
| `HttpClientService`, `infrastructure/external-services` | a circuit per named client | `request`, its retries, the interceptors, `onModuleDestroy` | the circuit is asked once, retries run on whatever it has become | `HttpClient` |
| `AuthService`, `JwtStrategy`, `security/authentication` | the sessions table | login, refresh, logout, revoke all, cleanup, validate | several statements per request, overlapping refreshes, crashes between statements, expiry | `Sessions`, `Rotation` |
| `User`, `domain/entities/user.entity.ts` | status, verification, version, events | activate, suspend, verify, change email, record login, ... | the version check depends on how often a user was changed | `UserEntity` |
| `UserDomainService`, `UserRepositoryImpl`, `UnitOfWork` | the users table | register, authenticate, change password, `save`, `delete` | look-up then write, optimistic concurrency, stale entities, events after the save | `Users` |
| `EventPublisherImpl`, `EventProcessorService`, `infrastructure/messaging` | the queue, the dead letter queue, "processed" keys, registered handlers | `publish`, `registerHandler`, `processEvent` | retries, slow workers, restarts, a cache that is down | `Events` |
| `retry`, `timeout`, `parallel`, `common/utils/async.util.ts` | the index of the next task, the errors | same | tasks go on after the caller has its answer | `Async` |
| `CacheService`, `@Cached` | Redis keys | `get`, `set`, `delete`, `getOrSet`, `invalidatePattern` | a stale value stored after an invalidation; commands that fail after they took effect | `Cache` |
| `ThrottlerGuard`, `security/rate-limiting` | a window per client and route | `canActivate`, the sweep | windows that lapse, bursts over their edge | `RateWindow`, `Throttler` |
| `EmailService` | a token bucket, attempts | `send`, `sendTemplate` | fractions of tokens, retries beside the bucket | `Email` |
| `EncryptionService` | derived keys, by version | `encrypt`, `decrypt`, `reEncrypt` | processes that run with different keys while they are rolled over | `Encryption` |
| `UserAggregate` | roles and sessions of a user, in memory | assign and remove roles, add and revoke sessions, suspend, ... | sessions and status change under one another | `UserAggregate` |
| Use cases, `application/use-cases` | a port of sessions | create user, authenticate, refresh token | the rotation of `AuthService` on another store, calls lost between two ports | `UseCases`, `Rotation` |
| `Result`, `domain/common`, `application` | none | `map`, `flatMap`, `filter`, `combine`, ... | which error a chain of calls ends with | `Results` |
| Pagination, `base.repository.ts`, `pagination.type.ts`, `pagination.dto.ts` | none | `findPaginated`, the two classes of metadata | two reads that nothing synchronises, rows that move between pages | `Paging` |
| HTTP pipeline: controllers, guards, pipe, interceptors, filters | requests in flight, windows | a request from arrival to answer | the order of guards, a timeout racing the handler | `Requests` |
| Bootstrap and shutdown, `main.ts` | listening, the forced exit's timer | signals, `app.close()`, uncaught exceptions | requests in flight when the process is told to stop | in `Requests` |
| Organizations and roles, `00004_core_schema.sql` | memberships | `change_member_role`, `validate_role_change` | two role changes that cross; comparisons with NULL | `Organizations` |
| Audit log, `00003_security_infrastructure.sql` | a chain of hashes | `write_audit_log` | two writers reading the same last row | in `Organizations` |
| Everything else | | | declarative or plain input and output | not modelled, see 7 |

How they interact: `UserDomainService` calls the repository (statements on the
users table) and hands the events of the saved user to `EventPublisherImpl`;
`EventProcessorService` takes them from the queue and uses `CacheService` to
remember which it has processed. `JwtStrategy` reads the sessions that
`AuthService` writes and the status that the user methods write. The SQL
functions call one another inside one transaction: `check_rate_limit` first,
then the tables, then the audit log. `HttpClientService` and `CircuitBreaker`
are two independent breakers; nothing in the repository combines them.

## 2. Modules

Every action is one handler, statement or callback of the code; its comment
says which. `PROJECT.json` ("map") gives the lines of every definition.

**Ledger.** One action per SQL statement that reads or writes shared rows. A
remote call is one transaction; nothing in the migrations sets an isolation
level, so a statement sees what is committed when it starts, row locks are held
to the end, and a RAISE undoes everything. What a call has written and not
committed is kept in `rate`, `sbal`, `dbal`; which rows it has locked follows
from its program counter (`HoldsSource`, `SharesDest`, `HoldsKey`,
`HoldsRateRow`). Lock waits are guards; a failed check, a deadlock victim
(`DeadlockAbort`) and a lost connection (`Disconnect`) end in `Rollback`. The
row locks include the key-share locks that PostgreSQL takes on the accounts a
new transaction refers to. An operator freezes and reactivates accounts at any
time (`SetStatus`), so also between the checks of the two accounts, which are a
statement each (`CheckSource`, `CheckDest`), and between a check and the writes.
`sighted` is a history: the accounts a call has looked up while they were
active.

**AtomicLedger.** What a client may expect: a call begins, looks at accounts,
and then has no effect or takes effect in one step, at the balances and keys of
that moment. Its accounts belong to the organization it names and were active
when it looked, at some moment since it began; they may have been frozen after
that. `Ledger` implements it under `open <- {accounts with a row}`, `active <-
{those whose status is active}`, `posted <- the arguments of the committed
transactions` and `begun <- {sessions with a call}`; `balance` and `sighted`
keep their names.

**CircuitBreaker, HttpClient.** The clock is a `Tick`; `Date.now()` is only
compared with one stored time, so the models keep the difference. A call in
flight remembers whether the service was up when it was sent. In
`CircuitBreaker`, `onStateChange` may throw in the middle of a transition, and
`execute` then takes the exception for a failure of the call. The history
`missed` names the assignments that this cut off (the timer, the reset of one of
the counters) and that no later transition or reset has made; the properties
excuse what goes back to one of these and nothing else.

**Sessions.** One action per statement of `generateTokenPair`,
`refreshTokens`, `revokeToken`, `revokeAllTokens`, `cleanupExpiredSessions`
and `validate`. A token stands for the session that stores its hash. Any
request may be lost between two statements (`Crash`), sessions expire, and
administrators change a user's status.

**Rotation.** What a client may rely on of refresh tokens, whatever stores
them: a token is live, then spent, and never live again; only a live token can
be claimed; a claim is traded for one new token, when the old one is spent, and
a second time only if two parties claimed it at once. `Sessions` implements it
with `claim <- the session a refresh has matched`, `UseCases` with the token a
call has found; the session of a login appears without a claim, and a crash
forfeits one. Expiry is no part of it: it keeps a token from being claimed, and
ends no claim.

**UserEntity, Users.** `UserEntity` is what each method makes of a user;
`Users` runs `save()` in its statements: look the row up, update it under the
version, or insert it. The unique index on `email` is the database's. The
repository goes through `prisma.client`, which `PrismaService` as committed
does not define; the model takes it for the Prisma client, which is how every
repository uses it.

**Events.** The publisher, the processor and the cache key, over a queue
described by what the code asks of it (job ids, three attempts with backoff, a
concurrency, locks that must be renewed). A slow slot loses its lock and goes
on; a restart takes all slots and the registered handlers with it; the mark of
a processed event lives for a day (`MarkLapses`), which an attempt may outlast.

**RateWindow, Throttler.** `RateWindow` is the window of `canActivate` as
operators on a store of windows; `Throttler` runs it against a clock and the
sweep, `Requests` uses the same operators for both instances of the guard. A
history counts, for each second, the requests let through since.

**Email.** Time and tokens are counted in parts of a token, so that a tick
refills a whole number of them. A send takes its token at once; its attempts
then succeed, fail for good or wait for their backoff.

**Cache.** `getOrSet` (and a method under `@Cached`) is a get, a computation and
a set; a caller that changes the source deletes the key after it. The source is
a version per key. Redis is external: a command fails before or after it took
effect, and an entry with a TTL lapses at any time.

**Async.** The three helpers put together as `timeout(parallel(tasks under
retry))`: the workers share the index of the next task, an attempt may never
end, and what a timeout or a rejection leaves behind goes on.

**Encryption.** Processes with a master key and a number of versions each seal,
open and seal anew what is kept in one place, and are started again with any
other configuration (`StartAnew`). A key is the master key and the version.

**UserAggregate, UseCases.** The aggregate moves its user by the operators of
`UserEntity`. Its sessions are an array of `SessionInfo`, to which `addSession`
appends what it is given: an id that is there already, or a session revoked
before it was added. `revokeSession` revokes the first of its id. Every call of
a port by a use case is a step; a call may be lost between two of them, and the
account changes status in between.

**Results, Paging.** Every chain of calls on a `Result`, whose callbacks return
what the environment likes. A client that walks the pages while rows come and
go, each page being two reads that `Promise.all` leaves unsynchronised.

**Requests.** The place a request has reached (guards, throttling, pipe,
handler, done), its answer and its effect. The decorators of every route and
the tables of the filters are operators; the verdicts of passport and
class-validator, and what a handler does, are inputs. The server listens,
closes, drains and exits.

**Organizations.** One action per SQL statement of `change_member_role`, its
trigger and `write_audit_log`, with the same conventions as `Ledger`. An audit
row is named by the time its transaction began, which is its `created_at` and
goes into its hash. `stale` and `overtaken` are histories: they record
whose role was changed by somebody else since it was read.

## 3. Runs

| Run | Question | Instance and why it is large enough |
|---|---|---|
| `ledger` | Do balances, entries and the plan limit stay right, and is every call atomic? | Three sessions, two under one claim; four accounts, one credit; transfers in both directions, a shared key, a withdrawal, refused calls; up to three calls; an account that is frozen and reactivated. Every pair of statements of every pair of calls interleaves, and a third call sees the outcome. `Members` swaps the two sessions of equal claim, which no property tells apart. |
| `ledger_liveness` | Does every call return? | Three claims and transfers that wait for one another in a ring of three, the smallest deadlock that is not a pair. |
| `ledger_replay` | Is a repeated key answered with the existing transaction? | The instance of `ledger`. It is not: a row with a null column is not `IS NOT NULL`. |
| `circuit` | Does the breaker open, reject, try and close as documented, and recover? | Three calls in flight, threshold 3, two successes to close, a timeout of two ticks: late results from before the opening reach every later state. |
| `circuit_reopens` | Does a half-open breaker reopen on failures only? | Two calls, thresholds of two, a timeout of one tick. It does not: an observer that throws as a success closes the breaker makes that success a failure. |
| `http` | The same for the circuit of a client whose requests retry; does every request end? | Two requests of two attempts; a window of three ticks is longer than the timeout of two, so successes fall inside and outside it. |
| `sessions` | Is every behaviour one of `Rotation`, does revocation hold, are inactive users barred? And, for role changes: may whoever changes a role, and where does the audit chain fork? | Two requests, three sessions (one rotated twice, or two logins and a rotation); every statement names one user, so one is enough. Two members, their roles and activity arbitrary but for one founder, and three calls in two database sessions: two that cross and a third that finds what they left. The two parts share no state and run in separate behaviours. |
| `users` | Are addresses unique, are no writes lost, refused without cause, or made to a suspended user? | Two ids, two addresses, two calls, three versions: a loser of a race, and a third edit after it. |
| `users_created` | Is UserCreated published? | The same instance. It is not. |
| `requests` | Does nothing happen for a caller who may not, do answers tell the truth, is anyone kept waiting, does a clean exit cut off only what has been answered 408? | Two requests of three callers (who may, who may not, who is not known) at two routes (one public, one with roles and permissions); a budget of one, so that the second is throttled; three kinds of error. |
| `services` | The window, the bucket, the cache, the helpers, the keys and the events, each in its own behaviours. Of events: is one marked only when handled, handled again only for a cause, and settled in the end? | Two clients, one with a limit of one and a span of two seconds, the other the reverse, for five seconds; three sends over two tokens, two attempts each; two callers of one key whose source changes twice; four tasks for two workers, so that one can go on while the operations of the other hang; two processes, two master keys, two versions; one event (events share nothing but slots), two slots so that a slow attempt and its successor overlap, two handlers so that one can fail after the other, three attempts, one stall (what BullMQ allows unless told otherwise), one restart. |
| `domain` | The aggregate, the use cases (as an implementation of `Rotation`), `Result` and paging, each in its own behaviours. | Two sessions of one user; two overlapping use cases over four refresh tokens; chains of three calls; a walk of pages of at most two over up to five rows, three of them there from the start. |

Bounds, named in the modules: `MaxCalls`, `MaxBalance`, `Freezable` (`Ledger`);
`CountCap` (the breakers, which only compare counters with thresholds below
it); `Session`, `Request` (`Sessions`); `MaxVersion`, `EditCounts` (`Users`);
`MaxHandlers`, `MaxStalls`, `MaxRestarts` (`Events`); `MaxSeconds`
(`Throttler`), `MaxTicks` (`Email`), `MaxVersion` (`Cache`), `MaxVersions`
(`Encryption`), `Tasks`, `Concurrency`, `MaxAttempts` (`Async`); `MaxCount`,
`MaxSessions` (`UserAggregate`), `Token` (`UseCases`), `MaxCalls` (`Results`), `Row`
(`Paging`); `MaxNow` (`Requests`); `MaxClock` (`Organizations`). `TxnTokens`,
`CreateTokens`, the limits of the windows and `RateLimit` stand for larger
numbers of the code, small so that they run out.

Deadlock is not checked where a behaviour may stop: when the calls, ids, events
or clock of its bound are used up (`ledger_liveness`, `sessions`, `users`,
`users_created`, `services`, `domain`), or when the process exits (`requests`).
In the other runs it is.

Each property of a passing run has a mutant in `PROJECT.json`: a plausible slip
in the code (a lock not taken, a check on the wrong version, a counter not
reset) under which TLC finds the property violated.

## 4. What the runs show

*Ledger.* The FOR UPDATE on the source, the unique index on the key, the CHECK
on the balance and the row that `check_rate_limit` leaves locked are together
enough: all interleavings implement `AtomicLedger`, at READ COMMITTED and not
SERIALIZABLE as the header says. The plan limit, counted on unlocked rows, is
safe only because calls under one claim are serialised by their rate row
(`SameClaimSerial`). Nothing keeps the accounts active from the check to the
commit: a transaction may be posted to an account frozen in between, and the
refinement promises only that each account was active at some moment since the
call began. Deadlocks do occur; the database breaks them and every
call returns. `write_audit_log`, with which every call ends, names functions
that its empty `search_path` does not find (see the findings); the models say
what the functions do where these names resolve.

*Breakers.* Both open only after the documented number of failures, hold for the
documented time, and recover once the service does. An observer that throws
breaks each of these: as a success closes the breaker, the exception becomes a
failure counted on top of those of before, and the breaker reopens (the run
`circuit_reopens`); as a failure opens it, the timer keeps its old time. What
goes wrong then goes no further than the next transition that is completed.
Neither limits the number of calls while half-open. A circuit of
`HttpClientService` counts failures however far apart, and its retries go on
while it is open.

*Sessions.* After rotation the old session is never live again, a second use
of a token succeeds only when both refreshes searched before either revoked,
and revoking all sessions with no request under way locks the user out until
the next login. Both implementations of the refresh, this one over the sessions
table and the use case over its port, refine the same `Rotation`.

*Users.* One counted change per save makes the version check exact: it neither
loses a write nor refuses one without cause, and a suspension between check
and save makes a login fail. With `EditCounts = {1, 2}`, that is when an edit
counts two changes before it is saved, both fail; the run assumes `{1}`. Ids that have
been deleted are exempt, because `save()` of a deleted user inserts it again.

*Events.* Nothing is marked half-handled; handlers run again only after an
attempt that threw, was lost or overlapped, when the cache was away, or when the
mark had lapsed while the queue still had the event.

*Windows and buckets.* The guard lets at most twice its limit through in any
stretch as long as its window, the run reaches that, and it refuses only what
a full window justifies. The mail bucket allows its size, what a stretch
refilled, and less than one send more; the attempts after the first take no
token.

*Cache.* A stale entry has a deletion under way, a deletion that failed, or a
`getOrSet` that computed before the change and stored after it. Every entry
has a TTL, so once the source is left alone the cache agrees with it again.

*Helpers.* What `parallel` answers is true of its tasks, and its workers never
hold the same one. One worker whose operations end is enough for every task to
be taken, unless it throws in a call that fails fast: neither the operations
that hang in other workers nor the answer of `timeout` stop it.

*Encryption.* Keys may be rotated in any order: what cannot be opened met
another master key or a process that knows fewer versions.

*Aggregate and use cases.* A user who is suspended or deactivated has no session
left, and none of the entries revoked then becomes live again, whatever happens
to the status later. The use case of refreshing keeps the promise of
`AuthService` on its own store: one token, one successor, unless two calls
overlapped.

*Result, paging.* A chain ends with the first error that entered it. A walk
misses a row only after a deletion, or an insertion between two reads of one
page, and repeats one only after an insertion.

*Requests.* No handler acts for a caller its route does not admit; a client
error is final; 408 says nothing about the effect. The exit with code 0 may
cut off a handler in the middle of its work, but only one whose client has been
told 408; a hanging handler without a timeout delays it until the forced exit.

*Roles.* A role is changed by one who may at the moment of the commit, except
by callers without an active membership, whose NULL role passes every check,
and by those whose own role was changed by a call that crossed theirs: two
owners can demote one another. The audit chain forks only where transactions
overlapped.

`PROJECT.json` ("findings") lists every place where code and documentation
part, with both lines quoted; those a run shows name the run.

## 5. Fairness

`Ledger`: a session whose statement can run runs it (WF on `Statement(c)`);
a statement waiting for a lock is not enabled, and `Statement` includes
`DeadlockAbort`: a session in a circle of waiting sessions is rolled back, as
PostgreSQL's deadlock detector does. `CircuitBreaker`:
the clock ticks, callers call, calls settle. `HttpClient`: the same, and an
attempt that is sent again and again to a service that is up is answered
(SF on `Answered`), because a request in flight may fail or be answered and
neither may be starved for ever. `Events`: a slot goes on with its job, the
worker takes what waits, the queue wakes what is delayed and takes back what
nobody works at. No fairness is assumed of failures, crashes, restarts,
status changes or of the environment's calls. `Cache`: a call that was made goes on
(WF on `Go(c)`) and an entry with a TTL lapses (WF on `Lapse(k)`): Redis drops
it. `Async`: a worker between two operations takes the next task, leaves, or tries
again when its sleep is over; nothing is assumed of the operations, and the
property names the workers whose operations end.
`Requests`: the guards and the pipe go on with a request, the timers of
`TimeoutInterceptor` and of the forced exit run, and a server that is told to
stop stops listening and exits when nothing is open; handlers may hang for
ever. The other modules are checked for safety only.

## 6. Proofs

The theorems hold for every value of the constants allowed by the ASSUMEs of
the modules: any number of sessions, accounts, callers, calls and any bounds.

**LedgerProofs.** The properties speak of committed rows, and are not inductive:
what keeps them true is what each session knows about the rows it has locked.
`IInv` adds `CallKnown` (a session's arguments are those of a call and the rows
it has looked up exist), `RowsStillAsRead` (what it has computed is still true
of the committed rows) and `LocksCompatible` (no two sessions hold locks that
conflict). One lemma per statement shows `IInv'`; most touch no committed row
and go through `PlainStatement` and `SessionStep`. The commits carry the weight:
`RowsApart` shows that a committing call changes no row another session relies
on, `LedgerStep` that the new entries explain the new balances. From
`Invariance` follow `TypeCorrect`, `LedgerExplains`, `NeverOverdrawn`,
`PlanLimit`, and `KeyOnce` and `ClaimSerial`, which no run lists: the first
follows from the refinement, the second from the lock. `ChecksRemembered` (`Spec
=> []SightInv`) adds that a call past its checks has sighted the accounts it is
about to write. `Refinement` (`Spec => ImplementsAtomicLedger`) maps the start
of a call to `Begin`, a statement that finds an account active to `Look`,
`CommitTxn` to `Post`, `InsertAccount` to `Create`, a refused, aborted or lost
call to `Fail`, `SetStatus` to `SetActive` and every other step to a stutter. It
needs `IInv` to show that what was read of balances and keys still holds at the
commit, and `SightInv` for the accounts.

`MoneyStays` (`Spec => []MoneyConserved`) is a statement about sums over the
set of accounts and over the growing set of withdrawals. The sum is the fold of
the community modules, defined by a recursion over `CHOOSE`; the section "Sums
over finite sets" proves what is needed of it without the induction theorems,
by a minimal counterexample: of the finite sets for which a fact fails, one has
the least number of elements (`LeastSubset`). The fold has a value (`SumsExist`),
it splits off any element (`TotalSplits`), and changing one summand changes the
sum by the difference (`TotalChange`). With these, only a commit changes either
side (`OnlyCommitsPost`), and it moves money between two accounts or adds one
withdrawal (`CommitMovesBalance`, `CommitAddsWithdrawal`). `Account` is assumed
finite.

**CircuitBreakerProofs, HttpClientProofs.** `IInv` relates the counters of the
code to the runs of outcomes they stand for (`CountsKnown`, `BooksKnown`:
`failureCount <= badRun` while closed, `successCount <= goodRun` while
half-open), in `CircuitBreaker` unless `missed` says that the reset of the
counter was cut off. From it follow the type invariants, `ClosedBelowThreshold`
(for every observer), `OpenHolds`, `TrialsStartAfresh` and the action properties
on opening, reopening (`ReopensAfterFailure`: a half-open breaker reopens on a
failure, or in the very step in which the observer threw as a success closed it)
and closing.

**SessionsProofs.** `IInv` adds what the properties leave unsaid: tokens and
parents refer to sessions that exist (`RefersToBorn`; otherwise a new session
could be born already traded in), the right to trade a session in is held by
one request and is gone once a child exists (`OneTrade`), and a barred request
belongs to a user who is not ACTIVE (`BarredInactive`). One lemma per action,
one step per conjunct. `OneTrade` gives `SecondUseOverlaps`. `SessionsRotate`
(`Spec => SessionsImplementRotation`) maps `Issue` to `Login` or `Trade`, a
refresh that matches to `Claim`, the statements that set `revoked_at` to
`Spend`, and the end of a request to `Forfeit`: `RotationRevokes` gives the
guard "spent" of `Trade`, `OneTrade` the guard on a second one.

**UsersProofs.** `OneEach` (an address has one row) is kept by `EmailFree` in
the writing statement alone, whatever edits count. The rest rests on
`VersionsTell`: for a call that has loaded a user and whose edits count one
version before they are saved, the row still has the version loaded if nobody
has written it, and a later one otherwise. `RegisteringAlone` says that a user
being registered is not touched by anyone else, so that its save inserts.
`LoadInv`, `WriteInv` and `ReturnInv` do the work for the actions that load,
write and return. `AddressesUnique` holds for every `EditCounts`;
`UpdatesAreSeen`, `ConflictsAreReal` and `LoginsAreActive` assume
`EditCounts = {1}`.

**ServicesProofs.** `Throttler`: `Books` says what a window, or its absence,
knows of the requests let through in any stretch; it is kept when a window
opens over the remains of its predecessor, which is where the factor two comes
from. `Email`: `TokensConserved` balances what was taken and what is left
against a full bucket and the ticks refilled. `Encryption`: `LabelsTrue` (the
label is the version that sealed). `Cache`: `OvertakenKnown` (a value about to
be stored is the source's or known to be overtaken). `Async`: `TasksAccounted`
(a task that was taken has ended or is held by a worker), which turns "every
worker left" into "every task ended".

**DomainProofs.** `UserAggregate`: `OutcastRevoked`. `UseCases`: `ClaimsStored`
and `ClaimsRaced` (a token claimed twice was found twice before it was revoked),
`LateKnown`; the first two also give `UseCasesKeepRotation`, the refinement of
`Rotation`. `Events`: `AttemptsLeft` and `HandlersCounted` say where a job is
and what its attempt has done; `HandlingsPaid` is a budget: the handlings of an
event by a handler, plus those an attempt under way still has `Ahead`, plus the
`Credit` of a job that will be tried, are at most one more than the excuses so
far, of which a mark that lapsed is one. Slots are assumed finite, for
`Cardinality`. `Organizations`: `RowsLocked` and `ChecksHold` (what a call has
read of its actor is still so unless a history says otherwise) give
`ChangesEarned`; for the forks, `LogOrdered`, `CallsOrdered` and `SeesEarlier`
(no row, and no call about to log, passed over a row that was committed before
it began). `Results`: `ResultsIInv` says of every Result of a chain so far
(`FailedSince`: which were values, where the error came from, which call renamed
it last) what `FirstFailureStands` says of the one at the end, so that the next
call can be judged by what it follows. `Paging`: `ReadUpTo` is how far into the
table the client has read. Without insertions a row that was seen only moves
forward, so that none behind `ReadUpTo` has been seen; without deletions a row
that was there from the start only moves back, so that every such row up to
`ReadUpTo` has been seen (`PagingIInv`). The walk ends where the count says;
what the ceiling in the page count leaves behind `ReadUpTo` is a lemma of its
own (`NextPage`). Rows are assumed distinct, as ids are.

`RotationSound` (`UseCases`) and `RotationRevokes` (`Sessions`), what the two
refinements say of parents in one state, are theorems that no run lists: they
are conjuncts of the inductive invariants, and the runs check the refinements.

**RequestsProofs.** `PlacesHonest` says what a request can have behind it by
its place: admitted beyond the guards, without effect before the handler,
unanswered but for a timeout while in it. With it, "every request is answered",
which is what `close()` waits for, becomes "every request is done, or its handler
goes on and its client was told 408". For routes in use (`Route # {}`) and
errors as the filters map them: a status of 401 or more, and never 429, which
only the guard answers.

Model-checked only: the liveness properties (`CallsEnd`, `Recovers`,
`RequestsEnd`, `AlwaysTried`, `EventsSettle`, `CacheCatchesUp`,
`TasksGoOn`, `NobodyWaits`), because the proof system does not reason about
fairness. Every invariant, every action property and every refinement that a
passing run checks is a theorem.

## 7. Not modelled

- Formats, hashing, signatures, headers, log lines, metrics, traces, dates and
  configuration: data and output that no property tells apart. The value
  objects validate and normalise such data.
- Row level security, grants, and the policies on members are predicates on
  rows without behaviour; the intrusion triggers write alerts that nothing
  reads; each read function is one SELECT.
- The health check probes external systems and keeps no state; the readiness
  route of the controller does not ask it.
- `UnitOfWork`: its retry and nesting are Prisma's. What it leaves behind when
  it times out is in `Users`.
- Cursor pagination and sorting by other columns; `Result.all`, which throws
  whenever it has something to do; `has()` and the statistics of the cache;
  random tokens and comparisons of `EncryptionService`.
- The audit decorator and the logging interceptor write log lines. Middleware
  settings and Swagger are configuration.
- Invitations and the insertion of members, for which the schema has columns
  and a policy but no function.

`PROJECT.json` ("components") gives the reason for each part.

## 8. What is left

1. `Events` over `Cache`, instead of the two commands it uses of it, and more
   than one name of event.
2. Role changes and transactions in one model: `Ledger` and `Organizations`
   use the same rate limiter and audit log.
3. The two uses of `RateWindow`, in `Throttler` and in `Requests`, under one
   abstract limiter, and `Users` under an atomic `save`, as `Ledger` is under
   `AtomicLedger`.
