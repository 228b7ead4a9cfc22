# ShortLinks in TLA+

ShortLinks is a self-hosted URL shortener: one Go process (`cmd/shortlinks`)
over PostgreSQL, an in-process Ristretto cache, passkey sign-in and a Svelte
dashboard fed by Server-Sent Events.  This directory holds TLA+ models of the
parts of it where concurrency, caching and partial failure make correctness hard to
see, the TLC configurations that check them, and proofs checked by TLAPS.
Every definition that models code names, in `PROJECT.json` under `map`, the
lines it stands for.

## The system

    browser --- POST/PATCH/DELETE /api/links ----> LinksHandler ---> filters (RuleCache)
       |                                              |   |              links.Store --> PostgreSQL
       |                                              |   +-- evict --> cache.Cache (Ristretto)
       |                                              +-- Publish --> events.Broker --+
       +--- GET /api/events (SSE) <----------------------------------------------------+
       +--- GET /u/{key} ------> Redirect --> links.Resolver --> cache.Cache, links.Store
       |                             +-- after the answer --> clicks.Recorder --> PostgreSQL
       +--- /auth/*, /account/* -> auth.{Login,Registration,Recovery,...}Service --> PostgreSQL
       +--- /admin/* ----------> users, url_filters, settings, audit

| Component | State | Operations | What is hard | What makes it correct | Module |
|---|---|---|---|---|---|
| URL filter rule cache (`internal/cache/rules.go`, `internal/handlers/url_filters.go`) | `url_filter_rules`; in memory a snapshot with its load time, under a mutex | check on every link creation; create, update, delete a rule, then `Invalidate` | a load under way while a rule changes; failed loads; a mutation that commits but is never followed by `Invalidate` | a check uses rules at least as new as every mutation answered before it began; a failed load never lets a URL through | `RuleCache` |
| Redirect path (`internal/links/resolver.go`, `internal/cache/cache.go`, `internal/handlers/redirect.go`) | `links` row; Ristretto's store, policy and queue | resolve (positive and negative caching), evict on PATCH and DELETE | read, write, evict, then insert; the cache's own queue; creation and reactivation evict nothing | stale copies are doomed or explained, and vanish within the TTL | `RedirectCache` |
| Link store (`internal/links/store.go`, `internal/links/keygen.go`) | `links` | deduplicated create, custom alias, denied link, batch, PATCH, DELETE | READ COMMITTED, row locks, unique keys, deadlock, rollback, a lost confirmation of a commit | a match is stable until it is merged into, nothing is overwritten or cleared, batches are all or nothing, denied links never redirect | `LinkStore` |
| Live events (`internal/events/broker.go`, `internal/handlers/events.go`, `web/src/views/Dashboard.svelte`) | subscriber slices and channels; per tab the list on screen | subscribe, unsubscribe, publish, deliver | closing a channel against a send, full buffers, page load against subscription | exact registry, no send on a closed channel, no other user's links, publishing never blocks | `EventBroker` |
| Sessions (`internal/auth/login.go`, `recovery.go`, `store.go`, `users.go`) | `sessions`, `webauthn_challenges`, `users.active`, `passkey_credentials.sign_count` | sign-in, recovery, the session guard, sign-out (one, all), deactivate, reactivate | flags read before a transaction, row locks, snapshots of DELETE, an answer posted twice, deadlock | one session per challenge, no request served for an inactive account, deactivation leaves no session | `Sessions` |
| Registration, recovery, passkey removal (`internal/auth/registration.go`, `recovery.go`, `store.go`) | `users`, `pending_registrations`, `webauthn_challenges`, `passkey_credentials`, the setting `registrations_enabled`, the connection pool | start, verify, finish; revoke a passkey; switch registration on and off | one table for two kinds of token, a mail followed twice, an answer posted twice, waits for indexes, rows and foreign keys, a second connection asked for inside a transaction | one passkey per mail, one registration per account, an administrator wherever there are accounts, a ceremony as a whole or not at all, never the last passkey removed | `Registration` |
| Campaigns (`internal/campaigns/store.go`, `internal/handlers/campaigns.go`) | `campaigns`, `links.campaign_id` | create with a slug search, edit and archive, delete, assign, unassign, batch-create links | slug chosen and inserted in two statements, dates judged against an older row, the cascade of a delete against assignments, deadlock | unique slugs, ordered dates, no link in a campaign that is gone, every operation as if atomic | `Campaigns`, `CampaignBoard`, `CampaignDates` |
| Clicks and statistics (`internal/clicks`, the reads of `internal/handlers/{links,campaigns,campaigns_export}.go`) | `clicks` | record after the redirect; roll-up, detail pages, export | recorded while the link moves or its campaign goes; an answer put together from several queries; default windows; the cap on the chart's lines | parts of one answer agree, history is not rewritten, no click in a campaign that is gone | `ClickStats` |
| Development store (`internal/devstore`) | slices and counters under a mutex | what links, campaigns and rules offer to the handlers | the mutex covers a call, handlers make several | behaves like the campaign tables unless a handler acts on what has changed since it looked; keys and ids name one thing; a batch is whole | `DevStore`, `CampaignBoard`, `CampaignDates` |
| Rate limiter (`internal/middleware/ratelimit.go`) | a limiter per address | allow or 429 | the map only grows | | not modelled |
| Audit log (`internal/audit`) | `audit_log` | append, inside the transaction or fire-and-forget | the foreign key's row lock; lost entries | | not modelled (its row lock is in `Sessions`) |
| QR codes, CSV writing, startup, configuration, migrations, views | | | pure rendering, wiring | | not modelled |

How the components interact: link creation asks the rule cache, then the link
store, then publishes to the broker; it does *not* touch the redirect cache.
PATCH and DELETE write the store and evict the redirect cache.  `POST
/api/campaigns/{id}/links` (batch) evaluates the rules once per row through the
same rule cache before `CreateLinksBatch`.  Every authenticated handler runs
behind `ResolveSession`.  All shared state is either PostgreSQL rows, or memory of
the one process under a mutex (`RuleCache.mu`, `Broker.mu`) or inside Ristretto.

## The modules

| Module | Models | Checked by |
|---|---|---|
| `FilterBoard` | abstract: what the URL filter promises, with no cache in it | refined by `RuleCache` |
| `RuleCache` | the rule snapshot, its loader and the admin mutations | `MCRuleCache`, `RuleCacheProofs` |
| `RedirectCache` | one short key: its row, its cache entry, Ristretto's queue, redirects and writers | `MCRedirectCache`, `RedirectCacheProofs` |
| `LinkStore` | the links of one user under concurrent creates, PATCH and DELETE | `MCLinkStore`, `LinkStoreProofs` |
| `EventBroker` | the hub, its publishers, the stream handlers and the dashboards | `MCEventBroker`, `EventBrokerProofs` |
| `Sessions` | sign-in, the guard, sign-out, deactivation | `MCSessions`, `SessionsProofs` |
| `Registration` | registration and recovery tokens, the first administrator, passkey removal, the connection pool | `MCRegistration`, `RegistrationProofs` |
| `CampaignBoard` | abstract: what the campaign endpoints promise, with no statement and no lock in it | refined by `Campaigns`; `DevStore` says in which steps it departs from it |
| `CampaignDates` | the dates of a campaign, their order, and what a PATCH makes of them | extended by `Campaigns` and `DevStore` |
| `Campaigns` | campaigns and the links in them, statement by statement | `MCCampaigns`, `CampaignsProofs` |
| `ClickStats` | clicks, and every answer counted from them | `MCClickStats`, `ClickStatsProofs` |
| `DevStore` | the development store under the handlers that call it | `MCDevStore`, `CampaignsProofs` |

The grain is the same everywhere.  An action is what other goroutines or
transactions cannot see the inside of: one SQL statement, one critical section,
one channel operation.  What a request has read and not yet used sits in its
local variables (`got`, `ver`, `seen`, `job`, `target`, `snap`), so that everything
between two steps can happen in between.  History variables (`must`, `acked`, `lived`,
`raced`, `stay`, `owed`) appear in no guard; they only let a property speak about the past.

**RuleCache.**  A rule set is the set of destinations it blocks and each
committed mutation makes a version.  `Rules()` on a fresh snapshot is one step
(`RulesHit`, a critical section without a call in it); on a miss the mutex `mu` is
held over `LoadSelect`, when the statement takes its snapshot, until `LoadStore`
or `LoadError`.  `MutateRuleLost` is the mutation whose statement commits while
the handler sees an error and returns before `Invalidate`.  Which regular
expression matches which URL is data here: `blocked`.

**RedirectCache.**  A version of the row is what a redirect sees; its status tells 302,
404 and denied apart.  Ristretto is external and modelled from how
`internal/cache/cache.go` uses it: an update of a stored key is immediate, an insert is queued or
dropped, `Del` removes at once and queues a removal, one goroutine applies the
queue, entries can be victims at any time.  A new operation on the key waits for
no other: the two requests and the writer are only how many are under way at once.
A denied row exists only once a POST has made it.  Expiry of links (410) and UTM merging depend on nothing that races and are left out.

**LinkStore.**  PostgreSQL at READ COMMITTED: a locking SELECT takes candidates
from its snapshot (`Lookup`), then waits for each row and tests it again in its
newest version (`LockRow`, `SkipRow`).  A transaction sees its own inserts and an INSERT
waits for another transaction's uncommitted key (`Free`, `WaitsFor`), so two batches can
deadlock; `DeadlockAbort` is PostgreSQL's answer.  Every commit may be reported
as an error although it happened.  `meta` stands for campaign, UTM and
placement columns together, which `applyRequestedMetadataTx` treats alike.

**EventBroker.**  A channel is known by its tab.  `FanOut`, `Send`, `Return` are
`Publish` under the read lock, one non-blocking send at a time; `Subscribe` and
`Unsubscribe` exclude them.  The dashboard's page load and its stream are
independent, as they are in `Dashboard.svelte`.

**Sessions.**  Row locks carry PostgreSQL's modes: `update` (FOR UPDATE, DELETE),
`nokey` (UPDATE of other columns), `share` (a foreign key).  A DELETE by user finds rows
in its snapshot (`Find`) and takes them one by one (`Reap`).  `ResolveSession` is
its UPDATE in two steps, the snapshot (`Match`) and the row as it is once the lock
is had (`Bump`), and the diagnosis after a miss.  A session is known by the request
that created it, because tokens are fresh.  A login locks its passkey's row just before its
user's row; besides logins only the removal of a passkey locks that row
(`RevokeCredential`, in `Registration`), and it wants nothing that this module locks.  So the
user's row stands for both.  A crash of the
server aborts its transactions, which `Abort` does one at a time.

**Registration.**  A token is known by the start request that mailed it, a challenge by the
verify request that issued it, a passkey by the finish request that added it; so "the
same answer posted twice" is two finish requests for one challenge.  Registration and
recovery share `pending_registrations`, and no column says which of them made a row:
`LookupToken` accepts either page for either mail, as the code does.  A ceremony's
transaction is `Begin`, `Consume` (DELETE ... RETURNING every challenge of the token),
`Lookup`, `Count`, `CreateUser`, `DeletePending`, `CheckReferences`, `Commit`.  `Lookup`
is the statement that goes to the pool and not to the transaction: it needs a
connection besides the one it holds (`Spare > 0`).  Locks are those of the unique index
on `email` (`CreateUser` waits for an uncommitted account), of the rows deleted, and of
the foreign key from challenges to their token.  `RevokeCredential` locks the
account's passkeys (`FindKeys`, `LockKeys`) and then deletes one.

**CampaignBoard, Campaigns.**  The board has campaigns with a slug, and for each link
the campaign it is in; its actions are whole operations.  `Campaigns` has the requests:
what one looks for (`Find`, `Read`, `GetLink`), the snapshot of its UPDATE (`Update`), the row
it then waits for and tests again (`Hold`, `LockPatch`), the foreign key's lock on the
campaign (`Share`), and the delete whose trigger finds links first (`Cascade`) and
frees them one by one (`FreeLink`).  `UNIQUE (user_id, slug)` and the CHECK on the dates
are part of the statements they judge.  The refinement mapping is the identity on
committed rows: whatever requests do in their transactions is a stutter of the board
until they commit, and the commit is one of its operations.

**ClickStats.**  A redirect starts a goroutine; its INSERT ... SELECT is two steps, the
link's row in the statement's snapshot (`SelectLink`) and the check of the
foreign key (`Insert`), with a loss (`Lose`) instead of either.  A reader runs the
statements of its endpoint in the order `Plan` gives; those of a campaign share the
snapshot that a REPEATABLE READ transaction takes with its first statement (`Seen`,
`Take`), those of a link page see the table of the moment.  The dates of a campaign may
have been edited at any time, so `ResolveWindow` finds any of `Schedules` in its row.  Queries are operators over
that table: windows that include their start and not their end, bots apart, the
breakdown cut to `SourceCap` values, the chart with `SeriesCap` named lines
and "Other", the roll-up by link, the export's rows, shares and dates.

**DevStore.**  One call of the store is one action, because of its mutex; a handler that
calls twice (find the campaign, then assign; look at the rules, then insert; read a campaign
and judge its new dates, then write them) is two.
Ids count upwards and slices keep their order, which `TypeOK` says and the
other properties rest on.  It is mapped to the same `CampaignBoard` as it is, row by row: a link
is in the campaign whose id it holds, also when that campaign is deleted, because `cloneLink` keeps
the id and `toLinkView` emits it as `campaign_id`.  There is no foreign key and no CHECK, so it
is not an implementation of the board; `DriftsOnlyWhenStale` says where it departs (`StaleMove`,
`StalePatch`) and that every other step is a step of the board.

## What is checked

| Run | Properties | What it shows |
|---|---|---|
| `rule_cache` | `RulesInv`, `FreshAfterAck`, `NoBypass`, `RefinesBoard`, `EventuallyCurrent` | no check uses rules older than a mutation already answered, also when a load was under way; a failed load never decides; the cached filter implements `FilterBoard`; the TTL brings in a mutation that was never invalidated |
| `redirect_cache` | `CacheInv`, `StaleIsDoomed`, `DeletedStays404`, `Converges` | after an eviction, older copies in the cache or its queue are about to be removed, unless a redirect had read the row before the write; outside that race a deleted link is a 404; without further writes, redirects end up answering from the current row |
| `redirect_cache_delete` | violates `NextRedirectReReads` | that race exists: a redirect that had read the row caches it behind the eviction, with no removal queued, and later redirects use it |
| `link_store` | `LinksInv`, `MatchStable`, `NoNeedlessInsert`, `CreatePreserves`, `AllOrNothing`, `EveryCreateIsAnswered` | the answer of a deduplicated create is true at its commit; a duplicate needs a parallel writer; nothing is stolen, re-pointed, switched off or cleared by a create; requests insert everything or nothing; no order of requests makes a denied link redirect; waiting for rows and keys ends, deadlocks included |
| `link_store_duplicate` | violates `NoDuplicate` | two parallel creates of a new URL both insert |
| `event_broker` | `BrokerInv`, `NoSendOnClosed`, `PublishReturns`, `EventuallyShown` | swap-and-truncate removes the right channel; no panic on a closed channel; a stuck reader delays nobody and costs only itself |
| `sessions` | `SessionsInv`, `OneSessionPerCeremony`, `InactiveNeverServed`, `DeactivationSignsOut` | deactivation catches logins and recoveries in parallel with it, and the guard lets nobody of an inactive account through, because of the row locks and their order; what was revoked stays revoked |
| `sessions_live` | `EveryRequestEnds` | waiting for rows ends, also for `LogoutAll` against `DeactivateUser`, which can deadlock |
| `registration` | `AccountsInv`, `TokenSpentOnce`, `NeverLockedOut`, `CeremonyAtomic`, `NeverStuck` | one mail makes one passkey and one account at most, however often it is followed or answered; challenge, account, passkey and token come and go together; parallel removals leave a passkey; nothing waits for ever, with the exception the property names, a client that has to give up on an exhausted pool |
| `campaigns` | `CampaignsInv`, `ChangesOnlyAsked`, `RefinesBoard`, `NeverStuck` | concurrent campaign requests leave what some sequence of atomic operations would; dates stay in order although each PATCH is judged early; a link moved meanwhile is not removed from where it went; the circle of a delete and an assignment is broken |
| `click_stats` | `ClicksInv`, `AnswerConsistent`, `WindowsSound`, `HistoryKept` | the parts of a campaign's answer count the same clicks whatever is recorded or moved while they are read; the capped chart is the top of the list beside it; an export's rows stay within its total, a link's total is never ahead of its breakdown; an answer over the campaign's own dates shows only days that are over, one of a campaign yet to begin shows nothing, and its file is still named for dates in order; no click is left in a campaign that is gone, and none leaves the campaign it was counted for |
| `dev_store` | `StoreInv`, `BatchWhole`, `DriftsOnlyWhenStale` | the development store departs from the board that PostgreSQL implements in two ways only: links get the id of a campaign deleted since the handler found it, dates are put out of order by a PATCH judged on others; and an id is never used again, so a dead one stays dead |

An invariant whose name ends in `Inv` is the state invariant of its module: `TypeOK`
together with named facts about its tables, its locks and what each process has in hand.
It is the invariant the module's proofs start from, so these runs also check that the
proofs argue about the right thing.

| Invariant | Parts besides `TypeOK` |
|---|---|
| `RulesInv` | `LockInv`, `SnapInv`, `FreshAfterAck`, `NoBypass` |
| `CacheInv` | `SoundCopy`, `SoundReads`: every copy and every read is of a committed version; what is stored is known to the policy |
| `LinksInv` | `DeniedNeverActive`; `Holdings`: a transaction holds the rows and keys its progress says |
| `BrokerInv` | `Registered` (the registry is exact), `Publishing`, `OwnLinksOnly`, `NothingLost` |
| `SessionsInv` | `LocksOK`, `FinishOK`, `CheckOK`, `OpOK` (what each request holds and may rely on), `RevokedForGood` |
| `AccountsInv` | `LocksOK`, `RequestsOK`, `KeysOwned`, `RegisteredOnce`, `AdminExists` |
| `CampaignsInv` | `LocksOK`, `RequestOK`, `NoDanglingMember`, `SlugUnique`, `WindowOrdered` |
| `ClicksInv` | `Recording`, `ReaderOK`, `NoDanglingClick` |
| `StoreInv` | `KeyUnique`, `DeniedNeverActive` |

`AnswerConsistent` is `PartsAgree` (days, links and series add up to the total),
`SeriesRanked`, `ExportWithinTotal` and `LinkTotalNeverAhead`; `WindowsSound` is
`DefaultWindowPast`, `FileNameOrdered`, and what an answer may hold when its window is the
campaign's own or runs backwards.

For each property of a passing run the module holds a mutant, an operator with the
comment "Mutant:" that changes one definition the way a plausible bug would
(a lock not held, a removal not queued, a WHERE clause too narrow); with
it in place TLC finds that property violated.

### Bounds

| Run | Bound | Why it is enough |
|---|---|---|
| `rule_cache` | 2 creates, 1 admin, 2 mutations, 1 destination, TTL of 2 ticks | a stale load needs one loader, one waiter and one mutation; two mutations let a lost one and an invalidated one meet; safety is proved for all values |
| `redirect_cache`, `redirect_cache_delete` | 2 redirects, 1 PATCH or DELETE under way (besides writes that evict nothing), 2 writes, queue of 2, TTL 2, negative TTL 1 | one redirect can be late while another reads what it left; a queue of 2 holds an insert with the removal behind it, and can be full |
| `link_store` | 2 requests, 2 keys, 2 URLs of which creates ask for one, 1 metadata value, batches of 2, 1 edit | two transactions and a PATCH, also one that takes a row to the other URL, in between; two keys are what a circular wait of batches needs, and make keys run out |
| `link_store_duplicate` | as above, 1 URL, no edit | two creates of it |
| `event_broker` | 2 tabs of one user, 2 users, 2 publishers, 2 links, buffer of 1 instead of 8 | a buffer of 1 overflows with 2 links; swap-and-truncate shows its difference with 2 subscribers |
| `sessions` | 1 user, 2 challenges, 2 ceremonies, 1 guarded request, 2 operators, no clock | rows of different users never conflict; two operators are a deactivation against a sign-out; expiry is in `sessions_live` |
| `sessions_live` | 1 challenge, 1 ceremony, clock of 1 | sessions expire; the circular wait is between the two operators |
| `registration` | 2 addresses, one of them ADMIN_EMAIL; 2 start, 2 verify, 2 finish and 2 revoke requests; an empty database with a pool of 2 or 3, or the administrator with 2 passkeys and a pool of 3 | every race here is between two: two mails of one address, two pages of one mail, two answers to one page, two removals; a pool of 2 is used up by two ceremonies, one of 3 is not |
| `campaigns` | 2 requests, 2 campaigns of old, 2 links, 2 slugs, start dates {2} and end dates {1, 2} | any two endpoints against each other, one of them a request for two keys; slugs run out; the dates of one PATCH alone can be wrong, or only with another's |
| `click_stats` | 2 clicks besides one of the past, 2 links, 1 campaign, 1 reader, 2 days, a span of 1, 2 values in a breakdown, 1 line in the chart; the campaign has no dates, one of the two, or both, wholly in the future or partly | a click before, between and after the queries of one answer; the chart's cap is exceeded; the breakdown's is reached and never exceeded, as there are two values (`BreakdownIs`, and with it `AnswersFit`, holds for any cap); windows run backwards when a campaign begins later |
| `dev_store` | 2 handlers, 4 keys, 2 URLs, 2 slugs, one start and one earlier end, 4 requests in all, 4 links, batches of 2 | a campaign found, deleted and made again under a handler takes 4 requests, one made and then changed by two PATCHes takes 3; a batch after a create runs out of keys |

`CHECK_DEADLOCK FALSE` is used for `Sessions`, `Registration`, `Campaigns`, `ClickStats` and
`DevStore`, where each request runs once or requests are bounded, and the system then has
nothing left to do.  That requests do not block each other before that is what `EveryRequestEnds`
and `NeverStuck` say.  Symmetry is used in `sessions`, `registration`, `campaigns`,
`click_stats` and `dev_store`, which have no liveness property, over requests, keys and
the like, which no definition tells apart.  `registration` has a VIEW that leaves the
setting `enabled` out of states with no start request to come: nothing else
reads it.

### Fairness

* Handlers run: weak fairness on each local step of a request that has begun.  The
  Go scheduler runs every runnable goroutine.
* Waiting for a lock, a row or a channel slot is strong fairness: `sync.Mutex`
  hands over to a waiter that starves, PostgreSQL and Go channels queue
  their waiters in order, and PostgreSQL's deadlock detector runs.
* The clock ticks (`RuleCache`, `RedirectCache`); Ristretto's goroutine drains its
  queue.
* Stream handlers read their channels only where a property says so:
  `EventuallyShown` assumes it (`StreamFairness =>`), `PublishReturns` does not.
* In `rule_cache` creates keep arriving (`WF` on `Submit`), otherwise
  "eventually every check" would speak of none; nobody has to mutate, fail, evict, sign
  in, sign out or restart anywhere.
* `Registration` and `Campaigns` have no fairness and no liveness formula.  Their
  `NeverStuck` is an invariant: in every state with a request under way, one of them can
  take its next step, or PostgreSQL fails one of a circle of waits, or, in
  `Registration`, a client gives up on a pool that has no second connection for it.  It has
  two parts: `Ready`, which says what a request waits for, is true exactly where its step is
  `ENABLED`; and `SomeoneReady` says the above with `Ready`.  A
  request there takes finitely many steps, so none waits for ever if
  the scheduler and the lock queues are as above.

## What is proved

Eight modules of proofs, each `EXTENDS` the model it is about; `CampaignsProofs` also takes
`DevStore`, by INSTANCE, because the two are compared with the same board.  Their theorems hold for every number of requests, clients, rows, versions and bounds; only the
assumptions below restrict the constants.

| Module | Theorem | States |
|---|---|---|
| `RuleCacheProofs` | `RulesInvariant` | `Spec => []RulesInv` |
| | `TypeCorrect` | `Spec => []TypeOK` |
| | `ChecksAreFresh` | `Spec => []FreshAfterAck` |
| | `VerdictsAreJustified` | `Spec => []NoBypass` |
| | `CacheImplementsBoard` | `Spec => RefinesBoard`: `RuleCache` implements `FilterBoard` |
| `LinkStoreProofs` | `LinksInvariant` | `Spec => []LinksInv` |
| | `MatchIsStable` | `Spec => []MatchStable` |
| | `InsertIsNeeded` | `Spec => []NoNeedlessInsert` |
| | `CreatesPreserve` | `Spec => CreatePreserves`, an action property |
| | `RequestsAreAtomic` | `Spec => AllOrNothing`, an action property |
| `RedirectCacheProofs` | `CacheInvariant` | `Spec => []CacheInv` |
| | `StaleCopiesAreDoomed` | `Spec => []StaleIsDoomed` |
| | `DeletedIsNotServed` | `Spec => []DeletedStays404` |
| `EventBrokerProofs` | `BrokerInvariant` | `Spec => []BrokerInv` |
| | `SendsOnlyOnOpen` | `Spec => []NoSendOnClosed` |
| `SessionsProofs` | `SessionsInvariant` | `Spec => []SessionsInv` |
| | `ChallengeSignsInOnce` | `Spec => []OneSessionPerCeremony` |
| | `InactiveAreNotServed` | `Spec => InactiveNeverServed`, an action property |
| | `DeactivationLeavesNoSession` | `Spec => DeactivationSignsOut`, an action property |
| `RegistrationProofs` | `AccountsInvariant` | `Spec => []AccountsInv` |
| | `TokensAreSpentOnce` | `Spec => []TokenSpentOnce` |
| | `LastPasskeyStays` | `Spec => NeverLockedOut`, an action property |
| | `CeremoniesAreAtomic` | `Spec => CeremonyAtomic`, an action property |
| | `SomeoneIsReady` | `Spec => []SomeoneReady`, the part of `NeverStuck` without `ENABLED` |
| `CampaignsProofs` | `CampaignsInvariant` | `Spec => []CampaignsInv` |
| | `ChangesAreAsked` | `Spec => ChangesOnlyAsked`, an action property |
| | `SomeoneIsReady` | `Spec => []SomeoneReady`, the part of `NeverStuck` without `ENABLED` |
| | `ImplementsBoard` | `Spec => RefinesBoard`: `Campaigns` implements `CampaignBoard` |
| | `DevStoreInvariant` | `Dev!Spec => []Dev!StoreInv`, where `Dev` is `DevStore` |
| | `DevBatchWhole` | `Dev!Spec => Dev!BatchWhole`, an action property |
| | `DevStoreDriftsOnlyWhenStale` | `Dev!Spec => Dev!DriftsOnlyWhenStale`: each step of `DevStore` is one of `CampaignBoard`, or a `StaleMove` or `StalePatch` |
| `ClickStatsProofs` | `ClicksInvariant` | `Spec => []ClicksInv` |
| | `WindowsAreSound` | `Spec => []WindowsSound` |
| | `HistoryIsKept` | `Spec => HistoryKept`, an action property |
| | `OneTablePerAnswer` | `Spec => []FromOneTable`: the counts of a campaign's answer are of one table |
| | `AllTimeIsBehind` | `Spec => []AllTimeBehind`, a part of `AnswerConsistent` |
| | `AnswersFit` | `Spec => []AnswerConsistent` |

### Assumptions

They are named, stand in the module that declares the constants, and TLC evaluates them
in every run.

* Bounds and limits (`MaxVersion`, the TTLs, `BufCap`, `BatchSize`, `Span`, the caps) are
  natural numbers, and those that would make no sense as zero are positive.
  Nothing is assumed of one bound against another, for instance that a negative entry
  expires before a positive one: `CACHE_TTL_SECONDS` may be less than `NegativeTTL`.
* `None`, `Absent`, `Keep` and `Blank` are not values they stand beside (`NoneAssumption`,
  in five of the modules: `None` is not a row).  TLA+ has no types, so this must be said of
  records too.
* Requests to different endpoints and rows of different tables have different names
  (`Sessions`, `Registration`, `Campaigns`), because a lock is known by the row's name.
* Finite sets where something is counted: the transactions that share the connection pool
  (`Finish`, `Revoke`), the links of a campaign (`Link` in `Campaigns`), clicks, links and
  inbound values in `ClickStats`.
* What a system may begin with: `Setups` of `Registration` has an account only for
  `AdminEmail` and passkeys only for that account, which is what seeding does, and a pool of at
  least one connection; `Earlier` of `ClickStats` is a table of clicks of a past day;
  `DevStore` has room for its two sample links.
* Dates are positive numbers (`CampaignDates`), 0 stands for none, and `Keep` is neither.

The theorems about `DevStore` are in a module where its constants are declared a second time, so
they have `DevStoreAssumption` as a hypothesis; `MCDevStore` has TLC evaluate it.

### Arguments

Every invariant is proved from initial states, one lemma per action, a lemma `NextStep` or
`NextInv` that puts them together, and PTL.  What each needs beyond the property one
reads:

* **RuleCache.**  `FreshAfterAck` says nothing of the snapshot or of a load
  under way.  `LockInv`: the owner of `mu` is exactly the request that is loading.
  `SnapInv`: a valid snapshot, and a load that has read, are at least as new as every answered
  mutation (`acked`).  The step that matters is `Invalidate`: it raises `acked` and needs
  `mu` free, hence no load is under way whose result could be older; and it makes
  the snapshot invalid.  With a lock-free `Invalidate` the argument breaks at that step,
  and the mutant `InvalidateUnlocked` shows the behaviour.  In the refinement (`CreateMaps`,
  `AdminMaps`, `NextMaps`) `Submit` is `Begin`, `Verdict` is `Decide`, `Invalidate`
  is `Report`, errors and restarts are `Leave`, loads stutter.
* **LinkStore.**  `Holdings` ties the progress of a transaction to the rows and keys it
  has: it is what makes the row a create matched and the keys a batch inserted its own.
  `TableStep` says once what a request may do to the table when it ends; other requests
  lose nothing by it because they hold their rows.  `AllOrNothing` needs the number
  of keys inserted (`EndingIsWhole`).
* **RedirectCache.**  `StaleIsDoomed` is inductive together with `CacheInv` only: a
  redirect may put back what it read, so `SoundReads` must bound what is read by
  what is committed, and mark the reads a write has overtaken.  The queue is treated by
  positions: an entry is doomed when a removal stands behind it, and `ApplyStep` moves
  every position by one.
* **EventBroker.**  `NoSendOnClosed` rests on the exact registry (`Registered`) and on
  Publish's list (`Publishing`); `SwapRemoveIs` says what swap-and-truncate leaves of the
  slice, whatever its length.  `NothingLost` follows a link that is owed from the publisher's list
  to the channel to the screen (`StillComing`).
* **Sessions.**  A request relies on what it has read only as long as its locks last, so
  the invariant says for each program position what is locked and what it guarantees (`FinishOK`,
  `CheckOK`, `OpOK`).  `OthersKept` shows once that a step of one request, which changes
  only rows it has locked against the others, leaves all that the others rely on.
* **Registration.**  The same with `RowsKept` for the tables of a ceremony.  `LocksOK`
  also counts connections (`Spare >= 0`, `SpareKept`).  `SomeoneReady` needs one more
  invariant, `LocksApart`: a ceremony locks no passkey, and a removal has locks only where
  it deletes.  So a removal waits only for one that can go on; ceremonies that have a
  connection wait only for each other, and if none of them could go on, some would wait in a
  circle (as in `Campaigns`); one that cannot begin finds the pool in use by them.
  `NeverLockedOut` needs that `LockKeys`
  has locked every passkey the account still has, so a removal that leaves one leaves a
  locked one.
* **Campaigns.**  The same with `CampaignsKept`, `SlugsKept` and `LinksKept`.
  `RequestOK` has a part for creates (`CreateOK`: who has reserved a slug), for
  PATCHes (`WriteOK`), and for those that move links (`MineOK`, `MoveOK`).  For the refinement,
  the commit of each kind of request is shown to be the board action of that name, and
  everything before it a stutter.  `SomeoneReady`: the holder of a lock is under way
  (`LocksOK`), so if nobody could go on, each request under way would wait for another one
  under way; these are finitely many (`FewUnderWay`), and of the sets of them in which
  each waits for another the smallest is a circle (`CircleOfWaits`).
* **ClickStats.**  A step is of one redirect, one reader or one table, and disturbs only
  that part of the invariant.  `OneTablePerAnswer`: the snapshot a reader took with its
  first count is the table of all of them.  `HistoryKept` and `AllTimeBehind` rest
  on `RowsStay` and `ClicksGrow`: rows are written once and lose their campaign only to its
  delete.  `AnswersFit` adds what the queries compute over one table.  A sum over rows is
  the size of a disjoint union (`SumCounts`), so the sums of days, links and series are sizes
  of one set counted along three partitions (`PartAndRest`, `DaysIs`, `ByLinkIs`, `SeriesIs`).
  A finite set under a strict total order is numbered by how many elements stand before each
  (`Ranks`): this is why the list of an export exists and lies in order (`SortedIs`,
  `ListedIs`), why the cut breakdown and its "Other" lose nothing (`BreakdownIs`), and why the
  named lines of the chart are the top of the list.  A link's page has no snapshot: there
  the invariant carries that what was counted is not ahead of the table (`CountsBehind`,
  `TotalBehind`).  An export is compared with the total as answered (`FileFits`, `InOrder`).
  `WindowsAreSound` (`WindowsFit`) also comes from `FromOneTable`: every part is counted in the
  reader's one window, so a window that ends by today has days before today only, and a
  backwards one has no clicks to count.
* **DevStore.**  `StoreOK` is the inductive form of `StoreInv`: links and counter by position,
  ids growing along the slices, and the ids that handlers hold.  A link's campaign, and the one a
  handler goes on with, may be gone, so what the invariant says of them is `Made`: the id is
  below the counter.  `RemoveAtIs` and `Appended` say what deletes and inserts leave of a
  slice, position by position; keys that are free and differ among themselves stay unique.
  `BoardIs` gives the board's two functions point by point, and every
  action is one of six effects (`SeenCreate`, `SeenEdit`, `SeenDelete`, `SeenPuts`,
  `SeenGrows`, `SeenStale`) or `Quiet`.  An assignment, a create or a batch is `SeenPuts` or
  `SeenGrows` when the campaign it found still exists and `SeenStale` when not.  `SeenUpdate` splits
  a PATCH: if the row is still the one it was judged on, its dates are in order and this is the board's
  step; otherwise they may not be, which is `StalePatch`.  `SeenCreate` is the
  step that needs `Made`: no link can already hold the id of a new campaign (`NewIdUnused`).

Two of the theorems of `ClickStatsProofs` are about formulas no run lists.
`AllTimeBehind` is a conjunct of `LinkTotalNeverAhead`, which `click_stats` checks as a part of
`AnswerConsistent`.  `FromOneTable`, defined beside its proof, is why `PartsAgree` holds:
which table and which window each part of an answer counts; `AnswersFit` builds on both.

### Only model-checked

* Liveness, which needs fairness: `EventuallyCurrent`, `Converges`, `EveryCreateIsAnswered`,
  `PublishReturns`, `EventuallyShown`, `EveryRequestEnds`.  And of `NeverStuck` of
  `Registration` and `Campaigns` the part that is about `ENABLED`: that `Ready` is where
  the next step is enabled.  The other part is proved (`SomeoneIsReady`).

Every other property of a passing run is a theorem.

No module declares a RECURSIVE operator.

## Where code and documents disagree

Each of these is a run that TLC finds violated; `PROJECT.json` quotes the lines.

* **A deleted link can redirect after the DELETE was answered.**  A redirect
  reads the row, DELETE commits and evicts, the redirect then caches the live row for a
  whole TTL (`NextRedirectReReads`).
* **Two creates of one new URL both insert.**  `SELECT ... FOR UPDATE` locks nothing
  when nothing is there, and no unique index backs it (`NoDuplicate`).

Seen while reading, and visible in the models' actions without a run of their own:

* A login that read `active` before a deactivation can create its session after it
  (`Sessions`: `Lookup`, `Consume`, ...).  The guard refuses it while the account is
  inactive and accepts it again after a reactivation; `login.go` says that a deactivated
  account can never obtain a session.
* The stored passkey counter can go back when two logins of one passkey overlap
  (`Sessions`: the counter is read before the transaction that writes it).
* An event stream looks at the session when it opens and not again; after a sign-out or a
  deactivation it still delivers.
* A generated key can be taken between its check and its INSERT, so `ErrKeyTaken` can reach a
  caller that chose none (`GenKey`, `InsertTaken`; `store.go` and `campaigns.go` call
  it unreachable).
* An active duplicate is written to when the request carries metadata (`FinishMatch`;
  `docs/links.md` says "returned unchanged").
* A link committed between a dashboard's page load and its subscription is not shown
  until a reload (`Mount`, `Connect`, `Subscribe`); `Unsubscribe` does not preserve order
  (`SwapRemove`; `docs/events.md` says it does).
* Two concurrent first registrations both become administrators, and ADMIN_EMAIL
  promotes whenever it registers (`Promoted`); `PRD.md` says that it has no effect
  once there is an administrator, `docs/auth.md` lists it as a rule of its own.
* Registrations switched off after a start still finish (`StartRegistration` alone
  looks).  Following a mail twice issues two challenges; the answer to either consumes both
  and is compared with whichever row comes back first (`Consume`, `Lookup`).
* A ceremony asks the pool for a second connection while it holds one (`Lookup`, `Starved`).
* The count of unassigned links that a campaign's delete writes to the audit log is taken
  before the DELETE at READ COMMITTED: links may come or go in between, which the comment
  above `DeleteCampaign` rules out.
* The totals and the breakdown of a link's detail page are statements of their own, and
  may differ by the clicks recorded in between (`CountLink`, `CountLinkSources`;
  `LinkTotalNeverAhead` is what remains true).
* In the development store a link may get the id of a campaign deleted after the handler
  found it (`Resolve`, `AssignLinkToCampaign`; `StaleMove`), which the comment in its `DeleteCampaign`
  means to exclude.  `GET /api/links` then shows it as `campaign_id`, with no campaign's name beside
  it.  Such an assignment also takes the link out of the campaign it was in and answers 200, where
  PostgreSQL's foreign key fails it and changes nothing.
* Two PATCHes of a campaign in the development store can leave its end before its start
  (`Patch`, `UpdateCampaign`; `StalePatch`): the handler judges each on an earlier read, and the
  CHECK that is behind it in PostgreSQL is missing.
* PATCH of a link's destination does not ask the URL filter.

## What is not modelled, and why

* Data without control: which key is generated, what a regular expression
  matches, titles, UTM parsing and merging, expiry (410), QR codes, the writing of
  CSV and zip files, list reads with their paging, renaming a passkey or a device.
* The audit log: append only, and nothing decides by reading it.  The rate limiter: a map of
  `golang.org/x/time/rate` buckets under one mutex, whose only trouble is that it grows.
* Ristretto's admission policy, WebAuthn's cryptography, PostgreSQL's storage: only what this code
  observes of them.
* Sessions, settings, users and the audit list of the development store, and its fake
  authentication: single calls that read or replace one value.
* Startup, configuration, TLS, systemd: no interleavings.  A restart of the process is an action
  of every module whose component keeps state in memory, and of the others an abort of
  their transactions.  Constraints of the migrations are part of the statements
  they judge.
* Views of the web client, other than the dashboard's list.

## Plan

What is left: compositions.  Stream authorization (`Sessions` with `EventBroker`), and
creation end to end (`RuleCache` with `LinkStore`: which rules judged a link that exists).
