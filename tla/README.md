# Vairiot: a verification project

Vairiot is a multi-tenant asset-tracking system: a TypeScript API over
PostgreSQL and Redis, a background worker, a web app and an admin console, an
Android app (Kotlin) that works offline, an iOS port of it, and a report
service. This directory holds TLA+ models of the parts whose correctness hangs
on orders of events, the TLC runs that check them on small instances, and
proofs that hold for every size.

Paths below are relative to `src/`; a file name alone is that of the only file
of the name.

## 1. Inventory

| Component | State it keeps | Operations | Talks to | What is hard | What makes it correct |
|---|---|---|---|---|---|
| Offline scan queue (Android: `AuditScanRecorder`, `drainQueue`, `ScanSyncWorker`, `QueuedScanDao`) | Room table `queued_scans` (pending, failed, dead) | capture, drain, retry, discard | API `recordScan`; session | two unique works and a recorder per scan send the same row; lost answers; killed processes; a user acting on a stale list | each captured scan is counted once, or held, or thrown away by the user |
| Audit campaigns (API: `audit.service.ts`) | campaign status, snapshot, scans, submissions, reconciliation items, adjustments; asset register | create, start, scan, submit zone, complete (and reconcile), adjust | database; e-mails; webhooks | every handler reads, awaits and writes without a lock; unique keys are the only arbiter; a replica may die in the middle | one snapshot, one reconciliation that is whole; scanned assets are not missing; adjustments keep their finding |
| Asset cache and delta sync (Android: `AssetDeltaSync`, `AssetRepository`; API: `listAssetChanges`) | Room table of cached assets, cursor; asset rows | full sync, delta, tag lookup | API | OFFSET paging over a moving set; stamps taken before commits; overlapping syncs; crash between writes and cursor | what the next delta will not ask for again is right in the cache |
| Session and token rotation (`lib/api.ts`, `auth.store.ts`, `NetworkModule.kt`, `TokenStore`, `auth.service.ts`) | stored token pair; blacklist in Redis; the account | request, 401, refresh, retry, log-out, sign-in | all requests | single-use refresh tokens against concurrent refreshes; blacklist fails open; lost answers | a live session is never thrown away; a token buys one pair; nobody waits for ever |
| Identifiers, asset creation, tags (API: `asset`, `gs1-identifier`, `gs1-tag` services, SQL functions) | sequence, allocations, leased blocks, asset rows, tags and bindings, the log of events | create, allocate, lease, settle, backfill, commission, verify, permalock, retire | database | a sequence that is never rolled back next to rows that are; a lock only half of the callers take; check-then-insert of number, key and cap; lists read long before they are used; tags looked at in one query and written in another | a reference is issued once; blocks are whole; one asset per key; a bound reference stays; a tag carries the number of the asset it is bound to, and the log has no gap |
| GS1 prefixes, encodings and labels (API: `gs1-identification`, `gs1-label` services, triggers of the migrations) | prefix rows, the GIAI of every asset, secondary identifiers | claim, activate, supersede, withdraw; encode | database | an activation decides long before it rewrites the register; a trigger rewrites the GIAI at any write | a GIAI once given stays recognisable, under one tenant's number |
| Offline asset and photo queues (Android: `SyncQueues.kt`) | `queued_assets`, `queued_photos`, files | create asset, attach photos, upload, discard | API | uploads without idempotency key, replayed after a lost answer or a killed worker; the user discarding a photo that a worker has just made live again | every photo reaches its asset, or is on the device, or was thrown away |
| Photos and documents (API: `photo`, `document`, `maintenance` services, logos, the purge of a tenant) | rows and stored objects | upload, delete, change the logo, purge | object storage | limit counted before insertion; object and row written apart, by requests that may end in between; a logo has one key for every image of its type | the limit of photos; what a row names is in the store; nothing of a purged tenant is |
| App builds and enrolment (API: `ios-releases`, `mobile-releases` routers, retention, `ios-enrolment`) | release rows, build objects, the current one; rows of enrolled iPhones | upload, promote, withdraw, delete, prune, install; enrol, register | object storage, phones | two promotions at once; a retention that read the table before a promotion; an unverified payload over a row an administrator has come to trust | a release has its object; one is current; the newest stay; a phone gets what it was told of; verified attributes came signed |
| Asset register (API: `asset`, `import`, `transfer`, `checkout`, `maintenance` services) | assets, transfers, check-outs, work orders, disposals | edit, dispose, transfer, check out and in, plan work | database, webhooks | check-then-insert without constraint; numbers by the greatest there is | one custodian; one disposal; distinct numbers |
| Licensing and devices (API: `licence*` services) | licence status and expiry, device rows, slots | issue, renew, suspend, revoke, reactivate, register device, heartbeat | create paths, login | check-then-act at the last slot; renewal against suspension; a status recomputed and stored by reads | allowance holds; a suspension stays; who has paid may write |
| Login and lockout (API: `auth`, `login-protection`, `two-factor` services) | failure counter, lock, challenges, secret and backup codes | login, challenge, verify, set up, disable | Redis, database | a chain of challenges over an account that administrators change; two rows kept in step by hand | no sign-in around the second factor; flag and secret agree |
| Permissions and routes (API: routers, middleware, `user-permissions`, `tenant-context.router`; shared constants) | roles, overrides, the token that copies them, the tenant it acts in | role change, override, refresh, switch of tenant, every route | everything | a token lives on after its grants; a switch mints from a token; hundreds of guards written one by one | nobody reaches what he was never granted; a token knows its way home |
| Tenants, users, onboarding (API: `registration`, `onboarding`, `platform-admin`, `sub-tenant`, `user` services) | tenants, progress steps, users, invitations, roles | sign up, onboard, delete; invite, accept, disable, delete | database, e-mail | several un-transacted statements; a deletion that decides before it purges; an invitation accepted while the account changes | onboarding ends whole; only the revoked are purged |
| Webhooks, jobs, e-mail (API and `vairiot-worker`) | delivery rows, BullMQ queues, subscriptions, the mailer's cache, the alerter's counts | dispatch, deliver, retry, digest, send, alert | Redis, endpoints, mail servers | at-least-once jobs; a fall-back path; replays; stalled jobs; look-ups of the settings that overlap; failures counted while alerts are throttled | the row tells the truth; digests are spaced; settings are recent; the counts add up |
| RFID scanning (Android: `ScanSessionRepository`, `ScanSessionViewModel`; API `uploadScanSession`) | session tags, expected set, report | read, ignore, link, complete, upload | hardware, API | reads recorded while the operator decides; two screens that complete and upload | decisions stay; a report is one upload's |
| Web and admin pages (`vairiot-web`, `vairiot-admin`) | the query cache, the profile shown | show, offer, change | API | a cache marked by hand, key by key; gates written a second time in the pages | a page offers what the API accepts; a user sees his own change |
| iOS app | as Android | as Android | API | as Android | as Android |
| Reports, exceptions, metering (API: `report`, `report-export` services, exceptions router; worker) | none: rows of the other components | report, list, count | all tables | one figure counted in a dozen places, each with its own conditions; statuses that are computed when read | reports that name a figure alike count alike; classes add up |
| Report service (Python) | none | render | database | none | |
| Deployment, backup, profiling scripts | none | | | none | |

The interactions that matter: the Android queues and the delta sync call the
API handlers through `NetworkModule`, which may refresh the session on the way
and clears it when a refresh is refused; without a session the workers do not
run. `recordScan` ties the scan queue to the campaign: its replay look-up on
`clientRequestId` is what lets the queue send a row any number of times, and
its status guard is what turns a late row into a dead one. Adjustments write to
the register, whose changes the delta sync carries back to the devices. Every
route stands behind the chain of token, tenant, licence and permission; every
page of the web apps repeats some of that chain for the buttons it shows, and
keeps the answers of the routes in a cache.

What is hard to test in all this is listed, line by line, under `hazards` in
`PROJECT.json`.

## 2. Modules

### `ScanDelivery`: what the offline queue promises

Four sets: the scans captured, held by the device, counted by the server, given
up by the user. A scan is released only when counted, and given up only by the
user. `ScanOutbox` implements it.

### `ScanOutbox`: the offline scan queue and `recordScan`

| Model | Code |
|---|---|
| `row`, `Mark`, `DeleteById`, `TakeBatch`, `RetryDead`, `DiscardDead` | the table and the queries of `QueuedScanDao` |
| `CaptureScan`, `RecorderSend`, `StopRecorder` | `AuditScanRecorder.record`, one coroutine per scan |
| `DrainStart`, `DrainRead`, `DrainSend`, `StopDrain`; `running`, `batch`, `seen` | `ScanSyncWorker.doWork` and the loop of `drainQueue`; several workers at once, because the periodic and the one-shot job are different unique works |
| `Accepted`, `Rejected`, `Unavailable`, `TimedOut`, `Unauthorized` | `SyncFailure`'s classification of an answer and what recorder and drain do with each |
| `Authenticate401`, `Check`, `Store` | `authenticate`, the look-ups of `recordScan`, its `create` |
| `orphans`, `OrphanCheck`, `OrphanStore`, `OrphanLost` | requests the device has given up on that the server goes on with, or never gets |
| `UserRetry`, `UserDiscard`, `SignIn`, `LoseSession`, `CloseCampaign` | the profile screen, the session, the campaign ending under the queue |

A request is several steps: sent, looked up, stored, answered. The device may
stop waiting before, between or after any of them. Rows are updated by id only,
as the DAO does, so a late update of one sender overwrites another's. The
campaign is one Boolean, `open`; `AuditCampaign` has its life. The attempts
counter, the last error and the network constraint of the jobs are left out: no
decision about a row depends on them.

### `ScanOutboxProofs`

The theorems about `ScanOutbox`; section 5.

### `AuditCampaign`: the life of a campaign

A handler reads in one step and does each of its writes in a step of its own;
what it has read is in `op[h]`. `StartCampaign`/`MarkStarted`,
`RecordScan`/`StoreScan`, `SubmitZone`/`StoreSubmission`,
`CompleteCampaign`/`MarkCompleted`/`Reconcile`/`DeleteItems`/`InsertItems` and
`PostAdjustment`/`CreateAdjustment`/`ApplyToRegister` are the functions of
`audit.service.ts`, `MoveAsset` an edit of the register outside the audit, `Die`
a replica that dies or a failed query at any point in between. A transaction
runs at READ COMMITTED, PostgreSQL's default, which the code does not change:
the `deleteMany` of a reconciliation deletes the items that are committed when
it starts (`old`) and the insert that follows commits both. The unique keys of the
schema (snapshot by asset, submission by zone, event by `clientRequestId`) and
the restricting foreign key of the adjustments are part of the actions.
`Init` is a campaign as `createCampaign` leaves it. Which of several scans of an
asset decides its class is left to chance, because the query has no order.
Condition variances, the blind comparison, the audit trail and e-mails
are left out: they read, or write rows that nothing here reads.

### `AuditCampaignProofs`

The theorems about `AuditCampaign`; section 5.

### `AssetDelta`: the delta sync

The register has committed rows and, per row, an open transaction with the
stamp it has taken. A page is a query on the register as it is by then; `OnPage`
is SKIP and TAKE over the order (`updatedAt`, `id`). `FirstPage`, `NextPage`,
`Store`, `Remove`, `Save` are the steps of `AssetDeltaSync.sync`, `Fail` an
error or a death between any two of them; `LookUp` and `CacheLookup` are a tag
looked up online, which writes to the cache whenever its answer arrives.
The first full sync also overwrites whatever an earlier tenant has left in the
cache. `legacyFullSync` (for servers without the endpoint) and the refresh of a
filtered list are left out; the latter only upserts what the server has
answered, as a lookup does.

### `AssetDeltaProofs`

The theorems about `AssetDelta`; section 5.

### `Session`: refreshing a session

One client, several requests, the refresh endpoint. `Client` selects what the
code does in the two families: the web coalesces the refreshes of a page and
gives its session up on any failure (`lib/api.ts`), the Android app refreshes
for every refused request by itself and gives up on 401 only
(`NetworkModule.kt`). The endpoint looks the token up in the blacklist
(`RefreshCheck`) and blacklists and issues (`RefreshIssue`) in steps of their
own, and both Redis calls may fail silently, as the code lets them. When an
access token runs out is left open: any request may be refused. Sign-in is one
step (its challenges are in `SignIn`, the switch of tenant in `Access`); the
hydration of the store and several tabs of one browser are left out. Coalescing is per tab, so two tabs
behave towards each other as two requests of the mobile client do.

### `SessionProofs`

The theorems about `Session`; section 5.

### `Identifiers`: creating assets and issuing references

One tenant, several handlers, one query per step. `NextValue` and `Record` are
the SQL function `allocate_iar`; `DrawFirst`, `SetSequence` and `StoreBlock` are
`lease_identifier_block` under the tenant's advisory lock (`LeaseBlock`,
`Unlock`). The sequence is outside every transaction: its steps are seen at once
and stay when `Fail` or a taken key rolls the rows back. An allocation does not
take the lock, so it may draw between the two sequence steps of a lease, which
then sets the sequence back. `CreateAsset`, `EnforceAssetCap`, `LookAgain`,
`NextAssetNumber`, `InsertAsset`, `Answer` are `POST /assets` with
`createAssetIdempotent`; the unique indexes on number and key are
`NumberTaken` and `KeyTaken`, and the database may name either. `Backfill`,
`BackfillNext`, `CommissionTag` and `AssignIar` give a first reference to an
older asset, under the trigger `asset_iar_immutable`; `EncodeTag`, `VerifyTag`
and `Bind` take a tag to its binding. `SettleBlock` is one step: the row locks
of its transaction order two settlements of one block.
A reference is its sequence value (the conversion is injective below 10^10), an
asset is its number. `consumedByAssetId`, `nextUnconsumed`, the events and the
data of an asset are left out: the code does not act on them. The licence is
taken to be active (`Licences` has its life); imports, other tenants of the
family are left out, changes of the prefix are in `Prefixes`, and the further
life of a tag is in `TagLife`.

### `IdentifiersProofs`

The theorems about `Identifiers`; section 5.

### Handlers of the API: `Handlers` and what extends it

A handler of the API looks rows up with Prisma, awaits, decides, and writes by
id in a later statement, with no lock and, unless said otherwise, no
transaction. The modules below share that shape and the constant `Requests`:
`Read...`/`Start...` is the look-up with the guards of the code, which keeps in
the request's record what the code keeps in its variables; `Write...` is the
statement, applied to the rows as they are by then. A request that fails or dies
between two statements leaves what it has written.

| Module | Code | State | What is left out |
|---|---|---|---|
| `Licences` | `licence-lifecycle.service.ts`, `licence-status.service.ts`, the gate `require-active-licence.ts` | `lic` (rows), `today`, `licReq` | prices, notices, the licensing server |
| `Devices` | `licence-device.service.ts`, the device check of login, heartbeat | `device`, `slots`, `devReq` | names, usage reports; the handhelds are of one model and one user |
| `Tenancy` | `registration.service.ts`, `onboarding.service.ts`, `sub-tenant.service.ts`, the tenant operations of `platform-admin.service.ts` | `tenant`, `steps`, `grant`, `tenReq` (the statements still to run) | names, addresses, e-mails |
| `Accounts` | `user.service.ts`, the invitations, the platform's user operations | `userRow`, `roles`, `invites`, `accReq` | e-mails, the hash |
| `SignIn` | `auth.service.ts`, `login-protection.service.ts`, the administrators' resets | `account`, `challenges`, `attempt` | whether a password or a code is right is open; single sign-on |
| `TwoFactor` | `two-factor.service.ts` | `record`, `enabled`, `tfReq` | the arithmetic of the codes |
| `Custody` | `checkout.service.ts`, `transfer.service.ts`; edits, disposal and deletion of `asset.service.ts` | `asset`, `loans`, `disposal`, `cusReq` | the other fields of an asset |
| `Maintenance` | `maintenance.service.ts` | `orders`, `mntReq` | dates, costs, photos |
| `PhotoOutbox` | `AssetPhotosViewModel`, `PhotoSyncWorker`, `SyncQueues.kt`, `QueuedPhotoDao`; `photo.service.ts` | `queue`, `sender`, `drain`, `discarding`, `stored`, `phoReq` | captions, formats |
| `Prefixes` | `gs1-identification.service.ts` and the GIAI trigger of the migrations | `prefixes`, `marked`, `historic`, `preReq` | encodings, capacity |
| `TagLife` | `gs1-tag.service.ts`, `asset-event.service.ts` and the trigger `asset_event_chain` | `tagRow`, `binding`, `eventLog`, `tagReq` | what the row says of the locks, the hashes |
| `Releases` | `ios-releases.router.ts`, `mobile-releases.router.ts`, `iosReleaseRetention.ts`, the install pages; `ios-enrolment.ts` and its routers | `releases`, `bucket`, `puts`, `relReq`, `phone`; `iphone`, `enforced`, `enrolReq` | checksums, formats, the pages |
| `Files` | `document.service.ts`, the photos of `maintenance.service.ts`, the logo routes, `deleteTenant` and `purgeTenantStorage` | `owner`, `attached`, `logo`, `store`, `drawn`, `filReq` | contents, names, access |
| `Reports` | `report-export.service.ts` (31 exports), `report.service.ts`, the exceptions router, `countExceptions`, the statistics and the metering; the writers of what they count | `table`, `tab` | sums, ages, filters, layout |

In `PhotoOutbox` an upload carries no key, so a replay is another photo to the
server. In `Prefixes` `CreatePrefix` is one step, because the unique index
repeats the look-up, and the asset's row is written in two steps (`InsertAsset`,
`CommitAsset`), because an activation does not see an asset that is not
committed. In `TagLife` `FindTag` and `FindBinding` are the look-ups of the four
operations, `UpsertTag`, `BindTag` (or `Quarantine`), `Permalock` and `Retire`
what they write; what is told to the asset's log is a deed, numbered as it is
done, and the insert of its row is two steps (`FindLast`, `InsertEvent`), because
the trigger looks before the index refuses. In `Tenancy` a request is the list of its statements, each of which
may be the last. `Releases` has the two tables of builds as one, because their
code is the same twice; its upload is `FindVersion`, `PutObject`,
`DemoteCurrent`, `Commit`, `ReadOld`, `RemoveObject`, `DeleteRow`, and a phone
is told of a build (`Tell`) some time before it asks for it (`GetIpa`). In
`Files` the store may refuse to remove an object, and whatever the code does not
look at is then lost. In `Reports` a report is the set of its queries and a
figure the set of rows it counts (`Counts`, and `Breakdown` where each row of a
total is also said to be of one class); the names of figures are ours, and two
figures have one name where the code gives them one label. A query reads one
table, so one table is looked at, written by all the handlers that write it; the
moments at which the queries of one report run are not told apart.

### `Sweep`, `Webhooks`, `Mails`, `Digests`

`Sweep` is one RFID sweep on the device and its upload. `recordRead` reads a
row, classifies, and puts the whole row back (`ReadRow`, `UpsertRow`), and so
does a completion (`ListTags`, `MarkMissing`, `SendReport`), on two screens; the
operator's `IgnoreTag`, `LinkTag` and `Promote` come in between.
`uploadScanSession` writes the session, deletes its tags and inserts the new
ones, each on its own (`ClearTags`, `InsertTags`, `FailReport`).

`Webhooks` follows an event from `dispatchWebhookEvent` (`FindHook`,
`LogDelivery`, `Enqueue`, or `PostDirectly` when the queue refuses) through
BullMQ (external: `Take`, `Settle`, stalled jobs) to the worker (`Post`,
`RecordOutcome`). `Digests` is a tick of `notification-scheduler.ts`: the
subscriptions that are due, one digest a user, `lastSentAt` afterwards.

`Mails` is what happens to a job that sends an e-mail, in one queue of the
worker: `TakeJob` asks the mailer's `resolve` for the sender's address and
`AskSettings` for the transport, each time from the cache or by `ReadSettings`
and `Keep`; the mail is accepted (`AcceptMail`), or the job is tried again
(`TryAgain`) or reported (`Report`, which is `reportIfExhausted` and `notify`).
An alert is an e-mail itself, which nobody awaits. The settings are told apart
by when they were read, and `OPS_ALERT_EMAIL` is set: without it nothing is
reported.

### `RoleMatrix`, `Routes`, `Access`

`RoleMatrix` is `permissions.constants.ts` and the roles the installation is
seeded with. `Routes` is every route behind authentication as its router
declares it: who may call it (`requirePermission`, `requireAnyPermission`,
`requireRole`, or the platform), whether it is a read, and the tables it
changes. `Access` is one user of a parent tenant or of its child: the grants in
the database (changed in two steps by `setUserRole`: `RemoveRoles`,
`AssignRole`), the token that copies them (`Mint`, `Refresh`,
`SwitchContext`), and the profile the page shows, which may differ from the
token until it is loaded anew. `Accepted` is the set of routes the chain of
middleware lets a token through to.

### `WebQueries`, `WebPages`, `AdminPages`, `Reads`

The pages as data, made of the records at the end of `Routes`. A hook is a query (key, GET handler) or a mutation (handler,
the keys its `onSuccess` invalidates); a page is its route guard, the queries it
shows, and the mutations it offers with the gates around each button. `Reads`
gives the tables each answer lists. `WebPages` has the pages of `vairiot-web`
behind a sign-in, `AdminPages` those of `vairiot-admin` with their hooks.

### Offers and `PageCache`

The end of `Access` compares what a page lets its user see with what the routes
accept.
`PageCache` is TanStack Query (external, with the options the apps give it) for
one answer and one change of the user's own that concerns it: the page opens and
closes, fetches are under way, fail, are cancelled by an invalidation or left
running by a closed page, and the change is sent, written and answered. `Init`
chooses the pair among all of the two apps: a page's query that reads a table
which a mutation of the same page, or of one that leads to it, changes.

Both have named sets of exceptions, which list what the code really does:
`Overpromised` (buttons shown to users the API refuses), `AskedOtherwise`
(buttons shown to holders of a permission where the API asks for a role, or the
other way round, which differ for a user with an override) and `Unmarked`
(changes that do not mark an answer they concern). Every entry is in section 4.

### `MCComponents`

The modules since `Handlers` share no variable but those of the pages and
`Access`, so one run checks them all: the variable `focus`, chosen by the first
state, is the component that moves, and the others rest. Its properties are those of
the modules, for the component that moves (`RegisterHolds`, say, is `LoansOverlap`
of `Custody` and `WorkOrdersDistinct` of `Maintenance`); what each excepts is at the definition in the module.

### `RegisterProofs`, `TenantProofs`, `ComponentsProofs`

The theorems about the twenty-one components. `RegisterProofs` has the inductive
invariants of `Custody`, `Maintenance`, `Prefixes`, `Webhooks`, `Mails`, `Digests`,
`PageCache`, `Sweep`, `PhotoOutbox`, `Releases` and `Files`, `TenantProofs` those of `SignIn`,
`TwoFactor`, `Access`, `Accounts`, `Devices`, `Licences`, `Tenancy`, `Reports` and `TagLife`;
`ComponentsProofs` composes them as `MCComponents` composes the modules, and
states the theorems; section 5.

### Reading the models together

`ScanOutbox` abstracts what two others detail. `LoseSession`, `Unauthorized` and
`SignIn` stand for `Session` with `Client = "mobile"`, whose `stored` is
`NoToken` where `session` is `"none"`; `CloseCampaign` stands for `MarkCompleted`
and `StoreSubmission` of `AuditCampaign`. In `AuditCampaign` a scan's request is
the insert of an event that may be there already, which is what `ScanOutbox`
shows of any number of replays. The flag `twoFactorEnabled` of `SignIn` is
`enabled` of `TwoFactor`, whose handlers are its `SwitchTwoFactor`;
`LicenceChanges` of `Tenancy` stands for `Licences`; a grant of `Access` is
`roles` of `Accounts`, in the same two steps; `DeleteRows` of `Files` is the
deletion of `Tenancy`, seen from the object store. `Access` extends the pages, so
that what a page shows and what a route accepts are of one token.

## 3. Runs

| Run | Instance | States | Shows |
|---|---|---|---|
| `ScanOutbox` | 1 scan, recorder and 2 workers | 57 thousand | `CountedOnce`, `NoScanLost`, `LiveRowRemovedOnlyWhenCounted`, and that the queue implements `ScanDelivery` |
| `ScanOutboxLive` | 2 scans, 1 worker, fairness | 1.4 thousand | every queued row is settled unless the session is lost; one try per run |
| `ScanStarvation` | as above, row 1 always times out | violated | finding 1 |
| `ScanDeadRetried` | 1 scan, recorder and 2 workers | violated | finding 2 |
| `AuditCampaign` | 2 handlers, 1 asset, 1 unknown tag, 2 zones, 2 auditors, 2 scans, 1 adjustment; sighted and blind | 1.2 million | `ReconciliationIsSound`, `AdjustmentsKeepTheirItem`, `SettledStaysSettled` |
| `CampaignReconciledTwice` | 2 handlers, 1 scan | violated | finding 3 |
| `AssetDelta` | 2 assets, page size 1, 1 sync, clock to 5, 2 versions | 3.9 million | `CalmCacheIsCurrent`, `DeletedAssetsLeave` |
| `AssetDeltaSkips` | the same | violated | finding 4 |
| `SessionWeb` | 2 requests, 4 token pairs, fairness | 223 thousand | `TokensAreSound`, `CallsEnd` |
| `SessionMobile` | 2 requests, 3 token pairs | violated | finding 5 |
| `Identifiers` | 2 requests at once, 4 in all; 1 key, 1 tag, 1 older asset, 4 references, blocks of 1 and 2, cap of 2 | 2.3 million | `LeasesAreSound`, `IarHeldOnce`, `AnswersAgree`, `CapOverrunIsBounded`, `IssuedStays` |
| `Components` | twenty-one components, below | 2.7 million | one property for one or two of them |

Every passing run that checks safety also checks the module's `TypeOK`. Symmetry
is used for handlers, auditors and requests, in runs of safety properties
only.

`Components` has two requests at once in every module of handlers, and:

| Focus | Instance | States | Property: what a stale decision can still do |
|---|---|---|---|
| `Licences` | 2 licences, 3 days | 180 thousand | `LicencesHold`: a barred licence comes back only by a renewal, a reactivation or a request already in flight; who has paid may write |
| `Devices` | 1 browser, 2 handhelds, 3 rows, 2 slots | 241 thousand | `AllowanceHolds`: active devices exceed the slots by no more than the other requests; a deactivated device comes back only through a free slot or a request in flight |
| `Tenancy` | 1 id given, 1 generated | 238 thousand | `TenantsEndWhole`: onboarding ends with its three steps; a purge takes only revoked licences, or those renewed after it looked |
| `Accounts` | 3 roles, 3 invitations | 304 thousand | `AccountsHold`: roles, open invitations and uses of one exceed one by no more than the other requests |
| `SignIn` | lock at 2 failures | 27 thousand | `SecondFactorHolds` (second part): no tokens around an enabled second factor, by any order of challenges |
| `TwoFactor` | 2 backup codes, 2 set-ups | 25 thousand | `SecondFactorHolds` (first part): flag and record agree, and accepted codes are gone |
| `Custody` | 2 places, 3 loans | 17 thousand | `RegisterHolds` (first part): two custodians only when the second looked before the first was recorded; a returned loan stays returned; one disposal |
| `Maintenance` | 3 orders, numbers to 3, typed ones | 49 thousand | `RegisterHolds` (second part): a generated number is doubled only by requests that overlap |
| `PhotoOutbox` | 1 photo, screen and 1 worker, limit 1 | 26 thousand | `PhotosHold`: row and file until recorded or thrown away; the limit is exceeded by no more than the other uploads |
| `Sweep` | 2 tags, 2 screens | 187 thousand | `SweepHolds`: decisions are undone only by a read or a completion that had looked before; a report is one upload's, or empty |
| `Webhooks` | 1 event, 3 attempts | 1.4 thousand | `MessagesHold` (first part): pending means somebody will try; delivered means answered, and never posted again |
| `Mails` | 2 jobs of 2 attempts, 3 moments | 31 thousand | `MessagesHold` (second part): a mail goes out by settings no older than the cache allows; a job that used its attempts is told of once, or counted, or lost with an alert or a worker |
| `Digests` | 2 users, 1 type, 3 hours | 5.5 thousand | `MessagesHold` (third part): not twice within the guard, unless the worker died in between |
| `Access` | all first roles, 2 posts, 1 override, 1 sub-tenant | 85 thousand | `ReachHolds`: no route is open to who never had its permission, and a token knows its way home; `OffersHold`: a page offers what the API accepts |
| `Prefixes` | 1 asset, 2 tenants, 3 rows | 30 thousand | `GiaisHold`: a GIAI once given is the asset's or a historic one, and under an active prefix nobody else holds |
| `TagLife` | 1 tag, 2 assets, 2 deeds | 298 thousand | `GiaisHold` (second part): a bound tag carries the number of its asset or its own, one that may be locked was verified, unless requests raced; the log has no gap and tells of a deed once |
| `PageCache` | every pair of change and answer, 2 changes | 57 thousand | `PagesHold`: a page with nothing under way shows the user's own answered change |
| `Releases` | 2 versions, 1 kept, 2 uploads | 500 thousand | `ReleasesHold` (first part): a release has its object; two are current only by transactions that overlapped; the retention takes none that is current but by a promotion meanwhile; a phone gets the build it was told of unless an administrator changed it |
| `Enrolment` | 1 phone | 6.8 thousand | `ReleasesHold` (second part): verified attributes came signed; unverified ones replace no row that is trusted, but for a request that had looked before |
| `Files` | 1 key, 2 types of logo | 350 thousand | `FilesHold`: what a row names is in the store, or being removed with it; nothing of a purged tenant stays but what was on its way or refused |
| `Reports` | 1 row, every table | 574 | `ReportsHold`: figures of one name count the same rows, the classes of a total add up, a share is part of what it is a share of, but for the rows `Differing` and `Unclassed` name |

### Bounds

- `ScanOutbox`: rows do not affect one another but through a drain's batch, so
  one scan with all three kinds of senders has all the races, and the two-scan
  runs have the batches. Two scans with one worker (2.2 million states) satisfy
  the same safety properties. The proofs need no bound.
- `ScanOutboxLive`: `BatchSize` is not smaller than the number of rows (the code
  reads 50). With more rows than a batch the property fails: a batch of rows
  that were all tried in this run ends it, and the next one reads the same rows
  first. This run starts "back online", with every row failed once, and without
  requests the server goes on with after its caller has gone; those could only
  settle a row sooner.
- `AuditCampaign`: two handlers are a race; three would be two races. Two zones
  make an asset misplaced, one unknown tag makes a surplus. The asset is on the
  campaign's own list, so the snapshot is what the key protects (see the comment
  on `SettledStaysSettled` for what it does not protect).
- `AssetDelta`: two assets and a page size of one are the smallest instance with
  a page boundary; the clock allows three syncs with commits in between. The
  code puts no bound on how long a transaction, a lookup or a sync takes;
  `MaxLag` assumes one, and `LagAssumption` states what the overlap of two
  minutes has to cover: twice that. Two overlapping syncs over one asset (436
  thousand states) satisfy the same properties.
- `SessionWeb`: four pairs are a sign-in and three refreshes. Three requests
  with three pairs (460 thousand states) satisfy the same properties.
- `Identifiers`: four requests are enough for each of the races: a lease that
  takes the sequence back over two allocations and the allocation that meets
  one of them; a backfill, a commissioning and a binding of the same asset; a
  create that loses its number twice. `Attempts` is 2 where the code tries four
  times, so that giving up happens within these bounds. Without `MaxRequests`,
  three references and blocks of two (2.1 million states) satisfy the same
  properties.
- `Components`: two requests are a race, and the properties bound what a third
  would add ("every other request in flight"). `Licences` has the dates of two
  licences up to `MaxDate`, terms of one day, and warning and grace of one, so
  that every status is passed through. `Devices` has three rows, one more than
  the slots there can be. `PhotoOutbox` has a limit of one and one photo, with
  the screen and one worker: the limit is reached by what is already stored.
  `Sweep` has no read after its first screen has started the upload, and
  decisions only while that screen is in front, as the app has them.
  `Prefixes` has one asset, two tenants and three rows: a claim, a successor and
  a claim by the other tenant. `Access` moves the user between a Viewer and a
  Company Admin with one override; what the other roles can do is compared in
  the same invariants, because a first state may have any role. `PageCache` has
  two changes, so that the second finds the fetch of the first under way. `Releases`
  has two versions and a retention of one: an upload prunes the other version
  while it may be promoted. `Files` has one key, because rows with keys of their
  own do not meet, and two types of logo, because one type has one key. `Reports`
  has one row, because a row is counted or not by itself; it takes every value
  the writers can give it, which the theorem does not need.
  `Maintenance` has numbers typed in the format and numbers that sort after it; one
  typed without the prefix leaves the numbering as a deleted order does (with it,
  194 thousand states). `Mails` has the three moments that age the cache and end the
  window of an alert (with a fourth, 131 thousand). A `Releases` phone whose news an
  administrator has made old knows as little as one that was told nothing.
  `TagLife` has one tag, because two meet only in the index on EPCs, which the
  proof has for any number; two assets are what a tag can be moved between, and
  two deeds are what meet in a log.
- The set `{x1, x2}` plays handhelds, places, users, roles, assets, tags and numbers,
  which are never compared with one another; it is symmetric in all of them,
  as the requests are.

### Deadlock

It is checked for `ScanOutbox`. `AuditCampaign`, `AssetDelta`, `Identifiers` and
`Components` stop at their bounds (scans, adjustments, clock, versions,
requests, rows) and `Session` once the account is closed or the token pairs are
used up; their configurations do not check it.

### Fairness

- `ScanOutbox`: WorkManager starts the periodic worker again and again
  (`WF(DrainStart)`); a worker is not killed every time before its next step, and
  a row sent again and again is not met by an outage every time (`SF` of reading,
  sending, checking, storing and settling); OkHttp's time limits end every call
  (`WF(TimedOut)`, `WF(Unauthorized)`). Nothing is assumed of the user, the
  recorder or the session. `HealthyRowsSettle` therefore excuses a row whose
  session is lost.
- `Session`: every request and refresh is answered or fails (`WF`), because
  clients have time limits and connections break.
- The other modules state safety only, and none needs fairness.

## 4. Findings

1. **One bad row starves the rest** (`ScanStarvation`). A send that ends in an
   `IOException` marks the row failed and ends the drain; the next run reads the
   oldest rows first and meets it again. `QueueDrainer.kt` says the opposite.
2. **A dead row comes back by itself** (`ScanDeadRetried`). `markFailed` has no
   condition on the state, so the recorder's late timeout turns a row a worker
   has found rejected into one the workers send again.
3. **Two reconciliations** (`CampaignReconciledTwice`). Two completions that
   overlap delete only what was committed before them and both insert.
4. **An asset skipped by paging** (`AssetDeltaSkips`). `until` makes an edited
   asset leave the window, which moves the rows after it up by one across the
   page boundary, the very thing the comment says it avoids.
5. **Signed out of a live session** (`SessionMobile`). Of two requests that
   refresh with one token the second is refused, and clears the pair the first
   has just stored.

`PROJECT.json` quotes the sentence each of them contradicts.

### Other observations

Met while modelling. They are in the models as the code has them, mostly as the
exceptions the properties name; no run of their own refutes a sentence with
them.

Sentences of the repository that the code does not keep:

- A scan of a known asset that is not in the snapshot is neither matched nor
  reported as surplus (`audit.service.ts:362` against `:364`).
- `notification-scheduler.ts:15` says a tick that is fired again "can't
  double-send"; it does when the worker dies between queueing a digest (155) and
  recording it (166).
- A tenant may be deleted "only … once every licence on the tenant has been
  revoked" (`platform-admin.service.ts:505`); one that is renewed between the
  look and the purge goes with it.
- `asset-event.service.ts:37` says that failures to write an event are "surfaced
  by the nightly chain verification". Of two events told of one asset at once one
  is refused by the index and only logged; the chain has no gap then
  (`ChainIsWhole`), so the verification has nothing to report, and nothing in the
  repository calls it.
- `SyncFailure.kt:43` says a replay carries the same `clientRequestId`; photos
  have none, and a photo whose answer was lost is stored twice.
- `RfidSessionClassifier.kt:30` says that "ignored" always wins; a read that was
  being recorded puts its older copy of the row back.
- `ImpersonationBanner.tsx:10` says an administrator who views a sub-tenant "can
  never confuse whose data they're editing".
  `switch-context` mints an access token only; once it has expired, the refresh
  token of the home tenant brings a home token while page and banner still show
  the sub-tenant. This is the exception of `ContextIsKnown`.

Stale decisions, by module:

- `AuditCampaign`: a replica that dies between completing a campaign and
  reconciling it leaves one that is never reconciled; an adjustment overwrites a
  newer location; a blind campaign whose expected assets have all been replaced,
  and any sighted one, can be started a second time by a handler that read
  "draft" long ago.
- `Session`: a refresh that ends after a log-out stores its tokens again.
- `Identifiers`: a lease can set the sequence back, and the allocations that
  then draw a value in use fail until they have passed them; two requests that
  give an asset its first reference overwrite each other, and a tag may be
  encoded with the one that lost; a replay that looks its key up before the
  original commits is refused at the cap.
- `TagLife`: `verifyTag` looks neither at the tag's state nor at its retirement: a
  retired tag is bound again, and `getAssetByEpc`, which leaves out tags with
  `retiredAt`, does not find it. `commissionTag` takes a tag that may have been
  locked for good and gives it another EPC (`remade`). A tag that is bound to
  nothing passes the gate of the permalock, whose asset's status is then
  "unknown". Requests about one tag at once: a tag is commissioned for one asset
  while it is bound to another, retired but bound, locked but not verified
  (`raced`).
- `Tenancy`: `activateOnboardingLicence` that fails between the licence and its
  step leaves a step that cannot be completed again.
- `Accounts`: a disabled or deleted account becomes active through an open
  invitation or an acceptance in flight; `setUserRole` deletes and creates
  without a transaction (`user.service.ts:184`), and two overrides at once give
  the union.
- `SignIn`: failures at the same time count as one.
- `Webhooks`: when the queue refuses and the fall-back post fails, or a process
  dies, the row stays pending for ever.
- `Mails`: failures counted while alerts are throttled are told by the next
  failure after the window, if there is one; those counted when the worker stops,
  and those of an alert whose e-mail fails, are told by nobody. A job that stalls
  twice fails without a report. A query of the settings that fails is cached like
  an answer: for a minute mails go by the environment's settings, or only to the
  log, and their jobs count as completed. Address and transport of a mail are
  looked up apart and may be of different settings. `enqueueUserInvite` and
  `enqueueAuditComplete` drop what the queue refuses.
- `PhotoOutbox`: `discardPhoto` deletes the files even when a worker has made
  the row live again. `attachToAsset` is never used with a queued photo.
- `Sweep`: of two uploads that overlap the second may find its tags refused
  after it has deleted the first's; the device marks the sweep uploaded.
- `Prefixes`: `withdrawPrefix` writes by id over a prefix activated since it
  looked: assets keep GIAIs under a withdrawn prefix whose number another tenant
  may claim, and the next edit clears the GIAI without keeping it. An asset
  created over an activation has the old GIAI, or none, until it is next written.

Reports (`Differing`, `Unclassed`):

- The exports of audits look for classifications "matched", "moved" and
  "unexpected" and for scans "matched" (`report-export.service.ts:605-735`); the
  audits write "verified", "misplaced", "surplus" and "found". What they print
  of matched assets and accuracy is always 0.
- The licence register prints the stored status of licences nobody has read by
  themselves since their date passed (or that are not the newest of their
  tenant), the expiry report the dates; and its devices used are all devices,
  elsewhere the active ones.
- The tenants' reports count deleted assets, everything else does not; warranties
  of disposed assets are out of date in two reports and no exception in the page
  and the digests; the maintenance schedule rounds days up, so that work due
  earlier today is upcoming there and overdue everywhere else; the cost summary
  adds up work that is not completed, `maintenanceCostReport` only what is.
- The shares of the compliance overview are of counts read at different moments,
  so that one may exceed 100 % under load.

Permissions:

- `audits.router.ts:139` asks for `audit:approve`, which no role has and
  `setUserPermissionOverrides` refuses to grant (the page asks for it too,
  `AuditReconciliationPage.tsx:72`; the test creates a role of its own): nobody
  can post an adjustment. No route asks for `workorder:write` or `report:read`.
- Switching again renews the permissions of the token, also those the database
  has taken back since.

Pages (`Overpromised`, `Unmarked`):

- `UsersPage` and `ApiKeysPage` show the buttons of the writers to holders of
  the read permission; `MaintenanceDetailPage` shows the deletion of a photo to
  `asset:write`, the API asks for `asset:delete`; the release pages of the admin
  console are open to a Licensing Authority, their routes to the Super Admin.
- `AuditsPage.tsx:72` asks for pages of 500, `assets.router.ts` allows 200.
- An override for one user tells a permission from the role that has it.
  `LicensingPage` shows the actions on licences to holders of `licence:manage`,
  their routes ask for a role; `AuditLogPage` shows the export by role, its route
  asks for `user:read` (`AskedOtherwise`). The attempt to prove `OffersHold` for
  every override found both.
- Changes that do not mark what they change: the logos, a supersession (which
  renames every asset's GIAI), the deletion and the transfer of an asset for the
  asset's own page, the timeline, a new sub-tenant for the tenant switcher.
- `useMutationWithToast.ts:17` takes a list of names as one key; five hooks of
  `useAdmin.ts` give it a list of keys, which then match nothing. The licence
  actions of `TenantDetailPage` mark the licences, but the page shows the
  tenant's; the onboarding steps mark only themselves.
- A fetch left running by a page that was closed, or a first load under way when
  its key is marked, clears the mark with an older answer (`LeftRunning`).

## 5. Proofs

`ScanOutboxProofs` proves, for any number of scans and workers and any batch
size, from the assumptions on the constants that `ScanOutbox` names:

| Theorem | States |
|---|---|
| `TypeCorrect` | `TypeOK` always holds |
| `Invariant` | the inductive invariant always holds |
| `ScanCountedOnce` | `CountedOnce` always holds |
| `CapturedScanKept` | `NoScanLost` always holds |
| `LiveRowKept` | `LiveRowRemovedOnlyWhenCounted` |
| `ImplementsDelivery` | `ScanOutbox` implements `ScanDelivery` |
| `TriedOnce` | `TriedOncePerRun`: a run of a worker sends a row once |

`NoScanLost` is not inductive by itself. A row goes for one of two reasons:
`Accepted` needs to know that whoever was told "stored" was told the truth
(`AnswerIsTrue`: an attempt in `stored` has an event at the server, and events
are never deleted), and `UserDiscard` records what it discards. `CaptureScan`
overwrites the row of the scan it captures, so nothing may know of a scan before
it is captured (`Fresh`: no row, no event, no attempt, no batch, no orphan; the
drains' batches are rows that exist). `CountedOnce` is what makes the server's
insert one step of `ScanDelivery`. So

    IInv == TypeOK /\ CountedOnce /\ AnswerIsTrue /\ Fresh /\ NoScanLost

The lemmas go by kind of action: what the DAO's updates and a drain's end
preserve, that the events only grow, that one attempt moves at a time, why a
row goes (`RowGoes`), and one lemma for each conjunct of `IInv`. The refinement
maps `CaptureScan` to `Capture`, an insert to `Count`, `Accepted` to `Release`,
`UserDiscard` to `Discard`, and everything else to a stutter. `TriedOnce` has an
invariant of its own: what a worker holds to try is apart from what it has tried.

`IdentifiersProofs` proves the invariants of `Identifiers` and its action
property, for any workers, keys, tags, sizes of blocks and bounds:

| Theorem | States |
|---|---|
| `TypeCorrect`, `Invariant` | types; the inductive invariant |
| `IarOnce` | `IarHeldOnce` always holds |
| `LeasesSound` | `LeasesAreSound` always holds: blocks are whole, and the sequence is behind none of them |
| `KeyAnswersAgree` | `AnswersAgree` always holds |
| `IssuedIsFinal` | `IssuedStays`: a bound reference and a settled block stay |
| `CapBounded` | `CapOverrunIsBounded` always holds |

None of these is inductive by itself, and `TypeOK` is not either: a lease may
set the sequence to the end of its block only because it has seen that the block
ends within the range. So

    IInv == TypeOK /\ LeaseInv /\ LeasedIsBehind /\ BlocksAreWhole
              /\ HeldInv /\ UntakenInv /\ RowInv /\ KeyInv
              /\ CapOverrunIsBounded

- `LeaseInv`: a worker in a lease holds the lock; once it has drawn, every block
  ends before the value it has; when it stores, the sequence is not before the
  end of its block. That `setval` may go back behind a draw of an allocation is
  allowed by this, and that it may not go back behind a block follows from it
  (`InsideLease`). Without the lock the first conjunct fails.
- `HeldInv`, `UntakenInv`: `IarHeldOnce` without counting, and that a value
  nobody took belongs to no block. A value comes into a hand only when the
  primary key lets it be recorded (`RecordHeld`), then nobody can have it,
  because who has a value has it recorded, and what is recorded stays
  (`DecidedStays`); from there it passes to one row (`HandToRow`).
- `RowInv`: the assets a request numbers exist, and a row that does not exist
  has no reference, so that an insert never replaces one (`BoundStep`).
- `KeyInv`: an answer names the row with its key, and one row at most has it.
- `CapOverrunIsBounded` counts the live assets and the creates past the check
  together, and so is inductive by itself: a create passes the check only when
  there is room for one (`CheckedKeepsBound`), an insert moves it from the one
  count to the other (`InsertedKeepsBound`), and every other step makes them
  fewer (`FewerKeepBound`).

The assumptions are those the module names: natural numbers, sizes of at least
one, workers that are some and finite in number, `None` being neither a worker nor a key.

`AuditCampaignProofs`, for any assets, zones, auditors and handlers:

| Theorem | States |
|---|---|
| `TypeCorrect` | `TypeOK` always holds |
| `AdjustedItemStays` | an adjustment keeps the item it adjusts, in every campaign |
| `AdjustmentsSettled` | `AdjustmentsKeepTheirItem`, in a campaign with a list of assets |
| `SettledForGood` | `SettledStaysSettled` |
| `ReconciliationsSound` | `ReconciliationIsSound`, in a campaign with a list of assets |

The third and the last are about campaigns that name their assets (`Explicit #
{}`), which are the ones for which they hold: a blind one that takes its site's
assets may be started again after it was completed (the first of the stale
decisions of section 4), and the run `AuditCampaign` has a list. `Course` says how far a campaign has come, for
its status, for what each handler has read and for what is in the tables
(`Drafted`, `Snapped`, `AfterAll`); `Runs` that the items of two reconciliations
are apart in `by` and that those of one are whole: the items, the ones it is
about to insert, or those its transaction deletes. `Held` is the foreign key.

`AssetDeltaProofs`, for any assets, page size, overlap and any number of syncs:

| Theorem | States |
|---|---|
| `TypeCorrect` | `TypeOK` always holds |
| `DeletedLeave` | `DeletedAssetsLeave` |
| `CalmCurrent` | `CalmCacheIsCurrent` |

Both come from `Stored`, which says of the cache what they say, and which is
kept because each sync carries the same promise with it from its first page on:
`Counted` (how many rows of the delta lie before the next page), `Covered` (what
is older than the cut has been fetched or will be by a page still to come),
`Fetched`, `LookedUp` (what is in hand is a version the register has had, and
when), and `Timely` (no stamp of a committed row is further behind the clock
than `MaxLag`). That twice the lag fits into the overlap (`LagAssumption`) is
what the proof needs of the constants; the overlap is two minutes in the code.

`SessionProofs`, for any number of requests and pairs of tokens: `TypeCorrect`
for both clients, `TokensSound` (`TokensAreSound`) for the page of the web
client (`Client = "web"`); for the mobile client it is not a property of the
run. The invariant (`PageInv`) says that one request at most refreshes
(`Single`), that a token has one child (`OneChild`), that the one it asks with
is stored and unspent (`Unused`, `Unspent`, `Fresh`), or replaced by the answer
on its way (`Replaced`), as long as no page was left in the middle of one.

`ComponentsProofs` proves the properties of the run `Components`, for
any requests, and whatever the other constants are (their assumptions are named
in the modules: bounds are natural numbers, rows are finite in number, there is
a request). One component moves and the others rest, so its invariant is that of
the component that moves.

| Theorem | States | Invariant, beyond the types and the property |
|---|---|---|
| `TypesHold` | `TypeOK` | the twenty-one below |
| `RegisterSound` | `RegisterHolds` | every check-out under way, and every loan, has seen the loans up to a point returned; a number generated is past all that were there when its request looked |
| `GiaisSound` | `GiaisHold` | one prefix is active and one row claims a number; every GIAI shown is kept; what a request knows of its tag holds unless the tag was written since (`KnowsTag`), and the event it is about to insert follows one that is there (`FollowsOn`) |
| `MessagesSound` | `MessagesHold` | for each place of job and handler, what the row says and how often was posted (`EventPlace`, `EventCount`, `EventTold`); for a mail, how old what it has read and what is cached can be, and who tells of a job; the hour served is the one recorded, or excused; a tick that is about to serve is far enough from it |
| `PagesSound` | `PagesHold` | no answer that counts is older than the last change that was promised |
| `SweepSound` | `SweepHolds` | what a screen has read agrees with the row or was decided since; of two payloads one holds the other; the report is one of them |
| `PhotosSound` | `PhotosHold` | a photo in hand has a row, or has reached the server, or was thrown away, for every place of the coroutines and of the worker; photos and uploads past the count are counted together |
| `SecondFactorSound` | `SecondFactorHolds` | a code belongs to a set-up so far; a request has read the record as it is, or is excused; an attempt knows why it may pass |
| `ReachSound` | `ReachHolds` | what a token carries its user has held; a permission held comes from a role held or from an override (`Explained`); the home tenant a token names is the user's |
| `TokensWithinHeld` | (no property of a run) no token carries what its user has not held | the same |
| `OffersSound` | `OffersHold` | none: the tables agree (`OffersAssumption`), and a profile is that of its token |
| `AccountsSound` | `AccountsHold` | invitations, roles and uses are counted together with the requests about to add one |
| `AllowanceSound` | `AllowanceHolds` | active devices are counted together with those about to be saved as active |
| `LicencesSound` | `LicencesHold` | the date a row has is the one owed; a status about to be stored was computed from the bar it would undo |
| `TenantsSound` | `TenantsEndWhole` | the statements a request has left are those of its operation, with the ids it has read |
| `ReleasesSound` | `ReleasesHold` | who is current and what an open transaction saw when it began, with what was promoted since; of every id one request or row is the owner; what a pruning takes had newer ones enough; and the two facts of an enrolment |
| `FilesSound` | `FilesHold` | every object a row names was put before the row, a request that may take one is the only one of its kind or was met; what a purge has listed of a bucket is all there is but what was on its way |
| `ReportsSound` | `ReportsHold` | none: what a name means is said once (`Means`), and every figure of every query is shown to count just that, but for the rows named |

Three of them rest on facts about finite tables which are not proved but evaluated:
`ReachSound` on `GuardsAssumption` (the guards of the routes let in only the
roles that are described as having them; TLC evaluates it at the start of
`Components`), `OffersSound` on `OffersAssumption` (behind every button that is not
an exception is a route whose guard asks for what the page asks for; evaluated
likewise), and `PagesSound` on `ChangesAreMarked` (the hooks mark the answers
their changes change, or are among the exceptions; `Components` checks it as part
of `PagesHold`, for every hook). What is proved is that no order of events
undoes what the tables say. `Sweep` has two screens (`ScreensAssumption`), as the
app has.

Only model-checked:

- `HealthyRowsSettle` and `CallsEnd`: liveness under fairness, which is out of
  the prover's reach.
- The runs that expect a violation.

## 6. Not modelled

- GS1 encodings, check digits and the drawing of labels: arithmetic over
  integers of up to 96 bits and layout, which vectors test well. The string
  order of asset numbers at the sixth digit (`asset.service.ts:44`) is left out
  with them.
- The asset queue of Android: its sender is the create of `Identifiers` with its
  replays, its rows are kept and marked as those of `ScanOutbox`.
- The RFID reader and its health monitor: callbacks of a vendor's library. (The
  monitor may report ready for up to thirty seconds after a disconnection.)
- Imports, OpenAPI, the Python report service, the sums and ages of the reports:
  batch writes of rows the other modules have, arithmetic, or rendering.
- The iOS app: the Android sync again, in Swift.
- The sign-in pages of the web app, forms, wording and layout; API keys, rate
  limits, single sign-on, password resets by e-mail.
- Deployment, backup and profiling scripts.
- The trail of audit events, which is written without being awaited, and may
  lose its last entries at a shutdown.

## 7. Plan

1. Done: `ScanDelivery`, `ScanOutbox`, `AuditCampaign`, `AssetDelta`,
   `Session`, `Identifiers`, the twenty-one components of the run `Components`,
   and their proofs.
2. The asset queue, whose rows are queued only after a failed attempt, so that a
   process that dies during that attempt keeps nothing; the register's imports.
3. The reader and its health monitor; the iOS queues, where they differ.
4. Composition: `AuditCampaign` with the scan queue, so that `CloseCampaign` and
   `LoseSession` of `ScanOutbox` become the steps of the detailed modules;
   `SignIn` with `TwoFactor`; `Tenancy` with `Licences`.
5. Liveness: webhook deliveries and digests under the retries of BullMQ.
6. Proofs: done for every safety property of a passing run.
   What is left: `ScanDelivery`'s counterpart for the photo queue, as a
   refinement of an abstract queue that `PhotoOutbox` implements.

Where the runs of a new module would repeat an old question, the old run is
widened instead.
