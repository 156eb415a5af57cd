# TLA+ models of the AI compliance wrapper

The repository is a FastAPI/PostgreSQL backend (`src/app`) that stands between
a tenant's applications and an AI provider: it fingerprints the features that
call the provider, asks for human review when a feature changes, blocks or
flags requests, writes an evidence trail, meters usage, and keeps the
compliance records (AI systems, controls, FRIAs, evidence, reports) that a
Next.js dashboard (`src/apps/dashboard`) shows.

These modules model the parts whose correctness depends on the *order* in
which requests, administrators and Stripe act on the same rows. TLC checks
them on small instances. TLAPS proves for every instance: the version lifecycle,
alone and under concurrent requests, the review tasks, evidence chain and
usage of the chat pipeline, the Stripe webhook, the users of a tenant, the
governance records, and what the workspace promises about evidence, together
with two refinements of abstract specifications.

## How the code runs, and what that means for the models

* **Concurrency.** Two gunicorn workers run synchronous handlers in threads.
  Each request has a SQLAlchemy session (`db.py:24`, `autoflush=False`) and one
  transaction at PostgreSQL's default, READ COMMITTED: each statement sees what
  is committed when it runs.
* **Stale sessions.** A row that was loaded stays as loaded. The unit of work
  sends only the columns that were set to another value than the one loaded
  (`FeatureRequests!Overwrite`, `StripeBilling!Merge`).
* **Key lock.** `authenticate_api_key` flushes `last_used_at`
  (`auth_service.py:24-25`), which locks the key's row until the request
  commits or rolls back: requests with one key run one after the other,
  requests of one tenant with two keys do not. A tenant normally has several
  keys (dashboard, SDK clients). Most of what the services promise rests on
  this lock, so runs come in pairs: one key, and a key per thread.
* **Event loops.** Two endpoints are `async`, the website scan
  (`website_scans.py:24`) and the artifact upload (`evidence.py:79`). They call
  the database from the event loop of their worker, hold the key's lock across
  their `await`s, and stop every other request of the worker while they wait
  for a lock; gunicorn kills a worker whose loop is silent for 120 seconds
  (`Dockerfile:31-38`).
* **Constraints.** A unique index makes an INSERT wait for an uncommitted row it
  conflicts with, and fail on a committed one. The schema's unique indexes
  (`models.py:239-242`, `alembic/versions/0002_postgres_partial_indexes.py`)
  are guards of the models.

## Inventory

| component | state | operations | interacts through | what is hard | what makes it correct |
|---|---|---|---|---|---|
| Feature versions (`feature_service.py`) | `ai_features`, `feature_versions` | register, record a version on execution, approve, reject | executed by the pipeline, decided on by administrators | decisions on stale rows, flush order, first-version race | one approved version, the feature points at it, no change runs as approved unreviewed |
| Chat pipeline (`pipeline.py`) | the transaction of a request | governance checks, pre-check, provider call, rollback paths | calls features, reviews, evidence, billing | 30-second provider call inside the transaction, failure after partial work | every ungoverned completed call is under review, but for those that name "unmapped_feature"; failures leave evidence |
| Review tasks (`review_service.py`) | `review_tasks` | find or insert, count, close | raised by the pipeline and by system reviews | duplicate inserts, lost counts, close against count | one open task per reason; sightings are counted |
| Evidence log (`evidence_service.py`) | `evidence_logs` | append to a hash chain; independent append | pipeline, FRIA, incidents, scans | order by transaction start; forks | the chain forks only around overlapping requests |
| Billing (`billing_service.py`, `webhooks_stripe.py`) | `tenant_subscriptions`, `processed_stripe_events`, `usage_meters` | checkout, portal, webhook, metering | Stripe's deliveries, pipeline | repeated, late, unordered events; two commits | tenants are not mixed up, every event is acknowledged, checkouts arrive |
| Authentication (`auth_service.py`) | `api_keys.last_used_at` | authenticate, role check | every request | the lock above | - |
| Entitlements (`entitlement_service.py`) | `entitlements` | grant, revoke, check | gate the governance endpoints; no endpoint grants or revokes | revoked between two requests | a refused request changes nothing |
| Tenant users (`tenant_admin_service.py`) | users, invitations, auth policy, audits | create, update, invite, revoke, log in, purge | dashboard | last owner, double bootstrap, renewed invitations | an owner remains; an accepted invitation has its user |
| FRIA, oversight, incidents (`obligation_service.py`) | `fria_records` and others | sections, submit, review, patch, delete | runtime policy gate, evidence log | edits against reviews; PATCH past the workflow | each request acts on the record as it is; the approval record says what the log says |
| Runtime policy check (`policy_service.py`) | `runtime_policy_checks` | check | reads features and FRIAs | stale reads, another key | an answer follows the feature at one moment of the check, and the FRIAs of its system at a later one |
| Evidence vault (`evidence_vault_service.py`, `gcs_storage.py`) | `evidence_items`, `evidence_artifacts`, bucket | create, edit, attach, upload | controls, AI systems | seals over stale rows, upload then commit, links of several steps | every item is covered by its seal; an artifact row has its object; uploads lose no entry of a list; links stay in one system |
| Controls (`compliance_control_service.py`) | `compliance_controls` | create, apply templates, seed, review | scans, intakes | find-or-insert, history overwritten | every obligation has its control |
| Scanner (`website_scanner_service.py`) | `website_scans` | scan, convert | creates systems, intakes, controls, evidence | double conversion, role changed after the draft, an event loop that waits for itself | a conversion is whole and is what the scan announced; every request ends |
| AI systems (`ai_system_service.py`) | `ai_systems`, review events | create, edit, review with follow-ups | review tasks, controls, vault | placeholders of one transaction | a review links nothing of another system |
| Classification (`classification_service.py`, `regulatory_knowledge.py`) | intakes | classify, explain, materialize controls | scans, controls | precedence of roles and risks | scan, intake and controls agree |
| Reports (`report_service.py`) | `reports` | generate, also as the last step of a scan's conversion | reads every other table | one transaction with the conversion | a report gathers the scans of its own system |
| Risk engine, redaction | none | pure functions | pipeline | - | - |
| Dashboard (`apps/dashboard`) | signed session cookie | pages, proxy | backend API | none beyond the backend's | - |

## Modules

    FeatureVersions            atomic lifecycle (abstract specification)
      ^ EXTENDS                  ^ EXTENDS
    FeatureRequests            FeatureVersionsProofs
      ^ EXTENDS
    MCOneKey, MCTwoKeys, FeatureRequestsProofs

    GovernedChat   <- MCChat, GovernedChatProofs
    StripeBilling  <- MCBilling, StripeBillingProofs
    TenantUsers    <- MCTenant, TenantUsersProofs

    GovernanceRecords          tables, operations on one record, the gate's decision
      ^ EXTENDS                  ^ EXTENDS
    GovernanceRequests         GovernanceRegister   (abstract specification)
      |  ---- implements ---->   (INSTANCE ... WITH verdict <- Verdict)
      ^ EXTENDS
    MCGovernance, GovernanceProofs

    ObligationGraph            the rules: classification and obligations
      ^ EXTENDS                  ^ EXTENDS
    SiteScan                   ControlRegister <- EvidenceVault
      ^ EXTENDS                                     ^ EXTENDS
    Workspace <-------------------------------------+      <- MCWorkspace, WorkspaceProofs
                                                             ^ EXTENDS
                                                           ConversionProofs

**FeatureVersions** is one feature with its versions as `feature_service.py`
keeps them when each request runs alone. `feature` is the `ai_features` row,
`version` the table by primary key, `decision` a history of the last decision
on each version. Its actions are `ensure_feature_version_candidate` on a new
fingerprint (`CreateVersion`), `approve_feature_version` and
`reject_feature_version`. `PartialIndex` says whether the database has
`uq_one_approved_version_per_feature` (SQLite, the test database, has not).
The keys are numbers in the order of their strings, because a flush writes rows
in that order (`PromotedTooEarly`).

**FeatureRequests** is the same state under concurrent requests, one action per
statement: `tx[s]` is where the request of slot `s` is and what its session has
loaded. With one API key it implements FeatureVersions; the refinement mapping
is the identity (`PROPERTY Spec` of the run `versions_one_key`, proved as
`OneKeyIsSerial`). A row inserted and not yet committed is kept in `tx` and seen
by the unique indexes only.

**GovernedChat** is `POST /v1/chat/completions` from the permission check to
the commit, with the review tasks, evidence and usage it writes. A request is
about a *subject*: the feature id `"unmapped_feature"`, an unregistered or
suspended feature, or one version of the registered feature. The pipeline gives
that id to a request without one, after it has raised a task for it; a client
that sends the literal itself (`named`) passes by this task and by the check of
the registration, and reaches the pre-check and the provider with no version
and no task. `GovernanceReasons` lists the tasks in the
order the pipeline raises them; `writes` holds what the transaction has done to
`review_tasks`; `created` is the transaction's start, which PostgreSQL's
`now()` stores as `created_at`. `alone` (history) tells whether any other
request was in progress. Version decisions are one action here, since
FeatureRequests models them in full, and the look-ups before the INSERT of a
version are one step: what a finer interleaving adds, an INSERT that fails on
the partial index, is in FeatureRequests.

**StripeBilling** is the webhook with `tenant_subscriptions` and
`processed_stripe_events`. Stripe is the environment: it emits events and
delivers each one any number of times, in any order, until it is acknowledged.
A worker handles one delivery at a time: look up the mark, load the row (or
insert the free row and commit), commit the change, commit the mark,
answer. It may die between any two of these. Bystander tenants obtain rows on the billing page.

**TenantUsers** is `tenant_admin_service.py` with the routes that commit it:
`users` by address, `invitations` in the order they were sent, `policy`, and
`trail`, the newest image of each user in `tenant_action_audits`, which the
administrators' operations write and a login does not: a login leaves a login
event, without role or status. A slot holds one request
(`tx`): `Administer` is authentication with the dashboard session's check, then
come the loads, the check of the other owners, and the write, which is flushed
and committed at once. `Login` and its followers are `resolve_login_identity`,
look-up by look-up. `overdue` stands for a date of expiry in the past, and
`Lapse` is the week that passes.

**GovernanceRecords** says what one operation of `obligation_service.py` makes
of a FRIA, an incident or an oversight assignment and `feature_service.py` of a
feature (`Results`), which status it
requires (`Permits`), what the evidence log records (`Logged`), and what
`run_policy_check` decides on the feature (`FeatureGate`) and on the FRIAs of
its system (`FriaGate`). No schema or service limits the status of a FRIA or a
feature's status and risk level: besides the strings that the code tells apart,
clients write any of `OtherTexts`. **GovernanceRegister** is the promise: a
change of a record is one step on the record as it is (`Change`), and the gate
answers a question by the feature at one moment (`Look`) and, if it is of high
risk, by the FRIAs of the system it had then at a later one (`Answer`). It does
not promise that both hold at one moment: a PATCH may block the feature or link
it to another system between the two reads, and the gate has no lock against
it. **GovernanceRequests** is the code:
authentication, entitlement, load, the check on the loaded row, and the flush
that sends only the columns whose value differs from the loaded one (`Merge`);
the gate reads feature and FRIA in two statements with an SDK key that the
dashboard's lock does not hold up. The mapping is the identity on `rows` and
`log`; a client is answered (`Verdict`) from the moment the decision is taken,
which is when its last SELECT runs, not when the row is inserted, and waits for
the FRIAs of a system (`Needed`) between the two.

**Workspace** composes four modules into one tenant's tables. `ObligationGraph`
is `_run_classification_logic` with the eleven dimensions of
`regulatory_knowledge.py`; an intake's answers are the set of questions answered
with true. `SiteScan` turns what the pages of a site match into draft answers,
a risk level, a scenario for each role, and gaps. `ControlRegister` holds the controls by
system and key (`uq_control_system_key`) with the three ways to seed them;
`EvidenceVault` says what a request makes of an evidence item and its seal.
`Workspace` adds the requests: a plain endpoint authenticates, takes its
snapshot and commits (`Read` is what it loaded, `db` what it writes to); an
upload awaits its file, stores the object, then writes the rows (`ReceiveFile`,
`StoreObject`, `AttachArtifact`); a scan fetches page after page, renders app
shells, follows compliance links up to `max_pages` and writes one row
(`StartScan`, `FetchPage`, `RenderPage`, `EndScan`). `ConvertScan` and
`GenerateScanReport` are `convert_scan`, the latter with the report in the same
transaction. Every request may fail at any statement (`Fail`); its session is
closed later (`CloseSession`), and until then the key stays locked.
`BlockLoop` is an async endpoint that waits for a key in its event loop, and
`KillWorker` gunicorn's timeout. A seal is the record of what it was computed
from, a bucket object a number, an evidence event its scan and system. No
schema limits the status of a control or the metadata of an item: a client may
write any text as the one (`OtherStatuses`) and any dictionary as the other, on
creation and by PATCH (`ClientMetadata`), lists of artifacts and attachments
included, whether or not they name anything.

Comments that start with `Fault:` mark definitions that no specification uses:
each is a plausible mistake in the definition below it, and the property named
for it in PROJECT.json fails when it is put in place.

## Runs

Every configuration sits beside the modules; `tlc -config X.cfg M` runs it.

| run | module, cfg | result |
|---|---|---|
| `versions_one_key` | MCOneKey, FeatureRequestsOneKey | holds |
| `versions_two_keys` | MCTwoKeys, FeatureRequestsTwoKeys | holds |
| `unreviewed_version` | MCTwoKeys, UnreviewedVersion | ApprovedWasReviewed violated |
| `current_rejected` | MCTwoKeys, CurrentIsApprovedTwoKeys | CurrentIsApproved violated |
| `approval_with_index` | MCOneKey, ApprovalWithIndex | ApprovalCanBeWritten violated |
| `chat_one_key` | MCChat, ChatOneKey | holds |
| `chat_two_keys` | MCChat, ChatTwoKeys | holds |
| `provider_failure` | MCChat, ProviderFailure | ProviderFailureEvidenced violated |
| `stripe_billing` | MCBilling, StripeBilling | holds |
| `tenant_users` | MCTenant, TenantUsers | holds |
| `governance` | MCGovernance, Governance | holds |
| `workspace` | MCWorkspace, Workspace | holds |

**What the passing runs show.**
With one key the lock makes the statements of a request atomic, so the
lifecycle's invariants hold even without the partial index, and a version that
is being executed is not rejected before the answer is returned. With two keys
only what indexes enforce survives: one approved version and numbering.
In the chat pipeline, one key means exact occurrence counts and exact usage,
and a completed call that no approved version covers has its task open, except
for a call that names `"unmapped_feature"`, of which nothing can be promised.
With two keys counts can be lost, but tasks are not duplicated, usage is never
above what was completed, the chain forks only between requests of which one
overlapped another, and no two requests wait for each other's rows: they raise
their reasons in one fixed order.
For Stripe, no order or repetition of deliveries mixes tenants, an acknowledged
checkout has linked its tenant, and every event is acknowledged in the end,
also when the worker died after it had marked the event.
For the users of a tenant, the dashboard's one API key is what makes the checks
safe: an owner remains, only one login founds the tenant, a disabled user is not
revived by a login under way, an administrator acts only while he is one. None of
these has an index or a lock of its own. With `KeyLocked` replaced by
`NeverLocked`, which is what two keys amount to, TLC finds two owners demoting
each other, and a login that overwrites a disabling. Two sequences that are
allowed are worth knowing: inviting an overdue invitee again does not renew the
date, so the next login refuses him; and a disabled user may be invited, but
cannot accept.

For the governance records (`governance`), the requests of one key implement
GovernanceRegister while entitlements come and go and an SDK client with a key
of its own asks the gate: no review is recorded on a text that was edited after
the check, no approved FRIA is deleted by a request that loaded it earlier, and
an answer of the gate is never older than its question: the feature is read
after it, the FRIAs after the feature, and by the system that was read. The
records may change between the two, and no lock or second look excludes an
"allow" for a feature that a PATCH has blocked meanwhile; nothing in the
repository promises otherwise. The approval record tells what the
evidence log tells, although a PATCH may set any status in between; that a
PATCH alone makes a record "approved", and the gate content, is how the code is
written. Without the lock TLC finds edits merged into an approved record.
In the workspace (`workspace`), conversion is all or nothing, happens once per
scan, and yields the intake, the controls and the obligations that the scan
announced for the chosen role, whatever other requests do before, between and
after; where the intake's explanation asks for legal review, so did the scan.
Seals cover their rows after any edit, attachment or upload. An upload that
fails or is killed leaves an object without a row, never a row without its
object. The metadata of an item lists each upload in the commit that inserts its
row, before what it lists already, and neither an upload nor an attachment loses
an entry; only a client's PATCH of the metadata does, which replaces the whole
dictionary. So a list may name an artifact that is another item's or none at
all, if a client wrote so; the artifact rows are what counts. Without the lock
TLC finds two uploads of which one disappears from the list. Items and reviews are not linked to controls of another system, also
after a chain of updates and attachments. (An item itself may be moved to
another system by an update, so a review may point to an item that has left.)
Every request ends, but in one case only because gunicorn kills the worker: a
scan awaits a page and holds the lock of its key, a second scan or upload with
that key waits for the lock in the same event loop, and the first never gets to
release it. Both requests are lost then, and everything else the worker was
serving.

**What the violations show.** The traces are described under `findings` in
PROJECT.json:
1. Reject decided before an approval commits, written after it: the current
   version is rejected (`README.md:14` of the repository says it cannot be).
2. A request that found the feature without a fingerprint, and reads on only when
   the versions recorded since are superseded and rejected (by 1.), stores its
   own, changed version as approved. It takes three requests and three versions:
   the two-key run, with two of each, does not reach it and held while it still
   listed ApprovedWasReviewed. The attempt to prove that property showed the gap.
3. With the partial index the approval of a candidate whose uuid sorts before
   that of the approved version fails; retrying cannot help, because the keys
   stay as they are. About half of all approvals are of this kind.
4. A provider failure on the first call of a new version leaves no evidence.

Findings without a run are seen by comparing texts: the idempotency guard of the
webhook (below), the scope of SDK keys, the tables of `purge_tenant`, the FRIA status that readiness
reports count ("completed", while reviews end in "approved"), the factsheet
report that fails on every request, and the fine that Article 50 is given. Also
met while modelling, without a statement of the repository to hold against it:
an update of a control with `details_json` replaces the review history that
`record_review` keeps (`ClientDetails`); the evidence bundle of a report reads columns
that `EvidenceItem` does not have (`report_service.py:812`) and fails for every
system with evidence; `create_item` seals dates with the client's UTC offset
while PostgreSQL returns them in UTC, so a seal recomputed from the row as text may differ
(the model compares instants).

Stale Stripe events are not a violation of anything the code states, but the
state space of `stripe_billing` holds them: an update delivered before the
checkout is dropped and marked, and an older status may overwrite a newer one.
Nor does any run ask that the idempotency guard stops every repetition
(`webhooks_stripe.py:30`), since it plainly does not: of two deliveries of one event
that pass the guard together, the slower applies the event again after the other
marked it.

**Bounds.** Versions: three rows give one approved version, one approved or
rejected over it, and a bystander; two slots every pair of concurrent requests.
The interleavings of `versions_two_keys` are explored without a bound on the
requests, but for two rows: that is every race of two requests over one pair of
versions, and a conflict of a unique index is always between two rows. (Three
rows with two keys have more than ten million states; `current_rejected` and
`unreviewed_version` have them, since their counterexamples are short. What holds with
two keys is proved for any number, so the bound hides nothing of it.) The one-key runs need no bound.
`MaxTransactions` = 3 in the chat runs: two overlapping requests and one before
or after them, with a failing provider counting twice; two versions give an
initial and a candidate. `MaxEvents` = 3 is a checkout and two updates in any
order, `MaxCrashes` = 1 a death in every place. The slots are interchangeable
where symmetry is declared; the runs that check liveness have none.
A feature is suspended or not for the whole of a chat run; its PATCH is in
`governance`.
Two people are enough to demote or disable each other and to race for the first
login; two roles stand for "owner" and the rest (an `admin` has the rights that
the key itself has in the model), two policies for open and restricted; the
second of `MaxInvitations` = 2 may be a duplicate or a re-invitation. Neither
policy has an allow-list: it could only keep people out.
Governance: one record at a time of each kind (`MaxRecords` = 1; records do not interact, but
for the gate, which looks for any FRIA of a system: there are two systems, and
beside the record one feature, linked to either or to none), one section of the
FRIA, two submissions to resubmit after a rejection, one further text for the
free status columns, and one switched entitlement. Workspace: `MaxRequests` = 3
lets two requests overlap and a third precede or follow them; the database
starts empty or with one row of each kind, so that three requests reach what
would take eight from the start. `MaxPages` = 2 of three pages makes the limit,
a rendered page and a followed link happen. One slot serves every operation but
the scan, the other the two async ones: an async request has to overlap
with everything, while two plain ones with one key exclude each other. The
statuses that clients write are one that completes a control and one of their
own, with one severity; of their metadata one entry in each list, for an artifact
of any item or for none. The
history limits of the code (10 attachments, 25 reviews) are modelled and not reached.
The chat runs also differ in policy: `warn`/`allow_with_warning` for one key,
`block`/`quarantine` for two. CHECK_DEADLOCK is off where a bound ends the
behaviour.

**Fairness.** `GovernedChat!Spec` assumes strong fairness of each request's next
step: threads are scheduled, the provider call has a 30-second timeout
(`ai_provider.py`), and PostgreSQL queues those who wait for a row lock.
`StripeBilling!Fairness` assumes that a handler that has not died goes on (weak),
and that Stripe delivers again what was not acknowledged whenever a worker is
free (strong). `Workspace!Fairness` assumes weak fairness of what a slot's request does next
(fetch and browser have timeouts, an error path always exists) and of
`KillWorker` (the arbiter of gunicorn polls its workers); a blocked event loop
makes `Serve` disabled, so only the second can end it.
Nothing obliges an administrator, a tenant or Stripe to start
anything. FeatureRequests, TenantUsers and GovernanceRequests have safety
properties only and assume none.

## Proofs

`FeatureVersionsProofs` proves every safety property of FeatureVersions for
any sets of ids and fingerprints and for either value of `PartialIndex`, from
the assumptions stated in FeatureVersions: ids are natural numbers, the NULLs
are outside of their sets.

The core invariant is `CoreInv == TypeOK /\ OneApproved /\ CurrentIsApproved`.
Neither half is inductive alone. A version may be inserted as approved only
because the feature has no fingerprint, and only the second conjunct says that
then nothing is approved; the current version may be rejected only if another
one is approved, and only the first says that there is none. (So the
replacement branch of `reject_feature_version`, lines 256-280, is never taken
when requests are atomic.) On the core rest:

* `StampsHold`: the timestamps follow the status, row by row (`StampsPerRow`).
* `ApprovedNeedsDecisionHolds`, `RejectionStandsHolds`: from `DecisionInv`, which
  adds that nobody has decided on a version that does not exist.
* `VersionsNumberedHolds`: from `NumberingInv`, which adds that finitely many
  versions are recorded, so that "latest plus one" is the cardinality plus one.

What an action does to the tables is stated once (`CreateEffect`,
`ApproveEffect`, `RejectEffect`) and cited by every preservation proof. Run
`tlapm FeatureVersionsProofs.tla` to check them.

`FeatureRequestsProofs` is about the concurrent lifecycle, for any number of
slots, versions and fingerprints. Whatever keys the requests carry:

* `Keeps`: no step removes a version or changes its number or fingerprint, since these are
  not among the columns that are written back. So what a request read of them stays true,
  although status and stamps of its copy may be stale (`Read`, `CopyOf`).
* `Reserved`: a row that is inserted and not committed conflicts with no other, because the
  unique indexes make the second insertion wait, and fail. `ConcurrentTypes`,
  `ConcurrentNumbering` and, with the partial index, `IndexKeepsOneApproved` follow.

With one key (`SharedKey`) one request is past authentication (`OneAtWork`) and what
it loaded is what the tables hold (`Fresh`), so the step that writes is the atomic
action of FeatureVersions and every other step a stutter (`StepRefines`). That is
the refinement `OneKeyIsSerial`; all that `FeatureVersionsProofs` says of the
atomic lifecycle therefore holds with one key, and `OneKeyReviews` is what
several keys break.

`GovernedChatProofs`, for any number of requests, subjects and transactions and
every policy. Whatever keys the requests carry:

* `OneOpenPerReason`: OneOpenTask is not inductive, because it is silent on the rows
  that are inserted and not committed. `Reserved` adds that such a row is the only one
  of its subject and reason, among open tasks and among insertions; an insertion
  waits for the others and looks again (`Free`), and two rows of one request have two
  reasons (`Distinct`). `WritesRewrite` says what a commit makes of the table.
* `ForksShowOverlap`: a request that ran alone is newer than all evidence and has
  read its end (`Alone`), so the evidence of such requests points to older evidence
  only (`Chained`). Two that point to the same would make one of them read a
  predecessor that is no longer the last.
* `ChargesAreBounded`: UsageNeverOvercounts is not inductive: a request writes back one
  more than it has read, and what it has read may be far above the meter by then, since
  another request has written an older reading back. `Charged` bounds it by the most that each
  meter ever read (`Peak`): what a request will write is at most one above that, and a
  completed call pays for the one.

With one key, `SerialInv` adds `OneHolder` (one request past authentication, and no
administrator beside it, except for requests that are only writing the evidence of
a failure) and `Sure`: the tasks a request counts on are open, the meter it read is
the meter, and a request that may complete has raised what its subject calls for
(`Covered`). From it `UsageIsExact` and `UngovernedRunsAreReviewed`. `SightingsAddUp`
needs the exact count as well: with one key a request's row in `writes` is the task as it
is, plus one (`Exact`), and it writes one such row for each reason that its evidence
names (`Tallies`). Sums of counts are stated as a cardinality, the number of single units
in the rows (`Units`), so that they need no induction over a fold. Every statement of a request
but its commit is shown once to be of the form `Goes`, and the invariants are then
carried over `Goes`, `Begin`, `Commit` and `Administer`.

`StripeBillingProofs`, for any tenants, events, deliveries and deaths, with no
assumption on the workers: they exclude nobody. What a delivery holds was the row of
the tenant it belongs to (`Held`, `Belongs`), and no step takes a customer or a
subscription from a row (`Grows`, `LinksRemain`); so a stale row written back may undo
a status, and never mixes tenants (`TenantsStayApart`)
or unlinks one (`CheckoutsStayLinked`).

`TenantUsersProofs`, for any number of addresses, requests, invitations and logins,
under the assumption `SharedKey`: the requests carry the dashboard's key. No
index and no row lock protects what it proves, so mutual exclusion is all there is: the
user, the owner count and the invitation that a request has loaded are those of
the tables until it writes. The session check (`ActorsStillAdminister`), the
check of the other owners (`OwnerStays`) and the state of a login
(`FoundersAreFirst`, `DisabledKeptOut`) hold for that reason only.

`GovernanceProofs` proves the invariants of GovernanceRequests and that it
implements GovernanceRegister, for any number of slots, clients, records,
sections and features, from the assumptions of GovernanceRecords and
GovernanceRequests and one of its own: `OneDashboardKey`, all slots carry one
key. The argument is one of mutual exclusion:

* `OneAtWork`: at most one slot is past authentication, because it finds the
  key locked otherwise.
* `LoadedIsCurrent`: so the row that a request holds is the row in the table,
  from its load to its write; nothing but slots writes rows.
* `MergeIsNew`: merging onto the row that was loaded gives the assigned row. A
  write is therefore a `Change` of the register, on the record as it is
  and under `Permits`, and every other statement of a slot a stutter.
* For the gate no lock is needed: its first SELECT is mapped to `Look`, its
  second to `Answer`, each on the rows of its own moment. `FriaIsOfSystem`: a
  feature that leaves the decision to a FRIA is of a system, which is what tells
  a client in between from one that has not looked yet.

`Inv` joins these with the types and with what is said row by row
(`Fits`: completion, deadline and approval agree with sections, type and log).
`DerivedColumnsFit` and `ApprovalMirrorsLog` are not inductive without
`LoadedIsCurrent`: a stale row would bring back an old approval.

`WorkspaceProofs` proves what Workspace says about evidence, for any number of
requests, workers, pages and rows, from two assumptions: `OneKey`, every request
carries the dashboard's key, and that the tables it starts from fit (those of
MCWorkspace do). The mutual exclusion is that of `GovernanceProofs`: one request
is past authentication (`OneAtWork`), so what it read is what it writes to
(`LoadedIsCurrent`), and an UPDATE of the changed columns writes the sealed row
(`MergeIsNew`); a killed worker or an open session does not change that.

* `SealsMatchRows`, `LinksStayInSystem`: consequences of `Inv`, whose `Fits`
  says them row by row. An item without a system takes that of its control, so
  both columns have to be carried through every edit together.
* `ArtifactsStay`: `Inv /\ Stored`. The property alone is not inductive: `Stored`
  adds that the object of an upload that has not written its rows yet is in the
  bucket (`Pending`), which a failure may leave behind and never take away.
* `UploadsAreListed`: each step but an upload and a PATCH leaves the lists alone
  (`ListsKept`), and an upload writes to the list it has read, because
  `LoadedIsCurrent`.

`ConversionProofs` adds to this what `convert_scan` does across seven tables, from the
same assumptions and that the tables it starts from are whole and typed (`Conversions`,
`RowsTyped`, which hold of MCWorkspace's tables), that None is no row number
(`NullIsNoId`), that intakes answer questions of the form and requests call
endpoints there are (`InputsAreKnown`), and that what clients are bound to write
is among the statuses and severities there are (`ClientsWrite`; `ClientStatuses`
may be all of them, `OtherStatuses` any set of texts).

* `ConversionStaysWhole`: `Conversions` says of the tables what ConversionIsWhole
  says, and that a converted scan's system and intake exist, so that the next
  conversion takes numbers no scan has (`OwnLinks`). Most commits only add to the tables a
  conversion refers to and remove no control (`Grows`, `GrowthKeeps`); a conversion
  links one scan once (`FirstConversionKeeps`), and converts again to the same
  (`RepeatedConversion`). That the intake is what the scan announced for the
  role rests on lemmas about the rules: `SelectedAnswers`, `ReviewWasAnnounced`, `ScenarioFits`.
* `RowsStayTyped`: a table that others refer to never loses a row (`Wider`), and a
  request writes references to rows that it has read, which are still there.

That all requests of a kind carry one key is an assumption of several theorems, not a
fact about the code: the dashboard has one key, and a tenant may have others. Where the
assumption is needed, the README says what happens without it, and where the
same property holds without it, it is proved without it.

Only model-checked: RequestsAnswered, EventuallyAcknowledged and RequestsEnd, which are
liveness under fairness and beyond the prover. Every safety property of a passing run
is stated by a theorem.

## Not modelled, and why

Hashes, HMACs and fingerprints are injective names. Risk scores, redaction,
wording of evidence and plan ids are left out: nothing here depends on them.
What a page's text matches (signal patterns, Annex III terms, quotes,
confidence) is an input of the scan, as are the content rules of the policy
check. Row-level reads of listings, workspaces, scorecards, audit documents and
report rendering change no state. Of a system's review at most one follow-up
action is modelled, and not the review task it may raise, which is GovernedChat's.
Developer keys, migrations and the dashboard are insertions of a
row, set-up, or a user interface. `purge_tenant` names tables the schema does not
have. A limit on pooled connections would bear on liveness in GovernedChat and
Workspace and is not in either: there, waiting for a lock is all the waiting there is.

## Plan

Done: the version lifecycle, chat, billing, tenant users, governance records
with the runtime gate, and the workspace from scan to report, with proofs of all
the safety properties that the passing runs check. Left, in this order:

1. TenantUsers with a key per administrator: what unique addresses still give.
2. A pool bound in GovernedChat, and an abstract "eventually the last status" for
   Stripe where delivery is in order.
