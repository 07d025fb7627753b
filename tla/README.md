# Pallet 3D Viewer: a verification development

TLA+ models of the parts of this application whose correctness depends on an
order of events or on a long sequence of edits: the shared record store, the
accounts, the plans a browser keeps and publishes, the drafts of an open plan, the
layer editor, the worker clients, the photo import. TLC checks each on a small
instance; TLAPS proves the theorems of the modules named `...Proofs` for every
value of the constants.

Paths are relative to the repository root; the application lives in `src/`,
its decision records in `docs/adr/`.

## 1. The system

The application plans pallet stacks for a robot cell. It is a Next.js program
with two storage modes fixed at build time (ADR 0002): in *local* mode plans
live in the browser's IndexedDB; in *server* mode they live in PostgreSQL behind
`/api/records`, are readable by everybody, and are written by their creator or
an admin. In server mode a user who never signed in, or signed out, may still
prepare *browser plans* in IndexedDB and publish them later (ADR 0010). Heavy
computation (pattern solver, photo alignment) runs in web workers.

| Part | State it keeps | Operations | Hard because |
|---|---|---|---|
| Record repository and API (`server/records`, `api/records`) | rows `{store, id, json, version, deleted, createdBy}` | list, read, create, update at a version, delete at a version | writers know old versions; the session is checked before the body arrives; a rejected write is diagnosed by a later read; answers get lost |
| Accounts and sessions (`server/auth/accounts.ts`, `deleteUser.ts`, `adminCli.ts`) | `users`, `sessions` | log in, reset password, rehash, verify, log out, delete account, purge | argon2 runs for a long time between reading the hash and using the verdict |
| Login limits (`server/auth/loginRateLimit.ts`) | buckets `{failures, pending, expiresAt}` per user name and address | begin, finish | concurrent checks must not exceed the limit; expiry while checks run |
| Photo import and its route (`SheetPhotoImport.tsx`, `api/sheet-extraction`, `lib/sheetExtraction`) | form, photo being read, slots in use of two gates | choose, upload, encode, ask the model, abort | every exit of the handler has to release exactly once; the form stays usable |
| Browser record storage and project repository (`lib/plannerRecordStorage.ts`, `lib/browserPlanStorage.ts`, `lib/projectRepository.ts`) | rows, version rows, link metadata, migration marks | list, put, delete, confirmSync, upgrade, migrate | several tabs; versions have to survive deletes; reading writes |
| Browser synchronisation (`features/import/browserSyncModel.ts`) | entries with a snapshot, link and compared server state | plan, run, resolve a conflict | ten awaits between snapshot and clean-up, two tabs, other writers, lost answers |
| Local import (`features/import/localImportModel.ts`) | plan of entries, reports, conflicts | compare, run, resolve | retries after lost answers must not duplicate; the session may change |
| Open plan (`features/project`) | known version, draft lease, backups, conflict view | save, conflict choice, back up, restore, sign out | the draft changes while a save runs |
| Layer editor (`features/editor/editorModel.ts`, `domain/gripDependencies.ts`) | pattern with grips, order, dependencies, offsets | the commands of the pattern and order views | every command recalculates the order; edits add up |
| Editor history (`features/editor/editorHistory.ts`) | undo and redo stacks | execute, undo, redo, reset, save | a save ends after further edits |
| Solver client and transports (`workers/solverClient.ts`, `solverTransport.ts`) | run id, pending run, fallback state | run, cancel, dispose, receive | late messages of cancelled runs; a worker that fails half way |
| Sheet detection (`workers/docAlignerClient.ts`, `docAligner.worker.ts`, `docAlignerAssets.ts`) | pending detections, session, backend, cached files | prefetch, load, detect, change backend | a worker that fails with requests pending; a cache that may throw |
| Domain kernel (`domain/solver`, stacks, timeline), report, 3D viewer, UI, i18n | none or view state | pure functions, rendering | not concurrent |

How the parts interact: every client write goes through the client record
storages to the records API and ends as one guarded SQL statement. The browser
synchronisation, the import and the open plan are clients of that API which hold
state of their own across many awaits (a snapshot and its link; a compared
inventory; a draft and its lease). All read the cookie's session that Accounts
keeps, and login passes the login limits first. Deleting an account is a
transaction over the table of users. To the open plan a content of the editor is a
value; what the editor's commands make of it is the layer editor's business. Solver
and detection live in workers and know the rest of the program only through
messages and promises.

What makes each part correct:

- *Records*: a write replaces exactly the record its writer knew; a version of a
  key stands for one content for ever; refusals are true; a request authorised
  earlier does nothing its account could no longer do, as far as the code promises
  that.
- *Browser plans*: a publication or an import never overwrites what its user has
  not seen; a link never claims more than the server accepted; only what is
  published leaves the browser; a version a window knows names the record it read;
  a pallet is marked as migrated only if its plan was written.
- *Accounts*: a password reset ends every session and every login in flight that
  rests on the old password; nothing else changes a password; an administrator
  remains, however many delete each other at once, and every deletion ends.
- *Login limits*: the failures of a window are bounded although checks run
  concurrently; the map is bounded; no name stays locked for ever, and a full map has
  room again for whoever it refused, once the attempts of others are over.
- *Photo import*: the gates count what is inside; whoever reads a photo stops.
- *Open plan*: no save overwrites another's state; newer edits survive the answers
  to older saves; answers for what was left change nothing.
- *Layer editor*: after any sequence of commands the order can be placed, the layer
  is no worse than the one that was opened, and the user's own order survives.
- *Solver client*: at most one run is visible, its messages come in order, and it
  ends; workers end; a run is not computed twice at once.
- *Detection*: one session runs one detection, each detection is answered once, the
  page shows the backend in use, and a file is downloaded once.

## 2. Modules

| Module | Models | Composition |
|---|---|---|
| `VersionedRecords` | abstract: what a versioned store promises | used by `RecordStore` |
| `RecordStore` | records API and repository, row by row, statement by statement | implements `VersionedRecords` |
| `Accounts` | login, rehash, sessions, purge, reset, logout, creation, `admin:init` | |
| `AccountRemovals` | abstract: an account is removed at one moment by an administrator | used by `AccountDeletion` |
| `AccountDeletion` | `deleteUser` with its row locks | implements `AccountRemovals`; part of `ServerGuards` |
| `LoginRateLimiter` | `begin`, `finish`, the sweep and the two kinds of bucket | part of `ServerGuards` |
| `PhotoImport` | form, photo import, route with two gates, questions to the model | part of `ServerGuards` |
| `BrowserSync` | `planBrowserSync`, `runBrowserSync`, conflict resolution, several tabs | part of `BrowserPlans` |
| `LocalPlans` | browser storage, upgrades, migration, the windows on it | part of `BrowserPlans` |
| `LocalImport` | comparison, run and conflict choices of the import, of plans and catalogue entries | part of `BrowserPlans` |
| `ExclusiveRuns` | abstract: at most one visible run, in order, ending once | used by `SolverClient` |
| `SolverClient` | client, resilient transport, worker and page fallback | implements `ExclusiveRuns`; part of `Workers` |
| `DocAligner` | client, worker and the camera's previews and captures | part of `Workers` |
| `AssetLoader` | prefetch and load of the model's files through the Cache API | part of `Workers` |
| `OpenEditor` | draft lease, backups, saves, restore, conflict view, sign-out of one window | part of `Editing` |
| `GripOrder` | dependencies of grips, their order, offsets | extended by `PatternEditor` |
| `PatternEditor` | the editor's commands as functions of a pattern | extended by `EditorKernel` |
| `EditorHistory` | undo, redo and the save that ends meanwhile | instantiated by `EditorKernel` |
| `EditorKernel` | the commands under the history | part of `Editing` |
| `ServerGuards`, `Workers`, `BrowserPlans`, `Editing` | the composites that are run | each behaviour moves one part |
| `MC...` | constants, symmetry and constraints for TLC | |
| `...Proofs` | theorems | |

The parts of a composite share no state, so interleaving them would multiply
states without a new behaviour: a variable `part`, fixed from the start, says which
one moves, and the others rest in one of their initial states.

Naming: an action bears the name of the function it models, or of what its caller
does; a variable that is not in the code is called a ghost in its comment. A
definition called a *mutant* is used by no specification: it is the plausible
mistake that the property named in PROJECT.json must detect.

**RecordStore.** A row is `{json, version, deleted, createdBy}`; `req`, `phase` and
`reply` are a client's request on its way. `Send` chooses operation, payload and
the version known; `Authorize` is the route's check of session and role (before
the body arrives); `Execute` is the one guarded statement of `putRecord` or
`deleteRecord`; a refused write is diagnosed by a second read, after other clients'
writes. Accounts may be deleted at any time; the foreign key then clears
`created_by`. A lost answer is an answer that the client never reads. Requests
refused with 400, 401 or 403 change nothing and are left out. `seen` is what the
client read last; the expected version `0` stands for `null`.

**Accounts, AccountDeletion.** `Accounts` splits every operation at argon2 and
between statements that share no transaction: `BeginLogin`, `Verify`, `Rehash`,
`OpenSession`, `BeginReset`, `ApplyReset`, `BeginCreate`, `ApplyCreate`.
Transactions under the row lock of the account are one step. `epoch` (ghost) counts
resets. `AccountDeletion` looks into the one transaction that locks several rows:
PostgreSQL's READ COMMITTED with a snapshot per statement and row locks taken in id
order, rows deleted meanwhile skipped. Check and delete follow under the locks;
delete and commit are one step, as nobody can see between them. Other transactions
hold one row at a time.

**LoginRateLimiter.** Buckets `{failures, pending, ticks left}` by name and by
address; an attempt keeps the buckets it reserved in, as the code keeps the objects.
`Finish` ends a password check with success, failure or an exception. `recent`
(ghost) counts, for each age, a key's failures in its last ticks. `FailuresLimited`
allows twice the limit in a window's time: windows are fixed, and two of them may
touch. `LockoutEnds` is of both refusals: a limit that is reached is left again
(`LimitsEnd`), and a map that was full has room again for a pair, whatever its own
attempts do, once those at other keys are over (`RoomReturns`).

**PhotoImport.** A form per window, a request per photo. `Prepare` scales the photo,
`Arrive` is the upload gate, `Received` releases it and enters the model's gate
without an await in between, `Encoded`, `Answered` and `AskFails` are the
extraction; the model is asked again about a sheet with errors. A window that closes
its form or loses its connection aborts, which the server hears of later. Of the
form only the typed fields and whether a sheet filled in the others are kept.

**BrowserSync, LocalPlans, LocalImport.** `BrowserSync` is one plan with its browser
record, version row and link, and the server records of its id and of its copies.
A tab goes through the awaits of `planBrowserSync` and `runBrowserSync`: list,
snapshot, read of the link, read of the server, consent, publish or replace,
confirmation, clean-up; each is a step, with edits, deletes, imports, other tabs
and other accounts' writes between them. Request and answer are one step of which
the answer may get lost. Hashes of contents do not collide. `LocalPlans` has the
windows that list, open, save and remove plans of the browser's storage; listing
writes back what it upgraded and migrates saved pallets, and a window may be closed
between any two transactions. `LocalImport` has the inventory, the comparison with
the server, runs and conflict choices; the signed-in user may change between any
two of them.

**SolverClient.** The client's sequence numbers and pending runs, the resilient
transport with its fallback to the page, workers with their messages. A worker that
was terminated delivers nothing; an error event may overtake messages; a computing
worker sees only the shared cancel flag. What is computed is a token.

**DocAligner, AssetLoader.** One client's life with live previews and captures; a
failed client is replaced by a new one, which is the specification from its start
again. `AssetLoader` has the stages of `ensureCached`, `loadAssetBytes` and `getOne`
for each file; a look into the Cache or a store may throw, and a file may be
evicted.

**OpenEditor.** One server plan in one window. The variables are the refs and states
of `PlannerProjectWorkspace` and the editor's `present` and `persisted`; contents are
numbers in the order they were made. What handlers do to lease, backups and tokens
is composed of functions of a *desk* (`EnsureLease`, `BackUp`, `EndLease`, `Rebase`,
...) in the handler's order, followed by the effects React runs for the state just
set. A save is `Save`, `Serve` (the server), then `Saved` and `Refreshed`, or
`Failed`, or `Rejected` and `ShowConflict`; it keeps the lease as it was when the
save began, whether the editor that sent it is still there (`here`, the navigation
generation) and whether nobody signed out (`epoch`). A second save may start once
the first was left behind. Restoring a backup is a save of its own kind, after which
the plan is read again. A backup that another window or an earlier life of this one
left keeps its slot. Two ghosts name the exceptions to `EditsBackedUp`: `refused`, the
drafts whose last edit found the slot taken, and `reverted`, the contents that a
conflict choice that failed put back over newer backups; the next edit that is
backed up makes good for both.

**GripOrder, PatternEditor, EditorHistory, EditorKernel.** A pattern has packages on
a grid, grips, explicit and inferred dependencies and robot cycles. A command yields
the set of patterns it may leave, none if it is refused. Each ends as the code does:
grips synchronised with their packages, dependencies inferred, the order
recalculated, cycles rebuilt, and the result refused if it violates more than the
pattern before. The history is two bounded stacks; the save remembers the snapshot
it sent and takes its place wherever that stands.

## 3. Runs

| Run | Shows | States |
|---|---|---|
| `records` | no lost update, no reused version, refusals named rightly, deleted accounts store nothing new; `VersionedRecords` implemented | 750 000 |
| `accounts` | resets end sessions and logins; the rehash never undoes a reset | 4.3 million |
| `browser_plans` | publication and import overwrite nothing unseen, links, versions, marks and reports are true | 860 000 |
| `editing` | every order placeable, no layer worse than it was opened, newer edits stay backed up with two named exceptions, answers end only what they are about, saves overwrite nothing | 695 000 |
| `server_guards` | an administrator remains and deletions end; attempts, map and failures bounded, limits and a full map end; gates count what is inside, photos settle; `AccountRemovals` implemented; no deadlock | 52 000 |
| `workers` | nothing of the active run is lost, runs and promises settle, each detection carried once, one session, one download; `ExclusiveRuns` implemented | 150 000 |
| `sync_link_regresses` | *violated*: a late confirmation puts an older link back | |
| `sync_recreates_deleted` | *violated*: a plan deleted on the server is published again | |
| `import_creator` | *violated*: plans are published under a user who confirmed nothing | |
| `draft_conflict` | *violated*: settling a conflict drops edits newer than the view | |
| `restore_draft` | *violated*: the re-read after a restore drops other edits | |
| `editor_preview` | *violated*: a preview throws after a merge | |

### Bounds

- `records`: two clients, three accounts (two admins), two payloads, versions up to
  3, the width of the column: two lost updates, a re-creation after a delete, and
  the column's last version. Two keys, one of which only admins may create, are
  explored one at a time (`OneKeyInUse`), as statements name one key.
- `accounts`: three ids over two names (a deletion and a re-creation under the same
  name), two browsers, two passwords; time, `Ttl` and `CleanupPause` are 1, so that a
  session is fresh, expired and purged within the bound.
- `browser_plans`: of the publication two regions side by side, two tabs on the
  user's own record, and one tab with copies, foreign and deleted records
  (`OwnRecordOnly`, `OneTab`): two tabs are what an outdated link needs. Of the import
  one entry, one dialog and one run, until the entry was written three times, a write
  of another counted twice (an entry of the catalogue is imported by an admin only).
  Of the storage one plan in two windows with two contents.
- `editing`: four packages of which two side by side, steps of half a package, two
  edits, undo depth 2, from an empty, a calculated, an imported and a merged layer.
  Of the document two users, three versions, three contents and two drafts; the
  constraint `Explored` trades contents and versions for accounts, requests and
  restores. One more of each is explored in the runs of the findings.
- `server_guards`: three accounts and two deletions; limits of 2, a window of 2 ticks
  and 2 buckets for three keys, two attempts: each limit is reached by failures, by
  running attempts and by the map; two photos over gates of one slot, one window,
  one repeated question.
- `workers`: three runs with one progress message (the run replaced, the one that
  replaces it, and one after the fallback); two previews and one capture; two files.

Sets of accounts, tabs, clients and payloads that no definition names are
symmetric where a run checks no liveness. Deadlock is checked in `records` and
`server_guards`; the others may stop: time, contents, versions or runs are used up,
or everybody has left.

### Fairness

- `AccountDeletion`: statements and checks of an open transaction go on (weak); a
  lock is granted to a waiter that could have it again and again (strong:
  PostgreSQL queues waiters); a transaction that holds one row ends.
- `LoginRateLimiter`: time passes and password checks end. Nobody is obliged to
  try again.
- `PhotoImport`: scaling ends, uploads and questions have a time limit
  (`AbortSignal.timeout`), and a browser gives every request an answer or an error.
- `SolverClient`: a worker script loads or fails, a search has a budget and ends
  or breaks, and the page handles its events.
- `DocAligner`: downloads, session starts, detections and `createImageBitmap` end,
  and both sides handle their messages. Nobody is obliged to take pictures.
- `AssetLoader`: a fetch and a call of the Cache API settle.

In a composite the fairness of a part is stated of the steps in which it moves.

## 4. Findings

1. `confirmSync` (`src/lib/browserPlanStorage.ts:165`) stores the link it is given.
   Two tabs that publish in turn may confirm out of turn; the older version and
   hash come back, although ADR 0010:72 says that they describe the accepted
   server state. The next synchronisation then reports a conflict.
2. `runBrowserSync` (`src/features/import/browserSyncModel.ts:338`) publishes an entry as
   it was classified when the dialog opened. If another tab published the plan and
   somebody deleted it on the server meanwhile, the plan is created again, which
   ADR 0010:91 rules out.
3. `resolveConflict` (`src/features/project/PlannerProjectWorkspace.tsx:2043`) ends the
   lease of the draft the conflict decides on whatever its revision. Edits made
   while the rejected save was under way are not in the view (893-895), and every
   choice drops them and their backup; `draftBackupModel.ts:214` promises that a
   settled draft never removes a newer backup.
4. `restoreDraft` (the same file, 2145) reads the plan again when its save returns,
   whatever the window shows by then; a draft begun meanwhile goes with its backup.
5. A local import (`src/features/import/localImportModel.ts:626`) creates its entries with
   whatever session the browser holds when each request is sent: a user who signs in
   while it runs becomes the creator of plans somebody else confirmed (ADR 0007:8).
6. `uniqueGripId` (`src/features/editor/editorModel.ts:1661`) ignores the ids of the grips
   it takes packages from, although one of them may stay: two grips get one id, and
   the preview of a selection throws (its comment, 2200, says it returns the
   diagnostic).

Further observations, of behaviour no text of the repository rules out or that no
run states:

- `initAdmin` (`src/server/auth/adminCli.ts:113`) looks for an administrator before the
  password prompt and not again: two commands with different names create two,
  against its comment (line 103). `Accounts` has this behaviour.
- A sheet fills in the form as it was when its photo was chosen: what was typed
  since is lost (`GuidedProjectForm.tsx:574`); so is what is typed while a plan is saved.
- A second answer of the model that throws discards the first one, which had a
  sheet (`ollamaSheetExtractor.ts`).
- Planning a synchronisation again while its run goes on sets the dialog back to its
  overview in the middle of the run.
- A late answer 401 of an earlier session marks the session of a new user as lost.
- Two tabs that migrate the same pallets may recreate a plan deleted between them.
- In local mode listing the plans writes an upgrade over a save of another window;
  the write is unconditional by decision.
- The comment at `dragCollision.ts:41` does not hold of packages that overlap already.
- A lease keeps the user it began with when, after a lost session, another user signs
  in and saves the draft. Edits made during that save keep their backup
  (`PlannerProjectWorkspace.tsx:937`), but `saveProject` clears the dirty flag (1034), and
  the backup effect (623) ends the lease and removes the first user's backup, whatever
  its revision. `AnswersRemoveOnlySaved` names this case and excludes it.
- A conflict choice that fails for want of an answer backs up the content the view
  shows (`PlannerProjectWorkspace.tsx:2093-2096`) without comparing revisions,
  as the handlers before it do: 888-889 and 990-991 say that a newer backup must not be
  replaced by an older content, and 2090-2091 that this is "like a failed save". Edits
  made while the rejected save was under way are then only in the editor, not in the
  backup, until the next edit; after a reload the older content is on offer. If the
  draft was undone and another begun meanwhile, the view decides on the lease of the new
  one (893), and what replaces its backup is the content of the draft before.
  This case, and no other, is the second exception of `EditsBackedUp` (`reverted`). It
  needs the same gap as finding 3: the view shows what was submitted.
- Whether edits made during a save are "newer and already backed up" (990-991) is told by
  the lease's revision, which an edit refused a backup, because another draft has the
  slot, does not raise. If the slot is free when the save fails, the content it sent is
  backed up although the editor holds a newer one. This is the first exception of
  `EditsBackedUp` (`refused`).
- While attempts at other names and addresses go on, a full map may refuse a new pair for
  as long (`src/server/auth/loginRateLimit.ts:43`). This is by decision: active counters
  are not evicted (41), and the test "bounds memory without evicting active limits and
  reclaims expired entries" says so.
- Robot cycles stay empty after all grips of a layer were removed.

## 5. Proofs

TLAPS proves, for every value of the constants that satisfies the named assumptions
of the modules that declare them:

- `RecordStoreProofs`: type correctness (`BasicInv`: rows, requests and what
  clients saw have their types, the answer fits its request, and a tombstone
  leaves room in the column for the version of its re-creation);
  `OnlyCreationForDeletedAccountFails` and `RefusalsAreTrue` from it: the reason a
  refused write is given was true at one moment since the write.
  `OneContentPerVersion` needs `ContentInv`: whatever a client or an answer holds was
  in the row at that version, recorded in the history of contents, and the row's
  version is the highest. `StoreKeepsPromise`: under both invariants each step of
  `RecordStore` is a step of `VersionedRecords` or a stutter. `DeletedAccountsStoreNothing` (a request authorised
  before its account was deleted) rests on the types alone. A version that matches
  identifies the content that its writer knew (`MatchIsKnown`); that is the whole
  point of comparing versions.
- `AccountsProofs`: types; `NoSessionSurvivesReset` with `LoginsInv` (a login in
  flight with a hash of the account's present salt read it in the present epoch);
  `OnlyResetChangesPassword` with `RehashInv` (a rehash in flight carries the
  password that it verified).
- `ServerGuardsProofs`, deletions: types; `AdminRemains`; and the refinement of
  `AccountRemovals`, from who holds which row (`HeldInv`), what a deletion past its
  checks has established (`DeletingInv`) and who was removed by whom. The proof
  does not use the code's own count of administrators: the caller, who is one and
  whose row is locked, stays.
- `ServerGuardsProofs`, gates and limits: the gates count the requests inside them (`SlotsInv`; photos
  at a stage are a finite set to which a step adds one photo or from which it takes
  one). The login limits (`LimitsInv`): a bucket and the failures its key had in the
  last ticks belong together (`Bounded`): failures and running attempts keep to the
  limit, what failed since the bucket's window began is among its failures, and at
  most a limit's worth failed before; a key without a bucket has at most a limit's
  worth behind it (`Rested`). That is what makes it safe to drop an expired or idle
  bucket, and bounds the failures of any window's time by twice the limit. The types
  of forms and photos need that whoever reads a photo has an open form that is not
  being saved (`PhotosInv`).
- `WorkersProofs`: the types of all three parts. Of the solver, `RunsKeptApart` and the
  refinement of `ExclusiveRuns`, from one invariant of six parts on new, active,
  pending, failed and fallback runs and on messages posted. `DetectionsServed` from `DocInv`: the
  request, the place in the queue and the answers of each detection, counted along
  the three sequences, add up to whether the page waits for it (`Carried`); all that
  happens in a turn happens to the head of the queue (`Turns`), which is why a change
  of backend takes no session from anybody; until the load is over there is no
  session and nobody has heard of one (`Early`); and what the page will show once it
  has read its messages is the session there is (`Told`). `DownloadedOnce` from an
  invariant of one file's prefetch, load, downloads and excuse (`FileInv`).
- `OpenEditorProofs`: types, and `NoSilentOverwrite`: no save replaces a state of the
  server that its user did not know. A version alone does not tell what was
  replaced, so the invariant says of every version the window remembers (of the
  plan, the lease, the backups, the saves under way) that it `Knows` the server: it
  is at most the server's, and if it is the server's and this window did not write
  it, the content that came with it is the server's. `EditsBackedUp` from `BackupInv`: a
  token names one backup at most, in the scope of its author; a save is never ahead
  of its draft, and a backup at a save's revision holds what was sent; the current
  save carries what the editor shows; at most one save under way is of the open
  draft; and no restored draft that was signed out of is held again. A draft leaves
  the exceptions (`refused`, `reverted`) only by an edit whose backup is ahead of what
  any save remembers of it (`ExposedStay`).
  `AnswersEndOnlyTheirs` also from `EditorsOwn`: a draft that the editor began ends with
  its edits. It needs that the value for "absent" is no backup and no lease
  (`AbsentAssumption`).
- `BrowserPlansProofs`: `VersionNamesRecord` and `MarkedWereMade` from `WindowsInv`: no
  version a window knows is beyond the plan's latest (which goes on counting while
  the plan is deleted), so a write makes every other window's version stale, and
  what is in a window's memory, or is about to be marked, was stored once.
  `LinksAreTrue`, `NoSilentOverwrite` and `OnlyPublishedPayloadRemoved` from `SyncInv`: what
  a tab keeps of the server (link, record read, link to confirm) names a version the
  record has `Reached`, with its content if it is the present one; the snapshot
  is the payload as long as the version is the same; a complete comparison is that of
  payload, link and record, whose id is the link's or whose content is the
  payload's; and what is to be confirmed `Accepts` the payload. These properties need
  that the value for "absent" is no record (`AbsentAssumption`). `ReportIsTrue` and
  `ImportAsksFirst` from `ImportInv`: whatever a comparison, a run, a conflict or a
  choice keeps of an entry's record (`SeenTrue`) is older than the record or is the
  record, so a version that matches is the record the user saw; and only an admin's
  run comes to an entry of the catalogue, without which "admin-only" would be
  reported as imported. A step is first seen from the state before it
  (`ImportMoves`), then all that is kept is carried over at once, as a record moves on
  to its next version or is deleted (`SeenStays`). `PlansTypeOK` from all three.
- `EditorKernelProofs`: the stacks (`StacksInv`: sequences, within the limit together)
  and from them `TimelineKept`. `NeverWorseThanOpened` and `OrderPlaceable` from
  `VersionsInv`: every version that can come back (on the stacks, in a save, persisted)
  lays packages at whole places, violates nothing more than the opened one, and is
  the opened one or can be placed. Each command is shown to propose a change that
  either is compared with what was there or leaves all packages in place (`IsChange`),
  and to leave its grips in a sequence; what it ends with orders them
  (`RecalculatedPlaceable`). `OrderedAll` is the correctness of
  `orderGripsByDependencies`: of acyclic dependencies it makes an order in which each
  grip stands once, after all it needs (`SomeReady`: a set of grips without one that
  is ready would be a cycle). `DerivedAgree` is that of
  `deriveGripDeltasForPlacementOrder`: what is inferred from the offsets it derives
  agrees with the order. `OrderKept` and `DeltasAlwaysAgree` suppose that the plans
  opened can be placed, which the project schema does not check; `EditedPlaceable`
  says of any plan that its edited versions can. Where these need an induction, it is
  one over a set of numbers, from the library's least element of a well-founded
  relation (`LeastNumber`, `Counting`).
- `EditingProofs`: `EditingTypeOK` and `GroupingKeepsExplicitOrder`, from the invariant
  `TypedVersions`: every version that can come back is a pattern the project schema
  accepts and can be placed. The type alone is not inductive: automatic grips, which
  the order view and `recalculate-groups` make first, are put in an order that
  exists only if what lies above what has no circle, which is proved of lines of
  packages (`LinesBelow`, `VerticalAcyclic`) and so of a pattern that can be placed
  (`PlaceableStands`). A command hands `replacePattern` a draft (`IsDraft`): packages
  where they may lie, of grips of the draft, which may be empty, and dependencies
  that may be of grips that went. That is shown of each command, and
  `ReplacedTyped` makes a pattern of every draft, with exactly the dependencies
  between grips that have packages. That a new grip's id is free follows from
  counting the ids taken (`FreshIdTyped`); what a split, a merge and a new grip do to
  the user's dependencies (`SplitFrom`, `MergedFrom`, `Created`) carries the order of
  packages over (`CarriesOrder`), and `CarriedStays` that no later step drops it. Like
  `OrderKept`, both theorems suppose that the plans opened can be placed.

Only model-checked, and why:

- Liveness (`DeletionEnds`, `LockoutEnds`, `PhotosSettle`, `RunsEnd`,
  `PromisesSettle`): the prover has no rules for fairness and ENABLED.
- What recursive definitions compute is proved where it is a sequence built step by
  step (the order of grips). Of the automatic grouping, an optimum over all cuts of a
  layer, it is proved that it is a cut into grips that fit (`AutomaticCut`), not that
  it is the one the program's search finds.

## 6. Plan

The project is complete as far as section 7 says: every safety property a passing
run checks, invariant, action property or refinement, is also a theorem, and the
liveness properties stay with TLC.

## 7. Not modelled

The search of the pattern solver, stack building, the robot timeline, parsers,
reports, the 3D viewer, wording and styles have no state that an order of events
could spoil, and compute with rational numbers or text. The structural validation of
payloads, cookies' attributes, argon2's parameters and the text of messages are
abstracted to their outcome. PostgreSQL, IndexedDB, the Cache API, ONNX Runtime and
React are assumed to do what the code relies on: atomic statements and row locks,
atomic transactions, one event at a time, effects after their render, child before
parent.

Deviations inside the modelled parts: `OpenEditor` leaves out users who may only save
copies, browser-local plans, the stack and input forms (which use the same lease),
imports that create a plan and a full browser storage; reading the plan again after
a restore is one step and succeeds. `PatternEditor` has whole grid coordinates
(rotation and centring stay on the grid), grips that are valid when a plan is
opened, and selections closed under whole grips in the pattern view; pick poses,
names, interlayer settings, several solutions and the diagnostics of robot routing
are left out; of the offsets and ties that the optimiser chooses, any is allowed.
`LocalImport` covers any importable selection; reading the inventory only reads.
