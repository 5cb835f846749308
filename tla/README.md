# EmailShield: verification of the mail worker and its web application

EmailShield analyses mail for fraud. Its core is the *Sentinel worker*: a daemon
that leases the right to serve one user's mailbox from a database, polls the
mailbox over IMAP, analyses each new message once, and keeps a checkpoint,
telemetry and a case store. Around it stands a web application that starts and
stops workers, shows and edits their cases, and analyses single mails itself.
This directory holds TLA+ models of both, the TLC configurations that check
them, and TLAPS proofs that every safety property they check holds for all values
of the constants.

## 1. The system and its parts

| part | source | state it keeps | operations | module |
|---|---|---|---|---|
| Worker row and RPCs | `data/migrations/phase_g_rpcs.sql`, `data/sentinel_phase4*.sql` | token hash, expiry, desired and actual state | claim, renew, fetch credential, release | `WorkerLease` |
| Lease manager, identity | `worker/lease.py`, `worker/identity.py` | token, local expiry | acquire, renew, release, is_active | `WorkerLease` |
| Service | `worker/service.py` | daemon state, stop flag | start, step, run, stop, signal handler | `WorkerService` |
| Poller | `worker/poller.py`, `worker/checkpoint.py` | checkpoint, Message-ID index, tallies | poll | `MailboxPoller` |
| IMAP | `worker/imap_client.py`, `worker/synthetic_imap.py` | selected folder, UIDVALIDITY | login, select, search, fetch | `MailboxPoller` |
| Telemetry | `core/sentinel_stats.py` | totals and position per mailbox, in a file | record_poll, seed; start and stop of the daemon | `MailboxPoller`, `Deployment` |
| Local database | `worker/db.py` | one JSON file | the RPCs; the control plane's helpers | `Deployment` |
| Control plane | `core/sentinel_control.py` | the hosted rows of worker and mailbox, two small files | connect, pause, resume, disconnect, deactivate, delete | `Deployment` |
| Lifecycle | `worker/lifecycle.py`, `worker/runtime.py` | pid and runtime files | start, stop, status | `Deployment` |
| Case store | `core/case_store.py`, `core/investigation.py` | cases, indicators, notes | save, note, transition, close, bulk operations, dashboard | `CaseStore` |
| Local forensic store | `core/local_storage.py` | SQLite rows, a sheet per case, a file per item | store, preserve, export, retention cleanup | `LocalStorage` |
| Session vault | `core/session_vault.py` | one encrypted file of mail accounts | save, switch, forget, read, clear | `SessionVault` |
| Alert connections | `core/alert_session.py`, `views/alerts.py` | credentials in memory, flags per browser | connect, test, disconnect, sign out | `AlertSession` |
| Pages | `app.py`, `views/`, `core/live_mail_adapter.py` | the session's dictionary | upload, analyse, select, open, sign in and out | `Console` |
| Scoring | `core/auth_claims.py`, `core/bec_detector.py`, `core/risk.py`, `core/batch_scanner.py` | none | the verdict on a mail | `Verdict` |
| Location | `core/geolocation.py`, `core/infrastructure_intel.py` | a look-up cache | which address is the sender's, and where it is | `Attribution` |

The parts meet in few places. The daemon and the control plane share the worker
row, or the JSON file that stands for it, and only that: neither calls the
other. Daemons of the same worker meet in the row, and are told apart by their
token, since all log in with one database role. The poll of a message asks the
lease manager, which asks the local clock. A daemon inherits from its predecessor
exactly what the telemetry file and the case store hold. The worker and the pages
meet in the case store. Browser sessions meet in the alert credentials, the vault
and the location cache, which belong to the server's process.

What is hard to test there:

* a lease judged by a local clock, while replies are late, renewals are refused
  and the control plane writes the row;
* a signal handler that runs `stop` between any two bytecodes of `step`, on the
  same thread, hence under a lock its own thread may hold;
* a poll that moves the checkpoint message by message but records totals at the
  end, and may end anywhere, by an exception, an expiry or a crash;
* a mail folder that delivers, expunges and renumbers in the meantime;
* files that several processes or threads read whole, change and write back, or
  write in place, with no lock between them;
* a button that is ten steps on a hosted database, local files and processes, any
  of which may fail or be overtaken by another user's button;
* a script that every click runs again from the session's dictionary, while the
  worker moves the lists under it;
* rules that reassign a condition later rules judge by, so that the verdict
  depends on which rules fired before.

`PROJECT.json` lists these under "hazards", each at its line and with the
properties that would catch it going wrong.

A correct lease is exclusive up to the age of a reply, ends within a bound when
the worker is stopped, is never left without a bearer, and is recovered after a
fault. A correct service works only under the row's lease, releases it, and
ends. A correct poller loses no mail in silence, analyses none twice in one
life, counts none twice, and keeps telemetry and cases in step with its work. A
correct deployment keeps the shared file sound whatever overtakes what, and
follows what its users last asked. Correct stores lose no note and no file, and
account for every deletion. A correct page shows and files only what is its
user's and what was on the screen. Correct scoring is not harsher with less
evidence, and lets no word or network alone make a threat of an authenticated
mail.

## 2. Modules

| module | models | checked by |
|---|---|---|
| `WorkerLease` | daemons of one worker, the RPCs, the control plane, time | `lease_*` with `MCWorkerLease` |
| `Tenancy` | what a lease promises, without rows, tokens and replies | as the property `KeepsPromise` of `lease_phase4` |
| `WorkerLeaseProof`, `TenancyProof` | their theorems | |
| `WorkerService`, `WorkerServiceProof` | one process: main flow and signal handler; its theorems | `service_*` |
| `MailboxPoller` | one daemon, one folder, telemetry, cases | `poller_*` with `MCMailboxPoller` |
| `MailboxPollerProof`, `MailboxPollerLedger` | its theorems: types and no double analysis; cases, losses, duplicates and totals | |
| `CaseStore`, `LocalStorage` | the hosted or local case store; the local forensic store | `stores` with `MCStores` |
| `StoresProof` | their theorems | |
| `Deployment` | control plane, JSON file, daemons, lifecycle | `app` with `MCApp` |
| `DeploymentProof` | its theorems | |
| `SessionVault`, `AlertSession`, `Console` | the vault's file, the alert connections, one browser session | `app` |
| `Verdict`, `Attribution` | scoring of a mail, its place of origin | `app`, `live_verdict` |
| `AppProof` | the theorems of these five, and of `MCApp` as a whole | |

Operators introduced by a comment "Variant:" are plausible mistakes in the
definition that follows them. They are no part of the models. Replacing the
definition by its variant must break the property it is paired with in
`PROJECT.json`.

### WorkerLease

`row` is the row of `sentinel_workers`, `mailbox` its mailbox's `is_active`,
`lease` what `WorkerLeaseManager` holds, `call` the RPC a daemon waits for.
Time is a countdown: `row.ttl` is the seconds to `lease_expires_at`, 0 the
instant itself, where the row can be neither renewed (`expires > now`) nor
claimed (`expires < now`), -1 later. A `Tick` is a second. An RPC acts on the
row at once; its reply is read up to `MaxLatency` seconds later, which is how a
local expiry (`time.time() + extension`) outlives the row's. `Aborted` is a
statement timeout or a row skipped because it is locked. The daemon's points
are those of `step` and of the loop of `poll` where it asks for its lease.
`Hang` is the call that finds the connection closed: every RPC calls `connect`
while it holds the lock `connect` takes.

Three constants choose the variants in the repository: `OwnerReclaims` (the
phase G claim lets the owner claim again; the phase 4 scripts and the mock do
not), `NumericExpiry` (the mock's claim returns the expiry as a number, the RPC
as a timestamp the daemon replaces by its own clock) and `LocalPlane` (the
local database's helpers clear leases).

### Tenancy, and how WorkerLease implements it

`Tenancy` knows an owner who wants an office filled, a record of who holds it,
and for how long each process believes in its own term. An `Award` puts a process
on the record, while the office is wanted and nobody else's term outlasts the
`Grace`. Only who is on record begins or extends a term (`Serve`), and only on
news younger than the grace, which were sent while the office was still wanted.
Whoever goes off the record has ended the term or lingers within the grace
(`Leave`). From these few actions follow `OneHolder` and `Vacated`, the abstract
forms of `BoundedOverlap` and `HaltBound`.

`KeepsPromise` is `Tenancy!Spec` under this mapping: the grace is a reply's age,
the term the longest grant; the office is wanted while `desired_state` is RUNNING;
on record are the daemons whose token, bound or in a reply on its way, is the
row's (`Bearers`); and a daemon's belief is the rest of its local lease, nothing
while it is releasing it (`Left`). A claim is an Award when the RPC commits; the
Serve comes when the reply is read. A claim's reply that arrives after a crash, a
renewal refused, a credential denied, a lost connection change nothing abstract.

### WorkerService

The main flow's `pc` names the points between which a signal can change what it
sees; points ending in *ing* are inside the client's lock. While `handler` is
not "none" the main flow does not move: it is the same thread. `HandlerRelease`
and `HandlerClose` need the lock: never free if the interrupted call holds the
PostgreSQL client's `Lock`, always free for the local client's `RLock`. `client`
is the database client the configuration selects; every run covers both. Leases
are numbers, the n-th granted; `lapsed` are those that have run out. That a
step may be refused covers the other daemons.

### MailboxPoller

Mail is numbered in the order of delivery; a mail's UID is its position in
`inbox`, and a renumbering compacts the list. `cp` is `MailboxCheckpoint`,
`seen` the Message-ID index, `disk` the telemetry file, `cases` the mail stored
under `LIVE-<uid>`. The actions are the pieces of `poll` in order: open and
compare UIDVALIDITY, baseline or search, then for each UID fetch and handle
(error, duplicate, analysis), then totals in memory, then the file.
`PollAborts` is every early way out. A crash keeps only `disk` and `cases`.
`analysed`, `failed`, `dropped`, `skipped` and `lastSeen` are history: what
became of each mail. `production` is the configuration's production polling
flag, chosen from `Modes` at the start. A mail is `skipped` only by the first
baseline, or by the first poll of any daemon after a real renumbering.

### CaseStore and LocalStorage

`CaseStore` has browser tabs and the worker act on the same cases. An operation
that reads a case and writes back what it computed is two steps, with whatever it
read in `at`; a save on the hosted database is two as well, the case and then its
indicators. `remote` tells the hosted database from SQLite: the former takes the
row as given and keeps its date, the latter keeps what the analyst wrote and dates
the row anew. The bulk operations go through the list they read at their start.
The dashboard's figures, queue, activity and searches are operators over the state,
with the limits 500, 15 and 45 as `KpiLimit`, `QueueLimit` and `QueueScan`.
`raced` records that two tabs were at work together, which some properties exclude.

`LocalStorage` has one call of a session (`call`, between its two writes) and one
cleanup thread (`job`) on the same SQLite file and directories. A file and its row,
a case's row and its sheet, a deletion and its audit record are separate steps;
`INSERT OR REPLACE` and `ON DELETE CASCADE` act as in the schema. A record is "old"
or not, at any time, because callers give the dates. A crash forgets call and job.

### Deployment

An account is a worker record with its mailbox. `hosted` is the hosted database,
`db` the JSON file of `LocalWorkerDBClient`, `flag`, `widfile` and `runtime` the
three small files, `proc` the daemons, `session` the buttons in progress. A button
is a script: the sequence of hosted calls, loads and saves of the JSON file, small
file writes and process calls that its handler makes, taken one per step; the same
button has several scripts where the pages that offer it differ. A load takes a
snapshot of the whole file, the save that follows writes the changed snapshot back,
whatever was saved in between; `lost` records that it happened. A daemon boots with
the worker id of its environment, the worker id file or the first worker known;
claims and renewals are a load and a save of the same file. A dead child of the web
application stays a zombie until the next `Popen`, and passes `is_pid_alive`; a
process id may be given again. Hosted calls fail (`HostedFails`), or find their row
hidden by row security (`MailboxHidden`), and daemons die, up to `MaxFaults`.
`ended` is history: the last button by which a user ended the monitoring, until the
connect that takes effect on the mailbox (`MailboxOn`); a connect that fails before
leaves it.

### SessionVault, AlertSession, Console

`SessionVault` models each call down to the truncation and the last byte of a
write, because the file is written in place: in between it is `Torn`, and a reader
shreds what does not decrypt. `due` is history, the accounts saved and since neither
forgotten, expired nor cleared. `AlertSession` has the store of credentials, which
all sessions share and a restart empties, each session's flags and whom they are
about, and a test message on its way while other sessions go on. `Console` is the
dictionary of one browser session; each click is one run of the script, whose list
of mail is read anew while the worker files cases, and `shown` is what was on the
screen before the click.

### Verdict and Attribution

`Verdict` takes a mail as the set of the signs the code looks for and an
authentication result as any the headers can give (`Authenticated` runs
`EffectiveDmarc` over all claims). The steps are those of the agent: authentication,
impersonation, the rule matrix, the hybrid score. The matrix keeps the order in which
rules look at earlier findings and `auth_ok` is assigned again. What the page, the
poller and the batch make of the result are operators on the final state.
`Attribution` says which of the addresses named in a mail is taken for the sender's,
what a look-up may yield for it (private, local database, live service, failure),
what the agent's trace of *any* extracted address adds, and what page and manifest
show; `cache` is shared with other sessions, one of which may look an address up.

## 3. What the runs check

| run | outcome | distinct states | shows |
|---|---|---|---|
| `lease_phase4` | holds | 162,850 | `BoundedOverlap`, `HaltBound`, `NoOrphan`, types, and the refinement `KeepsPromise`; one fault, one crash |
| `lease_local` | holds | 531,100 | `Recovers` after a crash of the holder, even with a claim's reply in flight, with the local database's helpers and expiry |
| `lease_phase_g_overlap` | violated | | the phase G claim lets two daemons work at once |
| `poller_restart` | holds | 4,980,037 | nothing lost, analysed twice in a life or counted twice; telemetry and cases in step |
| `poller_renumber` | holds | 1,579,807 | nothing lost or analysed twice through a change of UIDVALIDITY |
| `poller_liveness` | holds | 437,834 | every mail is dealt with, with and without production polling |
| `poller_resume` | violated | | a restart forgets UIDVALIDITY and skips new mail |
| `service_signals` | holds | 10,409 | work only under the row's lease, one bearer, no work after a stop, and with the local client a stop ends the process |
| `service_hang` | violated | | with the PostgreSQL client a signal during an RPC stops the process for ever |
| `stores` | holds | 793,018 | notes kept, no indicator without its case, closing all covers what it listed, the dashboard agrees with itself; rows have their files, deletions their audit record, and a cleanup spares what was protected |
| `app` | holds | 1,001,693 | the shared file stays sound, a revocation holds, the file follows the users; the session holds and files only its own; the vault and the alert connections; the verdict; the place of origin |
| `live_verdict` | violated | | the poller files as a threat what only the classifier worries about |

Each violated run checks one statement the repository makes about itself;
`PROJECT.json` quotes it under "findings".

`stores` and `app` are each a union of parts that share no state: the first state
chooses the part a behaviour is about (`which`), the others keep their first state,
and a property of a part says so in its antecedent. One run for several parts costs
the sum of their states, not the product.

### Limits of the properties

Where the code departs from what one would like to say of it, the property is
stated for the behaviours without the departure, and the departure is named here.

* A daemon whose worker was stopped goes on taking messages until its lease ends
  (`HaltBound` says how long), though `core/sentinel_control.py` speaks of halting
  immediately. `deactivate_mailbox` leaves a local daemon that holds a lease
  fetching until then as well, although the settings page says it has stopped.
* A poll that ends early has moved the checkpoint but never adds its messages to
  the totals, so `TotalsHold` bounds them from above only.
* After a renumbering a mail without a Message-ID can get a UID used before and is
  dropped as a duplicate of the earlier one, so `DroppedHasTwin` is stated without
  renumbering. An expunge moves the UIDs at the next renumbering, so that a case is
  overwritten, and `CaseKept` is stated without expunges. A daemon whose
  first poll ended early has no `has_polled`, and without production polling a
  renumbering before its second poll goes unnoticed.
* A signal between a claim's reply and `bind_token` stops the service before the
  token is bound, and the lease is not released but left to expire.
* A save of the JSON file can undo another process's; after one, a stop, a
  revocation or a connection may be gone. `RevocationHolds` and `LocalFollows` are
  stated for behaviours without (`lost`); `LocalStateSound` holds with.
* A hosted disconnect that fails half-way may still report success; the mailbox row
  then stays active. Deleting the worker removes the polling flag before the hosted
  call that may fail. Starting the daemon sets the worker of the worker id file
  RUNNING, whoever's it is. `stop_sentinel_worker_daemon` uses a name it does not
  import, so that it signals no process, and the next start runs a second daemon.
* The vault is written in place: a reader in the middle takes it for corrupt and
  shreds it. `VaultKeeps` is stated for behaviours without (`raced`), `VaultSound`
  for all.
* On the hosted store a re-save overwrites what an analyst wrote, and two tabs lose
  each other's notes: `NotesKept` is about the local store and one tab at a time.
  A demo case deleted from the hosted store is not deleted, and says it was.
* A case protected after a cleanup's dry run is deleted all the same:
  `SparesTheRest` is about what was protected at the dry run.
* An email with a QR code does not pass the validation of its own finding, and is
  neither analysed nor filed; one analysed before signing in is cached with its
  refused case and not filed later either.
* The agent traces an arbitrary one of the addresses in text and headers, so the
  network findings of a report may be about an address in the text. An address the
  local database places is never recognised as a VPN's or a cloud's by its
  organisation. A failed look-up is kept for the life of the process.

### Bounds

Two daemons and five tokens: overlap is a matter of pairs, and five tokens are one
in the row, two bound and two in replies. Leases are 3 s with a threshold of 2 and
replies of up to 1 s, so that a renewal can be early, late, lost or refused;
`HaltCap` lies above the bound `HaltBound` states. `lease_local` uses leases of 2 s,
four tokens, a crash and no other fault, and does not count the time since a halt.
The clamps 30, 600 and 300 are scaled down with them. The poller has up to three
mails, batches of two and an index of two (two, one and one in `poller_liveness`): a
batch is left over, the index evicts, and a crash, an abort, an expunge and a lost
write fall in any order. The service has three leases (one lapsed, one in the row,
one in a reply), two signals and a fault.

`stores`: two tabs, the worker, two cases, of which one is critical and the other a
demonstration, and limits of 1, 1 and 2, so that a case lies beyond the figures and
one beyond the queue; two users, a case, an evidence item and a report in the
forensic store, with a crash.

`app`: two users, the operator and two processes share the files; the constraint
`Budget` bounds buttons, leases and faults together at 4, and at 2 buttons once a
save was lost, after which two of the three properties claim nothing more. Two
threads make four calls on two accounts of the vault, with a restart: a call that
overlaps another needs a vault to read, which takes a call before, and a loss shows
in one after; two users
with two browsers and two channels, one user without a worker; a browser session on
two emails, one with a QR code, with three cases and list limits 1 and 2; every mail
with at most three signs and every authentication result; every mail that names at
most two of four addresses, which between them are private, IPv6, known to the local
database, and in each of the networks and lists.

`MaxFaults`, `MaxCrashes`, `MaxSignals`, `MaxClaims`, `MaxMail`, `MaxRebuilds`,
`MaxExpunged`, `MaxAborts`, `MaxLosses`, `MaxCopies`, `MaxGen`, `MaxOps`, `MaxUses`,
`MaxRestarts`, `MaxCases`, `MaxSigns` and `MaxNamed` are the bounds; each appears in
the guard of the action, or in the initial states, it limits. In `Attribution` the
other sessions' look-ups end with the first that overtakes this one.

**Symmetry** is used in safety runs, over daemons, tokens, Message-IDs, tabs, users
and threads. Every property is invariant under it. `KeepsPromise` is a safety
property too: it has no fairness.

**Deadlock** is checked for the lease, where time always passes. A poller that has
used up its bounds, a process that has exited, a vault whose calls are used up and a
mail that has been analysed do stop.

**Fairness.** `WorkerLease`: weak fairness of time and of each daemon's loop,
because the loop of `run` has no exit but `stop`; nothing is promised of the
control plane, of restarts or of faults, and `Recovers` asks that the local
control plane leaves the lease alone from some point on: clearing it for ever
keeps any daemon out. `MailboxPoller`: weak fairness of the poll and of a
start, because the service polls for ever and is restarted; the folder owes
nothing. `WorkerService`: weak fairness of the two flows of the thread, strong
fairness of the end of a poll, which has at most `MAX_MESSAGES_PER_POLL`
messages. The web application's parts move only when somebody clicks, and no
liveness is claimed of them.

## 4. What is proved

For every value of the constants the modules' assumptions allow:

* `TypeCorrect`: types of `WorkerLease`.
* `HaltBounded`: `Spec => []HaltBound`, for every variant of the RPCs. The
  bound alone is not inductive: a renewal in flight may have been granted
  before the halt. `HaltInv` adds that no lease plus the time since the halt
  exceeds the longest grant and one reply, and that a granting reply is as old
  as the halt at least. No action grants once `desired` is STOPPED.
* `OverlapBounded`: `Spec => []BoundedOverlap` without `OwnerReclaims` and
  `LocalPlane`, and with a renewal interval at most the extension. `OverlapInv`
  says that every token has one bearer; that a grant on its way is still the
  row's lease and no younger than its reply; and that a local clock is at most
  a reply behind the row, or, once its token was superseded, within a reply of
  its own expiry. A claim needs the row to have expired, so the superseded
  daemon is in its last `MaxLatency` seconds.
* `NothingOrphaned`: `Spec => []NoOrphan`, for every variant. `OrphanInv` adds that
  a live row has a token; that a token is in flight only in a claim's reply, which
  never carries none, and is not the one its daemon gives up for it; that without a
  fault no reply is lost; and that what a releasing daemon is about to forget is no
  longer the row's. A refused renewal keeps the token, which is why expiry does not
  orphan a lease.
* `ImplementsTenancy`: `Spec => KeepsPromise`, under the assumptions of
  `OverlapBounded`. Initial states map to initial states; each action maps to an
  Award, a Serve, a Leave, a Want, a Tick or a stutter. The invariants `TypeOK`,
  `HaltInv` and `OverlapInv`, proved before, give what the abstract guards ask: that
  nobody else's term outlasts the grace when the RPC grants a claim (`Clock`), that
  a reply's reader is on record (`InFlight`), and that its grant precedes the halt by
  a reply's age at most (`HaltInv`).
* `TenancyKept`: `Spec => [](OneHolder /\ Vacated)` of `Tenancy`, by `TermInv`: who
  is off the record lingers at most, the record names one at most, and a term and the
  time since the office is unwanted are together at most a term and the grace.
* `ServiceTypeCorrect`, `WorkLeased`, `OneBearer` for `WorkerService` with both
  clients, and `StoppedStaysIdle` (`Spec => NoWorkAfterStop`), whose property
  speaks of the PostgreSQL client. `BindInv` ties the reply in hand to the row.
  `StopInv` keeps the two stops apart: while the main flow is in its own, the
  handler's returns at once. `StoppedInv` says that after the handler's stop
  the flow is outside every client call with the connection closed, so that the
  step in progress cannot get a credential any more.

`OverlapBounded` and `ImplementsTenancy` leave out the local control plane because a
cleared row can be claimed while the previous holder's clock still runs, and the
phase G claim because `lease_phase_g_overlap` shows it breaks them; `NoWorkAfterStop`
leaves out the local client because its calls need no connection, and a stopped
process can claim again within the same step.

For `MailboxPoller`, with any folder, limits, and number of crashes, aborts, lost
writes and renumberings. The part of the invariant that all use is `PollInv`, four
invariants that only hold together: UIDs ascend with the numbers of their mail
(`FolderInv`); the work to do ascends and lies beyond the position (`LoopInv`); a
daemon without totals has no position (`MemoryInv`); mail beyond the position was
analysed once per death at most (`OnceInv`).

* `PollerTypeCorrect`; `MailAnalysedOnce` (`AnalysedOnce`), without hypothesis: it is
  the position, not the Message-ID index, that keeps a resumed poll from analysing
  again.
* `CasesKept` (`CaseKept`), without hypothesis. `NumberedInv` and `CaseInv` say that
  without an expunge UID and mail are the same number, so that a renumbering moves
  no case.
* `NothingLost` (`NoSilentLoss`) for `Dependable` constants: either no renumbering,
  and where a production daemon may die, a first UIDVALIDITY of 1; or renumberings,
  but production polling only and no death. What it leaves out is what `poller_resume` shows,
  that the telemetry file has no UIDVALIDITY, and a renumbering under a daemon that
  has a position before it has a checkpoint. `LossInv` says of the mail ahead of the
  position that it is in hand, still to do or beyond all there is to do; `DiskInv`
  is the same of what the file passes on to a successor.
* `DuplicatesHaveTwins` (`DroppedHasTwin`) without renumbering, and if no header is
  one of the identifiers the poller makes up for mail without one (`MadeUp`,
  `worker/poller.py:426`). `TwinInv` ties each entry of the index to its mail.
* `TotalsKept` (`TotalsHold`) for production daemons without renumbering and with a
  first UIDVALIDITY of 1. `SumInv` bounds totals, in memory and on disk, by the mail
  up to the position they were recorded with. Without production polling a daemon starts over
  after a death and counts its mail again, in the same file.

For `CaseStore` and `LocalStorage` as `MCStores` joins them (`StoresProof`):

* `StoresTypeCorrect`, and under `StoreInv`: `StoredNotesKept` (`NotesKept`), since
  the copy a tab is about to write back has every acknowledged note (`NotesInv`) as
  long as tabs are at work one at a time (`AloneInv`); `IndicatorsFollowCases`, by
  `GoneInv` and, for the local store's single transaction, `SingleInv`;
  `CloseAllCoversListed` (an action property), by `ListedInv`, what a bulk close has
  been through stays ended; `FiguresAgreeAlways`, about the dashboard's operators.
* `FilesAreAccounted` and `CleanupSparesTheRest` (an action property), under
  `LocalInv`: a row's file is on disk or its deletion begun (`FiledInv`); each
  deletion begun is recorded, under way, or one a restart cut off (`AuditInv`); a
  cleanup's list is of what was free at its dry run, and none of it can be stored
  anew meanwhile (`TakenInv`).

For the parts of the web application, in `AppProof`:

* `AlertsAreTheUsers` (`AlertsHold`), by `StoreInv`, what the store has connected is
  its user's and on the worker's row, and `SeatInv`, flags are about nobody but the
  session's user.
* `VaultKeepsAccounts` (`VaultHolds`). Between its truncation and its last byte a call
  holds the file: without a collision one call does at most, and it owes the file
  what is due after it (`Owes`); before, what it will write fits what it has read
  (`Ready`).
* `AuthenticatedTextStaysLow`, `LowIsNeverThreat`, `BatchNeverHarsher`, for mails with
  any number of signs. `VerdictInv` says that each step's result is the function of
  the mail its predecessors determine (`BecOf`, `FindingsOf`), which leaves theorems
  about the rules alone: which rules see which, and how high each goes.
* `HeadersAlwaysOutrankText`, `AlwaysOneStory`, by `OriginInv`: an entry is an answer
  some look-up may give, and without another session's the cache's; sender and
  infrastructure are what the evidence says and agree with the entries.
* `SessionsAreOwn`, `ReportsAreFiled`, `AlwaysActsOnTheShown` (an action property), by
  `ConsoleInv`: a session's dictionary and the page on the screen hold cases of their
  user only, and a report is on record with the bytes it is of.
* `AppTypeCorrect` (`AppTypeOK`), and `AppKeepsTheFile`: the deployment's theorems for
  the behaviours of `MCApp`, which are the deployment's with steps of the other parts
  in between (lemma `AppIsDeployment`).

For `Deployment`, with any users, daemons, buttons and failures (`DeploymentProof`):

* `DeploymentTypeCorrect` and `LocalStateStaysSound` (`LocalStateSound`), by
  `DeployInv`: the file and all snapshots are sound files that know no token yet to
  be given (`FileInv`, `DaemonInv`), each script is the end of one that a button
  starts and has read the file when it saves it (`ScriptInv` with `Shape`), and a
  connected mailbox has its account (`AccountInv`). A save of a stale snapshot is
  sound because the snapshot was.
* `RevocationAlwaysHolds` (`RevocationHolds`) and `FileAlwaysFollows` (`LocalFollows`),
  by `UserInv`, a statement about one user. A step of anybody else is a `Frame`: it
  leaves the accounts of the user as they are, or a save was lost. A step of the
  user's own script keeps what the rest of the script still promises: a resume has
  its `save_run` to come, a connect its `save_sync`, a disconnect that has not saved
  yet has taken nothing away.

Attempts to prove found two properties to say less or other than was meant. A vault
call that met another's half-written file, or wrote over another's write, was not
always noted in `raced`; the collisions it missed need a call more than three, which
is why `MaxUses` is 4. And a connect that failed before it reached the mailbox was
taken to end a disconnection, so that `RevocationHolds` claimed nothing of the user;
now `ended` is reset when the connection takes effect.

What the theorems assume of the constants is named in the module that declares them:
`LeaseAssumption`, `ServiceAssumption`, `PollerAssumption`, `StoresAssumption`,
`DeploymentAssumption`, `AppAssumption`. Bounds are numbers, those of the limits and
batches positive; values that stand for nothing (`Nobody`, `None`, `NoId`, `NoToken`,
`Nowhere`, `Torn`) are none of the things they stand in for; the operator is not a
user; the pages' limits have a smallest. The lease's clamps are ordered as in
`worker/config.py`.

Every invariant and every action property of a passing run is stated by a theorem,
some under a hypothesis, as said above. Only model-checked are the liveness
properties (`Recovers`, `EveryMailReached`, `LocalShutdownEnds`): fairness and ENABLED
are beyond the prover. The hypotheses hold in the runs that check the property, and
leave out the departures named here and in section 3; for renumberings `TotalsHold`
and for a slow renewal `BoundedOverlap` stays open.

## 5. Not modelled, and why

* The rollout gate (`worker/rollout.py`) is re-exported but called by no other module, and the legacy
  monitor (`core/sentinel.py`), an in-process forerunner of the poller, by no page and
  no daemon: only the script `test_suite.py` imports it.
* Key rings, envelope versions and the encryption itself: outside what TLC and TLAPS
  decide. The versioned update of a credential is one conditional statement.
* Alert channels, forensic extractors, reports and the Next.js application are
  network calls, text processing and layout. What they decide for another part is a
  choice there: the signs of a mail in `Verdict`, a delivered or failed test message
  in `AlertSession`, an answer of a look-up in `Attribution`.
* Of the modelled parts: wording, layout and formatting; failure classes, backoff and
  rate limits of the worker; the telemetry reset; the hosted client's read caches; the
  contents of export archives; TLS and row-level security beyond the hidden row; the
  look-ups and word lists that give a sign.

## 6. Plan

The models and the proofs of section 4 cover what the runs check. Next, in this order:

1. An abstract specification of the vault, a set of accounts with one active, that
   `SessionVault` implements without collisions; and one of the poller, a queue each
   message leaves once, under `Dependable`.
2. `NothingLost` for a daemon that dies in a folder renumbered before its first poll,
   and `TotalsKept` under renumbering, where the positions of `SumInv` change meaning.
3. Models: credential rotation with its versions, backoff and failure classes, and a
   poll that several mailboxes of one user share; then their theorems.
4. Shorter proofs: `SameFindings` and the frames of `Deployment` split by the rule or
   script step where one lemma about a table of rules or steps would do.
