# MiWiFi for Home Assistant: a TLA+ verification project

The repository is a Home Assistant integration for Xiaomi routers
(`src/custom_components/miwifi`). Every configured router is polled by its own
`LuciUpdater`; in a mesh the updaters write into each other, and purges, timers
and reloads run between the awaits of all of them. All of it is one asyncio
thread: code between two awaits is atomic, and everything else interleaves. That
interleaving is what a unit test hardly reaches, and what this project is about.

`PROJECT.json` lists the components, runs, mutants, the map from definitions to
source lines, findings, hazards and theorems. Run a configuration with
`tlc -config X.cfg M`, and check proofs with `tlapm M_proofs.tla`.

## 1. The system

| component | state | operations | what is hard | what makes it correct |
|---|---|---|---|---|
| mesh client counters (`updater.py`) | counters per node, `_parent_push_pending`, `_counters_reset_this_cycle`, census stamp, topology graph | refresh of a node, push of the main into a leaf, `new_status`, topology count | a push and the leaf's own refresh write the same counters; requests fail half-way | a client is counted once, a push is kept until the next one, nothing grows |
| client rows (`updater.py`) | table, store, `_moved_devices` of each node | report, route, push, restore, expire, save, unload, purge | restores wait for each client while others report; a client is in several stores | one owner, no dead copy beside a live row, purged clients stay away |
| purged clients (`purged_clients.py`) | set in memory and on disk, lock | mark, ask and release | cancellation, failing store, restart | a mark is durable and effective until a router confirms the client |
| scheduled purge (`auto_purge.py`) | handles, reservation and owner in `hass.data`; schedule and deadline in a store | schedule, cancel, prime, job, settings | every entry's setup and unload cancels the one scheduler | a deadline is always armed, and is reached |
| entry lifecycle (`__init__.py`) | entries in `hass.data` | set up, retry, unload, remove, stop | reload between the steps of others | the state of an entry goes with it |
| refresh cycle (`updater.py`) | re-authorization, first-update flags, backoffs | `_async_update` and its `PREPARE_METHODS` | partial failure | old data is kept where a request is optional |
| router client (`luci.py`) | token, protocol, login lock, `authentication_failed` | login, logout, get with one retry | concurrent re-logins, sessions that end each other, rejected credentials | one login suffices, no hammering, always a way back |
| static DHCP editor (`dhcp.py`) | lock, revision | read, write | another administrator; a write whose answer is lost | stale edits refused, one write, never a false success |
| MAC replacement (`mac_replacement.py`) | groups, reports per node | configure, candidates, retire | reports of different ages | only an inactive MAC of a client with exactly one active MAC is retired |
| device trackers (`device_tracker.py`) | the updater followed, presence, grace, hold after restore; `devices_cache` | coordinator updates, ping, reparent | clients roam between coordinators; the node that provides a tracker unloads | no flapping, no vanished tracker, nobody home for ever |
| switches, selects (`switch.py`, `select.py`) | the value shown, a copy of the radio's settings, what was asked | write, publish, warn | writes race a refresh; lost answers; a router that overrides | what is shown converges; a warning has a reason, and a lasting override is reported |
| services, settings, lights, buttons, panel, discovery, diagnostics | little of their own | calls into the above | - | - |

How they interact: the main's refresh routes clients to leaves and calls
`add_device` of the leaf's updater; `add_device` asks the purged clients for
every client; a purge (service or scheduled) marks, then clears every updater's
table and store; the retirement of a replaced MAC does the same; `async_setup_entry`
and `async_unload_entry` call the scheduler; the options flow writes the
scheduler's store and reloads the entry. A report writes the mesh-wide
`devices_cache` and signals for a tracker; a tracker is heard by the coordinator
that created it and reads the updater that its record names. Every refresh,
service and entity of an entry shares its `LuciClient`, and with it the token and
the latch; every entity of a radio sends the radio's whole settings.

## 2. Modules

| module | models | with |
|---|---|---|
| `MeshCensus` | the client counters of a mesh | `MCMeshCensus`; `MeshCensus_proofs` |
| `ClientSuppression` | abstract: what the set of purged clients promises | refined by `PurgedClients` |
| `PurgedClients` | the coroutines behind the lock of the set | `MCPurgedClients`; `PurgedClients_proofs` |
| `ClientRows` | the tables of all nodes, restores, saves, purges | `MCClientRows`, two configurations; `ClientRows_proofs` |
| `AutoPurge` | the scheduler shared by all entries | `MCAutoPurge`; `AutoPurge_proofs` |
| `DhcpEdit` | the editor of static DHCP bindings | `MCDhcpEdit`; `DhcpEdit_proofs` |
| `LuciSession` | one router client and the tasks that share it | `MCLuciSession`; `LuciSession_proofs` |
| `WifiWrites` | writes of a radio's settings and the refreshes that read them back | `MCWifiWrites`; `Entities_proofs` |
| `MacReplacement` | groups of MACs, reports of all nodes, retirement | `MCMacReplacement`, two configurations; `MacReplacement_proofs` |
| `TrackerPresence` | the tracker of one client in a mesh | `MCTrackerPresence`, two configurations; `Entities_proofs` |

`ClientRows` composes with the set of purged clients through its specification:
its `owed` is the set that `ClientSuppression` keeps, marked and released
atomically, and `PurgedClients` implements that: `Abs == INSTANCE
ClientSuppression WITH ...`, with the identity on `owed` and `passed`, is checked
by a run and proved. `MacReplacement` uses the same abstraction for `blocked`.

`WifiWrites` and `TrackerPresence` share no name, so that `Entities_proofs` extends both.
They do not interact in the code either: a tracker never reads a radio.

### MeshCensus

One action is one stretch of a node's refresh between two awaits:
`BeginCycle`, `PrepareDevices` (the reset), `ReadDeviceList`, `RouteToLeaf` and
`AddOwn` per client, `EndRouting` (with the zeroing of a leaf nobody pushes to),
`StartPush`/`PushClient`/`StampCensus` per leaf, `EndCensus` (vacated leaves),
`NewStatus`, `FinishMain`/`FinishLeaf` (topology). `RequestFails` and
`DeviceListFails` are the two ways a request fails, and `GiveUp` ends a refresh at any
await, in the middle of a push too: an error nobody catches (`add_device` cannot save the
purged clients) or a cancellation. `LoadLeaf`, `UnloadLeaf`,
`ReloadMain` and `CensusExpires` surround them. `ctr` is what `updater.data` and
the flags hold: the total, the sum of the per-connection counters (`split`), the
flag `reset`, the flag `pending`, and the age and source of the census. The four
kinds of leaf are the combinations of force load, dedicated IoT Wi-Fi and a
device list with clients of its own that the code tells apart. `pushed`, `alone`,
`partial` and `clean` are history variables: the last push, whether a refresh of the
leaf began during it, whether it was given up and its count is still what the leaf
holds, and whether somebody else wrote a node's counters. All but the first delimit
exactly the interleavings that section 6 describes.

### PurgedClients and ClientSuppression

A call is `wait` (for the lock), `load` (first call ever), then decides without
yielding, then `save`, `written` and `Commit`. `Interrupt` is a cancellation or a
failing store at any await, with the store changed or not; `Restart` forgets
memory. `owed` is what a purge may rely on, `passed` what was let through.

### ClientRows

A row is none, live or restored, with the entry id it names. `AddRow` is
`add_device` past the suppression: the row is this node's and restored copies
elsewhere go. `ListOwn`/`AddOwn` are the two halves of a report (the owner is
written before the await, the row after), `Route`/`Push` those of the main's
push, `StartRestore`/`RestoreOne`/`EndRestore` the restore that waits for each
client, `Unload`, `SetupRetried`, `Register`, `Restart` the lifecycle, with the
tables that unloaded updaters write back when Home Assistant stops (`old`), and
`TakeUpdaters`/`Mark`/`ForgetClient`/`EndPurge` the purge. `blind`, `missed` and
`late` record who was set up after somebody else had read the list of entries.

### AutoPurge

`due` and `kick` are the handles, `prime` the task between its awaits, `job` each
run, `form` a save of the settings, `store` the store. Every step that yields is
a state of `prime` or `job`. `lost` holds the timers whose handle was
overwritten; they still fire. A deadline counts how often the clock has to pass
the configured hour, so that `Tick` moves time and restarts do not.

### DhcpEdit

`task` is an open panel: what it has shown (`seen`, `seenOpen`: the revision),
the operation under way (`op`) and where that stands (`at`: waiting for the
lock, before the bindings are read, before the rest is, waiting for the answer
to its request). `holder` is the lock of the manager of each updater the entry
has had. `Read` and `Submit` are the panel's calls, `Enter` takes the lock, `ReadBindings`
and `ShowSnapshot`/`Post`/`Verify` are the snapshot of a read, of the check and
of the readback: each is compared with the updater that is loaded at its end.
`PostReturns` and `PostFails` answer the request, which `Arrives` or is `Lost` on
its own: after a time out it may still come. `Fails` is every error: a refusal
before the request, `unverified` after it. `ForeignChange`, `RoleChanges` and
`Reload` come in between. What is left out: the validation of addresses and
answers, names, and the candidate clients, whose changes do not make an editor
stale. The model asks for no more than the code does, so it lets a foreign
change be overwritten if it comes after the check was read and touches the same
row; `DoneIsWhatWasShown` is about everything read, which is what the code
compares.

### LuciSession

`token`, `failed` (`authentication_failed`) and `lock` (`_login_lock`) are the
client; `task` says for each task where it is and with which session. A login is
`RouterLogin` (the router grants or refuses) and `LoginGranted`, `LoginDenied` or
`LoginLost` (the answer), because on a router with one session a grant ends the
older ones before its answer arrives. `Request` is `get` up to its request: the
latch, then the token. `SessionEnded`, `Relogin` and `Retry` are its one retry;
`Unanswered` after a retry leaves `get` as an exception that is no `LuciError`,
because the retry is outside of the `try`. `StartRefresh`, `Required`,
`StartOptional` and `Finish` are `LuciUpdater.update` with `_async_login_if_needed`,
the requests it needs, an optional one that catches its error, and the end where
a latch that a handler has hidden is raised. `updater.phase` is what Home Assistant
does with it: `asked` is `ConfigEntryAuthFailed`, `again` is `ConfigEntryNotReady`.

### WifiWrites

`Send` is `turn_on`, `turn_off` or `select_option` up to the request, with the
payload of `Payload`: the entity's copy of the radio and one new field. `Take` and
`Drop` are the router's, `Accepted` and `Unanswered` the two ends of the call (a
write whose answer is lost is shown all the same, for it restarts the radio);
a request whose sender gave up may still be taken. `Begin`, `Answer`,
`PrepareWifi`, `WifiFails` and `Publish` are the refresh: its `update_cycle`, the
moment the router answers, `_async_prepare_wifi`, and the two times the entities
are told. `Checked` is `_check_requested_option`. `cause` is a history variable:
why a select's router may show another value than asked.

### MacReplacement

`Configure` is `async_configure`; `List` is a node's device list with
`async_candidates` at its end (`Learned` is its loop, `Candidates` its judgement),
`Mark` and `Forget` the two steps of `async_retire_macs`, `Age` a report that gets
too old, `Restart` a restart. `async_retire_macs` runs without an await from the
judgement to the lock of the purged clients, so the entities it collects (`found`) are
those of the moment of `List`, and `Forget` removes these only. `shown` is whose entities
are registered; a client's row is not kept apart, so entities come with the row here and
in the code soon after it. `online`, `behind`, `cut` and `late` are history variables:
what the lists that the reports stand for have shown, what joined a group after them,
and the entities that a stop and the wait for the mark have left behind.

### TrackerPresence

`up` is where the entry of a node is, from `async_setup_entry` to the platform.
`ListRadio`, `ListForLeaf`, `ListMain`, `Notice` and `ListNothing` are what a
refresh may find out about the client, `Report` what it does with it (`AddDevice`,
`_mass_update_device` as `Mass`, the signal for a tracker, the end of a refresh as
`Ends`, the restore as `Restored`). `Heard` is `_handle_coordinator_update`: `Looks`
is which record it reads and which updater it follows from then on, `Age` is
`_last_seen` with the hold. A `Tick` is one period of polling; ages are counted in
ticks and end at `Old`, the first age that is no longer recent.

## 3. Runs

| run | checks | bounds | shows |
|---|---|---|---|
| `mesh_census` | 5 invariants, 2 action properties | main, 1 leaf of any kind, 2 clients | 4.7 M states: pushes, own censuses, failures, refreshes given up and reloads keep out of each other's way |
| `purged_clients` | 4 invariants, refinement, liveness | 2 coroutines, 2 MACs | 14,544 states: marks survive cancellation, failing saves and restarts; calls end |
| `client_rows` | 3 invariants | main, a force-load leaf, another leaf, 1 client | 1.3 M states: one owner, no stale copy, one restore |
| `client_purge` | `PurgedHasNoRow` | main, 1 leaf with or without force load, 1 purged client | 1.5 M states: nothing brings a purged client back |
| `auto_purge` | 2 invariants, liveness | 2 entries, off / daily / every 2 days, 1 run at a time, 1 intervention, any number of restarts | 167 k states: a deadline is armed, kept and reached |
| `dhcp_edit` | 1 invariant, 2 action properties | 2 panels, 2 MACs, 2 addresses, 1 intervention, at most 1 late request | 2.8 M states up to symmetry: what is done is what was shown, what is refused was not sent |
| `luci_session` | 1 invariant, 2 action properties, liveness | a refresh and 2 services, 1 retry of the first refresh, 3 events, one or many sessions | 153 k states: one login suffices, rejected credentials are tried once, polling comes back or asks |
| `wifi_writes` | 1 invariant, 1 action property, 2 liveness | a switch and a select, 2 values, 2 calls, 1 override | 293 k states: entities converge to the router, a select warns with a reason and of every lasting override |
| `mac_replacement` | 2 invariants, 1 action property | 2 nodes, 2 MACs, 2 names, 2 clients, 2 configurations | 73 k states up to symmetry: only MACs known to be offline are retired, and what is found of them stays away |
| `online_mac_remains` | `OnlineMacRemains`, violated | the same | finding 2 |
| `tracker_presence` | 1 invariant, 1 action property, 2 liveness | main, 1 leaf with or without force load, 1 move, 1 unload, restart or stop of polling; grace 1 tick, hold 2 | 160 k states: a client departs with a reason, is followed, and is not home for ever |
| `recent_is_home` | `RecentIsHome`, violated | main, 2 leaves, 1 move, no faults | finding 1 |

Why the bounds are enough. `MeshCensus`: leaves share no counter, only the main,
so one leaf against the main has every race, and the proofs cover any number;
two clients are needed for a push that is interrupted between two clients.
`ClientRows`: three nodes are the least where a restore gives a row back to a
node that is neither the restoring nor the reporting one; clients do not
interact, except in the purge, which is per client. The constraint `OneUnloaded`
keeps the tables of at most one unloaded updater, and no updater is replaced
while a restore that knows it is under way; two updaters of one node with
different stale tables differ only in which is saved last. `AutoPurge`: two
entries are enough for an owner and a rival; a frequency above 1 is needed for a
deadline that a restart could postpone; `Interventions` bounds unloads, removals
and saves of the settings (its invariants also hold with two of them, 4.1 M
states, which is not among the runs only because of the time the liveness
property then takes). `Tick` does not come while a task of the scheduler runs or
in the minute before a kickoff: a task takes seconds and the clock there is a day.
`DhcpEdit`: a panel and a rival that meet at one lock, two MACs and two addresses
for a row that is not the edited one and a conflict, one intervention for each
operation to be overtaken by; the proofs cover any number of all of these.
`LuciSession`: the lock and the single session are contended by two services and
the refresh, so that one can wait while another logs in and a third spoils the
session; three events are enough for a session to end, the password to change and
a service to call. `MaxRetry` is 1 where the code has `DEFAULT_RETRY`: the retries do
the same until the last, so one that is not the last and the last are all kinds.
`WifiWrites`: one field that warns and one that does not, and a second call while
the first one's answer is lost. `MacReplacement`: two nodes for reports of
different age, two MACs for a replacement, two clients for a name that the other
one has, two configurations for one that comes after reports. `TrackerPresence`:
with one leaf a client still moves to, from and away from a leaf of either kind,
and every node can be the coordinator; the run of `RecentIsHome` has two leaves,
because the old row and the new must both be leaves'; what `DepartsWithReason` says of
reported records, it says of one leaf (§6). Grace and hold are the least
numbers at which the two are not the same moment.

Deadlock is checked in every run but `luci_session`: with its events used up an
entry that is `asked` or `failed` waits for a person, as the code means it to.

## 4. Fairness

`PurgedClients`: the event loop runs what can run and the store answers (weak
fairness of the steps after the lock is taken); an asyncio lock wakes its waiters
in order (strong fairness of `Enter`). Calls need not be made.

`AutoPurge`: the clock does not stop (`Tick`, `LastRunAges`); started tasks go
on; strong fairness of `PrimeKick`, `Fire` and `JobStart` says that Home
Assistant is not stopped each and every time before a setup has armed its timers,
before a due timer fires or before a run has read its schedule. Without it
no scheduler could promise anything; with it `PurgeHappens` depends on the
code keeping the stored deadline: the mutant that computes it anew at each
setup never purges. Nothing makes entries be set up or the user act.

`LuciSession`: the coordinator's timer goes on and Home Assistant sets an entry that
was not ready up again (weak fairness of `RefreshBegins` and `SetUpAgain`), every
request ends, with an answer or a timeout (`Step`), and a router that is asked again
and again answers some time what a refresh cannot do without (strong fairness of
`Asked`, `LoggedIn`, `Served`, `Rejected`). Services need not call, and nothing
makes a person change a password, confirm one or reload.

`WifiWrites`: refreshes go on (`RefreshStep`), the router answers one that is asked
for again and again (`Answer`, strong), calls end. Nothing is assumed of the order
of writes and refreshes, and nobody has to write.

`TrackerPresence`: time passes, a ready node polls, what was listed is reported, a
platform follows its first refresh, and a list that is asked for again and again
is answered now and then (strong fairness of `List`). A first refresh may be
retried for ever, and nothing makes an unloaded entry be set up again.

`MeshCensus`, `ClientRows`, `DhcpEdit` and `MacReplacement` state safety only and no
fairness.

## 5. What is proved

`MeshCensus_proofs` proves, for any finite set of clients and any set of leaves,
`TypeOK`, `PushIsKept`, `RecentCensusRules`, `VacatedLeafIsZero`, `OwnCensusExact` and the action
properties `SelfCountIsOwn` and `ListedLeafKeepsPush`. Assumptions: the clients
are finite, the main is not a leaf, `NoLeaf` is not a leaf. `PushIsKept` is not
inductive: it says nothing of the moments in which it must not yet hold. The
inductive invariant is `PushInv`:

- `JobShape`: only the main's job has a queue, a target and routable leaves, a
  target only while it pushes, and a silent leaf has no client of its own to
  count, so nobody but the push counts for it;
- `QueueFresh`: a client still in the queue of the leaf being pushed to is not
  among the clients already pushed, so each push counts each client once;
- `PushExact`: during the push, too, an undisturbed leaf's counters are exactly
  the clients pushed so far; after it they are all of them, the split counters
  while the leaf remembers the census and the total while it is recent;
- `HeldIsStamped`: a leaf whose split counters are not zero holds a census with a
  source, so the main finds it when it looks for vacated leaves, unless its last push
  was given up (`partial`);
- `PushBounds`: a push that is under way or was given up shows no more clients than it
  has counted, even one that a refresh of the leaf disturbed. It bounds what such a
  leaf keeps in `VacatedLeafIsZero`.

`LeafStepOfStep` reduces a step of any node to what it may do to one leaf; each
of the theorems then has one case per action that can disturb it.

`OwnCensusExact` speaks of the end of a refresh; its invariant `OwnInv` of each
client in it. `ListShape` says which clients of the list have been counted
(`Done`), `OwnExact` that an undisturbed node shows as many as that, on a leaf from
the first one on, which finds the counters not yet reset and resets them; and a leaf
being pushed to is not undisturbed. `ForeignStep` is what the steps of the other nodes
may do, `OwnStep` what the node's own do: every step is one of them for each node.

`ClientRows_proofs` proves, for any main, leaves, clients and choice of force-load leaves,
`TypeOK`, `NoStaleCopy`, `RestoredOnce` and `PurgedHasNoRow`. Assumptions: the main is
not a leaf, `NoNode` is not a node and `NoClient` not a client. The three properties
and the types are inductive together with

- `RowsAreUp`: only an updater in `hass.data` has rows, a refresh, or clients waiting for
  it. A report removes the restored copies of the updater it finds there, and would
  otherwise leave one behind;
- `PurgeShape`: a purge that has not marked its client yet has taken every updater but
  for those that came after it (`late`), so the mark is owed by nobody else.

`CopiesKeep` covers every step but the restore: for each client either no restored row is
left, or rows only stay or go, with the marks of those that stay. The restore
(`RestoreOneStep`) is the one step that makes copies: whoever else has a row then was not
known to it, which is what `missed` records.

`PurgedClients_proofs` proves, for any MACs and coroutines, `TypeOK`, that marks are durable
(`MarkIsDurable`) and known (`MarkIsKnown`), that no purged client passes
(`PurgedStaysOut`), and that the safety part of `PurgedClients` implements
`ClientSuppression` with the identity mapping: every step is a mark, a
confirmation, a pass or a stutter. The invariant `IInv`
adds `CallShape` to these and to the shape of the lock in `TypeOK`: a call saves
only a loaded set, between `Write` and `Commit` the store is what memory is about
to become, and the client of a release that is being saved is no longer owed.
Whatever is interrupted, neither the store nor memory falls below `owed`.

`DhcpEdit_proofs` proves all three properties of `DhcpEdit` for any MACs,
addresses, panels and interventions. `IInv` is `Rest`, the types of what is not the
panels' (with `gen + left <= Interventions`, which bounds the reloads), and
`Locked`: the panel that is busy holds the lock of its manager and no other
lock, which `TypeOK` does not say and without which a panel that moves to the
manager of a new updater could be taken for the holder of an old lock; and
`OpShape`, by which a change that is sent was checked against what its panel had
shown (`before = seen`), the fact that `DoneIsWhatWasShown` rests on.
`KeepsLock`, `TakesLock` and `ReleasesLock` are the three things a step does to
the locks; each action is one of them.

`LuciSession_proofs` proves, for any number of tasks and any bounds in Nat, `TypeOK`,
`OneLoginSuffices` and `RejectedOnce`. `IInv` adds to the types: only a task that
logs in holds a grant it has not used yet (`GrantOfLogin`); if the session that a
login inside `get()` opened has ended, it ended after that login, whether its
answer has arrived or not (`CutIsNoted`); and the refresh whose login was
refused has ended (`DeniedHasStopped`).

`Entities_proofs` proves, for any settings, values and calls, `WifiTypeOK` and
`WarnedWithReason`. Assumptions: `NoValue` is neither a setting nor a value nor a
call, and the bound of the overrides is a number. The warning is decided refreshes
after the write, so `WifiInv` says what the router has meanwhile: a write it has taken
and nothing has touched since stands there (`TakenStands`), and so does a request
with no cause to fail, while another value that a refresh still holds comes from
before the write and is the first to be judged (`AskedStands`), which the code forgives.

It also proves, for any mesh, kinds of leaves, grace, hold and number of moves and
faults, `TypeOK` and `DepartsWithReason` of `TrackerPresence`. Assumptions: the main is
no leaf, `None` is not a node, and the bounds are numbers. `DepartsWithReason` is about what a
step reads, so the invariant `Presence` says what may stand there to be read. `Base`
holds in any mesh:

- `OutIsEmpty`: a node that is not set up has neither a record nor a refresh, so what it
  once reported is read only by a tracker that has kept it;
- `OneKind`: a record from a store and one from a report are not there at the same
  time, and only a node that saves has a store. So a tracker that is held reads
  a record from a store only while nobody has reported the client;
- `NobodyHome`: without a tracker nobody is home, so one that leaves was there.

This is enough for the second half of the property (the hold, in `AgeIs`). The first
half is about one leaf, and `Reported` holds there: no record a tracker may read is older
than `silence`, the time since the last report, unless the mesh-wide one is newer.

- `LastReport`: the leaf's record is of the last report, and so are the mesh-wide one
  and the main's own, except while the main's names the leaf;
- `InFlight`: between a list and its report the other node's record is of this tick or
  names the lister, and the main has none while it pushes, so the report that comes
  next leaves no outdated record behind;
- `OldIsOther` and `LostIsKnown`: a tracker that follows an unloaded updater has another
  coordinator, and as long as that one neither has a record of its own nor has listed the
  client, what may come back to the lost node is of the last report. Without this
  nothing ties the record of an updater that is in no list any more to the report.

`ListOwnReported` to `TickReported` are one lemma per action; `DepartsIs`, `ReadsIs` and
`LeavesWithReason` derive the property from the invariant of the state before the step.

`MacReplacement_proofs` proves, for any nodes, MACs and names and any finite set of
clients, `TypeOK`, `KnownOnlineMacRemains` and `RetiredIsGone`. Assumptions: the clients are
finite, which gives them an order in which a row meets their groups (`KeyOrderLists`),
and the bound of the configurations is a number. The last one rests on `RetiringShape`
alone: a node that retires nothing has found no entities to remove, so what a node
finds is in the property until it has removed it. The other two need what a list teaches
the groups, whatever it says:

- `Accs` is what may have been learned after any number of rows: the groups keep their
  clients, and no name belongs to two of them;
- `Grows` says that a row takes nothing out of the report and brings no MAC but its own
  into a group, `Seen` that a row that is online is in the report if its MAC is in the
  group. A MAC is in one row of a list only, so no later row puts it into a group
  without putting it into the report;
- `ReportCovers`, inductive together with `TypeOK`: an online MAC of a group is in the report
  of its node, unless a later list joined it.

`MatchedKeeps` says this of one row and one group, `MatchedAllKeeps` of a row and all
groups, `LearnedKeeps` of the list. The two recursive functions over `0..N` are reasoned
about by induction in the form of sets: `IterationExists` gives their defining equation,
`Upward` that what holds of 0 and of every successor holds up to `N`.

`AutoPurge_proofs` proves, for any entries, number of runs, interventions and set of
frequencies that has a largest one (`FreqsHaveLast`), `TypeOK` and
`DeadlineArmed`. The latter speaks of the moments in which nothing is under way;
`IInv` says it of every moment:

- `ArmedOrWill`: if the purge is on, a deadline is armed or something under way
  will arm one: the arming task before it arms, a run before it reads the
  schedule, an entry that unloads and will hand over, or a reload that a save
  of the settings has asked for;
- `PrimeShape`: the arming task looks for a kickoff and saves only after it has
  armed, and who cancels the timer cancels the task;
- `OffWaits`: a task that found the purge off, while the settings have switched it
  on since, is followed by the reload of a ready entry;
- `DownIsOut` and `FormShape`: nothing is set up while Home Assistant is down, and only
  an entry saves the settings.

`FormShape` is a separate invariant, since a save of the settings alone needs it.

Only model-checked: the liveness properties (`CallsEnd`, `PurgeHappens`, `Recovers`,
`Converges`, `LastingOverrideIsReported`, `Follows`, `GoneIsAway`), which are beyond
this prover. Every invariant and every action property that a passing run checks is a
theorem. The findings are counterexamples and stay with TLC.

## 6. Findings

Two are runs with one violated property each.

1. `RecentIsHome` (`device_tracker.py:1113`): the tracker of a client that roams from
   one leaf to another goes away although the new leaf has just reported it: it
   reads the row of the leaf it followed before the mesh-wide snapshot that was
   made for roaming, and nothing refreshes or removes that row.
   `DepartsWithReason` therefore excepts a record older than the mesh-wide one, and what it
   says of reported records is about meshes with one leaf. With two, such a row can even
   become the latest: a leaf that finishes its first refresh publishes it
   (`device_tracker.py:524`), so the tracker leaves on a row that is as old as the
   mesh-wide one while the node that reported last has a recent row. A record that a
   store gave back carries the age it was saved with, whatever has been reported since,
   so of these the property says only that the hold keeps the tracker home.
2. `OnlineMacRemains` (`mac_replacement.py:104`): a MAC is retired while a node shows it
   online, if that node's report was made before another list joined the MAC to the
   group. `KnownOnlineMacRemains` excepts exactly these (`behind`).

Met while modelling, and excepted by name in the passing properties:

- A leaf blanks the counters the main pushed in when the main's topology graph is
  missing (`updater.py:2234`); `ListedLeafKeepsPush` asks for a leaf that is listed.
- A leaf's refresh in the middle of a push makes its clients count twice until its
  next cycle (`updater.py:2257`); `alone` in `PushIsKept`.
- A push that ends between `reset_counter` and its stamp, because `add_device` raises or
  the refresh is cancelled (`updater.py:2257`, 2269, 2274), leaves the leaf with the
  clients counted so far and no stamp. A later census that routes nothing to the leaf
  skips it (`updater.py:2300`), so these counters outlive the last client until the next
  push, or until the leaf zeroes itself because no graph lists it. `partial` in
  `VacatedLeafIsZero`, which bounds them by what that push had counted.
- A retirement collects the entities to remove before it waits to mark the MAC
  (`mac_replacement.py:164`-180). One that another node's list creates in between
  stays registered though the MAC is suppressed, until a list shows the MAC online
  again; `late` in `RetiredIsGone`.
- The marker of a restore outlives the client's return to the node as its own
  client, which is then not counted (`updater.py:2565`).
- A run that waits for its schedule overwrites the handle of a timer that another
  entry's setup has armed (`auto_purge.py:218`); `lost` in `AutoPurge`.
- The scheduler writes a frequency back that it read before the user changed it
  (`auto_purge.py:276`, 294, 351).
- Removing an entry cancels the timer that serves the remaining ones
  (`__init__.py:271`); `cut` in `AutoPurge`.
- A request that waited for the login lock logs in again though another one just
  has (`luci.py:360`). Only time is lost: `OneLoginSuffices` holds.
- Two settings of one radio that are written between two refreshes: the second
  write sends its copy of the first and takes it back (`switch.py:201`, `select.py:337`).
  A select whose value was lost so warns of an override by the router
  (`WarnedWithReason` allows the reason `own`). That everything shown follows the
  router is what `Converges` checks.
- A tracker keeps the updater of an unloaded leaf, and reads its last record, until
  the leaf is loaded again (`device_tracker.py:1113`); the first fill of a platform
  puts an older record over the mesh-wide one (`device_tracker.py:524`, 592);
  a client that another node has a copy of is not signalled for, so a tracker that
  went with its coordinator is not provided again (`updater.py:2215`, 2540); a tracker
  whose coordinator stops polling after rejected credentials shows for ever what it
  last showed. These are `Misled`, `Skipped` and `Frozen` in `Follows`.

## 7. Not modelled, and why

The content of sensors, diagnostics, redaction, logging, the panel and the
constants has no behaviour over time (`const.py` is a table of 32,000 lines, two
thirds of the implementation by size; the map cannot cover it). Probes of
`compatibility.py` run once, sequentially. A light or a button sends one request and
keeps no copy of other settings; a light's write into `updater.data` races a refresh
as a switch's does, which `WifiWrites` has. Discovery starts config flows and keeps
nothing. Migration and the forms of the config flow are pure validation.

Left out of the modelled parts:

- `MeshCensus`: the block service, which calls the main's `_async_prepare_devices` outside
  of a refresh (`services.py:447`) and so interleaves a second list with one under way
  (with it the run takes more states than it has time for; `OwnCensusExact` excepts
  counters that somebody else writes, as this does), and a refresh that goes on after
  its entry was unloaded without being cancelled.
- The choice of what a purge deletes depends on ages and the entity registry
  (`services.py`, 1557-1787); `ClientRows` lets it pick any client of `Purged`. A
  row's attributes other than the owner are left out, as is the expiry clock: a row
  may expire at any time.
- `AutoPurge`: the time zone, a changed hour, the normalisation of a missing
  setting, failing saves, a kickoff that finds the last run not yet recorded
  (`auto_purge.py:341`), and platforms that fail to unload after the timers were
  cancelled (`__init__.py:255`).
- `LuciSession`: detection of the protocol, hashes, logout, single endpoints. The
  errors of `exceptions.py` derive from `BaseException`, so no `except Exception` of
  the integration catches one; the outcomes of a request in `Settle` keep them
  apart from the exceptions that are none.
- `WifiWrites`: one radio; the guest network, availability, lists of options.
- `MacReplacement`: mesh nodes among the rows, malformed MACs, removed nodes, a
  store that cannot be written (then memory is ahead until the next list saves it).
- `TrackerPresence`: wired clients, routers that do not answer, purges and expiry,
  rows of the device registry and their parents, the port probe, a leaf without force
  load that reports a client of its own list (`ListRadio` is for force load; what such
  a leaf reports is of a kind that is modelled), the moments
  between the decision to add an entity and its first state, and an unload in the
  middle of a push.

## 8. Plan

Done in this order, the most important behaviour first: `MeshCensus` and its
proofs, `PurgedClients` and its refinement, `ClientRows`, `AutoPurge`, `DhcpEdit`
and its proofs, `LuciSession`, `WifiWrites`, `MacReplacement`, `TrackerPresence`, then
the proofs of the others, `TrackerPresence` last.

Next:

1. The composition of `AutoPurge` with `ClientRows`: the run of the one is the purge
   of the other, and the entries a run covers are those set up when it starts.
2. The lights, buttons and firmware update, whose waits for a router that restarts
   have the shape of `WifiWrites`.
