---------------------------- MODULE TrackerPresence ----------------------------
(***************************************************************************)
(* The device tracker of one client in a mesh: device_tracker.py, and what *)
(* the updaters' reports do to it in updater.py.                           *)
(*                                                                         *)
(* There is one tracker for all nodes.  The node that creates it is its    *)
(* coordinator for good: only that node's refreshes make it look again.    *)
(* It then reads the record of the updater it follows, or, when that has   *)
(* none, the mesh-wide cache, and follows the entry that the record names. *)
(* It is home while the record is recent, and after a restart while a      *)
(* restored one is held.                                                   *)
(*                                                                         *)
(* Time is counted in Ticks, a period in which every node that polls has   *)
(* polled; a record is recent for Stay of them.  The stores, the rows of   *)
(* other clients, purges, expiry, routers that do not answer and registry  *)
(* rows are left out; Home Assistant adds an entity at once.               *)
(***************************************************************************)
EXTENDS Integers, FiniteSets

CONSTANTS
    Main,        \* the node whose list names the node of every client
    Leaves,      \* the other nodes
    Away,        \* the client is at no node
    None,        \* no record
    Stay,        \* the presence grace, in ticks
    HoldMax,     \* RESTORED_HOLD_MAX, in ticks
    MaxMoves,    \* bound: how often the client goes elsewhere
    MaxFaults    \* bound: unloads, restarts and stops of polling

Nodes == {Main} \cup Leaves

Old == Stay + 1
Records == [age: 0..Old, entry: Nodes, via: Nodes, restored: BOOLEAN]

ASSUME MainIsNoLeaf == Main \notin Leaves
ASSUME NoneIsNone == Away \notin Nodes /\ None \notin Nodes \cup Records
ASSUME BoundsAreNat == {Stay, HoldMax, MaxMoves, MaxFaults} \subseteq Nat

VARIABLES
    force,     \* the leaves with force load: they list the clients of their radio
    at,        \* the node of the client
    up,        \* node -> out, first (its first refresh is not over), fetched,
               \* ready (its platform is set up), stopped (it polls no more)
    row,       \* node -> the client's record in updater.devices
    cache,     \* devices_cache: the latest record of any node
    tracker,   \* the live tracker
    poll,      \* node -> what its refresh found and has not yet reported
    store,     \* node -> the record on disk
    wasHome,   \* the last state Home Assistant saved is home
    polled,    \* nodes that have polled since the last tick
    moves, faults,
    silence    \* history: ticks since a node reported the client, or the start

client == <<force, at, moves>>
saved == <<store, wasHome>>
vars == <<client, up, row, cache, tracker, poll, saved, polled, faults, silence>>

Idle == [at |-> "idle", to |-> Main, skip |-> FALSE]
Fresh(n) == [age |-> 0, entry |-> n, via |-> n, restored |-> FALSE]
NoTracker == [coord |-> None, upd |-> Main, old |-> FALSE, kept |-> None, home |-> FALSE,
              held |-> FALSE, k |-> 0]

Loaded(n) == up[n] # "out"

\* Mutant: a signal for a tracker is taken before the platform is set up.
ProvidesLoaded(n) == Loaded(n)

Provides(n) == up[n] \in {"ready", "stopped"}
Saves(n) == n = Main \/ n \in force
Has(n) == row[n] # None
OthersWith(n) == {m \in Nodes \ {n} : Loaded(m) /\ Has(m)}
Min2(a, b) == IF a < b THEN a ELSE b
Older(r) == IF r = None THEN None ELSE [r EXCEPT !.age = Min2(@ + 1, Old)]

-----------------------------------------------------------------------------
(* The tracker. *)

\* Mutants: a node that is setting up is not waited for; nor is the hold bounded.
AgeNoWait(r, t) ==
    IF r.restored /\ t.held THEN Min2(r.age, t.k - 1) ELSE r.age
AgeUnbounded(r, t) ==
    IF r.restored /\ t.held
    THEN Min2(r.age, IF \E n \in Nodes : up[n] = "first" THEN 0 ELSE t.k - 1)
    ELSE r.age

\* _last_seen: a restored client that was home counts as seen for a period, as
\* long as a node has not finished its first refresh, and never beyond HoldMax.
Age(r, t) ==
    LET first == \E n \in Nodes : up[n] = "first"
        seen == Min2(IF first /\ t.k > 1 THEN t.k ELSE 1, HoldMax)
    IN  IF r.restored /\ t.held THEN Min2(r.age, t.k - seen) ELSE r.age

\* Where tracker t looks: the record of the updater it follows, or the cache;
\* then the updater of the entry that names, maybe the successor of an unloaded
\* one.
Looks(t, rows, c) ==
    LET own == IF t.old THEN t.kept ELSE rows[t.upd]
        r == IF own # None THEN own ELSE c
    IN  IF Loaded(r.entry) /\ (t.old \/ r.entry # t.upd)
        THEN [upd |-> r.entry, old |-> FALSE, kept |-> None,
              read |-> IF rows[r.entry] # None THEN rows[r.entry] ELSE r]
        ELSE [upd |-> t.upd, old |-> t.old, kept |-> t.kept, read |-> r]

\* _handle_coordinator_update.
Heard(t, rows, c) ==
    LET l == Looks(t, rows, c)
    IN  [t EXCEPT !.upd = l.upd, !.old = l.old, !.kept = l.kept,
                  !.home = Age(l.read, t) <= Stay,
                  !.held = @ /\ l.read.restored]

\* add_device of n's platform: a tracker that starts from record r.
Created(n, r) ==
    [NoTracker EXCEPT !.coord = n, !.upd = n,
                      !.home = ~r.restored \/ wasHome,
                      !.held = r.restored /\ wasHome]

-----------------------------------------------------------------------------
Init ==
    /\ force \in SUBSET Leaves
    /\ at \in Nodes
    /\ up = [n \in Nodes |-> "out"]
    /\ row = [n \in Nodes |-> None]
    /\ cache = None
    /\ tracker = NoTracker
    /\ poll = [n \in Nodes |-> Idle]
    /\ store = [n \in Nodes |-> None]
    /\ wasHome = FALSE
    /\ polled = {}
    /\ moves = 0 /\ faults = 0
    /\ silence = 0

(* A refresh of node n: its list, then the report and the end. *)

\* _mass_update_device: the copies of other nodes name the node that lists the
\* client; the main also makes them recent.
Mass(n, r) ==
    [m \in Nodes |->
        IF m = n THEN r
        ELSE IF m \in OthersWith(n)
        THEN [row[m] EXCEPT !.entry = n, !.via = n, !.age = IF n = Main THEN 0 ELSE @]
        ELSE row[m]]

Touched(n) == IF Has(n) THEN [row[n] EXCEPT !.age = 0] ELSE None

Polls(n) == up[n] \in {"first", "ready"} /\ poll[n].at = "idle" /\ n \notin polled

ListOwn(n) ==
    /\ row' = Mass(n, Touched(n))
    /\ poll' = [poll EXCEPT ![n] = [at |-> "add", to |-> n, skip |-> OthersWith(n) # {}]]
    /\ UNCHANGED <<client, up, cache, tracker, saved, polled, faults, silence>>

\* A force-load leaf lists the clients of its radio.
ListRadio(n) == Polls(n) /\ n \in force /\ at = n /\ ListOwn(n)

\* The main lists a client of a leaf it can route to: its own copy goes.
ListForLeaf ==
    /\ Polls(Main) /\ at \in Leaves /\ Loaded(at)
    /\ row' = [row EXCEPT ![Main] = None]
    /\ poll' = [poll EXCEPT ![Main] = [at |-> "push", to |-> at, skip |-> FALSE]]
    /\ UNCHANGED <<client, up, cache, tracker, saved, polled, faults, silence>>

\* Every other client is the main's own, those of leaves it does not know too.
ListMain ==
    /\ Polls(Main) /\ at # Away /\ (at # Main => up[at] \in {"out", "first"})
    /\ ListOwn(Main)

\* Mutants: a report leaves the copies other nodes restored; the tracker of a
\* known client is not provided again.
AddDeviceKeepsCopies(n, r, skip) ==
    [rows |-> [row EXCEPT ![n] = r],
     tracker |-> IF tracker.coord = None /\ ~skip /\ Provides(n) THEN Created(n, r) ELSE tracker]
AddDeviceKnown(n, r, skip) ==
    [rows |-> [m \in Nodes |-> IF m = n THEN r
                               ELSE IF Loaded(m) /\ Has(m) /\ row[m].restored THEN None
                               ELSE row[m]],
     tracker |-> IF tracker.coord = None /\ ~Has(n) /\ ~skip /\ Provides(n)
                 THEN Created(n, r) ELSE tracker]

\* add_device of updater n: copies that other nodes only restored go, and a
\* tracker is signalled for if there is none.
AddDevice(n, r, skip) ==
    [rows |-> [m \in Nodes |-> IF m = n THEN r
                               ELSE IF Loaded(m) /\ Has(m) /\ row[m].restored THEN None
                               ELSE row[m]],
     tracker |-> IF tracker.coord = None /\ ~skip /\ Provides(n) THEN Created(n, r) ELSE tracker]

\* _async_prepare_device_restore: the owner of the record takes it back, the
\* main for a leaf without force load as well, unless another node has it.
Restored(n, rows) ==
    LET r == [store[n] EXCEPT !.via = n, !.restored = TRUE]
        owner == store[n].entry
        mine == [r EXCEPT !.entry = n]
    IN  IF store[n] = None \/ \E m \in Nodes : Loaded(m) /\ rows[m] # None THEN rows
        ELSE IF n \in force THEN IF owner = n THEN [rows EXCEPT ![n] = mine] ELSE rows
        ELSE IF owner = n \/ ~Loaded(owner) THEN [rows EXCEPT ![n] = mine]
        ELSE IF owner \in force THEN rows
        ELSE [rows EXCEPT ![n] = r, ![owner] = r]

\* The end: a first refresh restores, a later one calls the coordinator's listeners.
Ends(n, rows, c, t) ==
    /\ cache' = c
    /\ poll' = [poll EXCEPT ![n] = Idle]
    /\ polled' = polled \cup {n}
    /\ IF up[n] = "first"
       THEN /\ up' = [up EXCEPT ![n] = "fetched"]
            /\ row' = Restored(n, rows)
            /\ tracker' = t
       ELSE /\ row' = rows
            /\ tracker' = IF t.coord = n THEN Heard(t, rows, c) ELSE t
            /\ UNCHANGED up
    /\ UNCHANGED <<client, saved, faults>>

\* The report of what was listed, here or at the leaf the main pushes to.
Report(n) ==
    LET to == poll[n].to
        added == AddDevice(to, Fresh(to), poll[n].skip)
    IN  /\ poll[n].at \in {"add", "push"}
        /\ Ends(n, added.rows, Fresh(to), added.tracker)
        /\ silence' = 0

\* The list does not show the client, or its request fails.
ListNothing(n) ==
    /\ Polls(n)
    /\ Ends(n, row, cache, tracker)
    /\ UNCHANGED silence

\* A leaf without force load only notes that it sees a client it has.
Notice(n) ==
    /\ Polls(n) /\ n \in Leaves \ force /\ at = n
    /\ Ends(n, [row EXCEPT ![n] = Touched(n)], cache, tracker)
    /\ UNCHANGED silence

List(n) ==
    \/ ListRadio(n) \/ Notice(n)
    \/ n = Main /\ ListForLeaf
    \/ n = Main /\ ListMain

PollStep(n) == List(n) \/ ListNothing(n) \/ Report(n)

-----------------------------------------------------------------------------
(* Entries. *)

\* async_setup_entry: the updater is in hass.data and begins its first refresh.
SetUp(n) ==
    /\ up[n] = "out"
    /\ up' = [up EXCEPT ![n] = "first"]
    /\ UNCHANGED <<client, row, cache, tracker, poll, saved, polled, faults, silence>>

\* The tracker platform: its first fill takes the rows of this entry.
Platform(n) ==
    /\ up[n] = "fetched"
    /\ up' = [up EXCEPT ![n] = "ready"]
    /\ IF Has(n) /\ row[n].via = n
       THEN /\ cache' = row[n]
            /\ tracker' = IF tracker.coord = None THEN Created(n, row[n]) ELSE tracker
       ELSE UNCHANGED <<cache, tracker>>
    /\ UNCHANGED <<client, row, poll, saved, polled, faults, silence>>

Charge == faults < MaxFaults /\ faults' = faults + 1

\* The tracker goes with the platform of its coordinator; one that follows the
\* updater keeps the object, with the record it had.
Unload(n) ==
    /\ Charge
    /\ up[n] \in {"ready", "stopped"} /\ poll[n].at = "idle"
    /\ \A m \in Nodes : poll[m].at = "push" => poll[m].to # n
    /\ up' = [up EXCEPT ![n] = "out"]
    /\ row' = [row EXCEPT ![n] = None]
    /\ store' = IF Saves(n) THEN [store EXCEPT ![n] = row[n]] ELSE store
    /\ polled' = polled \ {n}
    /\ tracker' = IF tracker.coord = n THEN NoTracker
                  ELSE IF tracker.coord # None /\ tracker.upd = n /\ ~tracker.old
                  THEN [tracker EXCEPT !.old = TRUE, !.kept = row[n]]
                  ELSE tracker
    /\ wasHome' = IF tracker.coord = n THEN tracker.home ELSE wasHome
    /\ UNCHANGED <<client, cache, poll, silence>>

\* Rejected credentials: Home Assistant does not schedule another refresh.
StopPolling(n) ==
    /\ Charge
    /\ up[n] = "ready" /\ poll[n].at = "idle"
    /\ up' = [up EXCEPT ![n] = "stopped"]
    /\ polled' = polled \ {n}
    /\ UNCHANGED <<client, row, cache, tracker, poll, saved, silence>>

Restart ==
    /\ Charge
    /\ up' = [n \in Nodes |-> "out"]
    /\ row' = [n \in Nodes |-> None]
    /\ store' = [n \in Nodes |-> IF Saves(n) /\ Loaded(n) THEN row[n] ELSE store[n]]
    /\ cache' = None
    /\ tracker' = NoTracker
    /\ poll' = [n \in Nodes |-> Idle]
    /\ polled' = {}
    /\ wasHome' = IF tracker.coord = None THEN FALSE ELSE tracker.home
    /\ silence' = 0
    /\ UNCHANGED client

(* The client and the clock. *)

Move(n) ==
    /\ moves < MaxMoves /\ n # at
    /\ moves' = moves + 1
    /\ at' = n
    /\ UNCHANGED <<force, up, row, cache, tracker, poll, saved, polled, faults, silence>>

\* What takes seconds does not take a tick: a platform follows its first refresh
\* and a report its list.
Tick ==
    /\ \A n \in Nodes : poll[n].at = "idle"
    /\ \A n \in Nodes : up[n] # "fetched" /\ (up[n] = "ready" => n \in polled)
    /\ polled' = {}
    /\ row' = [n \in Nodes |-> Older(row[n])]
    /\ store' = [n \in Nodes |-> Older(store[n])]
    /\ cache' = Older(cache)
    /\ tracker' = [tracker EXCEPT !.kept = Older(@),
                                  !.k = IF tracker.held THEN Min2(@ + 1, HoldMax + Old) ELSE 0]
    /\ silence' = Min2(silence + 1, Old)
    /\ UNCHANGED <<client, up, poll, wasHome, faults>>

Next ==
    \/ \E n \in Nodes : PollStep(n) \/ SetUp(n) \/ Platform(n) \/ Unload(n) \/ StopPolling(n)
    \/ \E n \in Nodes \cup {Away} : Move(n)
    \/ Restart \/ Tick

\* Timers go on, what was listed is reported, a platform follows the first refresh,
\* and a list that is asked for again and again is answered.  A first refresh may
\* be retried for ever, and nothing makes an entry be set up again.
Fairness ==
    /\ WF_vars(Tick)
    /\ \A n \in Nodes :
        /\ WF_vars(Report(n) \/ Platform(n) \/ (up[n] = "ready" /\ PollStep(n)))
        /\ SF_vars(List(n))

Spec == Init /\ [][Next]_vars /\ Fairness

-----------------------------------------------------------------------------
(* Properties. *)

\* Type invariant; a tracker has a record to read, and its coordinator a platform.
TypeOK ==
    /\ force \subseteq Leaves /\ at \in Nodes \cup {Away}
    /\ up \in [Nodes -> {"out", "first", "fetched", "ready", "stopped"}]
    /\ row \in [Nodes -> Records \cup {None}]
    /\ cache \in Records \cup {None}
    /\ tracker.coord # None => cache # None /\ up[tracker.coord] \in {"ready", "stopped"}
    /\ tracker \in [coord: Nodes \cup {None}, upd: Nodes, old: BOOLEAN,
                    kept: Records \cup {None}, home: BOOLEAN, held: BOOLEAN,
                    k: 0..(HoldMax + Old)]
    /\ poll \in [Nodes -> [at: {"idle", "add", "push"}, to: Nodes, skip: BOOLEAN]]
    /\ store \in [Nodes -> Records \cup {None}]
    /\ wasHome \in BOOLEAN
    /\ polled \subseteq Nodes
    /\ moves \in 0..MaxMoves /\ faults \in 0..MaxFaults
    /\ silence \in 0..Old

Departs == tracker.home /\ tracker'.coord # None /\ ~tracker'.home

\* A loaded node has a record of the client that is recent.
Recent(n) == Loaded(n) /\ Has(n) /\ ~row[n].restored /\ row[n].age <= Stay

\* updater.py: the latest snapshot is kept "so stable device_tracker entities can
\* follow the client": none leaves while a node has a recent record of it.
RecentIsHome == [][Departs => \A n \in Nodes : ~Recent(n)]_vars

Reads(rows, c) == Looks(tracker, rows, c).read

\* There is a single leaf, so none keeps a row while the client is pushed to another.
OneLeaf == \A l, m \in Leaves : l = m

\* In a mesh with one leaf a tracker leaves on a record that was reported since the
\* start only when no node has reported the client for longer than the grace, or the
\* mesh-wide record is newer.  In any mesh, a client that was home when Home Assistant
\* stopped does not leave on a restored record before every node has finished its first
\* refresh or the hold has run out.
DepartsWithReason ==
    [][Departs =>
        LET r == Reads(row', cache')
        IN  /\ OneLeaf /\ ~r.restored => r.age > cache'.age \/ silence > Stay
            /\ r.restored /\ tracker.held =>
                  tracker.k > HoldMax + Stay \/ \A n \in Nodes : up[n] # "first"]_vars

\* Its coordinator has stopped polling: the tracker shows what it last showed.
Frozen == tracker.coord # None /\ up[tracker.coord] = "stopped"

Home == tracker.coord # None /\ tracker.home /\ up[tracker.coord] = "ready"

\* Whose list makes a client at n known: the node's own, or the main's.
Reporter(n) == IF n \in force THEN n ELSE Main

\* Its record, one that a node or an unloaded updater has kept, names another node
\* than the latest report.
Misled == tracker.coord # None /\ Reads(row, cache).entry # cache.entry

\* There is none, and the reports of node n do not signal for one: another node
\* keeps a copy.
Skipped(n) == tracker.coord = None /\ OthersWith(n) # {}

\* A client that stays at a node that reports it is home again and again, wherever
\* it was before and whatever was unloaded or restarted, however seldom a request
\* is answered; the exceptions are the two above, and a tracker whose coordinator
\* has stopped polling.
Follows ==
    \A n \in Nodes :
        <>[](at = n /\ up[n] = "ready" /\ up[Reporter(n)] = "ready")
            => \/ []<>Home
               \/ <>[](Misled \/ Skipped(n) \/ Frozen)

\* A client that is gone is not home in the end, whatever a store restored.
GoneIsAway == <>[](at = Away) => <>[]~Home
=============================================================================
