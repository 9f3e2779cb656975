----------------------------- MODULE ClientRows -----------------------------
(***************************************************************************)
(* Which node holds a row for which client: custom_components/miwifi/      *)
(* updater.py.                                                             *)
(*                                                                         *)
(* Every updater has a table of client rows and a store that keeps it over *)
(* a restart.  A row is live when a router reported the client since the   *)
(* start, restored when only a store did.  Nodes write each other's        *)
(* tables: a report updates every other copy, drops the restored ones, the *)
(* main hands clients over to leaves, a restore gives a row back to the    *)
(* node that saw the client last, and a purge forgets it everywhere.       *)
(*                                                                         *)
(* Data abstracted: a row is its state and the entry id it names as its    *)
(* owner.  The set of purged clients is the one ClientSuppression          *)
(* specifies, which module PurgedClients implements.                       *)
(***************************************************************************)
EXTENDS FiniteSets

CONSTANTS
    Clients,    \* the MAC addresses of client devices
    Purged,     \* those among them that are ever purged
    Main,       \* the node whose device list names the node of every client
    Leaves,     \* the other nodes
    ForceSets,  \* which of the leaves may have force load
    NoNode,     \* no row: nobody owns it
    NoClient    \* no client is being added, or purged

ASSUME PurgedAreClients == Purged \subseteq Clients
ASSUME ForceSetsAreLeaves == ForceSets \subseteq SUBSET Leaves
ASSUME MainIsNoLeaf == Main \notin Leaves
ASSUME NoNodeIsNone == NoNode \notin Leaves \cup {Main}
ASSUME NoClientIsNone == NoClient \notin Clients

VARIABLES
    force,      \* the leaves with force load: they list, save and restore their clients
    up,         \* node -> out, first (in hass.data, first refresh not over) or ready
    row,        \* node -> client -> is there a row, and is it only restored
    owner,      \* node -> client -> the entry id the row names, NoNode without a row
    moved,      \* node -> _moved_devices
    job,        \* node -> where its refresh is
    queue,      \* the clients the main has routed and not yet pushed, and whether
                \* into an updater that is loaded or into one unloaded since
    store,      \* node -> the table on disk, as owners
    old,        \* node -> the table of its last unloaded updater
    owed,       \* the purged clients no router has confirmed since
    purge,      \* the purge under way
    blind,      \* <<n, m>>: the restore of n read the loaded entries before m was one
    missed,     \* history: <<n, m, c>>, n took a copy of c from a store while m, which
                \* the restore did not know, had a row, and both are still so
    late        \* history: <<node, client>>, the purge of the client took its
                \* updaters before the node had one, and marked it after that

vars == <<force, up, row, owner, moved, job, queue, store, old, owed, purge, blind,
          missed, late>>

Nodes == Leaves \cup {Main}
Tables == [Clients -> Nodes \cup {NoNode}]
Empty == [c \in Clients |-> NoNode]
Holds(t) == {c \in Clients : t[c] # NoNode}

Jobs == [at: {"idle", "add", "restore"}, mac: Clients \cup {NoClient},
         snap: Tables]
IdleJob == [at |-> "idle", mac |-> NoClient, snap |-> Empty]

\* todo says which updater objects the purge took from hass.data and has not
\* been through; an old one has been unloaded since.
Purges == [mac: Clients \cup {NoClient}, at: {"idle", "taken", "marked"},
           todo: [Nodes -> {"no", "live", "old"}]]
NoPurge == [mac |-> NoClient, at |-> "idle", todo |-> [n \in Nodes |-> "no"]]

Up(n) == up[n] # "out"
Routed(c) == \E q \in queue : q[2] = c
Savable(n) == n = Main \/ n \in force

\* The nodes whose restored copy of a client a report by n makes stale.
Stale(n, c) == {m \in Nodes \ {n} : Up(m) /\ row[m][c] = "restored"}

\* The restore of n goes by the entries that were loaded when it began.
Knows(n, m) == Up(m) /\ <<n, m>> \notin blind

StillMissed == {t \in missed : row'[t[1]][t[3]] = "restored" /\ row'[t[2]][t[3]] # "none"}

\* Another node has the client, live or restored.
HeldElsewhere(n, c) == \E m \in Nodes \ {n} : Knows(n, m) /\ row[m][c] # "none"

-----------------------------------------------------------------------------
Init ==
    /\ force \in ForceSets
    /\ up = [n \in Nodes |-> "out"]
    /\ row = [n \in Nodes |-> [c \in Clients |-> "none"]]
    /\ owner = [n \in Nodes |-> Empty]
    /\ moved = [n \in Nodes |-> {}]
    /\ job = [n \in Nodes |-> IdleJob]
    /\ queue = {}
    /\ store = [n \in Nodes |-> Empty]
    /\ old = [n \in Nodes |-> Empty]
    /\ owed = {}
    /\ purge = NoPurge
    /\ blind = {} /\ missed = {} /\ late = {}

(* Reports. *)

\* Mutant: a report leaves the restored copies of other nodes where they are.
AddRowKeepsStale(n, c) ==
    /\ row' = [row EXCEPT ![n][c] = "live"]
    /\ owner' = [owner EXCEPT ![n][c] = n]

\* add_device past the suppression: the row is this node's, and the copies
\* that other nodes only restored go.
AddRow(n, c) ==
    /\ row' = [m \in Nodes |->
                 [row[m] EXCEPT ![c] = IF m = n THEN "live"
                                       ELSE IF m \in Stale(n, c) THEN "none" ELSE @]]
    /\ owner' = [m \in Nodes |->
                   [owner[m] EXCEPT ![c] = IF m = n THEN n
                                           ELSE IF m \in Stale(n, c) THEN NoNode ELSE @]]

\* A client in the node's own list: _mass_update_device writes the row into
\* the copies of the other nodes, entry id included.  The list goes by the
\* entries that were loaded when it was read: those known of the nodes.
ListOwn(n, c) ==
    /\ Up(n) /\ job[n].at = "idle"
    /\ n = Main => ~Routed(c)
    /\ job' = [job EXCEPT ![n].at = "add", ![n].mac = c]
    /\ \E known \in SUBSET {m \in Nodes \ {n} : row[m][c] # "none"} :
          owner' = [m \in Nodes |-> [owner[m] EXCEPT ![c] = IF m \in known THEN n ELSE @]]
    /\ UNCHANGED <<force, up, row, moved, queue, store, old, owed, purge, blind, missed, late>>

\* ... and add_device adds it here, unless it is suppressed and the report
\* does not confirm it online.  A client with a move marker is not counted.
AddOwn(n, confirmed) ==
    LET c == job[n].mac
    IN  /\ job[n].at = "add" /\ (confirmed \/ c \in owed)
        /\ job' = [job EXCEPT ![n] = IdleJob]
        /\ IF c \in owed /\ ~confirmed
           THEN UNCHANGED <<row, owner, moved, owed>>
           ELSE /\ owed' = owed \ {c}
                /\ AddRow(n, c)
                /\ moved' = [m \in Nodes |-> IF m \in Stale(n, c) THEN moved[m] \ {c} ELSE moved[m]]
        /\ missed' = StillMissed
        /\ UNCHANGED <<force, up, queue, store, old, purge, blind, late>>

\* The main's list says that a client hangs on a leaf: its row here goes.
Route(c, l) ==
    /\ Up(Main) /\ Up(l) /\ job[Main].at = "idle" /\ ~Routed(c)
    /\ row' = [row EXCEPT ![Main][c] = "none"]
    /\ owner' = [owner EXCEPT ![Main][c] = NoNode]
    /\ moved' = IF row[Main][c] = "none" THEN moved ELSE [moved EXCEPT ![Main] = @ \ {c}]
    /\ queue' = queue \cup {<<l, c, "live">>}
    /\ missed' = StillMissed
    /\ UNCHANGED <<force, up, job, store, old, owed, purge, blind, late>>

\* The push: add_device of the leaf, from the parent.
Push(l, c, confirmed) ==
    /\ <<l, c, "live">> \in queue /\ (confirmed \/ c \in owed)
    /\ queue' = queue \ {<<l, c, "live">>}
    /\ IF c \in owed /\ ~confirmed
       THEN UNCHANGED <<row, owner, moved, owed>>
       ELSE /\ owed' = owed \ {c}
            /\ AddRow(l, c)
            /\ moved' = [m \in Nodes |-> IF m = l \/ m \in Stale(l, c) THEN moved[m] \ {c}
                                         ELSE moved[m]]
    /\ missed' = StillMissed
    /\ UNCHANGED <<force, up, job, store, old, purge, blind, late>>

\* The same into an updater that was unloaded after the main had taken it: the
\* row is nobody's, but the client is released and restored copies of it go.
PushLost(l, c, confirmed) ==
    /\ <<l, c, "old">> \in queue /\ (confirmed \/ c \in owed)
    /\ queue' = queue \ {<<l, c, "old">>}
    /\ IF c \in owed /\ ~confirmed
       THEN UNCHANGED <<row, owner, moved, old, owed>>
       ELSE /\ owed' = owed \ {c}
            /\ AddRow(NoNode, c)
            /\ moved' = [m \in Nodes |-> IF m \in Stale(NoNode, c) THEN moved[m] \ {c} ELSE moved[m]]
            /\ old' = IF Savable(l) THEN [old EXCEPT ![l][c] = l] ELSE old
    /\ missed' = StillMissed
    /\ UNCHANGED <<force, up, job, store, purge, blind, late>>

\* Mutant: the marker stays.
ExpireKeepsMarker(n, c) ==
    /\ Up(n) /\ job[n].at = "idle" /\ row[n][c] # "none"
    /\ row' = [row EXCEPT ![n][c] = "none"]
    /\ owner' = [owner EXCEPT ![n][c] = NoNode]
    /\ missed' = StillMissed
    /\ UNCHANGED <<force, up, moved, job, queue, store, old, owed, purge, blind, late>>

\* _clean_devices: no report for activity_days.
Expire(n, c) ==
    /\ Up(n) /\ job[n].at = "idle" /\ row[n][c] # "none"
    /\ row' = [row EXCEPT ![n][c] = "none"]
    /\ owner' = [owner EXCEPT ![n][c] = NoNode]
    /\ moved' = [moved EXCEPT ![n] = @ \ {c}]
    /\ missed' = StillMissed
    /\ UNCHANGED <<force, up, job, queue, store, old, owed, purge, blind, late>>

-----------------------------------------------------------------------------
(* Set up, restore, unload. *)

\* The restores under way go on without an updater that appears now.  Bound:
\* no updater is replaced while a restore that knows it is under way.
BlindTo(n) == {m \in Nodes \ {n} : Holds(job[m].snap) # {}} \X {n}
Unseen(n) == BlindTo(n) \subseteq blind
NotAbout(n) == {p \in blind : n \notin {p[1], p[2]}}

\* async_setup_entry: a new updater is in hass.data before its first refresh.
Register(n) ==
    /\ ~Up(n)
    /\ up' = [up EXCEPT ![n] = "first"]
    /\ blind' = blind \cup BlindTo(n)
    /\ late' = IF purge.at = "taken" THEN late \cup {<<n, purge.mac>>} ELSE late
    /\ UNCHANGED <<force, row, owner, moved, job, queue, store, old, owed, purge, missed>>

\* device_restore of the first refresh has read the store.
StartRestore(n) ==
    /\ up[n] = "first" /\ job[n].at = "idle"
    /\ n = Main => queue = {}
    /\ job' = [job EXCEPT ![n] = [at |-> "restore", mac |-> NoClient, snap |-> store[n]]]
    /\ UNCHANGED <<force, up, row, owner, moved, queue, store, old, owed, purge, blind, missed, late>>

\* Mutants: a row that another node holds is restored here as well; the
\* suppression is not asked.
RestorableHeld(n, c) ==
    /\ c \notin owed /\ row[n][c] = "none"
    /\ n \in force => job[n].snap[c] = n
RestorablePurged(n, c) ==
    /\ row[n][c] = "none"
    /\ ~HeldElsewhere(n, c)
    /\ n \in force => job[n].snap[c] = n

\* The stored row may come back: it is not suppressed, no node has it, and a
\* force-load node takes only its own.
Restorable(n, c) ==
    /\ c \notin owed /\ row[n][c] = "none"
    /\ ~HeldElsewhere(n, c)
    /\ n \in force => job[n].snap[c] = n

\* The node that saw the client last gets the row as well, if it is there and
\* does not restore its clients itself.
GivesBack(n, c) ==
    LET o == job[n].snap[c]
    IN  IF o # n /\ o # NoNode /\ Knows(n, o) /\ o \notin force THEN o ELSE NoNode

\* A force-load node that is there restores its clients itself.
LeftToOwner(n, c) ==
    LET o == job[n].snap[c] IN o # n /\ o # NoNode /\ Knows(n, o) /\ o \in force

\* The copies taken although a node that the restore does not know has a row.
Missed(n, o, c) ==
    {<<p, m, c>> : p \in {n, o} \ {NoNode},
                   m \in {q \in Nodes : <<n, q>> \in blind /\ row[q][c] # "none"}}

RestoreOne(n, c) ==
    /\ job[n].at = "restore" /\ c \in Holds(job[n].snap)
    /\ job' = [job EXCEPT ![n].snap[c] = NoNode]
    /\ IF Restorable(n, c) /\ ~LeftToOwner(n, c)
       THEN LET o == GivesBack(n, c)
            IN  /\ row' = [m \in Nodes |->
                             [row[m] EXCEPT ![c] = IF m \in {n, o} THEN "restored" ELSE @]]
                /\ owner' = [m \in Nodes |->
                               [owner[m] EXCEPT ![c] = IF m \notin {n, o} THEN @
                                                       ELSE IF o = NoNode THEN n ELSE o]]
                /\ moved' = IF o = NoNode THEN moved ELSE [moved EXCEPT ![n] = @ \cup {c}]
                /\ missed' = missed \cup Missed(n, o, c)
       ELSE UNCHANGED <<row, owner, moved, missed>>
    /\ blind' = {p \in blind : p[1] # n \/ Holds(job'[n].snap) # {}}
    /\ UNCHANGED <<force, up, queue, store, old, owed, purge, late>>

\* What follows the restore in the first refresh succeeds, and ends it.
EndRestore(n) ==
    /\ job[n].at = "restore" /\ Holds(job[n].snap) = {}
    /\ job' = [job EXCEPT ![n] = IdleJob]
    /\ up' = [up EXCEPT ![n] = "ready"]
    /\ UNCHANGED <<force, row, owner, moved, queue, store, old, owed, purge, blind, missed, late>>

\* _async_save_devices: a table is saved if it has a row and its node saves.
Saved(n, table, disk) == IF Savable(n) /\ Holds(table) # {} THEN table ELSE disk

\* The updater of n goes with all it has.
Dropped(n) ==
    /\ row' = [row EXCEPT ![n] = [c \in Clients |-> "none"]]
    /\ owner' = [owner EXCEPT ![n] = Empty]
    /\ moved' = [moved EXCEPT ![n] = {}]
    /\ missed' = StillMissed
    /\ queue' = {<<q[1], q[2], IF q[1] = n THEN "old" ELSE q[3]>> : q \in queue}

\* async_unload_entry, between two refreshes.  The listener for the stop of
\* Home Assistant still refers to the updater, which keeps its table.
Unload(n) ==
    /\ up[n] = "ready" /\ job[n].at = "idle" /\ Unseen(n)
    /\ n = Main => queue = {}
    /\ up' = [up EXCEPT ![n] = "out"]
    /\ blind' = NotAbout(n)
    /\ store' = [store EXCEPT ![n] = Saved(n, owner[n], @)]
    /\ old' = [old EXCEPT ![n] = IF Savable(n) THEN owner[n] ELSE @]
    /\ purge' = [purge EXCEPT !.todo[n] = IF @ = "live" THEN "old" ELSE @]
    /\ late' = {q \in late : q[1] # n}
    /\ Dropped(n)
    /\ UNCHANGED <<force, job, owed>>

\* A first refresh has failed.  Its updater stayed in hass.data, with its rows,
\* until the next attempt to set up the entry puts a new one in its place.
SetupRetried(n) ==
    /\ up[n] = "first" /\ job[n].at \in {"idle", "restore"} /\ Holds(job[n].snap) = {}
    /\ n = Main => queue = {}
    /\ Unseen(n)
    /\ blind' = NotAbout(n) \cup BlindTo(n)
    /\ purge' = [purge EXCEPT !.todo[n] = "no"]
    /\ late' = {q \in late : q[1] # n}
                  \cup (IF purge.at = "taken" THEN {<<n, purge.mac>>} ELSE {})
    /\ job' = [job EXCEPT ![n] = IdleJob]
    /\ Dropped(n)
    /\ UNCHANGED <<force, up, store, old, owed>>

\* Home Assistant stops: every updater that was ever set up saves its table,
\* the unloaded ones too, in any order; or it dies and nothing is saved.
Restart ==
    /\ \/ \E fromOld \in SUBSET {n \in Nodes : Holds(old[n]) # {}} :
             store' = [n \in Nodes |->
                         Saved(n, IF n \in fromOld THEN old[n]
                                  ELSE IF up[n] = "ready" THEN owner[n] ELSE Empty, store[n])]
       \/ UNCHANGED store
    /\ up' = [n \in Nodes |-> "out"]
    /\ row' = [n \in Nodes |-> [c \in Clients |-> "none"]]
    /\ owner' = [n \in Nodes |-> Empty]
    /\ moved' = [n \in Nodes |-> {}]
    /\ job' = [n \in Nodes |-> IdleJob]
    /\ queue' = {} /\ blind' = {} /\ missed' = {} /\ late' = {}
    /\ old' = [n \in Nodes |-> Empty]
    /\ purge' = NoPurge
    /\ UNCHANGED <<force, owed>>

-----------------------------------------------------------------------------
(* A purge. *)

\* The service takes the updaters there are when it is called.
TakeUpdaters(c) ==
    /\ purge.at = "idle"
    /\ purge' = [NoPurge EXCEPT !.mac = c, !.at = "taken",
                                !.todo = [n \in Nodes |-> IF Up(n) THEN "live" ELSE "no"]]
    /\ late' = {q \in late : q[2] # c}
    /\ UNCHANGED <<force, up, row, owner, moved, job, queue, store, old, owed, blind, missed>>

\* async_mark has returned.
Mark ==
    /\ purge.at = "taken"
    /\ purge' = [purge EXCEPT !.at = "marked"]
    /\ owed' = owed \cup {purge.mac}
    /\ UNCHANGED <<force, up, row, owner, moved, job, queue, store, old, blind, missed, late>>

\* async_purge_clients of one updater: its table and its store forget the
\* client.  The store is read and written back in two steps; no save that
\* could come between them knows more of this client than the rows do.
ForgetClient(n) ==
    LET c == purge.mac
    IN  /\ purge.at = "marked" /\ purge.todo[n] # "no"
        /\ IF purge.todo[n] = "live"
           THEN /\ row' = [row EXCEPT ![n][c] = "none"]
                /\ owner' = [owner EXCEPT ![n][c] = NoNode]
                /\ moved' = [moved EXCEPT ![n] = @ \ {c}]
                /\ UNCHANGED old
           ELSE /\ old' = [old EXCEPT ![n][c] = NoNode]
                /\ UNCHANGED <<row, owner, moved>>
        /\ store' = [store EXCEPT ![n][c] = NoNode]
        /\ purge' = [purge EXCEPT !.todo[n] = "no"]
        /\ missed' = StillMissed
        /\ UNCHANGED <<force, up, job, queue, owed, blind, late>>

EndPurge ==
    /\ purge.at = "marked"
    /\ \A n \in Nodes : purge.todo[n] = "no"
    /\ purge' = NoPurge
    /\ UNCHANGED <<force, up, row, owner, moved, job, queue, store, old, owed, blind, missed, late>>

Next ==
    \/ \E n \in Nodes :
          \/ Register(n) \/ StartRestore(n) \/ EndRestore(n)
          \/ Unload(n) \/ SetupRetried(n) \/ ForgetClient(n)
          \/ \E c \in Clients : ListOwn(n, c) \/ RestoreOne(n, c) \/ Expire(n, c)
          \/ \E confirmed \in BOOLEAN : AddOwn(n, confirmed)
    \/ \E c \in Clients, l \in Leaves :
          \/ Route(c, l)
          \/ \E confirmed \in BOOLEAN : Push(l, c, confirmed) \/ PushLost(l, c, confirmed)
    \/ \E c \in Purged : TakeUpdaters(c)
    \/ Mark \/ EndPurge \/ Restart

Spec == Init /\ [][Next]_vars

-----------------------------------------------------------------------------
(* Properties. *)

\* Type invariant: a row names an owner, and only a row does; a move marker never
\* outlives its row, or a client that comes back to a node that has forgotten it
\* would not be counted.
TypeOK ==
    /\ force \subseteq Leaves
    /\ up \in [Nodes -> {"out", "first", "ready"}]
    /\ row \in [Nodes -> [Clients -> {"none", "live", "restored"}]]
    /\ owner \in [Nodes -> Tables]
    /\ moved \in [Nodes -> SUBSET Clients]
    /\ job \in [Nodes -> Jobs]
    /\ queue \subseteq Leaves \X Clients \X {"live", "old"}
    /\ store \in [Nodes -> Tables] /\ old \in [Nodes -> Tables]
    /\ owed \subseteq Clients
    /\ purge \in Purges
    /\ blind \subseteq Nodes \X Nodes /\ missed \subseteq Nodes \X Nodes \X Clients
    /\ late \subseteq Nodes \X Clients
    /\ \A n \in Nodes, c \in Clients : row[n][c] = "none" <=> owner[n][c] = NoNode
    /\ \A n \in Nodes : \A c \in moved[n] : row[n][c] # "none"

\* While a node reports a client, no other node keeps a copy that only its
\* store held, whichever was first and however restores, pushes and reloads
\* interleave: such a copy keeps the tracker away from the live row.  The one
\* exception is a copy taken by a restore that began before the node was set
\* up, and it ends with the node's next report.
NoStaleCopy ==
    \A n, m \in Nodes, c \in Clients :
        row[n][c] = "live" => row[m][c] # "restored" \/ <<m, n, c>> \in missed

\* A client in several stores is restored once.  Two nodes hold a restored
\* row only where one gave it back to the other and marked it as moved, or
\* where a restore began before the other was set up.
RestoredOnce ==
    \A n, m \in Nodes, c \in Clients :
        n # m /\ row[n][c] = "restored" /\ row[m][c] = "restored"
            => c \in moved[n] \cup moved[m] \/ {<<n, m, c>>, <<m, n, c>>} \cap missed # {}

\* A purged client stays out of every table until a router confirms it: once
\* the purge has been through a node it has no row, over reports that do not
\* confirm it, pushes that were queued, reloads, crashes half-way through the
\* purge, and the stores that unloaded updaters write back.
PurgedHasNoRow ==
    \A n \in Nodes : \A c \in owed :
        row[n][c] # "none" =>
            (purge.mac = c /\ purge.todo[n] = "live") \/ <<n, c>> \in late
=============================================================================
