----------------------------- MODULE MeshCensus -----------------------------
(***************************************************************************)
(* The client counters of a mesh: custom_components/miwifi/updater.py.     *)
(*                                                                         *)
(* Each configured router (node) is polled by its own LuciUpdater.  All    *)
(* updaters live in one asyncio thread, so code between two awaits is      *)
(* atomic and an action of this module is one such stretch of one node's   *)
(* refresh.  The main router lists every client of the mesh and names the  *)
(* node each one hangs on; its refresh pushes a leaf's clients into the    *)
(* leaf's updater while the leaf's own refresh may be anywhere.  Both      *)
(* write the same counters.                                                *)
(*                                                                         *)
(* Data abstracted: the seven counters become two, the total and the sum   *)
(* of the per-connection ones (split); time becomes the expiry of a        *)
(* census; a device record is its presence in the node's table.            *)
(***************************************************************************)
EXTENDS Integers, FiniteSets

CONSTANTS
    Clients,    \* the MAC addresses of client devices
    Main,       \* the router whose device list covers the whole mesh
    Leaves,     \* the other configured nodes: repeaters and mesh leaves
    NoLeaf      \* no leaf is being pushed to

ASSUME ClientsFinite == IsFiniteSet(Clients)
ASSUME MainIsNoLeaf == Main \notin Leaves
ASSUME NoLeafIsNone == NoLeaf \notin Leaves

VARIABLES
    kind,    \* leaf -> what its options and firmware make of it; never changes
    loaded,  \* the leaves set up in Home Assistant whose own MAC is known
    graph,   \* leaf -> "onlines" in the main's topology graph, NotListed if absent
    ctr,     \* node -> its counters and the flags that guard them
    job,     \* node -> where its refresh is and what it still has to do
    pushed,  \* history: leaf -> the clients of the last push into it
    alone,   \* history: leaf -> no refresh of it began during that push
    partial, \* history: leaf -> all it holds is what a push that was given up has counted
    clean    \* history: node -> nobody else wrote its counters since its refresh began

vars == <<kind, loaded, graph, ctr, job, pushed, alone, partial, clean>>

Nodes == Leaves \cup {Main}
NotListed == -1

\* silent: repeater without force load whose device list shows no client of its own
\* listing: the same, but its device list shows the clients associated with it
\* selfcount: force load, counts its clients with new_status
\* iot: force load on a firmware with dedicated IoT Wi-Fi, counted by pushes only
Kinds == {"silent", "listing", "selfcount", "iot"}

Counters == [total: Nat, split: Nat, reset: BOOLEAN, pending: BOOLEAN,
             census: {"none", "fresh", "stale"}, src: {"none", "live", "old"}]
FreshCounters == [total |-> 0, split |-> 0, reset |-> FALSE, pending |-> FALSE,
                  census |-> "none", src |-> "none"]

Stages == {"idle", "begin", "list", "route", "push", "status", "topo"}
Jobs == [at: Stages, todo: SUBSET Clients, home: [Clients -> Nodes],
         mine: SUBSET Clients,
         queue: SUBSET (Leaves \X Clients), target: Leaves \cup {NoLeaf},
         routable: SUBSET Leaves, served: SUBSET Leaves]
WithoutLeaf(j, l) ==
    [j EXCEPT !.queue = {q \in @ : q[1] # l}, !.routable = @ \ {l}, !.served = @ \ {l},
              !.target = IF @ = l THEN NoLeaf ELSE @]
IdleJob(n) == [at |-> "idle", todo |-> {}, home |-> [c \in Clients |-> n],
            mine |-> {}, queue |-> {}, target |-> NoLeaf,
            routable |-> {}, served |-> {}]

-----------------------------------------------------------------------------
(* What kind of node this is. *)

ForceLoad(n) == n \in Leaves /\ kind[n] \in {"selfcount", "iot"}
PushedByParent(n) == n \in Leaves /\ ~ForceLoad(n)
CountsOwnClients(n) == n \in Leaves /\ kind[n] = "selfcount"

\* How many clients a router may answer that it has.
Counts == 0..Cardinality(Clients)

(* The counters. *)

Cleared(k) == [k EXCEPT !.total = 0, !.split = 0, !.reset = TRUE, !.census = "none"]
Counted(k) == [k EXCEPT !.total = @ + 1, !.split = @ + 1]

\* Mutant: the reset at the start of a refresh spares nobody.
CycleResetAll(n, k) == Cleared(k)

\* reset_counter() without force leaves a node alone whose parent pushes.
CycleReset(n, k) == IF n \in Leaves THEN k ELSE Cleared(k)

\* Mutant: only the hand-over after a push clears, not the first own client.
OwnCountedNoReset(n, k) ==
    IF ForceLoad(n) THEN k
    ELSE IF k.pending THEN Counted([Cleared(k) EXCEPT !.pending = FALSE])
         ELSE Counted(k)

\* A node's first client of the cycle that it counts for itself clears the
\* counters when the parent filled them, or when nothing cleared them yet.
OwnCounted(n, k) ==
    IF ForceLoad(n) THEN k
    ELSE IF k.pending \/ (PushedByParent(n) /\ ~k.reset)
         THEN Counted([Cleared(k) EXCEPT !.pending = FALSE])
         ELSE Counted(k)

\* A client the parent pushes: a leaf that counts its own does not count it.
PushCounted(n, k) == IF CountsOwnClients(n) THEN k ELSE Counted(k)

\* Mutants: a push that adds to the last one, and one that clears every leaf.
PushClearedNever(n, k) ==
    IF CountsOwnClients(n) THEN k ELSE [k EXCEPT !.pending = TRUE]
PushClearedAll(n, k) == Cleared([k EXCEPT !.pending = TRUE])

\* A push starts by clearing what the leaf has.
PushCleared(n, k) ==
    IF CountsOwnClients(n) THEN k ELSE Cleared([k EXCEPT !.pending = TRUE])

HasRecentCensus(k) == k.census = "fresh" /\ k.src = "live"

-----------------------------------------------------------------------------
Init ==
    /\ kind \in [Leaves -> Kinds]
    /\ loaded = {}
    /\ graph = [l \in Leaves |-> NotListed]
    /\ ctr = [n \in Nodes |-> FreshCounters]
    /\ job = [n \in Nodes |-> IdleJob(n)]
    /\ pushed = [l \in Leaves |-> {}]
    /\ alone = [l \in Leaves |-> TRUE]
    /\ partial = [l \in Leaves |-> FALSE]
    /\ clean = [n \in Nodes |-> TRUE]

(* The refresh of one node. *)

\* _async_update starts: the flag of the previous cycle goes.
BeginCycle(n) ==
    /\ n \in loaded \cup {Main}
    /\ job[n].at = "idle"
    /\ job' = [job EXCEPT ![n].at = "begin"]
    /\ ctr' = [ctr EXCEPT ![n].reset = FALSE]
    /\ clean' = [clean EXCEPT ![n] = job[Main].target # n]
    /\ alone' = [l \in Leaves |-> alone[l] /\ ~(l = n /\ job[Main].target = l)]
    /\ UNCHANGED <<kind, loaded, graph, pushed, partial>>

\* _async_prepare_devices: the reset comes before its first request.
PrepareDevices(n) ==
    /\ job[n].at = "begin"
    /\ job' = [job EXCEPT ![n].at = "list"]
    /\ ctr' = [ctr EXCEPT ![n] = CycleReset(n, @)]
    /\ UNCHANGED <<kind, loaded, graph, pushed, alone, clean, partial>>

\* A required request fails, before the reset or after it: the rest of the
\* PREPARE_METHODS is given up, the topology is still read.
RequestFails(n) ==
    /\ job[n].at \in {"begin", "list"}
    /\ job' = [job EXCEPT ![n].at = "topo"]
    /\ UNCHANGED <<kind, loaded, graph, ctr, pushed, alone, clean, partial>>

\* device_list itself may fail alone: only the census is skipped.
DeviceListFails(n) ==
    /\ job[n].at = "list"
    /\ job' = [job EXCEPT ![n].at = "status"]
    /\ UNCHANGED <<kind, loaded, graph, ctr, pushed, alone, clean, partial>>

\* The answer is a snapshot: which clients have an active address, and which
\* node each hangs on.  Clients come, go and roam between any two answers, so
\* it is any subset of them; a client whose parent is not a loaded leaf is the
\* main's, and only the main's list names parents.
ReadDeviceList(n) ==
    /\ job[n].at = "list"
    /\ \E listed \in SUBSET Clients, home \in [Clients -> (loaded \ {n}) \cup {n}] :
          /\ n # Main => \A c \in Clients : home[c] = n
          /\ \A c \in Clients \ listed : home[c] = n
          /\ n # Main /\ kind[n] = "silent" => listed = {}
          /\ job' = [job EXCEPT ![n] =
                        [@ EXCEPT !.at = "route", !.todo = listed, !.home = home,
                                  !.mine = {c \in listed : home[c] = n},
                                  !.routable = IF n = Main THEN loaded ELSE {}]]
    /\ UNCHANGED <<kind, loaded, graph, ctr, pushed, alone, clean, partial>>

\* A client of a loaded leaf: its row here goes, it waits for the push.
RouteToLeaf(n, c) ==
    /\ job[n].at = "route"
    /\ c \in job[n].todo /\ job[n].home[c] # n
    /\ job' = [job EXCEPT ![n].todo = @ \ {c},
                          ![n].queue = @ \cup {<<job[n].home[c], c>>},
                          ![n].home[c] = n]
    /\ UNCHANGED <<kind, loaded, graph, ctr, pushed, alone, clean, partial>>

\* A client of this node.  add_device yields before it counts: it waits for
\* the lock of the purged clients, and a new client is announced first.
AddOwn(n, c) ==
    /\ job[n].at = "route"
    /\ c \in job[n].todo /\ job[n].home[c] = n
    /\ job' = [job EXCEPT ![n].todo = @ \ {c}]
    /\ ctr' = [ctr EXCEPT ![n] = OwnCounted(n, @)]
    /\ UNCHANGED <<kind, loaded, graph, pushed, alone, clean, partial>>

\* No client of its own, and no node lists this one as a leaf: zero it.
NobodyCounts(n) ==
    /\ PushedByParent(n)
    /\ ~ctr[n].reset /\ ~ctr[n].pending
    /\ graph[n] = NotListed

EndRouting(n) ==
    /\ job[n].at = "route" /\ job[n].todo = {}
    /\ job' = [job EXCEPT ![n].at = "push"]
    /\ ctr' = IF NobodyCounts(n) THEN [ctr EXCEPT ![n] = Cleared(@)] ELSE ctr
    /\ partial' = [l \in Leaves |-> partial[l] /\ ~(l = n /\ NobodyCounts(n))]
    /\ UNCHANGED <<kind, loaded, graph, pushed, alone, clean>>

(* The main's push into its leaves. *)

StartPush(n, l) ==
    /\ job[n].at = "push" /\ job[n].target = NoLeaf
    /\ \E c \in Clients : <<l, c>> \in job[n].queue
    /\ job' = [job EXCEPT ![n].target = l, ![n].served = @ \cup {l}]
    /\ ctr' = [ctr EXCEPT ![l] = PushCleared(l, @)]
    /\ pushed' = [pushed EXCEPT ![l] = {}]
    /\ alone' = [alone EXCEPT ![l] = TRUE]
    /\ partial' = [partial EXCEPT ![l] = FALSE]
    /\ clean' = [clean EXCEPT ![l] = FALSE]
    /\ UNCHANGED <<kind, loaded, graph>>

PushClient(n, c) ==
    LET l == job[n].target
    IN  /\ l # NoLeaf /\ <<l, c>> \in job[n].queue
        /\ job' = [job EXCEPT ![n].queue = @ \ {<<l, c>>}]
        /\ ctr' = [ctr EXCEPT ![l] = PushCounted(l, @)]
        /\ pushed' = [pushed EXCEPT ![l] = @ \cup {c}]
        /\ UNCHANGED <<kind, loaded, graph, alone, clean, partial>>

\* The finished push is stamped as the leaf's census.
StampCensus(n) ==
    LET l == job[n].target
    IN  /\ l # NoLeaf
        /\ \A c \in Clients : <<l, c>> \notin job[n].queue
        /\ job' = [job EXCEPT ![n].target = NoLeaf]
        /\ ctr' = [ctr EXCEPT ![l].census = "fresh", ![l].src = "live"]
        /\ UNCHANGED <<kind, loaded, graph, pushed, alone, clean, partial>>

\* An error that nothing catches, as when add_device cannot save the purged
\* clients, or a cancellation by a reload ends the refresh at an await, and with
\* it the push: without a stamp.  After its last client a push does not yield.
GiveUp(n) ==
    LET l == job[n].target
    IN  /\ job[n].at # "idle"
        /\ l # NoLeaf => \E c \in Clients : <<l, c>> \in job[n].queue
        /\ job' = [job EXCEPT ![n] = IdleJob(n)]
        /\ partial' = [m \in Leaves |->
                         partial[m] \/ (m = l /\ kind[m] \in {"silent", "iot"})]
        /\ UNCHANGED <<kind, loaded, graph, ctr, pushed, alone, clean>>

\* Mutant: the push must come from this very updater, not from its address.
VacatedSameUpdater(n, l) ==
    /\ l \in job[n].routable \ job[n].served
    /\ ctr[l].census # "none" /\ ctr[l].src = "live"
    /\ ~CountsOwnClients(l)

\* A leaf that holds an earlier push and gets no client from this census.
Vacated(n, l) ==
    /\ l \in job[n].routable \ job[n].served
    /\ ctr[l].census # "none" /\ ctr[l].src # "none"
    /\ ~CountsOwnClients(l)

EndCensus(n) ==
    /\ job[n].at = "push" /\ job[n].target = NoLeaf /\ job[n].queue = {}
    /\ job' = [job EXCEPT ![n].at = "status"]
    /\ ctr' = [m \in Nodes |-> IF m \in Leaves /\ Vacated(n, m) THEN Cleared(ctr[m]) ELSE ctr[m]]
    /\ pushed' = [l \in Leaves |-> IF Vacated(n, l) THEN {} ELSE pushed[l]]
    /\ clean' = [m \in Nodes |-> clean[m] /\ ~(m \in Leaves /\ Vacated(n, m))]
    /\ UNCHANGED <<kind, loaded, graph, alone, partial>>

\* new_status: only a force-load node without dedicated IoT Wi-Fi asks it,
\* and a failed request keeps the old counters.
NewStatus(n) ==
    /\ job[n].at = "status"
    /\ job' = [job EXCEPT ![n] = [IdleJob(n) EXCEPT !.at = "topo"]]
    /\ \/ /\ CountsOwnClients(n)
          /\ \E k \in Counts : ctr' = [ctr EXCEPT ![n].total = k, ![n].split = k]
       \/ UNCHANGED ctr
    /\ UNCHANGED <<kind, loaded, graph, pushed, alone, clean, partial>>

\* The main reads the graph, which lists any of the leaves with any count; it
\* replaces it by an empty one, that lists none, when the request fails.
FinishMain ==
    /\ job[Main].at = "topo"
    /\ graph' \in [Leaves -> Counts \cup {NotListed}]
    /\ job' = [job EXCEPT ![Main] = IdleJob(Main)]
    /\ UNCHANGED <<kind, loaded, ctr, pushed, alone, clean, partial>>

\* Mutants: the topology overrides a recent push; a leaf that the graph does
\* not list takes the missing count.
LeafCountNoCensus(l, k) ==
    IF k.reset \/ graph[l] = NotListed THEN k ELSE [k EXCEPT !.total = graph[l]]
LeafCountUnlisted(l, k) ==
    IF k.reset \/ HasRecentCensus(k) THEN k ELSE [k EXCEPT !.total = graph[l]]

\* _async_apply_leaf_client_count: the topology counts for a leaf that was
\* neither counted nor pushed to lately.
LeafCount(l, k) ==
    IF k.reset \/ HasRecentCensus(k) \/ graph[l] = NotListed THEN k
    ELSE [k EXCEPT !.total = graph[l]]

FinishLeaf(l) ==
    /\ job[l].at = "topo"
    /\ ctr' = [ctr EXCEPT ![l] = [LeafCount(l, @) EXCEPT !.pending = FALSE]]
    /\ job' = [job EXCEPT ![l] = IdleJob(l)]
    /\ UNCHANGED <<kind, loaded, graph, pushed, alone, clean, partial>>

-----------------------------------------------------------------------------
(* What surrounds the refreshes. *)

\* _has_recent_parent_census: the time to live of the census runs out.
CensusExpires(l) ==
    /\ ctr[l].census = "fresh"
    /\ ctr' = [ctr EXCEPT ![l].census = "stale"]
    /\ UNCHANGED <<kind, loaded, graph, job, pushed, alone, clean, partial>>

\* async_setup_entry made a new LuciUpdater and its init request has answered.
LoadLeaf(l) ==
    /\ l \notin loaded
    /\ loaded' = loaded \cup {l}
    /\ UNCHANGED <<kind, graph, ctr, job, pushed, alone, clean, partial>>

\* async_unload_entry drops the updater, whose refresh has ended or is given up;
\* a push that is under way goes on into an object nobody reads any more.
UnloadLeaf(l) ==
    /\ l \in loaded /\ job[l].at = "idle"
    /\ loaded' = loaded \ {l}
    /\ ctr' = [ctr EXCEPT ![l] = FreshCounters]
    /\ pushed' = [pushed EXCEPT ![l] = {}]
    /\ partial' = [partial EXCEPT ![l] = FALSE]
    /\ clean' = [clean EXCEPT ![l] = TRUE]
    /\ job' = [job EXCEPT ![Main] = WithoutLeaf(@, l)]
    /\ UNCHANGED <<kind, graph, alone>>

\* The main's entry is reloaded, and its refresh has ended or is given up: its
\* graph goes with it, and the leaves' censuses name an updater that is no
\* longer loaded.
ReloadMain ==
    /\ job[Main].at = "idle"
    /\ graph' = [l \in Leaves |-> NotListed]
    /\ ctr' = [n \in Nodes |->
                 IF n = Main THEN FreshCounters
                 ELSE [ctr[n] EXCEPT !.src = IF @ = "live" THEN "old" ELSE @]]
    /\ UNCHANGED <<kind, loaded, job, pushed, alone, clean, partial>>

Refresh(n) ==
    \/ BeginCycle(n) \/ PrepareDevices(n) \/ RequestFails(n) \/ DeviceListFails(n)
    \/ ReadDeviceList(n) \/ EndRouting(n)
    \/ StampCensus(n) \/ EndCensus(n) \/ NewStatus(n) \/ GiveUp(n)
    \/ \E c \in Clients : RouteToLeaf(n, c) \/ AddOwn(n, c) \/ PushClient(n, c)
    \/ \E l \in Leaves : StartPush(n, l)

Next ==
    \/ \E n \in Nodes : Refresh(n)
    \/ FinishMain \/ ReloadMain
    \/ \E l \in Leaves : FinishLeaf(l) \/ CensusExpires(l) \/ LoadLeaf(l) \/ UnloadLeaf(l)

Spec == Init /\ [][Next]_vars

-----------------------------------------------------------------------------
(* Properties. *)

\* Type invariant of the updaters' counters, jobs and graph: a count is never
\* negative, whatever the graph lists or leaves out.
TypeOK ==
    /\ kind \in [Leaves -> Kinds]
    /\ loaded \subseteq Leaves
    /\ graph \in [Leaves -> Counts \cup {NotListed}]
    /\ ctr \in [Nodes -> Counters]
    /\ job \in [Nodes -> Jobs]
    /\ pushed \in [Leaves -> SUBSET Clients]
    /\ alone \in [Leaves -> BOOLEAN]
    /\ partial \in [Leaves -> BOOLEAN]
    /\ clean \in [Nodes -> BOOLEAN]

Quiet(l) == l # job[Main].target

\* A leaf the parent counts for shows, in its split counters, exactly the
\* clients of the last push for as long as it remembers that push: neither
\* its own refreshes, nor a failed request, nor a reload of the main, nor the
\* push before changes what it shows (_counters_pushed_by_parent, reset_counter).
PushIsKept ==
    \A l \in Leaves :
        kind[l] \in {"silent", "iot"} /\ Quiet(l) /\ alone[l] /\ ctr[l].census # "none"
            => ctr[l].split = Cardinality(pushed[l])

\* While that census is recent, the total agrees with it: the topology count
\* never overrides it (_async_apply_leaf_client_count).
RecentCensusRules ==
    \A l \in Leaves :
        kind[l] \in {"silent", "iot"} /\ Quiet(l) /\ alone[l] /\ HasRecentCensus(ctr[l])
            => ctr[l].total = Cardinality(pushed[l])

\* After a census that routed no client to a leaf, its split counters are zero,
\* even if the push they held came from before a reload of the main: they do
\* not outlive the last client (parent_census_empty).  Excepted is a leaf whose last push
\* was given up half-way: it has no stamp by which to find it, and holds no more
\* than the clients that push had counted.
VacatedLeafIsZero ==
    job[Main].at = "status" =>
        \A l \in job[Main].routable \ job[Main].served :
            kind[l] \in {"silent", "iot"} =>
                IF partial[l] THEN ctr[l].split <= Cardinality(pushed[l])
                ELSE ctr[l].split = 0

\* When a node finishes the census of its own clients and nobody else wrote
\* its counters meanwhile, they count each listed client once, whatever the
\* counters held before: an earlier push, an earlier cycle or nothing.
OwnCensusExact ==
    \A n \in Nodes :
        /\ job[n].at \in {"push", "status"} /\ job[n].mine # {}
        /\ n = Main \/ kind[n] = "listing"
        /\ clean[n]
        => /\ ctr[n].total = Cardinality(job[n].mine)
           /\ ctr[n].split = Cardinality(job[n].mine)

\* A leaf that counts its own clients is never blanked or recounted by the
\* main: its split changes only in its own new_status (_counts_own_clients).
SelfCountIsOwn ==
    [][\A l \in Leaves :
         kind[l] = "selfcount" /\ ctr'[l].split # ctr[l].split
             => job[l].at = "status" \/ l \notin loaded']_vars

\* While the main's graph lists a leaf, none of the leaf's own steps, from the
\* reset of the counters to the topology count, touches the split counters
\* that the main pushed in (the comment at updater.py:2231).
ListedLeafKeepsPush ==
    [][\A l \in Leaves :
         kind[l] \in {"silent", "iot"} /\ graph[l] # NotListed /\ job'[l] # job[l]
             => ctr'[l].split = ctr[l].split]_vars
=============================================================================
