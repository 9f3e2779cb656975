------------------------- MODULE MeshCensus_proofs -------------------------
(***************************************************************************)
(* Proofs about MeshCensus, for every set of clients and of leaves.        *)
(***************************************************************************)
EXTENDS MeshCensus, FiniteSetTheorems, TLAPS

LEMMA CountsAreNat == Counts \subseteq Nat /\ Cardinality(Clients) \in Nat
BY ClientsFinite, FS_CardinalityType DEF Counts

\* What an assignment to a field keeps.
LEMMA JobFields ==
  ASSUME NEW j \in Jobs
  PROVE  /\ \A s \in Stages : [j EXCEPT !.at = s] \in Jobs
         /\ \A t \in SUBSET Clients : [j EXCEPT !.todo = t] \in Jobs
         /\ \A h \in [Clients -> Nodes] : [j EXCEPT !.home = h] \in Jobs
         /\ \A m \in SUBSET Clients : [j EXCEPT !.mine = m] \in Jobs
         /\ \A q \in SUBSET (Leaves \X Clients) : [j EXCEPT !.queue = q] \in Jobs
         /\ \A l \in Leaves \cup {NoLeaf} : [j EXCEPT !.target = l] \in Jobs
         /\ \A r \in SUBSET Leaves : [j EXCEPT !.routable = r] \in Jobs
         /\ \A r \in SUBSET Leaves : [j EXCEPT !.served = r] \in Jobs
         /\ j.todo \subseteq Clients /\ j.home \in [Clients -> Nodes]
         /\ j.queue \subseteq Leaves \X Clients /\ j.target \in Leaves \cup {NoLeaf}
         /\ j.routable \subseteq Leaves /\ j.served \subseteq Leaves
BY DEF Jobs

\* What a read device list, the start of a push and the unloading of a leaf
\* make of a job.
LEMMA ReadJobType ==
  ASSUME NEW j \in Jobs, NEW t \in SUBSET Clients, NEW m \in SUBSET Clients,
         NEW h \in [Clients -> Nodes], NEW r \in SUBSET Leaves
  PROVE  [j EXCEPT !.at = "route", !.todo = t, !.home = h, !.mine = m, !.routable = r] \in Jobs
BY DEF Jobs, Stages

LEMMA PushJobType ==
  ASSUME NEW j \in Jobs, NEW l \in Leaves
  PROVE  [j EXCEPT !.target = l, !.served = @ \cup {l}] \in Jobs
BY DEF Jobs

LEMMA WithoutLeafType ==
  ASSUME NEW j \in Jobs, NEW l \in Leaves
  PROVE  WithoutLeaf(j, l) \in Jobs
<1>1. /\ {q \in j.queue : q[1] # l} \subseteq Leaves \X Clients
      /\ j.routable \ {l} \subseteq Leaves /\ j.served \ {l} \subseteq Leaves
      /\ (IF j.target = l THEN NoLeaf ELSE j.target) \in Leaves \cup {NoLeaf}
  BY JobFields
<1> QED
  BY <1>1 DEF WithoutLeaf, Jobs

LEMMA CounterFields ==
  ASSUME NEW k \in Counters
  PROVE  /\ \A x \in Nat : [k EXCEPT !.total = x] \in Counters
         /\ \A x \in Nat : [k EXCEPT !.split = x] \in Counters
         /\ \A b \in BOOLEAN : [k EXCEPT !.reset = b] \in Counters
         /\ \A b \in BOOLEAN : [k EXCEPT !.pending = b] \in Counters
         /\ \A v \in {"none", "fresh", "stale"} : [k EXCEPT !.census = v] \in Counters
         /\ \A v \in {"none", "live", "old"} : [k EXCEPT !.src = v] \in Counters
         /\ k.total \in Nat /\ k.split \in Nat
         /\ k.src \in {"none", "live", "old"}
BY DEF Counters

LEMMA FreshTypes ==
  /\ \A n \in Nodes : IdleJob(n) \in Jobs
  /\ FreshCounters \in Counters
BY DEF IdleJob, Jobs, Stages, Nodes, FreshCounters, Counters

LEMMA CounterTypes ==
  ASSUME NEW k \in Counters, NEW n
  PROVE  /\ Cleared(k) \in Counters
         /\ Counted(k) \in Counters
         /\ CycleReset(n, k) \in Counters
         /\ OwnCounted(n, k) \in Counters
         /\ PushCounted(n, k) \in Counters
         /\ PushCleared(n, k) \in Counters
<1>1. \A x \in Counters : Cleared(x) \in Counters /\ Counted(x) \in Counters
  <2> TAKE x \in Counters
  <2>1. x.total + 1 \in Nat /\ x.split + 1 \in Nat
    BY DEF Counters
  <2>2. [x EXCEPT !.total = @ + 1, !.split = @ + 1] \in Counters
    BY <2>1 DEF Counters
  <2>3. [x EXCEPT !.total = 0, !.split = 0, !.reset = TRUE, !.census = "none"] \in Counters
    BY DEF Counters
  <2> QED
    BY <2>2, <2>3 DEF Cleared, Counted
<1>2. [k EXCEPT !.pending = TRUE] \in Counters
  BY CounterFields
<1>3. [Cleared(k) EXCEPT !.pending = FALSE] \in Counters
  BY <1>1, CounterFields
<1>4. CycleReset(n, k) \in Counters /\ PushCounted(n, k) \in Counters
  BY <1>1 DEF CycleReset, PushCounted
<1>5. OwnCounted(n, k) \in Counters
  BY <1>1, <1>3 DEF OwnCounted
<1>6. PushCleared(n, k) \in Counters
  BY <1>1, <1>2 DEF PushCleared
<1> QED
  BY <1>1, <1>4, <1>5, <1>6

LEMMA TypeInit == Init => TypeOK
BY FreshTypes DEF Init, TypeOK

LEMMA TypeStep == TypeOK /\ [Next]_vars => TypeOK'
<1> SUFFICES ASSUME TypeOK, [Next]_vars PROVE TypeOK'
  OBVIOUS
<1> USE DEF TypeOK
<1>0. CASE UNCHANGED vars
  BY <1>0 DEF vars
<1>1. ASSUME NEW n \in Nodes, BeginCycle(n) PROVE TypeOK'
  <2>1. [job[n] EXCEPT !.at = "begin"] \in Jobs
    BY JobFields DEF Stages
  <2>2. [ctr[n] EXCEPT !.reset = FALSE] \in Counters
    BY CounterFields
  <2> QED
    BY <1>1, <2>1, <2>2 DEF BeginCycle
<1>2. ASSUME NEW n \in Nodes, PrepareDevices(n) PROVE TypeOK'
  <2>1. [job[n] EXCEPT !.at = "list"] \in Jobs
    BY JobFields DEF Stages
  <2> QED
    BY <1>2, <2>1, CounterTypes DEF PrepareDevices
<1>3. ASSUME NEW n \in Nodes, RequestFails(n) PROVE TypeOK'
  <2>1. [job[n] EXCEPT !.at = "topo"] \in Jobs
    BY JobFields DEF Stages
  <2> QED
    BY <1>3, <2>1 DEF RequestFails
<1>4. ASSUME NEW n \in Nodes, DeviceListFails(n) PROVE TypeOK'
  <2>1. [job[n] EXCEPT !.at = "status"] \in Jobs
    BY JobFields DEF Stages
  <2> QED
    BY <1>4, <2>1 DEF DeviceListFails
<1>5. ASSUME NEW n \in Nodes, ReadDeviceList(n) PROVE TypeOK'
  <2>1. PICK listed \in SUBSET Clients, home \in [Clients -> (loaded \ {n}) \cup {n}] :
            job' = [job EXCEPT ![n] =
                      [@ EXCEPT !.at = "route", !.todo = listed, !.home = home,
                                !.mine = {c \in listed : home[c] = n},
                                !.routable = IF n = Main THEN loaded ELSE {}]]
    BY <1>5 DEF ReadDeviceList
  <2>2. home \in [Clients -> Nodes]
    BY DEF Nodes
  <2>3. [job[n] EXCEPT !.at = "route", !.todo = listed, !.home = home,
                       !.mine = {c \in listed : home[c] = n},
                       !.routable = IF n = Main THEN loaded ELSE {}] \in Jobs
    <3>1. /\ {c \in listed : home[c] = n} \subseteq Clients
          /\ (IF n = Main THEN loaded ELSE {}) \subseteq Leaves
      OBVIOUS
    <3> QED
      BY <2>2, <3>1, ReadJobType
  <2>4. job' \in [Nodes -> Jobs]
    BY <2>1, <2>3
  <2> QED
    BY <1>5, <2>4 DEF ReadDeviceList
<1>6. ASSUME NEW n \in Nodes, EndRouting(n) PROVE TypeOK'
  <2>1. [job[n] EXCEPT !.at = "push"] \in Jobs
    BY JobFields DEF Stages
  <2> QED
    BY <1>6, <2>1, CounterTypes DEF EndRouting
<1>7. ASSUME NEW n \in Nodes, StampCensus(n) PROVE TypeOK'
  <2>1. [job[n] EXCEPT !.target = NoLeaf] \in Jobs
    BY JobFields
  <2>2. [[ctr[job[n].target] EXCEPT !.census = "fresh"] EXCEPT !.src = "live"] \in Counters
    BY <1>7, JobFields, CounterFields DEF StampCensus, Nodes
  <2>3. job[n].target \in Nodes
    BY <1>7, JobFields DEF StampCensus, Nodes
  <2> QED
    BY <1>7, <2>1, <2>2, <2>3, CounterFields DEF StampCensus
<1>8. ASSUME NEW n \in Nodes, EndCensus(n) PROVE TypeOK'
  <2>1. [job[n] EXCEPT !.at = "status"] \in Jobs
    BY JobFields DEF Stages
  <2> QED
    BY <1>8, <2>1, CounterTypes DEF EndCensus
<1>9. ASSUME NEW n \in Nodes, NewStatus(n) PROVE TypeOK'
  <2>1. [IdleJob(n) EXCEPT !.at = "topo"] \in Jobs
    BY JobFields, FreshTypes DEF Stages
  <2>2. \A k \in Counts : [[ctr[n] EXCEPT !.total = k] EXCEPT !.split = k] \in Counters
    BY CounterFields, CountsAreNat
  <2>3. ctr' \in [Nodes -> Counters]
    BY <1>9, <2>2, CounterFields, CountsAreNat DEF NewStatus
  <2> QED
    BY <1>9, <2>1, <2>3 DEF NewStatus
<1>10. ASSUME NEW n \in Nodes, NEW c \in Clients, RouteToLeaf(n, c) PROVE TypeOK'
  <2>1. job[n].home[c] \in Nodes /\ n \in Nodes
    BY JobFields
  <2>2. <<job[n].home[c], c>> \in Nodes \X Clients
    BY <2>1
  <2> QED
    BY <1>10, <2>1, <2>2 DEF RouteToLeaf, Jobs, Nodes
<1>11. ASSUME NEW n \in Nodes, NEW c \in Clients, AddOwn(n, c) PROVE TypeOK'
  <2>1. [job[n] EXCEPT !.todo = @ \ {c}] \in Jobs
    BY JobFields
  <2> QED
    BY <1>11, <2>1, CounterTypes DEF AddOwn
<1>12. ASSUME NEW n \in Nodes, NEW c \in Clients, PushClient(n, c) PROVE TypeOK'
  <2>1. job[n].target \in Leaves
    BY <1>12, JobFields DEF PushClient
  <2>2. [job[n] EXCEPT !.queue = @ \ {<<job[n].target, c>>}] \in Jobs
    BY JobFields
  <2>3. job' \in [Nodes -> Jobs]
    BY <1>12, <2>2 DEF PushClient
  <2>4. ctr' \in [Nodes -> Counters]
    BY <1>12, <2>1, CounterTypes DEF PushClient, Nodes
  <2> QED
    BY <1>12, <2>1, <2>3, <2>4 DEF PushClient
<1>13. ASSUME NEW n \in Nodes, NEW l \in Leaves, StartPush(n, l) PROVE TypeOK'
  <2>1. [job[n] EXCEPT !.target = l, !.served = @ \cup {l}] \in Jobs
    BY PushJobType
  <2> QED
    BY <1>13, <2>1, CounterTypes DEF StartPush, Nodes
<1>14. ASSUME FinishMain PROVE TypeOK'
  <2> QED
    BY <1>14, FreshTypes DEF FinishMain, Nodes
<1>15. ASSUME ReloadMain PROVE TypeOK'
  <2>1. \A n \in Nodes : [ctr[n] EXCEPT !.src = IF @ = "live" THEN "old" ELSE @] \in Counters
    BY CounterFields
  <2> QED
    BY <1>15, <2>1, FreshTypes DEF ReloadMain
<1>16. ASSUME NEW l \in Leaves, FinishLeaf(l) PROVE TypeOK'
  <2>1. graph[l] # NotListed => graph[l] \in Nat
    BY CountsAreNat
  <2>2. LeafCount(l, ctr[l]) \in Counters
    BY <2>1, CounterFields DEF LeafCount, Nodes
  <2>3. [LeafCount(l, ctr[l]) EXCEPT !.pending = FALSE] \in Counters
    BY <2>2, CounterFields
  <2> QED
    BY <1>16, <2>3, FreshTypes DEF FinishLeaf, Nodes
<1>17. ASSUME NEW l \in Leaves, CensusExpires(l) PROVE TypeOK'
  <2>1. [ctr[l] EXCEPT !.census = "stale"] \in Counters
    BY CounterFields DEF Nodes
  <2> QED
    BY <1>17, <2>1 DEF CensusExpires
<1>18. ASSUME NEW l \in Leaves, LoadLeaf(l) PROVE TypeOK'
  <2> QED
    BY <1>18 DEF LoadLeaf
<1>19. ASSUME NEW l \in Leaves, UnloadLeaf(l) PROVE TypeOK'
  <2>1. WithoutLeaf(job[Main], l) \in Jobs
    BY WithoutLeafType DEF Nodes
  <2> QED
    BY <1>19, <2>1, FreshTypes DEF UnloadLeaf
<1>20. ASSUME NEW n \in Nodes, GiveUp(n) PROVE TypeOK'
  BY <1>20, FreshTypes DEF GiveUp
<1> QED
  BY <1>0, <1>1, <1>2, <1>3, <1>4, <1>5, <1>6, <1>7, <1>8, <1>9, <1>10, <1>11,
     <1>12, <1>13, <1>14, <1>15, <1>16, <1>17, <1>18, <1>19, <1>20 DEF Next, Refresh

\* Type correctness of the updaters' counters, refresh jobs and graph: no
\* count becomes negative, however many leaves and clients there are.
THEOREM TypeCorrect == Spec => []TypeOK
BY TypeInit, TypeStep, PTL DEF Spec

-----------------------------------------------------------------------------
(* What the main pushed: PushIsKept and RecentCensusRules. *)

Target == job[Main].target
Pushed(l) == kind[l] \in {"silent", "iot"}

\* A leaf routes and pushes nothing, and only a push has a target.
JobShape ==
    /\ \A l \in Leaves :
          /\ job[l].queue = {} /\ job[l].target = NoLeaf /\ job[l].routable = {}
          /\ \A c \in Clients : job[l].home[c] = l
          /\ kind[l] = "silent" => job[l].todo = {}
    /\ Target # NoLeaf => job[Main].at = "push"
    /\ job[Main].at \in {"idle", "begin", "list"} => job[Main].routable = {}

\* A client still in the queue of a push is not yet counted.
QueueFresh ==
    \A l \in Leaves, c \in Clients :
        Pushed(l) /\ Target = l /\ <<l, c>> \in job[Main].queue => c \notin pushed[l]

\* The counters hold the push that is under way, or the one remembered.
PushExact ==
    \A l \in Leaves :
        Pushed(l) /\ alone[l] =>
            /\ Target = l => /\ ctr[l].reset
                             /\ ctr[l].split = Cardinality(pushed[l])
                             /\ ctr[l].total = Cardinality(pushed[l])
            /\ Target # l /\ ctr[l].census # "none" => ctr[l].split = Cardinality(pushed[l])
            /\ Target # l /\ HasRecentCensus(ctr[l]) => ctr[l].total = Cardinality(pushed[l])

\* Counters that are not zero are remembered as somebody's push, unless that
\* push was given up before its stamp.
HeldIsStamped ==
    \A l \in Leaves :
        Pushed(l) /\ Target # l /\ ~partial[l] /\ ctr[l].split # 0
            => ctr[l].census # "none" /\ ctr[l].src # "none"

\* A push that is under way, or was given up, shows no more than it has counted.
PushBounds ==
    \A l \in Leaves :
        Pushed(l) /\ (Target = l \/ partial[l]) => ctr[l].split <= Cardinality(pushed[l])

\* What a step does to one leaf that the parent counts for.
SameHistory(l) ==
    pushed'[l] = pushed[l] /\ alone'[l] = alone[l] /\ partial'[l] = partial[l]
KeptStep(l) ==
    /\ ctr'[l] = ctr[l] /\ SameHistory(l)
    /\ Target' = l <=> Target = l
    /\ Target = l => job'[Main].queue \subseteq job[Main].queue
BeginStep(l) ==
    /\ ctr'[l] = [ctr[l] EXCEPT !.reset = FALSE]
    /\ pushed'[l] = pushed[l] /\ alone'[l] = (alone[l] /\ Target # l)
    /\ partial'[l] = partial[l]
    /\ job'[Main].target = Target /\ job'[Main].queue = job[Main].queue
ZeroStep(l) ==
    /\ ctr'[l] = Cleared(ctr[l]) /\ alone'[l] = alone[l]
    /\ Target' = Target
    /\ Target = l => /\ ~ctr[l].reset /\ pushed'[l] = pushed[l]
                     /\ job'[Main].queue = job[Main].queue
StartStep(l) ==
    /\ job[Main].at = "push" /\ Target' = l /\ pushed'[l] = {}
    /\ ctr'[l] = Cleared([ctr[l] EXCEPT !.pending = TRUE])
ClientStep(l) ==
    /\ Target = l /\ Target' = l /\ alone'[l] = alone[l] /\ partial'[l] = partial[l]
    /\ ctr'[l] = Counted(ctr[l])
    /\ \E c \in Clients : /\ <<l, c>> \in job[Main].queue
                          /\ job'[Main].queue = job[Main].queue \ {<<l, c>>}
                          /\ pushed'[l] = pushed[l] \cup {c}
StampStep(l) ==
    /\ Target = l /\ Target' = NoLeaf /\ SameHistory(l)
    /\ ctr'[l] = [ctr[l] EXCEPT !.census = "fresh", !.src = "live"]
GiveUpStep(l) ==
    /\ Target = l /\ Target' = NoLeaf /\ ctr'[l] = ctr[l]
    /\ pushed'[l] = pushed[l] /\ alone'[l] = alone[l] /\ partial'[l]
FinishStep(l) ==
    /\ ctr'[l] = [LeafCount(l, ctr[l]) EXCEPT !.pending = FALSE]
    /\ SameHistory(l) /\ job'[Main] = job[Main]
AgeStep(l) ==
    /\ ctr'[l] = [ctr[l] EXCEPT !.census = "stale"] /\ ctr[l].census = "fresh"
    /\ SameHistory(l) /\ job'[Main] = job[Main]
OldStep(l) ==
    /\ ctr'[l] = [ctr[l] EXCEPT !.src = IF @ = "live" THEN "old" ELSE @]
    /\ SameHistory(l) /\ job'[Main] = job[Main]
UnloadStep(l) ==
    ctr'[l] = FreshCounters /\ Target' # l

LeafStep(l) ==
    \/ KeptStep(l) \/ BeginStep(l) \/ ZeroStep(l) \/ StartStep(l) \/ ClientStep(l)
    \/ StampStep(l) \/ GiveUpStep(l) \/ FinishStep(l) \/ AgeStep(l) \/ OldStep(l)
    \/ UnloadStep(l)

LEMMA ShapeInit == Init => JobShape
<1> SUFFICES ASSUME Init PROVE JobShape
  OBVIOUS
<1>1. \A n \in Nodes : job[n] = IdleJob(n)
  BY DEF Init
<1>2. ASSUME NEW l \in Leaves
      PROVE  /\ job[l].queue = {} /\ job[l].target = NoLeaf
             /\ job[l].routable = {} /\ job[l].todo = {}
             /\ \A c \in Clients : job[l].home[c] = l
  <2>1. job[l] = IdleJob(l)
    BY <1>1 DEF Nodes
  <2>2. job[l].home = [c \in Clients |-> l]
    BY <2>1 DEF IdleJob
  <2> QED
    BY <2>1, <2>2 DEF IdleJob
<1>3. Target = NoLeaf /\ job[Main].routable = {}
  BY <1>1 DEF IdleJob, Nodes, Target
<1> QED
  BY <1>2, <1>3 DEF JobShape

LEMMA ShapeStep == TypeOK /\ JobShape /\ [Next]_vars => JobShape'
<1> SUFFICES ASSUME TypeOK, JobShape, [Next]_vars PROVE JobShape'
  OBVIOUS
<1> USE MainIsNoLeaf, NoLeafIsNone DEF JobShape, Target
<1>a. job \in [Nodes -> Jobs] /\ Main \in Nodes /\ Leaves \subseteq Nodes
  BY DEF TypeOK, Nodes
<1>0. CASE UNCHANGED vars
  BY <1>0 DEF vars
<1>1. ASSUME NEW n \in Nodes, BeginCycle(n) PROVE JobShape'
  BY <1>a, <1>1 DEF BeginCycle, Nodes, Jobs
<1>2. ASSUME NEW n \in Nodes, PrepareDevices(n) PROVE JobShape'
  BY <1>a, <1>2 DEF PrepareDevices, Nodes, Jobs
<1>3. ASSUME NEW n \in Nodes, RequestFails(n) PROVE JobShape'
  BY <1>a, <1>3 DEF RequestFails, Nodes, Jobs
<1>4. ASSUME NEW n \in Nodes, DeviceListFails(n) PROVE JobShape'
  BY <1>a, <1>4 DEF DeviceListFails, Nodes, Jobs
<1>5. ASSUME NEW n \in Nodes, ReadDeviceList(n) PROVE JobShape'
  BY <1>a, <1>5 DEF ReadDeviceList, Nodes, Jobs
<1>6. ASSUME NEW n \in Nodes, EndRouting(n) PROVE JobShape'
  BY <1>a, <1>6 DEF EndRouting, Nodes, Jobs
<1>7. ASSUME NEW n \in Nodes, StampCensus(n) PROVE JobShape'
  BY <1>a, <1>7 DEF StampCensus, Nodes, Jobs
<1>8. ASSUME NEW n \in Nodes, EndCensus(n) PROVE JobShape'
  BY <1>a, <1>8 DEF EndCensus, Nodes, Jobs
<1>9. ASSUME NEW n \in Nodes, NewStatus(n) PROVE JobShape'
  BY <1>a, <1>9 DEF NewStatus, IdleJob, Nodes, Jobs
<1>10. ASSUME NEW n \in Nodes, NEW c \in Clients, RouteToLeaf(n, c) PROVE JobShape'
  BY <1>a, <1>10 DEF RouteToLeaf, Nodes, Jobs
<1>11. ASSUME NEW n \in Nodes, NEW c \in Clients, AddOwn(n, c) PROVE JobShape'
  BY <1>a, <1>11 DEF AddOwn, Nodes, Jobs
<1>12. ASSUME NEW n \in Nodes, NEW c \in Clients, PushClient(n, c) PROVE JobShape'
  BY <1>a, <1>12 DEF PushClient, Nodes, Jobs
<1>13. ASSUME NEW n \in Nodes, NEW m \in Leaves, StartPush(n, m) PROVE JobShape'
  BY <1>a, <1>13 DEF StartPush, Nodes, Jobs
<1>14. ASSUME FinishMain PROVE JobShape'
  BY <1>a, <1>14 DEF FinishMain, IdleJob, Nodes, Jobs
<1>15. ASSUME ReloadMain PROVE JobShape'
  BY <1>a, <1>15 DEF ReloadMain, Nodes, Jobs
<1>16. ASSUME NEW m \in Leaves, FinishLeaf(m) PROVE JobShape'
  BY <1>a, <1>16 DEF FinishLeaf, IdleJob, Nodes, Jobs
<1>17. ASSUME NEW m \in Leaves, CensusExpires(m) PROVE JobShape'
  BY <1>a, <1>17 DEF CensusExpires, Nodes, Jobs
<1>18. ASSUME NEW m \in Leaves, LoadLeaf(m) PROVE JobShape'
  BY <1>a, <1>18 DEF LoadLeaf, Nodes, Jobs
<1>19. ASSUME NEW m \in Leaves, UnloadLeaf(m) PROVE JobShape'
  BY <1>a, <1>19 DEF UnloadLeaf, WithoutLeaf, Nodes, Jobs
<1>20. ASSUME NEW n \in Nodes, GiveUp(n) PROVE JobShape'
  BY <1>a, <1>20 DEF GiveUp, IdleJob, Nodes, Jobs
<1> QED
  BY <1>0, <1>1, <1>2, <1>3, <1>4, <1>5, <1>6, <1>7, <1>8, <1>9, <1>10, <1>11,
     <1>12, <1>13, <1>14, <1>15, <1>16, <1>17, <1>18, <1>19, <1>20 DEF Next, Refresh

\* Every step is one of these for every leaf that the parent counts for.
LEMMA LeafStepOfStep ==
  ASSUME TypeOK, JobShape, [Next]_vars, NEW l \in Leaves, Pushed(l)
  PROVE  LeafStep(l)
<1> USE MainIsNoLeaf, NoLeafIsNone
<1>a. /\ job \in [Nodes -> Jobs] /\ ctr \in [Nodes -> Counters]
      /\ Main \in Nodes /\ Leaves \subseteq Nodes /\ Main # l /\ l \in Nodes
      /\ pushed \in [Leaves -> SUBSET Clients] /\ alone \in [Leaves -> BOOLEAN]
      /\ partial \in [Leaves -> BOOLEAN]
  BY DEF TypeOK, Nodes
<1>b. /\ job[l].queue = {} /\ job[l].target = NoLeaf /\ job[l].routable = {}
      /\ \A c \in Clients : job[l].home[c] = l
      /\ \A m \in Leaves : job[m].target = NoLeaf /\ job[m].queue = {} /\ job[m].routable = {}
      /\ Target # NoLeaf => job[Main].at = "push"
  BY DEF JobShape
<1>0. CASE UNCHANGED vars
  BY <1>0 DEF vars, LeafStep, KeptStep, SameHistory, Target
<1>1. ASSUME NEW n \in Nodes, BeginCycle(n) PROVE LeafStep(l)
  <2>1. CASE n = l
    <3>1. job'[Main] = job[Main] /\ ctr'[l] = [ctr[l] EXCEPT !.reset = FALSE]
      BY <1>a, <1>1, <2>1 DEF BeginCycle
    <3>2. /\ pushed'[l] = pushed[l] /\ alone'[l] = (alone[l] /\ Target # l)
          /\ partial'[l] = partial[l]
      BY <1>1, <2>1 DEF BeginCycle, Target
    <3> QED
      BY <3>1, <3>2 DEF LeafStep, BeginStep, Target
  <2>2. CASE n # l
    <3>1. /\ ctr'[l] = ctr[l] /\ pushed'[l] = pushed[l] /\ partial'[l] = partial[l]
          /\ job'[Main].target = Target /\ job'[Main].queue = job[Main].queue
      BY <1>a, <1>1, <2>2 DEF BeginCycle, Target
    <3>2. alone'[l] = (alone[l] /\ ~(l = n /\ job[Main].target = l))
      BY <1>1 DEF BeginCycle
    <3>3. alone'[l] = alone[l]
      BY <1>a, <2>2, <3>2
    <3> QED
      BY <3>1, <3>3 DEF LeafStep, KeptStep, SameHistory, Target
  <2> QED
    BY <2>1, <2>2
<1>2. ASSUME NEW n \in Nodes, PrepareDevices(n) PROVE LeafStep(l)
  BY <1>a, <1>b, <1>2
     DEF PrepareDevices, CycleReset, LeafStep, KeptStep, SameHistory,
         Target, Nodes
<1>3. ASSUME NEW n \in Nodes, RequestFails(n) PROVE LeafStep(l)
  BY <1>a, <1>b, <1>3 DEF RequestFails, LeafStep, KeptStep, SameHistory, Target, Nodes
<1>4. ASSUME NEW n \in Nodes, DeviceListFails(n) PROVE LeafStep(l)
  BY <1>a, <1>b, <1>4 DEF DeviceListFails, LeafStep, KeptStep, SameHistory, Target, Nodes
<1>5. ASSUME NEW n \in Nodes, ReadDeviceList(n) PROVE LeafStep(l)
  BY <1>a, <1>b, <1>5 DEF ReadDeviceList, LeafStep, KeptStep, SameHistory, Target, Nodes
<1>6. ASSUME NEW n \in Nodes, EndRouting(n) PROVE LeafStep(l)
  BY <1>a, <1>b, <1>6
     DEF EndRouting, ZeroStep, NobodyCounts, LeafStep, KeptStep, SameHistory,
         Target, Nodes
<1>7. ASSUME NEW n \in Nodes, StampCensus(n) PROVE LeafStep(l)
  <2>1. n = Main /\ Target \in Leaves
    BY <1>a, <1>b, <1>7, JobFields DEF StampCensus, Nodes, Target
  <2>2. /\ job'[Main].target = NoLeaf /\ job'[Main].queue = job[Main].queue
        /\ SameHistory(l)
        /\ ctr' = [ctr EXCEPT ![Target].census = "fresh", ![Target].src = "live"]
    BY <1>a, <1>7, <2>1 DEF StampCensus, SameHistory, Target
  <2>3. CASE Target = l
    <3>1. ctr'[l] = [ctr[l] EXCEPT !.census = "fresh", !.src = "live"]
      BY <1>a, <2>2, <2>3
    <3> QED
      BY <2>2, <2>3, <3>1 DEF LeafStep, StampStep, Target
  <2>4. CASE Target # l
    <3>1. ctr'[l] = ctr[l]
      BY <1>a, <2>1, <2>2, <2>4
    <3> QED
      BY <2>2, <2>4, <3>1 DEF LeafStep, KeptStep, Target
  <2> QED
    BY <2>3, <2>4
<1>8. ASSUME NEW n \in Nodes, EndCensus(n) PROVE LeafStep(l)
  BY <1>a, <1>b, <1>8
     DEF EndCensus, Vacated, ZeroStep, LeafStep, KeptStep, SameHistory,
         Target, Nodes
<1>9. ASSUME NEW n \in Nodes, NewStatus(n) PROVE LeafStep(l)
  BY <1>a, <1>b, <1>9
     DEF NewStatus, IdleJob, CountsOwnClients, Pushed, LeafStep, KeptStep, SameHistory,
         Target, Nodes
<1>10. ASSUME NEW n \in Nodes, NEW c \in Clients, RouteToLeaf(n, c) PROVE LeafStep(l)
  BY <1>a, <1>b, <1>10 DEF RouteToLeaf, LeafStep, KeptStep, SameHistory, Target, Nodes
<1>11. ASSUME NEW n \in Nodes, NEW c \in Clients, AddOwn(n, c) PROVE LeafStep(l)
  BY <1>a, <1>b, <1>11
     DEF AddOwn, OwnCounted, ForceLoad, Pushed, JobShape, LeafStep, KeptStep, SameHistory,
         Target, Nodes
<1>12. ASSUME NEW n \in Nodes, NEW c \in Clients, PushClient(n, c) PROVE LeafStep(l)
  BY <1>a, <1>b, <1>12
     DEF PushClient, PushCounted, CountsOwnClients, Pushed, ClientStep, LeafStep, KeptStep,
         SameHistory, Target, Nodes
<1>13. ASSUME NEW n \in Nodes, NEW m \in Leaves, StartPush(n, m) PROVE LeafStep(l)
  <2>1. n = Main
    BY <1>b, <1>13 DEF StartPush, Nodes
  <2>2. /\ job[Main].at = "push" /\ Target = NoLeaf
        /\ job'[Main].target = m /\ job'[Main].queue = job[Main].queue
        /\ ctr' = [ctr EXCEPT ![m] = PushCleared(m, @)]
    BY <1>a, <1>13, <2>1 DEF StartPush, Target
  <2>3. CASE m = l
    <3>1. ctr'[l] = Cleared([ctr[l] EXCEPT !.pending = TRUE])
      BY <1>a, <2>2, <2>3 DEF PushCleared, CountsOwnClients, Pushed
    <3>2. pushed'[l] = {}
      BY <1>a, <1>13, <2>3 DEF StartPush
    <3> QED
      BY <2>2, <2>3, <3>1, <3>2 DEF LeafStep, StartStep, Target
  <2>4. CASE m # l
    <3>1. ctr'[l] = ctr[l] /\ SameHistory(l)
      BY <1>a, <1>13, <2>2, <2>4 DEF StartPush, SameHistory
    <3> QED
      BY <2>2, <2>4, <3>1 DEF LeafStep, KeptStep, Target
  <2> QED
    BY <2>3, <2>4
<1>14. ASSUME FinishMain PROVE LeafStep(l)
  BY <1>a, <1>b, <1>14 DEF FinishMain, IdleJob, LeafStep, KeptStep, SameHistory, Target, Nodes
<1>15. ASSUME ReloadMain PROVE LeafStep(l)
  BY <1>a, <1>b, <1>15 DEF ReloadMain, OldStep, LeafStep, KeptStep, SameHistory, Target, Nodes
<1>16. ASSUME NEW m \in Leaves, FinishLeaf(m) PROVE LeafStep(l)
  BY <1>a, <1>b, <1>16 DEF FinishLeaf, FinishStep, LeafStep, KeptStep, SameHistory, Target, Nodes
<1>17. ASSUME NEW m \in Leaves, CensusExpires(m) PROVE LeafStep(l)
  BY <1>a, <1>b, <1>17 DEF CensusExpires, AgeStep, LeafStep, KeptStep, SameHistory, Target, Nodes
<1>18. ASSUME NEW m \in Leaves, LoadLeaf(m) PROVE LeafStep(l)
  BY <1>a, <1>b, <1>18 DEF LoadLeaf, LeafStep, KeptStep, SameHistory, Target, Nodes
<1>19. ASSUME NEW m \in Leaves, UnloadLeaf(m) PROVE LeafStep(l)
  <2>1. job'[Main] = WithoutLeaf(job[Main], m) /\ job[Main] \in Jobs
    BY <1>a, <1>19 DEF UnloadLeaf
  <2>2. /\ Target' = IF Target = m THEN NoLeaf ELSE Target
        /\ job'[Main].queue \subseteq job[Main].queue
    BY <2>1 DEF WithoutLeaf, Jobs, Target
  <2>3. CASE m = l
    <3>1. ctr'[l] = FreshCounters
      BY <1>a, <1>19, <2>3 DEF UnloadLeaf
    <3> QED
      BY <2>2, <2>3, <3>1 DEF LeafStep, UnloadStep
  <2>4. CASE m # l
    <3>1. ctr'[l] = ctr[l] /\ SameHistory(l)
      BY <1>a, <1>19, <2>4 DEF UnloadLeaf, SameHistory
    <3> QED
      BY <2>2, <2>4, <3>1 DEF LeafStep, KeptStep
  <2> QED
    BY <2>3, <2>4
<1>20. ASSUME NEW n \in Nodes, GiveUp(n) PROVE LeafStep(l)
  <2>1. /\ ctr'[l] = ctr[l] /\ pushed'[l] = pushed[l] /\ alone'[l] = alone[l]
        /\ job'[n] = IdleJob(n) /\ \A m \in Nodes \ {n} : job'[m] = job[m]
        /\ partial'[l] = (partial[l] \/ (l = job[n].target /\ Pushed(l)))
    <3>1. ctr' = ctr /\ pushed' = pushed /\ alone' = alone /\ job' = [job EXCEPT ![n] = IdleJob(n)]
      BY <1>20 DEF GiveUp
    <3>2. partial' = [m \in Leaves |->
                        partial[m] \/ (m = job[n].target /\ kind[m] \in {"silent", "iot"})]
      BY <1>20 DEF GiveUp
    <3>3. partial'[l] = (partial[l] \/ (l = job[n].target /\ Pushed(l)))
      BY <3>2 DEF Pushed
    <3> QED
      BY <1>a, <3>1, <3>3
  <2>2. CASE n = Main /\ Target = l
    <3>1. IdleJob(n).target = NoLeaf
      BY DEF IdleJob
    <3>2. Target' = NoLeaf
      BY <2>1, <2>2, <3>1 DEF Target
    <3>3. partial'[l]
      BY <2>1, <2>2 DEF Target
    <3> QED
      BY <2>1, <2>2, <3>2, <3>3 DEF LeafStep, GiveUpStep
  <2>3. CASE n = Main /\ Target # l
    <3>1. partial'[l] = partial[l]
      BY <1>a, <2>1, <2>3 DEF Target
    <3>2. Target' # l
      BY <2>1, <2>3 DEF IdleJob, Target
    <3> QED
      BY <2>1, <2>3, <3>1, <3>2 DEF LeafStep, KeptStep, SameHistory
  <2>4. CASE n # Main
    <3>1. partial'[l] = partial[l]
      BY <1>a, <1>b, <2>1, <2>4 DEF Nodes
    <3>2. job'[Main] = job[Main]
      BY <1>a, <2>1, <2>4
    <3> QED
      BY <2>1, <3>1, <3>2 DEF LeafStep, KeptStep, SameHistory, Target
  <2> QED
    BY <2>2, <2>3, <2>4
<1> QED
  BY <1>0, <1>1, <1>2, <1>3, <1>4, <1>5, <1>6, <1>7, <1>8, <1>9, <1>10, <1>11,
     <1>12, <1>13, <1>14, <1>15, <1>16, <1>17, <1>18, <1>19, <1>20 DEF Next, Refresh

LEMMA KindIsRigid == TypeOK /\ [Next]_vars => kind' = kind
<1> SUFFICES ASSUME [Next]_vars PROVE kind' = kind
  OBVIOUS
<1>1. ASSUME NEW n \in Nodes, Refresh(n) PROVE kind' = kind
  <2>1. CASE BeginCycle(n) \/ PrepareDevices(n) \/ RequestFails(n) \/ DeviceListFails(n)
    BY <2>1 DEF BeginCycle, PrepareDevices, RequestFails, DeviceListFails
  <2>2. CASE ReadDeviceList(n) \/ EndRouting(n) \/ StampCensus(n) \/ EndCensus(n)
    BY <2>2 DEF ReadDeviceList, EndRouting, StampCensus, EndCensus
  <2>3. CASE \E c \in Clients : RouteToLeaf(n, c) \/ AddOwn(n, c) \/ PushClient(n, c)
    BY <2>3 DEF RouteToLeaf, AddOwn, PushClient
  <2>4. CASE \E l \in Leaves : StartPush(n, l)
    BY <2>4 DEF StartPush
  <2>5. CASE NewStatus(n) \/ GiveUp(n)
    BY <2>5 DEF NewStatus, GiveUp
  <2> QED
    BY <1>1, <2>1, <2>2, <2>3, <2>4, <2>5 DEF Refresh
<1>2. CASE FinishMain \/ ReloadMain
  BY <1>2 DEF FinishMain, ReloadMain
<1>3. CASE \E l \in Leaves : FinishLeaf(l) \/ CensusExpires(l) \/ LoadLeaf(l) \/ UnloadLeaf(l)
  BY <1>3 DEF FinishLeaf, CensusExpires, LoadLeaf, UnloadLeaf
<1>4. CASE UNCHANGED vars
  BY <1>4 DEF vars
<1> QED
  BY <1>1, <1>2, <1>3, <1>4 DEF Next

\* One more client in a set of clients.
LEMMA OneMore ==
  ASSUME NEW S \in SUBSET Clients, NEW c \in Clients, c \notin S
  PROVE  Cardinality(S \cup {c}) = Cardinality(S) + 1 /\ Cardinality(S) \in Nat
<1>1. IsFiniteSet(S)
  BY ClientsFinite, FS_Subset
<1>2. Cardinality(S) \in Nat
  BY <1>1, FS_CardinalityType
<1>3. Cardinality(S \cup {c}) = IF c \in S THEN Cardinality(S) ELSE Cardinality(S) + 1
  BY <1>1, FS_AddElement
<1> QED
  BY <1>2, <1>3

\* The invariant about what the main pushed.
PushInv == JobShape /\ QueueFresh /\ PushExact /\ HeldIsStamped /\ PushBounds

LEMMA PushInvInit == Init => PushInv
<1> SUFFICES ASSUME Init PROVE PushInv
  OBVIOUS
<1>1. JobShape
  BY ShapeInit
<1>2. /\ \A l \in Leaves : ctr[l] = FreshCounters
      /\ \A l \in Leaves : ~partial[l]
      /\ job[Main] = IdleJob(Main) /\ Target = NoLeaf
  BY DEF Init, Nodes, Target, IdleJob
<1>3. QueueFresh /\ PushExact /\ HeldIsStamped /\ PushBounds
  BY <1>2, NoLeafIsNone
     DEF QueueFresh, PushExact, HeldIsStamped, PushBounds, FreshCounters, HasRecentCensus
<1> QED
  BY <1>1, <1>3 DEF PushInv

LEMMA PushInvStep == TypeOK /\ PushInv /\ [Next]_vars => PushInv'
<1> SUFFICES ASSUME TypeOK, PushInv, [Next]_vars PROVE PushInv'
  OBVIOUS
<1>1. JobShape'
  BY ShapeStep DEF PushInv
<1>2. ASSUME NEW l \in Leaves, Pushed(l) PROVE LeafStep(l)
  BY <1>2, LeafStepOfStep DEF PushInv
<1>3. kind' = kind
  BY KindIsRigid
<1>4. \A l \in Leaves : ctr[l] \in Counters /\ pushed[l] \subseteq Clients
  BY DEF TypeOK, Nodes
<1>5. ASSUME NEW l \in Leaves, NEW c \in Clients, Pushed(l), Target' = l,
             <<l, c>> \in job'[Main].queue
      PROVE  c \notin pushed'[l]
  BY <1>2, <1>5, NoLeafIsNone
     DEF PushInv, QueueFresh, LeafStep, KeptStep, BeginStep, ZeroStep, StartStep, ClientStep,
         StampStep, GiveUpStep, FinishStep, AgeStep, OldStep, UnloadStep, SameHistory, Target
<1>6. ASSUME NEW l \in Leaves, Pushed(l), alone'[l]
      PROVE  /\ Target' = l => /\ ctr'[l].reset
                               /\ ctr'[l].split = Cardinality(pushed'[l])
                               /\ ctr'[l].total = Cardinality(pushed'[l])
             /\ Target' # l /\ ctr'[l].census # "none" => ctr'[l].split = Cardinality(pushed'[l])
             /\ Target' # l /\ HasRecentCensus(ctr'[l]) => ctr'[l].total = Cardinality(pushed'[l])
  <2> USE <1>4, <1>6 DEF PushInv, PushExact
  <2>1. CASE KeptStep(l)
    BY <2>1 DEF KeptStep, SameHistory
  <2>2. CASE BeginStep(l)
    <3>1. alone[l] /\ Target # l /\ Target' = Target /\ pushed'[l] = pushed[l]
      BY <2>2 DEF BeginStep, Target
    <3>2. /\ ctr'[l].split = ctr[l].split /\ ctr'[l].total = ctr[l].total
          /\ ctr'[l].census = ctr[l].census /\ ctr'[l].src = ctr[l].src
      BY <2>2 DEF BeginStep, Counters
    <3> QED
      BY <3>1, <3>2 DEF HasRecentCensus
  <2>3. CASE ZeroStep(l)
    BY <2>3 DEF ZeroStep, Cleared, Counters, Target, HasRecentCensus
  <2>4. CASE StartStep(l)
    BY <2>4, FS_EmptySet DEF StartStep, Cleared, Counters
  <2>5. CASE ClientStep(l)
    <3>1. PICK c \in Clients : /\ <<l, c>> \in job[Main].queue
                                /\ pushed'[l] = pushed[l] \cup {c}
      BY <2>5 DEF ClientStep
    <3>2. c \notin pushed[l]
      BY <2>5, <3>1 DEF QueueFresh, ClientStep
    <3>3. Cardinality(pushed'[l]) = Cardinality(pushed[l]) + 1
      BY <3>1, <3>2, OneMore
    <3>4. /\ ctr[l].reset /\ alone[l]
          /\ ctr[l].split = Cardinality(pushed[l]) /\ ctr[l].total = Cardinality(pushed[l])
      BY <2>5 DEF ClientStep
    <3>5. /\ ctr'[l].reset = ctr[l].reset
          /\ ctr'[l].split = ctr[l].split + 1 /\ ctr'[l].total = ctr[l].total + 1
      BY <2>5 DEF ClientStep, Counted, Counters
    <3> QED
      BY <2>5, <3>3, <3>4, <3>5 DEF ClientStep
  <2>6. CASE StampStep(l)
    BY <2>6, NoLeafIsNone DEF StampStep, SameHistory, Counters
  <2>7. CASE FinishStep(l)
    <3>1. /\ ctr'[l].split = ctr[l].split /\ ctr'[l].census = ctr[l].census
          /\ ctr'[l].reset = ctr[l].reset /\ ctr'[l].src = ctr[l].src
          /\ ctr[l].reset \/ HasRecentCensus(ctr[l]) => ctr'[l].total = ctr[l].total
      BY <2>7 DEF FinishStep, LeafCount, Counters
    <3> QED
      BY <2>7, <3>1 DEF FinishStep, SameHistory, Target, HasRecentCensus
  <2>8. CASE AgeStep(l)
    BY <2>8 DEF AgeStep, SameHistory, Counters, Target, HasRecentCensus
  <2>9. CASE OldStep(l)
    BY <2>9 DEF OldStep, SameHistory, Counters, Target, HasRecentCensus
  <2>10. CASE UnloadStep(l)
    BY <2>10 DEF UnloadStep, FreshCounters, HasRecentCensus
  <2>11. CASE GiveUpStep(l)
    BY <2>11 DEF GiveUpStep
  <2> QED
    BY <1>2, <2>1, <2>2, <2>3, <2>4, <2>5, <2>6, <2>7, <2>8, <2>9, <2>10, <2>11 DEF LeafStep
<1>7. ASSUME NEW l \in Leaves, Pushed(l), Target' # l, ~partial'[l], ctr'[l].split # 0
      PROVE  ctr'[l].census # "none" /\ ctr'[l].src # "none"
  <2> USE <1>4, <1>7 DEF PushInv, HeldIsStamped, SameHistory
  <2>1. CASE KeptStep(l) \/ BeginStep(l) \/ ZeroStep(l)
    BY <2>1 DEF KeptStep, BeginStep, ZeroStep, Cleared, Counters, Target
  <2>2. CASE StartStep(l) \/ ClientStep(l) \/ UnloadStep(l) \/ GiveUpStep(l)
    BY <2>2 DEF StartStep, ClientStep, UnloadStep, GiveUpStep, FreshCounters
  <2>3. CASE StampStep(l)
    BY <2>3 DEF StampStep, Counters
  <2>4. CASE FinishStep(l)
    BY <2>4 DEF FinishStep, LeafCount, Counters, Target
  <2>5. CASE AgeStep(l) \/ OldStep(l)
    BY <2>5 DEF AgeStep, OldStep, Counters, Target
  <2> QED
    BY <1>2, <2>1, <2>2, <2>3, <2>4, <2>5 DEF LeafStep
<1>8. ASSUME NEW l \in Leaves, Pushed(l), Target' = l \/ partial'[l]
      PROVE  ctr'[l].split <= Cardinality(pushed'[l])
  <2> USE <1>4, <1>8 DEF PushInv, PushBounds, SameHistory
  <2>a. Cardinality(pushed'[l]) \in Nat
    <3>1. pushed'[l] \subseteq Clients
      BY TypeStep DEF TypeOK
    <3> QED
      BY <3>1, ClientsFinite, FS_Subset, FS_CardinalityType
  <2>1. CASE KeptStep(l)
    BY <2>1 DEF KeptStep
  <2>2. CASE BeginStep(l)
    BY <2>2 DEF BeginStep, Counters, Target
  <2>3. CASE ZeroStep(l) \/ StartStep(l) \/ UnloadStep(l)
    <3>1. \A k \in Counters : Cleared(k).split = 0
      BY DEF Cleared, Counters
    <3>2. [ctr[l] EXCEPT !.pending = TRUE] \in Counters
      BY CounterFields
    <3>3. ctr'[l].split = 0
      BY <2>3, <3>1, <3>2 DEF ZeroStep, StartStep, UnloadStep, FreshCounters
    <3> QED
      BY <2>a, <3>3
  <2>4. CASE ClientStep(l)
    <3>1. PICK c \in Clients : /\ <<l, c>> \in job[Main].queue
                                /\ pushed'[l] = pushed[l] \cup {c}
      BY <2>4 DEF ClientStep
    <3>2. c \notin pushed[l]
      BY <2>4, <3>1 DEF QueueFresh, ClientStep
    <3>3. /\ Cardinality(pushed'[l]) = Cardinality(pushed[l]) + 1
          /\ Cardinality(pushed[l]) \in Nat
      BY <3>1, <3>2, OneMore
    <3>4. ctr'[l].split = ctr[l].split + 1 /\ ctr[l].split \in Nat
      BY <2>4 DEF ClientStep, Counted, Counters
    <3>5. ctr[l].split <= Cardinality(pushed[l])
      BY <2>4 DEF ClientStep
    <3> QED
      BY <3>3, <3>4, <3>5
  <2>5. CASE StampStep(l)
    BY <2>5, NoLeafIsNone DEF StampStep, Counters
  <2>6. CASE GiveUpStep(l)
    BY <2>6 DEF GiveUpStep
  <2>7. CASE FinishStep(l)
    BY <2>7 DEF FinishStep, LeafCount, Counters, Target
  <2>8. CASE AgeStep(l) \/ OldStep(l)
    BY <2>8 DEF AgeStep, OldStep, Counters, Target
  <2> QED
    BY <1>2, <2>1, <2>2, <2>3, <2>4, <2>5, <2>6, <2>7, <2>8 DEF LeafStep
<1>9. PushExact' /\ HeldIsStamped' /\ PushBounds'
  BY <1>3, <1>6, <1>7, <1>8 DEF PushExact, HeldIsStamped, PushBounds, Pushed
<1> QED
  BY <1>1, <1>3, <1>5, <1>9 DEF PushInv, QueueFresh, Pushed

\* For as long as a leaf that the parent counts for remembers a push, it shows
\* exactly the clients of that push, however its refreshes, those of the main,
\* failures and reloads interleave (_counters_pushed_by_parent, reset_counter).
THEOREM PushKept == Spec => []PushIsKept
<1>1. TypeOK /\ PushInv => PushIsKept
  BY DEF PushInv, PushExact, PushIsKept, Pushed, Quiet, Target
<1> QED
  BY <1>1, TypeInit, TypeStep, PushInvInit, PushInvStep, PTL DEF Spec

\* While the parent's census of a leaf is recent, the leaf's total is the
\* number of clients pushed: the topology never overrides it
\* (_async_apply_leaf_client_count).
THEOREM RecentCensusKept == Spec => []RecentCensusRules
<1>1. TypeOK /\ PushInv => RecentCensusRules
  BY DEF PushInv, PushExact, RecentCensusRules, Pushed, Quiet, Target
<1> QED
  BY <1>1, TypeInit, TypeStep, PushInvInit, PushInvStep, PTL DEF Spec

-----------------------------------------------------------------------------
(* The last client leaves: VacatedLeafIsZero. *)

\* Where the main comes from when it has just ended, or long ended, a census.
LEMMA StatusStep ==
  ASSUME TypeOK, PushInv, [Next]_vars, job'[Main].at = "status",
         NEW l \in Leaves, Pushed(l), l \in job'[Main].routable \ job'[Main].served
  PROVE  \/ /\ job[Main].at = "status"
            /\ l \in job[Main].routable \ job[Main].served
         \/ (~partial'[l] => ctr'[l].split = 0)
<1> DEFINE Goal == \/ /\ job[Main].at = "status"
                      /\ l \in job[Main].routable \ job[Main].served
                   \/ (~partial'[l] => ctr'[l].split = 0)
<1> SUFFICES Goal
  OBVIOUS
<1>a. /\ job \in [Nodes -> Jobs] /\ ctr \in [Nodes -> Counters]
      /\ Main \in Nodes /\ Leaves \subseteq Nodes /\ Main \notin Leaves
  BY MainIsNoLeaf DEF TypeOK, Nodes
<1>b. job[Main].at = "list" => job[Main].routable = {}
  BY DEF PushInv, JobShape
<1>0. CASE UNCHANGED vars
  BY <1>0 DEF vars
<1>1. ASSUME NEW n \in Nodes, BeginCycle(n) PROVE Goal
  BY <1>a, <1>b, <1>1 DEF BeginCycle, Nodes
<1>2. ASSUME NEW n \in Nodes, PrepareDevices(n) PROVE Goal
  BY <1>a, <1>b, <1>2 DEF PrepareDevices, Nodes
<1>3. ASSUME NEW n \in Nodes, RequestFails(n) PROVE Goal
  BY <1>a, <1>b, <1>3 DEF RequestFails, Nodes
<1>4. ASSUME NEW n \in Nodes, DeviceListFails(n) PROVE Goal
  BY <1>a, <1>b, <1>4 DEF DeviceListFails, Nodes
<1>5. ASSUME NEW n \in Nodes, ReadDeviceList(n) PROVE Goal
  BY <1>a, <1>b, <1>5 DEF ReadDeviceList, Nodes
<1>6. ASSUME NEW n \in Nodes, EndRouting(n) PROVE Goal
  BY <1>a, <1>b, <1>6 DEF EndRouting, Nodes
<1>7. ASSUME NEW n \in Nodes, StampCensus(n) PROVE Goal
  BY <1>a, <1>b, <1>7 DEF StampCensus, Nodes
<1>8. ASSUME NEW n \in Nodes, EndCensus(n) PROVE Goal
  <2>1. CASE n = Main
    <3>1. job[Main].target = NoLeaf /\ l \in job[Main].routable \ job[Main].served
      BY <1>a, <1>8, <2>1 DEF EndCensus
    <3>2. /\ ctr'[l] = IF Vacated(Main, l) THEN Cleared(ctr[l]) ELSE ctr[l]
          /\ partial' = partial
      BY <1>a, <1>8, <2>1 DEF EndCensus
    <3>3. CASE Vacated(Main, l)
      BY <1>a, <3>2, <3>3 DEF Cleared, Counters
    <3>4. CASE ~Vacated(Main, l)
      BY <3>1, <3>2, <3>4, NoLeafIsNone
         DEF Vacated, CountsOwnClients, Pushed, PushInv, HeldIsStamped, Target
    <3> QED
      BY <3>3, <3>4
  <2>2. CASE n # Main
    BY <1>a, <1>8, <2>2 DEF EndCensus, Nodes
  <2> QED
    BY <2>1, <2>2
<1>9. ASSUME NEW n \in Nodes, NewStatus(n) PROVE Goal
  BY <1>a, <1>b, <1>9 DEF NewStatus, IdleJob, Nodes
<1>10. ASSUME NEW n \in Nodes, NEW c \in Clients, RouteToLeaf(n, c) PROVE Goal
  BY <1>a, <1>b, <1>10 DEF RouteToLeaf, Nodes
<1>11. ASSUME NEW n \in Nodes, NEW c \in Clients, AddOwn(n, c) PROVE Goal
  BY <1>a, <1>b, <1>11 DEF AddOwn, Nodes
<1>12. ASSUME NEW n \in Nodes, NEW c \in Clients, PushClient(n, c) PROVE Goal
  BY <1>a, <1>b, <1>12 DEF PushClient, Nodes
<1>13. ASSUME NEW n \in Nodes, NEW m \in Leaves, StartPush(n, m) PROVE Goal
  BY <1>a, <1>b, <1>13 DEF StartPush, Nodes
<1>14. ASSUME FinishMain PROVE Goal
  BY <1>a, <1>b, <1>14 DEF FinishMain, IdleJob, Nodes
<1>15. ASSUME ReloadMain PROVE Goal
  BY <1>a, <1>b, <1>15 DEF ReloadMain, Nodes
<1>16. ASSUME NEW m \in Leaves, FinishLeaf(m) PROVE Goal
  BY <1>a, <1>b, <1>16 DEF FinishLeaf, IdleJob, Nodes
<1>17. ASSUME NEW m \in Leaves, CensusExpires(m) PROVE Goal
  BY <1>a, <1>b, <1>17 DEF CensusExpires, Nodes
<1>18. ASSUME NEW m \in Leaves, LoadLeaf(m) PROVE Goal
  BY <1>a, <1>b, <1>18 DEF LoadLeaf, Nodes
<1>19. ASSUME NEW m \in Leaves, UnloadLeaf(m) PROVE Goal
  BY <1>a, <1>b, <1>19 DEF UnloadLeaf, WithoutLeaf, Nodes
<1>20. ASSUME NEW n \in Nodes, GiveUp(n) PROVE Goal
  BY <1>a, <1>b, <1>20 DEF GiveUp, IdleJob, Nodes
<1> QED
  BY <1>0, <1>1, <1>2, <1>3, <1>4, <1>5, <1>6, <1>7, <1>8, <1>9, <1>10, <1>11,
     <1>12, <1>13, <1>14, <1>15, <1>16, <1>17, <1>18, <1>19, <1>20 DEF Next, Refresh

LEMMA VacatedStep == TypeOK /\ PushInv /\ VacatedLeafIsZero /\ [Next]_vars => VacatedLeafIsZero'
<1> SUFFICES ASSUME TypeOK, PushInv, VacatedLeafIsZero, [Next]_vars
             PROVE  VacatedLeafIsZero'
  OBVIOUS
<1> SUFFICES ASSUME job'[Main].at = "status",
                    NEW l \in Leaves, l \in job'[Main].routable \ job'[Main].served,
                    kind'[l] \in {"silent", "iot"}
             PROVE  IF partial'[l] THEN ctr'[l].split <= Cardinality(pushed'[l])
                    ELSE ctr'[l].split = 0
  <2>1. job' \in [Nodes -> Jobs]
    BY TypeStep DEF TypeOK
  <2>2. job'[Main].routable \subseteq Leaves
    BY <2>1 DEF Nodes, Jobs
  <2> QED
    BY <2>2 DEF VacatedLeafIsZero
<1>1. Pushed(l)
  BY KindIsRigid DEF Pushed
<1>2. partial'[l] => ctr'[l].split <= Cardinality(pushed'[l])
  BY <1>1, PushInvStep, KindIsRigid DEF PushInv, PushBounds, Pushed
<1>3. CASE ~(job[Main].at = "status" /\ l \in job[Main].routable \ job[Main].served)
  BY <1>1, <1>2, <1>3, StatusStep
<1>4. CASE job[Main].at = "status" /\ l \in job[Main].routable \ job[Main].served
  <2>1. Target = NoLeaf /\ ctr[l] \in Counters /\ (~partial[l] => ctr[l].split = 0)
    BY <1>1, <1>4 DEF VacatedLeafIsZero, Pushed, PushInv, JobShape, TypeOK, Nodes
  <2>2. LeafStep(l)
    BY <1>1, LeafStepOfStep DEF PushInv
  <2>3. ~StartStep(l) /\ ~ClientStep(l) /\ ~StampStep(l) /\ ~GiveUpStep(l)
    BY <1>4, <2>1, NoLeafIsNone DEF StartStep, ClientStep, StampStep, GiveUpStep
  <2>4. CASE KeptStep(l) \/ BeginStep(l) \/ AgeStep(l) \/ OldStep(l)
    BY <1>2, <2>1, <2>4 DEF KeptStep, BeginStep, AgeStep, OldStep, SameHistory, Counters
  <2>5. CASE FinishStep(l)
    BY <1>2, <2>1, <2>5 DEF FinishStep, LeafCount, SameHistory, Counters
  <2>6. CASE ZeroStep(l)
    BY <1>2, <2>1, <2>6 DEF ZeroStep, Cleared, Counters
  <2>7. CASE UnloadStep(l)
    BY <1>2, <2>7 DEF UnloadStep, FreshCounters
  <2> QED
    BY <2>2, <2>3, <2>4, <2>5, <2>6, <2>7 DEF LeafStep
<1> QED
  BY <1>3, <1>4

\* Once the main has ended a census that routed no client to a leaf it pushed
\* to before, the leaf shows no client, even when the push came from an
\* earlier updater of the main (parent_census_empty).  A leaf whose push was
\* given up half-way shows at most the clients that push had counted: it has
\* no stamp, and the census passes it by.
THEOREM VacatedZero == Spec => []VacatedLeafIsZero
<1>1. Init => VacatedLeafIsZero
  <2> SUFFICES ASSUME Init PROVE VacatedLeafIsZero
    OBVIOUS
  <2>1. job[Main].at = "idle"
    BY DEF Init, IdleJob, Nodes
  <2> QED
    BY <2>1 DEF VacatedLeafIsZero
<1> QED
  BY <1>1, TypeInit, TypeStep, PushInvInit, PushInvStep, VacatedStep, PTL DEF Spec

-----------------------------------------------------------------------------
(* What a node counts of its own clients: OwnCensusExact. *)

\* The nodes that count their own clients one by one, and those counted so far.
CountsHere(n) == n = Main \/ (n \in Leaves /\ kind[n] = "listing")
Done(n) == job[n].mine \ job[n].todo

\* A list that is being worked off: the clients routed elsewhere are not the node's own.
ListShape(n) ==
    /\ job[n].at \in {"idle", "begin", "list", "topo"} => job[n].mine = {}
    /\ job[n].at = "route" => \A c \in job[n].todo : job[n].home[c] = n <=> c \in job[n].mine
    /\ job[n].at # "route" => job[n].todo = {}

Shows(n, S) == ctr[n].total = Cardinality(S) /\ ctr[n].split = Cardinality(S)

\* The first own client of a leaf finds the counters not yet reset, and what follows finds
\* them reset and not pushed to; the main resets before it counts.
OwnExact(n) ==
    /\ n = Main => ~ctr[n].pending
    /\ clean[n] /\ n = Main /\ job[n].at \in {"list", "route", "push", "status"}
           => Shows(n, Done(n))
    /\ clean[n] /\ n # Main /\ job[n].at \in {"begin", "list", "route"} /\ Done(n) = {}
           => ~ctr[n].reset
    /\ clean[n] /\ n # Main /\ job[n].at \in {"route", "push", "status"} /\ Done(n) # {}
           => ctr[n].reset /\ ~ctr[n].pending /\ Shows(n, Done(n))

OwnInv ==
    /\ \A n \in Nodes : ListShape(n)
    /\ \A n \in Nodes : CountsHere(n) => OwnExact(n)
    /\ \A l \in Leaves : Target = l => ~clean[l]

\* What another node's step leaves of what node n counts.
ForeignStep(n) ==
    /\ UNCHANGED <<job[n].at, job[n].todo, job[n].home, job[n].mine>>
    /\ n = Main => ctr'[n].pending = ctr[n].pending
    /\ CountsHere(n) /\ clean'[n] =>
          /\ clean[n]
          /\ UNCHANGED <<ctr[n].total, ctr[n].split, ctr[n].reset, ctr[n].pending>>

LEMMA ForeignKeeps ==
  ASSUME NEW n \in Nodes, ForeignStep(n), CountsHere(n)' <=> CountsHere(n), OwnInv
  PROVE  ListShape(n)' /\ (CountsHere(n)' => OwnExact(n)')
BY DEF ForeignStep, OwnInv, ListShape, OwnExact, Shows, Done

\* The steps that change what node n counts, or may.
OwnStep(n) ==
    \/ BeginCycle(n) \/ PrepareDevices(n) \/ RequestFails(n) \/ DeviceListFails(n)
    \/ ReadDeviceList(n) \/ EndRouting(n) \/ EndCensus(n) \/ NewStatus(n)
    \/ GiveUp(n) \/ \E c \in Clients : RouteToLeaf(n, c) \/ AddOwn(n, c)
    \/ n = Main /\ (FinishMain \/ ReloadMain)
    \/ n \in Leaves /\ (FinishLeaf(n) \/ UnloadLeaf(n))

LEMMA OwnOrForeign ==
  ASSUME TypeOK, JobShape, OwnInv, [Next]_vars, NEW n \in Nodes
  PROVE  OwnStep(n) \/ ForeignStep(n)
<1> USE MainIsNoLeaf, NoLeafIsNone
<1>a. /\ job \in [Nodes -> Jobs] /\ ctr \in [Nodes -> Counters]
      /\ Main \in Nodes /\ Leaves \subseteq Nodes /\ clean \in [Nodes -> BOOLEAN]
  BY DEF TypeOK, Nodes
<1>b. /\ \A m \in Leaves : job[m].target = NoLeaf /\ job[m].queue = {} /\ job[m].routable = {}
      /\ \A m \in Leaves : Target = m => ~clean[m]
      /\ \A m \in Nodes : m \in Leaves \/ m = Main
  BY DEF JobShape, OwnInv, Nodes
<1>c. ASSUME UNCHANGED <<job[n], ctr[n], clean[n]>> PROVE ForeignStep(n)
  BY <1>c DEF ForeignStep
<1>0. CASE UNCHANGED vars
  BY <1>0, <1>c DEF vars
<1>1. ASSUME NEW a \in Nodes, a # n, BeginCycle(a) PROVE ForeignStep(n)
  BY <1>a, <1>c, <1>1 DEF BeginCycle
<1>2. ASSUME NEW a \in Nodes, a # n, PrepareDevices(a) PROVE ForeignStep(n)
  BY <1>a, <1>c, <1>2 DEF PrepareDevices
<1>3. ASSUME NEW a \in Nodes, a # n, RequestFails(a) \/ DeviceListFails(a) PROVE ForeignStep(n)
  BY <1>a, <1>c, <1>3 DEF RequestFails, DeviceListFails
<1>4. ASSUME NEW a \in Nodes, a # n, ReadDeviceList(a) PROVE ForeignStep(n)
  BY <1>a, <1>c, <1>4 DEF ReadDeviceList
<1>5. ASSUME NEW a \in Nodes, a # n, EndRouting(a) PROVE ForeignStep(n)
  BY <1>a, <1>c, <1>5 DEF EndRouting
<1>6. ASSUME NEW a \in Nodes, StampCensus(a) PROVE ForeignStep(n)
  <2>1. /\ UNCHANGED <<job[n].at, job[n].todo, job[n].home, job[n].mine>>
        /\ clean' = clean
    BY <1>a, <1>6 DEF StampCensus
  <2>2. UNCHANGED <<ctr[n].total, ctr[n].split, ctr[n].reset, ctr[n].pending>>
    <3>1. CASE n = job[a].target
      <4>1. ctr'[n] = [[ctr[n] EXCEPT !.census = "fresh"] EXCEPT !.src = "live"]
        BY <1>a, <1>6, <3>1 DEF StampCensus
      <4>2. ctr[n] \in Counters
        BY <1>a
      <4> QED
        BY <4>1, <4>2 DEF Counters
    <3>2. CASE n # job[a].target
      BY <1>a, <1>6, <3>2 DEF StampCensus
    <3> QED
      BY <3>1, <3>2
  <2> QED
    BY <2>1, <2>2 DEF ForeignStep
<1>7. ASSUME NEW a \in Nodes, a # n, EndCensus(a) PROVE ForeignStep(n)
  <2>1. /\ job'[n] = job[n]
        /\ ctr'[n] = IF n \in Leaves /\ Vacated(a, n) THEN Cleared(ctr[n]) ELSE ctr[n]
        /\ clean'[n] = (clean[n] /\ ~(n \in Leaves /\ Vacated(a, n)))
    BY <1>a, <1>7 DEF EndCensus
  <2> QED
    BY <2>1 DEF ForeignStep
<1>8. ASSUME NEW a \in Nodes, a # n, NewStatus(a) PROVE ForeignStep(n)
  BY <1>a, <1>c, <1>8 DEF NewStatus
<1>9. ASSUME NEW a \in Nodes, a # n, NEW c \in Clients, RouteToLeaf(a, c) \/ AddOwn(a, c)
      PROVE  ForeignStep(n)
  BY <1>a, <1>c, <1>9 DEF RouteToLeaf, AddOwn
<1>10. ASSUME NEW a \in Nodes, NEW c \in Clients, PushClient(a, c) PROVE ForeignStep(n)
  <2>1. a = Main /\ Target \in Leaves
    BY <1>a, <1>b, <1>10, JobFields DEF PushClient, Target
  <2>2. /\ UNCHANGED <<job[n].at, job[n].todo, job[n].home, job[n].mine>>
        /\ clean' = clean /\ ctr' = [ctr EXCEPT ![Target] = PushCounted(Target, @)]
    BY <1>a, <1>10, <2>1 DEF PushClient, Target
  <2>3. CASE n = Target
    BY <1>b, <2>1, <2>2, <2>3 DEF ForeignStep
  <2>4. CASE n # Target
    BY <1>a, <2>1, <2>2, <2>4 DEF ForeignStep
  <2> QED
    BY <2>3, <2>4
<1>11. ASSUME NEW a \in Nodes, NEW l \in Leaves, StartPush(a, l) PROVE ForeignStep(n)
  <2>1. /\ UNCHANGED <<job[n].at, job[n].todo, job[n].home, job[n].mine>>
        /\ ctr' = [ctr EXCEPT ![l] = PushCleared(l, @)] /\ clean' = [clean EXCEPT ![l] = FALSE]
    BY <1>a, <1>11 DEF StartPush
  <2>2. CASE n = l
    BY <1>a, <2>1, <2>2 DEF ForeignStep
  <2>3. CASE n # l
    BY <1>a, <2>1, <2>3 DEF ForeignStep
  <2> QED
    BY <2>2, <2>3
<1>12. ASSUME n # Main, FinishMain PROVE ForeignStep(n)
  BY <1>a, <1>c, <1>12 DEF FinishMain
<1>13. ASSUME n # Main, ReloadMain PROVE ForeignStep(n)
  <2>1. /\ job' = job /\ clean' = clean
        /\ ctr'[n] = [ctr[n] EXCEPT !.src = IF @ = "live" THEN "old" ELSE @]
    BY <1>a, <1>13 DEF ReloadMain
  <2>2. UNCHANGED <<ctr[n].total, ctr[n].split, ctr[n].reset, ctr[n].pending>>
    BY <1>a, <2>1 DEF Counters
  <2> QED
    BY <2>1, <2>2 DEF ForeignStep
<1>14. ASSUME NEW l \in Leaves, l # n, FinishLeaf(l) PROVE ForeignStep(n)
  BY <1>a, <1>c, <1>14 DEF FinishLeaf
<1>15. ASSUME NEW l \in Leaves, CensusExpires(l) PROVE ForeignStep(n)
  <2>1. job' = job /\ clean' = clean /\ ctr' = [ctr EXCEPT ![l].census = "stale"]
    BY <1>15 DEF CensusExpires
  <2>2. UNCHANGED <<ctr[n].total, ctr[n].split, ctr[n].reset, ctr[n].pending>>
    BY <1>a, <2>1 DEF Counters
  <2> QED
    BY <2>1, <2>2 DEF ForeignStep
<1>16. ASSUME NEW l \in Leaves, LoadLeaf(l) PROVE ForeignStep(n)
  BY <1>c, <1>16 DEF LoadLeaf
<1>17. ASSUME NEW l \in Leaves, l # n, UnloadLeaf(l) PROVE ForeignStep(n)
  <2>1. /\ ctr'[n] = ctr[n] /\ clean'[n] = clean[n]
        /\ job'[n] = IF n = Main THEN WithoutLeaf(job[n], l) ELSE job[n]
    BY <1>a, <1>17 DEF UnloadLeaf
  <2>2. UNCHANGED <<job[n].at, job[n].todo, job[n].home, job[n].mine>>
    BY <1>a, <2>1 DEF WithoutLeaf, Jobs
  <2> QED
    BY <2>1, <2>2 DEF ForeignStep
<1>18. ASSUME NEW a \in Nodes, a # n, GiveUp(a) PROVE ForeignStep(n)
  BY <1>a, <1>c, <1>18 DEF GiveUp
<1> QED
  BY <1>0, <1>1, <1>2, <1>3, <1>4, <1>5, <1>6, <1>7, <1>8, <1>9, <1>10, <1>11, <1>12, <1>13,
     <1>14, <1>15, <1>16, <1>17, <1>18 DEF Next, Refresh, OwnStep

\* The own steps, one by one.
LEMMA OwnStepKeeps ==
  ASSUME TypeOK, JobShape, OwnInv, NEW n \in Nodes, OwnStep(n), kind' = kind
  PROVE  ListShape(n)' /\ (CountsHere(n) => OwnExact(n)')
<1> USE MainIsNoLeaf, NoLeafIsNone
<1> DEFINE Goal == ListShape(n)' /\ (CountsHere(n) => OwnExact(n)')
<1>a. /\ job \in [Nodes -> Jobs] /\ ctr \in [Nodes -> Counters]
      /\ job[n] \in Jobs /\ ctr[n] \in Counters /\ clean \in [Nodes -> BOOLEAN]
      /\ Main \in Nodes /\ Leaves \subseteq Nodes
  BY DEF TypeOK, Nodes
<1>b. ListShape(n) /\ (CountsHere(n) => OwnExact(n))
  BY DEF OwnInv
<1>c. Cardinality({}) = 0
  BY FS_EmptySet
<1>d. IdleJob(n).at = "idle" /\ IdleJob(n).todo = {} /\ IdleJob(n).mine = {}
  BY DEF IdleJob
<1>e. ASSUME job'[n].at \in {"idle", "topo"}, job'[n].mine = {}, job'[n].todo = {},
             n = Main => ctr'[n].pending = ctr[n].pending
      PROVE  Goal
  BY <1>b, <1>e DEF ListShape, OwnExact
<1>1. ASSUME BeginCycle(n) PROVE Goal
  <2>1. /\ job[n].at = "idle" /\ job'[n] = [job[n] EXCEPT !.at = "begin"]
        /\ ctr'[n] = [ctr[n] EXCEPT !.reset = FALSE]
    BY <1>a, <1>1 DEF BeginCycle
  <2>2. /\ job'[n].at = "begin" /\ job'[n].mine = {} /\ job'[n].todo = {}
        /\ ~ctr'[n].reset /\ ctr'[n].pending = ctr[n].pending
    BY <1>a, <1>b, <2>1 DEF ListShape, Jobs, Counters
  <2> QED
    BY <1>b, <2>2 DEF ListShape, OwnExact, Done
<1>2. ASSUME PrepareDevices(n) PROVE Goal
  <2>1. /\ job[n].at = "begin" /\ job'[n] = [job[n] EXCEPT !.at = "list"]
        /\ ctr'[n] = CycleReset(n, ctr[n]) /\ clean' = clean
    BY <1>a, <1>2 DEF PrepareDevices
  <2>2. job'[n].at = "list" /\ job'[n].mine = {} /\ job'[n].todo = {}
    BY <1>a, <1>b, <2>1 DEF ListShape, Jobs
  <2>3. Done(n) = {} /\ Done(n)' = {}
    BY <1>b, <2>1, <2>2 DEF ListShape, Done
  <2>4. CASE n = Main
    <3>1. /\ ctr'[n].pending = ctr[n].pending
          /\ ctr'[n].total = 0 /\ ctr'[n].split = 0
      BY <1>a, <2>1, <2>4 DEF CycleReset, Cleared, Counters
    <3> QED
      BY <1>b, <1>c, <2>2, <2>3, <2>4, <3>1 DEF ListShape, OwnExact, Shows, CountsHere
  <2>5. CASE n # Main
    <3>1. ctr'[n] = ctr[n]
      BY <2>1, <2>5 DEF CycleReset, Nodes
    <3> QED
      BY <1>b, <2>1, <2>2, <2>3, <2>5, <3>1 DEF ListShape, OwnExact
  <2> QED
    BY <2>4, <2>5
<1>3. ASSUME RequestFails(n) PROVE Goal
  <2>1. /\ job[n].at \in {"begin", "list"} /\ job'[n] = [job[n] EXCEPT !.at = "topo"]
        /\ ctr' = ctr
    BY <1>a, <1>3 DEF RequestFails
  <2>2. job'[n].at = "topo" /\ job'[n].mine = {} /\ job'[n].todo = {}
    BY <1>a, <1>b, <2>1 DEF ListShape, Jobs
  <2> QED
    BY <1>e, <2>1, <2>2
<1>4. ASSUME DeviceListFails(n) PROVE Goal
  <2>1. /\ job[n].at = "list" /\ job'[n] = [job[n] EXCEPT !.at = "status"]
        /\ ctr' = ctr /\ clean' = clean
    BY <1>a, <1>4 DEF DeviceListFails
  <2>2. job'[n].at = "status" /\ job'[n].mine = {} /\ job'[n].todo = {}
    BY <1>a, <1>b, <2>1 DEF ListShape, Jobs
  <2>3. Done(n) = {} /\ Done(n)' = {}
    BY <1>b, <2>1, <2>2 DEF ListShape, Done
  <2> QED
    BY <1>b, <2>1, <2>2, <2>3 DEF ListShape, OwnExact, Shows
<1>5. ASSUME ReadDeviceList(n) PROVE Goal
  <2>1. PICK listed \in SUBSET Clients, home \in [Clients -> (loaded \ {n}) \cup {n}] :
            job' = [job EXCEPT ![n] =
                      [@ EXCEPT !.at = "route", !.todo = listed, !.home = home,
                                !.mine = {c \in listed : home[c] = n},
                                !.routable = IF n = Main THEN loaded ELSE {}]]
    BY <1>5 DEF ReadDeviceList
  <2>2. job[n].at = "list" /\ ctr' = ctr /\ clean' = clean
    BY <1>5 DEF ReadDeviceList
  <2>3. /\ job'[n].at = "route" /\ job'[n].todo = listed /\ job'[n].home = home
        /\ job'[n].mine = {c \in listed : home[c] = n}
    BY <1>a, <2>1 DEF Jobs
  <2>4. Done(n) = {} /\ Done(n)' = {}
    BY <1>b, <2>2, <2>3 DEF ListShape, Done
  <2>5. ListShape(n)'
    BY <2>3 DEF ListShape
  <2> QED
    BY <1>b, <2>2, <2>3, <2>4, <2>5 DEF OwnExact, Shows
<1>6. ASSUME EndRouting(n) PROVE Goal
  <2>1. /\ job[n].at = "route" /\ job[n].todo = {} /\ job'[n] = [job[n] EXCEPT !.at = "push"]
        /\ clean' = clean
        /\ ctr' = IF NobodyCounts(n) THEN [ctr EXCEPT ![n] = Cleared(@)] ELSE ctr
    BY <1>a, <1>6 DEF EndRouting
  <2>2. job'[n].at = "push" /\ job'[n].mine = job[n].mine /\ job'[n].todo = {}
    BY <1>a, <2>1 DEF Jobs
  <2>3. Done(n)' = Done(n)
    BY <2>1, <2>2 DEF Done
  <2>4. ListShape(n)'
    BY <2>2 DEF ListShape
  <2>5. CASE NobodyCounts(n)
    <3>1. n \in Leaves /\ n # Main /\ ~ctr[n].reset
      BY <2>5 DEF NobodyCounts, PushedByParent
    <3>2. CountsHere(n) /\ clean[n] => Done(n) = {}
      BY <1>b, <2>1, <3>1 DEF OwnExact
    <3> QED
      BY <2>1, <2>2, <2>3, <2>4, <3>1, <3>2 DEF OwnExact
  <2>6. CASE ~NobodyCounts(n)
    BY <1>b, <2>1, <2>2, <2>3, <2>4, <2>6 DEF OwnExact, Shows
  <2> QED
    BY <2>5, <2>6
<1>7. ASSUME EndCensus(n) PROVE Goal
  <2>1. /\ job[n].at = "push" /\ job'[n] = [job[n] EXCEPT !.at = "status"]
        /\ ctr'[n] = IF n \in Leaves /\ Vacated(n, n) THEN Cleared(ctr[n]) ELSE ctr[n]
        /\ clean'[n] = (clean[n] /\ ~(n \in Leaves /\ Vacated(n, n)))
    BY <1>a, <1>7 DEF EndCensus
  <2>2. ~(n \in Leaves /\ Vacated(n, n))
    BY DEF Vacated, JobShape
  <2>3. ctr'[n] = ctr[n] /\ clean'[n] = clean[n]
    BY <1>a, <2>1, <2>2
  <2>4. /\ job'[n].at = "status" /\ job'[n].mine = job[n].mine /\ job'[n].todo = {}
        /\ Done(n)' = Done(n)
    BY <1>a, <1>b, <2>1 DEF Jobs, ListShape, Done
  <2>5. ListShape(n)'
    BY <2>4 DEF ListShape
  <2> QED
    BY <1>b, <2>1, <2>3, <2>4, <2>5 DEF OwnExact, Shows
<1>8. ASSUME NewStatus(n) PROVE Goal
  <2>1. job'[n] = [IdleJob(n) EXCEPT !.at = "topo"]
    BY <1>a, <1>8 DEF NewStatus
  <2>2. job'[n].at = "topo" /\ job'[n].mine = {} /\ job'[n].todo = {}
    BY <2>1 DEF IdleJob
  <2>3. n = Main => ctr' = ctr
    BY <1>8 DEF NewStatus, CountsOwnClients
  <2> QED
    BY <1>e, <2>2, <2>3
<1>9. ASSUME NEW c \in Clients, RouteToLeaf(n, c) PROVE Goal
  <2>1. /\ job[n].at = "route" /\ c \in job[n].todo /\ job[n].home[c] # n
        /\ job'[n].at = "route" /\ job'[n].todo = job[n].todo \ {c}
        /\ job'[n].home = [job[n].home EXCEPT ![c] = n] /\ job'[n].mine = job[n].mine
        /\ ctr' = ctr /\ clean' = clean
    BY <1>a, <1>9 DEF RouteToLeaf, Jobs
  <2>2. c \notin job[n].mine
    BY <1>b, <2>1 DEF ListShape
  <2>3. Done(n)' = Done(n)
    BY <2>1, <2>2 DEF Done
  <2>4. ListShape(n)'
    BY <1>a, <1>b, <2>1 DEF ListShape, Jobs
  <2> QED
    BY <1>b, <2>1, <2>3, <2>4 DEF OwnExact, Shows
<1>10. ASSUME NEW c \in Clients, AddOwn(n, c) PROVE Goal
  <2>1. /\ job[n].at = "route" /\ c \in job[n].todo /\ job[n].home[c] = n
        /\ job'[n].at = "route" /\ job'[n].todo = job[n].todo \ {c}
        /\ job'[n].home = job[n].home /\ job'[n].mine = job[n].mine
        /\ ctr'[n] = OwnCounted(n, ctr[n]) /\ clean' = clean
    BY <1>a, <1>10 DEF AddOwn, Jobs
  <2>2. /\ c \in job[n].mine /\ c \notin Done(n) /\ Done(n)' = Done(n) \cup {c}
        /\ Done(n) \in SUBSET Clients
    BY <1>a, <1>b, <2>1 DEF ListShape, Done, Jobs
  <2>3. /\ Cardinality(Done(n)') = Cardinality(Done(n)) + 1 /\ Cardinality(Done(n)) \in Nat
        /\ Done(n) = {} => Cardinality(Done(n)') = 1
    <3>1. /\ Cardinality(Done(n) \cup {c}) = Cardinality(Done(n)) + 1
          /\ Cardinality(Done(n)) \in Nat
      BY <2>2, OneMore
    <3>2. Cardinality(Done(n)') = Cardinality(Done(n)) + 1
      BY <2>2, <3>1
    <3>3. Done(n) = {} => Cardinality(Done(n)) = 0
      BY <1>c
    <3> QED
      BY <3>1, <3>2, <3>3
  <2>4. ListShape(n)'
    BY <1>b, <2>1 DEF ListShape
  <2>5. \A k \in Counters :
            /\ Counted(k).total = k.total + 1 /\ Counted(k).split = k.split + 1
            /\ Counted(k).reset = k.reset /\ Counted(k).pending = k.pending
    BY DEF Counted, Counters
  <2>6. CASE n = Main
    <3>1. ctr'[n] = Counted(ctr[n])
      <4>1. ~ForceLoad(n) /\ ~PushedByParent(n)
        BY <2>6 DEF ForceLoad, PushedByParent
      <4>2. ~ctr[n].pending
        BY <1>b, <2>6 DEF OwnExact, CountsHere
      <4> QED
        BY <2>1, <4>1, <4>2 DEF OwnCounted
    <3>2. ctr'[n].total = ctr[n].total + 1 /\ ctr'[n].split = ctr[n].split + 1
          /\ ctr'[n].pending = ctr[n].pending
      BY <1>a, <2>5, <3>1
    <3> QED
      BY <1>b, <2>1, <2>3, <2>4, <2>6, <3>2 DEF OwnExact, Shows, CountsHere
  <2>7. CASE n # Main /\ CountsHere(n) /\ clean[n]
    <3>1. ~ForceLoad(n) /\ PushedByParent(n)
      BY <2>7 DEF CountsHere, ForceLoad, PushedByParent
    <3>2. CASE Done(n) = {}
      <4> DEFINE k == [Cleared(ctr[n]) EXCEPT !.pending = FALSE]
      <4>1. ~ctr[n].reset
        BY <1>b, <2>1, <2>7, <3>2 DEF OwnExact
      <4>2. ctr'[n] = Counted(k)
        BY <2>1, <3>1, <4>1 DEF OwnCounted
      <4>3. k \in Counters
        BY <1>a, CounterTypes, CounterFields
      <4>4. k.total = 0 /\ k.split = 0 /\ k.reset /\ ~k.pending
        BY <1>a DEF Cleared, Counters
      <4> HIDE DEF k
      <4>5. /\ ctr'[n].total = 1 /\ ctr'[n].split = 1
            /\ ctr'[n].reset = k.reset /\ ctr'[n].pending = k.pending
        <5>1. /\ Counted(k).total = k.total + 1 /\ Counted(k).split = k.split + 1
              /\ Counted(k).reset = k.reset /\ Counted(k).pending = k.pending
          BY <2>5, <4>3
        <5> QED
          BY <4>2, <4>4, <5>1
      <4> QED
        BY <2>1, <2>2, <2>3, <2>4, <2>7, <3>2, <4>4, <4>5 DEF OwnExact, Shows
    <3>3. CASE Done(n) # {}
      <4>1. ctr[n].reset /\ ~ctr[n].pending /\ Shows(n, Done(n))
        BY <1>b, <2>1, <2>7, <3>3 DEF OwnExact
      <4>2. ctr'[n] = Counted(ctr[n])
        BY <2>1, <3>1, <4>1 DEF OwnCounted
      <4>3. /\ ctr'[n].total = ctr[n].total + 1 /\ ctr'[n].split = ctr[n].split + 1
            /\ ctr'[n].reset = ctr[n].reset /\ ctr'[n].pending = ctr[n].pending
        BY <1>a, <2>5, <4>2
      <4> QED
        BY <2>1, <2>2, <2>3, <2>4, <2>7, <4>1, <4>3 DEF OwnExact, Shows
    <3> QED
      BY <3>2, <3>3
  <2> QED
    BY <2>1, <2>4, <2>6, <2>7 DEF OwnExact
<1>11. ASSUME n = Main, FinishMain PROVE Goal
  <2>1. job'[n] = IdleJob(n) /\ ctr' = ctr
    BY <1>a, <1>11 DEF FinishMain
  <2> QED
    BY <1>d, <1>e, <2>1
<1>12. ASSUME n = Main, ReloadMain PROVE Goal
  <2>1. job' = job /\ job[n].at = "idle" /\ ctr'[n] = FreshCounters
    BY <1>a, <1>12 DEF ReloadMain
  <2>2. ~ctr'[n].pending
    BY <2>1 DEF FreshCounters
  <2> QED
    BY <1>b, <2>1, <2>2 DEF ListShape, OwnExact
<1>13. ASSUME n \in Leaves, FinishLeaf(n) PROVE Goal
  <2>1. job'[n] = IdleJob(n)
    BY <1>a, <1>13 DEF FinishLeaf
  <2> QED
    BY <1>d, <1>e, <1>13, <2>1
<1>14. ASSUME n \in Leaves, UnloadLeaf(n) PROVE Goal
  <2>1. job'[n] = job[n] /\ job[n].at = "idle"
    BY <1>a, <1>14 DEF UnloadLeaf
  <2> QED
    BY <1>b, <1>e, <1>14, <2>1 DEF ListShape
<1>15. ASSUME GiveUp(n) PROVE Goal
  <2>1. job'[n] = IdleJob(n) /\ ctr' = ctr
    BY <1>a, <1>15 DEF GiveUp
  <2> QED
    BY <1>d, <1>e, <2>1
<1> QED
  BY <1>1, <1>2, <1>3, <1>4, <1>5, <1>6, <1>7, <1>8, <1>9, <1>10, <1>11, <1>12, <1>13, <1>14,
     <1>15 DEF OwnStep

LEMMA TargetStep ==
  ASSUME TypeOK, JobShape, OwnInv, [Next]_vars, NEW l \in Leaves, Target' = l
  PROVE  ~clean'[l]
<1> USE MainIsNoLeaf, NoLeafIsNone
<1>a. /\ job \in [Nodes -> Jobs] /\ clean \in [Nodes -> BOOLEAN]
      /\ Main \in Nodes /\ Leaves \subseteq Nodes /\ l \in Nodes /\ l # Main /\ l # NoLeaf
  BY DEF TypeOK, Nodes
<1>b. /\ Target = l => ~clean[l]
      /\ \A m \in Leaves : job[m].target = NoLeaf /\ job[m].queue = {}
  BY DEF OwnInv, JobShape
<1>0. CASE UNCHANGED vars
  BY <1>0, <1>b DEF vars, Target
<1>1. ASSUME NEW n \in Nodes, BeginCycle(n) PROVE ~clean'[l]
  <2>1. Target = l
    BY <1>a, <1>1 DEF BeginCycle, Target, Jobs
  <2> QED
    BY <1>a, <1>b, <1>1, <2>1 DEF BeginCycle, Target
<1>2. ASSUME NEW n \in Nodes,
             PrepareDevices(n) \/ RequestFails(n) \/ DeviceListFails(n) \/ EndRouting(n)
      PROVE  ~clean'[l]
  <2>1. \E a \in Stages : job' = [job EXCEPT ![n].at = a]
    BY <1>2 DEF PrepareDevices, RequestFails, DeviceListFails, EndRouting, Stages
  <2>2. Target' = Target
    BY <1>a, <2>1 DEF Target, Jobs
  <2>3. clean' = clean
    BY <1>2 DEF PrepareDevices, RequestFails, DeviceListFails, EndRouting
  <2> QED
    BY <1>b, <2>2, <2>3
<1>3. ASSUME NEW n \in Nodes, ReadDeviceList(n) PROVE ~clean'[l]
  BY <1>a, <1>b, <1>3 DEF ReadDeviceList, Target, Jobs
<1>4. ASSUME NEW n \in Nodes, StampCensus(n) PROVE ~clean'[l]
  BY <1>a, <1>b, <1>4 DEF StampCensus, Target, Jobs
<1>5. ASSUME NEW n \in Nodes, EndCensus(n) PROVE ~clean'[l]
  BY <1>a, <1>b, <1>5 DEF EndCensus, Target, Jobs
<1>6. ASSUME NEW n \in Nodes, NewStatus(n) PROVE ~clean'[l]
  BY <1>a, <1>b, <1>6 DEF NewStatus, IdleJob, Target, Jobs
<1>7. ASSUME NEW n \in Nodes, NEW c \in Clients,
             RouteToLeaf(n, c) \/ AddOwn(n, c) \/ PushClient(n, c)
      PROVE  ~clean'[l]
  <2>1. job'[Main].target = job[Main].target
    <3>1. CASE RouteToLeaf(n, c)
      BY <1>a, <3>1 DEF RouteToLeaf, Jobs
    <3>2. CASE AddOwn(n, c)
      BY <1>a, <3>2 DEF AddOwn, Jobs
    <3>3. CASE PushClient(n, c)
      BY <1>a, <3>3 DEF PushClient, Jobs
    <3> QED
      BY <1>7, <3>1, <3>2, <3>3
  <2>2. clean' = clean
    BY <1>7 DEF RouteToLeaf, AddOwn, PushClient
  <2> QED
    BY <1>b, <2>1, <2>2 DEF Target
<1>8. ASSUME NEW n \in Nodes, NEW m \in Leaves, StartPush(n, m) PROVE ~clean'[l]
  BY <1>a, <1>b, <1>8 DEF StartPush, Target, Jobs, Nodes
<1>9. CASE FinishMain
  BY <1>a, <1>9 DEF FinishMain, IdleJob, Target
<1>10. CASE ReloadMain
  BY <1>b, <1>10 DEF ReloadMain, Target
<1>11. ASSUME NEW m \in Leaves, FinishLeaf(m) \/ CensusExpires(m) \/ LoadLeaf(m) PROVE ~clean'[l]
  BY <1>a, <1>b, <1>11 DEF FinishLeaf, CensusExpires, LoadLeaf, Target
<1>12. ASSUME NEW m \in Leaves, UnloadLeaf(m) PROVE ~clean'[l]
  <2>1. Target = l /\ m # l
    BY <1>a, <1>12 DEF UnloadLeaf, WithoutLeaf, Target, Jobs
  <2> QED
    BY <1>a, <1>b, <1>12, <2>1 DEF UnloadLeaf
<1>13. ASSUME NEW n \in Nodes, GiveUp(n) PROVE ~clean'[l]
  BY <1>a, <1>b, <1>13 DEF GiveUp, IdleJob, Target, Jobs
<1> QED
  BY <1>0, <1>1, <1>2, <1>3, <1>4, <1>5, <1>6, <1>7, <1>8, <1>9, <1>10, <1>11, <1>12,
     <1>13 DEF Next, Refresh

LEMMA OwnInvInit == Init => OwnInv
<1> SUFFICES ASSUME Init PROVE OwnInv
  OBVIOUS
<1>1. \A n \in Nodes : /\ job[n] = IdleJob(n) /\ ctr[n] = FreshCounters
                       /\ job[n].at = "idle" /\ job[n].todo = {} /\ job[n].mine = {}
                       /\ job[n].target = NoLeaf /\ ~ctr[n].pending
  BY DEF Init, IdleJob, FreshCounters
<1>2. Target = NoLeaf
  BY <1>1 DEF Target, Nodes
<1> QED
  BY <1>1, <1>2, NoLeafIsNone DEF OwnInv, ListShape, OwnExact

LEMMA OwnInvStep == TypeOK /\ JobShape /\ OwnInv /\ [Next]_vars => OwnInv'
<1> SUFFICES ASSUME TypeOK, JobShape, OwnInv, [Next]_vars PROVE OwnInv'
  OBVIOUS
<1>1. kind' = kind
  BY KindIsRigid
<1>2. ASSUME NEW n \in Nodes PROVE ListShape(n)' /\ (CountsHere(n)' => OwnExact(n)')
  <2>1. CountsHere(n)' <=> CountsHere(n)
    BY <1>1 DEF CountsHere
  <2>2. CASE OwnStep(n)
    BY <1>1, <2>1, <2>2, OwnStepKeeps
  <2>3. CASE ForeignStep(n)
    BY <2>1, <2>3, ForeignKeeps
  <2> QED
    BY <2>2, <2>3, OwnOrForeign
<1>3. \A l \in Leaves : Target' = l => ~clean'[l]
  BY TargetStep
<1> QED
  BY <1>2, <1>3 DEF OwnInv

\* When a node has counted the clients of its own list and nobody else wrote its
\* counters meanwhile, they count each of them once, whatever a push or an earlier
\* cycle had left in them (reset_counter, add_device and its first own client).
THEOREM OwnCensusKept == Spec => []OwnCensusExact
<1>1. OwnInv => OwnCensusExact
  <2> SUFFICES ASSUME OwnInv, NEW n \in Nodes,
                      job[n].at \in {"push", "status"}, job[n].mine # {},
                      n = Main \/ kind[n] = "listing", clean[n]
               PROVE  Shows(n, job[n].mine)
    BY DEF OwnCensusExact, Shows
  <2>1. CountsHere(n) /\ Done(n) = job[n].mine
    BY DEF OwnInv, ListShape, CountsHere, Done, Nodes
  <2> QED
    BY <2>1 DEF OwnInv, OwnExact
<1> QED
  BY <1>1, TypeInit, TypeStep, ShapeInit, ShapeStep, OwnInvInit, OwnInvStep, PTL DEF Spec

-----------------------------------------------------------------------------
(* Leaves that count for themselves, and leaves that the graph lists. *)

LEMMA SelfCountStep ==
  ASSUME TypeOK, JobShape, [Next]_vars, NEW l \in Leaves, kind[l] = "selfcount",
         ctr'[l].split # ctr[l].split
  PROVE  job[l].at = "status" \/ l \notin loaded'
<1> USE MainIsNoLeaf
<1> DEFINE Goal == job[l].at = "status" \/ l \notin loaded'
<1> SUFFICES Goal
  OBVIOUS
<1>a. /\ ctr \in [Nodes -> Counters] /\ l \in Nodes /\ l # Main /\ ctr[l] \in Counters
      /\ ForceLoad(l) /\ CountsOwnClients(l) /\ ~PushedByParent(l)
  BY DEF TypeOK, Nodes, ForceLoad, CountsOwnClients, PushedByParent
<1>0. CASE UNCHANGED vars
  BY <1>0 DEF vars
<1>1. ASSUME NEW n \in Nodes, BeginCycle(n) PROVE Goal
  BY <1>a, <1>1 DEF BeginCycle, Counters
<1>2. ASSUME NEW n \in Nodes, PrepareDevices(n) PROVE Goal
  BY <1>a, <1>2 DEF PrepareDevices, CycleReset
<1>3. ASSUME NEW n \in Nodes, RequestFails(n) PROVE Goal
  BY <1>a, <1>3 DEF RequestFails
<1>4. ASSUME NEW n \in Nodes, DeviceListFails(n) PROVE Goal
  BY <1>a, <1>4 DEF DeviceListFails
<1>5. ASSUME NEW n \in Nodes, ReadDeviceList(n) PROVE Goal
  BY <1>a, <1>5 DEF ReadDeviceList
<1>6. ASSUME NEW n \in Nodes, EndRouting(n) PROVE Goal
  BY <1>a, <1>6 DEF EndRouting, NobodyCounts
<1>7. ASSUME NEW n \in Nodes, StampCensus(n) PROVE Goal
  BY <1>a, <1>7 DEF StampCensus, Counters
<1>8. ASSUME NEW n \in Nodes, EndCensus(n) PROVE Goal
  BY <1>a, <1>8 DEF EndCensus, Vacated
<1>9. ASSUME NEW n \in Nodes, NewStatus(n) PROVE Goal
  BY <1>a, <1>9 DEF NewStatus, CountsOwnClients
<1>10. ASSUME NEW n \in Nodes, NEW c \in Clients, RouteToLeaf(n, c) PROVE Goal
  BY <1>a, <1>10 DEF RouteToLeaf
<1>11. ASSUME NEW n \in Nodes, NEW c \in Clients, AddOwn(n, c) PROVE Goal
  BY <1>a, <1>11 DEF AddOwn, OwnCounted
<1>12. ASSUME NEW n \in Nodes, NEW c \in Clients, PushClient(n, c) PROVE Goal
  BY <1>a, <1>12 DEF PushClient, PushCounted
<1>13. ASSUME NEW n \in Nodes, NEW m \in Leaves, StartPush(n, m) PROVE Goal
  BY <1>a, <1>13 DEF StartPush, PushCleared
<1>14. ASSUME FinishMain PROVE Goal
  BY <1>a, <1>14 DEF FinishMain
<1>15. ASSUME ReloadMain PROVE Goal
  BY <1>a, <1>15 DEF ReloadMain, Counters
<1>16. ASSUME NEW m \in Leaves, FinishLeaf(m) PROVE Goal
  BY <1>a, <1>16 DEF FinishLeaf, LeafCount, Counters
<1>17. ASSUME NEW m \in Leaves, CensusExpires(m) PROVE Goal
  BY <1>a, <1>17 DEF CensusExpires, Counters
<1>18. ASSUME NEW m \in Leaves, LoadLeaf(m) PROVE Goal
  BY <1>a, <1>18 DEF LoadLeaf
<1>19. ASSUME NEW m \in Leaves, UnloadLeaf(m) PROVE Goal
  BY <1>a, <1>19 DEF UnloadLeaf
<1>20. ASSUME NEW n \in Nodes, GiveUp(n) PROVE Goal
  BY <1>20 DEF GiveUp
<1> QED
  BY <1>0, <1>1, <1>2, <1>3, <1>4, <1>5, <1>6, <1>7, <1>8, <1>9, <1>10, <1>11,
     <1>12, <1>13, <1>14, <1>15, <1>16, <1>17, <1>18, <1>19, <1>20 DEF Next, Refresh

\* The main never blanks, fills or tops up the counters of a leaf that counts
\* its own clients (_counts_own_clients).
THEOREM SelfCountKept == Spec => SelfCountIsOwn
<1>1. TypeOK /\ PushInv /\ [Next]_vars =>
        [\A l \in Leaves :
           kind[l] = "selfcount" /\ ctr'[l].split # ctr[l].split
             => job[l].at = "status" \/ l \notin loaded']_vars
  BY SelfCountStep DEF PushInv
<1> QED
  BY <1>1, TypeInit, TypeStep, PushInvInit, PushInvStep, PTL DEF Spec, SelfCountIsOwn

LEMMA ListedStep ==
  ASSUME TypeOK, JobShape, [Next]_vars, NEW l \in Leaves, Pushed(l),
         graph[l] # NotListed, job'[l] # job[l]
  PROVE  ctr'[l].split = ctr[l].split
<1> USE MainIsNoLeaf, NoLeafIsNone
<1> DEFINE Goal == ctr'[l].split = ctr[l].split
<1> SUFFICES Goal
  OBVIOUS
<1>a. /\ ctr \in [Nodes -> Counters] /\ l \in Nodes /\ l # Main /\ ctr[l] \in Counters
      /\ job \in [Nodes -> Jobs] /\ Main \in Nodes
      /\ ~CountsOwnClients(l)
  BY DEF TypeOK, Nodes, CountsOwnClients, Pushed
<1>b. /\ job[l].queue = {} /\ job[l].target = NoLeaf /\ job[l].routable = {}
      /\ kind[l] = "silent" => job[l].todo = {}
  BY DEF JobShape
<1>0. CASE UNCHANGED vars
  BY <1>0 DEF vars
<1>1. ASSUME NEW n \in Nodes, BeginCycle(n) PROVE Goal
  BY <1>a, <1>b, <1>1 DEF BeginCycle, Counters
<1>2. ASSUME NEW n \in Nodes, PrepareDevices(n) PROVE Goal
  BY <1>a, <1>b, <1>2 DEF PrepareDevices, CycleReset
<1>3. ASSUME NEW n \in Nodes, RequestFails(n) PROVE Goal
  BY <1>a, <1>b, <1>3 DEF RequestFails
<1>4. ASSUME NEW n \in Nodes, DeviceListFails(n) PROVE Goal
  BY <1>a, <1>b, <1>4 DEF DeviceListFails
<1>5. ASSUME NEW n \in Nodes, ReadDeviceList(n) PROVE Goal
  BY <1>a, <1>b, <1>5 DEF ReadDeviceList
<1>6. ASSUME NEW n \in Nodes, EndRouting(n) PROVE Goal
  BY <1>a, <1>b, <1>6 DEF EndRouting, NobodyCounts
<1>7. ASSUME NEW n \in Nodes, StampCensus(n) PROVE Goal
  BY <1>a, <1>b, <1>7 DEF StampCensus, Counters
<1>8. ASSUME NEW n \in Nodes, EndCensus(n) PROVE Goal
  BY <1>a, <1>b, <1>8 DEF EndCensus, Vacated
<1>9. ASSUME NEW n \in Nodes, NewStatus(n) PROVE Goal
  BY <1>a, <1>b, <1>9 DEF NewStatus
<1>10. ASSUME NEW n \in Nodes, NEW c \in Clients, RouteToLeaf(n, c) PROVE Goal
  BY <1>a, <1>b, <1>10 DEF RouteToLeaf
<1>11. ASSUME NEW n \in Nodes, NEW c \in Clients, AddOwn(n, c) PROVE Goal
  BY <1>a, <1>b, <1>11 DEF AddOwn, OwnCounted, ForceLoad, Pushed
<1>12. ASSUME NEW n \in Nodes, NEW c \in Clients, PushClient(n, c) PROVE Goal
  BY <1>a, <1>b, <1>12 DEF PushClient, PushCounted
<1>13. ASSUME NEW n \in Nodes, NEW m \in Leaves, StartPush(n, m) PROVE Goal
  BY <1>a, <1>b, <1>13 DEF StartPush, PushCleared
<1>14. ASSUME FinishMain PROVE Goal
  BY <1>a, <1>b, <1>14 DEF FinishMain
<1>15. ASSUME ReloadMain PROVE Goal
  BY <1>a, <1>b, <1>15 DEF ReloadMain, Counters
<1>16. ASSUME NEW m \in Leaves, FinishLeaf(m) PROVE Goal
  BY <1>a, <1>b, <1>16 DEF FinishLeaf, LeafCount, Counters
<1>17. ASSUME NEW m \in Leaves, CensusExpires(m) PROVE Goal
  BY <1>a, <1>b, <1>17 DEF CensusExpires, Counters
<1>18. ASSUME NEW m \in Leaves, LoadLeaf(m) PROVE Goal
  BY <1>a, <1>b, <1>18 DEF LoadLeaf
<1>19. ASSUME NEW m \in Leaves, UnloadLeaf(m) PROVE Goal
  BY <1>a, <1>b, <1>19 DEF UnloadLeaf
<1>20. ASSUME NEW n \in Nodes, GiveUp(n) PROVE Goal
  BY <1>20 DEF GiveUp
<1> QED
  BY <1>0, <1>1, <1>2, <1>3, <1>4, <1>5, <1>6, <1>7, <1>8, <1>9, <1>10, <1>11,
     <1>12, <1>13, <1>14, <1>15, <1>16, <1>17, <1>18, <1>19, <1>20 DEF Next, Refresh

\* While the main's graph lists a leaf that it counts for, no step of the
\* leaf's own refresh changes the split counters (updater.py:2231-2240).
THEOREM ListedKept == Spec => ListedLeafKeepsPush
<1>1. TypeOK /\ PushInv /\ [Next]_vars =>
        [\A l \in Leaves :
           kind[l] \in {"silent", "iot"} /\ graph[l] # NotListed /\ job'[l] # job[l]
             => ctr'[l].split = ctr[l].split]_vars
  BY ListedStep DEF PushInv, Pushed
<1> QED
  BY <1>1, TypeInit, TypeStep, PushInvInit, PushInvStep, PTL DEF Spec, ListedLeafKeepsPush

=============================================================================
