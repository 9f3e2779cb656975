---------------------------- MODULE MacReplacement ----------------------------
(***************************************************************************)
(* Replacement of a client's old MACs: mac_replacement.py, and the end of  *)
(* a node's device list in updater.py that calls it.                       *)
(*                                                                         *)
(* A rule associates router names with one client; the MACs seen under     *)
(* them are its group.  Every node reports which MACs of the groups are    *)
(* online, at its own pace.  When every node has a fresh report and one    *)
(* MAC of a group is online, the others are retired: their entities are    *)
(* collected, they are marked as purged, then what was collected is        *)
(* removed.  The lock covers the judgement, not the retirement: lists of   *)
(* other nodes are handled in between.  A list, the judgement at its end   *)
(* and the collection are one step here, and a client's row comes and goes *)
(* with its entities.                                                      *)
(*                                                                         *)
(* An aged report and one that was never made are the same to the code.    *)
(* Mesh nodes among the rows, malformed MACs and unloading a node are left *)
(* out, and so are writes of the store that fail.                          *)
(***************************************************************************)
EXTENDS Naturals, FiniteSets, Sequences, SequencesExt

CONSTANTS
    Nodes,        \* the routers with an updater
    Macs,
    Names,        \* what routers call clients
    NoName,       \* a row without a name
    Keys,         \* the configured clients
    MaxConfigs    \* bound: how often rules are saved

ASSUME NoNameIsNone == NoName \notin Names
ASSUME KeysAreFinite == IsFiniteSet(Keys)
ASSUME BoundIsNat == MaxConfigs \in Nat

VARIABLES
    groups,     \* _groups: configured client -> its names and MACs
    disk,       \* what the store holds
    reports,    \* node -> its fresh report: the MACs online and the doubtful ones
    task,       \* node -> the MACs it retires, those it found entities of, how far it is
    blocked,    \* the purged clients
    shown,      \* MACs with entities in Home Assistant
    configs,    \* how often rules were saved
    online,     \* history: node -> the MACs that the list of its report shows online
    behind,     \* history: node -> those of them joined to a group by a later list
    cut,        \* history: MACs marked and not removed when Home Assistant stopped
    late        \* history: MACs marked by a retirement that had found no entity of theirs

vars == <<groups, disk, reports, task, blocked, shown, configs, online, behind, cut, late>>

Flags == {"on", "off", "?"}
Rows == [mac: Macs, name: Names \cup {NoName}, flag: Flags]
Idle == [at |-> "idle", macs |-> {}, found |-> {}]
NoReport == [fresh |-> FALSE, active |-> {}, unknown |-> {}]
Group == [names: SUBSET Names, macs: SUBSET Macs]

Lists == {R \in SeqOf(Rows, Cardinality(Macs)) :
            \A i, j \in DOMAIN R : R[i].mac = R[j].mac => i = j}
Listed(R) == {R[i].mac : i \in DOMAIN R}
On(R) == {R[i].mac : i \in {j \in DOMAIN R : R[j].flag = "on"}}
KeyOrder == SetToSeq(Keys)

-----------------------------------------------------------------------------
(* async_candidates. *)

\* Mutant: a name of another client is learned.
MatchedTaken(acc, r, k) ==
    LET g == acc.groups[k]
        renamed == r.mac \in g.macs /\ r.name \notin g.names \cup {NoName}
    IN  IF r.name \notin g.names /\ r.mac \notin g.macs THEN acc
        ELSE [groups |-> [acc.groups EXCEPT
                 ![k] = [names |-> IF renamed /\ r.flag = "on" THEN g.names \cup {r.name} ELSE g.names,
                         macs |-> g.macs \cup {r.mac}]],
              active |-> acc.active \cup (IF r.flag = "on" THEN {r.mac} ELSE {}),
              unknown |-> acc.unknown \cup (IF r.flag = "?" THEN {r.mac} ELSE {})]

\* One row against one group: a name of another client makes the whole group
\* doubtful, a new name of a known MAC that is online is learned, and so is a
\* new MAC under a known name.
Matched(acc, r, k) ==
    LET g == acc.groups[k]
        renamed == r.mac \in g.macs /\ r.name \notin g.names \cup {NoName}
        taken == \E j \in DOMAIN acc.groups \ {k} : r.name \in acc.groups[j].names
    IN  IF r.name \notin g.names /\ r.mac \notin g.macs THEN acc
        ELSE IF renamed /\ taken THEN [acc EXCEPT !.unknown = @ \cup g.macs]
        ELSE [groups |-> [acc.groups EXCEPT
                 ![k] = [names |-> IF renamed /\ r.flag = "on" THEN g.names \cup {r.name} ELSE g.names,
                         macs |-> g.macs \cup {r.mac}]],
              active |-> acc.active \cup (IF r.flag = "on" THEN {r.mac} ELSE {}),
              unknown |-> acc.unknown \cup (IF r.flag = "?" THEN {r.mac} ELSE {})]

\* A row against all groups, in their order.
MatchedAll(acc, r) ==
    LET upTo[i \in 0..Len(KeyOrder)] ==
          IF i = 0 THEN acc
          ELSE IF KeyOrder[i] \in DOMAIN groups THEN Matched(upTo[i - 1], r, KeyOrder[i])
          ELSE upTo[i - 1]
    IN  upTo[Len(KeyOrder)]

\* The rows in the order of the list.
Learned(R) ==
    LET upTo[i \in 0..Len(R)] ==
          IF i = 0 THEN [groups |-> groups, active |-> {}, unknown |-> {}]
          ELSE MatchedAll(upTo[i - 1], R[i])
    IN  upTo[Len(R)]

\* Every node has a fresh report, and they name one MAC of a group online: the
\* others of that group, doubtful and suppressed ones excepted.
Candidates(n, rep, gs) ==
    LET active == UNION {rep[i].active : i \in Nodes}
        unknown == UNION {rep[i].unknown : i \in Nodes}
    IN  IF \E i \in Nodes : ~rep[i].fresh THEN {}
        ELSE {m \in Macs \ (blocked \cup active \cup unknown) :
                \E k \in DOMAIN gs : m \in gs[k].macs /\ Cardinality(gs[k].macs \cap active) = 1}

-----------------------------------------------------------------------------
NoGroups == [k \in {} |-> {}]

Init ==
    /\ groups = NoGroups /\ disk = NoGroups
    /\ reports = [n \in Nodes |-> NoReport]
    /\ task = [n \in Nodes |-> Idle]
    /\ blocked = {} /\ shown = {}
    /\ configs = 0
    /\ online = [n \in Nodes |-> {}]
    /\ behind = [n \in Nodes |-> {}]
    /\ cut = {} /\ late = {}

\* The reports of nodes S are gone, and with them what they stand for.
NoReports(S) ==
    /\ reports' = [n \in Nodes |-> IF n \in S THEN NoReport ELSE reports[n]]
    /\ online' = [n \in Nodes |-> IF n \in S THEN {} ELSE online[n]]
    /\ behind' = [n \in Nodes |-> IF n \in S THEN {} ELSE behind[n]]

\* Mutant: the reports on the old groups stay.
ConfigureKeepsReports(rules, known) ==
    LET gs == [k \in DOMAIN rules |->
                 [names |-> rules[k],
                  macs |-> known[k] \cup (IF k \in DOMAIN groups THEN groups[k].macs ELSE {})]]
    IN  /\ configs < MaxConfigs
        /\ configs' = configs + 1
        /\ groups' = gs /\ disk' = gs
        /\ UNCHANGED <<reports, task, blocked, shown, online, behind, cut, late>>

\* async_configure: the rules are replaced, a client keeps its MACs, and those
\* join that rows or the registry know under one of its names.
Configure(rules, known) ==
    LET gs == [k \in DOMAIN rules |->
                 [names |-> rules[k],
                  macs |-> known[k] \cup (IF k \in DOMAIN groups THEN groups[k].macs ELSE {})]]
    IN  /\ configs < MaxConfigs
        /\ configs' = configs + 1
        /\ groups' = gs /\ disk' = gs
        /\ NoReports(Nodes)
        /\ UNCHANGED <<task, blocked, shown, cut, late>>

\* MACs that are in a group now and were not before.
Joined(gs) == UNION {gs[k].macs \ groups[k].macs : k \in DOMAIN gs}

\* A node's device list, its rows first: a client that is online is no longer
\* suppressed, and one that is not suppressed gets its row and entities.
Census(n, c) ==
    /\ task[n].at = "idle"
    /\ blocked' = blocked \ c.on
    /\ shown' = shown \cup (c.listed \ blocked')
    /\ cut' = cut \ c.on
    /\ late' = late \ c.on

\* Its end, async_candidates: the groups learn, the report is recorded, and
\* MACs are found to retire.  async_retire_macs begins at once: it collects the
\* entities these have by now, and waits for the lock of the purged clients.
Judge(n, c) ==
    LET new == c.learned
        rep == [reports EXCEPT ![n] = [fresh |-> TRUE, active |-> new.active, unknown |-> new.unknown]]
        macs == Candidates(n, rep, new.groups)
    IN  /\ groups' = new.groups
        /\ disk' = IF new.groups = groups THEN disk ELSE new.groups
        /\ reports' = rep
        /\ task' = [task EXCEPT ![n] =
                      IF macs = {} THEN Idle
                      ELSE [at |-> "mark", macs |-> macs, found |-> macs \cap shown']]

List(n, c) ==
    /\ Census(n, c) /\ DOMAIN groups # {}
    /\ Judge(n, c)
    /\ online' = [online EXCEPT ![n] = c.on]
    /\ behind' = [i \in Nodes |->
                    IF i = n THEN {} ELSE behind[i] \cup (Joined(groups') \cap online[i])]
    /\ UNCHANGED configs

\* Without rules nothing is reported.
ListWithoutRules(n, c) ==
    /\ Census(n, c) /\ DOMAIN groups = {}
    /\ UNCHANGED <<groups, disk, reports, task, configs, online, behind>>

\* The MACs are marked.  An entity that another node's list created since the
\* collection is not among those to remove.
Mark(n) ==
    /\ task[n].at = "mark"
    /\ blocked' = blocked \cup task[n].macs
    /\ late' = late \cup (shown \cap (task[n].macs \ task[n].found))
    /\ task' = [task EXCEPT ![n].at = "remove"]
    /\ UNCHANGED <<groups, disk, reports, shown, configs, online, behind, cut>>

\* Every node forgets the MACs, and the entities that were collected go.
Forget(n) ==
    /\ task[n].at = "remove"
    /\ shown' = shown \ task[n].found
    /\ task' = [task EXCEPT ![n] = Idle]
    /\ UNCHANGED <<groups, disk, reports, blocked, configs, online, behind, cut, late>>

\* A node stops answering, and its report gets too old.
Age(n) ==
    /\ reports[n].fresh
    /\ NoReports({n})
    /\ UNCHANGED <<groups, disk, task, blocked, shown, configs, cut, late>>

\* Home Assistant restarts: rules and purged clients are read again.
Restart ==
    /\ groups' = disk
    /\ NoReports(Nodes)
    /\ task' = [n \in Nodes |-> Idle]
    /\ cut' = blocked \cap shown /\ late' = {}
    /\ UNCHANGED <<disk, blocked, shown, configs>>

\* What a list says: who is listed, who is online, what the groups learn.
Contents == {[on |-> On(R), listed |-> Listed(R), learned |-> Learned(R)] : R \in Lists}

\* Mutant: the removal comes before the mark.
RetireUnmarked(n) ==
    \/ /\ task[n].at = "mark"
       /\ shown' = shown \ task[n].found
       /\ task' = [task EXCEPT ![n].at = "remove"]
       /\ UNCHANGED <<groups, disk, reports, blocked, configs, online, behind, cut, late>>
    \/ /\ task[n].at = "remove"
       /\ blocked' = blocked \cup task[n].macs
       /\ late' = late \cup (shown \cap (task[n].macs \ task[n].found))
       /\ task' = [task EXCEPT ![n] = Idle]
       /\ UNCHANGED <<groups, disk, reports, shown, configs, online, behind, cut>>

Retire(n) == Mark(n) \/ Forget(n)

\* Rules: no client without a name, no name for two clients.
Rules == {r \in UNION {[K -> SUBSET Names \ {{}}] : K \in SUBSET Keys} :
            \A j, k \in DOMAIN r : j # k => r[j] \cap r[k] = {}}

Next ==
    \/ \E rules \in Rules : \E known \in [DOMAIN rules -> SUBSET Macs] : Configure(rules, known)
    \/ \E c \in Contents, n \in Nodes : List(n, c) \/ ListWithoutRules(n, c)
    \/ \E n \in Nodes : Retire(n) \/ Age(n)
    \/ Restart

Spec == Init /\ [][Next]_vars

-----------------------------------------------------------------------------
(* Properties. *)

\* Type invariant; no name belongs to two clients, and a restart reads back what was
\* known (README.md: "The configuration and known MACs persist across restarts").
TypeOK ==
    /\ DOMAIN groups \subseteq Keys
    /\ groups \in [DOMAIN groups -> Group]
    /\ \A j, k \in DOMAIN groups : j # k => groups[j].names \cap groups[k].names = {}
    /\ disk = groups
    /\ reports \in [Nodes -> [fresh: BOOLEAN, active: SUBSET Macs, unknown: SUBSET Macs]]
    /\ task \in [Nodes -> [at: {"idle", "mark", "remove"}, macs: SUBSET Macs,
                           found: SUBSET Macs]]
    /\ blocked \subseteq Macs /\ shown \subseteq Macs
    /\ configs \in 0..MaxConfigs
    /\ online \in [Nodes -> SUBSET Macs] /\ behind \in [Nodes -> SUBSET Macs]
    /\ cut \subseteq Macs /\ late \subseteq Macs

\* A node decides to retire MAC m.
Retires(n, m) == task[n].at = "idle" /\ task'[n].at = "mark" /\ m \in task'[n].macs

\* README.md, automatic replacement: "The currently connected MAC remains" and
\* "Simultaneous online MACs ... prevent replacement".  A MAC that the last list
\* of any node shows online is not retired, whenever that list was handled.
OnlineMacRemains ==
    [][\A n \in Nodes, m \in Macs :
            Retires(n, m) => \A i \in Nodes : m \notin online'[i]]_vars

\* The same, but for a MAC that a later list joined to the group: the reports
\* from before do not speak of it.
KnownOnlineMacRemains ==
    [][\A n \in Nodes, m \in Macs :
            Retires(n, m) => \A i \in Nodes : m \notin online'[i] \ behind'[i]]_vars

\* A suppressed MAC has no entities, but for those that a retirement has found
\* and has yet to remove: no list brings them back meanwhile.  Excepted are a MAC
\* whose entities came while its retirement waited to mark it (async_retire_macs
\* collects first), and one that was marked when Home Assistant stopped: either
\* keeps them, and is never judged again, until a list shows it online.
RetiredIsGone ==
    blocked \cap shown \subseteq cut \cup late \cup UNION {task[n].found : n \in Nodes}
=============================================================================
