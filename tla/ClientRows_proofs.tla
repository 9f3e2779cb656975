-------------------------- MODULE ClientRows_proofs --------------------------
(***************************************************************************)
(* Proofs about ClientRows, for every mesh, every set of clients and every *)
(* choice of force-load leaves.                                            *)
(***************************************************************************)
EXTENDS ClientRows, TLAPS

(* The inductive invariant. *)

\* Only an updater in hass.data has rows, a refresh, or clients waiting for it.
RowsAreUp ==
    /\ \A n \in Nodes, c \in Clients : row[n][c] # "none" => Up(n)
    /\ \A n \in Nodes : job[n].at # "idle" => Up(n)
    /\ \A n \in Nodes : job[n].at = "add" => job[n].mac \in Clients
    /\ \A q \in queue : q[3] = "live" => Up(q[1])

\* A purge that has not marked its client yet has taken every updater but for those
\* that came after it.
PurgeShape ==
    /\ purge.at = "idle" => purge = NoPurge
    /\ purge.at # "idle" => purge.mac \in Clients
    /\ purge.at = "taken" =>
          \A n \in Nodes : Up(n) => purge.todo[n] = "live" \/ <<n, purge.mac>> \in late

IInv == TypeOK /\ RowsAreUp /\ PurgeShape /\ NoStaleCopy /\ RestoredOnce /\ PurgedHasNoRow

(* The type invariant, in the part that steps on rows disturb and the rest. *)

RowTypes ==
    /\ row \in [Nodes -> [Clients -> {"none", "live", "restored"}]]
    /\ owner \in [Nodes -> Tables]
    /\ moved \in [Nodes -> SUBSET Clients]

RowsFit ==
    /\ \A n \in Nodes, c \in Clients : row[n][c] = "none" <=> owner[n][c] = NoNode
    /\ \A n \in Nodes : \A c \in moved[n] : row[n][c] # "none"

DiskTypes ==
    /\ force \subseteq Leaves
    /\ store \in [Nodes -> Tables] /\ old \in [Nodes -> Tables]
    /\ owed \subseteq Clients

FlowTypes ==
    /\ up \in [Nodes -> {"out", "first", "ready"}]
    /\ job \in [Nodes -> Jobs]
    /\ queue \subseteq Leaves \X Clients \X {"live", "old"}
    /\ purge \in Purges

HistoryTypes ==
    /\ blind \subseteq Nodes \X Nodes /\ missed \subseteq Nodes \X Nodes \X Clients
    /\ late \subseteq Nodes \X Clients

LEMMA TypeParts == TypeOK <=> RowTypes /\ RowsFit /\ DiskTypes /\ FlowTypes /\ HistoryTypes
BY DEF TypeOK, RowTypes, RowsFit, DiskTypes, FlowTypes, HistoryTypes

LEMMA TypePartsNext ==
  (RowTypes /\ RowsFit /\ DiskTypes /\ FlowTypes /\ HistoryTypes)' => TypeOK'
BY DEF TypeOK, RowTypes, RowsFit, DiskTypes, FlowTypes, HistoryTypes

LEMMA NodeFacts ==
  /\ Main \in Nodes /\ Leaves \subseteq Nodes /\ NoNode \notin Nodes
  /\ Empty \in Tables /\ IdleJob \in Jobs /\ NoPurge \in Purges
  /\ \A n \in Nodes : NoPurge.todo[n] = "no"
  /\ NoPurge.at = "idle" /\ NoPurge.mac = NoClient
BY NoNodeIsNone DEF Nodes, Empty, Tables, IdleJob, Jobs, NoPurge, Purges

-----------------------------------------------------------------------------
(* Steps on the rows. *)

\* Copies of a client stay in order when nobody is left with a restored one, or
\* when its rows only stay or go, with the marks of those that stay.
LEMMA CopiesKeep ==
  ASSUME IInv, RowTypes', StillMissed \subseteq missed',
         \A c \in Clients :
            \/ \A m \in Nodes : row'[m][c] # "restored"
            \/ \A m \in Nodes : /\ row'[m][c] \in {row[m][c], "none"}
                                /\ c \in moved[m] => c \in moved'[m] \/ row'[m][c] = "none"
  PROVE  NoStaleCopy' /\ RestoredOnce'
<1>1. ASSUME NEW n \in Nodes, NEW m \in Nodes, NEW c \in Clients,
             <<n, m, c>> \in missed, row'[n][c] = "restored", row'[m][c] # "none"
      PROVE  <<n, m, c>> \in missed'
  BY <1>1 DEF StillMissed
<1>2. NoStaleCopy'
  <2> SUFFICES ASSUME NEW n \in Nodes, NEW m \in Nodes, NEW c \in Clients,
                      row'[n][c] = "live", row'[m][c] = "restored"
               PROVE  <<m, n, c>> \in missed'
    BY DEF NoStaleCopy
  <2>1. row[n][c] = "live" /\ row[m][c] = "restored"
    OBVIOUS
  <2>2. <<m, n, c>> \in missed
    BY <2>1 DEF IInv, NoStaleCopy
  <2> QED
    BY <1>1, <2>2
<1>3. RestoredOnce'
  <2> SUFFICES ASSUME NEW n \in Nodes, NEW m \in Nodes, NEW c \in Clients, n # m,
                      row'[n][c] = "restored", row'[m][c] = "restored"
               PROVE  \/ c \in moved'[n] \/ c \in moved'[m]
                      \/ <<n, m, c>> \in missed' \/ <<m, n, c>> \in missed'
    BY DEF RestoredOnce
  <2>1. row[n][c] = "restored" /\ row[m][c] = "restored"
    OBVIOUS
  <2>2. \/ c \in moved[n] \/ c \in moved[m]
        \/ <<n, m, c>> \in missed \/ <<m, n, c>> \in missed
    BY <2>1 DEF IInv, RestoredOnce
  <2> QED
    BY <1>1, <2>2
<1> QED
  BY <1>2, <1>3

\* Purged clients stay out when no row of one appears and the purge is left alone.
LEMMA PurgedKeep ==
  ASSUME IInv, purge' = purge, late \subseteq late',
         \A n \in Nodes : \A c \in owed' :
            row'[n][c] # "none" => c \in owed /\ row[n][c] # "none"
  PROVE  PurgedHasNoRow'
BY DEF IInv, PurgedHasNoRow

\* What a step that leaves the table of rows alone keeps.
LEMMA RowsUnchanged ==
  ASSUME IInv, UNCHANGED <<row, moved, missed>>
  PROVE  NoStaleCopy' /\ RestoredOnce'
BY DEF IInv, NoStaleCopy, RestoredOnce

\* The marks of a client go in the nodes of M.
MarksGo(M, c) ==
    /\ moved' \in [Nodes -> SUBSET Clients]
    /\ \A m \in Nodes : \A d \in Clients :
          d \in moved'[m] <=> d \in moved[m] /\ (m \in M => d # c)

\* A report leaves the node's row, no other node's restored one, and the rows of
\* the other clients as they were.
LEMMA AddRowIs ==
  ASSUME IInv, NEW n \in Nodes \cup {NoNode}, NEW c \in Clients, AddRow(n, c),
         NEW M \in SUBSET Nodes, M = Stale(n, c) \/ M = Stale(n, c) \cup {n},
         MarksGo(M, c)
  PROVE  /\ RowTypes' /\ RowsFit'
         /\ \A m \in Nodes : /\ row'[m][c] # "restored"
                             /\ m # n => row'[m][c] \in {row[m][c], "none"}
         /\ \A m \in Nodes, d \in Clients \ {c} :
               /\ row'[m][d] = row[m][d]
               /\ d \in moved[m] <=> d \in moved'[m]
<1> USE DEF MarksGo
<1>1. /\ row \in [Nodes -> [Clients -> {"none", "live", "restored"}]]
      /\ owner \in [Nodes -> [Clients -> Nodes \cup {NoNode}]]
      /\ moved \in [Nodes -> SUBSET Clients]
      /\ \A m \in Nodes, d \in Clients : row[m][d] = "none" <=> owner[m][d] = NoNode
      /\ \A m \in Nodes : \A d \in moved[m] : row[m][d] # "none"
      /\ \A m \in Nodes, d \in Clients : row[m][d] # "none" => Up(m)
  BY DEF IInv, TypeOK, RowsAreUp, Tables
<1>2. /\ row' \in [Nodes -> [Clients -> {"none", "live", "restored"}]]
      /\ \A m \in Nodes :
            row'[m][c] = IF m = n THEN "live" ELSE IF m \in Stale(n, c) THEN "none" ELSE row[m][c]
      /\ \A m \in Nodes, d \in Clients \ {c} : row'[m][d] = row[m][d]
  BY <1>1 DEF AddRow
<1>3. /\ owner' \in [Nodes -> [Clients -> Nodes \cup {NoNode}]]
      /\ \A m \in Nodes :
            owner'[m][c] = IF m = n THEN n ELSE IF m \in Stale(n, c) THEN NoNode ELSE owner[m][c]
      /\ \A m \in Nodes, d \in Clients \ {c} : owner'[m][d] = owner[m][d]
  BY <1>1 DEF AddRow
<1>4. \A m \in Nodes : m \in Stale(n, c) <=> m # n /\ row[m][c] = "restored"
  BY <1>1 DEF Stale
<1>5. RowsFit'
  <2>1. ASSUME NEW m \in Nodes, NEW d \in Clients
        PROVE  row'[m][d] = "none" <=> owner'[m][d] = NoNode
    <3>1. CASE d # c
      BY <1>1, <1>2, <1>3, <3>1
    <3>2. CASE d = c /\ m = n
      BY <1>2, <1>3, <3>2, NodeFacts
    <3>3. CASE d = c /\ m # n
      BY <1>1, <1>2, <1>3, <3>3
    <3> QED
      BY <3>1, <3>2, <3>3
  <2>2. \A m \in Nodes : \A d \in moved'[m] : d \in moved[m] /\ (d = c => m \notin Stale(n, c))
    BY <1>1
  <2>3. ASSUME NEW m \in Nodes, NEW d \in moved'[m] PROVE row'[m][d] # "none"
    <3>1. d \in Clients /\ d \in moved[m] /\ row[m][d] # "none" /\ (d = c => m \notin Stale(n, c))
      BY <1>1, <2>2
    <3>2. CASE d # c
      BY <1>2, <3>1, <3>2
    <3>3. CASE d = c
      BY <1>2, <3>1, <3>3
    <3> QED
      BY <3>2, <3>3
  <2> QED
    BY <2>1, <2>3 DEF RowsFit
<1> QED
  BY <1>1, <1>2, <1>3, <1>4, <1>5 DEF RowTypes, Tables

-----------------------------------------------------------------------------
(* The initial states, and the steps, action by action. *)

LEMMA InitInv == Init => IInv
<1> SUFFICES ASSUME Init PROVE IInv
  OBVIOUS
<1>1. RowTypes /\ RowsFit /\ DiskTypes /\ FlowTypes /\ HistoryTypes
  BY NodeFacts, ForceSetsAreLeaves
  DEF Init, RowTypes, RowsFit, DiskTypes, FlowTypes, HistoryTypes, Tables, Empty
<1>2. RowsAreUp
  BY DEF Init, RowsAreUp, IdleJob
<1>3. PurgeShape
  BY NodeFacts DEF Init, PurgeShape
<1>4. NoStaleCopy /\ RestoredOnce /\ PurgedHasNoRow
  BY DEF Init, NoStaleCopy, RestoredOnce, PurgedHasNoRow
<1> QED
  BY <1>1, <1>2, <1>3, <1>4, TypeParts DEF IInv

LEMMA StutterStep == ASSUME IInv, UNCHANGED vars PROVE IInv'
BY DEF vars, IInv, TypeOK, RowsAreUp, PurgeShape, NoStaleCopy, RestoredOnce, PurgedHasNoRow, Up

(* Reports. *)

LEMMA ListOwnStep == ASSUME IInv, NEW n \in Nodes, NEW c \in Clients, ListOwn(n, c) PROVE IInv'
<1> USE DEF ListOwn
<1>a. RowTypes /\ RowsFit /\ DiskTypes /\ FlowTypes /\ HistoryTypes /\ RowsAreUp /\ PurgeShape
  BY TypeParts DEF IInv
<1>b. job[n] \in Jobs
  BY <1>a DEF FlowTypes
<1>c. [job[n] EXCEPT !.at = "add", !.mac = c] \in Jobs
  BY <1>b DEF Jobs
<1>d. [job[n] EXCEPT !.at = "add", !.mac = c].mac = c
  BY <1>b DEF Jobs
<1>1. RowTypes' /\ RowsFit'
  <2> PICK known \in SUBSET {m \in Nodes \ {n} : row[m][c] # "none"} :
         owner' = [m \in Nodes |-> [owner[m] EXCEPT ![c] = IF m \in known THEN n ELSE @]]
    OBVIOUS
  <2>1. /\ owner' \in [Nodes -> Tables]
        /\ \A m \in Nodes, d \in Clients :
              owner'[m][d] = IF d = c /\ m \in known THEN n ELSE owner[m][d]
    BY <1>a DEF RowTypes, Tables
  <2> QED
    BY <1>a, <2>1, NodeFacts DEF RowTypes, RowsFit
<1>2. job' = [job EXCEPT ![n] = [job[n] EXCEPT !.at = "add", !.mac = c]]
  OBVIOUS
<1>3. DiskTypes' /\ FlowTypes' /\ HistoryTypes'
  BY <1>a, <1>c, <1>2 DEF DiskTypes, FlowTypes, HistoryTypes
<1>4. \A m \in Nodes : job'[m] = IF m = n THEN [job[n] EXCEPT !.at = "add", !.mac = c] ELSE job[m]
  BY <1>a, <1>2 DEF FlowTypes
<1>5. /\ \A m \in Nodes : job'[m].at # "idle" => Up(m)
      /\ \A m \in Nodes : job'[m].at = "add" => job'[m].mac \in Clients
  BY <1>a, <1>d, <1>4 DEF RowsAreUp
<1>6. RowsAreUp'
  BY <1>a, <1>5 DEF RowsAreUp, Up
<1>7. PurgeShape'
  BY <1>a DEF PurgeShape, Up
<1>8. NoStaleCopy' /\ RestoredOnce'
  BY RowsUnchanged
<1>9. PurgedHasNoRow'
  BY PurgedKeep
<1> QED
  BY <1>1, <1>3, <1>6, <1>7, <1>8, <1>9, TypePartsNext DEF IInv

\* What add_device of one node keeps, whoever asked for it.
LEMMA ReportStep ==
  ASSUME IInv, NEW n \in Nodes \cup {NoNode}, NEW c \in Clients,
         n \in Nodes => Up(n), RowTypes', RowsFit',
         \/ UNCHANGED <<row, moved, owed>>
         \/ /\ owed' = owed \ {c}
            /\ AddRow(n, c)
            /\ \/ moved' = [m \in Nodes |-> IF m \in Stale(n, c) THEN moved[m] \ {c} ELSE moved[m]]
               \/ moved' = [m \in Nodes |-> IF m \in Stale(n, c) \cup {n} THEN moved[m] \ {c}
                                            ELSE moved[m]],
         missed' = StillMissed, UNCHANGED <<up, purge, late>>
  PROVE  /\ NoStaleCopy' /\ RestoredOnce' /\ PurgedHasNoRow'
         /\ \A m \in Nodes, d \in Clients : row'[m][d] # "none" => Up(m)
<1>a. \A m \in Nodes, d \in Clients : row[m][d] # "none" => Up(m)
  BY DEF IInv, RowsAreUp
<1>1. CASE UNCHANGED <<row, moved, owed>>
  <2>1. NoStaleCopy' /\ RestoredOnce'
    BY <1>1, CopiesKeep
  <2>2. PurgedHasNoRow'
    BY <1>1, PurgedKeep
  <2> QED
    BY <1>1, <1>a, <2>1, <2>2
<1>2. ASSUME NEW M \in SUBSET Nodes, M = Stale(n, c) \/ M = Stale(n, c) \cup {n},
             moved' = [m \in Nodes |-> IF m \in M THEN moved[m] \ {c} ELSE moved[m]],
             owed' = owed \ {c}, AddRow(n, c)
      PROVE  /\ NoStaleCopy' /\ RestoredOnce' /\ PurgedHasNoRow'
             /\ \A m \in Nodes, d \in Clients : row'[m][d] # "none" => Up(m)
  <2>0. MarksGo(M, c)
    BY <1>2 DEF IInv, TypeOK, MarksGo
  <2>1. /\ \A m \in Nodes : /\ row'[m][c] # "restored"
                            /\ m # n => row'[m][c] \in {row[m][c], "none"}
        /\ \A m \in Nodes, d \in Clients \ {c} :
              /\ row'[m][d] = row[m][d]
              /\ d \in moved[m] <=> d \in moved'[m]
    BY <1>2, <2>0, AddRowIs
  <2>2. NoStaleCopy' /\ RestoredOnce'
    BY <2>1, CopiesKeep
  <2>3. owed \subseteq Clients
    BY DEF IInv, TypeOK
  <2>4. PurgedHasNoRow'
    BY <1>2, <2>1, <2>3, PurgedKeep
  <2>5. \A m \in Nodes, d \in Clients : row'[m][d] # "none" => Up(m)
    BY <1>a, <2>1
  <2> QED
    BY <2>2, <2>4, <2>5
<1>3. Stale(n, c) \in SUBSET Nodes
  BY DEF Stale
<1>4. CASE /\ owed' = owed \ {c} /\ AddRow(n, c)
           /\ moved' = [m \in Nodes |-> IF m \in Stale(n, c) THEN moved[m] \ {c} ELSE moved[m]]
  BY <1>2, <1>3, <1>4
<1>5. CASE /\ owed' = owed \ {c} /\ AddRow(n, c) /\ n \in Nodes
           /\ moved' = [m \in Nodes |-> IF m \in Stale(n, c) \cup {n} THEN moved[m] \ {c}
                                        ELSE moved[m]]
  <2>1. Stale(n, c) \cup {n} \in SUBSET Nodes
    BY <1>3, <1>5
  <2> QED
    BY <1>2, <1>5, <2>1
<1>6. CASE /\ owed' = owed \ {c} /\ AddRow(n, c) /\ n \notin Nodes
           /\ moved' = [m \in Nodes |-> IF m \in Stale(n, c) \cup {n} THEN moved[m] \ {c}
                                        ELSE moved[m]]
  <2>1. moved' = [m \in Nodes |-> IF m \in Stale(n, c) THEN moved[m] \ {c} ELSE moved[m]]
    BY <1>6
  <2> QED
    BY <1>4, <1>6, <2>1
<1> QED
  BY <1>1, <1>4, <1>5, <1>6

LEMMA AddOwnStep ==
  ASSUME IInv, NEW n \in Nodes, NEW confirmed \in BOOLEAN, AddOwn(n, confirmed) PROVE IInv'
<1> DEFINE c == job[n].mac
<1>a. RowTypes /\ RowsFit /\ DiskTypes /\ FlowTypes /\ HistoryTypes /\ RowsAreUp /\ PurgeShape
  BY TypeParts DEF IInv
<1>b. /\ c \in Clients /\ Up(n) /\ Stale(n, c) \in SUBSET Nodes
  BY <1>a DEF AddOwn, RowsAreUp, Stale
<1>c. /\ job' = [job EXCEPT ![n] = IdleJob] /\ missed' = StillMissed
      /\ UNCHANGED <<force, up, queue, store, old, purge, blind, late>>
      /\ \/ UNCHANGED <<row, owner, moved, owed>>
         \/ /\ owed' = owed \ {c}
            /\ AddRow(n, c)
            /\ moved' = [m \in Nodes |-> IF m \in Stale(n, c) THEN moved[m] \ {c} ELSE moved[m]]
  BY DEF AddOwn
<1>1. RowTypes' /\ RowsFit'
  <2>1. CASE UNCHANGED <<row, owner, moved, owed>>
    BY <1>a, <2>1 DEF RowTypes, RowsFit
  <2>2. CASE /\ AddRow(n, c)
             /\ moved' = [m \in Nodes |-> IF m \in Stale(n, c) THEN moved[m] \ {c} ELSE moved[m]]
    <3>1. MarksGo(Stale(n, c), c)
      BY <1>a, <2>2 DEF RowTypes, MarksGo
    <3> QED
      BY <1>b, <2>2, <3>1, AddRowIs
  <2> QED
    BY <1>c, <2>1, <2>2
<1>2. DiskTypes' /\ FlowTypes' /\ HistoryTypes'
  BY <1>a, <1>c, NodeFacts DEF DiskTypes, FlowTypes, HistoryTypes, StillMissed
<1>3. /\ NoStaleCopy' /\ RestoredOnce' /\ PurgedHasNoRow'
      /\ \A m \in Nodes, d \in Clients : row'[m][d] # "none" => Up(m)
  <2> HIDE DEF c
  <2> QED
    BY <1>b, <1>c, <1>1, ReportStep, SMTT(60)
<1>4. RowsAreUp'
  BY <1>a, <1>c, <1>3 DEF RowsAreUp, Up, FlowTypes, IdleJob
<1>5. PurgeShape'
  BY <1>a, <1>c DEF PurgeShape, Up
<1> QED
  BY <1>1, <1>2, <1>3, <1>4, <1>5, TypePartsNext DEF IInv

LEMMA PushStep ==
  ASSUME IInv, NEW l \in Leaves, NEW c \in Clients, NEW confirmed \in BOOLEAN, Push(l, c, confirmed)
  PROVE  IInv'
<1>a. RowTypes /\ RowsFit /\ DiskTypes /\ FlowTypes /\ HistoryTypes /\ RowsAreUp /\ PurgeShape
  BY TypeParts DEF IInv
<1>b. l \in Nodes /\ Up(l) /\ Stale(l, c) \cup {l} \in SUBSET Nodes
  BY <1>a, NodeFacts DEF Push, RowsAreUp, Stale
<1>c. /\ queue' \subseteq queue /\ missed' = StillMissed
      /\ UNCHANGED <<force, up, job, store, old, purge, blind, late>>
      /\ \/ UNCHANGED <<row, owner, moved, owed>>
         \/ /\ owed' = owed \ {c}
            /\ AddRow(l, c)
            /\ moved' = [m \in Nodes |-> IF m \in Stale(l, c) \cup {l} THEN moved[m] \ {c}
                                         ELSE moved[m]]
  BY DEF Push
<1>1. RowTypes' /\ RowsFit'
  <2>1. CASE UNCHANGED <<row, owner, moved, owed>>
    BY <1>a, <2>1 DEF RowTypes, RowsFit
  <2>2. CASE /\ AddRow(l, c)
             /\ moved' = [m \in Nodes |-> IF m \in Stale(l, c) \cup {l} THEN moved[m] \ {c}
                                          ELSE moved[m]]
    <3>1. MarksGo(Stale(l, c) \cup {l}, c)
      BY <1>a, <2>2 DEF RowTypes, MarksGo
    <3> QED
      BY <1>b, <2>2, <3>1, AddRowIs
  <2> QED
    BY <1>c, <2>1, <2>2
<1>2. DiskTypes' /\ FlowTypes' /\ HistoryTypes'
  BY <1>a, <1>c DEF DiskTypes, FlowTypes, HistoryTypes, StillMissed
<1>3. /\ NoStaleCopy' /\ RestoredOnce' /\ PurgedHasNoRow'
      /\ \A m \in Nodes, d \in Clients : row'[m][d] # "none" => Up(m)
  BY <1>b, <1>c, <1>1, ReportStep, SMTT(60)
<1>4. RowsAreUp'
  BY <1>a, <1>c, <1>3 DEF RowsAreUp, Up
<1>5. PurgeShape'
  BY <1>a, <1>c DEF PurgeShape, Up
<1> QED
  BY <1>1, <1>2, <1>3, <1>4, <1>5, TypePartsNext DEF IInv

LEMMA PushLostStep ==
  ASSUME IInv, NEW l \in Leaves, NEW c \in Clients, NEW confirmed \in BOOLEAN,
         PushLost(l, c, confirmed)
  PROVE  IInv'
<1>a. RowTypes /\ RowsFit /\ DiskTypes /\ FlowTypes /\ HistoryTypes /\ RowsAreUp /\ PurgeShape
  BY TypeParts DEF IInv
<1>b. l \in Nodes /\ Stale(NoNode, c) \in SUBSET Nodes
  BY <1>a, NodeFacts DEF Stale
<1>c. /\ queue' \subseteq queue /\ missed' = StillMissed
      /\ old' = old \/ old' = [old EXCEPT ![l][c] = l]
      /\ UNCHANGED <<force, up, job, store, purge, blind, late>>
      /\ \/ UNCHANGED <<row, owner, moved, owed>>
         \/ /\ owed' = owed \ {c}
            /\ AddRow(NoNode, c)
            /\ moved' = [m \in Nodes |-> IF m \in Stale(NoNode, c) THEN moved[m] \ {c}
                                         ELSE moved[m]]
  BY DEF PushLost
<1>1. RowTypes' /\ RowsFit'
  <2>1. CASE UNCHANGED <<row, owner, moved, owed>>
    BY <1>a, <2>1 DEF RowTypes, RowsFit
  <2>2. CASE /\ AddRow(NoNode, c)
             /\ moved' = [m \in Nodes |-> IF m \in Stale(NoNode, c) THEN moved[m] \ {c}
                                          ELSE moved[m]]
    <3>1. MarksGo(Stale(NoNode, c), c)
      BY <1>a, <2>2 DEF RowTypes, MarksGo
    <3> QED
      BY <1>b, <2>2, <3>1, AddRowIs
  <2> QED
    BY <1>c, <2>1, <2>2
<1>2. DiskTypes'
  BY <1>a, <1>b, <1>c DEF DiskTypes, Tables
<1>3. FlowTypes' /\ HistoryTypes'
  BY <1>a, <1>c DEF FlowTypes, HistoryTypes, StillMissed
<1>4. /\ NoStaleCopy' /\ RestoredOnce' /\ PurgedHasNoRow'
      /\ \A m \in Nodes, d \in Clients : row'[m][d] # "none" => Up(m)
  <2>1. NoNode \notin Nodes
    BY NodeFacts
  <2> QED
    BY <1>b, <1>c, <1>1, <2>1, ReportStep, SMTT(60)
<1>5. RowsAreUp'
  BY <1>a, <1>c, <1>4 DEF RowsAreUp, Up
<1>6. PurgeShape'
  BY <1>a, <1>c DEF PurgeShape, Up
<1> QED
  BY <1>1, <1>2, <1>3, <1>4, <1>5, <1>6, TypePartsNext DEF IInv

\* One row goes from the table of a node.
RowLeaves(n, c) ==
    /\ row' \in [Nodes -> [Clients -> {"none", "live", "restored"}]]
    /\ \A m \in Nodes, d \in Clients :
          row'[m][d] = IF m = n /\ d = c THEN "none" ELSE row[m][d]
    /\ owner' \in [Nodes -> Tables]
    /\ \A m \in Nodes, d \in Clients :
          owner'[m][d] = IF m = n /\ d = c THEN NoNode ELSE owner[m][d]

LEMMA RowLeavesBy ==
  ASSUME IInv, NEW n \in Nodes, NEW c \in Clients,
         row' = [row EXCEPT ![n][c] = "none"], owner' = [owner EXCEPT ![n][c] = NoNode]
  PROVE  RowLeaves(n, c)
BY DEF IInv, TypeOK, Tables, RowLeaves

\* A row that goes, with its mark.
LEMMA RowGoes ==
  ASSUME IInv, NEW n \in Nodes, NEW c \in Clients,
         RowLeaves(n, c), MarksGo({n}, c), missed' = StillMissed
  PROVE  /\ RowTypes' /\ RowsFit' /\ NoStaleCopy' /\ RestoredOnce'
         /\ \A m \in Nodes, d \in Clients : row'[m][d] \in {row[m][d], "none"}
<1> USE DEF RowLeaves, MarksGo
<1>a. RowTypes /\ RowsFit
  BY TypeParts DEF IInv
<1>1. RowTypes' /\ RowsFit'
  BY <1>a DEF RowTypes, RowsFit
<1>2. \A d \in Clients, m \in Nodes :
         /\ row'[m][d] \in {row[m][d], "none"}
         /\ d \in moved[m] => d \in moved'[m] \/ row'[m][d] = "none"
  OBVIOUS
<1> HIDE DEF RowLeaves, MarksGo
<1> QED
  BY <1>1, <1>2, CopiesKeep

LEMMA RouteStep == ASSUME IInv, NEW c \in Clients, NEW l \in Leaves, Route(c, l) PROVE IInv'
<1>a. RowTypes /\ RowsFit /\ DiskTypes /\ FlowTypes /\ HistoryTypes /\ RowsAreUp /\ PurgeShape
  BY TypeParts DEF IInv
<1>0. MarksGo({Main}, c)
  BY <1>a, NodeFacts DEF Route, RowTypes, RowsFit, MarksGo
<1>1. RowLeaves(Main, c)
  BY RowLeavesBy, NodeFacts DEF Route
<1>2. /\ RowTypes' /\ RowsFit' /\ NoStaleCopy' /\ RestoredOnce'
      /\ \A m \in Nodes, d \in Clients : row'[m][d] \in {row[m][d], "none"}
  BY <1>0, <1>1, RowGoes, NodeFacts DEF Route
<1>3. DiskTypes' /\ FlowTypes' /\ HistoryTypes'
  BY <1>a DEF Route, DiskTypes, FlowTypes, HistoryTypes, StillMissed
<1>4. RowsAreUp'
  BY <1>a, <1>2 DEF Route, RowsAreUp, Up
<1>5. PurgeShape'
  BY <1>a DEF Route, PurgeShape, Up
<1>6. PurgedHasNoRow'
  BY <1>a, <1>2, PurgedKeep DEF Route, DiskTypes
<1> QED
  BY <1>2, <1>3, <1>4, <1>5, <1>6, TypePartsNext DEF IInv

LEMMA ExpireStep == ASSUME IInv, NEW n \in Nodes, NEW c \in Clients, Expire(n, c) PROVE IInv'
<1>a. RowTypes /\ RowsFit /\ DiskTypes /\ FlowTypes /\ HistoryTypes /\ RowsAreUp /\ PurgeShape
  BY TypeParts DEF IInv
<1>1. RowLeaves(n, c) /\ MarksGo({n}, c)
  BY <1>a, RowLeavesBy DEF Expire, RowTypes, MarksGo
<1>2. /\ RowTypes' /\ RowsFit' /\ NoStaleCopy' /\ RestoredOnce'
      /\ \A m \in Nodes, d \in Clients : row'[m][d] \in {row[m][d], "none"}
  BY <1>1, RowGoes DEF Expire
<1>3. DiskTypes' /\ FlowTypes' /\ HistoryTypes'
  BY <1>a DEF Expire, DiskTypes, FlowTypes, HistoryTypes, StillMissed
<1>4. RowsAreUp'
  BY <1>a, <1>2 DEF Expire, RowsAreUp, Up
<1>5. PurgeShape'
  BY <1>a DEF Expire, PurgeShape, Up
<1>6. PurgedHasNoRow'
  BY <1>a, <1>2, PurgedKeep DEF Expire, DiskTypes
<1> QED
  BY <1>2, <1>3, <1>4, <1>5, <1>6, TypePartsNext DEF IInv

(* Set up, restore, unload. *)

LEMMA BlindTypes ==
  ASSUME NEW n \in Nodes, HistoryTypes
  PROVE  BlindTo(n) \subseteq Nodes \X Nodes /\ NotAbout(n) \subseteq Nodes \X Nodes
BY DEF HistoryTypes, BlindTo, NotAbout

LEMMA RegisterStep == ASSUME IInv, NEW n \in Nodes, Register(n) PROVE IInv'
<1>a. RowTypes /\ RowsFit /\ DiskTypes /\ FlowTypes /\ HistoryTypes /\ RowsAreUp /\ PurgeShape
  BY TypeParts DEF IInv
<1>1. RowTypes' /\ RowsFit' /\ DiskTypes' /\ FlowTypes'
  BY <1>a DEF Register, RowTypes, RowsFit, DiskTypes, FlowTypes
<1>2. late' \subseteq Nodes \X Clients /\ late \subseteq late'
  BY <1>a DEF Register, HistoryTypes, PurgeShape
<1>3. HistoryTypes'
  BY <1>a, <1>2, BlindTypes DEF Register, HistoryTypes
<1>4. \A m \in Nodes : Up(m)' <=> Up(m) \/ m = n
  BY <1>a DEF Register, FlowTypes, Up
<1>5. RowsAreUp'
  BY <1>a, <1>4, NodeFacts DEF Register, RowsAreUp, FlowTypes
<1>6. PurgeShape'
  BY <1>a, <1>4 DEF Register, PurgeShape
<1>7. NoStaleCopy' /\ RestoredOnce'
  BY RowsUnchanged DEF Register
<1>8. PurgedHasNoRow'
  BY <1>2, PurgedKeep DEF Register
<1> QED
  BY <1>1, <1>3, <1>5, <1>6, <1>7, <1>8, TypePartsNext DEF IInv

LEMMA StartRestoreStep == ASSUME IInv, NEW n \in Nodes, StartRestore(n) PROVE IInv'
<1>a. RowTypes /\ RowsFit /\ DiskTypes /\ FlowTypes /\ HistoryTypes /\ RowsAreUp /\ PurgeShape
  BY TypeParts DEF IInv
<1>1. [at |-> "restore", mac |-> NoClient, snap |-> store[n]] \in Jobs
  BY <1>a DEF DiskTypes, Jobs
<1>2. RowTypes' /\ RowsFit' /\ DiskTypes' /\ FlowTypes' /\ HistoryTypes'
  BY <1>a, <1>1 DEF StartRestore, RowTypes, RowsFit, DiskTypes, FlowTypes, HistoryTypes
<1>3. RowsAreUp'
  BY <1>a DEF StartRestore, RowsAreUp, FlowTypes, Up
<1>4. PurgeShape'
  BY <1>a DEF StartRestore, PurgeShape, Up
<1>5. NoStaleCopy' /\ RestoredOnce'
  BY RowsUnchanged DEF StartRestore
<1>6. PurgedHasNoRow'
  BY PurgedKeep DEF StartRestore
<1> QED
  BY <1>2, <1>3, <1>4, <1>5, <1>6, TypePartsNext DEF IInv

\* Who a stored row is given back to is another node that is there and, like the
\* one that restores, has no row.
LEMMA GivesBackIs ==
  ASSUME FlowTypes, NEW n \in Nodes, NEW c \in Clients, NEW o, o = GivesBack(n, c)
  PROVE  \/ o = NoNode
         \/ o \in Nodes \ {n} /\ Up(o) /\ <<n, o>> \notin blind /\ Knows(n, o)
<1>1. job[n].snap[c] \in Nodes \cup {NoNode}
  BY DEF FlowTypes, Jobs, Tables
<1> QED
  BY <1>1 DEF GivesBack, Knows

LEMMA RestoreOneStep ==
  ASSUME IInv, NEW n \in Nodes, NEW c \in Clients, RestoreOne(n, c) PROVE IInv'
<1>a. RowTypes /\ RowsFit /\ DiskTypes /\ FlowTypes /\ HistoryTypes /\ RowsAreUp /\ PurgeShape
  BY TypeParts DEF IInv
<1>b. job[n] \in Jobs /\ job[n].at = "restore" /\ Up(n)
  BY <1>a DEF RestoreOne, FlowTypes, RowsAreUp
<1>1. \E j \in Jobs : j.at = "restore" /\ job' = [job EXCEPT ![n] = j]
  <2> DEFINE j == [job[n] EXCEPT !.snap = [job[n].snap EXCEPT ![c] = NoNode]]
  <2>1. j \in Jobs /\ j.at = "restore"
    BY <1>b DEF Jobs, Tables
  <2>2. job' = [job EXCEPT ![n] = j]
    BY DEF RestoreOne
  <2> QED
    BY <2>1, <2>2
<1>2. DiskTypes' /\ FlowTypes' /\ blind' \subseteq Nodes \X Nodes
  BY <1>a, <1>1 DEF RestoreOne, DiskTypes, FlowTypes, HistoryTypes
<1>3. \A m \in Nodes : job'[m].at = job[m].at /\ (job'[m].at = "add" => job'[m].mac = job[m].mac)
  BY <1>a, <1>b, <1>1 DEF FlowTypes
<1>4. PurgeShape'
  BY <1>a DEF RestoreOne, PurgeShape, Up
<1>5. CASE UNCHANGED <<row, owner, moved, missed>>
  <2>1. RowTypes' /\ RowsFit' /\ HistoryTypes'
    BY <1>a, <1>2, <1>5 DEF RestoreOne, RowTypes, RowsFit, HistoryTypes
  <2>2. NoStaleCopy' /\ RestoredOnce'
    BY <1>5, RowsUnchanged
  <2>3. PurgedHasNoRow'
    BY <1>5, PurgedKeep DEF RestoreOne
  <2>4. RowsAreUp'
    BY <1>a, <1>3, <1>5 DEF RestoreOne, RowsAreUp, Up
  <2> QED
    BY <1>2, <1>4, <2>1, <2>2, <2>3, <2>4, TypePartsNext DEF IInv
<1>6. CASE Restorable(n, c) /\ ~LeftToOwner(n, c)
  <2> DEFINE o == GivesBack(n, c)
  <2>1. /\ row' = [m \in Nodes |-> [row[m] EXCEPT ![c] = IF m \in {n, o} THEN "restored" ELSE @]]
        /\ owner' = [m \in Nodes |-> [owner[m] EXCEPT ![c] = IF m \notin {n, o} THEN @
                                                  ELSE IF o = NoNode THEN n ELSE o]]
        /\ moved' = IF o = NoNode THEN moved ELSE [moved EXCEPT ![n] = moved[n] \cup {c}]
        /\ missed' = missed \cup Missed(n, o, c)
    BY <1>6 DEF RestoreOne
  <2>2. \/ o = NoNode
        \/ o \in Nodes \ {n} /\ Up(o) /\ <<n, o>> \notin blind /\ Knows(n, o)
    BY <1>a, GivesBackIs
  <2> HIDE DEF o
  <2>3. /\ row' \in [Nodes -> [Clients -> {"none", "live", "restored"}]]
        /\ \A m \in Nodes, d \in Clients :
              row'[m][d] = IF d = c /\ m \in {n, o} THEN "restored" ELSE row[m][d]
    BY <1>a, <2>1 DEF RowTypes
  <2>4. /\ owner' \in [Nodes -> Tables]
        /\ \A m \in Nodes, d \in Clients :
              owner'[m][d] = IF d = c /\ m \in {n, o} THEN (IF o = NoNode THEN n ELSE o)
                             ELSE owner[m][d]
    <3>1. (IF o = NoNode THEN n ELSE o) \in Nodes
      BY <2>2
    <3> QED
      BY <1>a, <2>1, <3>1 DEF RowTypes, Tables
  <2>5. /\ moved' \in [Nodes -> SUBSET Clients]
        /\ \A m \in Nodes : \A d \in Clients :
              d \in moved'[m] <=> d \in moved[m] \/ (o # NoNode /\ m = n /\ d = c)
    BY <1>a, <2>1 DEF RowTypes
  <2>6. RowTypes' /\ RowsFit'
    <3>1. (IF o = NoNode THEN n ELSE o) # NoNode
      BY <2>2, NodeFacts
    <3>2. \A m \in Nodes, d \in Clients : row'[m][d] = "none" <=> owner'[m][d] = NoNode
      BY <1>a, <2>3, <2>4, <3>1 DEF RowsFit
    <3>3. \A m \in Nodes : \A d \in Clients : d \in moved'[m] => row'[m][d] # "none"
      BY <1>a, <2>3, <2>5 DEF RowsFit
    <3> QED
      BY <2>3, <2>4, <2>5, <3>2, <3>3 DEF RowTypes, RowsFit
  <2>7. \* What the restore has looked at: whoever else has a row was not known.
        \A q \in Nodes \ {n, o} : row[q][c] # "none" => <<n, q>> \in blind
    BY <1>a, <1>6 DEF Restorable, HeldElsewhere, Knows, RowsAreUp
  <2>8. c \notin owed /\ row[n][c] = "none"
    BY <1>6 DEF Restorable
  <2>9. \A p \in {n, o} \ {NoNode}, q \in Nodes \ {n, o} :
           row[q][c] # "none" => <<p, q, c>> \in missed'
    <3> SUFFICES ASSUME NEW p \in {n, o} \ {NoNode}, NEW q \in Nodes \ {n, o},
                        row[q][c] # "none"
                 PROVE  <<p, q, c>> \in Missed(n, o, c)
      BY <2>1
    <3>1. q \in {x \in Nodes : <<n, x>> \in blind /\ row[x][c] # "none"}
      BY <2>7
    <3> QED
      BY <3>1 DEF Missed
  <2>10. missed' \subseteq Nodes \X Nodes \X Clients /\ missed \subseteq missed'
    <3>1. {n, o} \ {NoNode} \subseteq Nodes
      BY <2>2
    <3>2. ASSUME NEW t \in Missed(n, o, c) PROVE t \in Nodes \X Nodes \X Clients
      <4> DEFINE Unknown == {q \in Nodes : <<n, q>> \in blind /\ row[q][c] # "none"}
      <4>1. \E p \in {n, o} \ {NoNode}, q \in Unknown : t = <<p, q, c>>
        BY DEF Missed
      <4>2. Unknown \subseteq Nodes
        OBVIOUS
      <4> HIDE DEF Unknown
      <4> QED
        BY <3>1, <4>1, <4>2
    <3> QED
      BY <1>a, <2>1, <3>2 DEF HistoryTypes
  <2>11. HistoryTypes'
    BY <1>a, <1>2, <2>10 DEF RestoreOne, HistoryTypes
  <2>12. RowsAreUp'
    <3>1. up' = up /\ queue' = queue
      BY DEF RestoreOne
    <3>2. \A m \in Nodes : Up(m)' <=> Up(m)
      BY <3>1 DEF Up
    <3>3. \A m \in Nodes, d \in Clients : row'[m][d] # "none" => Up(m)'
      BY <1>a, <1>b, <2>2, <2>3, <3>2, NodeFacts DEF RowsAreUp
    <3>4. \A q \in queue' : q[3] = "live" => Up(q[1])'
      BY <1>a, <3>1 DEF RowsAreUp, Up
    <3> QED
      BY <1>a, <1>3, <3>2, <3>3, <3>4 DEF RowsAreUp
  <2>13. PurgedHasNoRow'
    <3>1. \A m \in Nodes : \A d \in owed' : row'[m][d] # "none" => d \in owed /\ row[m][d] # "none"
      BY <1>a, <2>3, <2>8 DEF RestoreOne, DiskTypes
    <3> QED
      BY <3>1, PurgedKeep DEF RestoreOne
  <2>14. NoStaleCopy'
    <3> SUFFICES ASSUME NEW a \in Nodes, NEW b \in Nodes, NEW d \in Clients,
                        row'[a][d] = "live", row'[b][d] = "restored"
                 PROVE  <<b, a, d>> \in missed'
      BY DEF NoStaleCopy
    <3>1. CASE d = c /\ b \in {n, o}
      BY <2>3, <2>9, <3>1, NodeFacts
    <3>2. CASE ~(d = c /\ b \in {n, o})
      <4>1. row[a][d] = "live" /\ row[b][d] = "restored"
        BY <2>3, <3>2
      <4> QED
        BY <2>10, <4>1 DEF IInv, NoStaleCopy
    <3> QED
      BY <3>1, <3>2
  <2>15. RestoredOnce'
    <3> SUFFICES ASSUME NEW a \in Nodes, NEW b \in Nodes, NEW d \in Clients, a # b,
                        row'[a][d] = "restored", row'[b][d] = "restored"
                 PROVE  \/ d \in moved'[a] \/ d \in moved'[b]
                        \/ <<a, b, d>> \in missed' \/ <<b, a, d>> \in missed'
      BY DEF RestoredOnce
    <3>1. CASE d = c /\ a \in {n, o} /\ b \in {n, o}
      BY <2>2, <2>5, <3>1, NodeFacts
    <3>2. CASE d = c /\ a \in {n, o} /\ b \notin {n, o}
      BY <2>3, <2>9, <3>2, NodeFacts
    <3>3. CASE d = c /\ b \in {n, o} /\ a \notin {n, o}
      BY <2>3, <2>9, <3>3, NodeFacts
    <3>4. CASE d # c \/ (a \notin {n, o} /\ b \notin {n, o})
      <4>1. row[a][d] = "restored" /\ row[b][d] = "restored"
        BY <2>3, <3>4
      <4>2. \/ d \in moved[a] \/ d \in moved[b]
            \/ <<a, b, d>> \in missed \/ <<b, a, d>> \in missed
        BY <4>1 DEF IInv, RestoredOnce
      <4> QED
        BY <2>5, <2>10, <4>2
    <3> QED
      BY <3>1, <3>2, <3>3, <3>4
  <2> QED
    BY <1>2, <1>4, <2>6, <2>11, <2>12, <2>13, <2>14, <2>15, TypePartsNext DEF IInv
<1> QED
  BY <1>5, <1>6 DEF RestoreOne

LEMMA EndRestoreStep == ASSUME IInv, NEW n \in Nodes, EndRestore(n) PROVE IInv'
<1>a. RowTypes /\ RowsFit /\ DiskTypes /\ FlowTypes /\ HistoryTypes /\ RowsAreUp /\ PurgeShape
  BY TypeParts DEF IInv
<1>b. Up(n) /\ IdleJob.at = "idle"
  BY <1>a DEF EndRestore, RowsAreUp, IdleJob
<1>1. RowTypes' /\ RowsFit' /\ DiskTypes' /\ FlowTypes' /\ HistoryTypes'
  BY <1>a, NodeFacts
  DEF EndRestore, RowTypes, RowsFit, DiskTypes, FlowTypes, HistoryTypes
<1>2. \A m \in Nodes : Up(m)' <=> Up(m)
  BY <1>a, <1>b DEF EndRestore, FlowTypes, Up
<1>3. \A m \in Nodes : m # n => job'[m] = job[m]
  BY <1>a DEF EndRestore, FlowTypes
<1>4. RowsAreUp'
  BY <1>a, <1>b, <1>2, <1>3, NodeFacts DEF EndRestore, RowsAreUp, FlowTypes
<1>5. PurgeShape'
  BY <1>a, <1>2 DEF EndRestore, PurgeShape
<1>6. NoStaleCopy' /\ RestoredOnce'
  BY RowsUnchanged DEF EndRestore
<1>7. PurgedHasNoRow'
  BY PurgedKeep DEF EndRestore
<1> QED
  BY <1>1, <1>4, <1>5, <1>6, <1>7, TypePartsNext DEF IInv

\* An updater that goes takes its rows, marks and refresh along, and leaves what is
\* queued for it to nobody.
LEMMA DroppedIs ==
  ASSUME IInv, NEW n \in Nodes, Dropped(n)
  PROVE  /\ RowTypes' /\ RowsFit' /\ NoStaleCopy' /\ RestoredOnce'
         /\ \A m \in Nodes, d \in Clients : row'[m][d] = IF m = n THEN "none" ELSE row[m][d]
         /\ queue' \subseteq Leaves \X Clients \X {"live", "old"}
         /\ \A q \in queue' : q[3] = "live" => q[1] # n /\ Up(q[1])
<1>a. RowTypes /\ RowsFit /\ FlowTypes /\ RowsAreUp
  BY TypeParts DEF IInv
<1>1. /\ row' \in [Nodes -> [Clients -> {"none", "live", "restored"}]]
      /\ \A m \in Nodes, d \in Clients : row'[m][d] = IF m = n THEN "none" ELSE row[m][d]
  BY <1>a DEF Dropped, RowTypes
<1>2. /\ owner' \in [Nodes -> Tables]
      /\ \A m \in Nodes, d \in Clients : owner'[m][d] = IF m = n THEN NoNode ELSE owner[m][d]
  BY <1>a, NodeFacts DEF Dropped, RowTypes, Empty, Tables
<1>3. /\ moved' \in [Nodes -> SUBSET Clients]
      /\ \A m \in Nodes : moved'[m] = IF m = n THEN {} ELSE moved[m]
  BY <1>a DEF Dropped, RowTypes
<1>4. RowTypes' /\ RowsFit'
  <2>1. \A m \in Nodes, d \in Clients : row'[m][d] = "none" <=> owner'[m][d] = NoNode
    BY <1>a, <1>1, <1>2 DEF RowsFit
  <2>2. \A m \in Nodes : \A d \in Clients : d \in moved'[m] => row'[m][d] # "none"
    BY <1>a, <1>1, <1>3 DEF RowsFit
  <2> QED
    BY <1>1, <1>2, <1>3, <2>1, <2>2 DEF RowTypes, RowsFit
<1>5. \A d \in Clients, m \in Nodes :
         /\ row'[m][d] \in {row[m][d], "none"}
         /\ d \in moved[m] => d \in moved'[m] \/ row'[m][d] = "none"
  BY <1>1, <1>3
<1>6. NoStaleCopy' /\ RestoredOnce'
  BY <1>4, <1>5, CopiesKeep DEF Dropped
<1>7. ASSUME NEW r \in queue'
      PROVE  /\ r \in Leaves \X Clients \X {"live", "old"}
             /\ r[3] = "live" => r[1] # n /\ Up(r[1])
  <2>1. PICK q \in queue : r = <<q[1], q[2], IF q[1] = n THEN "old" ELSE q[3]>>
    BY DEF Dropped
  <2>2. q[1] \in Leaves /\ q[2] \in Clients /\ q[3] \in {"live", "old"}
    BY <1>a DEF FlowTypes
  <2>3. r[1] = q[1] /\ r[3] = IF q[1] = n THEN "old" ELSE q[3]
    BY <2>1
  <2> QED
    BY <1>a, <2>1, <2>2, <2>3 DEF RowsAreUp
<1> QED
  BY <1>1, <1>4, <1>6, <1>7

LEMMA UnloadStep == ASSUME IInv, NEW n \in Nodes, Unload(n) PROVE IInv'
<1>a. RowTypes /\ RowsFit /\ DiskTypes /\ FlowTypes /\ HistoryTypes /\ RowsAreUp /\ PurgeShape
  BY TypeParts DEF IInv
<1>1. /\ RowTypes' /\ RowsFit' /\ NoStaleCopy' /\ RestoredOnce'
      /\ \A m \in Nodes, d \in Clients : row'[m][d] = IF m = n THEN "none" ELSE row[m][d]
      /\ queue' \subseteq Leaves \X Clients \X {"live", "old"}
      /\ \A q \in queue' : q[3] = "live" => q[1] # n /\ Up(q[1])
  BY DroppedIs DEF Unload
<1>2. DiskTypes'
  <2>1. owner[n] \in Tables /\ store[n] \in Tables /\ old[n] \in Tables
    BY <1>a DEF RowTypes, DiskTypes
  <2>2. Saved(n, owner[n], store[n]) \in Tables
    BY <2>1 DEF Saved
  <2> QED
    BY <1>a, <2>1, <2>2 DEF Unload, DiskTypes
<1>3. /\ purge' \in Purges /\ purge'.at = purge.at /\ purge'.mac = purge.mac
      /\ \A m \in Nodes : m # n => purge'.todo[m] = purge.todo[m]
      /\ purge.todo[n] = "no" => purge' = purge
  <2>1. purge \in Purges
    BY <1>a DEF FlowTypes
  <2> QED
    BY <2>1 DEF Unload, Purges
<1>4. FlowTypes'
  BY <1>a, <1>1, <1>3 DEF Unload, FlowTypes
<1>5. HistoryTypes'
  BY <1>a, BlindTypes DEF Unload, Dropped, HistoryTypes, StillMissed
<1>6. \A m \in Nodes : Up(m)' <=> Up(m) /\ m # n
  BY <1>a DEF Unload, FlowTypes, Up
<1>7. RowsAreUp'
  <2>1. \A m \in Nodes, d \in Clients : row'[m][d] # "none" => Up(m)'
    BY <1>a, <1>1, <1>6 DEF RowsAreUp
  <2>2. \A m \in Nodes : job'[m].at # "idle" => Up(m)'
    BY <1>a, <1>6 DEF Unload, RowsAreUp
  <2>3. \A q \in queue' : q[3] = "live" => Up(q[1])'
    BY <1>1, <1>6, NodeFacts
  <2> QED
    BY <1>a, <2>1, <2>2, <2>3 DEF Unload, RowsAreUp
<1>8. PurgeShape'
  <2>1. purge'.at = "idle" => purge' = NoPurge
    BY <1>a, <1>3, NodeFacts DEF PurgeShape
  <2>2. purge'.at = "taken" =>
           \A m \in Nodes : Up(m)' => purge'.todo[m] = "live" \/ <<m, purge'.mac>> \in late'
    BY <1>a, <1>3, <1>6 DEF Unload, PurgeShape
  <2> QED
    BY <1>a, <1>3, <2>1, <2>2 DEF PurgeShape
<1>9. PurgedHasNoRow'
  BY <1>a, <1>1, <1>3 DEF Unload, IInv, PurgedHasNoRow, DiskTypes
<1> QED
  BY <1>1, <1>2, <1>4, <1>5, <1>7, <1>8, <1>9, TypePartsNext DEF IInv

LEMMA SetupRetriedStep == ASSUME IInv, NEW n \in Nodes, SetupRetried(n) PROVE IInv'
<1>a. RowTypes /\ RowsFit /\ DiskTypes /\ FlowTypes /\ HistoryTypes /\ RowsAreUp /\ PurgeShape
  BY TypeParts DEF IInv
<1>1. /\ RowTypes' /\ RowsFit' /\ NoStaleCopy' /\ RestoredOnce'
      /\ \A m \in Nodes, d \in Clients : row'[m][d] = IF m = n THEN "none" ELSE row[m][d]
      /\ queue' \subseteq Leaves \X Clients \X {"live", "old"}
      /\ \A q \in queue' : q[3] = "live" => q[1] # n /\ Up(q[1])
  BY DroppedIs DEF SetupRetried
<1>2. DiskTypes'
  BY <1>a DEF SetupRetried, DiskTypes
<1>3. /\ purge' \in Purges /\ purge'.at = purge.at /\ purge'.mac = purge.mac
      /\ \A m \in Nodes : m # n => purge'.todo[m] = purge.todo[m]
      /\ purge.todo[n] = "no" => purge' = purge
  <2>1. purge \in Purges
    BY <1>a DEF FlowTypes
  <2> QED
    BY <2>1 DEF SetupRetried, Purges
<1>4. FlowTypes'
  BY <1>a, <1>1, <1>3, NodeFacts DEF SetupRetried, FlowTypes
<1>5. /\ late' \subseteq Nodes \X Clients
      /\ \A m \in Nodes, d \in Clients : m # n /\ <<m, d>> \in late => <<m, d>> \in late'
      /\ purge.at = "taken" => <<n, purge.mac>> \in late'
  BY <1>a DEF SetupRetried, HistoryTypes, PurgeShape
<1>6. HistoryTypes'
  BY <1>a, <1>5, BlindTypes DEF SetupRetried, Dropped, HistoryTypes, StillMissed
<1>7. \A m \in Nodes : Up(m)' <=> Up(m)
  BY DEF SetupRetried, Up
<1>8. RowsAreUp'
  <2>1. \A m \in Nodes, d \in Clients : row'[m][d] # "none" => Up(m)'
    BY <1>a, <1>1, <1>7 DEF RowsAreUp
  <2>2. \A m \in Nodes : job'[m] = IF m = n THEN IdleJob ELSE job[m]
    BY <1>a DEF SetupRetried, FlowTypes
  <2>3. \A q \in queue' : q[3] = "live" => Up(q[1])'
    BY <1>1, <1>7, NodeFacts
  <2>4. IdleJob.at = "idle"
    BY DEF IdleJob
  <2> QED
    BY <1>a, <1>7, <2>1, <2>2, <2>3, <2>4 DEF RowsAreUp
<1>9. PurgeShape'
  <2>1. purge'.at = "idle" => purge' = NoPurge
    BY <1>a, <1>3, NodeFacts DEF PurgeShape
  <2>2. purge'.at = "taken" =>
           \A m \in Nodes : Up(m)' => purge'.todo[m] = "live" \/ <<m, purge'.mac>> \in late'
    BY <1>a, <1>3, <1>5, <1>7 DEF PurgeShape
  <2> QED
    BY <1>a, <1>3, <2>1, <2>2 DEF PurgeShape
<1>10. PurgedHasNoRow'
  BY <1>a, <1>1, <1>3, <1>5 DEF SetupRetried, IInv, PurgedHasNoRow, DiskTypes
<1> QED
  BY <1>1, <1>2, <1>4, <1>6, <1>8, <1>9, <1>10, TypePartsNext DEF IInv

LEMMA RestartStep == ASSUME IInv, Restart PROVE IInv'
<1>a. RowTypes /\ RowsFit /\ DiskTypes /\ FlowTypes /\ HistoryTypes /\ RowsAreUp /\ PurgeShape
  BY TypeParts DEF IInv
<1>1. RowTypes' /\ RowsFit' /\ FlowTypes' /\ HistoryTypes'
  BY <1>a, NodeFacts
  DEF Restart, RowTypes, RowsFit, FlowTypes, HistoryTypes, Tables, Empty
<1>2. store' \in [Nodes -> Tables]
  <2>1. CASE UNCHANGED store
    BY <1>a, <2>1 DEF DiskTypes
  <2>2. ASSUME NEW fromOld \in SUBSET {n \in Nodes : Holds(old[n]) # {}},
               store' = [n \in Nodes |->
                           Saved(n, IF n \in fromOld THEN old[n]
                                    ELSE IF up[n] = "ready" THEN owner[n] ELSE Empty, store[n])]
        PROVE  store' \in [Nodes -> Tables]
    <3>1. \A n \in Nodes : \A t \in Tables : Saved(n, t, store[n]) \in Tables
      BY <1>a DEF DiskTypes, Saved
    <3>2. \A n \in Nodes : (IF n \in fromOld THEN old[n]
                            ELSE IF up[n] = "ready" THEN owner[n] ELSE Empty) \in Tables
      BY <1>a, NodeFacts DEF DiskTypes, RowTypes
    <3> QED
      BY <2>2, <3>1, <3>2
  <2> QED
    BY <2>1, <2>2 DEF Restart
<1>3. DiskTypes'
  BY <1>a, <1>2, NodeFacts DEF Restart, DiskTypes
<1>4. RowsAreUp'
  BY DEF Restart, RowsAreUp, IdleJob
<1>5. PurgeShape'
  BY NodeFacts DEF Restart, PurgeShape
<1>6. NoStaleCopy' /\ RestoredOnce' /\ PurgedHasNoRow'
  BY <1>3 DEF Restart, NoStaleCopy, RestoredOnce, PurgedHasNoRow, DiskTypes
<1> QED
  BY <1>1, <1>3, <1>4, <1>5, <1>6, TypePartsNext DEF IInv

(* A purge. *)

LEMMA TakeUpdatersStep == ASSUME IInv, NEW c \in Clients, TakeUpdaters(c) PROVE IInv'
<1>a. RowTypes /\ RowsFit /\ DiskTypes /\ FlowTypes /\ HistoryTypes /\ RowsAreUp /\ PurgeShape
  BY TypeParts DEF IInv
<1>1. /\ purge' \in Purges /\ purge'.at = "taken" /\ purge'.mac = c
      /\ \A n \in Nodes : purge'.todo[n] = IF Up(n) THEN "live" ELSE "no"
  BY DEF TakeUpdaters, NoPurge, Purges
<1>2. /\ late' \subseteq late
      /\ \A n \in Nodes, d \in Clients : d # c /\ <<n, d>> \in late => <<n, d>> \in late'
  BY DEF TakeUpdaters
<1>3. RowTypes' /\ RowsFit' /\ DiskTypes' /\ FlowTypes' /\ HistoryTypes'
  BY <1>a, <1>1, <1>2
  DEF TakeUpdaters, RowTypes, RowsFit, DiskTypes, FlowTypes, HistoryTypes
<1>4. RowsAreUp'
  BY <1>a DEF TakeUpdaters, RowsAreUp, Up
<1>5. PurgeShape'
  BY <1>1 DEF TakeUpdaters, PurgeShape, Up
<1>6. NoStaleCopy' /\ RestoredOnce'
  BY RowsUnchanged DEF TakeUpdaters
<1>7. PurgedHasNoRow'
  <2> SUFFICES ASSUME NEW n \in Nodes, NEW d \in owed, row[n][d] # "none"
               PROVE  (purge'.mac = d /\ purge'.todo[n] = "live") \/ <<n, d>> \in late'
    BY DEF TakeUpdaters, PurgedHasNoRow
  <2>1. d \in Clients /\ Up(n)
    BY <1>a DEF DiskTypes, RowsAreUp
  <2>2. purge.mac = NoClient
    BY <1>a, NodeFacts DEF TakeUpdaters, PurgeShape
  <2>3. <<n, d>> \in late
    BY <2>1, <2>2, NoClientIsNone DEF IInv, PurgedHasNoRow
  <2> QED
    BY <1>1, <1>2, <2>1, <2>3
<1> QED
  BY <1>3, <1>4, <1>5, <1>6, <1>7, TypePartsNext DEF IInv

LEMMA MarkStep == ASSUME IInv, Mark PROVE IInv'
<1>a. RowTypes /\ RowsFit /\ DiskTypes /\ FlowTypes /\ HistoryTypes /\ RowsAreUp /\ PurgeShape
  BY TypeParts DEF IInv
<1>1. purge' \in Purges /\ purge'.at = "marked" /\ purge'.mac = purge.mac /\ purge'.todo = purge.todo
  BY <1>a DEF Mark, FlowTypes, Purges
<1>2. purge.mac \in Clients
  BY <1>a DEF Mark, PurgeShape
<1>3. RowTypes' /\ RowsFit' /\ DiskTypes' /\ FlowTypes' /\ HistoryTypes'
  BY <1>a, <1>1, <1>2 DEF Mark, RowTypes, RowsFit, DiskTypes, FlowTypes, HistoryTypes
<1>4. RowsAreUp'
  BY <1>a DEF Mark, RowsAreUp, Up
<1>5. PurgeShape'
  BY <1>1, <1>2 DEF PurgeShape
<1>6. NoStaleCopy' /\ RestoredOnce'
  BY RowsUnchanged DEF Mark
<1>7. PurgedHasNoRow'
  <2> SUFFICES ASSUME NEW n \in Nodes, NEW d \in owed \cup {purge.mac}, row[n][d] # "none"
               PROVE  (purge.mac = d /\ purge.todo[n] = "live") \/ <<n, d>> \in late
    BY <1>1 DEF Mark, PurgedHasNoRow
  <2>1. CASE d \in owed
    BY <2>1 DEF IInv, PurgedHasNoRow
  <2>2. CASE d = purge.mac
    BY <1>a, <1>2, <2>2 DEF Mark, PurgeShape, RowsAreUp
  <2> QED
    BY <2>1, <2>2
<1> QED
  BY <1>3, <1>4, <1>5, <1>6, <1>7, TypePartsNext DEF IInv

LEMMA ForgetClientStep == ASSUME IInv, NEW n \in Nodes, ForgetClient(n) PROVE IInv'
<1> DEFINE c == purge.mac
<1>a. RowTypes /\ RowsFit /\ DiskTypes /\ FlowTypes /\ HistoryTypes /\ RowsAreUp /\ PurgeShape
  BY TypeParts DEF IInv
<1>b. c \in Clients /\ purge.at = "marked"
  BY <1>a DEF ForgetClient, PurgeShape
<1>1. /\ purge' \in Purges /\ purge'.at = purge.at /\ purge'.mac = purge.mac
      /\ \A m \in Nodes : m # n => purge'.todo[m] = purge.todo[m]
  BY <1>a DEF ForgetClient, FlowTypes, Purges
<1>2. /\ RowTypes' /\ RowsFit' /\ NoStaleCopy' /\ RestoredOnce'
      /\ \A m \in Nodes, d \in Clients : row'[m][d] \in {row[m][d], "none"}
      /\ purge.todo[n] = "live" => row'[n][c] = "none"
  <2>1. CASE purge.todo[n] = "live"
    <3>1. RowLeaves(n, c)
      BY <1>b, <2>1, RowLeavesBy DEF ForgetClient
    <3>2. MarksGo({n}, c)
      BY <1>a, <1>b, <2>1 DEF ForgetClient, RowTypes, MarksGo
    <3>3. row'[n][c] = "none"
      BY <1>b, <3>1 DEF RowLeaves
    <3> HIDE DEF c
    <3> QED
      BY <1>b, <3>1, <3>2, <3>3, RowGoes DEF ForgetClient
  <2>2. CASE purge.todo[n] # "live"
    <3>1. UNCHANGED <<row, owner, moved>> /\ missed' = StillMissed
      BY <2>2 DEF ForgetClient
    <3>2. RowTypes' /\ RowsFit'
      BY <1>a, <3>1 DEF RowTypes, RowsFit
    <3>3. NoStaleCopy' /\ RestoredOnce'
      BY <3>1, <3>2, CopiesKeep
    <3> QED
      BY <2>2, <3>1, <3>2, <3>3
  <2> QED
    BY <2>1, <2>2
<1>3. DiskTypes'
  <2>1. store' \in [Nodes -> Tables]
    BY <1>a, <1>b DEF ForgetClient, DiskTypes, Tables
  <2>2. old' = old \/ old' = [old EXCEPT ![n][c] = NoNode]
    BY DEF ForgetClient
  <2>3. old' \in [Nodes -> Tables]
    <3>1. old \in [Nodes -> Tables] /\ [old[n] EXCEPT ![c] = NoNode] \in Tables
      BY <1>a, <1>b DEF DiskTypes, Tables
    <3> HIDE DEF c
    <3>2. CASE old' = [old EXCEPT ![n][c] = NoNode]
      BY <3>1, <3>2
    <3> QED
      BY <2>2, <3>1, <3>2
  <2> QED
    BY <1>a, <2>1, <2>3 DEF ForgetClient, DiskTypes
<1>4. FlowTypes' /\ HistoryTypes'
  BY <1>a, <1>1 DEF ForgetClient, FlowTypes, HistoryTypes, StillMissed
<1>5. RowsAreUp'
  BY <1>a, <1>2 DEF ForgetClient, RowsAreUp, Up
<1>6. PurgeShape'
  BY <1>b, <1>1 DEF PurgeShape
<1>7. PurgedHasNoRow'
  <2> SUFFICES ASSUME NEW m \in Nodes, NEW d \in owed, row'[m][d] # "none"
               PROVE  (purge'.mac = d /\ purge'.todo[m] = "live") \/ <<m, d>> \in late
    BY DEF ForgetClient, PurgedHasNoRow
  <2>1. d \in Clients /\ row[m][d] # "none"
    BY <1>a, <1>2 DEF DiskTypes
  <2>2. (purge.mac = d /\ purge.todo[m] = "live") \/ <<m, d>> \in late
    BY <2>1 DEF IInv, PurgedHasNoRow
  <2> QED
    BY <1>1, <1>2, <2>2
<1> QED
  BY <1>2, <1>3, <1>4, <1>5, <1>6, <1>7, TypePartsNext DEF IInv

LEMMA EndPurgeStep == ASSUME IInv, EndPurge PROVE IInv'
<1>a. RowTypes /\ RowsFit /\ DiskTypes /\ FlowTypes /\ HistoryTypes /\ RowsAreUp /\ PurgeShape
  BY TypeParts DEF IInv
<1>1. RowTypes' /\ RowsFit' /\ DiskTypes' /\ FlowTypes' /\ HistoryTypes'
  BY <1>a, NodeFacts DEF EndPurge, RowTypes, RowsFit, DiskTypes, FlowTypes, HistoryTypes
<1>2. RowsAreUp'
  BY <1>a DEF EndPurge, RowsAreUp, Up
<1>3. PurgeShape'
  BY NodeFacts DEF EndPurge, PurgeShape
<1>4. NoStaleCopy' /\ RestoredOnce'
  BY RowsUnchanged DEF EndPurge
<1>5. PurgedHasNoRow'
  BY DEF EndPurge, IInv, PurgedHasNoRow
<1> QED
  BY <1>1, <1>2, <1>3, <1>4, <1>5, TypePartsNext DEF IInv

-----------------------------------------------------------------------------
LEMMA StepInv == ASSUME IInv, [Next]_vars PROVE IInv'
<1>1. ASSUME NEW n \in Nodes,
             \/ Register(n) \/ StartRestore(n) \/ EndRestore(n)
             \/ Unload(n) \/ SetupRetried(n) \/ ForgetClient(n)
      PROVE  IInv'
  BY <1>1, RegisterStep, StartRestoreStep, EndRestoreStep, UnloadStep, SetupRetriedStep,
     ForgetClientStep
<1>2. ASSUME NEW n \in Nodes, NEW c \in Clients, ListOwn(n, c) \/ RestoreOne(n, c) \/ Expire(n, c)
      PROVE  IInv'
  BY <1>2, ListOwnStep, RestoreOneStep, ExpireStep
<1>3. ASSUME NEW n \in Nodes, NEW confirmed \in BOOLEAN, AddOwn(n, confirmed) PROVE IInv'
  BY <1>3, AddOwnStep
<1>4. ASSUME NEW c \in Clients, NEW l \in Leaves, Route(c, l) PROVE IInv'
  BY <1>4, RouteStep
<1>5. ASSUME NEW c \in Clients, NEW l \in Leaves, NEW confirmed \in BOOLEAN,
             Push(l, c, confirmed) \/ PushLost(l, c, confirmed)
      PROVE  IInv'
  BY <1>5, PushStep, PushLostStep
<1>6. ASSUME NEW c \in Purged, TakeUpdaters(c) PROVE IInv'
  BY <1>6, TakeUpdatersStep, PurgedAreClients
<1>7. CASE Mark
  BY <1>7, MarkStep
<1>8. CASE EndPurge
  BY <1>8, EndPurgeStep
<1>9. CASE Restart
  BY <1>9, RestartStep
<1>10. CASE UNCHANGED vars
  BY <1>10, StutterStep
<1> QED
  BY <1>1, <1>2, <1>3, <1>4, <1>5, <1>6, <1>7, <1>8, <1>9, <1>10 DEF Next

LEMMA SpecInv == Spec => []IInv
<1>1. IInv /\ [Next]_vars => IInv'
  BY StepInv
<1> QED
  BY InitInv, <1>1, PTL DEF Spec

(* What follows. *)

\* A row of a node has an owner and a mark has a row, in every mesh: reports,
\* restores, pushes and purges of several nodes never leave one without the other.
THEOREM TypeCorrect == Spec => []TypeOK
<1>1. IInv => TypeOK
  BY DEF IInv
<1> QED
  BY SpecInv, <1>1, PTL

\* However restores, reports, pushes and reloads of any number of nodes interleave,
\* no node keeps a copy of a client that only its store held while another node
\* reports the client, unless the copy was taken by a restore that began before
\* that node was set up.
THEOREM NoStaleCopyHolds == Spec => []NoStaleCopy
<1>1. IInv => NoStaleCopy
  BY DEF IInv
<1> QED
  BY SpecInv, <1>1, PTL

\* A client in the stores of any number of nodes is restored on one, or on two of
\* which one has marked it as moved.
THEOREM RestoredOnceHolds == Spec => []RestoredOnce
<1>1. IInv => RestoredOnce
  BY DEF IInv
<1> QED
  BY SpecInv, <1>1, PTL

\* Once a purge has been through a node, the node has no row of the client until a
\* router confirms it, over reports, queued pushes, reloads, restarts and crashes.
THEOREM PurgedHasNoRowHolds == Spec => []PurgedHasNoRow
<1>1. IInv => PurgedHasNoRow
  BY DEF IInv
<1> QED
  BY SpecInv, <1>1, PTL
=============================================================================
