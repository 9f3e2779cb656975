---------------------------- MODULE Entities_proofs ----------------------------
(***************************************************************************)
(* Proofs about the entities: TrackerPresence, for any mesh and any bounds,*)
(* and WifiWrites, for any settings, values and calls and any number of    *)
(* overrides.                                                              *)
(***************************************************************************)
EXTENDS TrackerPresence, WifiWrites, TLAPS

(* The tracker of a client. *)

States == {"out", "first", "fetched", "ready", "stopped"}
Polling == [at: {"idle", "add", "push"}, to: Nodes, skip: BOOLEAN]
Trackers == [coord: Nodes \cup {None}, upd: Nodes, old: BOOLEAN, kept: Records \cup {None},
             home: BOOLEAN, held: BOOLEAN, k: 0..(HoldMax + Old)]

Live(r) == r # None /\ ~r.restored
Kept(r) == r # None /\ r.restored
Honest(r) == Live(r) => r.age <= silence
Recents(r) == r # None => r.age <= silence

\* Only an updater in hass.data has a record, or a refresh; a report is of the node
\* itself, or of the leaf the main pushes to.
OutIsEmpty ==
    /\ \A n \in Nodes : ~Loaded(n) => row[n] = None /\ poll[n].at = "idle"
    /\ \A n \in Nodes : poll[n].at = "add" => poll[n].to = n
    /\ \A n \in Nodes :
          poll[n].at = "push" => n = Main /\ poll[n].to \in Leaves /\ Loaded(poll[n].to)

\* No tracker, nobody home.
NobodyHome == tracker.coord = None => ~tracker.home

\* A record that a store gave back goes with the first report of any node.
OneKind ==
    /\ \A n, m \in Nodes : Live(row[n]) => ~Kept(row[m])
    /\ Kept(cache) => \A n \in Nodes : ~Live(row[n])
    /\ \A n \in Nodes : store[n] # None => Saves(n)

Base == TypeOK /\ OutIsEmpty /\ NobodyHome /\ OneKind

\* A refresh that has listed the client has made recent, or renamed, what the other node has.
InFlight ==
    \A l \in Leaves :
        /\ poll[Main].at = "add" /\ Live(row[l]) => row[l].age = 0
        /\ poll[l].at = "add" /\ Live(row[Main]) /\ row[Main].via = Main => row[Main].age = 0
        /\ poll[Main].at = "push" => ~Live(row[Main])

\* The leaf's record is of the last report, the main's too unless the leaf reports.
LastReport ==
    /\ \A l \in Leaves : Honest(row[l])
    /\ Live(row[Main]) /\ row[Main].via = Main => Honest(row[Main])
    /\ Honest(cache)
    /\ \A l \in Leaves :
          tracker.coord = l => Honest(row[Main]) \/ Live(row[l]) \/ poll[l].at = "add"

\* Tracker t's own coordinator knows better than the record t has kept.
Knows(a) == Live(row[a]) \/ poll[a].at # "idle"

\* What comes back to the node that the tracker has lost is of the last report.
Back(b) ==
    /\ Live(row[b]) \/ poll[b].at = "push" \/ Recents(store[b])
    /\ Kept(row[b]) => Recents(row[b])
    /\ Kept(cache) => Recents(cache)

OldIsOther == tracker.coord # None /\ tracker.old => tracker.upd # tracker.coord

LostIsKnown ==
    tracker.coord # None /\ tracker.old /\ Live(tracker.kept)
        => Knows(tracker.coord) \/ Back(tracker.upd)

Reported == InFlight /\ LastReport /\ OldIsOther /\ LostIsKnown

-----------------------------------------------------------------------------
(* Records. *)

LEMMA Bounds ==
  /\ Stay \in Nat /\ HoldMax \in Nat /\ MaxMoves \in Nat /\ MaxFaults \in Nat
  /\ Old = Stay + 1 /\ Main \in Nodes /\ Leaves \subseteq Nodes
  /\ None \notin Nodes /\ None \notin Records /\ Away \notin Nodes
BY BoundsAreNat, NoneIsNone DEF Old, Nodes

LEMMA Min2Is ==
  ASSUME NEW a \in Int, NEW b \in Int
  PROVE  Min2(a, b) \in {a, b} /\ Min2(a, b) <= a /\ Min2(a, b) <= b
BY DEF Min2

\* A record as a tuple of its fields.
LEMMA RecordIs ==
  ASSUME NEW r \in Records
  PROVE  /\ r.age \in 0..Old /\ r.entry \in Nodes /\ r.via \in Nodes /\ r.restored \in BOOLEAN
         /\ r # None
BY Bounds DEF Records

LEMMA FreshIs ==
  ASSUME NEW n \in Nodes
  PROVE  /\ Fresh(n) \in Records
         /\ Fresh(n).age = 0 /\ Fresh(n).entry = n /\ Fresh(n).via = n /\ ~Fresh(n).restored
BY Bounds DEF Fresh, Records

\* A tick makes a record older, by no more than it makes the silence longer.
LEMMA OlderIs ==
  ASSUME NEW r \in Records \cup {None}
  PROVE  /\ Older(r) \in Records \cup {None}
         /\ r = None <=> Older(r) = None
         /\ r # None => /\ Older(r).age = Min2(r.age + 1, Old)
                        /\ Older(r).restored = r.restored
                        /\ Older(r).entry = r.entry /\ Older(r).via = r.via
<1>1. CASE r = None
  BY <1>1 DEF Older
<1>2. CASE r # None
  <2>1. r \in Records /\ r.age \in 0..Old
    BY <1>2, RecordIs
  <2>2. Min2(r.age + 1, Old) \in 0..Old
    BY <2>1, Bounds DEF Min2
  <2>3. Older(r) = [r EXCEPT !.age = Min2(r.age + 1, Old)]
    BY <1>2 DEF Older
  <2> DEFINE m == Min2(r.age + 1, Old)
  <2> HIDE DEF m
  <2>4. Older(r) = [r EXCEPT !.age = m] /\ m \in 0..Old
    BY <2>2, <2>3 DEF m
  <2>5. Older(r) \in Records /\ Older(r).age = m
        /\ Older(r).restored = r.restored /\ Older(r).entry = r.entry /\ Older(r).via = r.via
    BY <2>1, <2>4 DEF Records
  <2> QED
    BY <1>2, <2>5, RecordIs DEF m
<1> QED
  BY <1>1, <1>2

LEMMA TouchedIs ==
  ASSUME row \in [Nodes -> Records \cup {None}], NEW n \in Nodes
  PROVE  /\ Touched(n) \in Records \cup {None}
         /\ row[n] = None <=> Touched(n) = None
         /\ row[n] # None => /\ Touched(n).age = 0 /\ Touched(n).restored = row[n].restored
                             /\ Touched(n).via = row[n].via /\ Touched(n).entry = row[n].entry
<1>1. CASE row[n] = None
  BY <1>1 DEF Touched, Has
<1>2. CASE row[n] # None
  <2>1. row[n] \in Records
    BY <1>2
  <2>2. Touched(n) = [row[n] EXCEPT !.age = 0]
    BY <1>2 DEF Touched, Has
  <2>3. Touched(n) \in Records /\ Touched(n).age = 0 /\ Touched(n).restored = row[n].restored
        /\ Touched(n).via = row[n].via /\ Touched(n).entry = row[n].entry
    BY <2>1, <2>2, Bounds DEF Records
  <2> QED
    BY <1>2, <2>3, RecordIs
<1> QED
  BY <1>1, <1>2

\* The copies of other nodes after node n has listed the client, with r as its own.
LEMMA MassIs ==
  ASSUME row \in [Nodes -> Records \cup {None}], NEW n \in Nodes, NEW r \in Records \cup {None}
  PROVE  /\ Mass(n, r) \in [Nodes -> Records \cup {None}]
         /\ Mass(n, r)[n] = r
         /\ \A m \in Nodes \ {n} :
               /\ row[m] = None <=> Mass(n, r)[m] = None
               /\ row[m] # None => Mass(n, r)[m].restored = row[m].restored
               /\ ~Loaded(m) => Mass(n, r)[m] = row[m]
               /\ Loaded(m) /\ row[m] # None =>
                     /\ Mass(n, r)[m].via = n
                     /\ Mass(n, r)[m].age = IF n = Main THEN 0 ELSE row[m].age
<1> DEFINE named(m) == [row[m] EXCEPT !.entry = n, !.via = n,
                                      !.age = IF n = Main THEN 0 ELSE row[m].age]
<1>1. ASSUME NEW m \in Nodes, row[m] # None
      PROVE  /\ named(m) \in Records
             /\ named(m).restored = row[m].restored /\ named(m).via = n
             /\ named(m).age = IF n = Main THEN 0 ELSE row[m].age
  <2>1. row[m] \in Records /\ row[m].age \in 0..Old
    BY <1>1, RecordIs
  <2>2. (IF n = Main THEN 0 ELSE row[m].age) \in 0..Old
    BY <2>1, Bounds
  <2> DEFINE a == IF n = Main THEN 0 ELSE row[m].age
  <2> HIDE DEF a
  <2>3. named(m) = [row[m] EXCEPT !.entry = n, !.via = n, !.age = a] /\ a \in 0..Old
    BY <2>2 DEF a
  <2>4. named(m) \in Records /\ named(m).restored = row[m].restored /\ named(m).via = n
        /\ named(m).age = a
    BY <2>1, <2>3 DEF Records
  <2> QED
    BY <2>4 DEF a
<1>2. Mass(n, r) = [m \in Nodes |-> IF m = n THEN r
                                   ELSE IF m \in OthersWith(n) THEN named(m) ELSE row[m]]
  BY DEF Mass
<1>3. \A m \in Nodes \ {n} : m \in OthersWith(n) <=> Loaded(m) /\ row[m] # None
  BY DEF OthersWith, Has
<1> HIDE DEF named
<1>4. ASSUME NEW m \in Nodes
      PROVE  /\ m = n => Mass(n, r)[m] = r
             /\ m # n /\ Loaded(m) /\ row[m] # None => Mass(n, r)[m] = named(m)
             /\ m # n /\ ~(Loaded(m) /\ row[m] # None) => Mass(n, r)[m] = row[m]
  BY <1>2, <1>3
<1>5. ASSUME NEW m \in Nodes PROVE Mass(n, r)[m] \in Records \cup {None}
  BY <1>1, <1>4
<1>6. Mass(n, r) \in [Nodes -> Records \cup {None}]
  BY <1>2, <1>5
<1> QED
  BY <1>1, <1>4, <1>6, RecordIs

-----------------------------------------------------------------------------
(* The tracker. *)

\* Where a tracker looks, and what it reads there.
LEMMA LooksIs ==
  ASSUME NEW t \in Trackers, NEW rows \in [Nodes -> Records \cup {None}], NEW c \in Records
  PROVE  /\ Looks(t, rows, c).upd \in Nodes
         /\ Looks(t, rows, c).old \in BOOLEAN
         /\ Looks(t, rows, c).kept \in Records \cup {None}
         /\ Looks(t, rows, c).read \in Records
         /\ Looks(t, rows, c).old =>
               t.old /\ Looks(t, rows, c).upd = t.upd /\ Looks(t, rows, c).kept = t.kept
         /\ \/ t.old /\ Looks(t, rows, c).read = t.kept
            \/ Looks(t, rows, c).read = c
            \/ \E n \in Nodes : Looks(t, rows, c).read = rows[n]
<1> DEFINE own == IF t.old THEN t.kept ELSE rows[t.upd]
           r == IF own # None THEN own ELSE c
           there == IF rows[r.entry] # None THEN rows[r.entry] ELSE r
           goes == [upd |-> r.entry, old |-> FALSE, kept |-> None, read |-> there]
           stays == [upd |-> t.upd, old |-> t.old, kept |-> t.kept, read |-> r]
<1>1. t.upd \in Nodes /\ t.old \in BOOLEAN /\ t.kept \in Records \cup {None}
  BY DEF Trackers
<1>2. own \in Records \cup {None}
  BY <1>1
<1>3. r \in Records /\ r.entry \in Nodes
  BY <1>2, RecordIs
<1>4. there \in Records
  BY <1>3
<1>5. \/ t.old /\ r = t.kept
      \/ r = c
      \/ r = rows[t.upd]
  BY <1>1
<1>6. Looks(t, rows, c) = IF Loaded(r.entry) /\ (t.old \/ r.entry # t.upd) THEN goes ELSE stays
  BY DEF Looks
<1>7. there = r \/ there = rows[r.entry]
  OBVIOUS
<1> HIDE DEF own, r, there
<1>8. CASE Looks(t, rows, c) = goes
  BY <1>1, <1>3, <1>4, <1>5, <1>7, <1>8
<1>9. CASE Looks(t, rows, c) = stays
  BY <1>1, <1>3, <1>5, <1>9
<1> QED
  BY <1>6, <1>8, <1>9

\* How long ago a tracker takes the client to be seen; the hold lasts while a node
\* has not finished its first refresh, and no longer than HoldMax.
LEMMA AgeIs ==
  ASSUME NEW r \in Records, NEW t \in Trackers
  PROVE  /\ Age(r, t) \in Int
         /\ ~r.restored => Age(r, t) = r.age
         /\ r.restored /\ t.held /\ Age(r, t) > Stay /\ (\E n \in Nodes : up[n] = "first")
               => t.k > HoldMax + Stay
<1> DEFINE first == \E n \in Nodes : up[n] = "first"
           m == IF first /\ t.k > 1 THEN t.k ELSE 1
           seen == Min2(m, HoldMax)
<1>1. r.age \in 0..Old /\ r.restored \in BOOLEAN /\ t.held \in BOOLEAN /\ t.k \in 0..(HoldMax + Old)
  BY RecordIs DEF Trackers
<1>2. t.k \in Nat /\ r.age \in Int /\ Stay \in Nat /\ HoldMax \in Nat
  BY <1>1, Bounds
<1>3. m \in Nat /\ (first => m = IF t.k > 1 THEN t.k ELSE 1)
  BY <1>2
<1>4. Age(r, t) = IF r.restored /\ t.held THEN Min2(r.age, t.k - seen) ELSE r.age
  BY DEF Age
<1> HIDE DEF first, m
<1>5. seen \in Int /\ (seen = m \/ (seen = HoldMax /\ HoldMax <= m))
  BY <1>2, <1>3 DEF Min2
<1> HIDE DEF seen
<1>6. Min2(r.age, t.k - seen) \in Int /\ Min2(r.age, t.k - seen) <= t.k - seen
  BY <1>2, <1>5 DEF Min2
<1>7. ASSUME t.k - seen > Stay, first PROVE t.k > HoldMax + Stay
  BY <1>2, <1>3, <1>5, <1>7
<1>8. ASSUME r.restored, t.held, Age(r, t) > Stay, first PROVE t.k > HoldMax + Stay
  BY <1>2, <1>4, <1>5, <1>6, <1>7, <1>8
<1>9. Age(r, t) \in Int /\ (~r.restored => Age(r, t) = r.age)
  BY <1>1, <1>2, <1>4, <1>6
<1> QED
  BY <1>8, <1>9 DEF first

LEMMA HeardIs ==
  ASSUME NEW t \in Trackers, NEW rows \in [Nodes -> Records \cup {None}], NEW c \in Records
  PROVE  /\ Heard(t, rows, c) \in Trackers
         /\ Heard(t, rows, c).coord = t.coord
         /\ Heard(t, rows, c).home = (Age(Looks(t, rows, c).read, t) <= Stay)
         /\ Heard(t, rows, c).old => /\ t.old
                                     /\ Heard(t, rows, c).upd = t.upd
                                     /\ Heard(t, rows, c).kept = t.kept
<1> DEFINE l == Looks(t, rows, c)
           a == Age(l.read, t)
<1>1. /\ l.upd \in Nodes /\ l.old \in BOOLEAN
      /\ l.kept \in Records \cup {None} /\ l.read \in Records
      /\ l.old => t.old /\ l.upd = t.upd /\ l.kept = t.kept
  BY LooksIs
<1>2. Heard(t, rows, c) = [t EXCEPT !.upd = l.upd, !.old = l.old, !.kept = l.kept,
                                    !.home = a <= Stay, !.held = t.held /\ l.read.restored]
  BY DEF Heard
<1>3. (a <= Stay) \in BOOLEAN /\ (t.held /\ l.read.restored) \in BOOLEAN
  BY <1>1, AgeIs, RecordIs, Bounds DEF Trackers
<1> DEFINE h == (a <= Stay)
           held == (t.held /\ l.read.restored)
<1>4. Heard(t, rows, c) = [t EXCEPT !.upd = l.upd, !.old = l.old, !.kept = l.kept,
                                    !.home = h, !.held = held]
      /\ h \in BOOLEAN /\ held \in BOOLEAN
  BY <1>2, <1>3
<1> HIDE DEF h, held, l
<1>5. Heard(t, rows, c) \in Trackers /\ Heard(t, rows, c).coord = t.coord
      /\ Heard(t, rows, c).home = h /\ Heard(t, rows, c).old = l.old
      /\ Heard(t, rows, c).upd = l.upd /\ Heard(t, rows, c).kept = l.kept
  BY <1>1, <1>4 DEF Trackers
<1> QED
  BY <1>1, <1>5 DEF h, l

LEMMA NoTrackerIs ==
  /\ NoTracker \in Trackers /\ NoTracker.coord = None /\ ~NoTracker.home /\ ~NoTracker.old
BY Bounds DEF NoTracker, Trackers

LEMMA CreatedIs ==
  ASSUME NEW n \in Nodes, NEW r \in Records, wasHome \in BOOLEAN
  PROVE  Created(n, r) \in Trackers /\ Created(n, r).coord = n /\ ~Created(n, r).old
<1> DEFINE h == (~r.restored \/ wasHome)
           held == (r.restored /\ wasHome)
<1>1. h \in BOOLEAN /\ held \in BOOLEAN
  BY RecordIs
<1>2. Created(n, r) = [NoTracker EXCEPT !.coord = n, !.upd = n, !.home = h, !.held = held]
  BY DEF Created
<1> HIDE DEF h, held
<1>3. NoTracker \in Trackers /\ NoTracker.old = FALSE
  BY NoTrackerIs DEF NoTracker
<1> QED
  BY <1>1, <1>2, <1>3 DEF Trackers

-----------------------------------------------------------------------------
(* Reports, restored records and the end of a refresh. *)

Rows == [Nodes -> Records \cup {None}]

\* What a report of node n with record r leaves behind.
LEMMA AddDeviceIs ==
  ASSUME TypeOK, NEW n \in Nodes, NEW r \in Records, NEW skip \in BOOLEAN
  PROVE  LET added == AddDevice(n, r, skip) IN
         /\ added.rows \in Rows /\ added.rows[n] = r
         /\ \A m \in Nodes \ {n} :
               /\ added.rows[m] \in {None, row[m]}
               /\ Loaded(m) => ~Kept(added.rows[m])
         /\ \/ added.tracker = tracker
            \/ tracker.coord = None /\ Provides(n) /\ added.tracker = Created(n, r)
<1> DEFINE rows == [m \in Nodes |-> IF m = n THEN r
                                   ELSE IF Loaded(m) /\ Has(m) /\ row[m].restored THEN None
                                   ELSE row[m]]
           t == IF tracker.coord = None /\ ~skip /\ Provides(n) THEN Created(n, r) ELSE tracker
<1>1. AddDevice(n, r, skip).rows = rows /\ AddDevice(n, r, skip).tracker = t
  BY DEF AddDevice
<1>2. row \in [Nodes -> Records \cup {None}]
  BY DEF TypeOK
<1>3. rows \in Rows /\ rows[n] = r
  BY <1>2 DEF Rows
<1>4. ASSUME NEW m \in Nodes \ {n}
      PROVE  rows[m] \in {None, row[m]} /\ (Loaded(m) => ~Kept(rows[m]))
  BY <1>2 DEF Has, Kept
<1>5. t = tracker \/ (tracker.coord = None /\ Provides(n) /\ t = Created(n, r))
  OBVIOUS
<1> HIDE DEF rows, t
<1> QED
  BY <1>1, <1>3, <1>4, <1>5

\* What a first refresh of node n restores: records of its store, and only in a mesh
\* where no updater has one.
LEMMA RestoredIs ==
  ASSUME TypeOK, NEW n \in Nodes, Loaded(n), NEW rows \in Rows
  PROVE  /\ Restored(n, rows) \in Rows
         /\ \/ Restored(n, rows) = rows
            \/ /\ store[n] # None
               /\ \A m \in Nodes : Loaded(m) => rows[m] = None
               /\ \A m \in Nodes :
                     \/ Restored(n, rows)[m] = rows[m]
                     \/ /\ Loaded(m) /\ Kept(Restored(n, rows)[m])
                        /\ Restored(n, rows)[m].age = store[n].age
<1> DEFINE r == [store[n] EXCEPT !.via = n, !.restored = TRUE]
           mine == [r EXCEPT !.entry = n]
           owner == store[n].entry
<1>1. CASE Restored(n, rows) = rows
  BY <1>1
<1>2. CASE Restored(n, rows) # rows
  <2>1. /\ store[n] # None /\ \A m \in Nodes : Loaded(m) => rows[m] = None
        /\ \/ Restored(n, rows) = [rows EXCEPT ![n] = mine]
           \/ Loaded(owner) /\ Restored(n, rows) = [rows EXCEPT ![n] = r, ![owner] = r]
    BY <1>2 DEF Restored
  <2>2. store[n] \in Records
    BY <2>1 DEF TypeOK
  <2>3. /\ owner \in Nodes /\ r \in Records /\ r.restored = TRUE /\ r.age = store[n].age
        /\ mine \in Records /\ mine.restored = TRUE /\ mine.age = store[n].age
    BY <2>2 DEF Records
  <2>4. Kept(r) /\ Kept(mine)
    BY <2>3, RecordIs DEF Kept
  <2> HIDE DEF r, mine, owner
  <2>5. rows \in [Nodes -> Records \cup {None}]
    BY DEF Rows
  <2>6. Restored(n, rows) \in [Nodes -> Records \cup {None}]
    BY <2>1, <2>3, <2>5
  <2>7. ASSUME NEW m \in Nodes
        PROVE  \/ Restored(n, rows)[m] = rows[m]
               \/ /\ Loaded(m) /\ Kept(Restored(n, rows)[m])
                  /\ Restored(n, rows)[m].age = store[n].age
    <3>1. /\ Restored(n, rows)[m] \in {rows[m], r, mine}
          /\ (m \notin {n, owner} => Restored(n, rows)[m] = rows[m])
          /\ (m = owner => Restored(n, rows)[m] = rows[m] \/ m = n \/ Loaded(owner))
      BY <2>1, <2>3, <2>5
    <3> QED
      BY <2>3, <2>4, <3>1
  <2> QED
    BY <2>1, <2>6, <2>7 DEF Rows
<1> QED
  BY <1>1, <1>2

\* The end of a refresh of node n.
LEMMA EndsBase ==
  ASSUME Base, NEW n \in Nodes, Loaded(n),
         NEW rows \in Rows, NEW c \in Records \cup {None}, NEW t \in Trackers,
         \A m \in Nodes : ~Loaded(m) => rows[m] = None,
         \A a, b \in Nodes : Live(rows[a]) => ~Kept(rows[b]),
         Kept(c) => \A a \in Nodes : ~Live(rows[a]),
         t.coord # None => c # None /\ up[t.coord] \in {"ready", "stopped"},
         t.coord = None => ~t.home,
         Ends(n, rows, c, t), silence' \in 0..Old
  PROVE  Base'
<1>1. /\ cache' = c /\ poll' = [poll EXCEPT ![n] = Idle] /\ polled' = polled \cup {n}
      /\ UNCHANGED <<force, at, moves, store, wasHome, faults>>
  BY DEF Ends, client, saved
<1>2. /\ up \in [Nodes -> States] /\ poll \in [Nodes -> Polling] /\ polled \subseteq Nodes
      /\ store \in [Nodes -> Records \cup {None}] /\ Idle \in Polling
      /\ rows \in [Nodes -> Records \cup {None}]
  BY Bounds DEF Base, TypeOK, States, Polling, Idle, Rows
<1>3. /\ poll' \in [Nodes -> Polling] /\ polled' \subseteq Nodes
      /\ \A m \in Nodes : poll'[m] = IF m = n THEN Idle ELSE poll[m]
  BY <1>1, <1>2
<1>4. \/ /\ up[n] = "first" /\ up' = [up EXCEPT ![n] = "fetched"]
         /\ row' = Restored(n, rows) /\ tracker' = t
      \/ /\ up' = up /\ row' = rows
         /\ tracker' = t \/ (t.coord = n /\ tracker' = Heard(t, rows, c))
  BY DEF Ends
<1>5. /\ up' \in [Nodes -> States]
      /\ \A m \in Nodes : (up'[m] # "out" <=> up[m] # "out")
      /\ \A m \in Nodes : up[m] \in {"ready", "stopped"} => up'[m] = up[m]
  BY <1>2, <1>4 DEF States, Loaded
<1>6. /\ row' \in [Nodes -> Records \cup {None}]
      /\ \A m \in Nodes : ~Loaded(m) => row'[m] = None
      /\ \A a, b \in Nodes : Live(row'[a]) => ~Kept(row'[b])
      /\ Kept(c) => \A a \in Nodes : ~Live(row'[a])
  <2>1. CASE row' = rows
    BY <1>2, <2>1
  <2>2. CASE row' # rows
    <3>1. /\ row' = Restored(n, rows) /\ row' \in Rows
          /\ \A m \in Nodes : Loaded(m) => rows[m] = None
          /\ \A m \in Nodes : row'[m] = rows[m] \/ (Loaded(m) /\ Kept(row'[m]))
      BY <1>4, <2>2, RestoredIs DEF Base
    <3>2. \A m \in Nodes : ~Live(row'[m])
      BY <3>1 DEF Live, Kept
    <3> QED
      BY <3>1, <3>2 DEF Rows
  <2> QED
    BY <2>1, <2>2
<1>7. /\ tracker' \in Trackers
      /\ tracker'.coord = t.coord
      /\ t.coord = None => tracker' = t
  <2>1. CASE tracker' = t
    BY <2>1
  <2>2. CASE tracker' # t
    <3>1. t.coord = n /\ n # None /\ c \in Records /\ tracker' = Heard(t, rows, c)
      BY <1>4, <2>2, Bounds
    <3> QED
      BY <1>2, <3>1, HeardIs
  <2> QED
    BY <2>1, <2>2
<1>8. tracker'.coord # None => /\ cache' # None /\ tracker'.coord \in Nodes
                               /\ up'[tracker'.coord] \in {"ready", "stopped"}
  BY <1>1, <1>5, <1>7 DEF Trackers
<1>9. TypeOK'
  BY <1>1, <1>2, <1>3, <1>5, <1>6, <1>7, <1>8 DEF Base, TypeOK, States, Polling, Trackers
<1>10. OutIsEmpty'
  <2>1. \A m \in Nodes : ~Loaded(m)' => ~Loaded(m)
    BY <1>5 DEF Loaded
  <2>2. \A m \in Nodes : poll'[m] = Idle \/ poll'[m] = poll[m]
    BY <1>3
  <2>3. Idle.at = "idle"
    BY DEF Idle
  <2>4. \A m \in Nodes : Loaded(m) => Loaded(m)'
    BY <1>5 DEF Loaded
  <2> QED
    BY <1>6, <2>1, <2>2, <2>3, <2>4, Bounds DEF Base, OutIsEmpty
<1>11. NobodyHome'
  BY <1>7 DEF NobodyHome
<1>12. OneKind'
  BY <1>1, <1>6 DEF Base, OneKind, Saves
<1> QED
  BY <1>9, <1>10, <1>11, <1>12 DEF Base

-----------------------------------------------------------------------------
(* Types, in any mesh: one step per action. *)

LEMMA BaseIs ==
  ASSUME Base
  PROVE  /\ up \in [Nodes -> States] /\ poll \in [Nodes -> Polling] /\ polled \subseteq Nodes
         /\ row \in Rows /\ store \in Rows /\ cache \in Records \cup {None}
         /\ tracker \in Trackers /\ tracker.coord \in Nodes \cup {None}
         /\ wasHome \in BOOLEAN /\ silence \in 0..Old
         /\ tracker.coord # None => cache # None /\ up[tracker.coord] \in {"ready", "stopped"}
         /\ tracker.coord = None => ~tracker.home
         /\ \A n \in Nodes : ~Loaded(n) => row[n] = None /\ poll[n].at = "idle"
BY DEF Base, TypeOK, OutIsEmpty, NobodyHome, States, Polling, Trackers, Rows

LEMMA InitBase == Init => Base
<1> SUFFICES ASSUME Init PROVE Base
  OBVIOUS
<1>1. Idle \in Polling /\ Idle.at = "idle"
  BY Bounds DEF Idle, Polling
<1>2. \A n \in Nodes : /\ row[n] = None /\ store[n] = None /\ poll[n].at = "idle"
                       /\ ~Live(row[n]) /\ ~Kept(row[n])
  BY <1>1 DEF Init, Live, Kept
<1>3. ~Kept(cache) /\ tracker = NoTracker /\ NoTracker \in Trackers
      /\ NoTracker.coord = None /\ ~NoTracker.home
  BY NoTrackerIs DEF Init, Kept
<1>4. TypeOK
  <2>1. /\ tracker \in Trackers /\ tracker.coord = None
        /\ row \in [Nodes -> Records \cup {None}] /\ store \in [Nodes -> Records \cup {None}]
        /\ up \in [Nodes -> States] /\ poll \in [Nodes -> Polling]
    BY <1>1, <1>3 DEF Init, States
  <2>2. moves \in 0..MaxMoves /\ faults \in 0..MaxFaults /\ silence \in 0..Old
    BY Bounds DEF Init
  <2> QED
    BY <2>1, <2>2 DEF Init, TypeOK, Polling, Trackers, States
<1>5. OutIsEmpty /\ NobodyHome /\ OneKind
  BY <1>2, <1>3 DEF OutIsEmpty, NobodyHome, OneKind
<1> QED
  BY <1>4, <1>5 DEF Base

LEMMA ListOwnBase ==
  ASSUME Base, NEW n \in Nodes, Polls(n), ListOwn(n)
  PROVE  Base'
<1> DEFINE p == [at |-> "add", to |-> n, skip |-> OthersWith(n) # {}]
<1>1. p \in Polling /\ p.at = "add" /\ p.to = n
  BY DEF Polling
<1>2. /\ row' = Mass(n, Touched(n)) /\ poll' = [poll EXCEPT ![n] = p]
      /\ UNCHANGED <<client, up, cache, tracker, saved, polled, faults, silence>>
  BY DEF ListOwn
<1> HIDE DEF p
<1>3. row \in [Nodes -> Records \cup {None}] /\ poll \in [Nodes -> Polling] /\ Loaded(n)
  BY BaseIs DEF Rows, Polls, Loaded
<1>4. Touched(n) \in Records \cup {None}
      /\ (Touched(n) = None <=> row[n] = None)
      /\ (row[n] # None => Touched(n).restored = row[n].restored)
  BY <1>3, TouchedIs
<1>5. \A m \in Nodes : /\ row[m] = None <=> row'[m] = None
                       /\ row[m] # None => row'[m].restored = row[m].restored
  BY <1>2, <1>3, <1>4, MassIs
<1>6. row' \in [Nodes -> Records \cup {None}]
  BY <1>2, <1>3, <1>4, MassIs
<1>7. \A m \in Nodes : /\ Live(row'[m]) <=> Live(row[m])
                       /\ Kept(row'[m]) <=> Kept(row[m])
                       /\ poll'[m] = IF m = n THEN p ELSE poll[m]
  BY <1>2, <1>3, <1>5 DEF Live, Kept
<1>8. poll' \in [Nodes -> Polling]
  BY <1>1, <1>2, <1>3
<1>9. TypeOK'
  BY <1>2, <1>6, <1>8 DEF Base, TypeOK, Polling, client, saved
<1>10. OutIsEmpty'
  BY <1>1, <1>2, <1>3, <1>5, <1>7, Bounds DEF Base, OutIsEmpty, Loaded
<1>11. NobodyHome' /\ OneKind'
  BY <1>2, <1>7 DEF Base, NobodyHome, OneKind, Saves, client, saved
<1> QED
  BY <1>9, <1>10, <1>11 DEF Base

LEMMA ListForLeafBase == Base /\ ListForLeaf => Base'
<1> SUFFICES ASSUME Base, ListForLeaf PROVE Base'
  OBVIOUS
<1> DEFINE p == [at |-> "push", to |-> at, skip |-> FALSE]
<1>1. p \in Polling /\ p.at = "push" /\ p.to = at /\ at \in Leaves /\ Loaded(at) /\ Loaded(Main)
  BY Bounds DEF Polling, ListForLeaf, Polls, Loaded
<1>2. /\ row' = [row EXCEPT ![Main] = None] /\ poll' = [poll EXCEPT ![Main] = p]
      /\ UNCHANGED <<client, up, cache, tracker, saved, polled, faults, silence>>
  BY DEF ListForLeaf
<1> HIDE DEF p
<1>3. row \in [Nodes -> Records \cup {None}] /\ poll \in [Nodes -> Polling]
  BY BaseIs DEF Rows
<1>4. \A m \in Nodes : /\ row'[m] \in {None, row[m]}
                       /\ poll'[m] = IF m = Main THEN p ELSE poll[m]
  BY <1>2, <1>3, Bounds
<1>5. row' \in [Nodes -> Records \cup {None}] /\ poll' \in [Nodes -> Polling]
  BY <1>1, <1>2, <1>3
<1>6. \A m \in Nodes : (Live(row'[m]) => Live(row[m])) /\ (Kept(row'[m]) => Kept(row[m]))
  BY <1>4 DEF Live, Kept
<1>7. TypeOK'
  BY <1>2, <1>5 DEF Base, TypeOK, Polling, client, saved
<1>8. OutIsEmpty'
  BY <1>1, <1>2, <1>4, Bounds DEF Base, OutIsEmpty, Loaded, client
<1>9. NobodyHome' /\ OneKind'
  BY <1>2, <1>6 DEF Base, NobodyHome, OneKind, Saves, client, saved
<1> QED
  BY <1>7, <1>8, <1>9 DEF Base

\* What a report of node n is of: n itself, or a leaf that the main pushes to; either
\* has an updater, so that nothing is restored.
LEMMA ReportIs ==
  ASSUME Base, NEW n \in Nodes, Report(n)
  PROVE  LET to == poll[n].to
             added == AddDevice(to, Fresh(to), poll[n].skip)
         IN  /\ to \in Nodes /\ Loaded(n) /\ Loaded(to) /\ poll[n].skip \in BOOLEAN
             /\ \/ poll[n].at = "add" /\ to = n
                \/ poll[n].at = "push" /\ n = Main /\ to \in Leaves
             /\ Ends(n, added.rows, Fresh(to), added.tracker)
             /\ added.rows \in Rows /\ added.rows[to] = Fresh(to)
             /\ \A m \in Nodes \ {to} : /\ added.rows[m] \in {None, row[m]}
                                        /\ Loaded(m) => ~Kept(added.rows[m])
             /\ row' = added.rows
             /\ silence' = 0
<1> DEFINE to == poll[n].to
           added == AddDevice(to, Fresh(to), poll[n].skip)
<1>1. /\ poll[n].at \in {"add", "push"} /\ silence' = 0
      /\ Ends(n, added.rows, Fresh(to), added.tracker)
  BY DEF Report
<1>2. poll[n] \in Polling /\ to \in Nodes /\ poll[n].skip \in BOOLEAN
  BY BaseIs DEF Polling
<1>3. /\ Loaded(n) /\ Loaded(to)
      /\ \/ poll[n].at = "add" /\ to = n
         \/ poll[n].at = "push" /\ n = Main /\ to \in Leaves
  BY <1>1, <1>2 DEF Base, OutIsEmpty
<1>4. Fresh(to) \in Records /\ TypeOK
  BY <1>2, FreshIs DEF Base
<1>5. /\ added.rows \in Rows /\ added.rows[to] = Fresh(to)
      /\ \A m \in Nodes \ {to} : /\ added.rows[m] \in {None, row[m]}
                                 /\ Loaded(m) => ~Kept(added.rows[m])
  BY <1>2, <1>4, AddDeviceIs
<1> HIDE DEF added, to
<1>6. added.rows[to] # None
  BY <1>4, <1>5, RecordIs
<1>7. Restored(n, added.rows) = added.rows
  BY <1>2, <1>3, <1>6 DEF Restored
<1>8. row' = added.rows
  BY <1>1, <1>7 DEF Ends
<1> QED
  BY <1>1, <1>2, <1>3, <1>5, <1>8 DEF added, to

LEMMA ReportBase == ASSUME NEW n \in Nodes PROVE Base /\ Report(n) => Base'
<1> SUFFICES ASSUME Base, Report(n) PROVE Base'
  OBVIOUS
<1> DEFINE to == poll[n].to
           c == Fresh(to)
           added == AddDevice(to, c, poll[n].skip)
           t == added.tracker
           rows == added.rows
<1>1. /\ to \in Nodes /\ Loaded(n) /\ Loaded(to) /\ poll[n].skip \in BOOLEAN
      /\ Ends(n, rows, c, t) /\ rows \in Rows /\ rows[to] = c
      /\ \A m \in Nodes \ {to} : rows[m] \in {None, row[m]} /\ (Loaded(m) => ~Kept(rows[m]))
      /\ silence' = 0
  BY ReportIs
<1>2. c \in Records /\ ~Kept(c) /\ c # None
  BY <1>1, FreshIs, RecordIs DEF Kept
<1>3. /\ up \in [Nodes -> States] /\ tracker \in Trackers /\ wasHome \in BOOLEAN /\ TypeOK
      /\ tracker.coord # None => up[tracker.coord] \in {"ready", "stopped"}
      /\ tracker.coord = None => ~tracker.home
      /\ \A m \in Nodes : ~Loaded(m) => row[m] = None
  BY BaseIs DEF Base
<1>4. t = tracker \/ (Provides(to) /\ t = Created(to, c))
  BY <1>1, <1>2, <1>3, AddDeviceIs
<1> HIDE DEF to, c, rows, t
<1>5. /\ t \in Trackers
      /\ t.coord # None => c # None /\ up[t.coord] \in {"ready", "stopped"}
      /\ t.coord = None => ~t.home
  <2>1. CASE t = tracker
    BY <1>2, <1>3, <2>1
  <2>2. CASE Provides(to) /\ t = Created(to, c)
    <3>1. t \in Trackers /\ t.coord = to /\ to # None
      BY <1>1, <1>2, <1>3, <2>2, CreatedIs, Bounds
    <3> QED
      BY <1>2, <2>2, <3>1 DEF Provides
  <2> QED
    BY <1>4, <2>1, <2>2
<1>6. \A m \in Nodes : ~Loaded(m) => rows[m] = None
  BY <1>1, <1>3
<1>7. \A m \in Nodes : ~Kept(rows[m])
  <2> SUFFICES ASSUME NEW m \in Nodes PROVE ~Kept(rows[m])
    OBVIOUS
  <2>1. CASE m = to
    BY <1>1, <1>2, <2>1
  <2>2. CASE m # to /\ ~Loaded(m)
    BY <1>6, <2>2 DEF Kept
  <2> QED
    BY <1>1, <2>1, <2>2
<1>8. silence' \in 0..Old
  BY <1>1, Bounds
<1> QED
  BY <1>1, <1>2, <1>5, <1>6, <1>7, <1>8, EndsBase

\* The end of a refresh that has reported nothing; node n has at most made its own
\* record recent.
LEMMA QuietBase ==
  ASSUME Base, NEW n \in Nodes, Loaded(n), NEW r \in {row[n], Touched(n)},
         Ends(n, [row EXCEPT ![n] = r], cache, tracker), UNCHANGED silence
  PROVE  Base'
<1> DEFINE rows == [row EXCEPT ![n] = r]
<1>1. /\ row \in [Nodes -> Records \cup {None}] /\ cache \in Records \cup {None}
      /\ tracker \in Trackers /\ silence' \in 0..Old
      /\ tracker.coord # None => cache # None /\ up[tracker.coord] \in {"ready", "stopped"}
      /\ tracker.coord = None => ~tracker.home
      /\ \A m \in Nodes : ~Loaded(m) => row[m] = None
  BY BaseIs DEF Rows
<1>2. r \in Records \cup {None} /\ (r = None <=> row[n] = None)
      /\ (row[n] # None => r.restored = row[n].restored)
  BY <1>1, TouchedIs
<1>3. rows \in Rows /\ \A m \in Nodes : rows[m] = IF m = n THEN r ELSE row[m]
  BY <1>1, <1>2 DEF Rows
<1>4. Ends(n, rows, cache, tracker)
  OBVIOUS
<1> HIDE DEF rows
<1>5. \A m \in Nodes : /\ Live(rows[m]) <=> Live(row[m])
                       /\ Kept(rows[m]) <=> Kept(row[m])
                       /\ ~Loaded(m) => rows[m] = None
  BY <1>1, <1>2, <1>3 DEF Live, Kept
<1>6. /\ \A a, b \in Nodes : Live(rows[a]) => ~Kept(rows[b])
      /\ Kept(cache) => \A a \in Nodes : ~Live(rows[a])
  BY <1>5 DEF Base, OneKind
<1> QED
  BY <1>1, <1>3, <1>4, <1>5, <1>6, EndsBase

\* ListNothing and Notice in the same terms.
LEMMA QuietIs ==
  ASSUME Base, NEW n \in Nodes, ListNothing(n) \/ Notice(n)
  PROVE  /\ Polls(n) /\ Loaded(n) /\ UNCHANGED silence
         /\ \E r \in {row[n], Touched(n)} : Ends(n, [row EXCEPT ![n] = r], cache, tracker)
<1>1. row = [row EXCEPT ![n] = row[n]]
  BY BaseIs DEF Rows
<1>2. Polls(n) /\ UNCHANGED silence
  BY DEF ListNothing, Notice
<1>3. Loaded(n)
  BY <1>2 DEF Polls, Loaded
<1>4. CASE ListNothing(n)
  BY <1>1, <1>2, <1>3, <1>4 DEF ListNothing
<1>5. CASE Notice(n)
  BY <1>2, <1>3, <1>5 DEF Notice
<1> QED
  BY <1>4, <1>5

LEMMA PollBase ==
  ASSUME NEW n \in Nodes PROVE Base /\ PollStep(n) => Base'
<1> SUFFICES ASSUME Base, PollStep(n) PROVE Base'
  OBVIOUS
<1>1. CASE ListNothing(n) \/ Notice(n)
  BY <1>1, QuietIs, QuietBase
<1>2. CASE ListRadio(n)
  BY <1>2, ListOwnBase DEF ListRadio
<1>3. CASE ListMain
  BY <1>3, ListOwnBase, Bounds DEF ListMain
<1> QED
  BY <1>1, <1>2, <1>3, ListForLeafBase, ReportBase DEF PollStep, List

\* A step that leaves the records and the reports alone, and what loads with them.
LEMMA EntryBase ==
  ASSUME Base, up' \in [Nodes -> States], \A m \in Nodes : Loaded(m) => Loaded(m)',
         \A m \in Nodes : up[m] \in {"ready", "stopped"} => up'[m] \in {"ready", "stopped"},
         tracker' \in Trackers, tracker'.coord = None => ~tracker'.home,
         tracker'.coord # None => /\ cache' # None /\ tracker'.coord \in Nodes
                                  /\ up'[tracker'.coord] \in {"ready", "stopped"},
         cache' \in {cache} \cup {row[n] : n \in Nodes},
         polled' \subseteq Nodes, faults' \in 0..MaxFaults, moves' \in 0..MaxMoves,
         at' \in Nodes \cup {Away},
         UNCHANGED <<force, row, poll, saved, silence>>
  PROVE  Base'
<1>1. cache' \in Records \cup {None} /\ (Kept(cache') => \A m \in Nodes : ~Live(row[m]))
  BY BaseIs DEF Base, OneKind, Rows
<1>2. TypeOK'
  BY <1>1 DEF Base, TypeOK, States, Trackers, saved
<1>3. OutIsEmpty'
  BY Bounds DEF Base, OutIsEmpty
<1>4. NobodyHome'
  BY DEF NobodyHome
<1>5. OneKind'
  BY <1>1 DEF Base, OneKind, Saves, saved
<1> QED
  BY <1>2, <1>3, <1>4, <1>5 DEF Base

LEMMA SetUpBase == ASSUME NEW n \in Nodes PROVE Base /\ SetUp(n) => Base'
<1> SUFFICES ASSUME Base, SetUp(n) PROVE Base'
  OBVIOUS
<1>1. /\ up[n] = "out" /\ up' = [up EXCEPT ![n] = "first"]
      /\ UNCHANGED <<client, row, cache, tracker, poll, saved, polled, faults, silence>>
  BY DEF SetUp
<1>2. up' \in [Nodes -> States] /\ \A m \in Nodes : up'[m] = IF m = n THEN "first" ELSE up[m]
  BY <1>1, BaseIs DEF States
<1>3. \A m \in Nodes : /\ Loaded(m) => Loaded(m)'
                       /\ up[m] \in {"ready", "stopped"} => up'[m] \in {"ready", "stopped"}
  BY <1>1, <1>2 DEF Loaded
<1>4. polled' \subseteq Nodes /\ faults' \in 0..MaxFaults /\ moves' \in 0..MaxMoves
      /\ at' \in Nodes \cup {Away}
  BY <1>1 DEF Base, TypeOK, client
<1>5. /\ tracker' \in Trackers /\ (tracker'.coord = None => ~tracker'.home)
      /\ tracker'.coord # None => /\ cache' # None /\ tracker'.coord \in Nodes
                                  /\ up'[tracker'.coord] \in {"ready", "stopped"}
  BY <1>1, <1>3, BaseIs
<1> QED
  BY <1>1, <1>2, <1>3, <1>4, <1>5, EntryBase DEF client

\* The tracker after the platform of node n is set up.
LEMMA PlatformIs ==
  ASSUME Base, NEW n \in Nodes, Platform(n)
  PROVE  /\ up[n] = "fetched" /\ up' = [up EXCEPT ![n] = "ready"] /\ up'[n] = "ready"
         /\ \A m \in Nodes \ {n} : up'[m] = up[m]
         /\ UNCHANGED <<client, row, poll, saved, polled, faults, silence>>
         /\ \/ UNCHANGED <<cache, tracker>>
            \/ /\ row[n] \in Records /\ row[n].via = n /\ cache' = row[n]
               /\ tracker' = tracker \/ (tracker.coord = None /\ tracker' = Created(n, row[n]))
<1>1. /\ up[n] = "fetched" /\ up' = [up EXCEPT ![n] = "ready"]
      /\ UNCHANGED <<client, row, poll, saved, polled, faults, silence>>
  BY DEF Platform
<1>2. CASE Has(n) /\ row[n].via = n
  BY <1>1, <1>2, BaseIs DEF Platform, Has, Rows
<1>3. CASE ~(Has(n) /\ row[n].via = n)
  BY <1>1, <1>3, BaseIs DEF Platform
<1> QED
  BY <1>2, <1>3

LEMMA PlatformBase == ASSUME NEW n \in Nodes PROVE Base /\ Platform(n) => Base'
<1> SUFFICES ASSUME Base, Platform(n) PROVE Base'
  OBVIOUS
<1>1. /\ up[n] = "fetched" /\ up' = [up EXCEPT ![n] = "ready"] /\ up'[n] = "ready"
      /\ \A m \in Nodes \ {n} : up'[m] = up[m]
      /\ UNCHANGED <<client, row, poll, saved, polled, faults, silence>>
  BY PlatformIs
<1>2. \/ UNCHANGED <<cache, tracker>>
      \/ /\ row[n] \in Records /\ cache' = row[n]
         /\ tracker' = tracker \/ (tracker.coord = None /\ tracker' = Created(n, row[n]))
  BY PlatformIs
<1>3. up' \in [Nodes -> States]
  BY <1>1, BaseIs DEF States
<1>4. \A m \in Nodes : /\ Loaded(m) => Loaded(m)'
                       /\ up[m] \in {"ready", "stopped"} => up'[m] \in {"ready", "stopped"}
  BY <1>1 DEF Loaded
<1>5. polled' \subseteq Nodes /\ faults' \in 0..MaxFaults /\ moves' \in 0..MaxMoves
      /\ at' \in Nodes \cup {Away} /\ cache' \in {cache} \cup {row[m] : m \in Nodes}
  BY <1>1, <1>2 DEF Base, TypeOK, client
<1>6. /\ tracker' \in Trackers /\ (tracker'.coord = None => ~tracker'.home)
      /\ tracker'.coord # None => /\ cache' # None /\ tracker'.coord \in Nodes
                                  /\ up'[tracker'.coord] \in {"ready", "stopped"}
  <2>1. CASE tracker' = tracker
    BY <1>2, <1>4, <2>1, BaseIs, RecordIs
  <2>2. CASE tracker' # tracker
    <3>1. row[n] \in Records /\ cache' = row[n] /\ tracker' = Created(n, row[n])
      BY <1>2, <2>2
    <3> QED
      BY <1>1, <3>1, BaseIs, CreatedIs, RecordIs, Bounds
  <2> QED
    BY <2>1, <2>2
<1> QED
  BY <1>1, <1>3, <1>4, <1>5, <1>6, EntryBase DEF client

LEMMA StopPollingBase == ASSUME NEW n \in Nodes PROVE Base /\ StopPolling(n) => Base'
<1> SUFFICES ASSUME Base, StopPolling(n) PROVE Base'
  OBVIOUS
<1>1. /\ up[n] = "ready" /\ up' = [up EXCEPT ![n] = "stopped"] /\ polled' = polled \ {n}
      /\ Charge
      /\ UNCHANGED <<client, row, cache, tracker, poll, saved, silence>>
  BY DEF StopPolling
<1>2. up' \in [Nodes -> States] /\ \A m \in Nodes : up'[m] = IF m = n THEN "stopped" ELSE up[m]
  BY <1>1, BaseIs DEF States
<1>3. \A m \in Nodes : /\ Loaded(m) => Loaded(m)'
                       /\ up[m] \in {"ready", "stopped"} => up'[m] \in {"ready", "stopped"}
  BY <1>1, <1>2 DEF Loaded
<1>4. polled' \subseteq Nodes /\ moves' \in 0..MaxMoves /\ at' \in Nodes \cup {Away}
  BY <1>1 DEF Base, TypeOK, client
<1>5. faults' \in 0..MaxFaults
  BY <1>1, Bounds DEF Base, TypeOK, Charge
<1>6. /\ tracker' \in Trackers /\ (tracker'.coord = None => ~tracker'.home)
      /\ tracker'.coord # None => /\ cache' # None /\ tracker'.coord \in Nodes
                                  /\ up'[tracker'.coord] \in {"ready", "stopped"}
  BY <1>1, <1>3, BaseIs
<1> QED
  BY <1>1, <1>2, <1>3, <1>4, <1>5, <1>6, EntryBase DEF client

LEMMA MoveBase == ASSUME NEW n \in Nodes \cup {Away} PROVE Base /\ Move(n) => Base'
<1> SUFFICES ASSUME Base, Move(n) PROVE Base'
  OBVIOUS
<1>1. moves' \in 0..MaxMoves
  BY Bounds DEF Base, TypeOK, Move
<1>2. TypeOK'
  BY <1>1 DEF Base, TypeOK, Move, saved
<1> QED
  BY <1>2 DEF Base, OutIsEmpty, NobodyHome, OneKind, Move, Loaded, Saves, saved

\* The tracker after node n is unloaded.
LEMMA UnloadIs ==
  ASSUME Base, NEW n \in Nodes, Unload(n)
  PROVE  /\ up' = [up EXCEPT ![n] = "out"] /\ row' = [row EXCEPT ![n] = None]
         /\ store' = IF Saves(n) THEN [store EXCEPT ![n] = row[n]] ELSE store
         /\ UNCHANGED <<client, cache, poll, silence>>
         /\ tracker' \in Trackers
         /\ \/ tracker.coord = n /\ tracker' = NoTracker
            \/ tracker.coord # n /\ tracker' = tracker
            \/ /\ tracker.coord \notin {n, None} /\ tracker.upd = n /\ ~tracker.old
               /\ tracker'.coord = tracker.coord /\ tracker'.home = tracker.home
               /\ tracker'.upd = n /\ tracker'.kept = row[n]
<1>1. /\ up' = [up EXCEPT ![n] = "out"] /\ row' = [row EXCEPT ![n] = None]
      /\ store' = IF Saves(n) THEN [store EXCEPT ![n] = row[n]] ELSE store
      /\ UNCHANGED <<client, cache, poll, silence>>
  BY DEF Unload
<1>2. tracker \in Trackers /\ row[n] \in Records \cup {None}
  BY BaseIs DEF Rows
<1> DEFINE lost == [tracker EXCEPT !.old = TRUE, !.kept = row[n]]
<1>3. /\ lost \in Trackers /\ lost.coord = tracker.coord /\ lost.home = tracker.home
      /\ lost.upd = tracker.upd /\ lost.kept = row[n]
  BY <1>2 DEF Trackers
<1>4. tracker' = IF tracker.coord = n THEN NoTracker
                 ELSE IF tracker.coord # None /\ tracker.upd = n /\ ~tracker.old THEN lost
                 ELSE tracker
  BY DEF Unload
<1> HIDE DEF lost
<1> QED
  BY <1>1, <1>2, <1>3, <1>4, NoTrackerIs

LEMMA UnloadBase == ASSUME NEW n \in Nodes PROVE Base /\ Unload(n) => Base'
<1> SUFFICES ASSUME Base, Unload(n) PROVE Base'
  OBVIOUS
<1>1. /\ up' = [up EXCEPT ![n] = "out"] /\ row' = [row EXCEPT ![n] = None]
      /\ store' = IF Saves(n) THEN [store EXCEPT ![n] = row[n]] ELSE store
      /\ UNCHANGED <<client, cache, poll, silence>>
      /\ tracker' \in Trackers
      /\ \/ tracker.coord = n /\ tracker' = NoTracker
         \/ /\ tracker.coord # n
            /\ tracker'.coord = tracker.coord /\ tracker'.home = tracker.home
  BY UnloadIs
<1>2. /\ polled' = polled \ {n} /\ Charge
      /\ wasHome' = IF tracker.coord = n THEN tracker.home ELSE wasHome
      /\ poll[n].at = "idle" /\ \A m \in Nodes : poll[m].at = "push" => poll[m].to # n
  BY DEF Unload
<1>3. /\ up \in [Nodes -> States] /\ row \in [Nodes -> Records \cup {None}]
      /\ store \in [Nodes -> Records \cup {None}] /\ tracker \in Trackers /\ wasHome \in BOOLEAN
      /\ tracker.coord # None => cache # None /\ up[tracker.coord] \in {"ready", "stopped"}
      /\ tracker.coord = None => ~tracker.home
      /\ tracker.coord \in Nodes \cup {None}
  BY BaseIs DEF Rows
<1>4. \A m \in Nodes : /\ up'[m] = IF m = n THEN "out" ELSE up[m]
                       /\ row'[m] = IF m = n THEN None ELSE row[m]
                       /\ store'[m] = IF m = n /\ Saves(n) THEN row[n] ELSE store[m]
  BY <1>1, <1>3
<1>5. /\ up' \in [Nodes -> States] /\ row' \in [Nodes -> Records \cup {None}]
      /\ store' \in [Nodes -> Records \cup {None}]
  BY <1>1, <1>3 DEF States
<1>6. /\ tracker'.coord # None => /\ cache' # None /\ tracker'.coord \in Nodes
                                  /\ up'[tracker'.coord] \in {"ready", "stopped"}
      /\ tracker'.coord = None => ~tracker'.home
  BY <1>1, <1>3, <1>4, NoTrackerIs
<1>7. wasHome' \in BOOLEAN /\ faults' \in 0..MaxFaults
  BY <1>2, <1>3, Bounds DEF Base, TypeOK, Charge, Trackers
<1>8. TypeOK'
  BY <1>1, <1>2, <1>5, <1>6, <1>7 DEF Base, TypeOK, States, Trackers, client
<1>9. OutIsEmpty'
  <2>1. \A m \in Nodes : Loaded(m)' <=> Loaded(m) /\ m # n
    BY <1>4 DEF Loaded
  <2> QED
    BY <1>1, <1>2, <1>4, <2>1, Bounds DEF Base, OutIsEmpty
<1>10. OneKind'
  <2>1. \A m \in Nodes : (Live(row'[m]) => Live(row[m])) /\ (Kept(row'[m]) => Kept(row[m]))
    BY <1>4 DEF Live, Kept
  <2>2. \A m \in Nodes : store'[m] # None => Saves(m)
    BY <1>4 DEF Base, OneKind
  <2>3. \A m \in Nodes : Saves(m) => Saves(m)'
    BY <1>1 DEF Saves, client
  <2> QED
    BY <1>1, <2>1, <2>2, <2>3 DEF Base, OneKind
<1> QED
  BY <1>6, <1>8, <1>9, <1>10 DEF Base, NobodyHome

LEMMA RestartBase == Base /\ Restart => Base'
<1> SUFFICES ASSUME Base, Restart PROVE Base'
  OBVIOUS
<1>1. /\ up' = [n \in Nodes |-> "out"] /\ row' = [n \in Nodes |-> None]
      /\ store' = [n \in Nodes |-> IF Saves(n) /\ Loaded(n) THEN row[n] ELSE store[n]]
      /\ cache' = None /\ tracker' = NoTracker /\ poll' = [n \in Nodes |-> Idle]
      /\ polled' = {} /\ silence' = 0 /\ UNCHANGED client /\ Charge
      /\ wasHome' = IF tracker.coord = None THEN FALSE ELSE tracker.home
  BY DEF Restart
<1>2. /\ row \in [Nodes -> Records \cup {None}] /\ store \in [Nodes -> Records \cup {None}]
      /\ tracker \in Trackers
  BY BaseIs DEF Rows
<1>3. Idle \in Polling /\ Idle.at = "idle"
  BY Bounds DEF Idle, Polling
<1>4. /\ store' \in [Nodes -> Records \cup {None}]
      /\ \A n \in Nodes : store'[n] # None => Saves(n)
      /\ \A n \in Nodes : Saves(n) => Saves(n)'
  BY <1>1, <1>2 DEF Base, OneKind, Saves, client
<1>5. \A n \in Nodes : poll'[n].at = "idle" /\ row'[n] = None /\ ~Live(row'[n]) /\ ~Kept(row'[n])
  BY <1>1, <1>3 DEF Live, Kept
<1>6. wasHome' \in BOOLEAN /\ faults' \in 0..MaxFaults /\ silence' \in 0..Old
      /\ poll' \in [Nodes -> Polling] /\ up' \in [Nodes -> States]
      /\ row' \in [Nodes -> Records \cup {None}]
  <2>1. wasHome' \in BOOLEAN
    BY <1>1, <1>2 DEF Trackers
  <2>2. faults' \in 0..MaxFaults /\ silence' \in 0..Old
    BY <1>1, Bounds DEF Base, TypeOK, Charge
  <2>3. poll' \in [Nodes -> Polling] /\ up' \in [Nodes -> States]
    BY <1>1, <1>3 DEF States
  <2> QED
    BY <1>1, <2>1, <2>2, <2>3
<1>7. tracker' \in Trackers /\ tracker'.coord = None /\ ~tracker'.home
  BY <1>1, NoTrackerIs
<1>8. TypeOK'
  BY <1>1, <1>4, <1>6, <1>7 DEF Base, TypeOK, States, Polling, Trackers, client
<1>9. OutIsEmpty' /\ NobodyHome'
  BY <1>5, <1>7 DEF OutIsEmpty, NobodyHome
<1>10. OneKind'
  BY <1>1, <1>4, <1>5 DEF OneKind, Kept
<1> QED
  BY <1>8, <1>9, <1>10 DEF Base

\* A tick makes everything older, and nothing else.
LEMMA TickIs ==
  ASSUME Base, Tick
  PROVE  /\ \A n \in Nodes : poll[n].at = "idle"
         /\ \A n \in Nodes : row'[n] = Older(row[n]) /\ store'[n] = Older(store[n])
         /\ row' \in Rows /\ store' \in Rows /\ polled' = {}
         /\ cache' = Older(cache) /\ silence' = Min2(silence + 1, Old)
         /\ tracker' \in Trackers /\ tracker'.coord = tracker.coord /\ tracker'.upd = tracker.upd
         /\ tracker'.old = tracker.old /\ tracker'.home = tracker.home
         /\ tracker'.kept = Older(tracker.kept)
         /\ UNCHANGED <<client, up, poll, wasHome, faults>>
<1>1. /\ \A n \in Nodes : poll[n].at = "idle"
      /\ row' = [n \in Nodes |-> Older(row[n])] /\ store' = [n \in Nodes |-> Older(store[n])]
      /\ polled' = {} /\ cache' = Older(cache) /\ silence' = Min2(silence + 1, Old)
      /\ UNCHANGED <<client, up, poll, wasHome, faults>>
  BY DEF Tick
<1>2. /\ row \in [Nodes -> Records \cup {None}] /\ store \in [Nodes -> Records \cup {None}]
      /\ tracker \in Trackers /\ tracker.kept \in Records \cup {None}
      /\ tracker.k \in 0..(HoldMax + Old)
  BY BaseIs DEF Rows, Trackers
<1>3. row' \in Rows /\ store' \in Rows
  BY <1>1, <1>2, OlderIs DEF Rows
<1> DEFINE k == IF tracker.held THEN Min2(tracker.k + 1, HoldMax + Old) ELSE 0
           kept == Older(tracker.kept)
<1>4. k \in 0..(HoldMax + Old) /\ kept \in Records \cup {None}
  BY <1>2, OlderIs, Bounds DEF Min2
<1>5. tracker' = [tracker EXCEPT !.kept = kept, !.k = k]
  BY DEF Tick
<1> HIDE DEF k, kept
<1>6. /\ tracker' \in Trackers /\ tracker'.coord = tracker.coord /\ tracker'.upd = tracker.upd
      /\ tracker'.old = tracker.old /\ tracker'.home = tracker.home /\ tracker'.kept = kept
  BY <1>2, <1>4, <1>5 DEF Trackers
<1> QED
  BY <1>1, <1>3, <1>6 DEF kept

LEMMA OlderKeeps ==
  ASSUME NEW r \in Records \cup {None}
  PROVE  /\ Live(Older(r)) <=> Live(r)
         /\ Kept(Older(r)) <=> Kept(r)
BY OlderIs DEF Live, Kept

LEMMA TickBase == Base /\ Tick => Base'
<1> SUFFICES ASSUME Base, Tick PROVE Base'
  OBVIOUS
<1>1. /\ \A n \in Nodes : row'[n] = Older(row[n]) /\ store'[n] = Older(store[n])
      /\ row' \in Rows /\ store' \in Rows /\ polled' = {}
      /\ cache' = Older(cache) /\ silence' = Min2(silence + 1, Old)
      /\ tracker' \in Trackers /\ tracker'.coord = tracker.coord /\ tracker'.home = tracker.home
      /\ UNCHANGED <<client, up, poll, wasHome, faults>>
  BY TickIs
<1>2. row \in Rows /\ store \in Rows /\ cache \in Records \cup {None} /\ silence \in 0..Old
      /\ tracker \in Trackers
  BY BaseIs
<1>3. silence' \in 0..Old
  BY <1>1, <1>2, Bounds DEF Min2
<1>4. cache' \in Records \cup {None} /\ (cache' = None <=> cache = None)
      /\ (Kept(cache') <=> Kept(cache))
  BY <1>1, <1>2, OlderIs, OlderKeeps
<1>5. \A n \in Nodes : /\ row'[n] = None <=> row[n] = None
                       /\ store'[n] = None <=> store[n] = None
                       /\ Live(row'[n]) <=> Live(row[n])
                       /\ Kept(row'[n]) <=> Kept(row[n])
  BY <1>1, <1>2, OlderIs, OlderKeeps DEF Rows
<1>6. TypeOK'
  BY <1>1, <1>3, <1>4 DEF Base, TypeOK, Trackers, Rows, client
<1>7. OutIsEmpty'
  BY <1>1, <1>5 DEF Base, OutIsEmpty, Loaded
<1>8. NobodyHome'
  BY <1>1 DEF Base, NobodyHome
<1>9. OneKind'
  BY <1>1, <1>4, <1>5 DEF Base, OneKind, Saves, client
<1> QED
  BY <1>6, <1>7, <1>8, <1>9 DEF Base

LEMMA StepBase == Base /\ [Next]_vars => Base'
<1> SUFFICES ASSUME Base, [Next]_vars PROVE Base'
  OBVIOUS
<1>1. CASE UNCHANGED vars
  BY <1>1 DEF vars, client, saved, Base, TypeOK, OutIsEmpty, NobodyHome, OneKind, Loaded, Saves
<1>2. CASE Next
  BY <1>2, PollBase, SetUpBase, PlatformBase, UnloadBase, StopPollingBase, MoveBase,
     RestartBase, TickBase DEF Next
<1> QED
  BY <1>1, <1>2

-----------------------------------------------------------------------------
(* In a mesh with one leaf no record is older than the last report. *)

\* The tracker has lost the updater it followed, with a record that was reported.
Lost(t) == t.coord # None /\ t.old /\ Live(t.kept)

LEMMA LeafIs ==
  ASSUME OneLeaf
  PROVE  /\ \A l \in Leaves : l # Main /\ l \in Nodes /\ \A n \in Nodes : n \in {Main, l}
         /\ \A a, b \in Nodes : a # b => \A n \in Nodes : n \in {a, b}
BY MainIsNoLeaf DEF OneLeaf, Nodes

LEMMA HonestIs ==
  ASSUME NEW r, r.age = 0, silence \in 0..Old PROVE Honest(r) /\ Recents(r)
BY DEF Honest, Recents

LEMMA InFlightKeeps ==
  ASSUME InFlight,
         \A m \in Nodes : poll'[m] = poll[m] \/ poll'[m].at = "idle",
         \A m \in Nodes : Live(row'[m]) =>
            \/ row'[m] = row[m]
            \/ row'[m].age = 0 /\ (m = Main /\ poll'[Main].at = "push" => Live(row[Main]))
  PROVE  InFlight'
BY Bounds DEF InFlight

LEMMA LostIs ==
  ASSUME Base, Reported, Lost(tracker)
  PROVE  /\ tracker.coord \in Nodes /\ tracker.upd \in Nodes /\ tracker.coord # tracker.upd
         /\ up[tracker.coord] \in {"ready", "stopped"}
<1>1. tracker.coord # None /\ tracker.old
  BY DEF Lost
<1>2. tracker.coord \in Nodes \cup {None} /\ tracker.upd \in Nodes
  BY BaseIs DEF Trackers
<1> QED
  BY <1>1, <1>2, BaseIs DEF Reported, OldIsOther

\* What is known of a record the tracker has lost stays known.
LEMMA LostKeeps ==
  ASSUME LostIsKnown,
         Lost(tracker') => /\ Lost(tracker) /\ tracker'.coord = tracker.coord
                           /\ tracker'.upd = tracker.upd,
         Lost(tracker) /\ Lost(tracker') /\ Knows(tracker.coord)
            => Knows(tracker.coord)' \/ Back(tracker.upd)',
         Lost(tracker) /\ Lost(tracker') /\ Back(tracker.upd)
            => Knows(tracker.coord)' \/ Back(tracker.upd)'
  PROVE  LostIsKnown'
<1> SUFFICES ASSUME Lost(tracker') PROVE Knows(tracker.coord)' \/ Back(tracker.upd)'
  BY DEF LostIsKnown, Lost, Live
<1> QED
  BY DEF LostIsKnown, Lost

LEMMA InitReported == Init => Reported
<1> SUFFICES ASSUME Init PROVE Reported
  OBVIOUS
<1>1. \A n \in Nodes : row[n] = None /\ poll[n].at = "idle" /\ ~Live(row[n])
  BY DEF Init, Idle, Live
<1>2. ~Live(cache) /\ tracker.coord = None /\ None \notin Leaves
  BY NoTrackerIs, Bounds DEF Init, Live
<1> QED
  BY <1>1, <1>2, Bounds DEF Reported, InFlight, LastReport, OldIsOther, LostIsKnown, Honest

\* A step that changes neither records nor what is reported, nor the tracker.
LEMMA StillReported ==
  ASSUME Reported, UNCHANGED <<row, cache, poll, store, tracker, silence>> PROVE Reported'
BY DEF Reported, InFlight, LastReport, OldIsOther, LostIsKnown, Live, Kept, Honest, Recents,
   Knows, Back

LEMMA ListOwnReported ==
  ASSUME Base, Reported, OneLeaf, NEW n \in Nodes, Polls(n), ListOwn(n)
  PROVE  Reported'
<1> DEFINE p == [at |-> "add", to |-> n, skip |-> OthersWith(n) # {}]
<1>1. /\ row' = Mass(n, Touched(n)) /\ poll' = [poll EXCEPT ![n] = p] /\ p.at = "add"
      /\ UNCHANGED <<cache, tracker, store, silence>>
  BY DEF ListOwn, saved
<1> HIDE DEF p
<1>2. row \in [Nodes -> Records \cup {None}] /\ poll \in [Nodes -> Polling] /\ poll[n].at = "idle"
      /\ silence \in 0..Old /\ tracker.coord \in Nodes \cup {None}
      /\ \A m \in Nodes : row[m] # None => Loaded(m)
  BY BaseIs DEF Rows, Polls
<1>3. /\ Touched(n) \in Records \cup {None} /\ (Touched(n) = None <=> row[n] = None)
      /\ row[n] # None => Touched(n).restored = row[n].restored /\ Touched(n).age = 0
  BY <1>2, TouchedIs
<1>4. \A m \in Nodes : /\ row[m] = None <=> row'[m] = None
                       /\ row[m] # None => row'[m].restored = row[m].restored
                       /\ row[m] # None /\ (m = n \/ n = Main) => row'[m].age = 0
                       /\ row[m] # None /\ m # n => /\ row'[m].via = n
                                                    /\ n # Main => row'[m].age = row[m].age
  BY <1>1, <1>2, <1>3, MassIs
<1>5. \A m \in Nodes : (Live(row'[m]) <=> Live(row[m])) /\ (Kept(row'[m]) <=> Kept(row[m]))
  BY <1>4 DEF Live, Kept
<1>6. \A m \in Nodes : poll'[m] = IF m = n THEN p ELSE poll[m]
  BY <1>1, <1>2
<1>7. ASSUME NEW l \in Leaves
      PROVE  /\ l \in Nodes /\ l # Main /\ n \in {Main, l}
             /\ Live(row[l]) => row[l] # None
             /\ Live(row[Main]) => row[Main] # None
  BY LeafIs DEF Live
<1>8. InFlight'
  <2> SUFFICES ASSUME NEW l \in Leaves
               PROVE  /\ poll'[Main].at = "add" /\ Live(row'[l]) => row'[l].age = 0
                      /\ poll'[l].at = "add" /\ Live(row'[Main]) /\ row'[Main].via = Main
                            => row'[Main].age = 0
                      /\ poll'[Main].at = "push" => ~Live(row'[Main])
    BY DEF InFlight
  <2>1. CASE n = Main
    BY <1>1, <1>4, <1>5, <1>6, <1>7, <2>1, Bounds DEF Reported, InFlight
  <2>2. CASE n = l
    BY <1>1, <1>4, <1>5, <1>6, <1>7, <2>2, Bounds DEF Reported, InFlight
  <2> QED
    BY <1>7, <2>1, <2>2
<1>9. LastReport'
  <2>1. Honest(cache)'
    BY <1>1 DEF Reported, LastReport, Honest, Live
  <2>2. ASSUME NEW l \in Leaves PROVE Honest(row[l])'
    <3>1. CASE Live(row'[l])
      BY <1>1, <1>2, <1>4, <1>5, <1>7, <3>1 DEF Honest
    <3> QED
      BY <3>1 DEF Honest, Live
  <2>3. ASSUME Live(row'[Main]), row'[Main].via = Main PROVE Honest(row[Main])'
    <3>1. row[Main] # None
      BY <1>5, <2>3, Bounds DEF Live
    <3>2. n = Main
      BY <1>4, <2>3, <3>1, Bounds
    <3> QED
      BY <1>1, <1>2, <1>4, <3>1, <3>2 DEF Honest
  <2>4. ASSUME NEW l \in Leaves, tracker'.coord = l
        PROVE  Honest(row[Main])' \/ Live(row'[l]) \/ poll'[l].at = "add"
    <3>1. CASE n = l
      BY <1>1, <1>6, <1>7, <3>1
    <3>2. CASE n = Main
      <4>1. CASE row[Main] # None
        BY <1>1, <1>2, <1>4, <3>2, <4>1 DEF Honest
      <4>2. CASE row[Main] = None
        BY <1>4, <3>2, <4>2 DEF Honest, Live
      <4> QED
        BY <4>1, <4>2
    <3> QED
      BY <1>7, <3>1, <3>2
  <2> QED
    BY <2>1, <2>2, <2>3, <2>4 DEF LastReport, Live
<1>10. OldIsOther'
  BY <1>1 DEF Reported, OldIsOther
<1>11. LostIsKnown'
  <2> DEFINE a == tracker.coord
             b == tracker.upd
  <2>1. ASSUME Lost(tracker) PROVE a \in Nodes /\ b \in Nodes /\ a # b /\ n \in {a, b}
    BY <2>1, LeafIs, LostIs
  <2>2. ASSUME Lost(tracker), Knows(a) PROVE Knows(a)'
    BY <1>1, <1>5, <1>6, <2>1, <2>2 DEF Knows, Live
  <2>3. ASSUME Lost(tracker), Back(b) PROVE Knows(a)' \/ Back(b)'
    <3>1. CASE n = a
      BY <1>1, <1>6, <3>1 DEF Knows
    <3>2. CASE n = b
      <4>1. Live(row[b]) \/ Recents(store[b])
        BY <1>2, <2>3, <3>2 DEF Back
      <4>2. Live(row'[b]) \/ Recents(store[b])'
        BY <1>1, <1>5, <2>1, <2>3, <4>1 DEF Recents
      <4>3. Kept(row'[b]) => Recents(row[b])'
        BY <1>1, <1>2, <1>4, <1>5, <2>1, <2>3, <3>2 DEF Recents, Kept
      <4>4. Kept(cache') => Recents(cache)'
        BY <1>1, <2>3 DEF Back, Recents
      <4> QED
        BY <1>1, <4>2, <4>3, <4>4 DEF Back, Live, Kept
    <3> QED
      BY <2>1, <2>3, <3>1, <3>2
  <2> QED
    BY <1>1, <2>2, <2>3, LostKeeps DEF Reported, Lost
<1> QED
  BY <1>8, <1>9, <1>10, <1>11 DEF Reported

LEMMA ListForLeafReported == Base /\ Reported /\ OneLeaf /\ ListForLeaf => Reported'
<1> SUFFICES ASSUME Base, Reported, OneLeaf, ListForLeaf PROVE Reported'
  OBVIOUS
<1> DEFINE p == [at |-> "push", to |-> at, skip |-> FALSE]
<1>1. /\ row' = [row EXCEPT ![Main] = None] /\ poll' = [poll EXCEPT ![Main] = p] /\ p.at = "push"
      /\ Main \in Nodes
      /\ UNCHANGED <<cache, tracker, store, silence>>
  BY Bounds DEF ListForLeaf, saved
<1> HIDE DEF p
<1>2. row \in [Nodes -> Records \cup {None}] /\ poll \in [Nodes -> Polling] /\ tracker \in Trackers
      /\ poll[Main].at = "idle" /\ tracker.coord \in Nodes \cup {None}
  BY BaseIs DEF Rows, ListForLeaf, Polls
<1>3. /\ row'[Main] = None /\ ~Live(row'[Main]) /\ ~Kept(row'[Main]) /\ poll'[Main] = p
      /\ \A l \in Nodes \ {Main} : row'[l] = row[l] /\ poll'[l] = poll[l]
      /\ Leaves \subseteq Nodes \ {Main}
  BY <1>1, <1>2, MainIsNoLeaf DEF Live, Kept, Nodes
<1>4. InFlight'
  BY <1>1, <1>3 DEF InFlight
<1>5. LastReport'
  <2>1. Honest(row[Main])' /\ Honest(cache)'
    BY <1>1, <1>3 DEF Honest, Live, Reported, LastReport
  <2>2. \A l \in Leaves : Honest(row[l])'
    BY <1>1, <1>3 DEF Honest, Live, Reported, LastReport
  <2> QED
    BY <2>1, <2>2 DEF LastReport
<1>6. OldIsOther'
  BY <1>1 DEF Reported, OldIsOther
<1>7. LostIsKnown'
  <2> DEFINE a == tracker.coord
             b == tracker.upd
  <2>1. ASSUME Lost(tracker) PROVE a \in Nodes /\ b \in Nodes /\ a # b
    BY <2>1, LostIs
  <2>2. ASSUME Lost(tracker), Knows(a) PROVE Knows(a)'
    BY <1>1, <1>3, <2>1, <2>2 DEF Knows, Live
  <2>3. ASSUME Lost(tracker), Back(b) PROVE Back(b)'
    <3>1. CASE b = Main
      BY <1>1, <1>3, <2>3, <3>1 DEF Back, Live, Kept, Recents
    <3>2. CASE b # Main
      BY <1>1, <1>3, <2>1, <2>3, <3>2 DEF Back, Live, Kept, Recents
    <3> QED
      BY <3>1, <3>2
  <2> QED
    BY <1>1, <2>2, <2>3, LostKeeps DEF Reported, Lost
<1> QED
  BY <1>4, <1>5, <1>6, <1>7 DEF Reported

\* What the tracker does at the end of a refresh that started a record in no updater.
LEMMA EndsTracker ==
  ASSUME Base, NEW n \in Nodes, NEW rows \in Rows, NEW c \in Records \cup {None},
         NEW t \in Trackers, t.coord # None => c # None, Ends(n, rows, c, t)
  PROVE  /\ tracker' \in Trackers
         /\ \/ tracker' = t
            \/ /\ t.coord = n /\ up[n] # "first" /\ up' = up /\ row' = rows /\ c \in Records
               /\ tracker' = Heard(t, rows, c)
         /\ tracker'.coord = t.coord
         /\ tracker'.old => t.old /\ tracker'.upd = t.upd /\ tracker'.kept = t.kept
<1>1. \/ tracker' = t
      \/ /\ t.coord = n /\ up[n] # "first" /\ up' = up /\ row' = rows
         /\ tracker' = Heard(t, rows, c)
  BY DEF Ends
<1>2. CASE tracker' = t
  BY <1>2
<1>3. CASE tracker' # t
  <2>1. /\ t.coord = n /\ c \in Records /\ up[n] # "first" /\ up' = up /\ row' = rows
        /\ tracker' = Heard(t, rows, c)
    BY <1>1, <1>3, Bounds
  <2>2. rows \in [Nodes -> Records \cup {None}]
    BY DEF Rows
  <2> QED
    BY <2>1, <2>2, HeardIs
<1> QED
  BY <1>2, <1>3

LEMMA ReportReported ==
  ASSUME NEW n \in Nodes PROVE Base /\ Reported /\ OneLeaf /\ Report(n) => Reported'
<1> SUFFICES ASSUME Base, Reported, OneLeaf, Report(n) PROVE Reported'
  OBVIOUS
<1> DEFINE to == poll[n].to
           c == Fresh(to)
           added == AddDevice(to, c, poll[n].skip)
           t == added.tracker
           rows == added.rows
<1>1. /\ to \in Nodes /\ Loaded(n) /\ Loaded(to) /\ poll[n].skip \in BOOLEAN
      /\ \/ poll[n].at = "add" /\ to = n
         \/ poll[n].at = "push" /\ n = Main /\ to \in Leaves
      /\ Ends(n, rows, c, t) /\ rows \in Rows /\ rows[to] = c
      /\ \A m \in Nodes \ {to} : rows[m] \in {None, row[m]}
      /\ row' = rows /\ silence' = 0
  BY ReportIs
<1>2. c \in Records /\ c.age = 0 /\ Live(c) /\ ~Kept(c) /\ c # None
  BY <1>1, FreshIs, RecordIs DEF Live, Kept
<1>3. /\ TypeOK /\ tracker \in Trackers /\ wasHome \in BOOLEAN /\ poll \in [Nodes -> Polling]
      /\ \A m \in Nodes : ~Loaded(m) => row[m] = None
  BY BaseIs DEF Base
<1>4. t = tracker \/ (tracker.coord = None /\ t = Created(to, c))
  BY <1>1, <1>2, <1>3, AddDeviceIs
<1> HIDE DEF to, c, rows, t
<1>5. cache' = c /\ poll' = [poll EXCEPT ![n] = Idle] /\ store' = store
  BY <1>1 DEF Ends, saved
<1>6. /\ Idle.at = "idle"
      /\ \A m \in Nodes : poll'[m] = IF m = n THEN Idle ELSE poll[m]
  BY <1>3, <1>5 DEF Idle
<1>7. /\ Live(row'[to]) /\ row'[to].age = 0 /\ ~Kept(row'[to])
      /\ \A m \in Nodes \ {to} : row'[m] = row[m] \/ ~Live(row'[m])
  BY <1>1, <1>2 DEF Live
<1>8. InFlight'
  <2>1. \A m \in Nodes : poll'[m] = poll[m] \/ poll'[m].at = "idle"
    BY <1>6
  <2>2. ASSUME NEW m \in Nodes, Live(row'[m])
        PROVE  \/ row'[m] = row[m]
               \/ row'[m].age = 0 /\ ~(m = Main /\ poll'[Main].at = "push")
    <3>1. CASE m # to
      BY <1>7, <2>2, <3>1
    <3>2. CASE m = to /\ m = Main /\ poll'[Main].at = "push"
      <4>1. n # Main
        BY <1>6, <3>2, Bounds
      <4> QED
        BY <1>1, <3>2, <4>1
    <3> QED
      BY <1>7, <3>1, <3>2
  <2> QED
    BY <2>1, <2>2, InFlightKeeps DEF Reported
<1>9. /\ tracker' \in Trackers /\ tracker'.coord \in Nodes \cup {None}
      /\ tracker'.coord = t.coord
      /\ tracker'.old => t.old /\ tracker'.upd = t.upd /\ tracker'.kept = t.kept
  <2>1. t \in Trackers
    BY <1>1, <1>2, <1>3, <1>4, CreatedIs
  <2>2. tracker' \in Trackers /\ tracker'.coord = t.coord
      /\ (tracker'.old => t.old /\ tracker'.upd = t.upd /\ tracker'.kept = t.kept)
    BY <1>1, <1>2, <2>1, EndsTracker
  <2> QED
    BY <2>2 DEF Trackers
<1>10. LastReport'
  <2>1. Honest(cache)'
    BY <1>2, <1>5, <1>1 DEF Honest
  <2>2. ASSUME NEW l \in Leaves PROVE Honest(row[l])'
    <3> SUFFICES ASSUME Live(row'[l]) PROVE row'[l].age <= silence'
      BY DEF Honest
    <3>1. CASE l = to
      BY <1>1, <1>7, <3>1
    <3>2. CASE l # to
      <4>1. l \in Nodes /\ l # Main /\ n \in {Main, l} /\ to \in {Main, l}
        BY <1>1, LeafIs
      <4>2. poll[Main].at = "add" /\ row'[l] = row[l]
        BY <1>1, <1>7, <3>2, <4>1, MainIsNoLeaf
      <4> QED
        BY <1>1, <4>2 DEF Reported, InFlight
    <3> QED
      BY <3>1, <3>2
  <2>3. ASSUME Live(row'[Main]), row'[Main].via = Main PROVE row'[Main].age <= silence'
    <3>1. CASE to = Main
      BY <1>1, <1>7, <3>1
    <3>2. CASE to # Main
      <4>1. to \in Leaves /\ row'[Main] = row[Main]
        BY <1>1, <1>7, <2>3, <3>2, Bounds DEF Nodes
      <4>2. CASE poll[n].at = "add"
        <5>1. to = n
          BY <1>1, <4>2
        <5> QED
          BY <1>1, <2>3, <4>1, <4>2, <5>1 DEF Reported, InFlight
      <4>3. CASE poll[n].at = "push"
        BY <1>1, <2>3, <4>1, <4>3 DEF Reported, InFlight
      <4> QED
        BY <1>1, <4>2, <4>3
    <3> QED
      BY <3>1, <3>2
  <2>4. ASSUME NEW l \in Leaves PROVE Honest(row[Main])' \/ Live(row'[l])
    <3>1. to \in {Main, l}
      BY <1>1, LeafIs
    <3> QED
      BY <1>1, <1>7, <3>1 DEF Honest
  <2> QED
    BY <2>1, <2>2, <2>3, <2>4 DEF LastReport, Honest, Live
<1>11. tracker'.old => t = tracker
  <2>1. CASE t = Created(to, c)
    BY <1>1, <1>2, <1>3, <1>9, <2>1, CreatedIs
  <2> QED
    BY <1>4, <2>1
<1>12. OldIsOther'
  BY <1>9, <1>11 DEF Reported, OldIsOther
<1>13. LostIsKnown'
  <2> DEFINE a == tracker.coord
             b == tracker.upd
  <2>1. Lost(tracker') => Lost(tracker) /\ tracker'.coord = a /\ tracker'.upd = b
    BY <1>9, <1>11 DEF Lost
  <2>2. ASSUME Lost(tracker) PROVE to \in {a, b}
    BY <1>1, <2>2, LostIs, LeafIs
  <2>3. CASE to = a
    BY <1>7, <2>1, <2>3, LostKeeps DEF Reported, Knows, Live
  <2>4. CASE to = b
    BY <1>2, <1>5, <1>7, <2>1, <2>4, LostKeeps DEF Reported, Back, Live, Kept
  <2> QED
    BY <2>1, <2>2, <2>3, <2>4, LostKeeps DEF Reported
<1> QED
  BY <1>8, <1>10, <1>12, <1>13 DEF Reported

\* The records after the end of a refresh that has reported nothing.
LEMMA QuietEnds ==
  ASSUME Base, NEW n \in Nodes, Polls(n), NEW r \in {row[n], Touched(n)},
         Ends(n, [row EXCEPT ![n] = r], cache, tracker)
  PROVE  /\ cache' = cache /\ store' = store
         /\ \A m \in Nodes : poll'[m].at = poll[m].at
                             /\ (poll'[m] = poll[m] \/ poll'[m].at = "idle")
         /\ \A m \in Nodes : Live(row'[m]) <=> Live(row[m])
         /\ \A m \in Nodes :
               \/ row'[m] = row[m]
               \/ m = n /\ row[m] # None /\ row'[m].age = 0 /\ row'[m].via = row[m].via
               \/ /\ up[n] = "first" /\ Kept(row'[m])
                  /\ store[n] # None /\ row'[m].age = store[n].age
                  /\ \A k \in Nodes : ~Live(row[k])
         /\ tracker'.coord = tracker.coord
         /\ tracker'.old => /\ tracker.old /\ tracker'.upd = tracker.upd
                            /\ tracker'.kept = tracker.kept
<1> DEFINE rows == [row EXCEPT ![n] = r]
<1>1. /\ row \in [Nodes -> Records \cup {None}] /\ cache \in Records \cup {None}
      /\ tracker \in Trackers /\ poll \in [Nodes -> Polling]
      /\ tracker.coord # None => cache # None
      /\ \A m \in Nodes : ~Loaded(m) => row[m] = None
  BY BaseIs DEF Rows
<1>2. r \in Records \cup {None} /\ (r = None <=> row[n] = None)
      /\ (row[n] # None => r.restored = row[n].restored)
      /\ (r # row[n] => row[n] # None /\ r.age = 0 /\ r.via = row[n].via)
  BY <1>1, TouchedIs
<1>3. rows \in Rows /\ \A m \in Nodes : rows[m] = IF m = n THEN r ELSE row[m]
  BY <1>1, <1>2 DEF Rows
<1>4. Ends(n, rows, cache, tracker)
  OBVIOUS
<1> HIDE DEF rows
<1>5. \A m \in Nodes : (rows[m] = None <=> row[m] = None) /\ (Live(rows[m]) <=> Live(row[m]))
  BY <1>1, <1>2, <1>3 DEF Live
<1>6. /\ cache' = cache /\ store' = store /\ poll' = [poll EXCEPT ![n] = Idle]
      /\ poll[n].at = "idle" /\ Loaded(n)
  BY <1>4 DEF Ends, saved, Polls, Loaded
<1>7. \A m \in Nodes : poll'[m].at = poll[m].at /\ (poll'[m] = poll[m] \/ poll'[m].at = "idle")
  BY <1>1, <1>6 DEF Idle
<1>8. /\ tracker'.coord = tracker.coord
      /\ tracker'.old => tracker.old /\ tracker'.upd = tracker.upd /\ tracker'.kept = tracker.kept
  BY <1>1, <1>3, <1>4, EndsTracker
<1>9. CASE row' = rows
  BY <1>2, <1>3, <1>5, <1>6, <1>7, <1>8, <1>9
<1>10. CASE row' # rows
  <2>1. up[n] = "first" /\ row' = Restored(n, rows)
    BY <1>4, <1>10 DEF Ends
  <2>2. /\ store[n] # None
        /\ \A m \in Nodes : Loaded(m) => rows[m] = None
        /\ \A m \in Nodes : row'[m] = rows[m] \/ (Kept(row'[m]) /\ row'[m].age = store[n].age)
    BY <1>3, <1>6, <1>10, <2>1, RestoredIs DEF Base
  <2>3. \A m \in Nodes : row[m] = None /\ rows[m] = None
    BY <1>1, <1>5, <2>2
  <2>4. \A m \in Nodes : ~Live(row[m]) /\ ~Live(row'[m])
    BY <2>2, <2>3 DEF Live, Kept
  <2>5. \A m \in Nodes : row'[m] = row[m] \/ (Kept(row'[m]) /\ row'[m].age = store[n].age)
    BY <2>2, <2>3
  <2> QED
    BY <1>6, <1>7, <1>8, <2>1, <2>2, <2>4, <2>5
<1> QED
  BY <1>9, <1>10

LEMMA QuietReported ==
  ASSUME NEW n \in Nodes
  PROVE  Base /\ Reported /\ OneLeaf /\ (ListNothing(n) \/ Notice(n)) => Reported'
<1> SUFFICES ASSUME Base, Reported, OneLeaf, ListNothing(n) \/ Notice(n) PROVE Reported'
  OBVIOUS
<1>1. /\ Polls(n) /\ UNCHANGED silence
      /\ \E r \in {row[n], Touched(n)} : Ends(n, [row EXCEPT ![n] = r], cache, tracker)
  BY QuietIs
<1>2. /\ cache' = cache /\ store' = store
      /\ \A m \in Nodes : poll'[m].at = poll[m].at
                          /\ (poll'[m] = poll[m] \/ poll'[m].at = "idle")
      /\ \A m \in Nodes : Live(row'[m]) <=> Live(row[m])
      /\ tracker'.coord = tracker.coord
      /\ tracker'.old => /\ tracker.old /\ tracker'.upd = tracker.upd
                         /\ tracker'.kept = tracker.kept
  BY <1>1, QuietEnds
<1>3. \A m \in Nodes :
         \/ row'[m] = row[m]
         \/ m = n /\ row[m] # None /\ row'[m].age = 0 /\ row'[m].via = row[m].via
         \/ /\ up[n] = "first" /\ Kept(row'[m])
            /\ store[n] # None /\ row'[m].age = store[n].age
            /\ \A k \in Nodes : ~Live(row[k])
  BY <1>1, QuietEnds
<1>4. \A m \in Nodes : Live(row'[m]) =>
         row'[m] = row[m] \/ (row'[m].age = 0 /\ row'[m].via = row[m].via)
  BY <1>2, <1>3
<1>5. Main \in Nodes /\ Leaves \subseteq Nodes /\ silence \in 0..Old /\ silence' = silence
      /\ poll[n].at = "idle" /\ tracker.coord \in Nodes \cup {None}
  BY <1>1, Bounds, BaseIs DEF Polls
<1>6. InFlight'
  BY <1>2, <1>4, InFlightKeeps DEF Reported
<1>7. \A m \in Nodes : Honest(row[m]) => Honest(row[m])'
  BY <1>2, <1>4, <1>5 DEF Honest
<1>8. LastReport'
  <2>1. Live(row'[Main]) /\ row'[Main].via = Main => Honest(row[Main])'
    BY <1>2, <1>4, <1>5, <1>7 DEF Reported, LastReport
  <2>2. Honest(cache)'
    BY <1>2, <1>5 DEF Reported, LastReport, Honest, Live
  <2>3. \A l \in Leaves : /\ Honest(row[l])'
                          /\ tracker'.coord = l =>
                                Honest(row[Main])' \/ Live(row'[l]) \/ poll'[l].at = "add"
    BY <1>2, <1>5, <1>7 DEF Reported, LastReport
  <2> QED
    BY <2>1, <2>2, <2>3 DEF LastReport, Live
<1>9. OldIsOther'
  BY <1>2 DEF Reported, OldIsOther
<1>10. LostIsKnown'
  <2> DEFINE a == tracker.coord
             b == tracker.upd
  <2>1. ASSUME Lost(tracker), Lost(tracker')
        PROVE  /\ a \in Nodes /\ b \in Nodes /\ a # b /\ n \in {a, b} /\ up[a] # "first"
               /\ tracker'.coord = a /\ tracker'.upd = b
    BY <1>2, <2>1, LeafIs, LostIs DEF Lost
  <2>2. ASSUME Lost(tracker), Lost(tracker'), Knows(a) PROVE Knows(a)'
    BY <1>2, <2>1, <2>2 DEF Knows, Live
  <2>3. ASSUME Lost(tracker), Lost(tracker'), Back(b) PROVE Back(b)'
    <3>1. Live(row'[b]) \/ poll'[b].at = "push" \/ Recents(store[b])'
      BY <1>2, <1>5, <2>1, <2>3 DEF Back, Recents
    <3>2. ASSUME Kept(row'[b]) PROVE Recents(row[b])'
      <4>1. CASE row'[b] = row[b]
        BY <1>5, <2>1, <2>3, <3>2, <4>1 DEF Back, Recents, Kept
      <4>2. CASE row'[b].age = 0
        BY <1>5, <2>1, <2>3, <4>2 DEF Recents
      <4>3. CASE /\ up[n] = "first" /\ store[n] # None /\ row'[b].age = store[n].age
                 /\ \A k \in Nodes : ~Live(row[k])
        <5>1. n = b
          BY <2>1, <2>3, <4>3
        <5> QED
          BY <1>5, <2>1, <2>3, <4>3, <5>1 DEF Back, Recents
      <4> QED
        BY <1>3, <2>1, <2>3, <4>1, <4>2, <4>3
    <3>3. Kept(cache') => Recents(cache)'
      BY <1>2, <1>5, <2>3 DEF Back, Recents
    <3> QED
      BY <2>1, <2>3, <3>1, <3>2, <3>3 DEF Back, Live, Kept
  <2> QED
    BY <1>2, <2>2, <2>3, LostKeeps DEF Reported, Lost
<1> QED
  BY <1>6, <1>8, <1>9, <1>10 DEF Reported

LEMMA PlatformReported ==
  ASSUME NEW n \in Nodes PROVE Base /\ Reported /\ OneLeaf /\ Platform(n) => Reported'
<1> SUFFICES ASSUME Base, Reported, OneLeaf, Platform(n) PROVE Reported'
  OBVIOUS
<1>1. up[n] = "fetched" /\ UNCHANGED <<row, poll, store, silence>>
  BY PlatformIs DEF saved
<1>2. CASE UNCHANGED <<cache, tracker>>
  BY <1>1, <1>2, StillReported
<1>3. CASE /\ row[n] \in Records /\ row[n].via = n /\ cache' = row[n]
           /\ tracker' = tracker \/ (tracker.coord = None /\ tracker' = Created(n, row[n]))
  <2>1. wasHome \in BOOLEAN /\ tracker.coord \in Nodes \cup {None} /\ row[n] # None
    BY <1>3, BaseIs, RecordIs
  <2>2. tracker' # tracker => tracker'.coord = n /\ ~tracker'.old
    BY <1>3, <2>1, CreatedIs
  <2>3. InFlight'
    BY <1>1 DEF Reported, InFlight, Live
  <2>4. n = Main \/ n \in Leaves
    BY DEF Nodes
  <2>5. Honest(cache)'
    BY <1>1, <1>3, <2>4 DEF Reported, LastReport, Honest, Live
  <2>6. ASSUME NEW l \in Leaves, tracker'.coord = l
        PROVE  Honest(row[Main])' \/ Live(row'[l]) \/ poll'[l].at = "add"
    <3>1. CASE tracker' = tracker
      BY <1>1, <2>6, <3>1 DEF Reported, LastReport, Honest, Live
    <3>2. CASE tracker' # tracker
      <4>1. l = n
        BY <2>2, <2>6, <3>2
      <4>2. CASE Live(row[n])
        BY <1>1, <4>1, <4>2 DEF Live
      <4>3. CASE ~Live(row[n])
        <5>1. Kept(row[n])
          BY <2>1, <4>3 DEF Live, Kept
        <5>2. ~Live(row[Main])
          BY <5>1, Bounds DEF Base, OneKind
        <5> QED
          BY <1>1, <5>2 DEF Honest, Live
      <4> QED
        BY <4>2, <4>3
    <3> QED
      BY <3>1, <3>2
  <2>7. LastReport'
    BY <1>1, <2>5, <2>6 DEF Reported, LastReport, Honest, Live
  <2>8. OldIsOther'
    BY <2>2 DEF Reported, OldIsOther
  <2>9. LostIsKnown'
    <3> DEFINE a == tracker.coord
               b == tracker.upd
    <3>1. Lost(tracker') => Lost(tracker) /\ tracker' = tracker
      BY <2>2 DEF Lost
    <3>2. ASSUME Lost(tracker) PROVE a \in Nodes /\ b \in Nodes /\ a # b /\ n = b
      BY <1>1, <3>2, LeafIs, LostIs
    <3>3. ASSUME Lost(tracker), Lost(tracker'), Knows(a) PROVE Knows(a)'
      BY <1>1, <3>1, <3>2, <3>3 DEF Knows, Live
    <3>4. ASSUME Lost(tracker), Lost(tracker'), Back(b) PROVE Back(b)'
      BY <1>1, <1>3, <3>1, <3>2, <3>4 DEF Back, Live, Kept, Recents
    <3> QED
      BY <3>1, <3>3, <3>4, LostKeeps DEF Reported
  <2> QED
    BY <2>3, <2>7, <2>8, <2>9 DEF Reported
<1> QED
  BY <1>2, <1>3, PlatformIs

\* A node that is unloaded saves a record of the last report, or the tracker's own node
\* knows the client.
LEMMA UnloadReported ==
  ASSUME NEW n \in Nodes PROVE Base /\ Reported /\ OneLeaf /\ Unload(n) => Reported'
<1> SUFFICES ASSUME Base, Reported, OneLeaf, Unload(n) PROVE Reported'
  OBVIOUS
<1>1. /\ row' = [row EXCEPT ![n] = None]
      /\ store' = IF Saves(n) THEN [store EXCEPT ![n] = row[n]] ELSE store
      /\ UNCHANGED <<cache, poll, silence>>
      /\ \/ tracker.coord = n /\ tracker' = NoTracker
         \/ tracker.coord # n /\ tracker' = tracker
         \/ /\ tracker.coord \notin {n, None} /\ tracker.upd = n /\ ~tracker.old
            /\ tracker'.coord = tracker.coord
            /\ tracker'.upd = n /\ tracker'.kept = row[n]
  BY UnloadIs
<1>2. /\ row \in [Nodes -> Records \cup {None}] /\ store \in [Nodes -> Records \cup {None}]
      /\ Main \in Nodes /\ Leaves \subseteq Nodes /\ tracker.coord \in Nodes \cup {None}
      /\ None \notin Nodes
  BY BaseIs, Bounds DEF Rows
<1>3. \A m \in Nodes : row'[m] = IF m = n THEN None ELSE row[m]
  BY <1>1, <1>2
<1>4. \A m \in Nodes : /\ Live(row'[m]) <=> Live(row[m]) /\ m # n
                       /\ Kept(row'[m]) <=> Kept(row[m]) /\ m # n
  BY <1>3 DEF Live, Kept
<1>5. InFlight'
  BY <1>1, <1>3, <1>4, InFlightKeeps DEF Reported
<1>6. \A m \in Nodes : Honest(row[m]) => Honest(row[m])'
  BY <1>1, <1>3, <1>4 DEF Honest
<1>7. LastReport'
  <2>1. Live(row'[Main]) /\ row'[Main].via = Main => Honest(row[Main])'
    BY <1>2, <1>3, <1>4, <1>6 DEF Reported, LastReport
  <2>2. Honest(cache)'
    BY <1>1 DEF Reported, LastReport, Honest, Live
  <2>3. ASSUME NEW l \in Leaves, tracker'.coord = l
        PROVE  Honest(row[Main])' \/ Live(row'[l]) \/ poll'[l].at = "add"
    <3>1. tracker.coord = l /\ l # n
      BY <1>1, <1>2, <2>3, NoTrackerIs
    <3> QED
      BY <1>1, <1>2, <1>4, <1>6, <3>1 DEF Reported, LastReport
  <2>4. \A l \in Leaves : Honest(row[l])'
    BY <1>2, <1>6 DEF Reported, LastReport
  <2> QED
    BY <2>1, <2>2, <2>3, <2>4 DEF LastReport, Live
<1>8. OldIsOther'
  BY <1>1, NoTrackerIs DEF Reported, OldIsOther
<1>9. LostIsKnown'
  <2> DEFINE a == tracker.coord
  <2> SUFFICES ASSUME Lost(tracker') PROVE Knows(tracker.coord)' \/ Back(tracker.upd)'
    BY DEF LostIsKnown, Lost, Live
  <2>1. /\ a \in Nodes /\ a # n /\ tracker'.coord = a
        /\ \/ tracker' = tracker /\ Lost(tracker)
           \/ ~tracker.old /\ tracker'.upd = n /\ tracker'.kept = row[n] /\ Live(row[n])
    BY <1>1, <1>2, NoTrackerIs DEF Lost
  <2>2. tracker'.upd = n
    <3>1. CASE tracker' = tracker /\ Lost(tracker)
      BY <2>1, <3>1, LostIs, LeafIs
    <3> QED
      BY <2>1, <3>1
  <2>4. ASSUME Knows(a) PROVE Knows(tracker.coord)'
    BY <1>1, <1>4, <2>1, <2>4 DEF Knows, Live
  <2>5. ASSUME ~Knows(a), Live(row[n]) PROVE row[n].age <= silence
    <3>1. CASE n \in Leaves
      BY <2>5, <3>1 DEF Reported, LastReport, Honest
    <3>2. CASE n = Main
      <4>1. a \in Leaves
        BY <2>1, <3>2 DEF Nodes
      <4> QED
        BY <2>5, <3>2, <4>1 DEF Reported, LastReport, Honest, Knows
    <3> QED
      BY <3>1, <3>2 DEF Nodes
  <2>6. ASSUME ~Knows(a)
        PROVE  /\ row[n] # None => row[n].age <= silence
               /\ Kept(cache) => cache.age <= silence
    <3>1. CASE Live(row[n])
      BY <2>5, <2>6, <3>1 DEF Base, OneKind
    <3>2. CASE ~Live(row[n])
      <4>1. tracker' = tracker /\ Lost(tracker)
        BY <2>1, <3>2
      <4>2. Back(n)
        BY <2>1, <2>2, <2>6, <4>1 DEF Reported, LostIsKnown, Lost
      <4>3. Kept(row[n]) => Recents(row[n])
        BY <4>2 DEF Back
      <4>4. Kept(cache) => Recents(cache)
        BY <4>2 DEF Back
      <4> QED
        BY <3>2, <4>3, <4>4 DEF Recents, Kept, Live
    <3> QED
      BY <3>1, <3>2
  <2>7. ASSUME ~Knows(a) PROVE Back(tracker.upd)'
    <3>1. store'[n] = IF Saves(n) THEN row[n] ELSE None
      BY <1>1, <1>2 DEF Base, OneKind
    <3>2. Recents(store[n])'
      BY <1>1, <2>6, <2>7, <3>1 DEF Recents
    <3>3. ~Kept(row'[n]) /\ (Kept(cache') => Recents(cache)')
      BY <1>1, <1>4, <2>6, <2>7 DEF Recents, Kept
    <3> QED
      BY <2>2, <3>2, <3>3 DEF Back, Recents, Kept
  <2> QED
    BY <2>4, <2>7
<1> QED
  BY <1>5, <1>7, <1>8, <1>9 DEF Reported

LEMMA RestartReported == Restart => Reported'
<1> SUFFICES ASSUME Restart PROVE Reported'
  OBVIOUS
<1>1. /\ row' = [n \in Nodes |-> None] /\ cache' = None /\ tracker' = NoTracker
      /\ poll' = [n \in Nodes |-> Idle]
  BY DEF Restart
<1>2. \A n \in Nodes : poll'[n].at = "idle" /\ ~Live(row'[n])
  BY <1>1 DEF Idle, Live
<1>3. tracker'.coord = None /\ ~Live(cache')
  BY <1>1, NoTrackerIs DEF Live
<1> QED
  BY <1>2, <1>3, Bounds DEF Reported, InFlight, LastReport, OldIsOther, LostIsKnown, Honest, Live

\* A tick does not make a record older than the last report.
LEMMA TickRecents ==
  ASSUME Base, NEW r \in Records \cup {None}, silence' = Min2(silence + 1, Old)
  PROVE  /\ r # None /\ r.age <= silence => Older(r).age <= silence'
         /\ r = None <=> Older(r) = None
         /\ Live(Older(r)) <=> Live(r)
         /\ Kept(Older(r)) <=> Kept(r)
         /\ Older(r) # None => Older(r).via = r.via
<1>1. ASSUME r # None, r.age <= silence PROVE Older(r).age <= silence'
  <2>1. Older(r).age = Min2(r.age + 1, Old) /\ r.age \in 0..Old /\ silence \in 0..Old /\ Old \in Nat
    BY <1>1, OlderIs, RecordIs, BaseIs, Bounds
  <2> QED
    BY <1>1, <2>1 DEF Min2
<1> QED
  BY <1>1, OlderIs, OlderKeeps

LEMMA TickReported == Base /\ Reported /\ OneLeaf /\ Tick => Reported'
<1> SUFFICES ASSUME Base, Reported, OneLeaf, Tick PROVE Reported'
  OBVIOUS
<1>1. /\ \A n \in Nodes : poll[n].at = "idle"
      /\ \A n \in Nodes : row'[n] = Older(row[n]) /\ store'[n] = Older(store[n])
      /\ cache' = Older(cache) /\ silence' = Min2(silence + 1, Old)
      /\ tracker'.coord = tracker.coord /\ tracker'.upd = tracker.upd
      /\ tracker'.old = tracker.old /\ tracker'.kept = Older(tracker.kept)
      /\ poll' = poll
  BY TickIs
<1>2. /\ row \in [Nodes -> Records \cup {None}] /\ store \in [Nodes -> Records \cup {None}]
      /\ cache \in Records \cup {None} /\ tracker \in Trackers
      /\ tracker.kept \in Records \cup {None} /\ tracker.coord \in Nodes \cup {None}
      /\ Main \in Nodes /\ Leaves \subseteq Nodes
  BY BaseIs, Bounds DEF Rows, Trackers
<1>3. \A n \in Nodes : /\ Live(row'[n]) <=> Live(row[n])
                       /\ Kept(row'[n]) <=> Kept(row[n])
                       /\ Live(row'[n]) => row'[n].via = row[n].via
                       /\ row[n] # None /\ row[n].age <= silence => row'[n].age <= silence'
                       /\ store'[n] = None <=> store[n] = None
                       /\ store[n] # None /\ store[n].age <= silence => store'[n].age <= silence'
  BY <1>1, <1>2, TickRecents DEF Live
<1>4. /\ Live(cache') <=> Live(cache)
      /\ Kept(cache') <=> Kept(cache)
      /\ cache # None /\ cache.age <= silence => cache'.age <= silence'
      /\ Live(tracker'.kept) <=> Live(tracker.kept)
  BY <1>1, <1>2, TickRecents
<1>5. InFlight'
  BY <1>1, <1>2 DEF InFlight
<1>6. LastReport'
  <2>1. \A n \in Nodes : Honest(row[n]) => Honest(row[n])'
    BY <1>3 DEF Honest, Live
  <2>2. Honest(cache)'
    BY <1>4 DEF Reported, LastReport, Honest, Live
  <2>3. Live(row'[Main]) /\ row'[Main].via = Main => Honest(row[Main])'
    BY <1>2, <1>3, <2>1 DEF Reported, LastReport
  <2>4. ASSUME NEW l \in Leaves
        PROVE  /\ Honest(row[l])'
               /\ tracker'.coord = l => Honest(row[Main])' \/ Live(row'[l]) \/ poll'[l].at = "add"
    BY <1>1, <1>2, <1>3, <2>1 DEF Reported, LastReport
  <2> QED
    BY <2>2, <2>3, <2>4 DEF LastReport, Live
<1>7. OldIsOther'
  BY <1>1 DEF Reported, OldIsOther
<1>8. LostIsKnown'
  <2> DEFINE a == tracker.coord
             b == tracker.upd
  <2>1. Lost(tracker') => Lost(tracker) /\ tracker'.coord = a /\ tracker'.upd = b
    BY <1>1, <1>4 DEF Lost
  <2>2. ASSUME Lost(tracker) PROVE a \in Nodes /\ b \in Nodes
    BY <2>2, LostIs
  <2>3. ASSUME Lost(tracker), Lost(tracker'), Knows(a) PROVE Knows(a)'
    BY <1>1, <1>3, <2>1, <2>2, <2>3 DEF Knows, Live
  <2>4. ASSUME Lost(tracker), Lost(tracker'), Back(b) PROVE Back(b)'
    <3>1. /\ Live(row[b]) \/ Recents(store[b])
          /\ Kept(row[b]) => Recents(row[b])
          /\ Kept(cache) => Recents(cache)
      BY <1>1, <2>2, <2>4 DEF Back
    <3>2. Live(row'[b]) \/ Recents(store[b])'
      BY <1>3, <2>1, <2>2, <2>4, <3>1 DEF Recents
    <3>3. Kept(row'[b]) => Recents(row[b])'
      BY <1>3, <2>1, <2>2, <2>4, <3>1 DEF Recents, Kept
    <3>4. Kept(cache') => Recents(cache)'
      BY <1>4, <3>1 DEF Recents, Kept
    <3> QED
      BY <2>1, <2>4, <3>2, <3>3, <3>4 DEF Back, Live, Kept
  <2> QED
    BY <2>1, <2>3, <2>4, LostKeeps DEF Reported
<1> QED
  BY <1>5, <1>6, <1>7, <1>8 DEF Reported

LEMMA StepReported == Base /\ Reported /\ OneLeaf /\ [Next]_vars => Reported'
<1> SUFFICES ASSUME Base, Reported, OneLeaf, [Next]_vars PROVE Reported'
  OBVIOUS
<1>1. ASSUME NEW n \in Nodes, PollStep(n) PROVE Reported'
  <2>1. CASE ListRadio(n)
    BY <2>1, ListOwnReported DEF ListRadio
  <2>2. CASE ListMain
    BY <2>2, ListOwnReported, Bounds DEF ListMain
  <2> QED
    BY <1>1, <2>1, <2>2, ListForLeafReported, ReportReported, QuietReported DEF PollStep, List
<1>2. ASSUME NEW n \in Nodes, SetUp(n) \/ StopPolling(n) PROVE Reported'
  BY <1>2, StillReported DEF SetUp, StopPolling, saved
<1>3. ASSUME NEW n \in Nodes \cup {Away}, Move(n) PROVE Reported'
  BY <1>3, StillReported DEF Move, saved
<1>4. CASE UNCHANGED vars
  BY <1>4, StillReported DEF vars, saved
<1> QED
  BY <1>1, <1>2, <1>3, <1>4, PlatformReported, UnloadReported, RestartReported, TickReported
     DEF Next

-----------------------------------------------------------------------------
(* When a tracker leaves. *)

\* It leaves only as it hears the end of a refresh of its coordinator.
LEMMA DepartsIs ==
  ASSUME Base, [Next]_vars, Departs
  PROVE  /\ tracker.coord \in Nodes /\ cache' \in Records /\ row' \in Rows
         /\ tracker' = Heard(tracker, row', cache')
         /\ \/ cache'.age = 0
            \/ ListNothing(tracker.coord) \/ Notice(tracker.coord)
<1>1. tracker.home /\ tracker'.coord # None /\ ~tracker'.home
  BY DEF Departs
<1>2. /\ tracker.coord \in Nodes /\ tracker \in Trackers /\ cache \in Records
      /\ cache \in Records \cup {None} /\ row \in [Nodes -> Records \cup {None}]
      /\ wasHome \in BOOLEAN /\ tracker.coord # None
  BY <1>1, BaseIs DEF Rows
<1>3. ASSUME NEW n \in Nodes, NEW rows \in Rows, NEW c \in Records, Ends(n, rows, c, tracker)
      PROVE  /\ tracker.coord = n /\ row' = rows /\ cache' = c
             /\ tracker' = Heard(tracker, rows, c)
  BY <1>1, <1>2, <1>3, EndsTracker DEF Ends
<1>4. ASSUME NEW n \in Nodes, ListNothing(n) \/ Notice(n)
      PROVE  /\ tracker.coord = n /\ cache' \in Records /\ row' \in Rows
             /\ tracker' = Heard(tracker, row', cache')
  <2>1. PICK r \in {row[n], Touched(n)} : Ends(n, [row EXCEPT ![n] = r], cache, tracker)
    BY <1>4, QuietIs
  <2> DEFINE rows == [row EXCEPT ![n] = r]
  <2>2. rows \in Rows
    BY <1>2, TouchedIs DEF Rows
  <2>3. Ends(n, rows, cache, tracker)
    BY <2>1
  <2> HIDE DEF rows
  <2> QED
    BY <1>2, <1>3, <2>2, <2>3
<1>5. ASSUME NEW n \in Nodes, Report(n)
      PROVE  /\ cache' \in Records /\ row' \in Rows /\ cache'.age = 0
             /\ tracker' = Heard(tracker, row', cache')
  <2> DEFINE c == Fresh(poll[n].to)
             added == AddDevice(poll[n].to, c, poll[n].skip)
             t == added.tracker
             rows == added.rows
  <2>1. poll[n].to \in Nodes /\ poll[n].skip \in BOOLEAN /\ rows \in Rows /\ Ends(n, rows, c, t)
    BY <1>5, ReportIs
  <2>2. c \in Records /\ c.age = 0 /\ TypeOK
    BY <2>1, FreshIs DEF Base
  <2>3. t = tracker
    BY <1>2, <2>1, <2>2, AddDeviceIs
  <2> HIDE DEF rows, c, t
  <2> QED
    BY <1>3, <2>1, <2>2, <2>3
<1>6. ASSUME tracker' = tracker PROVE FALSE
  BY <1>1, <1>6
<1>7. ASSUME NEW n \in Nodes, PollStep(n) PROVE Report(n) \/ ListNothing(n) \/ Notice(n)
  BY <1>6, <1>7 DEF PollStep, List, ListRadio, ListMain, ListOwn, ListForLeaf
<1>8. ASSUME NEW n \in Nodes, SetUp(n) \/ StopPolling(n) \/ Platform(n) PROVE FALSE
  BY <1>2, <1>6, <1>8, PlatformIs DEF SetUp, StopPolling
<1>9. ASSUME NEW n \in Nodes, Unload(n) PROVE FALSE
  BY <1>1, <1>6, <1>9, UnloadIs, NoTrackerIs
<1>10. ~Restart /\ ~Tick
  <2>1. ~Restart
    BY <1>1, NoTrackerIs DEF Restart
  <2>2. ~Tick
    BY <1>1, TickIs
  <2> QED
    BY <2>1, <2>2
<1>11. ASSUME NEW n \in Nodes \cup {Away}, Move(n) PROVE FALSE
  BY <1>6, <1>11 DEF Move
<1>12. ~UNCHANGED vars
  BY <1>6 DEF vars
<1>13. \E n \in Nodes : Report(n) \/ ListNothing(n) \/ Notice(n)
  BY <1>7, <1>8, <1>9, <1>10, <1>11, <1>12 DEF Next
<1> QED
  BY <1>2, <1>4, <1>5, <1>13

\* What the tracker reads, and which age it takes that to have.
LEMMA ReadsIs ==
  ASSUME Base, [Next]_vars, Departs
  PROVE  /\ Reads(row', cache') \in Records
         /\ Age(Reads(row', cache'), tracker) > Stay
         /\ \/ tracker.old /\ Reads(row', cache') = tracker.kept
            \/ Reads(row', cache') = cache'
            \/ \E n \in Nodes : Reads(row', cache') = row'[n]
<1>1. /\ cache' \in Records /\ tracker \in Trackers
      /\ row' \in [Nodes -> Records \cup {None}]
      /\ tracker' = Heard(tracker, row', cache')
  BY DepartsIs, BaseIs DEF Rows
<1>2. /\ Looks(tracker, row', cache').read \in Records
      /\ \/ tracker.old /\ Looks(tracker, row', cache').read = tracker.kept
         \/ Looks(tracker, row', cache').read = cache'
         \/ \E n \in Nodes : Looks(tracker, row', cache').read = row'[n]
  BY <1>1, LooksIs
<1>3. ~(Age(Looks(tracker, row', cache').read, tracker) <= Stay)
  <2>1. Heard(tracker, row', cache').home =
           (Age(Looks(tracker, row', cache').read, tracker) <= Stay)
    BY <1>1, HeardIs
  <2> QED
    BY <1>1, <2>1 DEF Departs
<1>4. Age(Looks(tracker, row', cache').read, tracker) \in Int /\ Stay \in Int
  BY <1>1, <1>2, AgeIs, Bounds
<1>5. Age(Looks(tracker, row', cache').read, tracker) > Stay
  BY <1>3, <1>4
<1> QED
  BY <1>2, <1>5 DEF Reads

\* A record that was reported and is too old is older than the mesh-wide one, or no node
\* has reported the client for as long.
LEMMA LeavesWithReason ==
  ASSUME Base, Reported, OneLeaf, [Next]_vars, Departs, ~Reads(row', cache').restored
  PROVE  Reads(row', cache').age > cache'.age \/ silence > Stay
<1> DEFINE r == Reads(row', cache')
           a == tracker.coord
<1>1. /\ r \in Records /\ r.age \in 0..Old /\ r.age > Stay /\ Live(r)
      /\ cache' \in Records /\ cache'.age \in 0..Old /\ Stay \in Nat /\ Old \in Nat
      /\ silence \in 0..Old
  BY ReadsIs, AgeIs, DepartsIs, RecordIs, BaseIs, Bounds DEF Live
<1>2. \/ tracker.old /\ r = tracker.kept
      \/ r = cache'
      \/ \E n \in Nodes : r = row'[n]
  BY ReadsIs
<1>3. a \in Nodes /\ (cache'.age = 0 \/ ListNothing(a) \/ Notice(a))
  BY DepartsIs
<1> HIDE DEF r
<1>4. CASE cache'.age = 0
  BY <1>1, <1>4 DEF r
<1>5. CASE ListNothing(a) \/ Notice(a)
  <2>1. /\ Polls(a) /\ cache' = cache
        /\ \A m \in Nodes : Live(row'[m]) <=> Live(row[m])
    <3>1. /\ Polls(a)
          /\ \E q \in {row[a], Touched(a)} : Ends(a, [row EXCEPT ![a] = q], cache, tracker)
      BY <1>3, <1>5, QuietIs
    <3> QED
      BY <1>3, <3>1, QuietEnds
  <2>2. ASSUME cache.age <= silence PROVE r.age > cache'.age \/ silence > Stay
    BY <1>1, <2>1, <2>2
  <2>3. CASE Live(cache)
    BY <2>2, <2>3 DEF Reported, LastReport, Honest, r
  <2>4. CASE ~Live(cache)
    <3>1. Kept(cache)
      BY <1>1, <2>1, <2>4, RecordIs DEF Live, Kept
    <3>2. \A m \in Nodes : ~Live(row[m]) /\ ~Live(row'[m])
      BY <2>1, <3>1 DEF Base, OneKind
    <3>3. tracker.old /\ r = tracker.kept
      BY <1>1, <1>2, <2>1, <2>4, <3>2
    <3>4. Lost(tracker) /\ ~Knows(a)
      BY <1>1, <1>3, <2>1, <3>2, <3>3, Bounds DEF Lost, Knows, Polls
    <3>5. Back(tracker.upd)
      BY <3>4 DEF Reported, LostIsKnown, Lost
    <3>6. cache.age <= silence
      BY <3>1, <3>5 DEF Back, Recents, Kept
    <3> QED
      BY <2>2, <3>6 DEF r
  <2> QED
    BY <2>3, <2>4
<1> QED
  BY <1>3, <1>4, <1>5

-----------------------------------------------------------------------------
Presence == Base /\ (OneLeaf => Reported)

LEMMA Invariant == Spec => []Presence
<1>1. Init => Presence
  BY InitBase, InitReported DEF Presence
<1>2. Presence /\ [Next]_vars => Presence'
  BY StepBase, StepReported DEF Presence, OneLeaf
<1> QED
  BY <1>1, <1>2, PTL DEF Spec

\* In any mesh, whatever is unloaded or restarted between a list and its report: records,
\* stores and the tracker keep their types, and a tracker has a record to read and a
\* coordinator with a platform.
THEOREM TypeCorrect == Spec => []TypeOK
<1>1. Presence => TypeOK
  BY DEF Presence, Base
<1> QED
  BY <1>1, Invariant, PTL

\* A tracker leaves for a reason.  In any mesh a client that was home when Home Assistant
\* stopped does not leave on a restored record before every node has finished its first
\* refresh or the hold has run out.  With one leaf it leaves on a record that was reported
\* since the start only when nobody has reported the client for longer than the grace, or
\* the mesh-wide record is newer.
THEOREM DepartsWithReasonHolds == Spec => DepartsWithReason
<1> DEFINE D == Departs =>
              LET r == Reads(row', cache')
              IN  /\ OneLeaf /\ ~r.restored => r.age > cache'.age \/ silence > Stay
                  /\ r.restored /\ tracker.held =>
                        tracker.k > HoldMax + Stay \/ \A n \in Nodes : up[n] # "first"
<1>1. ASSUME Presence, [Next]_vars PROVE [D]_vars
  <2> DEFINE r == Reads(row', cache')
  <2> SUFFICES ASSUME Departs
               PROVE  /\ OneLeaf /\ ~r.restored => r.age > cache'.age \/ silence > Stay
                      /\ r.restored /\ tracker.held =>
                            tracker.k > HoldMax + Stay \/ \A n \in Nodes : up[n] # "first"
    OBVIOUS
  <2>1. OneLeaf /\ ~r.restored => r.age > cache'.age \/ silence > Stay
    BY <1>1, LeavesWithReason DEF Presence
  <2>2. r \in Records /\ tracker \in Trackers /\ Age(r, tracker) > Stay
    BY <1>1, ReadsIs, BaseIs DEF Presence
  <2> HIDE DEF r
  <2>3. r.restored /\ tracker.held =>
           tracker.k > HoldMax + Stay \/ \A n \in Nodes : up[n] # "first"
    BY <2>2, AgeIs
  <2> QED
    BY <2>1, <2>3
<1>2. Spec => [][D]_vars
  BY <1>1, Invariant, PTL DEF Spec
<1> QED
  BY <1>2 DEF DepartsWithReason

-----------------------------------------------------------------------------
(* Switches and selects. *)

Settings == [Radio -> Values]
CallRecords == [e: Radio \cup {NoValue}, payload: Settings \cup {<<>>},
                at: {"new", "sent", "taken", "late", "done"}, why: SUBSET Causes]
Requests == [want: Values \cup {NoValue}, confirmed: BOOLEAN, misses: 0..2,
             counted: BOOLEAN, said: Values \cup {NoValue}]

\* The types, with the shape of the calls that WifiTypeOK only describes in part.
WifiTypes ==
    /\ router \in Settings /\ data \in Settings /\ shown \in Settings
    /\ wifiData \in Settings /\ copy \in [Radio -> Settings]
    /\ refresh \in [at: {"got"}, got: Settings]
                     \cup [at: {"idle", "wifi", "topo", "end"}, got: {<<>>}]
    /\ asked \in [Selects -> Requests]
    /\ call \in [Calls -> CallRecords]
    /\ \A c \in Calls : call[c].at \in {"sent", "taken", "late"} =>
            call[c].e \in Radio /\ call[c].payload \in Settings
    /\ overrides \in 0..MaxOverrides
    /\ cause \in [Selects -> SUBSET Causes]

\* A request that the router has taken and that nothing has touched since is what
\* the router has.
TakenStands ==
    \A c \in Calls : call[c].at = "taken" /\ call[c].why = {} =>
        router[call[c].e] = call[c].payload[call[c].e]

\* No refresh has been held against the request yet, or only the one that ends now.
Unjudged(a) == ~a.confirmed /\ a.misses = 0 /\ ~a.counted
JudgedOnce(a) == ~a.confirmed /\ a.misses = 1 /\ a.counted

\* While no cause is known the router has what was asked, and a value that a refresh
\* holds or has published is another one only if it is the first to be judged.
AskedStands ==
    \A e \in Selects : asked[e].want # NoValue /\ cause[e] = {} =>
        /\ router[e] = asked[e].want
        /\ refresh.at = "got" => refresh.got[e] = asked[e].want \/ Unjudged(asked[e])
        /\ refresh.at = "topo" => data[e] = asked[e].want \/ Unjudged(asked[e])
        /\ refresh.at = "end" => data[e] = asked[e].want \/ JudgedOnce(asked[e])

WifiInv == WifiTypes /\ TakenStands /\ AskedStands

LEMMA WifiTypesAreTypes == WifiTypes => WifiTypeOK
<1> SUFFICES ASSUME WifiTypes PROVE WifiTypeOK
  OBVIOUS
<1>1. \/ refresh.at = "got" /\ refresh.got \in [Radio -> Values]
      \/ refresh.at \in {"idle", "wifi", "topo", "end"} /\ refresh.got = <<>>
  BY DEF WifiTypes, Settings
<1>2. \A c \in Calls :
          /\ call[c].at \in {"new", "sent", "taken", "late", "done"}
          /\ call[c].why \subseteq Causes
  BY DEF WifiTypes, CallRecords
<1> QED
  BY <1>1, <1>2 DEF WifiTypes, WifiTypeOK, Settings, Requests

LEMMA Values0 ==
  /\ NotAsked \in Requests /\ NotAsked.want = NoValue /\ Unjudged(NotAsked)
  /\ NoCall \in CallRecords /\ [NoCall EXCEPT !.at = "done"] \in CallRecords
  /\ NoCall.at = "new" /\ [NoCall EXCEPT !.at = "done"].at = "done"
  /\ Selects \subseteq Radio /\ NoValue \notin Radio /\ NoValue \notin Values
BY NoneIsApart DEF NotAsked, Requests, Unjudged, NoCall, CallRecords, Radio

LEMMA WifiInitInv == WifiInit => WifiInv
<1> SUFFICES ASSUME WifiInit PROVE WifiInv
  OBVIOUS
<1>1. refresh \in [at: {"idle", "wifi", "topo", "end"}, got: {<<>>}] /\ refresh.at = "idle"
  BY DEF WifiInit
<1>2. /\ router \in Settings /\ data \in Settings /\ shown \in Settings /\ wifiData \in Settings
      /\ copy \in [Radio -> Settings]
  BY DEF WifiInit, Settings
<1>3. /\ asked \in [Selects -> Requests] /\ call \in [Calls -> CallRecords]
      /\ \A c \in Calls : call[c].at = "new"
      /\ \A e \in Selects : asked[e].want = NoValue
      /\ cause \in [Selects -> SUBSET Causes]
  BY Values0 DEF WifiInit
<1>4. overrides \in 0..MaxOverrides
  BY OverridesAreBounded DEF WifiInit
<1>5. WifiTypes
  BY <1>1, <1>2, <1>3, <1>4 DEF WifiTypes
<1> QED
  BY <1>3, <1>5 DEF WifiInv, TakenStands, AskedStands

-----------------------------------------------------------------------------
(* Writes. *)


\* The settings S of the router change, or are written again; call c, if it is one, is
\* the write that does it.
LEMMA NotedKeeps ==
  ASSUME WifiInv, NEW S \in SUBSET Radio, NEW k \in Causes, NEW c \in Calls \cup {NoValue},
         Noted(S, k, c), router' \in Settings,
         \A f \in Radio \ S : router'[f] = router[f],
         c \in Calls => call[c].at \in {"sent", "late"} /\ router' = call[c].payload,
         overrides' \in 0..MaxOverrides,
         UNCHANGED <<data, wifiData, refresh, shown, copy, asked>>
  PROVE  WifiInv'
<1>1. /\ call \in [Calls -> CallRecords] /\ NoValue \notin Calls
      /\ \A d \in Calls : call[d] \in CallRecords
      /\ cause \in [Selects -> SUBSET Causes]
      /\ \A d \in Calls : call[d].at \in {"sent", "taken", "late"} =>
            call[d].e \in Radio /\ call[d].payload \in Settings
  BY NoneIsApart DEF WifiInv, WifiTypes
<1> DEFINE noted(d) == [call[d] EXCEPT !.why = call[d].why \cup {k}]
           taken == [call[c] EXCEPT !.at = "taken"]
           done == [NoCall EXCEPT !.at = "done"]
<1>2. \A d \in Calls :
        /\ noted(d) \in CallRecords /\ noted(d).at = call[d].at /\ noted(d).why # {}
        /\ noted(d).e = call[d].e /\ noted(d).payload = call[d].payload
  BY <1>1 DEF CallRecords
<1>3. c \in Calls => /\ taken \in CallRecords /\ taken.e = call[c].e
                     /\ taken.payload = call[c].payload
  BY <1>1 DEF CallRecords
<1>4. done \in CallRecords /\ done.at = "done"
  BY Values0
<1>5. call' = [d \in Calls |->
                 IF d # c /\ call[d].at = "taken" /\ call[d].e \in S THEN noted(d)
                 ELSE IF d = c THEN IF call[d].at = "sent" THEN [call[d] EXCEPT !.at = "taken"]
                                    ELSE done
                 ELSE call[d]]
  BY DEF Noted
<1> HIDE DEF noted, taken, done
<1>6. ASSUME NEW d \in Calls
      PROVE  \/ d # c /\ call'[d] = noted(d)
             \/ d # c /\ call'[d] = call[d] /\ (call[d].at = "taken" => call[d].e \notin S)
             \/ d = c /\ call'[d] \in {taken, done}
  BY <1>5 DEF taken
<1>7. call' \in [Calls -> CallRecords]
  <2>1. \A d \in Calls : call'[d] \in CallRecords
    BY <1>1, <1>2, <1>3, <1>4, <1>6
  <2>2. call' = [d \in Calls |-> call'[d]]
    BY <1>5
  <2> QED
    BY <2>1, <2>2
<1>8. ASSUME NEW d \in Calls, call'[d].at \in {"sent", "taken", "late"}
      PROVE  call'[d].e \in Radio /\ call'[d].payload \in Settings
  BY <1>1, <1>2, <1>3, <1>4, <1>6, <1>8
<1>9. /\ cause' \in [Selects -> SUBSET Causes]
      /\ \A e \in Selects : asked[e].want # NoValue /\ cause'[e] = {} => e \notin S /\ cause[e] = {}
  BY <1>1 DEF Noted
<1>10. WifiTypes'
  BY <1>7, <1>8, <1>9 DEF WifiInv, WifiTypes
<1>11. TakenStands'
  <2> SUFFICES ASSUME NEW d \in Calls, call'[d].at = "taken", call'[d].why = {}
               PROVE  router'[call'[d].e] = call'[d].payload[call'[d].e]
    BY DEF TakenStands
  <2>1. CASE d # c /\ call'[d] = noted(d)
    BY <1>2, <2>1
  <2>2. CASE d # c /\ call'[d] = call[d] /\ (call[d].at = "taken" => call[d].e \notin S)
    BY <1>1, <2>2 DEF WifiInv, TakenStands
  <2>3. CASE d = c /\ call'[d] \in {taken, done}
    BY <1>3, <1>4, <2>3
  <2> QED
    BY <1>6, <2>1, <2>2, <2>3
<1>12. AskedStands'
  BY <1>9, Values0 DEF WifiInv, AskedStands
<1> QED
  BY <1>10, <1>11, <1>12 DEF WifiInv

LEMMA TakeInv == ASSUME NEW c \in Calls PROVE WifiInv /\ Take(c) => WifiInv'
<1> SUFFICES ASSUME WifiInv, Take(c) PROVE WifiInv'
  OBVIOUS
<1> DEFINE p == call[c].payload
           S == {f \in Radio : p[f] # router[f]} \cup {call[c].e}
<1>1. /\ call[c].at \in {"sent", "late"} /\ call[c].e \in Radio /\ p \in Settings
      /\ overrides \in 0..MaxOverrides
  BY DEF WifiInv, WifiTypes, Take
<1>2. /\ router' = p /\ Noted(S, "own", c)
      /\ UNCHANGED <<data, wifiData, refresh, shown, copy, asked, overrides>>
  BY DEF Take
<1>3. /\ S \in SUBSET Radio /\ \A f \in Radio \ S : router'[f] = router[f]
      /\ "own" \in Causes /\ c \in Calls \cup {NoValue}
  BY <1>1, <1>2 DEF Causes
<1> HIDE DEF p, S
<1> QED
  BY <1>1, <1>2, <1>3, NotedKeeps DEF p

LEMMA OverrideInv ==
  ASSUME NEW f \in Radio, NEW v \in Values PROVE WifiInv /\ Override(f, v) => WifiInv'
<1> SUFFICES ASSUME WifiInv, Override(f, v) PROVE WifiInv'
  OBVIOUS
<1>1. router \in Settings /\ overrides \in 0..MaxOverrides /\ NoValue \notin Calls
  BY NoneIsApart DEF WifiInv, WifiTypes
<1>2. /\ router' = [router EXCEPT ![f] = v] /\ Noted({f}, "router", NoValue)
      /\ UNCHANGED <<data, wifiData, refresh, shown, copy, asked>>
  BY DEF Override
<1>3. router' \in Settings /\ \A g \in Radio \ {f} : router'[g] = router[g]
  BY <1>1, <1>2 DEF Settings
<1>4. overrides' \in 0..MaxOverrides
  BY <1>1, OverridesAreBounded DEF Override
<1>5. {f} \in SUBSET Radio /\ "router" \in Causes
  BY DEF Causes
<1> QED
  BY <1>1, <1>2, <1>3, <1>4, <1>5, NotedKeeps

\* A step of call c that changes nothing the router has: the call becomes r.
CallBecomes(c, r) ==
    /\ call' = [call EXCEPT ![c] = r] /\ r \in CallRecords
    /\ r.at \in {"sent", "taken", "late"} => r.e \in Radio /\ r.payload \in Settings
    /\ r.at # "taken"
    /\ UNCHANGED <<router, wifiData, refresh, overrides>>

LEMMA CallBecomesKeeps ==
  ASSUME WifiInv, NEW c \in Calls, NEW r, CallBecomes(c, r)
  PROVE  /\ TakenStands'
         /\ call' \in [Calls -> CallRecords]
         /\ \A d \in Calls : call'[d].at \in {"sent", "taken", "late"} =>
                call'[d].e \in Radio /\ call'[d].payload \in Settings
<1>1. call \in [Calls -> CallRecords]
  BY DEF WifiInv, WifiTypes
<1>2. call'[c] = r /\ \A d \in Calls : d # c => call'[d] = call[d]
  BY <1>1 DEF CallBecomes
<1>3. TakenStands'
  BY <1>2 DEF WifiInv, TakenStands, CallBecomes
<1> QED
  BY <1>1, <1>2, <1>3 DEF WifiInv, WifiTypes, CallBecomes

LEMMA SendInv ==
  ASSUME NEW c \in Calls, NEW e \in Radio, NEW v \in Values
  PROVE  WifiInv /\ Send(c, e, v) => WifiInv'
<1> SUFFICES ASSUME WifiInv, Send(c, e, v) PROVE WifiInv'
  OBVIOUS
<1> DEFINE r == [e |-> e, payload |-> Payload(e, v), at |-> "sent", why |-> {}]
<1>1. Payload(e, v) \in Settings
  BY DEF WifiInv, WifiTypes, Payload, Settings
<1>2. r \in CallRecords /\ r.e \in Radio /\ r.payload \in Settings /\ r.at = "sent"
  BY <1>1 DEF CallRecords
<1>3. CallBecomes(c, r) /\ UNCHANGED <<data, shown, copy, asked, cause>>
  BY <1>2 DEF Send, CallBecomes
<1> HIDE DEF r
<1>4. WifiTypes'
  BY <1>3, CallBecomesKeeps DEF WifiInv, WifiTypes, CallBecomes
<1>5. AskedStands'
  BY <1>3 DEF WifiInv, AskedStands, CallBecomes
<1> QED
  BY <1>3, <1>4, <1>5, CallBecomesKeeps DEF WifiInv

LEMMA DropInv == ASSUME NEW c \in Calls PROVE WifiInv /\ Drop(c) => WifiInv'
<1> SUFFICES ASSUME WifiInv, Drop(c) PROVE WifiInv'
  OBVIOUS
<1> DEFINE r == [NoCall EXCEPT !.at = "done"]
<1>1. r \in CallRecords /\ r.at = "done"
  BY Values0
<1>2. CallBecomes(c, r) /\ UNCHANGED <<data, shown, copy, asked, cause>>
  BY <1>1 DEF Drop, CallBecomes
<1> HIDE DEF r
<1>3. WifiTypes'
  BY <1>2, CallBecomesKeeps DEF WifiInv, WifiTypes, CallBecomes
<1>4. AskedStands'
  BY <1>2 DEF WifiInv, AskedStands, CallBecomes
<1> QED
  BY <1>2, <1>3, <1>4, CallBecomesKeeps DEF WifiInv

\* The end of a call: the entity shows what it has asked for.
LEMMA RememberKeeps ==
  ASSUME WifiInv, NEW c \in Calls, NEW r, CallBecomes(c, r), NEW e \in Radio, NEW v \in Values,
         NEW why \in SUBSET Causes, Remember(e, v, why), why = {} => router[e] = v,
         copy' \in [Radio -> Settings]
  PROVE  WifiInv'
<1> DEFINE a == [NotAsked EXCEPT !.want = v]
<1>1. /\ a \in Requests /\ a.want = v /\ Unjudged(a)
  <2>1. NotAsked \in Requests /\ Unjudged(NotAsked)
    BY Values0
  <2>2. a \in Requests
    BY <2>1 DEF Requests
  <2>3. a.want = v /\ a.confirmed = FALSE /\ a.misses = 0 /\ a.counted = FALSE
    BY DEF NotAsked
  <2> QED
    BY <2>2, <2>3 DEF Unjudged
<1>2. /\ data \in Settings /\ shown \in Settings /\ asked \in [Selects -> Requests]
      /\ cause \in [Selects -> SUBSET Causes]
  BY DEF WifiInv, WifiTypes
<1>3. /\ data' \in Settings /\ shown' \in Settings /\ data'[e] = v
      /\ \A f \in Radio \ {e} : data'[f] = data[f]
  BY <1>2 DEF Remember, Settings
<1>4. /\ asked' \in [Selects -> Requests] /\ cause' \in [Selects -> SUBSET Causes]
      /\ \A f \in Selects : f # e => asked'[f] = asked[f] /\ cause'[f] = cause[f]
      /\ e \in Selects => asked'[e] = a /\ cause'[e] = why
  <2>1. CASE e \in Selects
    <3>1. asked' = [asked EXCEPT ![e] = a] /\ cause' = [cause EXCEPT ![e] = why]
      BY <2>1 DEF Remember
    <3> HIDE DEF a
    <3> QED
      BY <1>1, <1>2, <2>1, <3>1
  <2>2. CASE e \notin Selects
    BY <1>2, <2>2 DEF Remember
  <2> QED
    BY <2>1, <2>2
<1> HIDE DEF a
<1>5. WifiTypes'
  BY <1>3, <1>4, CallBecomesKeeps DEF WifiInv, WifiTypes, CallBecomes
<1>6. AskedStands'
  <2> SUFFICES ASSUME NEW f \in Selects, asked'[f].want # NoValue, cause'[f] = {}
               PROVE  /\ router'[f] = asked'[f].want
                      /\ refresh'.at = "got" =>
                            refresh'.got[f] = asked'[f].want \/ Unjudged(asked'[f])
                      /\ refresh'.at = "topo" => data'[f] = asked'[f].want \/ Unjudged(asked'[f])
                      /\ refresh'.at = "end" => data'[f] = asked'[f].want \/ JudgedOnce(asked'[f])
    BY DEF AskedStands, Unjudged, JudgedOnce
  <2>1. router' = router /\ refresh' = refresh
    BY DEF CallBecomes
  <2>2. CASE f = e
    BY <1>1, <1>3, <1>4, <2>1, <2>2
  <2>3. CASE f # e
    BY <1>3, <1>4, <2>1, <2>3, Values0 DEF WifiInv, AskedStands
  <2> QED
    BY <2>2, <2>3
<1> QED
  BY <1>5, <1>6, CallBecomesKeeps DEF WifiInv
LEMMA AnswerInv ==
  ASSUME NEW c \in Calls
  PROVE  /\ WifiInv /\ Accepted(c) => WifiInv'
         /\ WifiInv /\ Unanswered(c) => WifiInv'
<1> DEFINE done == [NoCall EXCEPT !.at = "done"]
<1>1. done \in CallRecords /\ done.at = "done"
  BY Values0
<1>2. ASSUME WifiInv, call[c].at \in {"sent", "taken"}
      PROVE  /\ call[c] \in CallRecords /\ call[c].e \in Radio /\ call[c].payload \in Settings
             /\ call[c].payload[call[c].e] \in Values /\ call[c].why \in SUBSET Causes
             /\ copy \in [Radio -> Settings]
  BY <1>2 DEF WifiInv, WifiTypes, CallRecords, Settings
<1>3. ASSUME WifiInv, Accepted(c) PROVE WifiInv'
  <2> DEFINE e == call[c].e
             v == call[c].payload[call[c].e]
             why == call[c].why
  <2>1. call[c].at = "taken" /\ Remember(e, v, why)
    BY <1>3 DEF Accepted
  <2>2. CallBecomes(c, done)
    BY <1>1, <1>3 DEF Accepted, CallBecomes
  <2>3. copy' \in [Radio -> Settings]
    BY <1>2, <1>3, <2>1 DEF Accepted
  <2>4. why = {} => router[e] = v
    BY <1>3, <2>1 DEF WifiInv, TakenStands
  <2>5. e \in Radio /\ v \in Values /\ why \in SUBSET Causes
    BY <1>2, <1>3, <2>1
  <2> HIDE DEF e, v, why, done
  <2> QED
    BY <1>3, <2>1, <2>2, <2>3, <2>4, <2>5, RememberKeeps
<1>4. ASSUME WifiInv, Unanswered(c) PROVE WifiInv'
  <2> DEFINE e == call[c].e
             v == call[c].payload[call[c].e]
             late == [call[c] EXCEPT !.at = "late"]
  <2>1. call[c].at \in {"sent", "taken"} /\ Remember(e, v, {"router"})
    BY <1>4 DEF Unanswered
  <2>2. /\ late \in CallRecords /\ late.at = "late"
        /\ late.e = call[c].e /\ late.payload = call[c].payload
    BY <1>2, <1>4, <2>1 DEF CallRecords
  <2>3. CallBecomes(c, late) \/ CallBecomes(c, done)
    BY <1>1, <1>2, <1>4, <2>1, <2>2 DEF Unanswered, CallBecomes
  <2>4. copy' \in [Radio -> Settings]
    BY <1>2, <1>4, <2>1 DEF Unanswered
  <2>5. e \in Radio /\ v \in Values /\ {"router"} \in SUBSET Causes /\ {"router"} # {}
    BY <1>2, <1>4, <2>1 DEF Causes
  <2> HIDE DEF e, v, late, done
  <2> QED
    BY <1>4, <2>1, <2>3, <2>4, <2>5, RememberKeeps
<1> QED
  BY <1>3, <1>4

-----------------------------------------------------------------------------
(* The refresh. *)

LEMMA BeginInv == WifiInv /\ Begin => WifiInv'
<1> SUFFICES ASSUME WifiInv, Begin PROVE WifiInv'
  OBVIOUS
<1>1. /\ asked \in [Selects -> Requests]
      /\ refresh \in [at: {"idle", "wifi", "topo", "end"}, got: {<<>>}]
  BY DEF WifiInv, WifiTypes, Begin
<1>2. /\ refresh' = [refresh EXCEPT !.at = "wifi"]
      /\ asked' = [e \in Selects |-> [asked[e] EXCEPT !.counted = FALSE]]
      /\ UNCHANGED <<router, data, wifiData, shown, copy, call, overrides, cause>>
  BY DEF Begin
<1>3. refresh' \in [at: {"idle", "wifi", "topo", "end"}, got: {<<>>}] /\ refresh'.at = "wifi"
  BY <1>1, <1>2
<1>4. \A e \in Selects : asked'[e] \in Requests /\ asked'[e].want = asked[e].want
  BY <1>1, <1>2 DEF Requests
<1>5. asked' \in [Selects -> Requests]
  BY <1>2, <1>4
<1>6. WifiTypes'
  BY <1>2, <1>3, <1>5 DEF WifiInv, WifiTypes
<1>7. TakenStands' /\ AskedStands'
  BY <1>2, <1>3, <1>4 DEF WifiInv, TakenStands, AskedStands
<1> QED
  BY <1>6, <1>7 DEF WifiInv

LEMMA PollInv ==
  /\ WifiInv /\ Answer => WifiInv'
  /\ WifiInv /\ PrepareWifi => WifiInv'
  /\ WifiInv /\ WifiFails => WifiInv'
<1>1. ASSUME WifiInv, Answer PROVE WifiInv'
  <2>1. /\ refresh' = [at |-> "got", got |-> router] /\ router \in Settings
        /\ UNCHANGED <<router, data, wifiData, shown, copy, asked, call, overrides, cause>>
    BY <1>1 DEF Answer, WifiInv, WifiTypes
  <2>2. refresh' \in [at: {"got"}, got: Settings] /\ refresh'.at = "got" /\ refresh'.got = router
    BY <2>1
  <2>3. WifiTypes'
    BY <1>1, <2>1, <2>2 DEF WifiInv, WifiTypes
  <2> QED
    BY <1>1, <2>1, <2>2, <2>3 DEF WifiInv, TakenStands, AskedStands
<1>2. ASSUME WifiInv, PrepareWifi PROVE WifiInv'
  <2>1. /\ refresh.at = "got" /\ refresh.got \in Settings
        /\ data' = refresh.got /\ wifiData' = refresh.got
        /\ refresh' = [at |-> "topo", got |-> <<>>]
        /\ UNCHANGED <<router, shown, copy, asked, call, overrides, cause>>
    BY <1>2 DEF PrepareWifi, WifiInv, WifiTypes
  <2>2. refresh' \in [at: {"idle", "wifi", "topo", "end"}, got: {<<>>}] /\ refresh'.at = "topo"
    BY <2>1
  <2>3. WifiTypes'
    BY <1>2, <2>1, <2>2 DEF WifiInv, WifiTypes
  <2> QED
    BY <1>2, <2>1, <2>2, <2>3 DEF WifiInv, TakenStands, AskedStands
<1>3. ASSUME WifiInv, WifiFails PROVE WifiInv'
  <2>1. /\ refresh' = [refresh EXCEPT !.at = "topo"]
        /\ refresh \in [at: {"idle", "wifi", "topo", "end"}, got: {<<>>}]
        /\ UNCHANGED <<router, data, wifiData, shown, copy, asked, call, overrides>>
    BY <1>3 DEF WifiFails, WifiInv, WifiTypes
  <2>2. refresh' \in [at: {"idle", "wifi", "topo", "end"}, got: {<<>>}]
    BY <2>1
  <2>3. /\ cause' \in [Selects -> SUBSET Causes]
        /\ \A e \in Selects : asked[e].want # NoValue => cause'[e] # {}
    BY <1>3 DEF WifiFails, Causes, WifiInv, WifiTypes
  <2>4. WifiTypes'
    BY <1>3, <2>1, <2>2, <2>3 DEF WifiInv, WifiTypes
  <2> QED
    BY <1>3, <2>1, <2>3, <2>4 DEF WifiInv, TakenStands, AskedStands
<1> QED
  BY <1>1, <1>2, <1>3

\* What a select concludes from a value that a refresh publishes.
LEMMA CheckedIs ==
  ASSUME NEW a \in Requests, NEW v \in Values
  PROVE  /\ Checked(a, v) \in Requests /\ Checked(a, v).want = a.want
         /\ a.want # NoValue /\ v # a.want /\ Unjudged(a)
                => JudgedOnce(Checked(a, v)) /\ Checked(a, v).said = a.said
         /\ a.want # NoValue /\ v # a.want /\ JudgedOnce(a) => Checked(a, v).said = a.said
         /\ a.want = v => Checked(a, v).said = NoValue
         /\ a.want = NoValue => Checked(a, v) = a
<1> DEFINE misses == IF a.counted \/ a.misses = 2 THEN a.misses ELSE a.misses + 1
           early == ~a.confirmed /\ misses < 2
           agree == [a EXCEPT !.confirmed = TRUE, !.misses = 0, !.said = NoValue]
           differ == [a EXCEPT !.misses = IF a.confirmed THEN a.misses ELSE misses,
                               !.counted = IF a.confirmed THEN a.counted ELSE TRUE,
                               !.said = IF early THEN a.said ELSE v]
<1>1. a.misses \in 0..2 /\ misses \in 0..2
  BY DEF Requests
<1>2. agree \in Requests /\ agree.want = a.want /\ agree.said = NoValue
  <2>1. 0 \in 0..2 /\ NoValue \in Values \cup {NoValue}
    OBVIOUS
  <2>2. agree \in Requests
    BY <2>1 DEF Requests
  <2>3. agree.want = a.want /\ agree.said = NoValue
    BY DEF Requests
  <2> QED
    BY <2>2, <2>3
<1>3. /\ differ \in Requests /\ differ.want = a.want /\ differ.confirmed = a.confirmed
      /\ differ.misses = (IF a.confirmed THEN a.misses ELSE misses)
      /\ differ.counted = (IF a.confirmed THEN a.counted ELSE TRUE)
      /\ differ.said = (IF early THEN a.said ELSE v)
  BY <1>1 DEF Requests
<1>4. Checked(a, v) = IF a.want = NoValue THEN a ELSE IF v = a.want THEN agree ELSE differ
  BY DEF Checked
<1>5. Unjudged(a) => misses = 1 /\ early
  BY DEF Unjudged
<1>6. JudgedOnce(a) => misses = 1 /\ early
  BY DEF JudgedOnce
<1>7. Unjudged(a) => JudgedOnce(differ) /\ differ.said = a.said
  BY <1>3, <1>5 DEF Unjudged, JudgedOnce
<1>8. JudgedOnce(a) => differ.said = a.said
  BY <1>3, <1>6 DEF JudgedOnce
<1> HIDE DEF misses, early, agree, differ
<1> QED
  BY <1>2, <1>3, <1>4, <1>7, <1>8, Values0
LEMMA PublishInv == WifiInv /\ Publish => WifiInv'
<1> SUFFICES ASSUME WifiInv, Publish PROVE WifiInv'
  OBVIOUS
<1>1. /\ refresh.at \in {"topo", "end"} /\ data \in Settings /\ wifiData \in Settings
      /\ asked \in [Selects -> Requests]
      /\ refresh \in [at: {"idle", "wifi", "topo", "end"}, got: {<<>>}]
  BY DEF WifiInv, WifiTypes, Publish
<1>2. /\ refresh' = [refresh EXCEPT !.at = IF refresh.at = "topo" THEN "end" ELSE "idle"]
      /\ shown' = data /\ copy' = [e \in Radio |-> wifiData]
      /\ asked' = [e \in Selects |-> Checked(asked[e], data[e])]
      /\ UNCHANGED <<router, data, wifiData, call, overrides, cause>>
  BY DEF Publish
<1>3. /\ refresh' \in [at: {"idle", "wifi", "topo", "end"}, got: {<<>>}]
      /\ refresh'.at = IF refresh.at = "topo" THEN "end" ELSE "idle"
  BY <1>1, <1>2
<1>4. \A e \in Selects : asked[e] \in Requests /\ data[e] \in Values
  BY <1>1, Values0 DEF Settings
<1>5. asked' \in [Selects -> Requests]
  BY <1>2, <1>4, CheckedIs
<1>6. WifiTypes'
  BY <1>1, <1>2, <1>3, <1>5 DEF WifiInv, WifiTypes
<1>7. TakenStands'
  BY <1>2 DEF WifiInv, TakenStands
<1>8. AskedStands'
  <2> SUFFICES ASSUME NEW e \in Selects, asked'[e].want # NoValue, cause'[e] = {}
               PROVE  /\ router'[e] = asked'[e].want
                      /\ refresh'.at = "end" => data'[e] = asked'[e].want \/ JudgedOnce(asked'[e])
    BY <1>1, <1>3 DEF AskedStands, JudgedOnce
  <2>1. asked'[e] = Checked(asked[e], data[e]) /\ asked'[e].want = asked[e].want
    BY <1>2, <1>4, CheckedIs
  <2>2. router'[e] = asked'[e].want
    BY <1>2, <2>1 DEF WifiInv, AskedStands
  <2>3. ASSUME refresh.at = "topo", data[e] # asked[e].want PROVE JudgedOnce(asked'[e])
    <3>1. Unjudged(asked[e]) /\ asked[e].want # NoValue
      BY <1>2, <2>1, <2>3 DEF WifiInv, AskedStands
    <3> QED
      BY <1>4, <2>1, <2>3, <3>1, CheckedIs
  <2> QED
    BY <1>2, <1>3, <2>1, <2>2, <2>3
<1> QED
  BY <1>6, <1>7, <1>8 DEF WifiInv

LEMMA WifiStepInv == WifiInv /\ [WifiNext]_wifiVars => WifiInv'
<1> SUFFICES ASSUME WifiInv, [WifiNext]_wifiVars PROVE WifiInv'
  OBVIOUS
<1>1. CASE UNCHANGED wifiVars
  BY <1>1 DEF WifiInv, WifiTypes, TakenStands, AskedStands, wifiVars
<1>2. CASE RefreshStep
  BY <1>2, BeginInv, PollInv, PublishInv DEF RefreshStep
<1>3. ASSUME NEW c \in Calls, CallStep(c) PROVE WifiInv'
  BY <1>3, TakeInv, DropInv, AnswerInv DEF CallStep
<1> QED
  BY <1>1, <1>2, <1>3, SendInv, OverrideInv DEF WifiNext

-----------------------------------------------------------------------------
LEMMA WifiInvariant == WifiSpec => []WifiInv
BY WifiInitInv, WifiStepInv, PTL DEF WifiSpec

\* The router, the entities, the refresh under way and what the selects remember keep
\* their types, however writes and refreshes interleave.
THEOREM WifiTypeCorrect == WifiSpec => []WifiTypeOK
<1>1. WifiInv => WifiTypeOK
  BY WifiTypesAreTypes DEF WifiInv
<1> QED
  BY <1>1, WifiInvariant, PTL

\* A request that ends, with or without an answer, forgets what was said.
LEMMA RememberSaysNothing ==
  ASSUME WifiTypes, NEW f, NEW v, NEW why, Remember(f, v, why), NEW e \in Selects
  PROVE  asked'[e].said \in {NoValue, asked[e].said}
<1>1. asked \in [Selects -> Requests]
  BY DEF WifiTypes
<1>2. CASE f \in Selects
  <2> DEFINE a == [NotAsked EXCEPT !.want = v]
  <2>1. a.said = NoValue
    BY DEF NotAsked
  <2>2. asked' = [asked EXCEPT ![f] = a]
    BY <1>2 DEF Remember
  <2> HIDE DEF a
  <2> QED
    BY <1>1, <2>1, <2>2
<1>3. CASE f \notin Selects
  BY <1>3 DEF Remember
<1> QED
  BY <1>2, <1>3

\* A select warns of a value in place of the one asked for only if there is a cause: the
\* router took another value, another write carried one over, the write had no answer,
\* or a refresh failed.  A refresh that was under way when the write landed is none.
THEOREM WarnedWithReasonHolds == WifiSpec => WarnedWithReason
<1> DEFINE A == \A e \in Selects : Warns(e) => cause[e] # {}
<1>1. ASSUME WifiInv, [WifiNext]_wifiVars PROVE [A]_wifiVars
  <2> SUFFICES ASSUME WifiNext, NEW e \in Selects, cause[e] = {}
               PROVE  asked'[e].said \in {NoValue, asked[e].said}
    BY <1>1 DEF Warns
  <2>0. asked \in [Selects -> Requests] /\ data[e] \in Values /\ WifiTypes
    BY <1>1, Values0 DEF WifiInv, WifiTypes, Settings
  <2>1. CASE UNCHANGED asked
    BY <2>1
  <2>2. ASSUME NEW c \in Calls, Accepted(c) \/ Unanswered(c)
        PROVE  asked'[e].said \in {NoValue, asked[e].said}
    BY <2>0, <2>2, RememberSaysNothing DEF Accepted, Unanswered
  <2>3. CASE Begin
    <3>1. asked'[e] = [asked[e] EXCEPT !.counted = FALSE]
      BY <2>3 DEF Begin
    <3> QED
      BY <2>0, <3>1 DEF Requests
  <2>4. CASE Publish
    <3>1. asked'[e] = Checked(asked[e], data[e]) /\ asked[e] \in Requests
      BY <2>0, <2>4 DEF Publish
    <3>2. \/ asked[e].want = NoValue \/ data[e] = asked[e].want
          \/ Unjudged(asked[e]) \/ JudgedOnce(asked[e])
      BY <1>1, <2>4 DEF WifiInv, AskedStands, Publish
    <3> QED
      BY <2>0, <3>1, <3>2, CheckedIs
  <2>5. \/ UNCHANGED asked \/ Begin \/ Publish
        \/ \E c \in Calls : Accepted(c) \/ Unanswered(c)
    BY DEF WifiNext, RefreshStep, CallStep, Send, Take, Drop, Override, Answer, PrepareWifi,
           WifiFails
  <2> QED
    BY <2>1, <2>2, <2>3, <2>4, <2>5
<1>2. WifiSpec => [][A]_wifiVars
  BY <1>1, WifiInvariant, PTL DEF WifiSpec
<1> QED
  BY <1>2 DEF WarnedWithReason
===============================================================================
