------------------------- MODULE MacReplacement_proofs -------------------------
(***************************************************************************)
(* Proofs about MacReplacement, for any nodes, MACs, names and any finite  *)
(* set of clients.                                                         *)
(*                                                                         *)
(* What the groups learn from a list is a function of the rows, computed   *)
(* one after the other against one group after the other.  The inductions  *)
(* over both go by sets: Upward says that a set of numbers with 0 and with *)
(* the successors of its members holds all of them.                        *)
(***************************************************************************)
EXTENDS MacReplacement, FiniteSetTheorems, TLAPS

Tasks == [at: {"idle", "mark", "remove"}, macs: SUBSET Macs, found: SUBSET Macs]

\* A node that retires nothing has no entities to remove, so one that begins to
\* retire gives up none that it had found.
RetiringShape ==
    /\ task \in [Nodes -> Tasks]
    /\ \A n \in Nodes : task[n].at = "idle" => task[n].found = {}

IInv == RetiringShape /\ RetiredIsGone

LEMMA IdleIsTask == Idle \in Tasks /\ Idle.at = "idle" /\ Idle.found = {}
BY DEF Idle, Tasks

LEMMA InitInv == Init => IInv
BY IdleIsTask DEF Init, IInv, RetiringShape, RetiredIsGone

\* The rows of a list come before its judgement: whoever is still suppressed gets no row.
LEMMA CensusKeeps ==
  ASSUME IInv, NEW n \in Nodes, NEW c, Census(n, c), NEW r \in Tasks,
         task' = [task EXCEPT ![n] = r], r.at = "idle" => r.found = {}
  PROVE  IInv'
<1>1. /\ task[n].at = "idle" /\ task[n].found = {} /\ task \in [Nodes -> Tasks]
      /\ blocked' = blocked \ c.on
      /\ shown' = shown \cup (c.listed \ blocked')
      /\ cut' = cut \ c.on /\ late' = late \ c.on
  BY DEF Census, IInv, RetiringShape
<1>2. RetiringShape'
  BY <1>1 DEF IInv, RetiringShape
<1>3. \A i \in Nodes : task[i].found \subseteq task'[i].found
  BY <1>1
<1>4. RetiredIsGone'
  <2> SUFFICES ASSUME NEW m \in blocked' \cap shown', m \notin cut' \cup late'
               PROVE  \E i \in Nodes : m \in task'[i].found
    BY DEF RetiredIsGone
  <2>1. m \in blocked \cap shown /\ m \notin cut \cup late
    BY <1>1
  <2>2. PICK i \in Nodes : m \in task[i].found
    BY <2>1 DEF IInv, RetiredIsGone
  <2> QED
    BY <1>3, <2>2
<1> QED
  BY <1>2, <1>4 DEF IInv

LEMMA ListInv ==
  ASSUME NEW n \in Nodes, NEW c
  PROVE  /\ IInv /\ List(n, c) => IInv'
         /\ IInv /\ ListWithoutRules(n, c) => IInv'
<1>1. ASSUME IInv, List(n, c) PROVE IInv'
  <2> DEFINE new == c.learned
             rep == [reports EXCEPT ![n] = [fresh |-> TRUE, active |-> new.active,
                                            unknown |-> new.unknown]]
             macs == Candidates(n, rep, new.groups)
             r == IF macs = {} THEN Idle
                  ELSE [at |-> "mark", macs |-> macs, found |-> macs \cap shown']
  <2>1. macs \subseteq Macs
    BY DEF Candidates
  <2>2. task' = [task EXCEPT ![n] = r]
    BY <1>1 DEF List, Judge
  <2> HIDE DEF macs
  <2>3. r \in Tasks /\ (r.at = "idle" => r.found = {})
    <3>1. CASE macs = {}
      BY <3>1, IdleIsTask
    <3>2. CASE macs # {}
      BY <2>1, <3>2 DEF Tasks
    <3> QED
      BY <3>1, <3>2
  <2> HIDE DEF r
  <2> QED
    BY <1>1, <2>2, <2>3, CensusKeeps DEF List
<1>2. ASSUME IInv, ListWithoutRules(n, c) PROVE IInv'
  <2>1. task[n] \in Tasks /\ (task[n].at = "idle" => task[n].found = {})
    BY <1>2 DEF IInv, RetiringShape
  <2>2. task' = [task EXCEPT ![n] = task[n]]
    BY <1>2 DEF ListWithoutRules, IInv, RetiringShape
  <2> QED
    BY <1>2, <2>1, <2>2, CensusKeeps DEF ListWithoutRules
<1> QED
  BY <1>1, <1>2

LEMMA RetireInv == ASSUME NEW n \in Nodes PROVE IInv /\ Retire(n) => IInv'
<1>1. ASSUME IInv, Mark(n) PROVE IInv'
  <2> DEFINE r == [task[n] EXCEPT !.at = "remove"]
  <2>1. task \in [Nodes -> Tasks] /\ task[n] \in Tasks
    BY <1>1 DEF IInv, RetiringShape
  <2>2. r \in Tasks /\ r.at = "remove" /\ r.found = task[n].found
    BY <2>1 DEF Tasks
  <2>3. /\ task' = [task EXCEPT ![n] = r] /\ blocked' = blocked \cup task[n].macs
        /\ late' = late \cup (shown \cap (task[n].macs \ task[n].found))
        /\ UNCHANGED <<shown, cut>>
    BY <1>1, <2>1 DEF Mark
  <2> HIDE DEF r
  <2>4. RetiringShape'
    BY <1>1, <2>1, <2>2, <2>3 DEF IInv, RetiringShape
  <2>5. \A i \in Nodes : task'[i].found = task[i].found
    BY <2>1, <2>2, <2>3
  <2>6. RetiredIsGone'
    BY <1>1, <2>3, <2>5 DEF IInv, RetiredIsGone
  <2> QED
    BY <2>4, <2>6 DEF IInv
<1>2. ASSUME IInv, Forget(n) PROVE IInv'
  <2>1. /\ task \in [Nodes -> Tasks] /\ task' = [task EXCEPT ![n] = Idle]
        /\ shown' = shown \ task[n].found /\ UNCHANGED <<blocked, cut, late>>
    BY <1>2 DEF IInv, RetiringShape, Forget
  <2>2. RetiringShape'
    BY <1>2, <2>1, IdleIsTask DEF IInv, RetiringShape
  <2>3. RetiredIsGone'
    <3> SUFFICES ASSUME NEW m \in blocked' \cap shown', m \notin cut' \cup late'
                 PROVE  \E i \in Nodes : m \in task'[i].found
      BY DEF RetiredIsGone
    <3>1. PICK i \in Nodes : m \in task[i].found
      BY <1>2, <2>1 DEF IInv, RetiredIsGone
    <3>2. i # n
      BY <2>1, <3>1
    <3> QED
      BY <2>1, <3>1, <3>2
  <2> QED
    BY <2>2, <2>3 DEF IInv
<1> QED
  BY <1>1, <1>2 DEF Retire

LEMMA RestartInv == IInv /\ Restart => IInv'
BY IdleIsTask DEF Restart, IInv, RetiringShape, RetiredIsGone

LEMMA StepInv == IInv /\ [Next]_vars => IInv'
<1> SUFFICES ASSUME IInv, [Next]_vars PROVE IInv'
  OBVIOUS
<1>1. CASE UNCHANGED <<task, blocked, shown, cut, late>>
  BY <1>1 DEF IInv, RetiringShape, RetiredIsGone
<1>2. CASE UNCHANGED vars
  BY <1>1, <1>2 DEF vars
<1>3. ASSUME NEW rules, NEW known, Configure(rules, known) PROVE IInv'
  BY <1>1, <1>3 DEF Configure
<1>4. ASSUME NEW n \in Nodes, Age(n) PROVE IInv'
  BY <1>1, <1>4 DEF Age
<1> QED
  BY <1>2, <1>3, <1>4, ListInv, RetireInv, RestartInv DEF Next

-----------------------------------------------------------------------------
(* Recursive functions over 0..N. *)

\* What holds of 0 and goes from each number to the next holds up to N: the set
\* form of induction, from the least of the numbers it fails for.
LEMMA Upward ==
  ASSUME NEW N \in Nat, NEW T, 0 \in T, \A i \in 1..N : i - 1 \in T => i \in T
  PROVE  \A i \in 0..N : i \in T
<1> DEFINE Bad == {i \in 0..N : i \notin T}
           Below == {0..i : i \in Bad}
<1> SUFFICES ASSUME Bad # {} PROVE FALSE
  OBVIOUS
<1>1. Below \subseteq FiniteSubsetsOf(Nat) /\ Below # {}
  <2>1. \A i \in Bad : 0..i \in SUBSET Nat /\ IsFiniteSet(0..i)
    BY FS_Interval
  <2> QED
    BY <2>1 DEF FiniteSubsetsOf
<1>2. PICK s \in Below : \A t \in Below : <<t, s>> \notin StrictSubsetOrdering(Nat)
  <2> HIDE DEF Below
  <2> QED
    BY <1>1, WFMin, FS_StrictSubsetOrderingWellFounded
<1>3. PICK i \in Bad : s = 0..i
  OBVIOUS
<1>4. i # 0 /\ i - 1 \in Bad
  OBVIOUS
<1>5. 0..(i-1) \in Below
  BY <1>4
<1>6. 0..(i-1) \subseteq 0..i /\ 0..(i-1) # 0..i /\ 0..i \in SUBSET Nat /\ 0..(i-1) \in SUBSET Nat
  OBVIOUS
<1>7. <<0..(i-1), s>> \in StrictSubsetOrdering(Nat)
  BY <1>3, <1>6 DEF StrictSubsetOrdering
<1> QED
  BY <1>2, <1>5, <1>7

\* A recursive function whose steps stay in S exists.
Steps(N, S) == [1..N -> [S -> S]]
Runs(f, N, a, step) == f[0] = a /\ \A i \in 1..N : f[i] = step[i][f[i - 1]]

LEMMA IterationExists ==
  ASSUME NEW N \in Nat, NEW S, NEW a \in S, NEW step \in Steps(N, S)
  PROVE  \E f \in [0..N -> S] : Runs(f, N, a, step)
<1> USE DEF Steps, Runs
<1> DEFINE Good == {k \in 0..N : \E f \in [0..k -> S] :
                       f[0] = a /\ \A i \in 1..k : f[i] = step[i][f[i - 1]]}
<1>1. 0 \in Good
  <2> DEFINE f == [j \in 0..0 |-> a]
  <2>1. f \in [0..0 -> S] /\ f[0] = a /\ 1..0 = {}
    OBVIOUS
  <2> HIDE DEF f
  <2> QED
    BY <2>1
<1>2. ASSUME NEW k \in 1..N, k - 1 \in Good PROVE k \in Good
  <2>1. PICK f \in [0..(k - 1) -> S] :
           f[0] = a /\ \A i \in 1..(k - 1) : f[i] = step[i][f[i - 1]]
    BY <1>2
  <2> DEFINE g == [j \in 0..k |-> IF j = k THEN step[k][f[k - 1]] ELSE f[j]]
  <2>2. step[k][f[k - 1]] \in S
    OBVIOUS
  <2>3. g \in [0..k -> S]
    BY <2>2
  <2>4. g[0] = a /\ \A i \in 1..k : g[i] = step[i][g[i - 1]]
    BY <2>1
  <2> HIDE DEF g
  <2> QED
    BY <2>3, <2>4
<1>3. N \in Good
  <2> HIDE DEF Good
  <2>1. \A k \in 1..N : k - 1 \in Good => k \in Good
    BY <1>2
  <2>2. \A k \in 0..N : k \in Good
    BY <1>1, <2>1, Upward
  <2> QED
    BY <2>2
<1> QED
  BY <1>3

-----------------------------------------------------------------------------
(* What the groups learn. *)

\* Groups and the MACs of a report; no name is in two of the groups.
Accs ==
    {a \in [groups: [DOMAIN groups -> Group], active: SUBSET Macs, unknown: SUBSET Macs] :
        \A j, k \in DOMAIN groups : j # k => a.groups[j].names \cap a.groups[k].names = {}}

\* From a to b nothing is taken out of the report, and only row r has joined groups.
Grows(a, b, r) ==
    /\ a.active \subseteq b.active /\ a.unknown \subseteq b.unknown
    /\ \A k \in DOMAIN groups : b.groups[k].macs \subseteq a.groups[k].macs \cup {r.mac}

\* Row r is in the report if it is online and in group k.
Seen(a, r, k) ==
    r.flag = "on" /\ r.mac \in a.groups[k].macs => r.mac \in a.active \cup a.unknown

LEMMA KeyOrderLists ==
  /\ Len(KeyOrder) \in Nat
  /\ KeyOrder \in [1..Len(KeyOrder) -> Keys]
  /\ \A k \in Keys : \E i \in 1..Len(KeyOrder) : KeyOrder[i] = k
<1> DEFINE n == Cardinality(Keys)
<1>1. n \in Nat /\ ExistsBijection(1..n, Keys)
  BY KeysAreFinite, FS_CardinalityType
<1>2. \E f \in [1..n -> Keys] : IsInjective(f)
  BY <1>1 DEF ExistsBijection, Bijection, Injection
<1>3. KeyOrder \in [1..n -> Keys] /\ IsInjective(KeyOrder)
  BY <1>2 DEF KeyOrder, SetToSeq
<1>4. Cardinality(1..n) = n
  BY <1>1, FS_Interval
<1>5. KeyOrder \in Surjection(1..n, Keys)
  BY <1>3, <1>4, KeysAreFinite, FS_Injection DEF Injection
<1>6. Len(KeyOrder) = n
  <2> HIDE DEF n
  <2> QED
    BY <1>1, <1>3
<1> QED
  BY <1>1, <1>3, <1>5, <1>6 DEF Surjection

\* One row against one group.
LEMMA MatchedKeeps ==
  ASSUME NEW a \in Accs, NEW r \in Rows, NEW k \in DOMAIN groups,
         NEW b, b = Matched(a, r, k)
  PROVE  /\ b \in Accs /\ Grows(a, b, r) /\ Seen(b, r, k)
         /\ \A j \in DOMAIN groups : j # k => b.groups[j] = a.groups[j]
<1> DEFINE g == a.groups[k]
           renamed == r.mac \in g.macs /\ r.name \notin g.names \cup {NoName}
           taken == \E j \in DOMAIN a.groups \ {k} : r.name \in a.groups[j].names
           h == [names |-> IF renamed /\ r.flag = "on" THEN g.names \cup {r.name} ELSE g.names,
                 macs |-> g.macs \cup {r.mac}]
<1>1. /\ a.groups \in [DOMAIN groups -> Group]
      /\ a.active \subseteq Macs /\ a.unknown \subseteq Macs
      /\ \A i, j \in DOMAIN groups : i # j => a.groups[i].names \cap a.groups[j].names = {}
      /\ g \in Group /\ g.names \subseteq Names /\ g.macs \subseteq Macs
      /\ r.mac \in Macs /\ r.name \in Names \cup {NoName}
  BY DEF Accs, Rows, Group
<1>2. CASE r.name \notin g.names /\ r.mac \notin g.macs
  <2>1. b = a
    BY <1>2 DEF Matched
  <2> QED
    BY <1>2, <2>1 DEF Grows, Seen
<1>3. CASE ~(r.name \notin g.names /\ r.mac \notin g.macs) /\ renamed /\ taken
  <2>1. b = [a EXCEPT !.unknown = a.unknown \cup g.macs]
    BY <1>3 DEF Matched
  <2>2. b \in Accs /\ b.groups = a.groups /\ b.active = a.active /\ b.unknown = a.unknown \cup g.macs
    BY <1>1, <2>1 DEF Accs
  <2> QED
    BY <1>1, <1>3, <2>2 DEF Grows, Seen
<1>4. CASE ~(r.name \notin g.names /\ r.mac \notin g.macs) /\ ~(renamed /\ taken)
  <2>1. b = [groups |-> [a.groups EXCEPT ![k] = h],
             active |-> a.active \cup (IF r.flag = "on" THEN {r.mac} ELSE {}),
             unknown |-> a.unknown \cup (IF r.flag = "?" THEN {r.mac} ELSE {})]
    BY <1>4 DEF Matched
  <2>2. /\ h \in Group /\ h.macs = g.macs \cup {r.mac}
        /\ \A x \in h.names : x \in g.names \/ (x = r.name /\ renamed)
    BY <1>1 DEF Group
  <2> HIDE DEF h
  <2>3. /\ b.groups \in [DOMAIN groups -> Group]
        /\ b.groups[k] = h
        /\ \A j \in DOMAIN groups : j # k => b.groups[j] = a.groups[j]
    BY <1>1, <2>1, <2>2
  <2>4. /\ b.active = a.active \cup (IF r.flag = "on" THEN {r.mac} ELSE {})
        /\ b.unknown = a.unknown \cup (IF r.flag = "?" THEN {r.mac} ELSE {})
    BY <2>1
  <2>5. \A j \in DOMAIN groups : j # k => h.names \cap a.groups[j].names = {}
    BY <1>1, <1>4, <2>2
  <2>6. \A i, j \in DOMAIN groups : i # j => b.groups[i].names \cap b.groups[j].names = {}
    BY <1>1, <2>3, <2>5
  <2>7. b \in Accs
    <3>1. b \in [groups: [DOMAIN groups -> Group], active: SUBSET Macs, unknown: SUBSET Macs]
      BY <1>1, <2>1, <2>3, <2>4
    <3> QED
      BY <2>6, <3>1 DEF Accs
  <2>8. Grows(a, b, r)
    BY <2>2, <2>3, <2>4 DEF Grows
  <2>9. Seen(b, r, k)
    BY <2>4 DEF Seen
  <2> QED
    BY <2>3, <2>7, <2>8, <2>9
<1> QED
  BY <1>2, <1>3, <1>4

\* A row against all groups.
LEMMA MatchedAllKeeps ==
  ASSUME NEW a \in Accs, NEW r \in Rows, DOMAIN groups \subseteq Keys
  PROVE  /\ MatchedAll(a, r) \in Accs /\ Grows(a, MatchedAll(a, r), r)
         /\ \A k \in DOMAIN groups : Seen(MatchedAll(a, r), r, k)
<1> DEFINE N == Len(KeyOrder)
           F == CHOOSE upTo : upTo = [i \in 0..Len(KeyOrder) |->
                   IF i = 0 THEN a
                   ELSE IF KeyOrder[i] \in DOMAIN groups THEN Matched(upTo[i - 1], r, KeyOrder[i])
                   ELSE upTo[i - 1]]
<1>1. MatchedAll(a, r) = F[N]
  BY DEF MatchedAll
<1> HIDE DEF F
<1>a. N \in Nat /\ \A i \in 1..N : KeyOrder[i] \in Keys
  BY KeyOrderLists
<1>2. F = [i \in 0..N |-> IF i = 0 THEN a
                          ELSE IF KeyOrder[i] \in DOMAIN groups
                          THEN Matched(F[i - 1], r, KeyOrder[i])
                          ELSE F[i - 1]]
  <2> DEFINE step == [i \in 1..N |-> [b \in Accs |->
                        IF KeyOrder[i] \in DOMAIN groups THEN Matched(b, r, KeyOrder[i]) ELSE b]]
  <2>1. step \in [1..N -> [Accs -> Accs]]
    BY MatchedKeeps
  <2>2. \A i \in 1..N, b \in Accs :
           step[i][b] = IF KeyOrder[i] \in DOMAIN groups THEN Matched(b, r, KeyOrder[i]) ELSE b
    OBVIOUS
  <2> HIDE DEF step
  <2>3. PICK f \in [0..N -> Accs] : f[0] = a /\ \A i \in 1..N : f[i] = step[i][f[i - 1]]
    <3>1. step \in Steps(N, Accs)
      BY <2>1 DEF Steps
    <3>2. \E f \in [0..N -> Accs] : Runs(f, N, a, step)
      BY <1>a, <3>1, IterationExists
    <3> QED
      BY <3>2 DEF Runs
  <2>4. \A i \in 1..N : f[i] = IF KeyOrder[i] \in DOMAIN groups
                               THEN Matched(f[i - 1], r, KeyOrder[i]) ELSE f[i - 1]
    <3> SUFFICES ASSUME NEW i \in 1..N
                 PROVE  f[i] = IF KeyOrder[i] \in DOMAIN groups
                               THEN Matched(f[i - 1], r, KeyOrder[i]) ELSE f[i - 1]
      OBVIOUS
    <3>1. i - 1 \in 0..N
      BY <1>a
    <3>2. f[i - 1] \in Accs
      BY <3>1
    <3> QED
      BY <2>2, <2>3, <3>2
  <2>5. f = [i \in 0..N |-> IF i = 0 THEN a
                            ELSE IF KeyOrder[i] \in DOMAIN groups
                            THEN Matched(f[i - 1], r, KeyOrder[i])
                            ELSE f[i - 1]]
    BY <1>a, <2>3, <2>4
  <2> QED
    BY <2>5 DEF F
<1>3. F[0] = a
  BY <1>a, <1>2
<1>4. \A i \in 1..N : F[i] = IF KeyOrder[i] \in DOMAIN groups
                             THEN Matched(F[i - 1], r, KeyOrder[i]) ELSE F[i - 1]
  <2> SUFFICES ASSUME NEW i \in 1..N
               PROVE  F[i] = IF KeyOrder[i] \in DOMAIN groups
                             THEN Matched(F[i - 1], r, KeyOrder[i]) ELSE F[i - 1]
    OBVIOUS
  <2>1. i \in 0..N /\ i # 0
    BY <1>a
  <2> QED
    BY <1>2, <2>1
\* After i groups each of them has been asked about the row.
<1> DEFINE Good == {i \in 0..N : /\ F[i] \in Accs /\ Grows(a, F[i], r)
                                 /\ \A j \in 1..i : KeyOrder[j] \in DOMAIN groups
                                                       => Seen(F[i], r, KeyOrder[j])}
<1>5. 0 \in Good
  BY <1>a, <1>3 DEF Grows
<1>6. ASSUME NEW i \in 1..N, i - 1 \in Good PROVE i \in Good
  <2>1. /\ F[i - 1] \in Accs /\ Grows(a, F[i - 1], r)
        /\ \A j \in 1..(i - 1) : KeyOrder[j] \in DOMAIN groups => Seen(F[i - 1], r, KeyOrder[j])
    BY <1>6
  <2> HIDE DEF Good
  <2>2. i \in 0..N /\ \A j \in 1..i : j = i \/ j \in 1..(i - 1)
    BY <1>a
  <2>3. CASE KeyOrder[i] \in DOMAIN groups
    <3> DEFINE k == KeyOrder[i]
    <3>1. F[i] = Matched(F[i - 1], r, k)
      BY <1>4, <2>3
    <3>2. /\ F[i] \in Accs /\ Grows(F[i - 1], F[i], r) /\ Seen(F[i], r, k)
          /\ \A j \in DOMAIN groups : j # k => F[i].groups[j] = F[i - 1].groups[j]
      BY <2>1, <2>3, <3>1, MatchedKeeps
    <3>3. Grows(a, F[i], r)
      BY <2>1, <3>2 DEF Grows
    <3>4. ASSUME NEW j \in 1..i, KeyOrder[j] \in DOMAIN groups PROVE Seen(F[i], r, KeyOrder[j])
      <4>1. CASE KeyOrder[j] = k
        BY <3>2, <4>1
      <4>2. CASE KeyOrder[j] # k
        BY <2>1, <2>2, <3>2, <3>4, <4>2 DEF Seen, Grows
      <4> QED
        BY <4>1, <4>2
    <3> QED
      BY <2>2, <3>2, <3>3, <3>4 DEF Good
  <2>4. CASE KeyOrder[i] \notin DOMAIN groups
    <3>1. F[i] = F[i - 1]
      BY <1>4, <2>4
    <3> QED
      BY <2>1, <2>2, <2>4, <3>1 DEF Good
  <2> QED
    BY <2>3, <2>4
<1>7. N \in Good
  <2> HIDE DEF Good
  <2>1. \A i \in 1..N : i - 1 \in Good => i \in Good
    BY <1>6
  <2>2. \A i \in 0..N : i \in Good
    BY <1>a, <1>5, <2>1, Upward
  <2> QED
    BY <1>a, <2>2
<1>8. F[N] \in Accs /\ Grows(a, F[N], r) /\ \A k \in DOMAIN groups : Seen(F[N], r, k)
  BY <1>7, KeyOrderLists
<1> QED
  BY <1>1, <1>8

\* The rows in their order.
LEMMA LearnedKeeps ==
  ASSUME NEW R \in Lists, DOMAIN groups \subseteq Keys,
         [groups |-> groups, active |-> {}, unknown |-> {}] \in Accs
  PROVE  /\ Learned(R) \in Accs
         /\ \A k \in DOMAIN groups : \A m \in On(R) :
               m \in Learned(R).groups[k].macs => m \in Learned(R).active \cup Learned(R).unknown
<1> DEFINE N == Len(R)
           a == [groups |-> groups, active |-> {}, unknown |-> {}]
           F == CHOOSE upTo : upTo = [i \in 0..Len(R) |->
                   IF i = 0 THEN [groups |-> groups, active |-> {}, unknown |-> {}]
                   ELSE MatchedAll(upTo[i - 1], R[i])]
<1>1. Learned(R) = F[N]
  BY DEF Learned
<1> HIDE DEF F
<1>a. /\ N \in Nat /\ R \in [1..N -> Rows] /\ DOMAIN R = 1..N
      /\ \A i, j \in 1..N : R[i].mac = R[j].mac => i = j
  <2>1. PICK m \in 0..Cardinality(Macs) : R \in [1..m -> Rows]
    BY DEF Lists, SeqOf
  <2>2. m \in Nat
    OBVIOUS
  <2>3. N = m
    BY <2>1, <2>2
  <2> QED
    BY <2>1, <2>2, <2>3 DEF Lists
<1> HIDE DEF N
<1>b. a \in Accs
  OBVIOUS
<1>2. F = [i \in 0..N |-> IF i = 0 THEN a ELSE MatchedAll(F[i - 1], R[i])]
  <2> DEFINE step == [i \in 1..N |-> [b \in Accs |-> MatchedAll(b, R[i])]]
  <2>1. step \in [1..N -> [Accs -> Accs]]
    BY <1>a, MatchedAllKeeps
  <2>2. \A i \in 1..N, b \in Accs : step[i][b] = MatchedAll(b, R[i])
    OBVIOUS
  <2> HIDE DEF step
  <2>3. PICK f \in [0..N -> Accs] : f[0] = a /\ \A i \in 1..N : f[i] = step[i][f[i - 1]]
    <3>1. step \in Steps(N, Accs)
      BY <2>1 DEF Steps
    <3>2. \E f \in [0..N -> Accs] : Runs(f, N, a, step)
      BY <1>a, <1>b, <3>1, IterationExists
    <3> QED
      BY <3>2 DEF Runs
  <2>4. ASSUME NEW i \in 1..N PROVE f[i] = MatchedAll(f[i - 1], R[i])
    <3>1. f[i - 1] \in Accs
      BY <1>a
    <3> QED
      BY <2>2, <2>3, <3>1
  <2>5. f = [i \in 0..N |-> IF i = 0 THEN a ELSE MatchedAll(f[i - 1], R[i])]
    BY <1>a, <2>3, <2>4
  <2> QED
    BY <2>5 DEF F, N
<1>3. F[0] = a
  BY <1>a, <1>2
<1>4. ASSUME NEW i \in 1..N PROVE F[i] = MatchedAll(F[i - 1], R[i])
  <2>1. i \in 0..N /\ i # 0
    BY <1>a
  <2> QED
    BY <1>2, <2>1
\* After i rows each of them that is online and in a group is in the report.
<1> DEFINE Good == {i \in 0..N : F[i] \in Accs /\ \A j \in 1..i, k \in DOMAIN groups : Seen(F[i], R[j], k)}
<1>5. 0 \in Good
  BY <1>a, <1>3
<1>6. ASSUME NEW i \in 1..N, i - 1 \in Good PROVE i \in Good
  <2>1. /\ F[i - 1] \in Accs
        /\ \A j \in 1..(i - 1), k \in DOMAIN groups : Seen(F[i - 1], R[j], k)
    BY <1>6
  <2> HIDE DEF Good
  <2>2. /\ i \in 0..N /\ R[i] \in Rows
        /\ \A j \in 1..i : j = i \/ (j \in 1..(i - 1) /\ R[j].mac # R[i].mac)
    BY <1>a
  <2>3. /\ F[i] \in Accs /\ Grows(F[i - 1], F[i], R[i])
        /\ \A k \in DOMAIN groups : Seen(F[i], R[i], k)
    BY <1>4, <2>1, <2>2, MatchedAllKeeps
  <2>4. ASSUME NEW j \in 1..i, NEW k \in DOMAIN groups PROVE Seen(F[i], R[j], k)
    <3>1. CASE j = i
      BY <2>3, <3>1
    <3>2. CASE j \in 1..(i - 1) /\ R[j].mac # R[i].mac
      <4>1. Seen(F[i - 1], R[j], k)
        BY <2>1, <3>2
      <4> QED
        BY <2>3, <3>2, <4>1 DEF Seen, Grows
    <3> QED
      BY <2>2, <3>1, <3>2
  <2> QED
    BY <2>2, <2>3, <2>4 DEF Good
<1>7. N \in Good
  <2> HIDE DEF Good
  <2>1. \A i \in 1..N : i - 1 \in Good => i \in Good
    BY <1>6
  <2>2. \A i \in 0..N : i \in Good
    BY <1>a, <1>5, <2>1, Upward
  <2> QED
    BY <1>a, <2>2
<1>8. F[N] \in Accs /\ \A j \in 1..N, k \in DOMAIN groups : Seen(F[N], R[j], k)
  BY <1>7
<1>9. \A m \in On(R) : \E j \in 1..N : R[j].flag = "on" /\ R[j].mac = m
  BY <1>a DEF On
<1> QED
  BY <1>1, <1>8, <1>9 DEF Seen

-----------------------------------------------------------------------------
(* Types, and what the reports say. *)

\* A MAC of a group that a node's last list shows online is in the node's report, unless
\* it has joined the group since.
ReportCovers ==
    \A i \in Nodes, k \in DOMAIN groups :
        groups[k].macs \cap (online[i] \ behind[i]) \subseteq reports[i].active \cup reports[i].unknown

KnownInv == TypeOK /\ ReportCovers

GroupTypes ==
    /\ DOMAIN groups \subseteq Keys
    /\ groups \in [DOMAIN groups -> Group]
    /\ \A j, k \in DOMAIN groups : j # k => groups[j].names \cap groups[k].names = {}
    /\ disk = groups

ReportTypes ==
    /\ reports \in [Nodes -> [fresh: BOOLEAN, active: SUBSET Macs, unknown: SUBSET Macs]]
    /\ online \in [Nodes -> SUBSET Macs] /\ behind \in [Nodes -> SUBSET Macs]

TaskTypes ==
    /\ task \in [Nodes -> Tasks]
    /\ blocked \subseteq Macs /\ shown \subseteq Macs
    /\ cut \subseteq Macs /\ late \subseteq Macs
    /\ configs \in 0..MaxConfigs

LEMMA TypeParts == TypeOK <=> GroupTypes /\ ReportTypes /\ TaskTypes
BY DEF TypeOK, GroupTypes, ReportTypes, TaskTypes, Tasks

LEMMA TypePartsNext == (GroupTypes /\ ReportTypes /\ TaskTypes)' => TypeOK'
BY DEF TypeOK, GroupTypes, ReportTypes, TaskTypes, Tasks

LEMMA NoReportIs ==
  NoReport \in [fresh: BOOLEAN, active: SUBSET Macs, unknown: SUBSET Macs]
BY DEF NoReport

LEMMA KnownInit == Init => KnownInv
<1> SUFFICES ASSUME Init PROVE KnownInv
  OBVIOUS
<1>1. DOMAIN groups = {} /\ GroupTypes
  BY DEF Init, NoGroups, GroupTypes
<1>2. ReportTypes
  BY NoReportIs DEF Init, ReportTypes
<1>3. TaskTypes
  BY IdleIsTask, BoundIsNat DEF Init, TaskTypes
<1>4. ReportCovers
  BY <1>1 DEF ReportCovers
<1> QED
  BY <1>1, <1>2, <1>3, <1>4, TypeParts DEF KnownInv

\* Reports that go take what they stand for along.
LEMMA NoReportsKeeps ==
  ASSUME ReportTypes, NEW S \in SUBSET Nodes, NoReports(S)
  PROVE  /\ ReportTypes'
         /\ \A i \in Nodes : i \in S => online'[i] = {}
         /\ \A i \in Nodes : i \notin S => UNCHANGED <<reports[i], online[i], behind[i]>>
BY NoReportIs DEF ReportTypes, NoReports

LEMMA ConfigureStep ==
  ASSUME KnownInv, NEW rules \in Rules, NEW known \in [DOMAIN rules -> SUBSET Macs],
         Configure(rules, known)
  PROVE  KnownInv'
<1>a. GroupTypes /\ ReportTypes /\ TaskTypes
  BY TypeParts DEF KnownInv
<1>1. /\ DOMAIN rules \subseteq Keys
      /\ \A k \in DOMAIN rules : rules[k] \subseteq Names
      /\ \A j, k \in DOMAIN rules : j # k => rules[j] \cap rules[k] = {}
  BY DEF Rules
<1>2. /\ groups' = [k \in DOMAIN rules |->
                      [names |-> rules[k],
                       macs |-> known[k] \cup (IF k \in DOMAIN groups THEN groups[k].macs ELSE {})]]
      /\ disk' = groups'
  BY DEF Configure
<1>3. \A k \in DOMAIN rules :
         [names |-> rules[k],
          macs |-> known[k] \cup (IF k \in DOMAIN groups THEN groups[k].macs ELSE {})] \in Group
  BY <1>a, <1>1 DEF GroupTypes, Group
<1>4. GroupTypes'
  BY <1>1, <1>2, <1>3 DEF GroupTypes
<1>5. ReportTypes' /\ \A i \in Nodes : online'[i] = {}
  BY <1>a, NoReportsKeeps DEF Configure
<1>6. TaskTypes'
  BY <1>a, BoundIsNat DEF Configure, TaskTypes
<1>7. ReportCovers'
  BY <1>5 DEF ReportCovers
<1> QED
  BY <1>4, <1>5, <1>6, <1>7, TypePartsNext DEF KnownInv

\* What a list says: every MAC it shows online that is in a group after it is in the report.
LEMMA ContentsAre ==
  ASSUME GroupTypes, NEW c \in Contents
  PROVE  /\ c.on \subseteq Macs /\ c.listed \subseteq Macs
         /\ c.learned \in Accs
         /\ \A k \in DOMAIN groups :
               c.learned.groups[k].macs \cap c.on \subseteq c.learned.active \cup c.learned.unknown
<1>1. PICK R \in Lists : c = [on |-> On(R), listed |-> Listed(R), learned |-> Learned(R)]
  BY DEF Contents
<1>2. \A i \in DOMAIN R : R[i].mac \in Macs
  BY DEF Lists, SeqOf, Rows
<1>3. [groups |-> groups, active |-> {}, unknown |-> {}] \in Accs
  <2>1. groups \in [DOMAIN groups -> Group]
    BY DEF GroupTypes
  <2> QED
    BY <2>1 DEF Accs, GroupTypes
<1>4. /\ c.learned = Learned(R) /\ c.on = On(R) /\ c.listed = Listed(R)
  BY <1>1
<1>5. On(R) \subseteq Macs /\ Listed(R) \subseteq Macs
  BY <1>2 DEF On, Listed
<1>6. /\ Learned(R) \in Accs
      /\ \A k \in DOMAIN groups : \A m \in On(R) :
            m \in Learned(R).groups[k].macs => m \in Learned(R).active \cup Learned(R).unknown
  BY <1>3, LearnedKeeps DEF GroupTypes
<1> QED
  BY <1>4, <1>5, <1>6

\* A list and its judgement, for the nodes that did and did not list.
LEMMA ListIs ==
  ASSUME KnownInv, NEW n \in Nodes, NEW c \in Contents, List(n, c)
  PROVE  /\ groups' = c.learned.groups
         /\ groups' \in [DOMAIN groups -> Group]
         /\ reports' = [reports EXCEPT ![n] = [fresh |-> TRUE, active |-> c.learned.active,
                                               unknown |-> c.learned.unknown]]
         /\ ReportTypes' /\ ReportCovers'
<1>a. GroupTypes /\ ReportTypes
  BY TypeParts DEF KnownInv
<1>b. /\ c.on \subseteq Macs /\ c.learned \in Accs
      /\ \A k \in DOMAIN groups :
            c.learned.groups[k].macs \cap c.on \subseteq c.learned.active \cup c.learned.unknown
  BY <1>a, ContentsAre
<1> DEFINE new == c.learned
           rep == [fresh |-> TRUE, active |-> new.active, unknown |-> new.unknown]
<1>1. /\ groups' = new.groups
      /\ reports' = [reports EXCEPT ![n] = rep]
      /\ online' = [online EXCEPT ![n] = c.on]
      /\ behind' = [i \in Nodes |->
                      IF i = n THEN {} ELSE behind[i] \cup (Joined(groups') \cap online[i])]
  BY DEF List, Judge
<1>2. /\ new.groups \in [DOMAIN groups -> Group]
      /\ rep \in [fresh: BOOLEAN, active: SUBSET Macs, unknown: SUBSET Macs]
      /\ rep.active = new.active /\ rep.unknown = new.unknown
  BY <1>b DEF Accs
<1> HIDE DEF new, rep
<1>3. ReportTypes'
  BY <1>a, <1>b, <1>1, <1>2 DEF ReportTypes
<1>4. /\ reports'[n] = rep /\ online'[n] = c.on
      /\ \A i \in Nodes : i # n =>
            /\ reports'[i] = reports[i] /\ online'[i] = online[i]
            /\ behind'[i] = behind[i] \cup (Joined(groups') \cap online[i])
  BY <1>a, <1>1 DEF ReportTypes
<1>5. DOMAIN groups' = DOMAIN groups
  BY <1>1, <1>2
<1>6. ReportCovers'
  <2> SUFFICES ASSUME NEW i \in Nodes, NEW k \in DOMAIN groups,
                      NEW m \in groups'[k].macs, m \in online'[i], m \notin behind'[i]
               PROVE  m \in reports'[i].active \cup reports'[i].unknown
    BY <1>5 DEF ReportCovers
  <2>1. CASE i = n
    <3>1. m \in new.active \cup new.unknown
      BY <1>b, <1>1, <1>4, <2>1 DEF new
    <3> QED
      BY <1>2, <1>4, <2>1, <3>1
  <2>2. CASE i # n /\ m \in groups[k].macs
    BY <1>4, <2>2 DEF KnownInv, ReportCovers
  <2>3. CASE i # n /\ m \notin groups[k].macs
    <3>1. m \in Joined(groups')
      BY <1>5, <2>3 DEF Joined
    <3> QED
      BY <1>4, <2>3, <3>1
  <2> QED
    BY <2>1, <2>2, <2>3
<1> QED
  BY <1>1, <1>2, <1>3, <1>6 DEF new, rep

LEMMA ListStep ==
  ASSUME KnownInv, NEW n \in Nodes, NEW c \in Contents, List(n, c)
  PROVE  KnownInv'
<1>a. GroupTypes /\ ReportTypes /\ TaskTypes
  BY TypeParts DEF KnownInv
<1>b. c.on \subseteq Macs /\ c.listed \subseteq Macs /\ c.learned \in Accs
  BY <1>a, ContentsAre
<1>1. groups' = c.learned.groups /\ groups' \in [DOMAIN groups -> Group] /\ ReportTypes' /\ ReportCovers'
  BY ListIs
<1>2. disk' = groups'
  BY <1>a, <1>1 DEF List, Judge, GroupTypes
<1>3. GroupTypes'
  BY <1>a, <1>b, <1>1, <1>2 DEF GroupTypes, Accs
<1>4. \E r \in Tasks : task' = [task EXCEPT ![n] = r]
  <2> DEFINE rep == [reports EXCEPT ![n] = [fresh |-> TRUE, active |-> c.learned.active,
                                            unknown |-> c.learned.unknown]]
             macs == Candidates(n, rep, c.learned.groups)
             r == IF macs = {} THEN Idle
                  ELSE [at |-> "mark", macs |-> macs, found |-> macs \cap shown']
  <2>1. macs \subseteq Macs
    BY DEF Candidates
  <2>2. task' = [task EXCEPT ![n] = r]
    BY DEF List, Judge
  <2> HIDE DEF macs
  <2>3. r \in Tasks
    BY <2>1, IdleIsTask DEF Tasks
  <2> QED
    BY <2>2, <2>3
<1>5. TaskTypes'
  BY <1>a, <1>b, <1>4 DEF List, Census, TaskTypes
<1> QED
  BY <1>1, <1>3, <1>5, TypePartsNext DEF KnownInv

LEMMA KnownStep == KnownInv /\ [Next]_vars => KnownInv'
<1> SUFFICES ASSUME KnownInv, [Next]_vars PROVE KnownInv'
  OBVIOUS
<1>a. GroupTypes /\ ReportTypes /\ TaskTypes
  BY TypeParts DEF KnownInv
\* Steps of a retirement, and lists that nothing is learned from, leave groups and
\* reports alone.
<1>1. ASSUME UNCHANGED <<groups, disk, reports, online, behind>>, TaskTypes' PROVE KnownInv'
  <2>1. GroupTypes' /\ ReportTypes'
    BY <1>a, <1>1 DEF GroupTypes, ReportTypes
  <2>2. ReportCovers'
    BY <1>1 DEF KnownInv, ReportCovers
  <2> QED
    BY <1>1, <2>1, <2>2, TypePartsNext DEF KnownInv
<1>2. CASE UNCHANGED vars
  BY <1>a, <1>1, <1>2 DEF vars, TaskTypes
<1>3. ASSUME NEW rules \in Rules, NEW known \in [DOMAIN rules -> SUBSET Macs], Configure(rules, known)
      PROVE  KnownInv'
  BY <1>3, ConfigureStep
<1>4. ASSUME NEW n \in Nodes, NEW c \in Contents, List(n, c) PROVE KnownInv'
  BY <1>4, ListStep
<1>5. ASSUME NEW n \in Nodes, NEW c \in Contents, ListWithoutRules(n, c) PROVE KnownInv'
  <2>1. c.on \subseteq Macs /\ c.listed \subseteq Macs
    BY <1>a, ContentsAre
  <2>2. TaskTypes'
    BY <1>a, <1>5, <2>1 DEF ListWithoutRules, Census, TaskTypes
  <2> QED
    BY <1>1, <1>5, <2>2 DEF ListWithoutRules
<1>6. ASSUME NEW n \in Nodes, Mark(n) PROVE KnownInv'
  <2> DEFINE r == [task[n] EXCEPT !.at = "remove"]
  <2>1. task[n] \in Tasks /\ r \in Tasks /\ task[n].macs \subseteq Macs
    BY <1>a DEF TaskTypes, Tasks
  <2>2. task' = [task EXCEPT ![n] = r]
    BY <1>6 DEF Mark
  <2> HIDE DEF r
  <2>3. TaskTypes'
    BY <1>a, <1>6, <2>1, <2>2 DEF Mark, TaskTypes
  <2> QED
    BY <1>1, <1>6, <2>3 DEF Mark
<1>7. ASSUME NEW n \in Nodes, Forget(n) PROVE KnownInv'
  <2>1. TaskTypes'
    BY <1>a, <1>7, IdleIsTask DEF Forget, TaskTypes
  <2> QED
    BY <1>1, <1>7, <2>1 DEF Forget
<1>8. ASSUME NEW n \in Nodes, Age(n) PROVE KnownInv'
  <2>1. /\ ReportTypes' /\ online'[n] = {}
        /\ \A i \in Nodes : i # n => UNCHANGED <<reports[i], online[i], behind[i]>>
    BY <1>a, <1>8, NoReportsKeeps DEF Age
  <2>2. GroupTypes' /\ TaskTypes'
    BY <1>a, <1>8 DEF Age, GroupTypes, TaskTypes
  <2>3. ReportCovers'
    <3> SUFFICES ASSUME NEW i \in Nodes, NEW k \in DOMAIN groups,
                        NEW m \in groups[k].macs, m \in online'[i], m \notin behind'[i]
                 PROVE  m \in reports'[i].active \cup reports'[i].unknown
      BY <1>8 DEF Age, ReportCovers
    <3>1. i # n
      BY <2>1
    <3> QED
      BY <2>1, <3>1 DEF KnownInv, ReportCovers
  <2> QED
    BY <2>1, <2>2, <2>3, TypePartsNext DEF KnownInv
<1>9. CASE Restart
  <2>1. ReportTypes' /\ \A i \in Nodes : online'[i] = {}
    BY <1>a, <1>9, NoReportsKeeps DEF Restart
  <2>2. GroupTypes' /\ TaskTypes'
    BY <1>a, <1>9, IdleIsTask DEF Restart, GroupTypes, TaskTypes
  <2>3. ReportCovers'
    BY <2>1 DEF ReportCovers
  <2> QED
    BY <2>1, <2>2, <2>3, TypePartsNext DEF KnownInv
<1> QED
  BY <1>2, <1>3, <1>4, <1>5, <1>6, <1>7, <1>8, <1>9 DEF Next, Retire

\* Only the judgement after a list decides to retire, and what it takes is in a group
\* and in nobody's report.
LEMMA RetiredIsUnreported ==
  ASSUME KnownInv, [Next]_vars, NEW n \in Nodes, NEW m, Retires(n, m)
  PROVE  /\ \E k \in DOMAIN groups' : m \in groups'[k].macs
         /\ \A i \in Nodes : m \notin reports'[i].active \cup reports'[i].unknown
<1>a. task \in [Nodes -> Tasks]
  BY TypeParts DEF KnownInv, TaskTypes
<1>1. task[n].at = "idle" /\ task'[n].at = "mark" /\ m \in task'[n].macs
  BY DEF Retires
<1>2. ASSUME NEW i \in Nodes, NEW c \in Contents, List(i, c)
      PROVE  /\ \E k \in DOMAIN groups' : m \in groups'[k].macs
             /\ \A j \in Nodes : m \notin reports'[j].active \cup reports'[j].unknown
  <2> DEFINE macs == Candidates(i, reports', groups')
             r == IF macs = {} THEN Idle
                  ELSE [at |-> "mark", macs |-> macs, found |-> macs \cap shown']
  <2>1. task' = [task EXCEPT ![i] = r]
    BY <1>2 DEF List, Judge
  <2>2. i = n /\ task'[n] = r
    BY <1>a, <1>1, <2>1
  <2>3. m \in macs
    BY <1>1, <2>2 DEF Idle
  <2> QED
    BY <2>3 DEF Candidates
<1>3. CASE UNCHANGED task
  BY <1>1, <1>3
<1>4. ASSUME NEW i \in Nodes, Mark(i) PROVE FALSE
  BY <1>a, <1>1, <1>4 DEF Mark, Tasks
<1>5. ASSUME NEW i \in Nodes, Forget(i) PROVE FALSE
  BY <1>a, <1>1, <1>5, IdleIsTask DEF Forget
<1>6. CASE Restart
  BY <1>1, <1>6, IdleIsTask DEF Restart
<1> QED
  BY <1>2, <1>3, <1>4, <1>5, <1>6
  DEF Next, vars, Configure, ListWithoutRules, Retire, Age

-----------------------------------------------------------------------------
\* No two clients ever have a name in common, whatever names and MACs any sequence of
\* lists makes the groups learn, and a restart reads back what was known.
THEOREM TypeCorrect == Spec => []TypeOK
<1>1. KnownInv => TypeOK
  BY DEF KnownInv
<1> QED
  BY <1>1, KnownInit, KnownStep, PTL DEF Spec

\* A MAC that the last list of any node shows online is not retired, in whatever order
\* the rows, the groups and the nodes come, but for one that a later list joined to the
\* group.
THEOREM KnownOnlineMacRemainsHolds == Spec => KnownOnlineMacRemains
<1>1. KnownInv /\ KnownInv' /\ [Next]_vars =>
         [\A n \in Nodes, m \in Macs :
            Retires(n, m) => \A i \in Nodes : m \notin online'[i] \ behind'[i]]_vars
  <2> SUFFICES ASSUME KnownInv, KnownInv', [Next]_vars, NEW n \in Nodes, NEW m \in Macs,
                      Retires(n, m), NEW i \in Nodes
               PROVE  m \notin online'[i] \ behind'[i]
    OBVIOUS
  <2>1. PICK k \in DOMAIN groups' : m \in groups'[k].macs
    BY RetiredIsUnreported
  <2>2. m \notin reports'[i].active \cup reports'[i].unknown
    BY RetiredIsUnreported
  <2> QED
    BY <2>1, <2>2 DEF KnownInv, ReportCovers
<1> QED
  BY <1>1, KnownInit, KnownStep, PTL DEF Spec, KnownOnlineMacRemains

\* A suppressed MAC has no entities but for those that a retirement has found and has
\* yet to remove, that came while a retirement waited to mark it, or that were left when
\* Home Assistant stopped: no node's list, however it falls between the collection, the
\* mark and the removal, brings any back.
THEOREM RetiredIsGoneHolds == Spec => []RetiredIsGone
<1>1. IInv => RetiredIsGone
  BY DEF IInv
<1> QED
  BY <1>1, InitInv, StepInv, PTL DEF Spec
=============================================================================
