--------------------------- MODULE DhcpEdit_proofs ---------------------------
(***************************************************************************)
(* Proofs about DhcpEdit, for any MACs, addresses, panels and number of    *)
(* interventions.                                                          *)
(***************************************************************************)
EXTENDS DhcpEdit, TLAPS

Busy == {"table", "rest", "post"}

\* What a panel's state is at each point: only a change is sent, and what is
\* verified was checked against what the panel had shown.
OpShape(s) ==
    /\ s.at = "none" <=> s.op \in {"closed", "shown"}
    /\ s.op \in {"check", "verify"} => s.change \in Changes
    /\ s.op = "verify" => s.at # "lock" /\ s.before = s.seen
    /\ s.at = "post" => s.op = "verify"

\* A manager's lock belongs to the panel that is busy with that manager, and a
\* panel holds no other lock.
Locked(T, H) ==
    /\ T \in [Tasks -> TaskStates]
    /\ H \in [Gens -> Tasks \cup {NoTask}]
    /\ \A t \in Tasks : OpShape(T[t])
    /\ \A t \in Tasks, g \in Gens : H[g] = t <=> T[t].gen = g /\ T[t].at \in Busy

Rest ==
    /\ table \in Tables /\ open \in BOOLEAN /\ main \in BOOLEAN
    /\ wire \subseteq [by: Tasks, change: Changes]
    /\ gen \in Gens /\ left \in Nat /\ gen + left <= Interventions
    /\ answer \in [Tasks -> {"none", "done", "refused", "unverified"}]

IInv == Rest /\ Locked(task, holder)

\* A panel that goes on as busy as it was leaves the locks alone.
LEMMA KeepsLock ==
    ASSUME NEW T, NEW H, Locked(T, H), NEW t \in Tasks, NEW s \in TaskStates, OpShape(s),
           s.at \in Busy <=> T[t].at \in Busy,
           s.at \in Busy => s.gen = T[t].gen
    PROVE  Locked([T EXCEPT ![t] = s], H)
BY DEF Locked

\* A panel that gets a free lock is the only one that has it.
LEMMA TakesLock ==
    ASSUME NEW T, NEW H, Locked(T, H), NEW t \in Tasks, NEW s \in TaskStates, OpShape(s),
           T[t].at \notin Busy, s.at \in Busy, H[s.gen] = NoTask
    PROVE  Locked([T EXCEPT ![t] = s], [H EXCEPT ![s.gen] = t])
<1>1. s.gen \in Gens
  BY DEF TaskStates
<1>. QED
  BY <1>1, NoTaskIsNone DEF Locked

\* A panel that is busy no more leaves its lock free.
LEMMA ReleasesLock ==
    ASSUME NEW T, NEW H, Locked(T, H), NEW t \in Tasks, NEW s \in TaskStates, OpShape(s),
           s.at \notin Busy, T[t].at \in Busy \/ H[T[t].gen] = NoTask
    PROVE  Locked([T EXCEPT ![t] = s], [H EXCEPT ![T[t].gen] = NoTask])
<1>1. T[t].gen \in Gens
  BY DEF Locked, TaskStates
<1>. QED
  BY <1>1, NoTaskIsNone DEF Locked

-----------------------------------------------------------------------------
LEMMA NoTableIsTable == NoTable \in Tables
BY NoAddrIsNone DEF NoTable, Tables

LEMMA ClosedTaskShape == ClosedTask \in TaskStates /\ OpShape(ClosedTask) /\ ClosedTask.at = "none"
<1>1. 0 \in Gens
  BY InterventionsNat DEF Gens
<1>. QED
  BY <1>1, NoTableIsTable DEF ClosedTask, TaskStates, OpShape

\* What a panel shows after an operation: what it had shown or what was read.
LEMMA ShownShape ==
    ASSUME NEW t \in Tasks, task[t] \in TaskStates, NEW b \in BOOLEAN
    PROVE  /\ Shown(t) \in TaskStates /\ OpShape(Shown(t)) /\ Shown(t).at = "none"
           /\ LET s == [Shown(t) EXCEPT !.seen = task[t].got, !.seenOpen = b]
              IN  s \in TaskStates /\ OpShape(s) /\ s.at = "none"
<1>1. 0 \in Gens
  BY InterventionsNat DEF Gens
<1>2. NoChange \in Changes \cup {NoChange}
  OBVIOUS
<1>. QED
  BY <1>1, <1>2, NoTableIsTable DEF Shown, TaskStates, OpShape

LEMMA InitInv == Init => IInv
<1>. SUFFICES ASSUME Init PROVE IInv
  OBVIOUS
<1>1. Rest
  BY InterventionsNat DEF Init, Rest, Gens
<1>2. holder \in [Gens -> Tasks \cup {NoTask}] /\ task \in [Tasks -> TaskStates]
  BY ClosedTaskShape DEF Init
<1>3. \A t \in Tasks : OpShape(task[t]) /\ task[t].at \notin Busy
  BY ClosedTaskShape DEF Init, Busy
<1>4. \A t \in Tasks, g \in Gens : holder[g] # t
  BY NoTaskIsNone DEF Init
<1>. QED
  BY <1>1, <1>2, <1>3, <1>4 DEF IInv, Locked

-----------------------------------------------------------------------------
(* The panel. *)

LEMMA ReadInv ==
    ASSUME IInv, NEW t \in Tasks, Read(t)
    PROVE  IInv'
<1> DEFINE s == [ClosedTask EXCEPT !.op = "read", !.at = "lock", !.gen = gen]
<1>1. s \in TaskStates /\ OpShape(s) /\ s.at \notin Busy
  BY ClosedTaskShape DEF IInv, Rest, TaskStates, ClosedTask, OpShape, Busy
<1>2. task[t].at \notin Busy
  BY DEF Read, IInv, Locked, OpShape, Busy
<1>3. Locked([task EXCEPT ![t] = s], holder)
  BY <1>1, <1>2, KeepsLock DEF IInv
<1>. QED
  BY <1>3 DEF Read, IInv, Rest

LEMMA SubmitInv ==
    ASSUME IInv, NEW t \in Tasks, NEW change \in Changes, Submit(t, change)
    PROVE  IInv'
<1> DEFINE s == [task[t] EXCEPT !.op = "check", !.at = "lock", !.gen = gen, !.change = change]
<1>0. task[t] \in TaskStates /\ gen \in Gens /\ task \in [Tasks -> TaskStates]
  BY DEF IInv, Rest, Locked
<1>1. s \in TaskStates /\ OpShape(s) /\ s.at \notin Busy
  BY <1>0 DEF TaskStates, OpShape, Busy
<1>2. task[t].at \notin Busy
  BY DEF Submit, IInv, Locked, OpShape, Busy
<1>3. Locked([task EXCEPT ![t] = s], holder)
  BY <1>1, <1>2, KeepsLock DEF IInv
<1>4. task' = [task EXCEPT ![t] = s]
  BY <1>0 DEF Submit, TaskStates
<1>. QED
  BY <1>3, <1>4 DEF Submit, IInv, Rest

(* The manager. *)

\* Whoever fails gives up the lock, if it had it.
LEMMA FailsKeeps ==
    ASSUME IInv, NEW t \in Tasks, Fails(t),
           task[t].op \in {"read", "check", "verify"},
           task[t].at \in Busy \/ holder[task[t].gen] = NoTask
    PROVE  Locked(task', holder')
           /\ answer' \in [Tasks -> {"none", "done", "refused", "unverified"}]
<1> DEFINE s == IF task[t].op = "read" THEN ClosedTask ELSE Shown(t)
<1>1. s \in TaskStates /\ OpShape(s) /\ s.at \notin Busy
  BY ClosedTaskShape, ShownShape DEF IInv, Locked, Busy
<1>2. Locked([task EXCEPT ![t] = s], [holder EXCEPT ![task[t].gen] = NoTask])
  BY <1>1, ReleasesLock DEF IInv
<1>3. task' = [task EXCEPT ![t] = s]
  BY DEF Fails
<1>4. holder' = [holder EXCEPT ![task[t].gen] = NoTask]
  BY DEF Fails, Release
<1>5. answer' \in [Tasks -> {"none", "done", "refused", "unverified"}]
  BY DEF Fails, IInv, Rest
<1>. QED
  BY <1>2, <1>3, <1>4, <1>5

LEMMA EnterInv ==
    ASSUME IInv, NEW t \in Tasks, Enter(t)
    PROVE  IInv'
<1>0. task[t] \in TaskStates /\ task \in [Tasks -> TaskStates] /\ OpShape(task[t])
  BY DEF IInv, Locked
<1>1. CASE Current(t)
  <2> DEFINE s == [task[t] EXCEPT !.at = "table"]
  <2>1. s \in TaskStates /\ OpShape(s) /\ s.at \in Busy /\ s.gen = task[t].gen
    BY <1>0 DEF TaskStates, OpShape, Busy, Enter
  <2>2. task[t].at \notin Busy
    BY DEF Enter, Busy
  <2>3. Locked([task EXCEPT ![t] = s], [holder EXCEPT ![s.gen] = t])
    BY <2>1, <2>2, TakesLock DEF IInv, Enter
  <2>4. task' = [task EXCEPT ![t] = s] /\ holder' = [holder EXCEPT ![s.gen] = t]
    BY <1>0, <1>1, <2>1 DEF Enter, TaskStates
  <2>. QED
    BY <1>1, <2>3, <2>4 DEF Enter, IInv, Rest
<1>2. CASE ~Current(t)
  <2>1. task[t].op \in {"read", "check", "verify"}
    BY <1>0 DEF Enter, OpShape, TaskStates
  <2>. QED
    BY <1>2, <2>1, FailsKeeps DEF Enter, IInv, Rest
<1>. QED
  BY <1>1, <1>2

LEMMA ReadBindingsInv ==
    ASSUME IInv, NEW t \in Tasks, ReadBindings(t)
    PROVE  IInv'
<1> DEFINE s == [task[t] EXCEPT !.at = "rest", !.got = table]
<1>0. task[t] \in TaskStates /\ task \in [Tasks -> TaskStates] /\ OpShape(task[t]) /\ table \in Tables
  BY DEF IInv, Rest, Locked
<1>1. s \in TaskStates /\ OpShape(s) /\ s.at \in Busy /\ s.gen = task[t].gen
  BY <1>0 DEF TaskStates, OpShape, Busy, ReadBindings
<1>2. task[t].at \in Busy
  BY DEF ReadBindings, Busy
<1>3. Locked([task EXCEPT ![t] = s], holder)
  BY <1>1, <1>2, KeepsLock DEF IInv
<1>4. task' = [task EXCEPT ![t] = s]
  BY <1>0 DEF ReadBindings, TaskStates
<1>. QED
  BY <1>3, <1>4 DEF ReadBindings, IInv, Rest

\* A panel that is busy is in an operation.
LEMMA BusyOperates ==
    ASSUME IInv, NEW t \in Tasks, task[t].at \in Busy
    PROVE  task[t].op \in {"read", "check", "verify"}
BY DEF IInv, Locked, OpShape, TaskStates, Busy

LEMMA ReadFailsInv ==
    ASSUME IInv, NEW t \in Tasks, ReadFails(t)
    PROVE  IInv'
<1>1. task[t].at \in Busy
  BY DEF ReadFails, Busy
<1>. QED
  BY <1>1, BusyOperates, FailsKeeps DEF ReadFails, IInv, Rest

LEMMA ShowSnapshotInv ==
    ASSUME IInv, NEW t \in Tasks, ShowSnapshot(t)
    PROVE  IInv'
<1> DEFINE s == [Shown(t) EXCEPT !.seen = task[t].got, !.seenOpen = open]
<1>1. task[t].at \in Busy
  BY DEF ShowSnapshot, Busy
<1>2. CASE Current(t)
  <2>1. s \in TaskStates /\ OpShape(s) /\ s.at \notin Busy
    BY ShownShape DEF IInv, Rest, Locked, Busy
  <2>2. Locked([task EXCEPT ![t] = s], [holder EXCEPT ![task[t].gen] = NoTask])
    BY <1>1, <2>1, ReleasesLock DEF IInv
  <2>. QED
    BY <1>2, <2>2 DEF ShowSnapshot, Release, IInv, Rest
<1>3. CASE ~Current(t)
  BY <1>1, <1>3, BusyOperates, FailsKeeps DEF ShowSnapshot, IInv, Rest
<1>. QED
  BY <1>2, <1>3

\* What is sent was checked: what the router has is what the panel had shown.
LEMMA PostInv ==
    ASSUME IInv, NEW t \in Tasks, Post(t)
    PROVE  IInv'
<1>0. task[t] \in TaskStates /\ task \in [Tasks -> TaskStates] /\ OpShape(task[t])
  BY DEF IInv, Locked
<1>1. task[t].at \in Busy
  BY DEF Post, Busy
<1>2. CASE Accepts(t)
  <2> DEFINE s == [task[t] EXCEPT !.op = "verify", !.at = "post", !.before = task[t].got,
                                  !.got = NoTable]
  <2>1. s \in TaskStates /\ OpShape(s) /\ s.at \in Busy /\ s.gen = task[t].gen
    BY <1>0, <1>2, NoTableIsTable DEF TaskStates, OpShape, Busy, Post, Accepts
  <2>2. Locked([task EXCEPT ![t] = s], holder)
    BY <1>1, <2>1, KeepsLock DEF IInv
  <2>3. task' = [task EXCEPT ![t] = s]
    BY <1>0, <1>2 DEF Post, TaskStates
  <2>4. task[t].change \in Changes
    BY <1>0 DEF Post, OpShape
  <2>5. wire' \subseteq [by: Tasks, change: Changes]
    BY <1>2, <2>4 DEF Post, IInv, Rest
  <2>. QED
    BY <1>2, <2>2, <2>3, <2>5 DEF Post, IInv, Rest
<1>3. CASE ~Accepts(t)
  BY <1>1, <1>3, BusyOperates, FailsKeeps DEF Post, IInv, Rest
<1>. QED
  BY <1>2, <1>3

LEMMA PostReturnsInv ==
    ASSUME IInv, NEW t \in Tasks, PostReturns(t)
    PROVE  IInv'
<1>0. task[t] \in TaskStates /\ task \in [Tasks -> TaskStates] /\ OpShape(task[t])
  BY DEF IInv, Locked
<1>1. task[t].at \in Busy
  BY DEF PostReturns, Busy
<1>2. CASE Current(t)
  <2> DEFINE s == [task[t] EXCEPT !.at = "table"]
  <2>1. s \in TaskStates /\ OpShape(s) /\ s.at \in Busy /\ s.gen = task[t].gen
    BY <1>0 DEF TaskStates, OpShape, Busy, PostReturns
  <2>2. Locked([task EXCEPT ![t] = s], holder)
    BY <1>1, <2>1, KeepsLock DEF IInv
  <2>3. task' = [task EXCEPT ![t] = s]
    BY <1>0, <1>2 DEF PostReturns, TaskStates
  <2>. QED
    BY <1>2, <2>2, <2>3 DEF PostReturns, IInv, Rest
<1>3. CASE ~Current(t)
  BY <1>1, <1>3, BusyOperates, FailsKeeps DEF PostReturns, IInv, Rest
<1>. QED
  BY <1>2, <1>3

LEMMA PostFailsInv ==
    ASSUME IInv, NEW t \in Tasks, PostFails(t)
    PROVE  IInv'
<1>1. task[t].at \in Busy
  BY DEF PostFails, Busy
<1>. QED
  BY <1>1, BusyOperates, FailsKeeps DEF PostFails, IInv, Rest

LEMMA VerifyInv ==
    ASSUME IInv, NEW t \in Tasks, Verify(t)
    PROVE  IInv'
<1> DEFINE s == [Shown(t) EXCEPT !.seen = task[t].got, !.seenOpen = open]
<1>1. task[t].at \in Busy
  BY DEF Verify, Busy
<1>2. CASE Current(t) /\ Verified(t)
  <2>1. s \in TaskStates /\ OpShape(s) /\ s.at \notin Busy
    BY ShownShape DEF IInv, Rest, Locked, Busy
  <2>2. Locked([task EXCEPT ![t] = s], [holder EXCEPT ![task[t].gen] = NoTask])
    BY <1>1, <2>1, ReleasesLock DEF IInv
  <2>3. answer' \in [Tasks -> {"none", "done", "refused", "unverified"}]
    BY <1>2 DEF Verify, IInv, Rest
  <2>. QED
    BY <1>2, <2>2, <2>3 DEF Verify, Release, IInv, Rest
<1>3. CASE ~(Current(t) /\ Verified(t))
  BY <1>1, <1>3, BusyOperates, FailsKeeps DEF Verify, IInv, Rest
<1>. QED
  BY <1>2, <1>3

(* The router, its other administrators, and the entry. *)

LEMMA OutsideInv ==
    ASSUME IInv,
           \/ \E r \in wire : Arrives(r) \/ Lost(r)
           \/ ForeignChange \/ RoleChanges \/ Reload
    PROVE  IInv'
<1>0. Locked(task', holder')
  BY DEF IInv, Arrives, Lost, ForeignChange, RoleChanges, Reload
<1>1. CASE \E r \in wire : Arrives(r) \/ Lost(r)
  BY <1>0, <1>1 DEF IInv, Rest, Arrives, Lost
<1>2. CASE ForeignChange
  <2>1. table' \in Tables /\ open' \in BOOLEAN
    BY <1>2 DEF ForeignChange, IInv, Rest
  <2>2. left' \in Nat /\ gen + left' <= Interventions
    BY <1>2, InterventionsNat DEF ForeignChange, IInv, Rest, Gens
  <2>. QED
    BY <1>0, <1>2, <2>1, <2>2 DEF ForeignChange, IInv, Rest
<1>3. CASE RoleChanges
  <2>1. left' \in Nat /\ gen + left' <= Interventions
    BY <1>3, InterventionsNat DEF RoleChanges, IInv, Rest, Gens
  <2>. QED
    BY <1>0, <1>3, <2>1 DEF RoleChanges, IInv, Rest
<1>4. CASE Reload
  <2>1. gen' \in Gens /\ left' \in Nat /\ gen' + left' <= Interventions
    BY <1>4, InterventionsNat DEF Reload, IInv, Rest, Gens
  <2>. QED
    BY <1>0, <1>4, <2>1 DEF Reload, IInv, Rest
<1>. QED
  BY <1>1, <1>2, <1>3, <1>4

-----------------------------------------------------------------------------
LEMMA StepInv == IInv /\ [Next]_vars => IInv'
<1>. SUFFICES ASSUME IInv, [Next]_vars PROVE IInv'
  OBVIOUS
<1>1. ASSUME NEW t \in Tasks, Read(t) \/ Step(t) \/ ReadFails(t) \/ PostFails(t)
      PROVE  IInv'
  BY <1>1, ReadInv, EnterInv, ReadBindingsInv, ShowSnapshotInv, PostInv, PostReturnsInv,
     VerifyInv, ReadFailsInv, PostFailsInv DEF Step
<1>2. ASSUME NEW t \in Tasks, NEW c \in Changes, Submit(t, c) PROVE IInv'
  BY <1>2, SubmitInv
<1>3. CASE UNCHANGED vars
  BY <1>3 DEF vars, IInv, Rest, Locked
<1>. QED
  BY <1>1, <1>2, <1>3, OutsideInv DEF Next

LEMMA InvTypes == IInv => TypeOK
<1>. SUFFICES ASSUME IInv PROVE TypeOK
  OBVIOUS
<1>1. left \in 0..Interventions
  BY InterventionsNat DEF IInv, Rest, Gens
<1>2. \A t \in Tasks : task[t].gen \in Gens
  BY DEF IInv, Locked, TaskStates
<1>. QED
  BY <1>1, <1>2 DEF IInv, Rest, Locked, TypeOK, Busy

\* The state keeps its type, and exactly the panel that reads, sends or waits for
\* the router holds the lock of its manager (dhcp.py:133, 143), for any number of
\* panels and of reloads.
THEOREM TypeCorrect == Spec => []TypeOK
<1>1. Init => IInv
  BY InitInv
<1>2. IInv /\ [Next]_vars => IInv'
  BY StepInv
<1>3. IInv => TypeOK
  BY InvTypes
<1>. QED
  BY <1>1, <1>2, <1>3, PTL DEF Spec

-----------------------------------------------------------------------------
DoneStep(t) ==
    answer[t] # "done" /\ answer'[t] = "done" => task[t].got = Edited(task[t].seen, task[t].change)

VerifyEnds(t) ==
    task[t].op = "verify" /\ task'[t].op # "verify" => answer'[t] \in {"done", "unverified"}

\* An operation that fails is never reported as done, and one whose request may
\* be on its way is reported as unverified.
LEMMA FailsAnswers ==
    ASSUME IInv, NEW t \in Tasks, Fails(t), NEW u \in Tasks,
           task[t].op \in {"read", "check", "verify"}
    PROVE  DoneStep(u) /\ VerifyEnds(u)
<1>0. answer \in [Tasks -> {"none", "done", "refused", "unverified"}]
      /\ task \in [Tasks -> TaskStates]
  BY DEF IInv, Rest, Locked
<1>1. CASE task[t].op = "read"
  <2>1. answer' = answer
    BY <1>1 DEF Fails
  <2>. QED
    BY <1>0, <1>1, <2>1 DEF Fails, DoneStep, VerifyEnds
<1>2. CASE task[t].op = "check"
  <2>1. answer' = [answer EXCEPT ![t] = "refused"]
    BY <1>2 DEF Fails
  <2>. QED
    BY <1>0, <1>2, <2>1 DEF Fails, DoneStep, VerifyEnds
<1>3. CASE task[t].op = "verify"
  <2>1. answer' = [answer EXCEPT ![t] = "unverified"]
    BY <1>3 DEF Fails
  <2>. QED
    BY <1>0, <1>3, <2>1 DEF Fails, DoneStep, VerifyEnds
<1>. QED
  BY <1>1, <1>2, <1>3

\* Only a verified change is reported as done, and only that or a failure ends
\* the operation once the request is sent.
LEMMA AnswersStep ==
    ASSUME IInv, [Next]_vars, NEW u \in Tasks
    PROVE  DoneStep(u) /\ VerifyEnds(u)
<1>0. answer \in [Tasks -> {"none", "done", "refused", "unverified"}]
      /\ task \in [Tasks -> TaskStates] /\ \A t \in Tasks : OpShape(task[t])
  BY DEF IInv, Rest, Locked
<1>1. ASSUME NEW t \in Tasks, Read(t) PROVE DoneStep(u) /\ VerifyEnds(u)
  BY <1>0, <1>1 DEF Read, DoneStep, VerifyEnds
<1>2. ASSUME NEW t \in Tasks, NEW c \in Changes, Submit(t, c)
      PROVE  DoneStep(u) /\ VerifyEnds(u)
  BY <1>0, <1>2 DEF Submit, DoneStep, VerifyEnds
<1>3. ASSUME NEW t \in Tasks, Enter(t) PROVE DoneStep(u) /\ VerifyEnds(u)
  <2>1. task[t].op \in {"read", "check", "verify"}
    BY <1>0, <1>3 DEF Enter, OpShape, TaskStates
  <2>2. CASE Current(t)
    BY <1>0, <1>3, <2>2 DEF Enter, DoneStep, VerifyEnds, TaskStates
  <2>. QED
    BY <1>3, <2>1, <2>2, FailsAnswers DEF Enter
<1>4. ASSUME NEW t \in Tasks, ReadBindings(t) PROVE DoneStep(u) /\ VerifyEnds(u)
  BY <1>0, <1>4 DEF ReadBindings, DoneStep, VerifyEnds, TaskStates
<1>5. ASSUME NEW t \in Tasks, ReadFails(t) \/ PostFails(t)
      PROVE  DoneStep(u) /\ VerifyEnds(u)
  BY <1>5, BusyOperates, FailsAnswers DEF ReadFails, PostFails, Busy
<1>6. ASSUME NEW t \in Tasks, ShowSnapshot(t) PROVE DoneStep(u) /\ VerifyEnds(u)
  <2>1. CASE Current(t)
    BY <1>0, <1>6, <2>1 DEF ShowSnapshot, DoneStep, VerifyEnds
  <2>. QED
    BY <1>6, <2>1, BusyOperates, FailsAnswers DEF ShowSnapshot, Busy
<1>7. ASSUME NEW t \in Tasks, Post(t) PROVE DoneStep(u) /\ VerifyEnds(u)
  <2>1. CASE Accepts(t)
    BY <1>0, <1>7, <2>1 DEF Post, DoneStep, VerifyEnds, TaskStates
  <2>. QED
    BY <1>7, <2>1, BusyOperates, FailsAnswers DEF Post, Busy
<1>8. ASSUME NEW t \in Tasks, PostReturns(t) PROVE DoneStep(u) /\ VerifyEnds(u)
  <2>1. CASE Current(t)
    BY <1>0, <1>8, <2>1 DEF PostReturns, DoneStep, VerifyEnds, TaskStates
  <2>. QED
    BY <1>8, <2>1, BusyOperates, FailsAnswers DEF PostReturns, Busy
<1>9. ASSUME NEW t \in Tasks, Verify(t) PROVE DoneStep(u) /\ VerifyEnds(u)
  <2>1. CASE Current(t) /\ Verified(t)
    <3>1. task[t].got = Edited(task[t].seen, task[t].change)
      BY <1>0, <1>9, <2>1 DEF Verify, Verified, OpShape
    <3>2. answer' = [answer EXCEPT ![t] = "done"] /\ \A v \in Tasks \ {t} : task'[v] = task[v]
      BY <1>0, <1>9, <2>1 DEF Verify
    <3>. QED
      BY <1>0, <3>1, <3>2 DEF DoneStep, VerifyEnds
  <2>. QED
    BY <1>9, <2>1, BusyOperates, FailsAnswers DEF Verify, Busy
<1>10. ASSUME UNCHANGED <<task, answer>> PROVE DoneStep(u) /\ VerifyEnds(u)
  BY <1>10 DEF DoneStep, VerifyEnds
<1>11. ASSUME \/ \E r \in wire : Arrives(r) \/ Lost(r)
              \/ ForeignChange \/ RoleChanges \/ Reload \/ UNCHANGED vars
       PROVE  UNCHANGED <<task, answer>>
  BY <1>11 DEF Arrives, Lost, ForeignChange, RoleChanges, Reload, vars
<1>. QED
  BY <1>1, <1>2, <1>3, <1>4, <1>5, <1>6, <1>7, <1>8, <1>9, <1>10, <1>11 DEF Next, Step

\* A change that is reported as done is the only difference between what the
\* panel had shown and what was read back (dhcp.py:145, 172), whatever other
\* panels, other administrators and late requests do.
THEOREM DoneCorrect == Spec => DoneIsWhatWasShown
<1>1. Init => IInv
  BY InitInv
<1>2. IInv /\ [Next]_vars => IInv'
  BY StepInv
<1>3. IInv /\ [Next]_vars
      => [\A t \in Tasks :
            answer[t] # "done" /\ answer'[t] = "done"
                => task[t].got = Edited(task[t].seen, task[t].change)]_vars
  BY AnswersStep DEF DoneStep
<1>. QED
  BY <1>1, <1>2, <1>3, PTL DEF Spec, DoneIsWhatWasShown

\* A change whose request may have reached the router is never reported as
\* refused (dhcp.py:175), however its request, its readback or a reload ends it.
THEOREM RefusedCorrect == Spec => RefusedWasNotSent
<1>1. Init => IInv
  BY InitInv
<1>2. IInv /\ [Next]_vars => IInv'
  BY StepInv
<1>3. IInv /\ [Next]_vars
      => [\A t \in Tasks :
            task[t].op = "verify" /\ task'[t].op # "verify"
                => answer'[t] \in {"done", "unverified"}]_vars
  BY AnswersStep DEF VerifyEnds
<1>. QED
  BY <1>1, <1>2, <1>3, PTL DEF Spec, RefusedWasNotSent
=============================================================================
