------------------------ MODULE PurgedClients_proofs ------------------------
(***************************************************************************)
(* Proofs about PurgedClients, for every set of clients and of coroutines. *)
(***************************************************************************)
EXTENDS PurgedClients, TLAPS

\* What holds while a call is between the lock and its return.
CallShape ==
    \A t \in Tasks :
        /\ task[t].at = "load" => ~loaded
        /\ task[t].at \in {"save", "written"} => loaded
        /\ task[t].at = "written" => disk = Updated(task[t], mem)
        /\ task[t].at \in {"save", "written"} /\ task[t].op = "ask"
              => owed \cap task[t].macs = {}

IInv ==
    /\ TypeOK /\ CallShape
    /\ MarkIsDurable /\ MarkIsKnown /\ PurgedStaysOut

LEMMA InitInv == Init => IInv
<1> SUFFICES ASSUME Init PROVE IInv
  OBVIOUS
<1>1. \A t \in Tasks : task[t] = NoCall
  BY DEF Init
<1>2. NoCall \in Calls
  BY DEF NoCall, Calls
<1>3. \A t \in Tasks : task[t].at = "idle"
  BY <1>1 DEF NoCall
<1>4. TypeOK
  BY <1>1, <1>2, <1>3, NoTaskIsNone DEF Init, TypeOK
<1>5. CallShape
  BY <1>3 DEF CallShape
<1> QED
  BY <1>4, <1>5 DEF Init, IInv, MarkIsDurable, MarkIsKnown, PurgedStaysOut, Suppressed

\* A call that ends gives its record back; one that goes on keeps its type.
LEMMA CallTypes ==
  ASSUME NEW call \in Calls
  PROVE  /\ NoCall \in Calls
         /\ \A a \in {"idle", "wait", "load", "save", "written"} : [call EXCEPT !.at = a] \in Calls
         /\ call.macs \subseteq Macs
         /\ \A known \in SUBSET Macs : Updated(call, known) \subseteq Macs
BY DEF Calls, NoCall, Updated

\* A decision taken under the lock, from a known set that covers what is owed,
\* keeps everything, whether the set was in memory or has just been read.
LEMMA DecideKeeps ==
  ASSUME IInv, NEW t \in Tasks, NEW known, known = mem',
         known \subseteq Macs, owed \subseteq known, loaded' = TRUE, disk' = disk,
         task[t].at \in {"wait", "load"},
         holder = NoTask \/ holder = t,
         Decide(t, known)
  PROVE  IInv'
<1> USE NoTaskIsNone
<1>a. /\ task \in [Tasks -> Calls] /\ task[t] \in Calls
      /\ \A s \in Tasks : s # t => task[s].at \in {"idle", "wait"}
      /\ disk \subseteq Macs /\ owed \subseteq Macs /\ passed \subseteq Macs
      /\ owed \subseteq disk /\ owed \cap passed = {}
  BY DEF IInv, TypeOK, MarkIsDurable, PurgedStaysOut, Calls
<1>1. CASE Passes(t, known) \/ Blocks(t, known)
  <2>1. task' = [task EXCEPT ![t] = NoCall] /\ holder' = NoTask /\ owed' = owed
    BY <1>1 DEF Passes, Blocks
  <2>2. \A s \in Tasks : task'[s].at \in {"idle", "wait"}
    BY <1>a, <2>1 DEF NoCall
  <2>3. passed' \subseteq Macs /\ owed' \cap passed' = {}
    BY <1>a, <1>1, <2>1, CallTypes DEF Passes, Blocks
  <2>4. TypeOK'
    BY <1>a, <2>1, <2>2, <2>3, CallTypes DEF TypeOK
  <2>5. CallShape'
    BY <2>2 DEF CallShape
  <2> QED
    BY <1>a, <2>1, <2>3, <2>4, <2>5 DEF IInv, MarkIsDurable, MarkIsKnown, PurgedStaysOut, Suppressed
<1>2. CASE Saves(t, known)
  <2>1. /\ task' = [task EXCEPT ![t] = [task[t] EXCEPT !.at = "save"]]
        /\ holder' = t /\ passed' = passed /\ owed' \subseteq owed
        /\ task[t].op = "ask" => owed' \cap task[t].macs = {}
    BY <1>2 DEF Saves
  <2>2. /\ task'[t].at = "save" /\ task'[t].op = task[t].op /\ task'[t].macs = task[t].macs
        /\ \A s \in Tasks : s # t => task'[s].at \in {"idle", "wait"}
    BY <1>a, <2>1 DEF Calls
  <2>3. TypeOK'
    BY <1>a, <2>1, <2>2, CallTypes DEF TypeOK
  <2>4. CallShape'
    BY <2>1, <2>2 DEF CallShape
  <2> QED
    BY <1>a, <2>1, <2>3, <2>4 DEF IInv, MarkIsDurable, MarkIsKnown, PurgedStaysOut, Suppressed
<1> QED
  BY <1>1, <1>2 DEF Decide

LEMMA StepInv == IInv /\ [Next]_vars => IInv'
<1> SUFFICES ASSUME IInv, [Next]_vars PROVE IInv'
  OBVIOUS
<1> USE NoTaskIsNone
<1>a. /\ task \in [Tasks -> Calls]
      /\ disk \subseteq Macs /\ mem \subseteq Macs /\ owed \subseteq Macs /\ passed \subseteq Macs
      /\ holder \in Tasks \cup {NoTask} /\ loaded \in BOOLEAN
      /\ \A t \in Tasks : task[t].at \in {"load", "save", "written"} <=> holder = t
      /\ owed \subseteq disk /\ owed \cap passed = {}
      /\ loaded => owed \subseteq mem
  BY DEF IInv, TypeOK, MarkIsDurable, MarkIsKnown, PurgedStaysOut, Suppressed
<1>0. CASE UNCHANGED vars
  BY <1>0 DEF vars, IInv, TypeOK, CallShape, MarkIsDurable, MarkIsKnown, PurgedStaysOut, Suppressed
<1>1. ASSUME NEW t \in Tasks, NEW call \in Calls, call.at = "wait", task[t].at = "idle",
             task' = [task EXCEPT ![t] = call],
             UNCHANGED <<disk, mem, loaded, holder, owed, passed>>
      PROVE  IInv'
  <2>1. TypeOK'
    BY <1>a, <1>1 DEF TypeOK
  <2>2. CallShape'
    BY <1>a, <1>1 DEF IInv, CallShape
  <2> QED
    BY <1>1, <2>1, <2>2 DEF IInv, MarkIsDurable, MarkIsKnown, PurgedStaysOut, Suppressed
<1>2. ASSUME NEW t \in Tasks, NEW S \in SUBSET Macs, CallMark(t, S) PROVE IInv'
  <2>1. [op |-> "mark", macs |-> S, online |-> FALSE, at |-> "wait"] \in Calls
    BY DEF Calls
  <2> QED
    BY <1>1, <1>2, <2>1 DEF CallMark
<1>3. ASSUME NEW t \in Tasks, NEW m \in Macs, NEW online \in BOOLEAN, CallBlocked(t, m, online)
      PROVE  IInv'
  <2>1. [op |-> "ask", macs |-> {m}, online |-> online, at |-> "wait"] \in Calls
    BY DEF Calls
  <2> QED
    BY <1>1, <1>3, <2>1 DEF CallBlocked
<1>4. ASSUME NEW t \in Tasks, Enter(t) PROVE IInv'
  <2>1. CASE loaded
    BY <1>a, <1>4, <2>1, DecideKeeps DEF Enter
  <2>2. CASE ~loaded
    <3>1. /\ task' = [task EXCEPT ![t] = [task[t] EXCEPT !.at = "load"]] /\ holder' = t
          /\ UNCHANGED <<disk, mem, loaded, owed, passed>>
      BY <1>4, <2>2 DEF Enter
    <3>2. /\ task'[t].at = "load"
          /\ \A s \in Tasks : s # t => task'[s] = task[s] /\ task[s].at \in {"idle", "wait"}
      BY <1>a, <1>4, <3>1 DEF Enter, Calls
    <3>3. TypeOK'
      BY <1>a, <3>1, <3>2, CallTypes DEF TypeOK
    <3>4. CallShape'
      BY <2>2, <3>1, <3>2 DEF CallShape
    <3> QED
      BY <3>1, <3>3, <3>4 DEF IInv, MarkIsDurable, MarkIsKnown, PurgedStaysOut, Suppressed
  <2> QED
    BY <2>1, <2>2
<1>5. ASSUME NEW t \in Tasks, Load(t) PROVE IInv'
  <2>1. holder = t
    BY <1>a, <1>5 DEF Load
  <2> QED
    BY <1>a, <1>5, <2>1, DecideKeeps DEF Load
<1>6. ASSUME NEW t \in Tasks, Write(t) PROVE IInv'
  <2>1. /\ holder = t /\ loaded /\ task[t] \in Calls
        /\ task[t].op = "ask" => owed \cap task[t].macs = {}
    BY <1>a, <1>6 DEF Write, IInv, CallShape
  <2>2. /\ task'[t].at = "written" /\ task'[t].op = task[t].op /\ task'[t].macs = task[t].macs
        /\ \A s \in Tasks : s # t => task'[s].at \in {"idle", "wait"}
        /\ UNCHANGED <<mem, loaded, holder, owed, passed>>
    BY <1>a, <1>6, <2>1 DEF Write, Calls
  <2>3. disk' = Updated(task[t], mem) /\ Updated(task'[t], mem) = Updated(task[t], mem)
    BY <1>6, <2>2 DEF Write, Updated
  <2>4. owed \subseteq disk'
    <3>1. task[t].op \in {"mark", "ask"} /\ owed \subseteq mem
      BY <1>a, <2>1 DEF Calls
    <3> QED
      BY <2>1, <2>3, <3>1 DEF Updated
  <2>5. disk' \subseteq Macs
    BY <1>a, <2>1, <2>3, CallTypes
  <2>6. task' \in [Tasks -> Calls]
    BY <1>a, <1>6, <2>1, CallTypes DEF Write
  <2>7. TypeOK'
    BY <1>a, <2>1, <2>2, <2>5, <2>6 DEF TypeOK
  <2>8. CallShape'
    BY <2>1, <2>2, <2>3 DEF CallShape
  <2> QED
    BY <1>a, <2>1, <2>2, <2>4, <2>7, <2>8 DEF IInv, MarkIsDurable, MarkIsKnown, PurgedStaysOut, Suppressed
<1>7. ASSUME NEW t \in Tasks, Commit(t) PROVE IInv'
  <2>1. /\ holder = t /\ loaded /\ task[t] \in Calls /\ disk = Updated(task[t], mem)
        /\ task[t].op = "ask" => owed \cap task[t].macs = {}
        /\ task[t].macs \subseteq Macs
    BY <1>a, <1>7, CallTypes DEF Commit, IInv, CallShape
  <2>2. /\ \A s \in Tasks : task'[s].at \in {"idle", "wait"}
        /\ task' \in [Tasks -> Calls] /\ holder' = NoTask
        /\ mem' = disk /\ disk' = disk /\ loaded' = loaded
    <3>1. task' = [task EXCEPT ![t] = NoCall] /\ NoCall.at = "idle" /\ NoCall \in Calls
      BY <1>7, <2>1, CallTypes DEF Commit, NoCall
    <3>2. \A s \in Tasks : s # t => task[s].at \in {"idle", "wait"}
      BY <1>a, <2>1 DEF Calls
    <3> QED
      BY <1>a, <1>7, <2>1, <3>1, <3>2 DEF Commit
  <2>3. /\ owed' \subseteq disk /\ owed' \cap passed' = {}
        /\ owed' \subseteq Macs /\ passed' \subseteq Macs
    BY <1>a, <1>7, <2>1 DEF Commit, Updated
  <2>4. TypeOK' /\ CallShape'
    BY <1>a, <2>2, <2>3 DEF TypeOK, CallShape
  <2> QED
    BY <2>1, <2>2, <2>3, <2>4 DEF IInv, MarkIsDurable, MarkIsKnown, PurgedStaysOut, Suppressed
<1>8. ASSUME NEW t \in Tasks, Interrupt(t) PROVE IInv'
  <2>1. /\ task' = [task EXCEPT ![t] = NoCall]
        /\ holder' = IF holder = t THEN NoTask ELSE holder
        /\ UNCHANGED <<disk, mem, loaded, owed, passed>>
    BY <1>8 DEF Interrupt
  <2>2. task'[t].at = "idle" /\ \A s \in Tasks : s # t => task'[s] = task[s]
    BY <1>a, <2>1 DEF NoCall
  <2>3. task' \in [Tasks -> Calls]
    BY <1>a, <2>1, CallTypes
  <2>4. TypeOK'
    BY <1>a, <2>1, <2>2, <2>3 DEF TypeOK
  <2>5. CallShape'
    BY <2>1, <2>2 DEF IInv, CallShape
  <2> QED
    BY <2>1, <2>4, <2>5 DEF IInv, MarkIsDurable, MarkIsKnown, PurgedStaysOut, Suppressed
<1>9. CASE Restart
  <2>1. \A t \in Tasks : task'[t] = NoCall /\ task'[t].at = "idle"
    BY <1>9 DEF Restart, NoCall
  <2>2. NoCall \in Calls
    BY DEF NoCall, Calls
  <2>3. TypeOK' /\ CallShape'
    BY <1>a, <1>9, <2>1, <2>2 DEF Restart, TypeOK, CallShape
  <2> QED
    BY <1>a, <1>9, <2>3 DEF Restart, IInv, MarkIsDurable, MarkIsKnown, PurgedStaysOut, Suppressed
<1> QED
  BY <1>0, <1>2, <1>3, <1>4, <1>5, <1>6, <1>7, <1>8, <1>9 DEF Next, Step

LEMMA InvAlways == Spec => []IInv
BY InitInv, StepInv, PTL DEF Spec

\* The set, its store and its calls keep their types, and a call that is past the
\* lock holds it (async with self._lock), whatever is cancelled or fails.
THEOREM TypeCorrect == Spec => []TypeOK
BY InvAlways, PTL DEF IInv

\* The mark of a purge that returned is in the store until a router confirms
\* the client, so a restart at any moment keeps it (async_mark).
THEOREM MarksAreDurable == Spec => []MarkIsDurable
BY InvAlways, PTL DEF IInv

\* ... and a running Home Assistant answers it (async_blocked).
THEOREM MarksAreKnown == Spec => []MarkIsKnown
BY InvAlways, PTL DEF IInv

\* No purged client is let through before a router confirms it online.
THEOREM PurgedOut == Spec => []PurgedStaysOut
BY InvAlways, PTL DEF IInv

\* A question is about one client.
AskOne ==
    \A t \in Tasks :
        task[t].at # "idle" /\ task[t].op = "ask" => \E m \in Macs : task[t].macs = {m}

LEMMA AskStep == IInv /\ AskOne /\ [Next]_vars => AskOne'
<1> SUFFICES ASSUME IInv, AskOne, [Next]_vars, NEW t \in Tasks,
                    task'[t].at # "idle", task'[t].op = "ask"
             PROVE  \E m \in Macs : task'[t].macs = {m}
  BY DEF AskOne
<1>a. task \in [Tasks -> Calls] /\ NoCall.at = "idle"
  BY DEF IInv, TypeOK, NoCall
<1>1. ASSUME NEW s \in Tasks, NEW m \in Macs, NEW online \in BOOLEAN, CallBlocked(s, m, online)
      PROVE  \E x \in Macs : task'[t].macs = {x}
  <2>1. CASE s = t
    BY <1>a, <1>1, <2>1 DEF CallBlocked
  <2>2. CASE s # t
    BY <1>a, <1>1, <2>2 DEF CallBlocked, AskOne
  <2> QED
    BY <2>1, <2>2
<1>2. ASSUME NEW s \in Tasks, NEW S \in SUBSET Macs, CallMark(s, S)
      PROVE  \E x \in Macs : task'[t].macs = {x}
  BY <1>a, <1>2 DEF CallMark, AskOne
<1>3. ASSUME NEW s \in Tasks, Step(s) \/ Interrupt(s)
      PROVE  \E x \in Macs : task'[t].macs = {x}
  <2>1. \/ task' = [task EXCEPT ![s] = NoCall]
        \/ \E a \in {"load", "save", "written"} :
              /\ task' = [task EXCEPT ![s] = [task[s] EXCEPT !.at = a]]
              /\ task[s].at # "idle"
    BY <1>3 DEF Step, Interrupt, Enter, Load, Write, Commit, Decide, Passes, Blocks, Saves
  <2>2. task[t].at # "idle" /\ task'[t].op = task[t].op /\ task'[t].macs = task[t].macs
    BY <1>a, <2>1 DEF Calls
  <2> QED
    BY <2>2 DEF AskOne
<1>4. CASE Restart
  BY <1>a, <1>4 DEF Restart
<1>5. CASE UNCHANGED vars
  BY <1>5 DEF vars, AskOne
<1> QED
  BY <1>1, <1>2, <1>3, <1>4, <1>5 DEF Next

LEMMA AskAlways == Spec => []AskOne
<1>1. Init => AskOne
  BY DEF Init, AskOne, NoCall
<1> QED
  BY <1>1, InvAlways, AskStep, PTL DEF Spec

\* A decision marks nobody, and passes only clients that nobody is owed.
LEMMA DecideRefines ==
  ASSUME IInv, AskOne, NEW t \in Tasks, NEW known, owed \subseteq known, Decide(t, known),
         task[t].at # "idle"
  PROVE  [Abs!Next]_<<owed, passed>>
<1>1. task[t].op = "ask" => \E m \in Macs : task[t].macs = {m}
  BY DEF AskOne
<1>2. CASE Passes(t, known)
  <2>1. PICK m \in Macs : task[t].macs = {m}
    BY <1>1, <1>2 DEF Passes
  <2>2. m \notin owed /\ passed' = passed \cup {m} /\ owed' = owed
    BY <1>2, <2>1 DEF Passes
  <2> QED
    BY <2>2 DEF Abs!Next, Abs!Pass
<1>3. CASE Blocks(t, known)
  BY <1>3 DEF Blocks
<1>4. CASE Saves(t, known)
  <2>1. CASE task[t].op = "mark"
    BY <1>4, <2>1 DEF Saves
  <2>2. CASE task[t].op = "ask"
    <3>1. PICK m \in Macs : task[t].macs = {m}
      BY <1>1, <2>2
    <3>2. owed' = owed \ {m} /\ passed' = passed
      BY <1>4, <2>2, <3>1 DEF Saves
    <3> QED
      BY <3>2 DEF Abs!Next, Abs!Confirm
  <2> QED
    BY <1>4, <2>1, <2>2 DEF Saves
<1> QED
  BY <1>2, <1>3, <1>4 DEF Decide

\* The set of purged clients, with its lock, its store, its failures, its
\* cancellations and its restarts, implements the atomic suppression that the
\* nodes' refreshes rely on.
THEOREM Implements == Spec => ImplementsSuppression
<1>1. Init => Abs!Init
  BY DEF Init, Abs!Init
<1>2. IInv /\ AskOne /\ [Next]_vars => [Abs!Next]_<<owed, passed>>
  <2> SUFFICES ASSUME IInv, AskOne, [Next]_vars PROVE [Abs!Next]_<<owed, passed>>
    OBVIOUS
  <2>1. ASSUME NEW t \in Tasks, Enter(t) PROVE [Abs!Next]_<<owed, passed>>
    <3>1. CASE loaded
      BY <2>1, <3>1, DecideRefines DEF Enter, IInv, MarkIsKnown, Suppressed
    <3>2. CASE ~loaded
      BY <2>1, <3>2 DEF Enter
    <3> QED
      BY <3>1, <3>2
  <2>2. ASSUME NEW t \in Tasks, Load(t) PROVE [Abs!Next]_<<owed, passed>>
    BY <2>2, DecideRefines DEF Load, IInv, MarkIsDurable
  <2>3. ASSUME NEW t \in Tasks, Commit(t) PROVE [Abs!Next]_<<owed, passed>>
    <3>1. CASE task[t].op = "mark"
      <4>1. task[t].macs \in SUBSET Macs
        BY DEF IInv, TypeOK, Calls
      <4> QED
        BY <2>3, <3>1, <4>1 DEF Commit, Abs!Next, Abs!Mark
    <3>2. CASE task[t].op # "mark"
      <4>1. task[t].op = "ask" /\ task[t].at = "written"
        BY <2>3, <3>2 DEF Commit, IInv, TypeOK, Calls
      <4>2. PICK m \in Macs : task[t].macs = {m}
        BY <4>1 DEF AskOne
      <4>3. m \notin owed
        BY <4>1, <4>2 DEF IInv, CallShape
      <4> QED
        BY <2>3, <3>2, <4>2, <4>3 DEF Commit, Abs!Next, Abs!Pass
    <3> QED
      BY <3>1, <3>2
  <2>4. ASSUME NEW t \in Tasks,
               \/ \E S \in SUBSET Macs : CallMark(t, S)
               \/ \E m \in Macs, online \in BOOLEAN : CallBlocked(t, m, online)
               \/ Write(t) \/ Interrupt(t)
        PROVE  [Abs!Next]_<<owed, passed>>
    BY <2>4 DEF CallMark, CallBlocked, Write, Interrupt
  <2>5. CASE Restart \/ UNCHANGED vars
    BY <2>5 DEF Restart, vars
  <2> QED
    BY <2>1, <2>2, <2>3, <2>4, <2>5 DEF Next, Step
<1> QED
  BY <1>1, <1>2, InvAlways, AskAlways, PTL DEF Spec, ImplementsSuppression, Abs!Spec

=============================================================================
