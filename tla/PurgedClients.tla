---------------------------- MODULE PurgedClients ----------------------------
(***************************************************************************)
(* The set of purged clients: custom_components/miwifi/purged_clients.py.  *)
(*                                                                         *)
(* One object keeps the MACs that stay suppressed until a router confirms  *)
(* them online.  Purges mark MACs before they delete anything; every       *)
(* refresh of every node asks, for each client, whether it is blocked.     *)
(* All of them are coroutines behind one asyncio lock; they yield while    *)
(* they wait for it and while the store is read or written, and any of     *)
(* them can be cancelled there, or see the store fail.                     *)
(***************************************************************************)
EXTENDS FiniteSets

CONSTANTS
    Macs,       \* the MAC addresses of clients
    Tasks,      \* the coroutines: purges and refreshes
    NoTask      \* nobody holds the lock

ASSUME NoTaskIsNone == NoTask \notin Tasks

VARIABLES
    disk,       \* what the store holds
    mem,        \* _macs
    loaded,     \* _loaded
    holder,     \* the task that holds _lock
    task,       \* task -> the call it makes and where it is in it
    owed,       \* history: marked, the mark returned, not confirmed online since
    passed      \* history: let through by async_blocked since it was last marked

vars == <<disk, mem, loaded, holder, task, owed, passed>>

\* A call: op "mark" with the MACs to mark, or op "ask" with one MAC and
\* whether the caller brings a report that confirms it online.
Calls == [op: {"mark", "ask"}, macs: SUBSET Macs, online: BOOLEAN,
          at: {"idle", "wait", "load", "save", "written"}]
NoCall == [op |-> "ask", macs |-> {}, online |-> FALSE, at |-> "idle"]

\* Mutant: a mark replaces the set.
Replaced(call, known) ==
    IF call.op = "mark" THEN call.macs ELSE known \ call.macs

\* The set a call leaves behind.
Updated(call, known) ==
    IF call.op = "mark" THEN known \cup call.macs ELSE known \ call.macs

\* What async_blocked answers to a stored snapshot.
Suppressed == IF loaded THEN mem ELSE disk

-----------------------------------------------------------------------------
Init ==
    /\ disk \in SUBSET Macs
    /\ mem = {} /\ loaded = FALSE
    /\ holder = NoTask
    /\ task = [t \in Tasks |-> NoCall]
    /\ owed = disk
    /\ passed = {}

CallMark(t, S) ==
    /\ task[t].at = "idle" /\ S # {}
    /\ task' = [task EXCEPT ![t] = [op |-> "mark", macs |-> S, online |-> FALSE, at |-> "wait"]]
    /\ UNCHANGED <<disk, mem, loaded, holder, owed, passed>>

CallBlocked(t, m, online) ==
    /\ task[t].at = "idle"
    /\ task' = [task EXCEPT ![t] = [op |-> "ask", macs |-> {m}, online |-> online, at |-> "wait"]]
    /\ UNCHANGED <<disk, mem, loaded, holder, owed, passed>>

\* What a call does, without yielding, once the set is known: a client that is
\* not suppressed passes, a suppressed one without a confirming report is
\* blocked, and the rest is written to the store first.
Passes(t, known) ==
    /\ task[t].op = "ask" /\ task[t].macs \cap known = {}
    /\ task' = [task EXCEPT ![t] = NoCall]
    /\ holder' = NoTask
    /\ passed' = passed \cup task[t].macs
    /\ UNCHANGED owed

Blocks(t, known) ==
    /\ task[t].op = "ask" /\ task[t].macs \cap known # {} /\ ~task[t].online
    /\ task' = [task EXCEPT ![t] = NoCall]
    /\ holder' = NoTask
    /\ UNCHANGED <<owed, passed>>

\* Mutant: any report releases, a stored snapshot too.
SavesUnconfirmed(t, known) ==
    /\ \/ task[t].op = "mark" /\ UNCHANGED owed
       \/ /\ task[t].op = "ask" /\ task[t].macs \cap known # {}
          /\ owed' = IF task[t].online THEN owed \ task[t].macs ELSE owed
    /\ task' = [task EXCEPT ![t].at = "save"]
    /\ holder' = t
    /\ UNCHANGED passed

Saves(t, known) ==
    /\ \/ task[t].op = "mark" /\ UNCHANGED owed
       \/ /\ task[t].op = "ask" /\ task[t].macs \cap known # {} /\ task[t].online
          /\ owed' = owed \ task[t].macs
    /\ task' = [task EXCEPT ![t].at = "save"]
    /\ holder' = t
    /\ UNCHANGED passed

Decide(t, known) == Passes(t, known) \/ Blocks(t, known) \/ Saves(t, known)

\* The lock is taken; the first call ever also reads the store.
Enter(t) ==
    /\ task[t].at = "wait" /\ holder = NoTask
    /\ IF loaded
       THEN Decide(t, mem)
       ELSE /\ holder' = t
            /\ task' = [task EXCEPT ![t].at = "load"]
            /\ UNCHANGED <<owed, passed>>
    /\ UNCHANGED <<disk, mem, loaded>>

\* Mutant: what the store holds is dropped.
LoadNothing(t) ==
    /\ task[t].at = "load"
    /\ mem' = {} /\ loaded' = TRUE
    /\ Decide(t, {})
    /\ UNCHANGED disk

Load(t) ==
    /\ task[t].at = "load"
    /\ mem' = disk /\ loaded' = TRUE
    /\ Decide(t, disk)
    /\ UNCHANGED disk

Write(t) ==
    /\ task[t].at = "save"
    /\ disk' = Updated(task[t], mem)
    /\ task' = [task EXCEPT ![t].at = "written"]
    /\ UNCHANGED <<mem, loaded, holder, owed, passed>>

\* Mutant: the store is saved, memory is forgotten.
CommitDisk(t) ==
    /\ task[t].at = "written"
    /\ UNCHANGED mem
    /\ IF task[t].op = "mark"
       THEN owed' = owed \cup task[t].macs /\ passed' = passed \ task[t].macs
       ELSE UNCHANGED owed /\ passed' = passed \cup task[t].macs
    /\ task' = [task EXCEPT ![t] = NoCall]
    /\ holder' = NoTask
    /\ UNCHANGED <<disk, loaded>>

\* The save returns: memory follows, the lock is released, the call ends.
Commit(t) ==
    /\ task[t].at = "written"
    /\ mem' = Updated(task[t], mem)
    /\ IF task[t].op = "mark"
       THEN owed' = owed \cup task[t].macs /\ passed' = passed \ task[t].macs
       ELSE UNCHANGED owed /\ passed' = passed \cup task[t].macs
    /\ task' = [task EXCEPT ![t] = NoCall]
    /\ holder' = NoTask
    /\ UNCHANGED <<disk, loaded>>

\* Mutant: the lock is not given back.
InterruptKeepsLock(t) ==
    /\ task[t].at # "idle"
    /\ task' = [task EXCEPT ![t] = NoCall]
    /\ UNCHANGED <<disk, mem, loaded, holder, owed, passed>>

\* The call is cancelled, or its load or save raises, before or after the
\* store changed: the lock is released, memory stays as it was.
Interrupt(t) ==
    /\ task[t].at # "idle"
    /\ task' = [task EXCEPT ![t] = NoCall]
    /\ holder' = IF holder = t THEN NoTask ELSE holder
    /\ UNCHANGED <<disk, mem, loaded, owed, passed>>

\* Home Assistant stops or dies and starts again.
Restart ==
    /\ mem' = {} /\ loaded' = FALSE
    /\ holder' = NoTask
    /\ task' = [t \in Tasks |-> NoCall]
    /\ UNCHANGED <<disk, owed, passed>>

Step(t) == Enter(t) \/ Load(t) \/ Write(t) \/ Commit(t)

Next ==
    \/ \E t \in Tasks :
          \/ \E S \in SUBSET Macs : CallMark(t, S)
          \/ \E m \in Macs, online \in BOOLEAN : CallBlocked(t, m, online)
          \/ Step(t) \/ Interrupt(t)
    \/ Restart

\* The event loop runs every coroutine that can run and the store answers; an
\* asyncio lock serves its waiters in order, so nobody waits for ever.
Fairness == \A t \in Tasks : SF_vars(Enter(t)) /\ WF_vars(Load(t) \/ Write(t) \/ Commit(t))

Spec == Init /\ [][Next]_vars /\ Fairness

-----------------------------------------------------------------------------
(* Properties. *)

\* Type invariant, and the shape of the lock: whoever loads, saves or has just
\* saved holds it, and nobody else does.
TypeOK ==
    /\ disk \subseteq Macs /\ mem \subseteq Macs
    /\ loaded \in BOOLEAN
    /\ holder \in Tasks \cup {NoTask}
    /\ task \in [Tasks -> Calls]
    /\ owed \subseteq Macs /\ passed \subseteq Macs
    /\ \A t \in Tasks : task[t].at \in {"load", "save", "written"} <=> holder = t

\* A purge that returned is durable until a router confirms the client: the
\* mark is in the store, whatever other marks and releases failed, were
\* cancelled or were written from memory since, so a restart keeps it.
MarkIsDurable == owed \subseteq disk

\* ... and it is what a running Home Assistant answers.
MarkIsKnown == owed \subseteq Suppressed

\* No stored snapshot, and no refresh that was waiting while the purge marked
\* the client, lets a purged client through before a router confirms it.
PurgedStaysOut == owed \cap passed = {}

\* The whole of it implements what the callers rely on: marks, confirmations
\* and passes are atomic, and no suppressed client passes.
Abs == INSTANCE ClientSuppression WITH Macs <- Macs, owed <- owed, passed <- passed
ImplementsSuppression == Abs!Spec

\* Every call ends: a refresh cannot hang on the set of purged clients.
CallsEnd == \A t \in Tasks : task[t].at # "idle" ~> task[t].at = "idle"
=============================================================================
