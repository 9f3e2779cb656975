------------------------------ MODULE DhcpEdit ------------------------------
(***************************************************************************)
(* The editor of static DHCP bindings: custom_components/miwifi/dhcp.py.   *)
(*                                                                         *)
(* The panel reads the router's table, shows it, and submits one change    *)
(* with the revision it has shown.  The manager of the loaded updater      *)
(* reads again, refuses a change of anything else than what was shown,     *)
(* sends one request and reads back.  Other panels, the router's own       *)
(* administration, reloads of the entry and changes of the router's role   *)
(* come in between; a request whose answer is lost may still arrive.       *)
(*                                                                         *)
(* Data abstracted: a row is the address it gives to a MAC, its name left  *)
(* out; a revision is what it hashes, the table and whether the router     *)
(* takes changes; the candidates' addresses, and malformed input and       *)
(* answers, are left out, but for the reads that fail.                     *)
(***************************************************************************)
EXTENDS Naturals

CONSTANTS
    Macs,       \* the MAC addresses that may have a binding
    Addrs,      \* the addresses in the router's network
    NoAddr,     \* no binding
    NoMac,      \* no change is being made
    Tasks,      \* the open panels
    NoTask,     \* nobody holds a manager's lock
    Interventions   \* bound: how often the entry is reloaded, somebody else
                    \* changes the router's settings, or it loses its role

ASSUME NoAddrIsNone == NoAddr \notin Addrs
ASSUME NoMacIsNone == NoMac \notin Macs
ASSUME NoTaskIsNone == NoTask \notin Tasks
ASSUME InterventionsNat == Interventions \in Nat

VARIABLES
    table,      \* the router's bindings
    open,       \* DHCP is enabled there, on a firmware that may be written
    wire,       \* the requests that may still arrive
    gen,        \* which updater of the entry is loaded
    main,       \* its topology says that it is the main router
    holder,     \* manager, one for each updater -> who holds its lock
    task,       \* panel -> its operation and where it is
    answer,     \* panel -> the answer to its last change
    left        \* how many interventions are left

vars == <<table, open, wire, gen, main, holder, task, answer, left>>

Gens == 0..Interventions
Tables == {t \in [Macs -> Addrs \cup {NoAddr}] :
             \A m, n \in Macs : t[m] = t[n] /\ t[m] # NoAddr => m = n}
NoTable == [m \in Macs |-> NoAddr]
Changes == [mac: Macs, addr: Addrs \cup {NoAddr}]
NoChange == [mac |-> NoMac, addr |-> NoAddr]

\* op: what it is there for; at: waiting for the lock, about to read the
\* bindings, about to read the rest, waiting for the answer to its request.
TaskStates == [op: {"closed", "read", "shown", "check", "verify"},
               at: {"none", "lock", "table", "rest", "post"},
               gen: Gens, change: Changes \cup {NoChange},
               seen: Tables, seenOpen: BOOLEAN,    \* the revision it has shown
               got: Tables, before: Tables]        \* bindings read now, and at the check
ClosedTask == [op |-> "closed", at |-> "none", gen |-> 0, change |-> NoChange,
               seen |-> NoTable, seenOpen |-> FALSE, got |-> NoTable, before |-> NoTable]

Edited(t, change) == [t EXCEPT ![change.mac] = change.addr]

\* _check_current: the manager's updater is loaded and the main one.
Current(t) == task[t].gen = gen /\ main

\* No other MAC has the address.  That an add is of a free MAC, an edit or a
\* delete of a bound one, holds of what the panel shows.
Fits(change, before) ==
    \A m \in Macs \ {change.mac} : change.addr = NoAddr \/ before[m] # change.addr

-----------------------------------------------------------------------------
Init ==
    /\ table \in Tables
    /\ open = TRUE /\ main = TRUE
    /\ wire = {}
    /\ gen = 0
    /\ holder = [g \in Gens |-> NoTask]
    /\ task = [t \in Tasks |-> ClosedTask]
    /\ answer = [t \in Tasks |-> "none"]
    /\ left = Interventions

(* The panel. *)

Read(t) ==
    /\ task[t].op \in {"closed", "shown"} /\ main
    /\ task' = [task EXCEPT ![t] = [ClosedTask EXCEPT !.op = "read", !.at = "lock", !.gen = gen]]
    /\ answer' = [answer EXCEPT ![t] = "none"]
    /\ UNCHANGED <<table, open, wire, gen, main, holder, left>>

\* A change of one row of what is shown: added, edited or deleted.
Submit(t, change) ==
    /\ task[t].op = "shown" /\ main
    /\ change.addr = NoAddr => task[t].seen[change.mac] # NoAddr
    /\ task' = [task EXCEPT ![t].op = "check", ![t].at = "lock", ![t].gen = gen,
                            ![t].change = change]
    /\ answer' = [answer EXCEPT ![t] = "none"]
    /\ UNCHANGED <<table, open, wire, gen, main, holder, left>>

(* The manager. *)

Release(t) == holder' = [holder EXCEPT ![task[t].gen] = NoTask]
Shown(t) == [task[t] EXCEPT !.op = "shown", !.at = "none", !.gen = 0, !.change = NoChange,
                            !.got = NoTable, !.before = NoTable]

\* Mutant: an error of the readback keeps its own name.
FailsByName(t) ==
    /\ task' = [task EXCEPT ![t] = IF @.op = "read" THEN ClosedTask ELSE Shown(t)]
    /\ answer' = IF task[t].op = "read" THEN answer ELSE [answer EXCEPT ![t] = "refused"]
    /\ Release(t)

\* The operation ends with an error: before the request it is a refusal, after
\* it nobody knows.
Fails(t) ==
    /\ task' = [task EXCEPT ![t] = IF @.op = "read" THEN ClosedTask ELSE Shown(t)]
    /\ answer' = CASE task[t].op = "read" -> answer
                   [] task[t].op = "check" -> [answer EXCEPT ![t] = "refused"]
                   [] task[t].op = "verify" -> [answer EXCEPT ![t] = "unverified"]
    /\ Release(t)

\* Mutant: an operation does not wait for the one that is going on.
EnterAtOnce(t) ==
    /\ task[t].at = "lock" /\ Current(t)
    /\ holder' = [holder EXCEPT ![task[t].gen] = t]
    /\ task' = [task EXCEPT ![t].at = "table"]
    /\ UNCHANGED <<answer, table, open, wire, gen, main, left>>

Enter(t) ==
    /\ task[t].at = "lock" /\ holder[task[t].gen] = NoTask
    /\ IF Current(t)
       THEN /\ holder' = [holder EXCEPT ![task[t].gen] = t]
            /\ task' = [task EXCEPT ![t].at = "table"]
            /\ UNCHANGED answer
       ELSE Fails(t)
    /\ UNCHANGED <<table, open, wire, gen, main, left>>

ReadBindings(t) ==
    /\ task[t].at = "table"
    /\ task' = [task EXCEPT ![t].at = "rest", ![t].got = table]
    /\ UNCHANGED <<table, open, wire, gen, main, holder, answer, left>>

ReadFails(t) ==
    /\ task[t].at \in {"table", "rest"}
    /\ Fails(t)
    /\ UNCHANGED <<table, open, wire, gen, main, left>>

\* Mutant: the revision of the panel is not compared.
AcceptsAnyRevision(t) ==
    /\ open /\ Current(t)
    /\ Fits(task[t].change, task[t].got)

\* What is shown is still what is there, and the change fits in.
Accepts(t) ==
    /\ open /\ Current(t)
    /\ task[t].seen = task[t].got /\ task[t].seenOpen = open
    /\ Fits(task[t].change, task[t].got)

\* The snapshot of a read is complete.
ShowSnapshot(t) ==
    /\ task[t].op = "read" /\ task[t].at = "rest"
    /\ IF Current(t)
       THEN /\ task' = [task EXCEPT ![t] = [Shown(t) EXCEPT !.seen = task[t].got,
                                                            !.seenOpen = open]]
            /\ UNCHANGED answer
            /\ Release(t)
       ELSE Fails(t)
    /\ UNCHANGED <<table, open, wire, gen, main, left>>

\* The snapshot before a change is complete: the request is sent at once.
Post(t) ==
    /\ task[t].op = "check" /\ task[t].at = "rest"
    /\ IF Accepts(t)
       THEN /\ task' = [task EXCEPT ![t].op = "verify", ![t].at = "post", ![t].before = task[t].got,
                                    ![t].got = NoTable]
            /\ wire' = wire \cup {[by |-> t, change |-> task[t].change]}
            /\ UNCHANGED <<holder, answer>>
       ELSE Fails(t) /\ UNCHANGED wire
    /\ UNCHANGED <<table, open, gen, main, left>>

\* The router has answered that it took the change, and it is read back.
PostReturns(t) ==
    /\ task[t].at = "post" /\ [by |-> t, change |-> task[t].change] \notin wire
    /\ IF Current(t)
       THEN task' = [task EXCEPT ![t].at = "table"] /\ UNCHANGED <<holder, answer>>
       ELSE Fails(t)
    /\ UNCHANGED <<table, open, wire, gen, main, left>>

\* Time out, a rejection or a lost connection, with the request arrived or not.
\* Bound: at most one request is late.
PostFails(t) ==
    /\ task[t].at = "post"
    /\ wire \subseteq {[by |-> t, change |-> task[t].change]}
    /\ Fails(t)
    /\ UNCHANGED <<table, open, wire, gen, main, left>>

\* Mutant: only the row that was changed is read back.
VerifiedOwnRow(t) == task[t].got[task[t].change.mac] = task[t].change.addr

\* The whole table is as expected.
Verified(t) == task[t].got = Edited(task[t].before, task[t].change)

\* The readback is complete: it is what the panel shows from now on.
Verify(t) ==
    /\ task[t].op = "verify" /\ task[t].at = "rest"
    /\ IF Current(t) /\ Verified(t)
       THEN /\ task' = [task EXCEPT ![t] = [Shown(t) EXCEPT !.seen = task[t].got,
                                                            !.seenOpen = open]]
            /\ answer' = [answer EXCEPT ![t] = "done"]
            /\ Release(t)
       ELSE Fails(t)
    /\ UNCHANGED <<table, open, wire, gen, main, left>>

-----------------------------------------------------------------------------
(* The router, its other administrators, and the entry. *)

\* A request arrives, sooner or later.  The router refuses an address that
\* another MAC has.
Arrives(r) ==
    /\ wire' = wire \ {r}
    /\ table' = IF Edited(table, r.change) \in Tables THEN Edited(table, r.change) ELSE table
    /\ UNCHANGED <<open, gen, main, holder, task, answer, left>>

\* A request is lost; nobody waits for its answer any more.
Lost(r) ==
    /\ task[r.by].at # "post"
    /\ wire' = wire \ {r}
    /\ UNCHANGED <<table, open, gen, main, holder, task, answer, left>>

ForeignChange ==
    /\ left > 0 /\ left' = left - 1
    /\ \/ /\ \E c \in Changes : Edited(table, c) \in Tables /\ table' = Edited(table, c)
          /\ UNCHANGED open
       \/ open' = ~open /\ UNCHANGED table
    /\ UNCHANGED <<wire, gen, main, holder, task, answer>>

\* A refresh of the updater changes or loses its topology.
RoleChanges ==
    /\ main' = ~main
    /\ IF main THEN left > 0 /\ left' = left - 1 ELSE UNCHANGED left
    /\ UNCHANGED <<table, open, wire, gen, holder, task, answer>>

\* The entry is unloaded and set up again, with a new updater and manager.
Reload ==
    /\ left > 0 /\ left' = left - 1
    /\ gen' = gen + 1
    /\ UNCHANGED <<table, open, wire, main, holder, task, answer>>

Step(t) ==
    \/ Enter(t) \/ ReadBindings(t) \/ ShowSnapshot(t) \/ Post(t) \/ PostReturns(t) \/ Verify(t)

Next ==
    \/ \E t \in Tasks :
          \/ Read(t) \/ Step(t) \/ ReadFails(t) \/ PostFails(t)
          \/ \E c \in Changes : Submit(t, c)
    \/ \E r \in wire : Arrives(r) \/ Lost(r)
    \/ ForeignChange \/ RoleChanges \/ Reload

Spec == Init /\ [][Next]_vars

-----------------------------------------------------------------------------
(* Properties. *)

\* Type invariant, and the shape of the lock: whoever reads, sends or waits for
\* the router holds the lock of its manager, and nobody else does.
TypeOK ==
    /\ table \in Tables /\ open \in BOOLEAN /\ main \in BOOLEAN
    /\ wire \subseteq [by: Tasks, change: Changes]
    /\ gen \in Gens
    /\ holder \in [Gens -> Tasks \cup {NoTask}]
    /\ task \in [Tasks -> TaskStates]
    /\ answer \in [Tasks -> {"none", "done", "refused", "unverified"}]
    /\ left \in 0..Interventions
    /\ \A t \in Tasks : task[t].at \in {"table", "rest", "post"} <=> holder[task[t].gen] = t

\* A change that is reported as done is the only difference between the table
\* that its panel had shown and the one read back: nothing that somebody else
\* did in between, and nothing it undid itself, goes unnoticed.
DoneIsWhatWasShown ==
    [][\A t \in Tasks :
         answer[t] # "done" /\ answer'[t] = "done"
             => task[t].got = Edited(task[t].seen, task[t].change)]_vars

\* A change that is reported as refused was not sent, whatever fails: what may
\* have reached the router is reported as done or unverified.
RefusedWasNotSent ==
    [][\A t \in Tasks :
         task[t].op = "verify" /\ task'[t].op # "verify"
             => answer'[t] \in {"done", "unverified"}]_vars
=============================================================================
