------------------------------ MODULE AutoPurge ------------------------------
(***************************************************************************)
(* The scheduled purge: custom_components/miwifi/auto_purge.py.            *)
(*                                                                         *)
(* One scheduler serves all the entries.  hass.data holds the handles of   *)
(* its timers, the reservation of the task that arms them and the entry    *)
(* that owns it; a store holds the schedule and the next deadline.  A task *)
(* yields whenever it reads or writes the store; entries are set up,       *)
(* unloaded and removed meanwhile, each of which cancels the handles, and  *)
(* the settings write the same store.                                      *)
(*                                                                         *)
(* Data abstracted: a deadline is the number of times the clock has still  *)
(* to pass the configured hour, 0 when it has passed; the hour itself and  *)
(* the time zone do not change; the age of the last run is recent (less    *)
(* than 12 hours) or old; the history of the runs is left out.             *)
(***************************************************************************)
EXTENDS Integers, FiniteSets

CONSTANTS
    Entries,        \* the config entries
    Freqs,          \* the values of every_days that are used; 0 is off
    Runs,           \* bound: the runs that can be under way at once
    Interventions,  \* bound: how often an entry is unloaded or the settings saved
    NoEntry         \* nobody owns the scheduler

ASSUME FreqsAreNat == Freqs \subseteq Nat
ASSUME FreqsHaveLast == \E m \in Freqs : \A f \in Freqs : f <= m
ASSUME InterventionsNat == Interventions \in Nat
ASSUME NoEntryIsNone == NoEntry \notin Entries

VARIABLES
    running,    \* Home Assistant runs
    phase,      \* is the clock before or after the configured hour of the day
    entry,      \* entry -> out, setup, ready, unloading, failed (to unload) or gone
    pending,    \* the entries that a save of the settings will reload
    owner,      \* AUTO_PURGE_OWNER
    due,        \* the timer behind AUTO_PURGE_UNSUB
    kick,       \* is there a timer behind AUTO_PURGE_FIRST
    lost,       \* the timers whose handle was overwritten
    prime,      \* the task behind AUTO_PURGE_PRIME
    job,        \* run -> where _job is
    form,       \* the save of the settings that is under way
    store,      \* the store
    left,       \* how many interventions are left
    cut,        \* history: since the last deadline was armed, an entry was
                \* removed or failed to unload, or one that was no longer loaded
                \* saved the settings
    undone      \* history: the scheduler has overwritten the saved every_days

vars == <<running, phase, entry, pending, owner, due, kick, lost, prime, job, form,
          store, left, cut, undone>>

None == -1
Last == CHOOSE m \in Freqs : \A f \in Freqs : f <= m
Dues == 0..(IF Last = 0 THEN 1 ELSE Last)
Stores == [every: Freqs, due: Dues \cup {None}, for: Freqs \cup {None},
           last: {"none", "recent", "old"}]
Primes == [at: {"idle", "cfg", "off", "kept", "kick", "persist", "save"}, kickoff: BOOLEAN,
           every: Freqs, first: Dues, out: Stores]
AnyStore == [every |-> Last, due |-> None, for |-> None, last |-> "none"]
NoPrime == [at |-> "idle", kickoff |-> FALSE, every |-> Last, first |-> 0, out |-> AnyStore]
Jobs == [at: {"idle", "cfg", "run"}, every: Freqs, next: Dues]
NoJob == [at |-> "idle", every |-> Last, next |-> 0]
Forms == [by: Entries \cup {NoEntry}, every: Freqs, snap: Stores]
NoForm == [by |-> NoEntry, every |-> Last, snap |-> AnyStore]

InData == {e \in Entries : entry[e] \in {"setup", "ready", "unloading", "failed"}}

-----------------------------------------------------------------------------
(* Deadlines. *)

\* _next_run: today if the hour is still ahead, else every days from today.
NextRun(every) == IF phase = "before" THEN 1 ELSE every

\* Mutant: every setup counts from now.
KeptNever(every) == FALSE

\* _kept_deadline: the stored one is ahead and of this schedule.
Kept(every) ==
    /\ store.for \in {every, None}
    /\ store.due \in 1..every

(* The handles. *)

\* A cancelled task ends at its next await; a save under way may still land.
PrimeStopped ==
    \/ UNCHANGED <<store, undone>>
    \/ /\ prime.at = "save"
       /\ store' = prime.out
       /\ undone' = (undone \/ prime.out.every # store.every)

\* Mutant: the kickoff keeps its timer.
CancelKeepsKickoff ==
    /\ PrimeStopped
    /\ prime' = NoPrime /\ due' = None /\ UNCHANGED kick

\* cancel_auto_purge, but for the owner.
Cancel ==
    /\ PrimeStopped
    /\ prime' = NoPrime /\ due' = None /\ kick' = FALSE

\* A timer is armed, and its handle takes the place of the one there was.
Arm(d) ==
    /\ due' = d
    /\ lost' = IF due = None THEN lost ELSE lost \cup {due}
    /\ cut' = FALSE

\* schedule_auto_purge for entry e.
Schedule(e, kickoff) ==
    IF owner \notin {NoEntry, e} /\ (due # None \/ prime.at # "idle")
    THEN UNCHANGED <<owner, prime, due, kick, store, undone>>
    ELSE /\ PrimeStopped
         /\ owner' = e
         /\ prime' = [NoPrime EXCEPT !.at = "cfg", !.kickoff = kickoff]
         /\ due' = None /\ kick' = FALSE

-----------------------------------------------------------------------------
Init ==
    /\ running = FALSE
    /\ phase \in {"before", "after"}
    /\ entry = [e \in Entries |-> "out"]
    /\ pending = {}
    /\ owner = NoEntry
    /\ due = None /\ kick = FALSE /\ lost = {}
    /\ prime = NoPrime
    /\ job = [r \in Runs |-> NoJob]
    /\ form = NoForm
    /\ store \in {s \in Stores : s.for = None /\ (s.every = 0 => s.due = None)
                                 /\ (s.last = "none" <=> s.due = None)}
    /\ left = Interventions
    /\ cut = FALSE /\ undone = FALSE

(* _prime *)

PrimeCfg ==
    /\ prime.at = "cfg"
    /\ prime' = [prime EXCEPT !.every = store.every,
                              !.at = IF store.every = 0 THEN "off" ELSE "kept"]
    /\ UNCHANGED <<running, phase, entry, pending, owner, due, kick, lost, job, form,
                   store, left, cut, undone>>

\* Off: no deadline is armed, and the stored one goes.
PrimeOff ==
    /\ prime.at = "off"
    /\ prime' = [prime EXCEPT !.at = "save",
                              !.out = [store EXCEPT !.due = None, !.for = None, !.every = 0]]
    /\ UNCHANGED <<running, phase, entry, pending, owner, due, kick, lost, job, form,
                   store, left, cut, undone>>

PrimeArm ==
    /\ prime.at = "kept"
    /\ LET first == IF Kept(prime.every) THEN store.due ELSE NextRun(prime.every)
       IN  /\ Arm(first)
           /\ prime' = [prime EXCEPT !.first = first,
                                     !.at = IF prime.kickoff THEN "kick" ELSE "persist"]
    /\ UNCHANGED <<running, phase, entry, pending, owner, kick, job, form, store, left, undone>>

\* There never was a run, or one is overdue: run in a minute, but not twice
\* within 12 hours.
PrimeKick ==
    /\ prime.at = "kick"
    /\ kick' = (store.last = "none" \/ (store.due = 0 /\ store.last = "old"))
    /\ prime' = [prime EXCEPT !.at = "persist"]
    /\ UNCHANGED <<running, phase, entry, pending, owner, due, lost, job, form, store,
                   left, cut, undone>>

PrimePersist ==
    /\ prime.at = "persist"
    /\ prime' = [prime EXCEPT !.at = "save",
                              !.out = [store EXCEPT !.due = prime.first, !.for = prime.every,
                                                    !.every = prime.every]]
    /\ UNCHANGED <<running, phase, entry, pending, owner, due, kick, lost, job, form,
                   store, left, cut, undone>>

PrimeSave ==
    /\ prime.at = "save"
    /\ store' = prime.out
    /\ undone' = (undone \/ prime.out.every # store.every)
    /\ prime' = NoPrime
    /\ UNCHANGED <<running, phase, entry, pending, owner, due, kick, lost, job, form,
                   left, cut>>

(* _job *)

\* A timer fires: the run cancels what the handles refer to, then reads the
\* schedule.  A timer that has fired needs no cancelling.
Fire(r) ==
    /\ job[r].at = "idle"
    /\ \/ (due = 0 \/ kick) /\ UNCHANGED lost
       \/ 0 \in lost /\ lost' = lost \ {0}
    /\ job' = [job EXCEPT ![r] = [NoJob EXCEPT !.at = "cfg"]]
    /\ Cancel
    /\ UNCHANGED <<running, phase, entry, pending, owner, form, left, cut>>

\* Off: the run ends.  Else the next deadline is armed and the purge starts.
JobOff(r) ==
    /\ job[r].at = "cfg" /\ store.every = 0
    /\ job' = [job EXCEPT ![r] = NoJob]
    /\ UNCHANGED <<running, phase, entry, pending, owner, due, kick, lost, prime, form,
                   store, left, cut, undone>>

JobStart(r) ==
    /\ job[r].at = "cfg" /\ store.every # 0
    /\ Arm(NextRun(store.every))
    /\ job' = [job EXCEPT ![r] = [at |-> "run", every |-> store.every,
                                  next |-> NextRun(store.every)]]
    /\ UNCHANGED <<running, phase, entry, pending, owner, kick, prime, form, store, left,
                   undone>>

\* The purge is over, and the run is saved with the schedule it had read.
JobRecord(r) ==
    /\ job[r].at = "run"
    /\ store' = [every |-> job[r].every, due |-> job[r].next, for |-> job[r].every,
                 last |-> "recent"]
    /\ undone' = (undone \/ job[r].every # store.every)
    /\ job' = [job EXCEPT ![r] = NoJob]
    /\ UNCHANGED <<running, phase, entry, pending, owner, due, kick, lost, prime, form,
                   left, cut>>

-----------------------------------------------------------------------------
(* The entries. *)

SetupBegin(e) ==
    /\ running /\ entry[e] = "out"
    /\ entry' = [entry EXCEPT ![e] = "setup"]
    /\ UNCHANGED <<running, phase, pending, owner, due, kick, lost, prime, job, form,
                   store, left, cut, undone>>

SetupEnd(e) ==
    /\ entry[e] = "setup"
    /\ entry' = [entry EXCEPT ![e] = "ready"]
    /\ Schedule(e, TRUE)
    /\ UNCHANGED <<running, phase, pending, lost, job, form, left, cut>>

\* async_unload_entry cancels, then waits for the platforms.
UnloadBegin(e) ==
    /\ entry[e] = "ready"
    /\ e \in pending \/ left > 0
    /\ left' = IF e \in pending THEN left ELSE left - 1
    /\ pending' = pending \ {e}
    /\ entry' = [entry EXCEPT ![e] = "unloading"]
    /\ Cancel
    /\ owner' = IF owner = e THEN NoEntry ELSE owner
    /\ UNCHANGED <<running, phase, lost, job, form, cut>>

\* Mutant: the schedule goes with the entry.
UnloadEndAlone(e) ==
    /\ entry[e] = "unloading"
    /\ entry' = [entry EXCEPT ![e] = "out"]
    /\ UNCHANGED <<running, phase, pending, owner, due, kick, lost, prime, job, form,
                   store, left, cut, undone>>

\* The updater is gone; another entry takes over.
UnloadEnd(e) ==
    /\ entry[e] = "unloading"
    /\ entry' = [entry EXCEPT ![e] = "out"]
    /\ \/ \E other \in InData \ {e} : Schedule(other, FALSE)
       \/ InData = {e} /\ UNCHANGED <<owner, prime, due, kick, store, undone>>
    /\ UNCHANGED <<running, phase, pending, lost, job, form, left, cut>>

UnloadFails(e) ==
    /\ entry[e] = "unloading"
    /\ entry' = [entry EXCEPT ![e] = "failed"]
    /\ cut' = TRUE
    /\ UNCHANGED <<running, phase, pending, owner, due, kick, lost, prime, job, form,
                   store, left, undone>>

\* async_remove_entry, after the unload.
Remove(e) ==
    /\ running /\ entry[e] \in {"out", "setup", "failed"} /\ left > 0
    /\ left' = left - 1
    /\ entry' = [entry EXCEPT ![e] = "gone"]
    /\ pending' = pending \ {e}
    /\ Cancel
    /\ owner' = IF owner = e THEN NoEntry ELSE owner
    /\ cut' = TRUE
    /\ UNCHANGED <<running, phase, lost, job, form>>

(* The settings: set_global_auto_purge reads the store and writes it back. *)

Submit(e, every) ==
    /\ entry[e] = "ready" /\ form = NoForm /\ left > 0
    /\ left' = left - 1
    /\ form' = [by |-> e, every |-> every, snap |-> store]
    /\ UNCHANGED <<running, phase, entry, pending, owner, due, kick, lost, prime, job,
                   store, cut, undone>>

\* The update listener then reloads the entry, if it is still there.
SaveSettings ==
    /\ form # NoForm
    /\ store' = [form.snap EXCEPT !.every = form.every]
    /\ pending' = pending \cup ({form.by} \cap InData)
    /\ form' = NoForm
    /\ undone' = FALSE
    /\ cut' = (cut \/ entry[form.by] # "ready")
    /\ UNCHANGED <<running, phase, entry, owner, due, kick, lost, prime, job, left>>

-----------------------------------------------------------------------------
(* Home Assistant and the clock. *)

Stop ==
    /\ running
    /\ running' = FALSE
    /\ entry' = [e \in Entries |-> IF entry[e] = "gone" THEN "gone" ELSE "out"]
    /\ pending' = {} /\ owner' = NoEntry /\ lost' = {}
    /\ job' = [r \in Runs |-> NoJob]
    /\ form' = NoForm
    /\ cut' = FALSE
    /\ Cancel
    /\ UNCHANGED <<phase, left>>

Start ==
    /\ ~running
    /\ running' = TRUE
    /\ UNCHANGED <<phase, entry, pending, owner, due, kick, lost, prime, job, form, store,
                   left, cut, undone>>

Busy ==
    \/ prime.at # "idle" \/ form # NoForm
    \/ \E r \in Runs : job[r].at # "idle"
    \/ \E e \in Entries : entry[e] = "unloading" \/ (entry[e] = "ready" /\ e \in pending)

Closer(d) == IF d > 0 THEN d - 1 ELSE d

\* Midnight, or the configured hour.  Bound: neither comes while a task of the
\* scheduler is under way, or in the minute before a kickoff.
Tick ==
    /\ ~Busy /\ ~kick /\ due # 0 /\ 0 \notin lost
    /\ phase' = IF phase = "before" THEN "after" ELSE "before"
    /\ IF phase = "before"
       THEN /\ due' = Closer(due)
            /\ lost' = {Closer(d) : d \in lost}
            /\ store' = [store EXCEPT !.due = Closer(@)]
       ELSE UNCHANGED <<due, lost, store>>
    /\ UNCHANGED <<running, entry, pending, owner, kick, prime, job, form, left, cut, undone>>

LastRunAges ==
    /\ store.last = "recent" /\ ~Busy
    /\ store' = [store EXCEPT !.last = "old"]
    /\ UNCHANGED <<running, phase, entry, pending, owner, due, kick, lost, prime, job,
                   form, left, cut, undone>>

PrimeStep == PrimeCfg \/ PrimeOff \/ PrimeArm \/ PrimeKick \/ PrimePersist \/ PrimeSave

Next ==
    \/ PrimeStep
    \/ \E r \in Runs : Fire(r) \/ JobOff(r) \/ JobStart(r) \/ JobRecord(r)
    \/ \E e \in Entries :
          \/ SetupBegin(e) \/ SetupEnd(e) \/ UnloadBegin(e) \/ UnloadEnd(e)
          \/ UnloadFails(e) \/ Remove(e)
          \/ \E every \in Freqs : Submit(e, every)
    \/ SaveSettings \/ Stop \/ Start \/ Tick \/ LastRunAges

\* Time passes and the last run ages; what has started goes on; and Home
\* Assistant is not stopped each time before a setup has armed its timers,
\* before a timer that is due has fired or before a run has read its schedule.
Fairness ==
    /\ SF_vars(Tick) /\ SF_vars(LastRunAges)
    /\ SF_vars(PrimeKick) /\ WF_vars(PrimeStep)
    /\ SF_vars(\E r \in Runs : Fire(r))
    /\ \A r \in Runs : SF_vars(JobStart(r)) /\ WF_vars(JobOff(r) \/ JobRecord(r))
    /\ WF_vars(SaveSettings)
    /\ \A e \in Entries : WF_vars(UnloadEnd(e)) /\ WF_vars(e \in pending /\ UnloadBegin(e))

Spec == Init /\ [][Next]_vars /\ Fairness

-----------------------------------------------------------------------------
(* Properties. *)

\* Type invariant.  A kickoff is never pending without a deadline behind it,
\* and off is never armed.
TypeOK ==
    /\ running \in BOOLEAN /\ phase \in {"before", "after"}
    /\ entry \in [Entries -> {"out", "setup", "ready", "unloading", "failed", "gone"}]
    /\ pending \subseteq Entries
    /\ owner \in Entries \cup {NoEntry}
    /\ due \in Dues \cup {None} /\ kick \in BOOLEAN /\ lost \subseteq Dues
    /\ prime \in Primes
    /\ job \in [Runs -> Jobs]
    /\ form \in Forms
    /\ store \in Stores
    /\ left \in 0..Interventions
    /\ cut \in BOOLEAN /\ undone \in BOOLEAN
    /\ kick => due # None

\* Whenever nothing is under way and the purge is on, a deadline is armed: no
\* setup, reload, handover to another entry, run or save of the settings, in
\* any order, leaves the scheduler without one.  (Removing an entry and
\* failing to unload one do, and are excepted, as is a save of the settings
\* that ends when its entry is no longer loaded, which nobody reads.)
DeadlineArmed ==
    /\ running /\ ~Busy /\ (\E e \in Entries : entry[e] = "ready")
    /\ store.every # 0
    /\ ~cut /\ ~undone
    => due # None \/ lost # {}

\* However often Home Assistant is restarted, the purge runs again and again
\* for as long as deadlines are armed again and again: a setup keeps the stored
\* deadline and makes up for one that passed while Home Assistant was down.
PurgeHappens ==
    []<>(due # None) => []<><<\E r \in Runs : JobStart(r)>>_vars
=============================================================================
