--------------------------- MODULE AutoPurge_proofs ---------------------------
(***************************************************************************)
(* Proofs about AutoPurge, for any entries, runs, interventions and set of *)
(* frequencies that has a largest one.                                     *)
(***************************************************************************)
EXTENDS AutoPurge, TLAPS

\* While Home Assistant is down no entry is set up.
DownIsOut == ~running => \A e \in Entries : entry[e] \in {"out", "gone"}

\* The task that arms the timer knows the purge on, and has armed it by the time it looks for a kickoff, and
\* whoever cancels the timer cancels the task.
PrimeShape ==
    /\ prime.at = "off" => prime.every = 0
    /\ prime.at \in {"kept", "kick", "persist"} => prime.every # 0
    /\ prime.at \in {"kick", "persist"} => due # None
    /\ prime.at = "save" /\ prime.out.every # 0 => due # None

ReloadAhead == \E e \in Entries : entry[e] = "ready" /\ e \in pending
Off == prime.at = "off" \/ (prime.at = "save" /\ prime.out.every = 0)

\* The task found the purge off and somebody has switched it on since: a reload comes.
OffWaits ==
    Off /\ store.every # 0 /\ ~cut /\ ~undone => due # None \/ ReloadAhead

\* Something under way will arm a deadline, or hand over to what will.
Will ==
    \/ prime.at \in {"cfg", "kept"}
    \/ \E r \in Runs : job[r].at = "cfg"
    \/ \E e \in Entries : entry[e] = "unloading"
    \/ ReloadAhead

On == running /\ (\E e \in Entries : entry[e] = "ready") /\ store.every # 0 /\ ~cut /\ ~undone

\* DeadlineArmed, said of every moment.
ArmedOrWill == On => due # None \/ lost # {} \/ Will

\* Only an entry saves the settings.
FormShape == form = NoForm \/ form.by \in Entries

IInv == TypeOK /\ DownIsOut /\ PrimeShape /\ OffWaits /\ ArmedOrWill

-----------------------------------------------------------------------------
LEMMA LastIsLast ==
  /\ Last \in Freqs /\ \A f \in Freqs : f \in Nat /\ f <= Last
  /\ None = -1 /\ None \notin Dues /\ 0 \in Dues /\ 1 \in Dues
  /\ Freqs \subseteq Dues /\ Dues \subseteq Nat
<1>1. Last \in Freqs /\ \A f \in Freqs : f <= Last
  BY FreqsHaveLast DEF Last
<1> QED
  BY <1>1, FreqsAreNat DEF None, Dues

LEMMA Constants0 ==
  /\ AnyStore \in Stores /\ NoPrime \in Primes /\ NoPrime.at = "idle"
  /\ NoJob \in Jobs /\ NoJob.at = "idle" /\ NoForm \in Forms
<1>1. AnyStore \in Stores
  BY LastIsLast DEF AnyStore, Stores
<1>2. NoPrime \in Primes /\ NoPrime.at = "idle"
  BY <1>1, LastIsLast DEF NoPrime, Primes
<1>3. NoJob \in Jobs /\ NoJob.at = "idle"
  BY LastIsLast DEF NoJob, Jobs
<1>4. NoForm \in Forms
  BY <1>1, LastIsLast DEF NoForm, Forms
<1> QED
  BY <1>1, <1>2, <1>3, <1>4

LEMMA InitInv == Init => IInv
<1> SUFFICES ASSUME Init PROVE IInv
  OBVIOUS
<1>1. /\ prime = NoPrime /\ due = None /\ kick = FALSE /\ lost = {} /\ running = FALSE
      /\ \A e \in Entries : entry[e] = "out"
  BY DEF Init
<1>2. TypeOK
  <2>1. store \in Stores /\ left \in 0..Interventions
    BY InterventionsNat DEF Init
  <2>2. /\ entry \in [Entries -> {"out", "setup", "ready", "unloading", "failed", "gone"}]
        /\ job \in [Runs -> Jobs] /\ prime \in Primes /\ form \in Forms
    BY Constants0 DEF Init
  <2>3. /\ running \in BOOLEAN /\ phase \in {"before", "after"} /\ pending \subseteq Entries
        /\ owner \in Entries \cup {NoEntry} /\ cut \in BOOLEAN /\ undone \in BOOLEAN
    BY DEF Init
  <2> QED
    BY <1>1, <2>1, <2>2, <2>3 DEF TypeOK
<1>3. DownIsOut /\ PrimeShape /\ OffWaits /\ ArmedOrWill
  BY <1>1, Constants0 DEF DownIsOut, PrimeShape, OffWaits, Off, ArmedOrWill, On
<1> QED
  BY <1>2, <1>3 DEF IInv

LEMMA NextRunTypes == \A every \in Freqs : NextRun(every) \in Dues /\ NextRun(every) # None
BY LastIsLast DEF NextRun

\* A save of the cancelled task may land: then it is what the task would have saved.
LEMMA StoppedTypes ==
  ASSUME TypeOK, PrimeStopped
  PROVE  /\ store' \in Stores /\ undone' \in BOOLEAN
         /\ ~undone' => ~undone /\ store'.every = store.every
BY DEF TypeOK, PrimeStopped, Primes

LEMMA CancelTypes ==
  ASSUME TypeOK, Cancel
  PROVE  /\ store' \in Stores /\ undone' \in BOOLEAN /\ prime' \in Primes
         /\ prime'.at = "idle" /\ due' = None /\ kick' = FALSE
         /\ PrimeShape' /\ OffWaits'
<1>1. /\ store' \in Stores /\ undone' \in BOOLEAN /\ prime' = NoPrime /\ due' = None
      /\ kick' = FALSE
  BY StoppedTypes DEF Cancel
<1> QED
  BY <1>1, Constants0 DEF PrimeShape, OffWaits, Off

-----------------------------------------------------------------------------
(* _prime *)

LEMMA PrimeWaitInv ==
  /\ IInv /\ PrimeCfg => IInv'
  /\ IInv /\ PrimeOff => IInv'
  /\ IInv /\ PrimePersist => IInv'
<1>0. ASSUME IInv, NEW p \in Primes, prime' = p, prime.at # "kept",
             UNCHANGED <<running, phase, entry, pending, owner, due, kick, lost, job, form,
                         store, left, cut, undone>>,
             PrimeShape', OffWaits',
             prime.at = "cfg" /\ store.every # 0 => p.at = "kept"
      PROVE  IInv'
  <2>1. TypeOK' /\ DownIsOut'
    BY <1>0 DEF IInv, TypeOK, DownIsOut
  <2>2. ArmedOrWill'
    BY <1>0 DEF IInv, ArmedOrWill, On, Will, ReloadAhead
  <2> QED
    BY <1>0, <2>1, <2>2 DEF IInv
<1>1. ASSUME IInv, PrimeCfg PROVE IInv'
  <2> DEFINE p == [prime EXCEPT !.every = store.every,
                                !.at = IF store.every = 0 THEN "off" ELSE "kept"]
  <2>1. /\ p \in Primes /\ p.every = store.every
        /\ p.at = IF store.every = 0 THEN "off" ELSE "kept"
    BY <1>1 DEF IInv, TypeOK, Primes, Stores
  <2>2. /\ prime' = p /\ prime.at = "cfg"
        /\ UNCHANGED <<running, phase, entry, pending, owner, due, kick, lost, job, form,
                       store, left, cut, undone>>
    BY <1>1 DEF PrimeCfg
  <2> HIDE DEF p
  <2>3. PrimeShape' /\ OffWaits'
    BY <2>1, <2>2 DEF PrimeShape, OffWaits, Off
  <2> QED
    BY <1>0, <1>1, <2>1, <2>2, <2>3
<1>2. ASSUME IInv, PrimeOff PROVE IInv'
  <2> DEFINE o == [store EXCEPT !.due = None, !.for = None, !.every = 0]
             p == [prime EXCEPT !.at = "save", !.out = o]
  <2>1. prime.at = "off" /\ store \in Stores /\ prime \in Primes
    BY <1>1, <1>2 DEF PrimeOff, IInv, TypeOK
  <2>2. o \in Stores /\ o.every = 0
    <3>1. 0 \in Freqs
      BY <1>2, <2>1 DEF IInv, PrimeShape, Primes
    <3> QED
      BY <2>1, <3>1 DEF Stores
  <2>3. p \in Primes /\ p.at = "save" /\ p.out = o
    BY <2>1, <2>2 DEF Primes
  <2>4. /\ prime' = p
        /\ UNCHANGED <<running, phase, entry, pending, owner, due, kick, lost, job, form,
                       store, left, cut, undone>>
    BY <1>2 DEF PrimeOff
  <2> HIDE DEF o, p
  <2>5. PrimeShape' /\ OffWaits'
    BY <1>2, <2>1, <2>2, <2>3, <2>4 DEF IInv, PrimeShape, OffWaits, Off, ReloadAhead
  <2> QED
    BY <1>0, <1>2, <2>1, <2>3, <2>4, <2>5
<1>3. ASSUME IInv, PrimePersist PROVE IInv'
  <2> DEFINE o == [store EXCEPT !.due = prime.first, !.for = prime.every, !.every = prime.every]
             p == [prime EXCEPT !.at = "save", !.out = o]
  <2>1. /\ prime.at = "persist" /\ store \in Stores /\ prime \in Primes
        /\ prime.every # 0 /\ due # None
    BY <1>3 DEF PrimePersist, IInv, TypeOK, PrimeShape
  <2>2. o \in Stores /\ o.every = prime.every
    BY <2>1 DEF Stores, Primes
  <2>3. p \in Primes /\ p.at = "save" /\ p.out = o
    BY <2>1, <2>2 DEF Primes
  <2>4. /\ prime' = p
        /\ UNCHANGED <<running, phase, entry, pending, owner, due, kick, lost, job, form,
                       store, left, cut, undone>>
    BY <1>3 DEF PrimePersist
  <2> HIDE DEF o, p
  <2>5. PrimeShape' /\ OffWaits'
    BY <2>1, <2>2, <2>3, <2>4 DEF PrimeShape, OffWaits, Off
  <2> QED
    BY <1>0, <1>3, <2>1, <2>3, <2>4, <2>5
<1> QED
  BY <1>1, <1>2, <1>3
\* A timer is armed by a step that leaves the entries alone.
LEMMA ArmKeeps ==
  ASSUME IInv, NEW d \in Dues, Arm(d), prime' \in Primes, job' \in [Runs -> Jobs],
         UNCHANGED <<running, phase, entry, pending, owner, kick, form, store, left, undone>>,
         PrimeShape'
  PROVE  IInv'
<1>1. due' = d /\ d # None /\ lost' \subseteq Dues /\ cut' = FALSE
  BY LastIsLast DEF Arm, IInv, TypeOK
<1>2. TypeOK' /\ DownIsOut'
  BY <1>1 DEF IInv, TypeOK, DownIsOut
<1> QED
  BY <1>1, <1>2 DEF IInv, OffWaits, ArmedOrWill

LEMMA PrimeArmInv == IInv /\ PrimeArm => IInv'
<1> SUFFICES ASSUME IInv, PrimeArm PROVE IInv'
  OBVIOUS
<1> DEFINE first == IF Kept(prime.every) THEN store.due ELSE NextRun(prime.every)
           p == [prime EXCEPT !.first = first, !.at = IF prime.kickoff THEN "kick" ELSE "persist"]
<1>1. prime \in Primes /\ prime.every \in Freqs /\ prime.every # 0 /\ store.due \in Dues \cup {None}
  BY DEF IInv, TypeOK, PrimeArm, PrimeShape, Primes, Stores
<1>2. first \in Dues
  <2>1. CASE Kept(prime.every)
    BY <1>1, <2>1, LastIsLast DEF Kept
  <2>2. CASE ~Kept(prime.every)
    BY <1>1, <2>2, NextRunTypes
  <2> QED
    BY <2>1, <2>2
<1> HIDE DEF first
<1>3. p \in Primes /\ p.at \in {"kick", "persist"} /\ p.every = prime.every
  BY <1>1, <1>2 DEF Primes
<1>4. /\ Arm(first) /\ prime' = p
      /\ UNCHANGED <<running, phase, entry, pending, owner, kick, job, form, store, left, undone>>
  BY DEF PrimeArm, first
<1>5. PrimeShape'
  BY <1>1, <1>2, <1>3, <1>4, LastIsLast DEF PrimeShape, Arm
<1>6. job' \in [Runs -> Jobs]
  BY <1>4 DEF IInv, TypeOK
<1> HIDE DEF p
<1> QED
  BY <1>2, <1>3, <1>4, <1>5, <1>6, ArmKeeps

LEMMA PrimeKickInv == IInv /\ PrimeKick => IInv'
<1> SUFFICES ASSUME IInv, PrimeKick PROVE IInv'
  OBVIOUS
<1> DEFINE p == [prime EXCEPT !.at = "persist"]
<1>1. prime.at = "kick" /\ due # None /\ prime \in Primes /\ prime.every # 0
  BY DEF IInv, TypeOK, PrimeKick, PrimeShape
<1>2. p \in Primes /\ p.at = "persist" /\ p.every = prime.every
  BY <1>1 DEF Primes
<1>3. /\ prime' = p /\ kick' \in BOOLEAN
      /\ UNCHANGED <<running, phase, entry, pending, owner, due, lost, job, form, store,
                     left, cut, undone>>
  BY DEF PrimeKick
<1> HIDE DEF p
<1>4. TypeOK' /\ DownIsOut'
  BY <1>1, <1>2, <1>3 DEF IInv, TypeOK, DownIsOut
<1>5. PrimeShape' /\ OffWaits' /\ ArmedOrWill'
  BY <1>1, <1>2, <1>3 DEF PrimeShape, OffWaits, ArmedOrWill
<1> QED
  BY <1>4, <1>5 DEF IInv

LEMMA PrimeSaveInv == IInv /\ PrimeSave => IInv'
<1> SUFFICES ASSUME IInv, PrimeSave PROVE IInv'
  OBVIOUS
<1>1. /\ prime.at = "save" /\ store' = prime.out /\ prime' = NoPrime
      /\ undone' = (undone \/ prime.out.every # store.every)
      /\ UNCHANGED <<running, phase, entry, pending, owner, due, kick, lost, job, form,
                     left, cut>>
  BY DEF PrimeSave
<1>2. store' \in Stores /\ undone' \in BOOLEAN /\ (~undone' => ~undone /\ store'.every = store.every)
  BY <1>1 DEF IInv, TypeOK, Primes
<1>3. TypeOK' /\ DownIsOut'
  BY <1>1, <1>2, Constants0 DEF IInv, TypeOK, DownIsOut
<1>4. PrimeShape' /\ OffWaits'
  BY <1>1, Constants0 DEF PrimeShape, OffWaits, Off
<1>5. ArmedOrWill'
  BY <1>1, <1>2 DEF IInv, ArmedOrWill, On, Will, ReloadAhead
<1> QED
  BY <1>3, <1>4, <1>5 DEF IInv

-----------------------------------------------------------------------------
(* _job *)

LEMMA FireInv == ASSUME NEW r \in Runs PROVE IInv /\ Fire(r) => IInv'
<1> SUFFICES ASSUME IInv, Fire(r) PROVE IInv'
  OBVIOUS
<1> DEFINE j == [NoJob EXCEPT !.at = "cfg"]
<1>1. j \in Jobs /\ j.at = "cfg"
  BY Constants0 DEF Jobs
<1>2. /\ job' = [job EXCEPT ![r] = j] /\ Cancel
      /\ UNCHANGED <<running, phase, entry, pending, owner, form, left, cut>>
  BY DEF Fire
<1>3. job \in [Runs -> Jobs] /\ lost' \subseteq Dues
  BY DEF IInv, TypeOK, Fire
<1> HIDE DEF j
<1>4. job' \in [Runs -> Jobs] /\ job'[r].at = "cfg"
  BY <1>1, <1>2, <1>3
<1>5. TypeOK' /\ DownIsOut'
  BY <1>2, <1>3, <1>4, CancelTypes DEF IInv, TypeOK, DownIsOut
<1>6. ArmedOrWill'
  BY <1>4 DEF ArmedOrWill, Will
<1> QED
  BY <1>2, <1>5, <1>6, CancelTypes DEF IInv

LEMMA JobInv ==
  ASSUME NEW r \in Runs
  PROVE  /\ IInv /\ JobOff(r) => IInv'
         /\ IInv /\ JobStart(r) => IInv'
         /\ IInv /\ JobRecord(r) => IInv'
<1>1. ASSUME IInv, JobOff(r) PROVE IInv'
  <2>1. /\ store.every = 0 /\ job' = [job EXCEPT ![r] = NoJob] /\ job \in [Runs -> Jobs]
        /\ UNCHANGED <<running, phase, entry, pending, owner, due, kick, lost, prime, form,
                       store, left, cut, undone>>
    BY <1>1 DEF JobOff, IInv, TypeOK
  <2>2. TypeOK' /\ DownIsOut'
    BY <1>1, <2>1, Constants0 DEF IInv, TypeOK, DownIsOut
  <2>3. PrimeShape' /\ OffWaits' /\ ArmedOrWill'
    BY <1>1, <2>1 DEF IInv, PrimeShape, OffWaits, ArmedOrWill, On
  <2> QED
    BY <2>2, <2>3 DEF IInv
<1>2. ASSUME IInv, JobStart(r) PROVE IInv'
  <2> DEFINE d == NextRun(store.every)
             j == [at |-> "run", every |-> store.every, next |-> d]
  <2>1. store.every \in Freqs /\ job \in [Runs -> Jobs] /\ prime \in Primes
    BY <1>2 DEF IInv, TypeOK, Stores
  <2>2. d \in Dues /\ d # None
    BY <2>1, NextRunTypes
  <2> HIDE DEF d
  <2>3. j \in Jobs
    BY <2>1, <2>2 DEF Jobs
  <2>4. /\ Arm(d) /\ job' = [job EXCEPT ![r] = j]
        /\ UNCHANGED <<running, phase, entry, pending, owner, kick, prime, form, store, left,
                       undone>>
    BY <1>2 DEF JobStart, d
  <2> HIDE DEF j
  <2>5. job' \in [Runs -> Jobs]
    BY <2>1, <2>3, <2>4
  <2>6. PrimeShape'
    BY <1>2, <2>2, <2>4 DEF IInv, PrimeShape, Arm
  <2> QED
    BY <1>2, <2>1, <2>2, <2>4, <2>5, <2>6, ArmKeeps
<1>3. ASSUME IInv, JobRecord(r) PROVE IInv'
  <2> DEFINE s == [every |-> job[r].every, due |-> job[r].next, for |-> job[r].every,
                   last |-> "recent"]
  <2>1. job[r] \in Jobs /\ job \in [Runs -> Jobs] /\ job[r].at = "run"
    BY <1>3 DEF IInv, TypeOK, JobRecord
  <2>2. s \in Stores /\ s.every = job[r].every
    BY <2>1 DEF Jobs, Stores
  <2>3. /\ store' = s /\ job' = [job EXCEPT ![r] = NoJob]
        /\ undone' = (undone \/ s.every # store.every)
        /\ UNCHANGED <<running, phase, entry, pending, owner, due, kick, lost, prime, form,
                       left, cut>>
    BY <1>3, <2>2 DEF JobRecord
  <2> HIDE DEF s
  <2>4. undone' \in BOOLEAN /\ (~undone' => ~undone /\ store'.every = store.every)
    BY <1>3, <2>3 DEF IInv, TypeOK
  <2>5. /\ job' \in [Runs -> Jobs]
        /\ \A i \in Runs : job[i].at = "cfg" => job'[i].at = "cfg"
    BY <2>1, <2>3, Constants0
  <2>6. TypeOK' /\ DownIsOut'
    BY <1>3, <2>2, <2>3, <2>4, <2>5 DEF IInv, TypeOK, DownIsOut
  <2>7. PrimeShape' /\ OffWaits'
    BY <1>3, <2>3, <2>4 DEF IInv, PrimeShape, OffWaits, Off, ReloadAhead
  <2>8. ArmedOrWill'
    BY <1>3, <2>3, <2>4, <2>5 DEF IInv, ArmedOrWill, On, Will, ReloadAhead
  <2> QED
    BY <2>6, <2>7, <2>8 DEF IInv
<1> QED
  BY <1>1, <1>2, <1>3
-----------------------------------------------------------------------------
(* The entries. *)

States == {"out", "setup", "ready", "unloading", "failed", "gone"}

\* An entry that finds the scheduler held by another starts nothing.
LEMMA ScheduleIs ==
  ASSUME IInv, NEW e \in Entries, NEW kickoff \in BOOLEAN, Schedule(e, kickoff)
  PROVE  /\ owner' \in Entries \cup {NoEntry} /\ prime' \in Primes
         /\ due' \in Dues \cup {None} /\ kick' \in BOOLEAN /\ (kick' => due' # None)
         /\ store' \in Stores /\ undone' \in BOOLEAN /\ PrimeShape'
         /\ ~undone' => ~undone /\ store'.every = store.every
         /\ \/ prime'.at = "cfg"
            \/ /\ UNCHANGED <<owner, prime, due, kick, store, undone>>
               /\ due # None \/ prime.at # "idle"
<1>1. CASE UNCHANGED <<owner, prime, due, kick, store, undone>> /\ (due # None \/ prime.at # "idle")
  BY <1>1 DEF IInv, TypeOK, PrimeShape
<1>2. CASE ~(owner \notin {NoEntry, e} /\ (due # None \/ prime.at # "idle"))
  <2> DEFINE p == [NoPrime EXCEPT !.at = "cfg", !.kickoff = kickoff]
  <2>1. p \in Primes /\ p.at = "cfg"
    BY Constants0 DEF Primes
  <2>2. PrimeStopped /\ owner' = e /\ prime' = p /\ due' = None /\ kick' = FALSE
    BY <1>2 DEF Schedule
  <2> HIDE DEF p
  <2>3. PrimeShape'
    BY <2>1, <2>2 DEF PrimeShape
  <2> QED
    BY <2>1, <2>2, <2>3, StoppedTypes DEF IInv
<1> QED
  BY <1>1, <1>2 DEF Schedule

\* Who holds the scheduler has armed it or will.
LEMMA HeldIsAhead ==
  ASSUME IInv, due # None \/ prime.at # "idle", store.every # 0, ~cut, ~undone
  PROVE  due # None \/ prime.at \in {"cfg", "kept"} \/ ReloadAhead
<1>1. prime.at \in {"idle", "cfg", "off", "kept", "kick", "persist", "save"}
  BY DEF IInv, TypeOK, Primes
<1> QED
  BY <1>1 DEF IInv, PrimeShape, OffWaits, Off

LEMMA EntryTypes ==
  ASSUME IInv, NEW e \in Entries, NEW s \in States, entry' = [entry EXCEPT ![e] = s]
  PROVE  /\ entry' \in [Entries -> States] /\ entry'[e] = s
         /\ \A f \in Entries : f # e => entry'[f] = entry[f]
         /\ entry[e] # "ready" /\ ReloadAhead /\ pending' = pending => ReloadAhead'
BY DEF IInv, TypeOK, States, ReloadAhead

LEMMA SetupInv ==
  ASSUME NEW e \in Entries
  PROVE  /\ IInv /\ SetupBegin(e) => IInv'
         /\ IInv /\ SetupEnd(e) => IInv'
<1>1. ASSUME IInv, SetupBegin(e) PROVE IInv'
  <2>1. /\ running /\ entry[e] = "out" /\ entry' = [entry EXCEPT ![e] = "setup"]
        /\ UNCHANGED <<running, phase, pending, owner, due, kick, lost, prime, job, form,
                       store, left, cut, undone>>
    BY <1>1 DEF SetupBegin
  <2>2. /\ entry' \in [Entries -> States] /\ entry'[e] = "setup"
        /\ \A f \in Entries : f # e => entry'[f] = entry[f]
        /\ ReloadAhead => ReloadAhead'
    BY <1>1, <2>1, EntryTypes DEF States
  <2>3. TypeOK' /\ DownIsOut'
    BY <1>1, <2>1, <2>2 DEF IInv, TypeOK, DownIsOut, States
  <2>4. PrimeShape' /\ OffWaits'
    BY <1>1, <2>1, <2>2 DEF IInv, PrimeShape, OffWaits, Off
  <2>5. ArmedOrWill'
    BY <1>1, <2>1, <2>2 DEF IInv, ArmedOrWill, On, Will
  <2> QED
    BY <2>3, <2>4, <2>5 DEF IInv
<1>2. ASSUME IInv, SetupEnd(e) PROVE IInv'
  <2>1. /\ entry[e] = "setup" /\ entry' = [entry EXCEPT ![e] = "ready"] /\ Schedule(e, TRUE)
        /\ UNCHANGED <<running, phase, pending, lost, job, form, left, cut>>
    BY <1>2 DEF SetupEnd
  <2>2. /\ entry' \in [Entries -> States] /\ entry'[e] = "ready"
        /\ \A f \in Entries : f # e => entry'[f] = entry[f]
        /\ ReloadAhead => ReloadAhead'
    BY <1>2, <2>1, EntryTypes DEF States
  <2>3. TypeOK'
    BY <1>2, <2>1, <2>2, ScheduleIs DEF IInv, TypeOK, States
  <2>4. DownIsOut'
    BY <1>2, <2>1, <2>2 DEF IInv, DownIsOut
  <2>5. PrimeShape'
    BY <1>2, <2>1, ScheduleIs
  <2>6. CASE prime'.at = "cfg"
    BY <2>3, <2>4, <2>5, <2>6 DEF IInv, OffWaits, Off, ArmedOrWill, Will
  <2>7. CASE /\ UNCHANGED <<owner, prime, due, kick, store, undone>>
             /\ due # None \/ prime.at # "idle"
    <3>1. OffWaits'
      BY <1>2, <2>1, <2>2, <2>7 DEF IInv, OffWaits, Off
    <3>2. ArmedOrWill'
      BY <1>2, <2>1, <2>2, <2>7, HeldIsAhead DEF ArmedOrWill, On, Will
    <3> QED
      BY <2>3, <2>4, <2>5, <3>1, <3>2 DEF IInv
  <2> QED
    BY <1>2, <2>1, <2>6, <2>7, ScheduleIs
<1> QED
  BY <1>1, <1>2

LEMMA UnloadBeginInv == ASSUME NEW e \in Entries PROVE IInv /\ UnloadBegin(e) => IInv'
<1> SUFFICES ASSUME IInv, UnloadBegin(e) PROVE IInv'
  OBVIOUS
<1>1. /\ entry[e] = "ready" /\ entry' = [entry EXCEPT ![e] = "unloading"] /\ Cancel
      /\ pending' = pending \ {e} /\ owner' = IF owner = e THEN NoEntry ELSE owner
      /\ UNCHANGED <<running, phase, lost, job, form, cut>>
  BY DEF UnloadBegin
<1>2. left' \in 0..Interventions
  <2>1. CASE e \in pending
    BY <2>1 DEF UnloadBegin, IInv, TypeOK
  <2>2. CASE e \notin pending
    <3>1. left' = left - 1 /\ left > 0 /\ left \in 0..Interventions
      BY <2>2 DEF UnloadBegin, IInv, TypeOK
    <3> QED
      BY <3>1, InterventionsNat
  <2> QED
    BY <2>1, <2>2
<1>3. /\ entry' \in [Entries -> States] /\ entry'[e] = "unloading"
      /\ \A f \in Entries : f # e => entry'[f] = entry[f]
  BY <1>1, EntryTypes DEF States
<1>4. TypeOK'
  BY <1>1, <1>2, <1>3, CancelTypes DEF IInv, TypeOK, States
<1>5. DownIsOut'
  BY <1>1, <1>3 DEF IInv, DownIsOut
<1>6. ArmedOrWill'
  BY <1>3 DEF ArmedOrWill, Will
<1> QED
  BY <1>1, <1>4, <1>5, <1>6, CancelTypes DEF IInv

LEMMA UnloadEndInv == ASSUME NEW e \in Entries PROVE IInv /\ UnloadEnd(e) => IInv'
<1> SUFFICES ASSUME IInv, UnloadEnd(e) PROVE IInv'
  OBVIOUS
<1>1. /\ entry[e] = "unloading" /\ entry' = [entry EXCEPT ![e] = "out"]
      /\ UNCHANGED <<running, phase, pending, lost, job, form, left, cut>>
  BY DEF UnloadEnd
<1>2. /\ entry' \in [Entries -> States] /\ entry'[e] = "out"
      /\ \A f \in Entries : f # e => entry'[f] = entry[f]
      /\ ReloadAhead => ReloadAhead'
  BY <1>1, EntryTypes DEF States
<1>3. DownIsOut'
  BY <1>1, <1>2 DEF IInv, DownIsOut
<1>4. CASE InData = {e} /\ UNCHANGED <<owner, prime, due, kick, store, undone>>
  <2>1. \A f \in Entries : entry'[f] # "ready"
    BY <1>2, <1>4 DEF InData
  <2>2. TypeOK'
    BY <1>1, <1>2, <1>4 DEF IInv, TypeOK, States
  <2>3. PrimeShape' /\ OffWaits' /\ ArmedOrWill'
    BY <1>1, <1>2, <1>4, <2>1 DEF IInv, PrimeShape, OffWaits, Off, ArmedOrWill, On
  <2> QED
    BY <1>3, <2>2, <2>3 DEF IInv
<1>5. ASSUME NEW other \in InData \ {e}, Schedule(other, FALSE) PROVE IInv'
  <2>0. other \in Entries
    BY DEF InData
  <2>1. TypeOK' /\ PrimeShape'
    BY <1>1, <1>2, <1>5, <2>0, ScheduleIs DEF IInv, TypeOK, States
  <2>2. CASE prime'.at = "cfg"
    BY <1>3, <2>1, <2>2 DEF IInv, OffWaits, Off, ArmedOrWill, Will
  <2>3. CASE /\ UNCHANGED <<owner, prime, due, kick, store, undone>>
             /\ due # None \/ prime.at # "idle"
    <3>1. OffWaits'
      BY <1>1, <1>2, <2>3 DEF IInv, OffWaits, Off
    <3>2. ArmedOrWill'
      BY <1>1, <1>2, <2>3, HeldIsAhead DEF ArmedOrWill, On, Will
    <3> QED
      BY <1>3, <2>1, <3>1, <3>2 DEF IInv
  <2> QED
    BY <1>5, <2>0, <2>2, <2>3, ScheduleIs
<1> QED
  BY <1>4, <1>5 DEF UnloadEnd

LEMMA LeavesInv ==
  ASSUME NEW e \in Entries
  PROVE  /\ IInv /\ UnloadFails(e) => IInv'
         /\ IInv /\ Remove(e) => IInv'
<1>1. ASSUME IInv, UnloadFails(e) PROVE IInv'
  <2>1. /\ entry[e] = "unloading" /\ entry' = [entry EXCEPT ![e] = "failed"] /\ cut' = TRUE
        /\ UNCHANGED <<running, phase, pending, owner, due, kick, lost, prime, job, form,
                       store, left, undone>>
    BY <1>1 DEF UnloadFails
  <2>2. /\ entry' \in [Entries -> States]
        /\ \A f \in Entries : f # e => entry'[f] = entry[f]
    BY <1>1, <2>1, EntryTypes DEF States
  <2>3. TypeOK' /\ DownIsOut'
    BY <1>1, <2>1, <2>2 DEF IInv, TypeOK, DownIsOut, States
  <2> QED
    BY <1>1, <2>1, <2>3 DEF IInv, PrimeShape, OffWaits, ArmedOrWill, On
<1>2. ASSUME IInv, Remove(e) PROVE IInv'
  <2>1. /\ running /\ entry' = [entry EXCEPT ![e] = "gone"] /\ Cancel /\ cut' = TRUE
        /\ pending' = pending \ {e} /\ owner' = IF owner = e THEN NoEntry ELSE owner
        /\ left' = left - 1 /\ left > 0
        /\ UNCHANGED <<running, phase, lost, job, form>>
    BY <1>2 DEF Remove
  <2>2. entry' \in [Entries -> States] /\ left' \in 0..Interventions
    BY <1>2, <2>1, EntryTypes, InterventionsNat DEF States, IInv, TypeOK
  <2>3. TypeOK'
    BY <1>2, <2>1, <2>2, CancelTypes DEF IInv, TypeOK, States
  <2>4. DownIsOut' /\ ArmedOrWill'
    BY <2>1 DEF DownIsOut, ArmedOrWill, On
  <2> QED
    BY <1>2, <2>1, <2>3, <2>4, CancelTypes DEF IInv
<1> QED
  BY <1>1, <1>2

-----------------------------------------------------------------------------
(* The settings, Home Assistant and the clock. *)

LEMMA SubmitInv ==
  ASSUME NEW e \in Entries, NEW every \in Freqs
  PROVE  IInv /\ Submit(e, every) => IInv'
<1> SUFFICES ASSUME IInv, Submit(e, every) PROVE IInv'
  OBVIOUS
<1>1. /\ form' = [by |-> e, every |-> every, snap |-> store] /\ left' = left - 1 /\ left > 0
      /\ UNCHANGED <<running, phase, entry, pending, owner, due, kick, lost, prime, job,
                     store, cut, undone>>
  BY DEF Submit
<1>2. form' \in Forms /\ left' \in 0..Interventions
  BY <1>1, InterventionsNat DEF IInv, TypeOK, Forms
<1>3. TypeOK' /\ DownIsOut'
  BY <1>1, <1>2 DEF IInv, TypeOK, DownIsOut
<1>4. PrimeShape' /\ OffWaits'
  BY <1>1 DEF IInv, PrimeShape, OffWaits, Off, ReloadAhead
<1>5. ArmedOrWill'
  BY <1>1 DEF IInv, ArmedOrWill, On, Will, ReloadAhead
<1> QED
  BY <1>3, <1>4, <1>5 DEF IInv

\* The settings are saved for an entry, which reloads if it is ready.
LEMMA SaveSettingsInv == IInv /\ FormShape /\ SaveSettings => IInv'
<1> SUFFICES ASSUME IInv, FormShape, SaveSettings PROVE IInv'
  OBVIOUS
<1> DEFINE s == [form.snap EXCEPT !.every = form.every]
<1>1. /\ form \in Forms /\ form # NoForm /\ store' = s
      /\ pending' = pending \cup ({form.by} \cap InData) /\ form' = NoForm /\ undone' = FALSE
      /\ cut' = (cut \/ entry[form.by] # "ready")
      /\ UNCHANGED <<running, phase, entry, owner, due, kick, lost, prime, job, left>>
  BY DEF SaveSettings, IInv, TypeOK
<1>2. s \in Stores
  BY <1>1 DEF Forms, Stores
<1> HIDE DEF s
<1>3. pending' \subseteq Entries /\ cut' \in BOOLEAN
  BY <1>1 DEF IInv, TypeOK, InData
<1>4. TypeOK' /\ DownIsOut'
  BY <1>1, <1>2, <1>3, Constants0 DEF IInv, TypeOK, DownIsOut
<1>5. PrimeShape'
  BY <1>1 DEF IInv, PrimeShape
<1>6. ~cut' => ReloadAhead'
  BY <1>1 DEF FormShape, ReloadAhead, InData
<1> QED
  BY <1>4, <1>5, <1>6 DEF IInv, OffWaits, ArmedOrWill, On, Will

LEMMA StopInv == IInv /\ Stop => IInv'
<1> SUFFICES ASSUME IInv, Stop PROVE IInv'
  OBVIOUS
<1>1. /\ running' = FALSE
      /\ entry' = [e \in Entries |-> IF entry[e] = "gone" THEN "gone" ELSE "out"]
      /\ pending' = {} /\ owner' = NoEntry /\ lost' = {}
      /\ job' = [r \in Runs |-> NoJob] /\ form' = NoForm /\ cut' = FALSE /\ Cancel
      /\ UNCHANGED <<phase, left>>
  BY DEF Stop
<1>2. job' \in [Runs -> Jobs] /\ entry' \in [Entries -> States] /\ form' \in Forms
  BY <1>1, Constants0 DEF States
<1>3. TypeOK'
  BY <1>1, <1>2, CancelTypes DEF IInv, TypeOK, States
<1>4. DownIsOut' /\ ArmedOrWill'
  BY <1>1 DEF DownIsOut, ArmedOrWill, On
<1> QED
  BY <1>1, <1>3, <1>4, CancelTypes DEF IInv

LEMMA StartInv == IInv /\ Start => IInv'
<1> SUFFICES ASSUME IInv, Start PROVE IInv'
  OBVIOUS
<1>1. /\ ~running /\ running' = TRUE
      /\ UNCHANGED <<phase, entry, pending, owner, due, kick, lost, prime, job, form, store,
                     left, cut, undone>>
  BY DEF Start
<1>2. \A e \in Entries : entry'[e] # "ready"
  BY <1>1 DEF IInv, DownIsOut
<1>3. TypeOK' /\ DownIsOut'
  BY <1>1 DEF IInv, TypeOK, DownIsOut
<1> QED
  BY <1>1, <1>2, <1>3 DEF IInv, PrimeShape, OffWaits, Off, ReloadAhead, ArmedOrWill, On

LEMMA CloserTypes ==
  /\ \A d \in Dues : Closer(d) \in Dues
  /\ Closer(None) = None /\ \A d \in Dues : Closer(d) # None
BY LastIsLast DEF Closer, Dues

LEMMA TickInv == IInv /\ Tick => IInv'
<1> SUFFICES ASSUME IInv, Tick PROVE IInv'
  OBVIOUS
<1>1. /\ ~kick /\ prime.at = "idle" /\ phase' \in {"before", "after"}
      /\ UNCHANGED <<running, entry, pending, owner, kick, prime, job, form, left, cut, undone>>
  BY DEF Tick, Busy
<1>2. /\ due' \in Dues \cup {None} /\ (due # None => due' # None)
      /\ lost' \subseteq Dues /\ (lost # {} => lost' # {})
      /\ store' \in Stores /\ store'.every = store.every
  <2>0. due \in Dues \cup {None} /\ lost \subseteq Dues /\ store \in Stores
    BY DEF IInv, TypeOK
  <2>1. CASE phase = "before"
    <3> DEFINE d == Closer(store.due)
               s == [store EXCEPT !.due = d]
    <3>1. due' = Closer(due) /\ lost' = {Closer(x) : x \in lost} /\ store' = s
      BY <2>1 DEF Tick
    <3>2. d \in Dues \cup {None}
      BY <2>0, CloserTypes DEF Stores
    <3> HIDE DEF d
    <3>3. s \in Stores /\ s.every = store.every
      BY <2>0, <3>2 DEF Stores
    <3> QED
      BY <2>0, <3>1, <3>3, CloserTypes
  <2>2. CASE phase # "before"
    BY <2>0, <2>2 DEF Tick
  <2> QED
    BY <2>1, <2>2
<1>3. TypeOK' /\ DownIsOut'
  BY <1>1, <1>2 DEF IInv, TypeOK, DownIsOut
<1>4. PrimeShape' /\ OffWaits'
  BY <1>1 DEF PrimeShape, OffWaits, Off
<1>5. ArmedOrWill'
  BY <1>1, <1>2 DEF IInv, ArmedOrWill, On, Will, ReloadAhead
<1> QED
  BY <1>3, <1>4, <1>5 DEF IInv

LEMMA LastRunAgesInv == IInv /\ LastRunAges => IInv'
<1> SUFFICES ASSUME IInv, LastRunAges PROVE IInv'
  OBVIOUS
<1> DEFINE s == [store EXCEPT !.last = "old"]
<1>1. /\ store' = s
      /\ UNCHANGED <<running, phase, entry, pending, owner, due, kick, lost, prime, job,
                     form, left, cut, undone>>
  BY DEF LastRunAges
<1>2. s \in Stores /\ s.every = store.every
  BY DEF IInv, TypeOK, Stores
<1> HIDE DEF s
<1>3. TypeOK' /\ DownIsOut'
  BY <1>1, <1>2 DEF IInv, TypeOK, DownIsOut
<1>4. PrimeShape' /\ OffWaits'
  BY <1>1, <1>2 DEF IInv, PrimeShape, OffWaits, Off, ReloadAhead
<1>5. ArmedOrWill'
  BY <1>1, <1>2 DEF IInv, ArmedOrWill, On, Will, ReloadAhead
<1> QED
  BY <1>3, <1>4, <1>5 DEF IInv

-----------------------------------------------------------------------------
(* Every step. *)

LEMMA FormInv ==
  /\ Init => FormShape
  /\ FormShape /\ [Next]_vars => FormShape'
<1>1. Init => FormShape
  BY DEF Init, FormShape
<1>2. ASSUME FormShape, [Next]_vars PROVE FormShape'
  <2>1. CASE UNCHANGED form
    BY <1>2, <2>1 DEF FormShape
  <2>2. CASE form' = NoForm
    BY <2>2 DEF FormShape
  <2>3. ASSUME NEW e \in Entries, NEW every \in Freqs, Submit(e, every) PROVE FormShape'
    BY <2>3 DEF Submit, FormShape
  <2>4. CASE PrimeStep
    BY <2>1, <2>4 DEF PrimeStep, PrimeCfg, PrimeOff, PrimeArm, PrimeKick, PrimePersist, PrimeSave
  <2>5. ASSUME NEW r \in Runs, Fire(r) \/ JobOff(r) \/ JobStart(r) \/ JobRecord(r)
        PROVE  FormShape'
    BY <2>1, <2>5 DEF Fire, JobOff, JobStart, JobRecord
  <2>6. ASSUME NEW e \in Entries,
               \/ SetupBegin(e) \/ SetupEnd(e) \/ UnloadBegin(e) \/ UnloadEnd(e)
               \/ UnloadFails(e) \/ Remove(e)
        PROVE  FormShape'
    BY <2>1, <2>6 DEF SetupBegin, SetupEnd, UnloadBegin, UnloadEnd, UnloadFails, Remove
  <2>7. CASE SaveSettings \/ Stop \/ Start \/ Tick \/ LastRunAges
    BY <2>1, <2>2, <2>7 DEF SaveSettings, Stop, Start, Tick, LastRunAges
  <2>8. CASE UNCHANGED vars
    BY <2>1, <2>8 DEF vars
  <2> QED
    BY <1>2, <2>3, <2>4, <2>5, <2>6, <2>7, <2>8 DEF Next
<1> QED
  BY <1>1, <1>2

LEMMA StepInv == IInv /\ FormShape /\ [Next]_vars => IInv'
<1> SUFFICES ASSUME IInv, FormShape, [Next]_vars PROVE IInv'
  OBVIOUS
<1>1. CASE PrimeStep
  BY <1>1, PrimeWaitInv, PrimeArmInv, PrimeKickInv, PrimeSaveInv DEF PrimeStep
<1>2. ASSUME NEW r \in Runs, Fire(r) \/ JobOff(r) \/ JobStart(r) \/ JobRecord(r) PROVE IInv'
  BY <1>2, FireInv, JobInv
<1>3. ASSUME NEW e \in Entries,
             \/ SetupBegin(e) \/ SetupEnd(e) \/ UnloadBegin(e) \/ UnloadEnd(e)
             \/ UnloadFails(e) \/ Remove(e)
             \/ \E every \in Freqs : Submit(e, every)
      PROVE  IInv'
  BY <1>3, SetupInv, UnloadBeginInv, UnloadEndInv, LeavesInv, SubmitInv
<1>4. CASE SaveSettings \/ Stop \/ Start \/ Tick \/ LastRunAges
  BY <1>4, SaveSettingsInv, StopInv, StartInv, TickInv, LastRunAgesInv
<1>5. CASE UNCHANGED vars
  BY <1>5 DEF vars, IInv, TypeOK, DownIsOut, PrimeShape, OffWaits, Off, ReloadAhead,
              ArmedOrWill, On, Will
<1> QED
  BY <1>1, <1>2, <1>3, <1>4, <1>5 DEF Next

LEMMA Invariant == Spec => []IInv
<1>1. Init => IInv /\ FormShape
  BY InitInv, FormInv
<1>2. IInv /\ FormShape /\ [Next]_vars => (IInv /\ FormShape)'
  BY StepInv, FormInv
<1> QED
  BY <1>1, <1>2, PTL DEF Spec

\* Every variable of the scheduler keeps its shape: in particular no kickoff is
\* ever pending without the deadline that _prime arms before it.
THEOREM TypeCorrect == Spec => []TypeOK
<1>1. IInv => TypeOK
  BY DEF IInv
<1> QED
  BY <1>1, Invariant, PTL

\* Whatever the entries do - set up, unloaded, handing the scheduler over,
\* reloaded by a save of the settings - and however their tasks interleave, the
\* scheduler is not left without a deadline (auto_purge.py, _prime, _job and
\* cancel_auto_purge).
THEOREM DeadlineArmedHolds == Spec => []DeadlineArmed
<1>1. IInv => DeadlineArmed
  <2> SUFFICES ASSUME IInv, On, ~Busy PROVE due # None \/ lost # {}
    BY DEF DeadlineArmed, On
  <2>1. ~Will
    BY DEF Busy, Will, ReloadAhead
  <2> QED
    BY <2>1 DEF IInv, ArmedOrWill
<1> QED
  BY <1>1, Invariant, PTL
=============================================================================
