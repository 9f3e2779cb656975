-------------------------- MODULE LuciSession_proofs --------------------------
(***************************************************************************)
(* Proofs about LuciSession, for any number of services, of retries of a   *)
(* first refresh and of events.                                            *)
(***************************************************************************)
EXTENDS LuciSession, TLAPS

Places == {"idle", "login", "sent", "wait", "relogin", "resent", "between"}
Works == [at: Places, tok: {"none", "good", "bad"}, grant: {"none", "good", "bad", "denied"}]
Updaters == [phase: {"setup", "running", "asked", "failed", "again"}, first: BOOLEAN,
             reauth: BOOLEAN, state: BOOLEAN, opt: BOOLEAN, retry: 0..MaxRetry]

\* Only a login has a grant that was not used yet.
GrantOfLogin == \A t \in Tasks : task[t].at \notin LoginFlags => task[t].grant = "none"

\* A session that a login inside get() opened and that has ended was ended after
\* that login, whether its answer has arrived or not.
CutIsNoted ==
    \A t \in Tasks :
        /\ task[t].at = "relogin" /\ task[t].grant = "bad" => cut[t]
        /\ task[t].at = "resent" /\ task[t].tok = "bad" => cut[t]

\* The refresh whose login was refused has ended, and with it the polling.
DeniedHasStopped == denied => updater.phase = "asked" /\ task[Refresh].at = "idle"

IInv == TypeOK /\ GrantOfLogin /\ CutIsNoted /\ DeniedHasStopped

LEMMA Types ==
  ASSUME TypeOK
  PROVE  /\ Refresh \in Tasks /\ None \notin Tasks
         /\ task \in [Tasks -> Works] /\ updater \in Updaters
         /\ \A t \in Tasks : task[t] \in Works
         /\ Idle \in Works /\ NewUpdater \in Updaters
BY NoneIsNoTask, BoundsAreNat DEF TypeOK, Works, Places, Updaters, Tasks, Idle, NewUpdater

LEMMA InitInv == Init => IInv
<1> SUFFICES ASSUME Init PROVE IInv
  OBVIOUS
<1>1. /\ Idle.at = "idle" /\ Idle.grant = "none" /\ Idle.tok = "none"
      /\ Idle \in Works /\ NewUpdater \in Updaters
  BY BoundsAreNat DEF Idle, Works, Places, NewUpdater, Updaters
<1>2. \A t \in Tasks : task[t].at = "idle" /\ task[t].grant = "none"
  BY <1>1 DEF Init
<1>3. TypeOK
  <2>1. task \in [Tasks -> Works] /\ updater \in Updaters /\ cut \in [Tasks -> BOOLEAN]
    BY <1>1 DEF Init
  <2>2. \A t \in Tasks : task[t].at = "relogin" <=> lock = t
    BY <1>2, NoneIsNoTask DEF Init
  <2>3. token = "none" /\ failed = FALSE /\ lock = None /\ denied = FALSE
    BY DEF Init
  <2>4. router \in [single: BOOLEAN, takes: BOOLEAN]
    BY DEF Init
  <2>5. events \in 0..MaxEvents
    BY BoundsAreNat DEF Init
  <2>6. token \in {"none", "good", "bad"} /\ failed \in BOOLEAN /\ denied \in BOOLEAN
        /\ lock \in Tasks \cup {None}
    BY <2>3
  <2> QED
    BY <2>1, <2>2, <2>4, <2>5, <2>6 DEF TypeOK, Works, Places, Updaters
<1>4. GrantOfLogin /\ CutIsNoted /\ DeniedHasStopped
  BY <1>2 DEF Init, GrantOfLogin, CutIsNoted, DeniedHasStopped
<1> QED
  BY <1>3, <1>4 DEF IInv

-----------------------------------------------------------------------------
(* What the outcome of a request does. *)

\* Task t goes on as c, with updater u; only the refresh touches the updater.
Becomes(t, c) ==
    /\ task' = [task EXCEPT ![t] = c]
    /\ c \in Works /\ updater' \in Updaters
    /\ t # Refresh => updater' = updater

LEMMA StopsBecomes ==
  ASSUME TypeOK, NEW p \in {"setup", "running", "asked", "failed", "again"}, Stops(p)
  PROVE  Becomes(Refresh, Idle) /\ updater'.phase = p
<1>1. updater \in Updaters /\ Idle \in Works
  BY Types
<1>2. task' = [task EXCEPT ![Refresh] = Idle]
  BY DEF Stops
<1>3. updater' = [updater EXCEPT !.phase = p, !.retry = 0] /\ 0 \in 0..MaxRetry
  BY BoundsAreNat DEF Stops
<1>4. updater' \in Updaters /\ updater'.phase = p
  BY <1>1, <1>3 DEF Updaters
<1> QED
  BY <1>1, <1>2, <1>4 DEF Becomes

LEMMA RequiredBecomes ==
  ASSUME TypeOK, NEW o, Required(o)
  PROVE  \E c \in Works :
            /\ Becomes(Refresh, c) /\ updater'.phase \in {updater.phase, "failed"}
            /\ c.at \in {"idle", "login", "between"} /\ c.grant = "none"
<1> DEFINE u == Flags(o)
<1>1. updater \in Updaters /\ Idle \in Works
  BY Types
<1>2. u \in Updaters /\ u.phase = updater.phase /\ u.retry = updater.retry
  BY <1>1 DEF Flags, Updaters
<1> DEFINE b == [Idle EXCEPT !.at = "between"]
           l == [Idle EXCEPT !.at = "login"]
<1>3. /\ b \in Works /\ b.at = "between" /\ b.grant = "none"
      /\ l \in Works /\ l.at = "login" /\ l.grant = "none"
      /\ Idle.at = "idle" /\ Idle.grant = "none"
  BY DEF Idle, Works, Places
<1>4. CASE ~u.first
  <2>1. task' = [task EXCEPT ![Refresh] = b] /\ updater' = u
    BY <1>4 DEF Required
  <2> QED
    BY <1>2, <1>3, <2>1 DEF Becomes
<1>5. CASE u.first /\ updater.retry = MaxRetry
  <2>1. task' = [task EXCEPT ![Refresh] = Idle] /\ updater' = [u EXCEPT !.phase = "failed"]
    BY <1>5 DEF Required
  <2>2. updater' \in Updaters /\ updater'.phase = "failed"
    BY <1>2, <2>1 DEF Updaters
  <2> QED
    BY <1>1, <1>3, <2>1, <2>2 DEF Becomes
<1>6. CASE u.first /\ updater.retry # MaxRetry
  <2>1. /\ task' = [task EXCEPT ![Refresh] = l]
        /\ updater' = [u EXCEPT !.retry = u.retry + 1, !.opt = FALSE]
    BY <1>6 DEF Required
  <2>2. u.retry + 1 \in 0..MaxRetry
    BY <1>1, <1>2, <1>6, BoundsAreNat DEF Updaters
  <2>3. updater' \in Updaters /\ updater'.phase = updater.phase
    BY <1>2, <2>1, <2>2 DEF Updaters
  <2> QED
    BY <1>3, <2>1, <2>3 DEF Becomes
<1> QED
  BY <1>4, <1>5, <1>6

LEMMA SettleBecomes ==
  ASSUME TypeOK, NEW t \in Tasks, NEW o, NEW fl \in BOOLEAN, Settle(t, o, fl)
  PROVE  \E c \in Works :
            /\ Becomes(t, c)
            /\ c.at \in {"idle", "login", "between"} /\ c.grant = "none"
            /\ fl /\ o = "auth" /\ t = Refresh => c.at = "idle" /\ updater'.phase = "asked"
<1>1. updater \in Updaters /\ Idle \in Works /\ Idle.at = "idle" /\ Idle.grant = "none"
  BY Types DEF Idle
<1>2. CASE t # Refresh
  BY <1>1, <1>2 DEF Settle, Becomes
<1>3. CASE t = Refresh /\ (o = "raw" \/ updater.opt \/ o = "auth")
  <2>1. \E p \in {"setup", "running", "asked", "failed", "again"} :
            Stops(p) /\ (fl /\ o = "auth" => p = "asked")
    <3>1. CASE o = "raw"
      BY <1>1, <1>3, <3>1 DEF Settle, EndsRaw, Updaters
    <3>2. CASE o # "raw" /\ updater.opt
      BY <1>1, <1>3, <3>2 DEF Settle, Finish, Updaters
    <3>3. CASE o # "raw" /\ ~updater.opt
      BY <1>3, <3>3 DEF Settle
    <3> QED
      BY <3>1, <3>2, <3>3
  <2> QED
    BY <1>1, <1>3, <2>1, StopsBecomes
<1>4. CASE t = Refresh /\ ~(o = "raw" \/ updater.opt \/ o = "auth")
  BY <1>4, RequiredBecomes DEF Settle
<1> QED
  BY <1>2, <1>3, <1>4

LEMMA RequestBecomes ==
  ASSUME TypeOK, NEW t \in Tasks, NEW tk \in {"none", "good", "bad"}, NEW fl \in BOOLEAN,
         Request(t, tk, fl)
  PROVE  \E c \in Works :
            /\ Becomes(t, c)
            /\ c.at \in {"idle", "login", "between", "sent"} /\ c.grant = "none"
<1>1. CASE fl = TRUE
  <2>1. Settle(t, "auth", fl)
    BY <1>1 DEF Request
  <2> QED
    BY <2>1, SettleBecomes
<1>2. CASE fl = FALSE /\ tk = "none"
  <2>1. Settle(t, "request", fl)
    BY <1>2 DEF Request
  <2> QED
    BY <2>1, SettleBecomes
<1>3. CASE fl = FALSE /\ tk # "none"
  <2> DEFINE c == [at |-> "sent", tok |-> tk, grant |-> "none"]
  <2>1. c \in Works /\ c.at = "sent" /\ c.grant = "none"
    BY DEF Works, Places
  <2>2. task' = [task EXCEPT ![t] = c] /\ updater' = updater
    BY <1>3 DEF Request
  <2> QED
    BY <2>1, <2>2, Types DEF Becomes
<1> QED
  BY <1>1, <1>2, <1>3

-----------------------------------------------------------------------------
(* What a step preserves. *)

\* The task that goes on gives the lock back, if it has it.
Releases(t) == lock' = IF lock = t THEN None ELSE lock

\* The rest of the state keeps its types.
RestTyped ==
    /\ token' \in {"none", "good", "bad"} /\ failed' \in BOOLEAN
    /\ events' \in 0..MaxEvents /\ router' = router /\ cut' = cut

LEMMA TaskStep ==
  ASSUME IInv, NEW t \in Tasks, NEW c \in Works, Becomes(t, c), Releases(t), RestTyped,
         denied' \in BOOLEAN, c.at # "relogin",
         c.at \notin LoginFlags => c.grant = "none",
         c.at = "resent" /\ c.tok = "bad" => cut[t],
         denied' => /\ updater'.phase = "asked"
                    /\ IF t = Refresh THEN c.at = "idle" ELSE task[Refresh].at = "idle"
  PROVE  IInv'
<1>1. TypeOK
  BY DEF IInv
<1>2. /\ Refresh \in Tasks /\ None \notin Tasks
      /\ task \in [Tasks -> Works] /\ task' = [task EXCEPT ![t] = c]
      /\ lock \in Tasks \cup {None}
      /\ \A s \in Tasks : task[s].at = "relogin" <=> lock = s
  BY <1>1, Types DEF Becomes, TypeOK
<1>3. task'[t] = c /\ \A s \in Tasks : s # t => task'[s] = task[s]
  BY <1>2
<1>4. TypeOK'
  <2>1. task' \in [Tasks -> Works] /\ updater' \in Updaters
    BY <1>2 DEF Becomes
  <2>2. lock' \in Tasks \cup {None} /\ \A s \in Tasks : task'[s].at = "relogin" <=> lock' = s
    BY <1>2, <1>3 DEF Releases
  <2>3. router' \in [single: BOOLEAN, takes: BOOLEAN] /\ cut' \in [Tasks -> BOOLEAN]
    BY <1>1 DEF RestTyped, TypeOK
  <2> QED
    BY <2>1, <2>2, <2>3 DEF RestTyped, TypeOK, Works, Places, Updaters
<1>5. GrantOfLogin'
  BY <1>3 DEF IInv, GrantOfLogin
<1>6. CutIsNoted'
  BY <1>3 DEF IInv, CutIsNoted, RestTyped
<1>7. DeniedHasStopped'
  BY <1>2, <1>3 DEF DeniedHasStopped
<1> QED
  BY <1>4, <1>5, <1>6, <1>7 DEF IInv

\* The outcome of a request, and of a login that did not end in a refusal.
LEMMA OutcomeKeeps ==
  ASSUME IInv, NEW t \in Tasks, NEW c \in Works, Becomes(t, c), Releases(t), RestTyped,
         denied' = denied, denied => t # Refresh,
         c.at \in {"idle", "login", "between", "sent", "wait"}, c.grant = "none"
  PROVE  IInv'
<1>1. denied' \in BOOLEAN
  BY DEF IInv, TypeOK
<1>2. denied' => updater'.phase = "asked" /\ t # Refresh /\ task[Refresh].at = "idle"
  BY DEF IInv, DeniedHasStopped, Becomes
<1> QED
  BY <1>1, <1>2, TaskStep

LEMMA NoLock ==
  ASSUME TypeOK, NEW t \in Tasks, task[t].at # "relogin", UNCHANGED lock
  PROVE  Releases(t)
BY DEF TypeOK, Releases

LEMMA StartRefreshInv == IInv /\ StartRefresh => IInv'
<1> SUFFICES ASSUME IInv, StartRefresh PROVE IInv'
  OBVIOUS
<1>1. TypeOK /\ Refresh \in Tasks /\ task[Refresh] \in Works /\ updater \in Updaters
  BY Types DEF IInv
<1>2. /\ task[Refresh].at = "idle" /\ task[Refresh].grant = "none"
      /\ updater.phase # "asked" /\ denied = FALSE
  BY <1>1 DEF IInv, TypeOK, StartRefresh, GrantOfLogin, DeniedHasStopped, LoginFlags
<1>3. Releases(Refresh) /\ RestTyped /\ denied' = denied
  BY <1>1, <1>2, NoLock DEF StartRefresh, client, RestTyped, TypeOK
<1> DEFINE u == [updater EXCEPT !.opt = FALSE]
<1>4. u \in Updaters
  BY <1>1 DEF Updaters
<1>5. CASE updater.reauth \/ updater.first
  <2> DEFINE c == [task[Refresh] EXCEPT !.at = "login"]
  <2>1. c \in Works /\ c.at = "login" /\ c.grant = "none"
    BY <1>1, <1>2 DEF Works, Places
  <2>2. Becomes(Refresh, c)
    BY <1>4, <1>5, <2>1 DEF StartRefresh, Becomes
  <2> QED
    BY <1>1, <1>2, <1>3, <2>1, <2>2, OutcomeKeeps
<1>6. CASE ~(updater.reauth \/ updater.first) /\ failed
  <2>1. Becomes(Refresh, Idle)
    BY <1>1, <1>6, StopsBecomes DEF StartRefresh
  <2>2. Idle \in Works /\ Idle.at = "idle" /\ Idle.grant = "none"
    BY <1>1, Types DEF Idle
  <2> QED
    BY <1>1, <1>2, <1>3, <2>1, <2>2, OutcomeKeeps
<1>7. CASE ~(updater.reauth \/ updater.first) /\ ~failed
  <2> DEFINE c == [at |-> "sent", tok |-> token, grant |-> "none"]
  <2>1. c \in Works /\ c.at = "sent" /\ c.grant = "none"
    BY <1>1 DEF Works, Places, TypeOK
  <2>2. Becomes(Refresh, c)
    BY <1>4, <1>7, <2>1 DEF StartRefresh, Becomes
  <2> QED
    BY <1>1, <1>2, <1>3, <2>1, <2>2, OutcomeKeeps
<1> QED
  BY <1>5, <1>6, <1>7

LEMMA StartOptionalInv == IInv /\ StartOptional => IInv'
<1> SUFFICES ASSUME IInv, StartOptional PROVE IInv'
  OBVIOUS
<1>1. TypeOK /\ Refresh \in Tasks
  BY Types DEF IInv
<1>2. task[Refresh].at = "between" /\ denied = FALSE
  BY DEF IInv, TypeOK, StartOptional, DeniedHasStopped
<1>3. Releases(Refresh) /\ RestTyped /\ denied' = denied
  BY <1>1, <1>2, NoLock DEF StartOptional, client, RestTyped, TypeOK
<1>4. Request(Refresh, token, failed) /\ token \in {"none", "good", "bad"} /\ failed \in BOOLEAN
  BY <1>1 DEF StartOptional, TypeOK
<1> QED
  BY <1>1, <1>2, <1>3, <1>4, RequestBecomes, OutcomeKeeps

LEMMA StartServiceInv == ASSUME NEW t \in Services PROVE IInv /\ StartService(t) => IInv'
<1> SUFFICES ASSUME IInv, StartService(t) PROVE IInv'
  OBVIOUS
<1>1. TypeOK /\ t \in Tasks /\ task[t] \in Works /\ updater \in Updaters /\ t # Refresh
  BY Types, RefreshIsNoService DEF IInv, Tasks
<1>2. task[t].at = "idle" /\ task[t].grant = "none"
  BY <1>1 DEF IInv, StartService, GrantOfLogin, LoginFlags
<1>3. Releases(t) /\ RestTyped /\ denied' = denied
  <2>1. events' \in 0..MaxEvents
    BY <1>1, BoundsAreNat DEF StartService, Charge, TypeOK
  <2> QED
    BY <1>1, <1>2, <2>1, NoLock DEF StartService, client, RestTyped, TypeOK
<1>4. CASE task' = [task EXCEPT ![t].at = "login"] /\ UNCHANGED updater
  <2> DEFINE c == [task[t] EXCEPT !.at = "login"]
  <2>1. c \in Works /\ c.at = "login" /\ c.grant = "none"
    BY <1>1, <1>2 DEF Works, Places
  <2>2. Becomes(t, c)
    BY <1>1, <1>4, <2>1 DEF Becomes
  <2> QED
    BY <1>1, <1>3, <2>1, <2>2, OutcomeKeeps
<1>5. CASE Request(t, token, failed)
  <2>1. token \in {"none", "good", "bad"} /\ failed \in BOOLEAN
    BY <1>1 DEF TypeOK
  <2> QED
    BY <1>1, <1>3, <1>5, <2>1, RequestBecomes, OutcomeKeeps
<1> QED
  BY <1>4, <1>5 DEF StartService
\* The answers of requests, and of logins that were lost.
LEMMA AnswerInv ==
  ASSUME NEW t \in Tasks
  PROVE  /\ IInv /\ LoginLost(t) => IInv'
         /\ IInv /\ Answered(t) => IInv'
         /\ IInv /\ RetryRefused(t) => IInv'
         /\ IInv /\ OtherError(t) => IInv'
         /\ IInv /\ Unanswered(t) => IInv'
<1>1. ASSUME IInv, NEW o, Settle(t, o, failed), Releases(t), RestTyped, denied' = denied,
             task[t].at # "idle"
      PROVE  IInv'
  <2>1. TypeOK /\ failed \in BOOLEAN
    BY <1>1 DEF IInv, TypeOK
  <2>2. denied => t # Refresh
    BY <1>1 DEF IInv, DeniedHasStopped
  <2>3. PICK c \in Works : /\ Becomes(t, c)
                           /\ c.at \in {"idle", "login", "between"} /\ c.grant = "none"
    BY <1>1, <2>1, SettleBecomes
  <2> QED
    BY <1>1, <2>2, <2>3, OutcomeKeeps
<1>2. ASSUME IInv, UNCHANGED <<token, failed, events, router, cut>> PROVE RestTyped
  BY <1>2 DEF IInv, TypeOK, RestTyped
<1>3. ASSUME IInv, LoginLost(t) PROVE IInv'
  <2>1. PICK o \in {"conn", "request"} : Settle(t, o, failed)
    BY <1>3 DEF LoginLost
  <2>2. /\ Releases(t) /\ denied' = denied /\ task[t].at # "idle"
        /\ UNCHANGED <<token, failed, events, router, cut>>
    BY <1>3 DEF LoginLost, LoginFlags, Unlock, Releases
  <2> QED
    BY <1>1, <1>2, <1>3, <2>1, <2>2
<1>4. ASSUME IInv, NEW o, Settle(t, o, failed), task[t].at \in {"sent", "resent"},
             UNCHANGED <<client, router, events, cut, denied>>
      PROVE  IInv'
  <2>1. Releases(t)
    BY <1>4, NoLock DEF IInv, client
  <2>2. UNCHANGED <<token, failed, events, router, cut>> /\ denied' = denied
    BY <1>4 DEF client
  <2>3. task[t].at # "idle"
    BY <1>4
  <2> QED
    BY <1>1, <1>2, <1>4, <2>1, <2>2, <2>3
<1>5. IInv /\ Answered(t) => IInv'
  BY <1>4 DEF Answered
<1>6. IInv /\ RetryRefused(t) => IInv'
  BY <1>4 DEF RetryRefused
<1>7. IInv /\ OtherError(t) => IInv'
  BY <1>4 DEF OtherError
<1>8. ASSUME IInv, Unanswered(t) PROVE IInv'
  <2>1. \E o \in {"conn", "raw"} : Settle(t, o, failed)
    BY <1>8 DEF Unanswered
  <2>2. task[t].at \in {"sent", "resent"} /\ UNCHANGED <<client, router, events, cut, denied>>
    BY <1>8 DEF Unanswered
  <2> QED
    BY <1>4, <1>8, <2>1, <2>2
<1> QED
  BY <1>3, <1>5, <1>6, <1>7, <1>8

LEMMA LoginGrantedInv == ASSUME NEW t \in Tasks PROVE IInv /\ LoginGranted(t) => IInv'
<1> SUFFICES ASSUME IInv, LoginGranted(t) PROVE IInv'
  OBVIOUS
<1>1. TypeOK /\ task[t] \in Works /\ updater \in Updaters
  BY Types DEF IInv
<1>2. /\ task[t].grant \in {"good", "bad"} /\ denied' = FALSE /\ Releases(t)
      /\ token' = task[t].grant /\ failed' = FALSE /\ UNCHANGED <<router, events, cut>>
  BY DEF LoginGranted, Unlock, Releases
<1>3. RestTyped /\ denied' \in BOOLEAN
  BY <1>1, <1>2 DEF RestTyped, TypeOK
<1>4. CASE task[t].at = "relogin"
  <2> DEFINE c == [at |-> "resent", tok |-> task[t].grant, grant |-> "none"]
  <2>1. c \in Works /\ c.at = "resent" /\ c.tok = task[t].grant /\ c.grant = "none"
    BY <1>2 DEF Works, Places
  <2>2. Becomes(t, c)
    BY <1>1, <1>4, <2>1 DEF LoginGranted, Retry, Becomes
  <2>3. c.tok = "bad" => cut[t]
    BY <1>4, <2>1 DEF IInv, CutIsNoted
  <2> HIDE DEF c
  <2> QED
    BY <1>2, <1>3, <2>1, <2>2, <2>3, TaskStep
<1>5. CASE task[t].at # "relogin"
  <2>1. Request(t, task[t].grant, FALSE)
    BY <1>5 DEF LoginGranted
  <2>2. PICK c \in Works : /\ Becomes(t, c) /\ c.grant = "none"
                           /\ c.at \in {"idle", "login", "between", "sent"}
    BY <1>1, <1>2, <2>1, RequestBecomes
  <2> QED
    BY <1>2, <1>3, <2>2, TaskStep
<1> QED
  BY <1>4, <1>5

LEMMA LoginDeniedInv == ASSUME NEW t \in Tasks PROVE IInv /\ LoginDenied(t) => IInv'
<1> SUFFICES ASSUME IInv, LoginDenied(t) PROVE IInv'
  OBVIOUS
<1>1. TypeOK
  BY DEF IInv
<1>2. /\ task[t].at # "idle" /\ denied' = (denied \/ t = Refresh) /\ Releases(t)
      /\ token' = "none" /\ failed' = TRUE /\ UNCHANGED <<router, events, cut>>
      /\ Settle(t, "auth", TRUE)
  BY DEF LoginDenied, LoginFlags, Unlock, Releases
<1>3. RestTyped /\ denied' \in BOOLEAN
  BY <1>1, <1>2 DEF RestTyped, TypeOK
<1>4. PICK c \in Works :
            /\ Becomes(t, c)
            /\ c.at \in {"idle", "login", "between"} /\ c.grant = "none"
            /\ t = Refresh => c.at = "idle" /\ updater'.phase = "asked"
  BY <1>1, <1>2, SettleBecomes
<1>5. denied' => /\ updater'.phase = "asked"
                 /\ IF t = Refresh THEN c.at = "idle" ELSE task[Refresh].at = "idle"
  BY <1>2, <1>4 DEF IInv, DeniedHasStopped, Becomes
<1> QED
  BY <1>2, <1>3, <1>4, <1>5, TaskStep

LEMMA SessionEndedInv == ASSUME NEW t \in Tasks PROVE IInv /\ SessionEnded(t) => IInv'
<1> SUFFICES ASSUME IInv, SessionEnded(t) PROVE IInv'
  OBVIOUS
<1>1. TypeOK /\ task[t] \in Works /\ updater \in Updaters
  BY Types DEF IInv
<1>2. /\ task[t].at = "sent" /\ task[t].grant = "none" /\ denied' = denied
      /\ UNCHANGED <<client, updater, router, events, cut>>
  BY <1>1 DEF IInv, GrantOfLogin, LoginFlags, SessionEnded
<1>3. Releases(t) /\ RestTyped /\ (denied => t # Refresh)
  BY <1>1, <1>2, NoLock DEF IInv, DeniedHasStopped, client, RestTyped, TypeOK
<1> DEFINE c == [task[t] EXCEPT !.at = "wait"]
<1>4. c \in Works /\ c.at = "wait" /\ c.grant = "none"
  BY <1>1, <1>2 DEF Works, Places
<1>5. Becomes(t, c)
  BY <1>1, <1>2, <1>4 DEF SessionEnded, Becomes
<1> HIDE DEF c
<1> QED
  BY <1>2, <1>3, <1>4, <1>5, OutcomeKeeps

LEMMA ReloginInv == ASSUME NEW t \in Tasks PROVE IInv /\ Relogin(t) => IInv'
<1> SUFFICES ASSUME IInv, Relogin(t) PROVE IInv'
  OBVIOUS
<1>1. /\ TypeOK /\ task \in [Tasks -> Works] /\ task[t] \in Works
      /\ Refresh \in Tasks /\ None \notin Tasks
  BY Types DEF IInv
<1>2. /\ task[t].at = "wait" /\ task[t].grant = "none" /\ lock = None /\ lock' = t
      /\ UNCHANGED <<token, failed, updater, router, events, cut, denied>>
  BY DEF IInv, GrantOfLogin, LoginFlags, Relogin
<1> DEFINE c == [task[t] EXCEPT !.at = "relogin"]
<1>3. c \in Works /\ c.at = "relogin" /\ c.grant = "none"
  BY <1>1, <1>2 DEF Works, Places
<1>4. task' = [task EXCEPT ![t] = c]
  BY <1>1 DEF Relogin
<1> HIDE DEF c
<1>5. task'[t] = c /\ \A s \in Tasks : s # t => task'[s] = task[s]
  BY <1>1, <1>4
<1>6. TypeOK'
  <2>1. task' \in [Tasks -> Works]
    BY <1>1, <1>3, <1>4
  <2>2. \A s \in Tasks : task'[s].at = "relogin" <=> lock' = s
    BY <1>1, <1>2, <1>3, <1>5 DEF TypeOK
  <2> QED
    BY <1>1, <1>2, <2>1, <2>2 DEF TypeOK, Works, Places
<1>7. GrantOfLogin' /\ CutIsNoted'
  BY <1>2, <1>3, <1>5 DEF IInv, GrantOfLogin, CutIsNoted
<1>8. DeniedHasStopped'
  BY <1>1, <1>2, <1>3, <1>5 DEF IInv, DeniedHasStopped
<1> QED
  BY <1>6, <1>7, <1>8 DEF IInv
LEMMA SpoilTypes ==
  ASSUME NEW r \in Works
  PROVE  /\ Spoil(r) \in Works /\ Spoil(r).at = r.at
         /\ Spoil(r).tok = Spoiled(r.tok) /\ Spoil(r).grant = Spoiled(r.grant)
         /\ r.grant = "none" => Spoil(r).grant = "none"
BY DEF Works, Spoil, Spoiled

\* A step that moves no task: sessions end, and every task that loses one is noted.
LEMMA SpoilStep ==
  ASSUME IInv, task' \in [Tasks -> Works], cut' \in [Tasks -> BOOLEAN],
         token' \in {"none", "good", "bad"}, events' \in 0..MaxEvents,
         UNCHANGED <<failed, lock, updater, router, denied>>,
         \A t \in Tasks : /\ task'[t].at = task[t].at
                          /\ task'[t].at \notin LoginFlags => task'[t].grant = "none",
         \A t \in Tasks :
            \/ cut'[t]
            \/ task'[t] = task[t] /\ cut'[t] = cut[t]
            \/ task'[t].at # "resent" /\ task'[t].grant # "bad"
  PROVE  IInv'
<1>1. TypeOK'
  BY DEF IInv, TypeOK, Works, Places
<1>2. GrantOfLogin'
  BY DEF GrantOfLogin
<1>3. CutIsNoted'
  BY DEF IInv, CutIsNoted
<1>4. DeniedHasStopped'
  BY Types DEF IInv, DeniedHasStopped
<1> QED
  BY <1>1, <1>2, <1>3, <1>4 DEF IInv

LEMMA RouterLoginInv == ASSUME NEW t \in Tasks PROVE IInv /\ RouterLogin(t) => IInv'
<1> SUFFICES ASSUME IInv, RouterLogin(t) PROVE IInv'
  OBVIOUS
<1>1. /\ TypeOK /\ task \in [Tasks -> Works] /\ \A s \in Tasks : task[s] \in Works
      /\ cut \in [Tasks -> BOOLEAN] /\ token \in {"none", "good", "bad"}
      /\ events \in 0..MaxEvents
      /\ \A s \in Tasks : task[s].at \notin LoginFlags => task[s].grant = "none"
  BY Types DEF IInv, TypeOK, GrantOfLogin
<1>2. /\ task[t].at \in LoginFlags
      /\ UNCHANGED <<failed, lock, updater, router, events, denied>>
  BY DEF RouterLogin
<1>3. CASE ~router.takes
  <2> DEFINE c == [task[t] EXCEPT !.grant = "denied"]
  <2>1. c \in Works /\ c.at = task[t].at /\ c.grant = "denied"
    BY <1>1 DEF Works
  <2>2. task' = [task EXCEPT ![t] = c] /\ token' = token /\ cut' = cut
    BY <1>3 DEF RouterLogin
  <2> HIDE DEF c
  <2>3. task'[t] = c /\ \A s \in Tasks : s # t => task'[s] = task[s]
    BY <1>1, <2>2
  <2>4. /\ task' \in [Tasks -> Works]
        /\ \A s \in Tasks : /\ task'[s].at = task[s].at
                            /\ task'[s].at \notin LoginFlags => task'[s].grant = "none"
    BY <1>1, <1>2, <2>1, <2>2, <2>3
  <2>5. \A s \in Tasks :
            \/ task'[s] = task[s] /\ cut'[s] = cut[s]
            \/ task'[s].at # "resent" /\ task'[s].grant # "bad"
    BY <1>2, <2>1, <2>2, <2>3 DEF LoginFlags
  <2> QED
    BY <1>1, <1>2, <2>2, <2>4, <2>5, SpoilStep
<1>4. CASE router.takes
  <2> DEFINE c == [task[t] EXCEPT !.grant = "good"]
             others(s) == IF router.single THEN Spoil(task[s]) ELSE task[s]
  <2>1. c \in Works /\ c.at = task[t].at /\ c.grant = "good"
    BY <1>1 DEF Works
  <2>2. /\ task' = [s \in Tasks |-> IF s = t THEN c ELSE others(s)]
        /\ cut' = [s \in Tasks |-> IF s = t THEN FALSE ELSE cut[s] \/ router.single]
        /\ token' = IF router.single THEN Spoiled(token) ELSE token
    BY <1>4 DEF RouterLogin
  <2>3. \A s \in Tasks : /\ others(s) \in Works /\ others(s).at = task[s].at
                         /\ task[s].grant = "none" => others(s).grant = "none"
    BY <1>1, SpoilTypes
  <2>4. token' \in {"none", "good", "bad"}
    BY <1>1, <2>2 DEF Spoiled
  <2>5. cut' \in [Tasks -> BOOLEAN]
    BY <1>1, <2>2
  <2>6. /\ task' \in [Tasks -> Works]
        /\ \A s \in Tasks : /\ task'[s].at = task[s].at
                            /\ task'[s].at \notin LoginFlags => task'[s].grant = "none"
    BY <1>1, <1>2, <2>1, <2>2, <2>3
  <2>7. \A s \in Tasks :
            \/ cut'[s]
            \/ task'[s] = task[s] /\ cut'[s] = cut[s]
            \/ task'[s].at # "resent" /\ task'[s].grant # "bad"
    <3>1. task'[t] = c /\ c.at # "resent" /\ c.grant # "bad"
      BY <1>2, <2>1, <2>2 DEF LoginFlags
    <3>2. ASSUME NEW s \in Tasks, s # t, router.single PROVE cut'[s]
      BY <2>2, <3>2
    <3>3. ASSUME NEW s \in Tasks, s # t, ~router.single
          PROVE  task'[s] = task[s] /\ cut'[s] = cut[s]
      BY <1>1, <2>2, <3>3
    <3> QED
      BY <3>1, <3>2, <3>3
  <2> QED
    BY <1>1, <1>2, <2>4, <2>5, <2>6, <2>7, SpoilStep
<1> QED
  BY <1>3, <1>4

LEMMA EndSessionsInv == IInv /\ EndSessions => IInv'
<1> SUFFICES ASSUME IInv, EndSessions PROVE IInv'
  OBVIOUS
<1>1. /\ TypeOK /\ \A s \in Tasks : task[s] \in Works
      /\ \A s \in Tasks : task[s].at \notin LoginFlags => task[s].grant = "none"
  BY Types DEF IInv, GrantOfLogin
<1>2. /\ task' = [t \in Tasks |-> Spoil(task[t])] /\ cut' = [t \in Tasks |-> TRUE]
      /\ UNCHANGED <<failed, lock, updater, router, denied>>
  BY DEF EndSessions
<1>3. token' \in {"none", "good", "bad"} /\ events' \in 0..MaxEvents
  BY <1>1, BoundsAreNat DEF EndSessions, Charge, Spoiled, TypeOK
<1>4. /\ task' \in [Tasks -> Works]
      /\ \A t \in Tasks : /\ task'[t].at = task[t].at
                          /\ task'[t].at \notin LoginFlags => task'[t].grant = "none"
  BY <1>1, <1>2, SpoilTypes
<1>5. cut' \in [Tasks -> BOOLEAN] /\ \A t \in Tasks : cut'[t]
  BY <1>2
<1> QED
  BY <1>2, <1>3, <1>4, <1>5, SpoilStep

LEMMA NewClientInv ==
  ASSUME IInv, NEW P \in SUBSET {"setup", "running", "asked", "failed", "again"}, NewClient(P),
         router' \in [single: BOOLEAN, takes: BOOLEAN], events' \in 0..MaxEvents
  PROVE  IInv'
<1>1. /\ task' = [t \in Tasks |-> Idle] /\ updater' = NewUpdater
      /\ cut' = [t \in Tasks |-> FALSE] /\ lock' = None
      /\ token' = "none" /\ failed' = FALSE /\ denied' = FALSE
  BY DEF NewClient
<1>2. Idle \in Works /\ Idle.at = "idle" /\ Idle.grant = "none" /\ NewUpdater \in Updaters
  BY Types DEF IInv, Idle
<1>3. TypeOK'
  <2>1. task' \in [Tasks -> Works] /\ updater' \in Updaters /\ cut' \in [Tasks -> BOOLEAN]
    BY <1>1, <1>2
  <2>2. lock' \in Tasks \cup {None} /\ \A t \in Tasks : task'[t].at = "relogin" <=> lock' = t
    BY <1>1, <1>2, NoneIsNoTask
  <2>3. token' \in {"none", "good", "bad"} /\ failed' \in BOOLEAN /\ denied' \in BOOLEAN
    BY <1>1
  <2> QED
    BY <2>1, <2>2, <2>3 DEF TypeOK, Works, Places, Updaters
<1>4. GrantOfLogin' /\ CutIsNoted' /\ DeniedHasStopped'
  BY <1>1, <1>2 DEF GrantOfLogin, CutIsNoted, DeniedHasStopped
<1> QED
  BY <1>3, <1>4 DEF IInv

LEMMA UserInv ==
  /\ IInv /\ ChangePassword => IInv'
  /\ IInv /\ SetUpAgain => IInv'
  /\ IInv /\ Reload => IInv'
  /\ IInv /\ Reauthenticate => IInv'
<1>1. ASSUME IInv, ChangePassword PROVE IInv'
  <2>1. router' \in [single: BOOLEAN, takes: BOOLEAN] /\ events' \in 0..MaxEvents
    <3>1. router' = [router EXCEPT !.takes = ~router.takes] /\ router \in [single: BOOLEAN, takes: BOOLEAN]
      BY <1>1 DEF ChangePassword, IInv, TypeOK
    <3>2. events' \in 0..MaxEvents
      BY <1>1, BoundsAreNat DEF ChangePassword, Charge, IInv, TypeOK
    <3> QED
      BY <3>1, <3>2
  <2>2. UNCHANGED <<client, task, updater, cut, denied>>
    BY <1>1 DEF ChangePassword
  <2> QED
    BY <1>1, <2>1, <2>2 DEF IInv, TypeOK, GrantOfLogin, CutIsNoted, DeniedHasStopped, client
<1>2. ASSUME IInv, SetUpAgain PROVE IInv'
  <2>1. router' \in [single: BOOLEAN, takes: BOOLEAN] /\ events' \in 0..MaxEvents
    BY <1>2 DEF SetUpAgain, IInv, TypeOK
  <2> QED
    BY <1>2, <2>1, NewClientInv DEF SetUpAgain
<1>3. ASSUME IInv, Reload PROVE IInv'
  <2>1. router' \in [single: BOOLEAN, takes: BOOLEAN] /\ events' \in 0..MaxEvents
    BY <1>3, BoundsAreNat DEF Reload, Charge, IInv, TypeOK
  <2> QED
    BY <1>3, <2>1, NewClientInv DEF Reload
<1>4. ASSUME IInv, Reauthenticate PROVE IInv'
  <2>1. router' \in [single: BOOLEAN, takes: BOOLEAN] /\ events' \in 0..MaxEvents
    <3>1. router' = [router EXCEPT !.takes = TRUE] /\ router \in [single: BOOLEAN, takes: BOOLEAN]
      BY <1>4 DEF Reauthenticate, IInv, TypeOK
    <3>2. events' \in 0..MaxEvents
      BY <1>4, BoundsAreNat DEF Reauthenticate, Charge, IInv, TypeOK
    <3> QED
      BY <3>1, <3>2
  <2> QED
    BY <1>4, <2>1, NewClientInv DEF Reauthenticate
<1> QED
  BY <1>1, <1>2, <1>3, <1>4

LEMMA StepInv == IInv /\ [Next]_vars => IInv'
<1> SUFFICES ASSUME IInv, [Next]_vars PROVE IInv'
  OBVIOUS
<1>1. CASE UNCHANGED vars
  BY <1>1 DEF IInv, TypeOK, GrantOfLogin, CutIsNoted, DeniedHasStopped, vars, client
<1>2. ASSUME NEW t \in Tasks, Step(t) PROVE IInv'
  BY <1>2, AnswerInv, RouterLoginInv, LoginGrantedInv, LoginDeniedInv, SessionEndedInv, ReloginInv
  DEF Step
<1>3. CASE RefreshBegins
  BY <1>3, StartRefreshInv, StartOptionalInv DEF RefreshBegins
<1> QED
  BY <1>1, <1>2, <1>3, StartServiceInv, EndSessionsInv, UserInv DEF Next

-----------------------------------------------------------------------------
LEMMA Invariant == Spec => []IInv
BY InitInv, StepInv, PTL DEF Spec

\* The types of the client, the tasks, the updater and the router; exactly the task
\* that logs in inside get() holds the login lock.
THEOREM TypeCorrect == Spec => []TypeOK
BY Invariant, PTL DEF IInv

\* get() repeats a request once: it is refused again for its token only if a session
\* has ended since the login that came before.
THEOREM OneLoginSufficesHolds == Spec => OneLoginSuffices
<1>1. IInv /\ [Next]_vars => [\A t \in Tasks : RetryRefused(t) => cut[t]]_vars
  BY DEF IInv, CutIsNoted, RetryRefused
<1> QED
  BY <1>1, Invariant, PTL DEF Spec, OneLoginSuffices
\* Only a login that is taken and a new client end the denial.
LEMMA DenialEnds ==
  ASSUME IInv, Next, denied, ~denied'
  PROVE  \/ \E t \in Tasks : LoginGranted(t)
         \/ SetUpAgain \/ Reload \/ Reauthenticate
<1>1. ASSUME NEW t \in Tasks, Step(t) PROVE LoginGranted(t)
  BY <1>1 DEF Step, RouterLogin, LoginDenied, LoginLost, Answered, SessionEnded, Relogin,
              RetryRefused, OtherError, Unanswered
<1>2. ~RefreshBegins /\ ~EndSessions /\ ~ChangePassword /\ \A t \in Services : ~StartService(t)
  BY DEF RefreshBegins, StartRefresh, StartOptional, EndSessions, ChangePassword, StartService
<1> QED
  BY <1>1, <1>2 DEF Next

\* Once a login of the refresh was refused, the refresh sends no other before a login was
\* taken or the entry was set up anew.
THEOREM RejectedOnceHolds == Spec => RejectedOnce
<1> DEFINE A == task[Refresh].at \notin LoginFlags /\ task'[Refresh].at \in LoginFlags => ~denied
<1>1. ASSUME IInv, IInv', [Next]_vars PROVE [A]_vars
  <2> SUFFICES ASSUME Next, denied PROVE task'[Refresh].at \notin LoginFlags
    BY <1>1
  <2>1. /\ task[Refresh].at = "idle" /\ Refresh \in Tasks /\ TypeOK
        /\ \A w \in Works : w.at = "idle" => w.at \notin LoginFlags
    BY <1>1, Types DEF IInv, DeniedHasStopped, LoginFlags
  <2>2. CASE denied'
    BY <1>1, <2>2 DEF IInv, DeniedHasStopped, LoginFlags
  <2>3. ASSUME NEW t \in Tasks, LoginGranted(t) PROVE task'[Refresh].at \notin LoginFlags
    <3>1. t # Refresh /\ task[t].grant \in {"good", "bad"}
      BY <2>1, <2>3 DEF LoginGranted, LoginFlags
    <3>2. \E c \in Works : task' = [task EXCEPT ![t] = c]
      <4>1. CASE task[t].at = "relogin"
        <5>1. [at |-> "resent", tok |-> task[t].grant, grant |-> "none"] \in Works
          BY <3>1 DEF Works, Places
        <5> QED
          BY <2>3, <4>1, <5>1 DEF LoginGranted, Retry
      <4>2. CASE task[t].at # "relogin"
        <5>1. Request(t, task[t].grant, FALSE) /\ task[t].grant \in {"none", "good", "bad"}
          BY <2>3, <3>1, <4>2 DEF LoginGranted
        <5> QED
          BY <2>1, <5>1, RequestBecomes DEF Becomes
      <4> QED
        BY <4>1, <4>2
    <3> QED
      BY <2>1, <3>1, <3>2, Types DEF LoginFlags
  <2>4. CASE SetUpAgain \/ Reload \/ Reauthenticate
    <3>1. task'[Refresh] = Idle
      BY <2>1, <2>4 DEF SetUpAgain, Reload, Reauthenticate, NewClient
    <3> QED
      BY <3>1 DEF Idle, LoginFlags
  <2> QED
    BY <1>1, <2>2, <2>3, <2>4, DenialEnds
<1>2. Spec => [][A]_vars
  BY <1>1, Invariant, PTL DEF Spec
<1> QED
  BY <1>2 DEF RejectedOnce
=============================================================================
