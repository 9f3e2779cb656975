----------------------------- MODULE LuciSession -----------------------------
(***************************************************************************)
(* The session of one router client: LuciClient.login and get in luci.py,  *)
(* the refresh of its updater that logs in and polls, and the services     *)
(* that share the client.                                                  *)
(*                                                                         *)
(* A login is two steps, for the router's grant and its answer are apart:  *)
(* on a router with one session a grant ends every older one, and answers  *)
(* may cross.  Only the login inside get() holds _login_lock.  A refresh   *)
(* is a login if it needs one, a request that must succeed, and one that   *)
(* an optional handler makes and whose LuciError it catches.               *)
(*                                                                         *)
(* Sessions are good or bad: no rule of the code tells two bad ones apart. *)
(* Detecting the protocol, hashes and payloads are left out.               *)
(***************************************************************************)
EXTENDS Naturals, FiniteSets

CONSTANTS
    Services,    \* tasks of services and entities that use the client
    Refresh,     \* the coordinator's task
    None,
    MaxRetry,    \* DEFAULT_RETRY: how often the first refresh is tried again
    MaxEvents    \* bound: ends of a session, new passwords, service calls

Tasks == Services \cup {Refresh}

ASSUME RefreshIsNoService == Refresh \notin Services
ASSUME NoneIsNoTask == None \notin Tasks
ASSUME BoundsAreNat == MaxRetry \in Nat /\ MaxEvents \in Nat

VARIABLES
    token,     \* luci._token: none, or whether its session is alive
    failed,    \* luci.authentication_failed
    lock,      \* the task that holds luci._login_lock
    task,      \* task -> where it is, the session its request uses, its login
    updater,   \* the coordinator and the flags of its LuciUpdater
    router,    \* one session or many; whether it takes the password
    events,    \* how many of MaxEvents have happened
    cut,       \* history: task -> a session ended since its login inside get()
    denied     \* history: a login of the refresh was refused, none taken since

client == <<token, failed, lock>>
vars == <<token, failed, lock, task, updater, router, events, cut, denied>>

Idle == [at |-> "idle", tok |-> "none", grant |-> "none"]
LoginFlags == {"login", "relogin"}
NewUpdater == [phase |-> "setup", first |-> TRUE, reauth |-> TRUE, state |-> FALSE,
               opt |-> FALSE, retry |-> 0]

Spoiled(s) == IF s = "good" THEN "bad" ELSE s
Spoil(r) == [r EXCEPT !.tok = Spoiled(@), !.grant = Spoiled(@)]

Charge == events < MaxEvents /\ events' = events + 1

-----------------------------------------------------------------------------
(* What a task does with the outcome of a request. *)

Stops(phase) ==
    /\ task' = [task EXCEPT ![Refresh] = Idle]
    /\ updater' = [updater EXCEPT !.phase = phase, !.retry = 0]

\* An exception that is no LuciError: Home Assistant counts a failed refresh,
\* and sets a first one up again.
EndsRaw == Stops(IF updater.phase = "setup" THEN "again" ELSE updater.phase)

\* Mutant: the end of a refresh believes the optional handlers.
FinishUnchecked(fl) == Stops(IF updater.phase = "setup" THEN "running" ELSE updater.phase)

\* The end of update(): an optional handler may have hidden a refused login.
Finish(fl) == Stops(IF fl THEN "asked"
                    ELSE IF updater.phase = "setup" THEN "running" ELSE updater.phase)

\* Mutant: an error of the router does not ask for a login.
FlagsNoReauth(o) ==
    [updater EXCEPT !.reauth = FALSE, !.first = @ /\ o # "ok", !.opt = TRUE,
                    !.state = o = "ok" \/ (~updater.first /\ ~updater.reauth /\ o = "request")]

\* An error of the router asks for a login next time, and is forgiven once.
Flags(o) ==
    [updater EXCEPT !.reauth = (o = "request"), !.first = @ /\ o # "ok", !.opt = TRUE,
                    !.state = o = "ok" \/ (~updater.first /\ ~updater.reauth /\ o = "request")]

\* The requests that must succeed have outcome o: a first refresh starts again,
\* with a login, until DEFAULT_RETRY, and ends in an exception then.
Required(o) ==
    LET u == Flags(o)
    IN  IF ~u.first
        THEN task' = [task EXCEPT ![Refresh] = [Idle EXCEPT !.at = "between"]] /\ updater' = u
        ELSE IF updater.retry = MaxRetry
        THEN task' = [task EXCEPT ![Refresh] = Idle] /\ updater' = [u EXCEPT !.phase = "failed"]
        ELSE /\ task' = [task EXCEPT ![Refresh] = [Idle EXCEPT !.at = "login"]]
             /\ updater' = [u EXCEPT !.retry = @ + 1, !.opt = FALSE]

\* Outcome o of t's request, while the client's latch is fl.
Settle(t, o, fl) ==
    IF t # Refresh THEN task' = [task EXCEPT ![t] = Idle] /\ UNCHANGED updater
    ELSE IF o = "raw" THEN EndsRaw
    ELSE IF updater.opt THEN Finish(fl)
    ELSE IF o = "auth" THEN Stops("asked")
    ELSE Required(o)

\* get() up to its request: the latch, then the token.
Request(t, tk, fl) ==
    IF fl THEN Settle(t, "auth", fl)
    ELSE IF tk = "none" THEN Settle(t, "request", fl)
    ELSE /\ task' = [task EXCEPT ![t] = [at |-> "sent", tok |-> tk, grant |-> "none"]]
         /\ UNCHANGED updater

-----------------------------------------------------------------------------
Init ==
    /\ token = "none" /\ failed = FALSE /\ lock = None
    /\ task = [t \in Tasks |-> Idle]
    /\ updater = NewUpdater
    /\ router \in [single: BOOLEAN, takes: {TRUE}]
    /\ events = 0
    /\ cut = [t \in Tasks |-> FALSE]
    /\ denied = FALSE

(* The tasks begin. *)

\* The coordinator's timer, or the first refresh of a setup.
StartRefresh ==
    /\ task[Refresh].at = "idle" /\ updater.phase \in {"setup", "running"}
    /\ UNCHANGED <<client, router, events, cut, denied>>
    /\ IF updater.reauth \/ updater.first
       THEN /\ task' = [task EXCEPT ![Refresh].at = "login"]
            /\ updater' = [updater EXCEPT !.opt = FALSE]
       ELSE IF failed THEN Stops("asked")
       ELSE /\ task' = [task EXCEPT ![Refresh] = [at |-> "sent", tok |-> token, grant |-> "none"]]
            /\ updater' = [updater EXCEPT !.opt = FALSE]

\* An optional handler of the refresh makes its request.
StartOptional ==
    /\ task[Refresh].at = "between"
    /\ Request(Refresh, token, failed)
    /\ UNCHANGED <<client, router, events, cut, denied>>

\* A service logs in first, outside the lock; an entity asks at once.
StartService(t) ==
    /\ t # Refresh /\ task[t].at = "idle" /\ Charge
    /\ \/ task' = [task EXCEPT ![t].at = "login"] /\ UNCHANGED updater
       \/ Request(t, token, failed)
    /\ UNCHANGED <<client, router, cut, denied>>

(* login(), inside and outside of get(). *)

\* The router refuses the password, or opens a session and may end the others.
RouterLogin(t) ==
    /\ task[t].at \in LoginFlags /\ task[t].grant = "none"
    /\ IF ~router.takes
       THEN /\ task' = [task EXCEPT ![t].grant = "denied"]
            /\ UNCHANGED <<token, cut>>
       ELSE /\ task' = [d \in Tasks |->
                          IF d = t THEN [task[t] EXCEPT !.grant = "good"]
                          ELSE IF router.single THEN Spoil(task[d]) ELSE task[d]]
            /\ token' = IF router.single THEN Spoiled(token) ELSE token
            /\ cut' = [d \in Tasks |-> IF d = t THEN FALSE ELSE cut[d] \/ router.single]
    /\ UNCHANGED <<failed, lock, updater, router, events, denied>>

Unlock(t) == lock' = IF lock = t THEN None ELSE lock

\* Mutant: the request is repeated with the token it had.
RetryOldToken(t) ==
    /\ task' = [task EXCEPT ![t] = [at |-> "resent", tok |-> task[t].tok, grant |-> "none"]]
    /\ UNCHANGED updater

\* get() after its login: once more, with the new token.
Retry(t) ==
    /\ task' = [task EXCEPT ![t] = [at |-> "resent", tok |-> task[t].grant, grant |-> "none"]]
    /\ UNCHANGED updater

LoginGranted(t) ==
    /\ task[t].at \in LoginFlags /\ task[t].grant \in {"good", "bad"}
    /\ token' = task[t].grant
    /\ failed' = FALSE /\ denied' = FALSE
    /\ IF task[t].at = "relogin" THEN Retry(t) ELSE Request(t, task[t].grant, FALSE)
    /\ Unlock(t)
    /\ UNCHANGED <<router, events, cut>>

LoginDenied(t) ==
    /\ task[t].at \in LoginFlags /\ task[t].grant = "denied"
    /\ token' = "none"
    /\ failed' = TRUE
    /\ denied' = (denied \/ t = Refresh)
    /\ Settle(t, "auth", TRUE)
    /\ Unlock(t)
    /\ UNCHANGED <<router, events, cut>>

\* Mutant: a login that fails keeps the lock.
LoginLostLocked(t) ==
    /\ task[t].at \in LoginFlags
    /\ \E o \in {"conn", "request"} : Settle(t, o, failed)
    /\ UNCHANGED <<client, router, events, cut, denied>>

\* No answer, or one that is neither a token nor a refusal.
LoginLost(t) ==
    /\ task[t].at \in LoginFlags
    /\ \E o \in {"conn", "request"} : Settle(t, o, failed)
    /\ Unlock(t)
    /\ UNCHANGED <<token, failed, router, events, cut, denied>>

(* get() after its request. *)

Answered(t) ==
    /\ task[t].at \in {"sent", "resent"} /\ task[t].tok = "good"
    /\ Settle(t, "ok", failed)
    /\ UNCHANGED <<client, router, events, cut, denied>>

\* "invalid token": the login lock is next.
SessionEnded(t) ==
    /\ task[t].at = "sent" /\ task[t].tok = "bad"
    /\ task' = [task EXCEPT ![t].at = "wait"]
    /\ UNCHANGED <<client, updater, router, events, cut, denied>>

\* The holder logs in, whatever happened while it waited.
Relogin(t) ==
    /\ task[t].at = "wait" /\ lock = None
    /\ lock' = t
    /\ task' = [task EXCEPT ![t].at = "relogin"]
    /\ UNCHANGED <<token, failed, updater, router, events, cut, denied>>

RetryRefused(t) ==
    /\ task[t].at = "resent" /\ task[t].tok = "bad"
    /\ Settle(t, "request", failed)
    /\ UNCHANGED <<client, router, events, cut, denied>>

\* An error of the router that does not name the token.
OtherError(t) ==
    /\ task[t].at \in {"sent", "resent"}
    /\ Settle(t, "request", failed)
    /\ UNCHANGED <<client, router, events, cut, denied>>

\* No answer, or one that is not JSON.  The repeated request is outside of the
\* try block of get(): its exception is no LuciError.
Unanswered(t) ==
    /\ task[t].at \in {"sent", "resent"}
    /\ Settle(t, IF task[t].at = "sent" THEN "conn" ELSE "raw", failed)
    /\ UNCHANGED <<client, router, events, cut, denied>>

-----------------------------------------------------------------------------
(* The router, Home Assistant and the user. *)

\* A reboot, a timeout, or another client ends the session.
EndSessions ==
    /\ Charge
    /\ token' = Spoiled(token)
    /\ task' = [t \in Tasks |-> Spoil(task[t])]
    /\ cut' = [t \in Tasks |-> TRUE]
    /\ UNCHANGED <<failed, lock, updater, router, denied>>

\* The administrator password changes, or is set back.
ChangePassword ==
    /\ Charge
    /\ router' = [router EXCEPT !.takes = ~@]
    /\ UNCHANGED <<client, task, updater, cut, denied>>

\* Home Assistant sets the entry up with a new client: after a failed first
\* refresh by itself, else when the user reloads it or confirms a password.
\* What still runs on the old client no longer counts.
NewClient(phases) ==
    /\ updater.phase \in phases /\ task[Refresh].at = "idle"
    /\ token' = "none" /\ failed' = FALSE /\ lock' = None
    /\ task' = [t \in Tasks |-> Idle]
    /\ updater' = NewUpdater
    /\ cut' = [t \in Tasks |-> FALSE]
    /\ denied' = FALSE

SetUpAgain == NewClient({"again"}) /\ UNCHANGED <<router, events>>
Reload == NewClient({"running", "failed"}) /\ Charge /\ UNCHANGED router
Reauthenticate == NewClient({"asked"}) /\ Charge /\ router' = [router EXCEPT !.takes = TRUE]

RefreshBegins == StartRefresh \/ StartOptional

Step(t) ==
    \/ RouterLogin(t) \/ LoginGranted(t) \/ LoginDenied(t) \/ LoginLost(t)
    \/ Answered(t) \/ SessionEnded(t) \/ Relogin(t) \/ RetryRefused(t)
    \/ OtherError(t) \/ Unanswered(t)

\* What a refresh must have is answered: its login, its request in a good
\* session and in one that has ended.
Asked == ~updater.opt /\ RouterLogin(Refresh)
LoggedIn == ~updater.opt /\ (LoginGranted(Refresh) \/ LoginDenied(Refresh))
Served == ~updater.opt /\ Answered(Refresh)
Rejected ==
    /\ ~updater.opt /\ task[Refresh].tok = "bad"
    /\ SessionEnded(Refresh) \/ RetryRefused(Refresh) \/ OtherError(Refresh)

Next ==
    \/ RefreshBegins
    \/ \E t \in Services : StartService(t)
    \/ \E t \in Tasks : Step(t)
    \/ EndSessions \/ ChangePassword \/ SetUpAgain \/ Reload \/ Reauthenticate

\* The timer goes on, every request ends in an answer or a timeout, a router
\* that is asked again and again answers, and Home Assistant retries a setup.
Fairness ==
    /\ WF_vars(RefreshBegins) /\ WF_vars(SetUpAgain)
    /\ \A t \in Tasks : WF_vars(Step(t))
    /\ SF_vars(Asked) /\ SF_vars(LoggedIn) /\ SF_vars(Served) /\ SF_vars(Rejected)

Spec == Init /\ [][Next]_vars /\ Fairness

-----------------------------------------------------------------------------
(* Properties. *)

\* Type invariant; the task that logs in inside get() holds the lock.
TypeOK ==
    /\ token \in {"none", "good", "bad"} /\ failed \in BOOLEAN
    /\ lock \in Tasks \cup {None}
    /\ task \in [Tasks -> [at: {"idle", "login", "sent", "wait", "relogin", "resent", "between"},
                           tok: {"none", "good", "bad"},
                           grant: {"none", "good", "bad", "denied"}]]
    /\ \A t \in Tasks : task[t].at = "relogin" <=> lock = t
    /\ updater \in [phase: {"setup", "running", "asked", "failed", "again"}, first: BOOLEAN,
                    reauth: BOOLEAN, state: BOOLEAN, opt: BOOLEAN, retry: 0..MaxRetry]
    /\ router \in [single: BOOLEAN, takes: BOOLEAN]
    /\ events \in 0..MaxEvents
    /\ cut \in [Tasks -> BOOLEAN] /\ denied \in BOOLEAN

\* luci.py, get(): one login is enough for an expired session.  The repeated
\* request is refused for its token only if a session ended after that login.
OneLoginSuffices ==
    [][\A t \in Tasks : RetryRefused(t) => cut[t]]_vars

\* Scheduled polling stops at rejected credentials: after a login of its own
\* was refused the refresh never sends another before somebody's was taken or
\* the user was asked, whichever handler caught the refusal.
RejectedOnce ==
    [][task[Refresh].at \notin LoginFlags /\ task'[Refresh].at \in LoginFlags => ~denied]_vars

\* Sessions that end, crossed logins, lost answers and failed setups pass: in
\* the end the router answers the refreshes again, or a person is needed.
Recovers ==
    \/ []<><<Served>>_vars
    \/ <>[](updater.phase \in {"asked", "failed"})
=============================================================================
