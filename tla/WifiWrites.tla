------------------------------ MODULE WifiWrites ------------------------------
(***************************************************************************)
(* Settings of one radio that Home Assistant writes to a router and reads  *)
(* back: switch.py, select.py, and the Wi-Fi step of a refresh in          *)
(* updater.py.                                                             *)
(*                                                                         *)
(* A write of a switch or of a select sends the whole radio: the copy its  *)
(* entity took at the last refresh, with one field replaced.  The answer   *)
(* may be lost with the radios that the write restarts, and the request    *)
(* may still arrive.  A refresh reads the radio and is heard twice by      *)
(* every entity: when the topology is published and at its end.  A select  *)
(* remembers what was asked and warns when the router does not show it.    *)
(*                                                                         *)
(* One radio stands for all; availability, the list of options and a band  *)
(* that stops being reported are left out.                                 *)
(*                                                                         *)
(* A module that extends TrackerPresence can extend this one as well: they *)
(* share no name.                                                          *)
(***************************************************************************)
EXTENDS Naturals, FiniteSets

CONSTANTS
    Switches, Selects,   \* the settings of the radio, each with one entity
    Values,              \* what a setting can be
    NoValue,             \* no value
    Calls,               \* bound: the service calls a user ever makes
    MaxOverrides         \* bound: how often the router takes a value of its own

Radio == Switches \cup Selects

ASSUME NoneIsApart == NoValue \notin Radio \cup Values \cup Calls
ASSUME OverridesAreBounded == MaxOverrides \in Nat

VARIABLES
    router,     \* setting -> its value on the router
    data,       \* updater.data, one key per entity
    wifiData,   \* updater.data[..._data]: the radio as the last refresh read it
    refresh,    \* the refresh under way: where it is, and the answer it waits for
    shown,      \* entity -> the state Home Assistant shows
    copy,       \* entity of the radio -> its _wifi_data
    asked,      \* select -> what it remembers of the last request
    call,       \* service call -> its entity, value, payload and progress
    overrides,  \* how often the router has taken a value of its own
    cause       \* history: select -> why the router may show another value than asked

wifiVars == <<router, data, wifiData, refresh, shown, copy, asked, call, overrides, cause>>

NoCall == [e |-> NoValue, payload |-> <<>>, at |-> "new", why |-> {}]
NotAsked == [want |-> NoValue, confirmed |-> FALSE, misses |-> 0, counted |-> FALSE,
             said |-> NoValue]
Causes == {"router", "own"}

\* Mutant: a write sends its own field alone.
PayloadAlone(e, v) == [f \in {e} |-> v]

\* What a write sends: the entity's copy of the radio with its field replaced.
Payload(e, v) == [copy[e] EXCEPT ![e] = v]

\* Mutant: the first refresh that disagrees is enough.
CheckedAtOnce(a, reported) ==
    IF a.want = NoValue THEN a
    ELSE IF reported = a.want THEN [a EXCEPT !.confirmed = TRUE, !.misses = 0, !.said = NoValue]
    ELSE [a EXCEPT !.said = reported]

\* _check_requested_option: agreement confirms; before the first one two
\* refreshes must disagree, each counted once; every other value is said once.
Checked(a, reported) ==
    LET misses == IF a.counted \/ a.misses = 2 THEN a.misses ELSE a.misses + 1
        early == ~a.confirmed /\ misses < 2
    IN  IF a.want = NoValue THEN a
        ELSE IF reported = a.want
        THEN [a EXCEPT !.confirmed = TRUE, !.misses = 0, !.said = NoValue]
        ELSE [a EXCEPT !.misses = IF a.confirmed THEN @ ELSE misses,
                       !.counted = IF a.confirmed THEN @ ELSE TRUE,
                       !.said = IF early THEN @ ELSE reported]

\* The history: something changed settings S that a request had set, or has
\* been taken for and not been answered yet; c itself excepted.
Noted(S, k, c) ==
    /\ cause' = [e \in Selects |-> IF e \in S /\ asked[e].want # NoValue
                                    THEN cause[e] \cup {k} ELSE cause[e]]
    /\ call' = [d \in Calls |-> IF d # c /\ call[d].at = "taken" /\ call[d].e \in S
                                THEN [call[d] EXCEPT !.why = @ \cup {k}]
                                ELSE IF d = c
                                THEN IF call[d].at = "sent" THEN [call[d] EXCEPT !.at = "taken"]
                                     ELSE [NoCall EXCEPT !.at = "done"]
                                ELSE call[d]]

-----------------------------------------------------------------------------
WifiInit ==
    /\ router \in [Radio -> Values]
    /\ data = router
    /\ wifiData = router
    /\ refresh = [at |-> "idle", got |-> <<>>]
    /\ shown = router
    /\ copy = [e \in Radio |-> wifiData]
    /\ asked = [e \in Selects |-> NotAsked]
    /\ call = [c \in Calls |-> NoCall]
    /\ overrides = 0
    /\ cause = [e \in Selects |-> {}]

(* Writes. *)

FreeCall == CHOOSE c \in Calls : call[c].at = "new" \/ \A d \in Calls : call[d].at # "new"

\* turn_on, turn_off, select_option: the request is sent.
Send(c, e, v) ==
    /\ c = FreeCall /\ call[c].at = "new"
    /\ call' = [call EXCEPT ![c] = [e |-> e, payload |-> Payload(e, v), at |-> "sent", why |-> {}]]
    /\ UNCHANGED <<router, data, wifiData, refresh, shown, copy, asked, overrides, cause>>

\* The router takes the request, one whose sender has given up included.
Take(c) ==
    LET p == call[c].payload
    IN  /\ call[c].at \in {"sent", "late"}
        /\ router' = p
        /\ Noted({f \in Radio : p[f] # router[f]} \cup {call[c].e}, "own", c)
        /\ UNCHANGED <<data, wifiData, refresh, shown, copy, asked, overrides>>

\* The router refuses, or the request of a sender that gave up is lost.
Drop(c) ==
    /\ call[c].at \in {"sent", "late"}
    /\ call' = [call EXCEPT ![c] = [NoCall EXCEPT !.at = "done"]]
    /\ UNCHANGED <<router, data, wifiData, refresh, shown, copy, asked, overrides, cause>>

\* The entity shows value v and puts it into updater.data; a select remembers it.
Remember(e, v, why) ==
    /\ data' = [data EXCEPT ![e] = v]
    /\ shown' = [shown EXCEPT ![e] = v]
    /\ IF e \in Selects
       THEN /\ asked' = [asked EXCEPT ![e] = [NotAsked EXCEPT !.want = v]]
            /\ cause' = [cause EXCEPT ![e] = why]
       ELSE UNCHANGED <<asked, cause>>

\* The answer arrives: the entity's copy is what it sent.
Accepted(c) ==
    LET e == call[c].e
    IN  /\ call[c].at = "taken"
        /\ Remember(e, call[c].payload[e], call[c].why)
        /\ copy' = [copy EXCEPT ![e] = call[c].payload]
        /\ call' = [call EXCEPT ![c] = [NoCall EXCEPT !.at = "done"]]
        /\ UNCHANGED <<router, wifiData, refresh, overrides>>

\* No answer: the new value is shown all the same, and the next refreshes tell.
Unanswered(c) ==
    LET e == call[c].e
    IN  /\ call[c].at \in {"sent", "taken"}
        /\ Remember(e, call[c].payload[e], {"router"})
        /\ call' = [call EXCEPT ![c] = IF call[c].at = "sent"
                                       THEN [call[c] EXCEPT !.at = "late"]
                                       ELSE [NoCall EXCEPT !.at = "done"]]
        /\ UNCHANGED <<router, wifiData, refresh, copy, overrides>>

\* A mesh controller, or another administrator, sets a value of its own.
Override(f, v) ==
    /\ overrides < MaxOverrides /\ router[f] # v
    /\ overrides' = overrides + 1
    /\ router' = [router EXCEPT ![f] = v]
    /\ Noted({f}, "router", NoValue)
    /\ UNCHANGED <<data, wifiData, refresh, shown, copy, asked>>

-----------------------------------------------------------------------------
(* The refresh. *)

\* Mutant: a poll does not count as a new one.
BeginUncounted ==
    /\ refresh.at = "idle"
    /\ refresh' = [refresh EXCEPT !.at = "wifi"]
    /\ UNCHANGED asked
    /\ UNCHANGED <<router, data, wifiData, shown, copy, call, overrides, cause>>

\* update_cycle goes up: a disagreement counts again.
Begin ==
    /\ refresh.at = "idle"
    /\ refresh' = [refresh EXCEPT !.at = "wifi"]
    /\ asked' = [e \in Selects |-> [asked[e] EXCEPT !.counted = FALSE]]
    /\ UNCHANGED <<router, data, wifiData, shown, copy, call, overrides, cause>>

\* The router answers; the values are those of this moment.
Answer ==
    /\ refresh.at = "wifi"
    /\ refresh' = [at |-> "got", got |-> router]
    /\ UNCHANGED <<router, data, wifiData, shown, copy, asked, call, overrides, cause>>

\* Mutant: the radio's dictionary stays the one first read.
PrepareWifiKeys ==
    /\ refresh.at = "got"
    /\ data' = refresh.got
    /\ refresh' = [at |-> "topo", got |-> <<>>]
    /\ UNCHANGED wifiData
    /\ UNCHANGED <<router, shown, copy, asked, call, overrides, cause>>

PrepareWifi ==
    /\ refresh.at = "got"
    /\ data' = refresh.got
    /\ wifiData' = refresh.got
    /\ refresh' = [at |-> "topo", got |-> <<>>]
    /\ UNCHANGED <<router, shown, copy, asked, call, overrides, cause>>

\* The request for the radio fails, or one before it ended the cycle: what was
\* known stays, and is published as if it had been read.
WifiFails ==
    /\ refresh.at = "wifi"
    /\ refresh' = [refresh EXCEPT !.at = "topo"]
    /\ cause' = [e \in Selects |-> IF asked[e].want = NoValue THEN cause[e]
                                   ELSE cause[e] \cup {"own"}]
    /\ UNCHANGED <<router, data, wifiData, shown, copy, asked, call, overrides>>

\* _handle_coordinator_update of every entity, twice in a refresh.
Publish ==
    /\ refresh.at \in {"topo", "end"}
    /\ refresh' = [refresh EXCEPT !.at = IF @ = "topo" THEN "end" ELSE "idle"]
    /\ shown' = data
    /\ copy' = [e \in Radio |-> wifiData]
    /\ asked' = [e \in Selects |-> Checked(asked[e], data[e])]
    /\ UNCHANGED <<router, data, wifiData, call, overrides, cause>>

RefreshStep == Begin \/ Answer \/ PrepareWifi \/ WifiFails \/ Publish

CallStep(c) == Take(c) \/ Drop(c) \/ Accepted(c) \/ Unanswered(c)

WifiNext ==
    \/ \E c \in Calls : \/ \E e \in Radio, v \in Values : Send(c, e, v)
                        \/ CallStep(c)
    \/ \E f \in Radio, v \in Values : Override(f, v)
    \/ RefreshStep

\* Refreshes go on, every request of them is answered now and then, and a call
\* ends: it is answered, or times out.
WifiFairness ==
    /\ WF_wifiVars(RefreshStep)
    /\ SF_wifiVars(Answer)
    /\ \A c \in Calls : WF_wifiVars(CallStep(c))

WifiSpec == WifiInit /\ [][WifiNext]_wifiVars /\ WifiFairness

-----------------------------------------------------------------------------
(* Properties. *)

\* Type invariant; the answer a refresh holds is one of the router's.
WifiTypeOK ==
    /\ router \in [Radio -> Values] /\ data \in [Radio -> Values]
    /\ shown \in [Radio -> Values]
    /\ wifiData \in [Radio -> Values] /\ copy \in [Radio -> [Radio -> Values]]
    /\ \/ refresh.at = "got" /\ refresh.got \in [Radio -> Values]
       \/ refresh.at \in {"idle", "wifi", "topo", "end"} /\ refresh.got = <<>>
    /\ asked \in [Selects -> [want: Values \cup {NoValue}, confirmed: BOOLEAN, misses: 0..2,
                              counted: BOOLEAN, said: Values \cup {NoValue}]]
    /\ \A c \in Calls :
          /\ call[c].at \in {"new", "sent", "taken", "late", "done"}
          /\ call[c].why \subseteq Causes
          /\ call[c].at \in {"sent", "taken", "late"} =>
                /\ call[c].e \in Radio
                /\ call[c].payload \in [Radio -> Values]
    /\ overrides \in 0..MaxOverrides
    /\ cause \in [Selects -> SUBSET Causes]

\* A select says that the router replaced its value.
Warns(e) == asked'[e].said \notin {NoValue, asked[e].said}

\* The refresh that was under way when a write landed does not alone make a
\* select warn, however often it is heard: since the request the router took
\* another value, another write carried one over, the write got no answer, or
\* a refresh failed and published what was known before.
WarnedWithReason == [][\A e \in Selects : Warns(e) => cause[e] # {}]_wifiVars

\* A value that the router keeps in place of the one asked for is warned about.
LastingOverrideIsReported ==
    \A e \in Selects, v \in Values :
        <>[](asked[e].want \notin {NoValue, v} /\ router[e] = v) => <>[](asked[e].said = v)

\* Whatever was written, refused, unanswered or overwritten by a refresh that
\* read before the write: in the end every entity shows the router's value and
\* the next write sends the router's radio.
Converges == <>[](\A e \in Radio : shown[e] = router[e] /\ copy[e] = router)
=============================================================================
