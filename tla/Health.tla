------------------------------- MODULE Health -------------------------------
(***************************************************************************)
(* The health of the server (health/health.go): handlers that time out     *)
(* note the time and pass it to UpdateLatestTimestamps, /readyz compares   *)
(* the latest such time with the present one.  Noting the time and taking  *)
(* the lock are two steps, as are copying the timestamp and comparing it.  *)
(* Monitoring puts it behind the handlers of Completion.                   *)
(***************************************************************************)
EXTENDS Integers

CONSTANTS
    Web,            \* POST requests
    Probes,         \* /readyz requests
    RememberBusy,   \* config.Server.RememberBusyTimeout
    MaxTime         \* bound: the clock stops there

\* What is assumed of the constants; Monitoring, which brings a value for them,
\* assumes it.
HealthAssumption ==
    /\ RememberBusy \in Nat
    /\ MaxTime \in Nat

VARIABLES
    clock,      \* time.Now()
    web,        \* POST request -> where its handler stands in CompleteRequest
    now,        \* POST request -> the time its handler noted
    busy,       \* latestBusyTimestamp
    probe,      \* probe -> where it stands in IsReady
    seen,       \* probe -> the timestamp it copied
    decidedAt,  \* probe -> the time it compared with
    ready,      \* probe -> what IsReady returned
    (* History, read by no action. *)
    recorded,   \* the times passed to UpdateLatestTimestamps
    known       \* probe -> recorded, when it copied the timestamp

vars == <<clock, web, now, busy, probe, seen, decidedAt, ready, recorded, known>>

\* The zero time.Time, long before the program starts.
ZeroTime == -(RememberBusy + 1)

Init ==
    /\ clock = 0
    /\ web = [r \in Web |-> "waiting"]
    /\ now = [r \in Web |-> 0]
    /\ busy = ZeroTime
    /\ probe = [p \in Probes |-> "new"]
    /\ seen = [p \in Probes |-> ZeroTime]
    /\ decidedAt = [p \in Probes |-> 0]
    /\ ready = [p \in Probes |-> FALSE]
    /\ recorded = {}
    /\ known = [p \in Probes |-> {}]

Tick ==
    /\ clock < MaxTime
    /\ clock' = clock + 1
    /\ UNCHANGED <<web, now, busy, probe, seen, decidedAt, ready, recorded, known>>

\* IsAlive compares the latest times of a success and of an error: nobody ever
\* reports either, both are the zero time.
IsAlive == ~(ZeroTime < ZeroTime)

\* The request completes: doneChan is signalled first.
Complete(r) ==
    /\ web[r] = "waiting"
    /\ web' = [web EXCEPT ![r] = "completed"]
    /\ UNCHANGED <<clock, now, busy, probe, seen, decidedAt, ready, recorded, known>>

\* The deadline comes first: the handler notes the time.
TimeOut(r) ==
    /\ web[r] = "waiting"
    /\ web' = [web EXCEPT ![r] = "noted"]
    /\ now' = [now EXCEPT ![r] = clock]
    /\ UNCHANGED <<clock, busy, probe, seen, decidedAt, ready, recorded, known>>

\* Variant: the timestamp that gets the lock last wins.
LaterLast(t) == t

\* UpdateLatestTimestamps replaces a timestamp only by a later one.
Later(t) == IF t > busy THEN t ELSE busy

UpdateLatestTimestamps(r) ==
    /\ web[r] = "noted"
    /\ web' = [web EXCEPT ![r] = "timedout"]
    /\ busy' = Later(now[r])
    /\ recorded' = recorded \cup {now[r]}
    /\ UNCHANGED <<clock, now, probe, seen, decidedAt, ready, known>>

CopyTimestamp(p) ==
    /\ probe[p] = "new"
    /\ probe' = [probe EXCEPT ![p] = "copied"]
    /\ seen' = [seen EXCEPT ![p] = busy]
    /\ known' = [known EXCEPT ![p] = recorded]
    /\ UNCHANGED <<clock, web, now, busy, decidedAt, ready, recorded>>

\* Variant: the moment itself counts as over.
QuietTooSoon(p) == seen[p] + RememberBusy <= clock

\* busyTimestamp.Add(RememberBusyTimeout).Before(time.Now()).
Quiet(p) == seen[p] + RememberBusy < clock

IsReady(p) ==
    /\ probe[p] = "copied"
    /\ probe' = [probe EXCEPT ![p] = "decided"]
    /\ ready' = [ready EXCEPT ![p] = Quiet(p)]
    /\ decidedAt' = [decidedAt EXCEPT ![p] = clock]
    /\ UNCHANGED <<clock, web, now, busy, seen, recorded, known>>

Next ==
    \/ Tick
    \/ \E r \in Web : Complete(r) \/ TimeOut(r) \/ UpdateLatestTimestamps(r)
    \/ \E p \in Probes : CopyTimestamp(p) \/ IsReady(p)

Spec == Init /\ [][Next]_vars

-----------------------------------------------------------------------------
(* Properties.                                                             *)

TypeOK ==
    /\ clock \in 0 .. MaxTime
    /\ web \in [Web -> {"waiting", "completed", "noted", "timedout"}]
    /\ now \in [Web -> Nat]
    /\ busy \in Int
    /\ probe \in [Probes -> {"new", "copied", "decided"}]
    /\ seen \in [Probes -> Int]
    /\ decidedAt \in [Probes -> Nat]
    /\ ready \in [Probes -> BOOLEAN]
    /\ recorded \in SUBSET Nat
    /\ known \in [Probes -> SUBSET Nat]

\* The busy timestamp is that of the latest timeout recorded, in whatever order
\* the handlers got the lock after noting their times.
BusyIsLatest == \A t \in recorded : t <= busy

\* /readyz reports ready only when every timeout that was recorded when it
\* copied the timestamp is longer ago than RememberBusyTimeout, however late it
\* came to compare.
NotReadyWhileBusy ==
    \A p \in Probes :
        ready[p] => \A t \in known[p] : t + RememberBusy < decidedAt[p]
=============================================================================
