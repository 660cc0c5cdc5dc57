----------------------------- MODULE Monitoring -----------------------------
(***************************************************************************)
(* The web server and the monitoring server together: the handlers and     *)
(* goroutines of Completion, with what their timeouts do to the health of  *)
(* the server (Health) and what /readyz and /livez make of it.             *)
(*                                                                         *)
(* A POST whose deadline passes is answered only after CompleteRequest     *)
(* recorded the timeout; a readiness probe is answered with what IsReady   *)
(* made of the timestamp it copied, however much later.                    *)
(***************************************************************************)
EXTENDS Completion, Integers

CONSTANTS
    Livez,          \* the probes that ask /livez
    RememberBusy,   \* config.Server.RememberBusyTimeout
    MaxTime         \* bound: the clock stops there

VARIABLES
    clock, web, now, busy, probe, seen, decidedAt, recorded, known,  \* of Health
    before      \* history: probe -> the POSTs whose clients had been told of a
                \* timeout when it came

H == INSTANCE Health

ASSUME MonitoringAssumption ==
    /\ H!HealthAssumption
    /\ Livez \subseteq Probes

\* The health without ready, which Completion also has.
healthVars == <<clock, web, now, busy, probe, seen, decidedAt, recorded, known>>
monitoringVars == <<vars, healthVars, before>>

MonitoringInit ==
    /\ Init
    /\ H!Init
    /\ before = [p \in Probes |-> {}]

\* A step of the handlers and goroutines that has nothing to do with the health.
Plain(A) == A /\ UNCHANGED <<healthVars, before>>

\* A step of the health that is part of no other one.
HealthOnly(A) == A /\ UNCHANGED <<vars, before>>

ToldTimeout == {r \in Web : handler[r] = "sentTimeout"}

ProbeArrives(p) ==
    /\ Arrive(p)
    /\ before' = [before EXCEPT ![p] = ToldTimeout]
    /\ UNCHANGED healthVars

-----------------------------------------------------------------------------
(* CompleteRequest of a POST.                                              *)

\* doneChan was signalled in time.
Completes(r) == SendOk(r) /\ H!Complete(r) /\ UNCHANGED before

\* The deadline released the handler, which notes the time, then passes it on.
NotesTime(r) == handler[r] = "status" /\ HealthOnly(H!TimeOut(r))

RecordsTime(r) == HealthOnly(H!UpdateLatestTimestamps(r))

\* Variant: the timeout is recorded in the background.
TimeoutRecordedInBackground(r) == web[r] \in {"noted", "timedout"}

\* UpdateLatestTimestamps returned, so CompleteRequest may.
TimeoutRecorded(r) == web[r] = "timedout"

AnswersTimeout(r) == TimeoutRecorded(r) /\ Plain(TimeoutStatus(r))

-----------------------------------------------------------------------------
(* The goroutine of a probe.                                               *)

CopiesTimestamp(p) ==
    /\ p \notin Livez
    /\ work[p] = "work"
    /\ HealthOnly(H!CopyTimestamp(p))

AsksReady(p) ==
    /\ p \notin Livez
    /\ AskHealth(p)
    /\ H!IsReady(p)
    /\ UNCHANGED before

AsksAlive(p) ==
    /\ p \in Livez
    /\ Plain(AskHealth(p))
    /\ ready'[p] = H!IsAlive

-----------------------------------------------------------------------------
PostStep(r) ==
    \/ Plain(Arrive(r)) \/ Completes(r)
    \/ NotesTime(r) \/ RecordsTime(r) \/ AnswersTimeout(r)
    \/ Plain(Work(r) \/ Refuse(r) \/ PostType(r) \/ PostBody(r) \/ PostStatus(r))

ProbeStep(p) ==
    \/ ProbeArrives(p) \/ Plain(SendOk(p))
    \/ CopiesTimestamp(p) \/ AsksReady(p) \/ AsksAlive(p)
    \/ Plain(ProbeType(p) \/ ProbeStatus(p) \/ ProbeBody(p))
    \/ Plain(TimeoutStatus(p) \/ TimeoutBody(p))

MonitoringNext ==
    \/ HealthOnly(H!Tick)
    \/ \E r \in Requests :
          Plain(Expire(r) \/ Select(r) \/ Signal(r) \/ TimeoutType(r)
                    \/ CopyHead(r) \/ CopyBody(r))
    \/ \E r \in Web : PostStep(r)
    \/ \E p \in Probes : ProbeStep(p)

MonitoringSpec == MonitoringInit /\ [][MonitoringNext]_monitoringVars

-----------------------------------------------------------------------------
(* Properties.                                                             *)

MonitoringTypeOK ==
    /\ TypeOK
    /\ H!TypeOK
    /\ before \in [Probes -> SUBSET Web]

BusyIsLatest == H!BusyIsLatest

NotReadyWhileBusy == H!NotReadyWhileBusy

\* A client that was told of a timeout and then asks /readyz is not told in
\* time that the server is ready before RememberBusyTimeout has passed since
\* that timeout, in whatever order the handlers note, record, copy and compare.
NotReadyAfterTimeout ==
    \A p \in Probes \ Livez :
        handler[p] = "sentOk" /\ sent[p].status = 200 =>
            \A r \in before[p] : now[r] + RememberBusy < decidedAt[p]
=============================================================================
