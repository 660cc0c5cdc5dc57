-------------------------- MODULE MonitoringProofs --------------------------
(***************************************************************************)
(* Proofs about Monitoring, for any number of POSTs and probes, any        *)
(* RememberBusyTimeout and any clock.                                      *)
(*                                                                         *)
(* What happens to the responses is what Completion says, as Monitoring    *)
(* implements it.  What /readyz says of a timeout follows that timeout     *)
(* from the handler that notes it to the probe that compares with it:      *)
(* noted, recorded before the client is told, covered by the timestamp     *)
(* that any later probe copies.                                            *)
(***************************************************************************)
EXTENDS Monitoring, CompletionProofs

\* A handler that goes on to answer a timeout has recorded it.
PostHealth(r) ==
    /\ handler[r] \in {"type", "body", "copyHead", "copyBody", "sentTimeout"} =>
           web[r] = "timedout"
    /\ web[r] = "timedout" => now[r] \in recorded

\* Where IsReady stands in the goroutine of a readiness probe.
ProbeStage(p) ==
    /\ p \in Livez => probe[p] = "new"
    /\ p \notin Livez =>
           /\ work[p] = "new" => probe[p] = "new"
           /\ work[p] \notin {"new", "work"} <=> probe[p] = "decided"
           /\ ready[p] => probe[p] = "decided"

\* What the copied timestamp covers, and what follows from the comparison.
ProbeKnows(p) ==
    /\ probe[p] = "new" => known[p] = {}
    /\ \A t \in known[p] : t <= seen[p]
    /\ probe[p] = "decided" /\ ready[p] => seen[p] + RememberBusy < decidedAt[p]

\* The timeouts that came before the probe are among those.
ProbeCovers(p) ==
    \A r \in before[p] :
        /\ web[r] = "timedout"
        /\ probe[p] # "new" => now[r] \in known[p]

ProbeHealth(p) == ProbeStage(p) /\ ProbeKnows(p) /\ ProbeCovers(p)

HealthInv ==
    /\ \A r \in Web : PostHealth(r)
    /\ BusyIsLatest
    /\ \A p \in Probes : ProbeHealth(p)

MInv == MonitoringTypeOK /\ CInv /\ HealthInv

-----------------------------------------------------------------------------
(* Monitoring implements Completion.                                       *)

LEMMA StepIsCompletion == [MonitoringNext]_monitoringVars => [Next]_vars
<1> SUFFICES ASSUME [MonitoringNext]_monitoringVars PROVE [Next]_vars
  OBVIOUS
<1> USE Kinds DEF Plain, HealthOnly, Next, WorkStep, HandlerStep
<1>1. CASE HealthOnly(H!Tick)
  BY <1>1
<1>2. ASSUME NEW r \in Requests,
             Plain(Expire(r) \/ Select(r) \/ Signal(r) \/ TimeoutType(r)
                       \/ CopyHead(r) \/ CopyBody(r))
      PROVE  Next
  BY <1>2
<1>3. ASSUME NEW r \in Web, PostStep(r) PROVE [Next]_vars
  BY <1>3 DEF PostStep, Completes, NotesTime, RecordsTime, AnswersTimeout
<1>4. ASSUME NEW p \in Probes, ProbeStep(p) PROVE [Next]_vars
  BY <1>4 DEF ProbeStep, ProbeArrives, CopiesTimestamp, AsksReady, AsksAlive
<1>5. CASE UNCHANGED monitoringVars
  BY <1>5 DEF monitoringVars
<1> QED BY <1>1, <1>2, <1>3, <1>4, <1>5 DEF MonitoringNext

\* The web server and the monitoring server with the health between them behave
\* to each of their clients as Completion says: recording a timeout, copying the
\* timestamp and comparing it are steps that the responses do not show.
THEOREM ImplementsCompletion == MonitoringSpec => Spec
<1>1. MonitoringInit => Init
  BY DEF MonitoringInit
<1> QED BY <1>1, StepIsCompletion, PTL DEF MonitoringSpec, Spec

-----------------------------------------------------------------------------
(* Type correctness.                                                       *)

LEMMA Constants ==
    /\ RememberBusy \in Nat /\ MaxTime \in Nat
    /\ Livez \subseteq Probes
    /\ H!ZeroTime \in Int
    /\ H!IsAlive
BY MonitoringAssumption
   DEF MonitoringAssumption, H!HealthAssumption, H!ZeroTime, H!IsAlive

LEMMA MonitoringInitInv == MonitoringInit => MInv
<1> SUFFICES ASSUME MonitoringInit PROVE MInv
  OBVIOUS
<1> USE Constants DEF MonitoringInit, H!Init
<1>1. CInv
  BY CompletionInit
<1>2. MonitoringTypeOK
  BY <1>1 DEF CInv, MonitoringTypeOK, H!TypeOK
<1>3. HealthInv
  BY Kinds DEF Init, HealthInv, PostHealth, BusyIsLatest, H!BusyIsLatest, ProbeHealth,
               ProbeStage, ProbeKnows, ProbeCovers
<1> QED BY <1>1, <1>2, <1>3 DEF MInv

LEMMA MonitoringTypeStep ==
    ASSUME MonitoringTypeOK, TypeOK', MonitoringNext
    PROVE  MonitoringTypeOK'
<1> USE Constants DEF MonitoringTypeOK, H!TypeOK, healthVars, vars, Plain, HealthOnly
<1>1. CASE HealthOnly(H!Tick)
  BY <1>1 DEF H!Tick
<1>2. ASSUME NEW r \in Requests,
             Plain(Expire(r) \/ Select(r) \/ Signal(r) \/ TimeoutType(r)
                       \/ CopyHead(r) \/ CopyBody(r))
      PROVE  MonitoringTypeOK'
  BY <1>2 DEF TypeOK
<1>3. ASSUME NEW r \in Web, PostStep(r) PROVE MonitoringTypeOK'
  <2>1. CASE Completes(r)
    BY <2>1 DEF Completes, H!Complete, TypeOK
  <2>2. CASE NotesTime(r)
    BY <2>2 DEF NotesTime, H!TimeOut
  <2>3. CASE RecordsTime(r)
    <3>1. busy' \in Int /\ recorded' \in SUBSET Nat
      <4>1. busy' = H!Later(now[r]) /\ recorded' = recorded \cup {now[r]}
        BY <2>3 DEF RecordsTime, H!UpdateLatestTimestamps
      <4>2. now[r] \in Nat
        OBVIOUS
      <4>3. H!Later(now[r]) \in Int
        BY <4>2 DEF H!Later
      <4>4. recorded \cup {now[r]} \in SUBSET Nat
        BY <4>2
      <4> QED BY ONLY <4>1, <4>3, <4>4
    <3>2. web' \in [Web -> {"waiting", "completed", "noted", "timedout"}]
      BY <2>3 DEF RecordsTime, H!UpdateLatestTimestamps
    <3> QED BY <2>3, <3>1, <3>2 DEF RecordsTime, H!UpdateLatestTimestamps, TypeOK
  <2>4. CASE \/ AnswersTimeout(r) \/ Plain(Arrive(r))
             \/ Plain(Work(r) \/ Refuse(r) \/ PostType(r) \/ PostBody(r) \/ PostStatus(r))
    BY <2>4 DEF AnswersTimeout, TypeOK
  <2> QED BY <1>3, <2>1, <2>2, <2>3, <2>4 DEF PostStep
<1>4. ASSUME NEW p \in Probes, ProbeStep(p) PROVE MonitoringTypeOK'
  <2>1. CASE ProbeArrives(p)
    BY <2>1 DEF ProbeArrives, ToldTimeout, TypeOK
  <2>2. CASE CopiesTimestamp(p)
    BY <2>2 DEF CopiesTimestamp, H!CopyTimestamp
  <2>3. CASE AsksReady(p)
    BY <2>3 DEF AsksReady, H!IsReady, TypeOK
  <2>4. CASE \/ AsksAlive(p) \/ Plain(SendOk(p))
             \/ Plain(ProbeType(p) \/ ProbeStatus(p) \/ ProbeBody(p))
             \/ Plain(TimeoutStatus(p) \/ TimeoutBody(p))
    BY <2>4 DEF AsksAlive, TypeOK
  <2> QED BY <1>4, <2>1, <2>2, <2>3, <2>4 DEF ProbeStep
<1> QED BY <1>1, <1>2, <1>3, <1>4 DEF MonitoringNext

-----------------------------------------------------------------------------
(* The health.                                                             *)

\* A step that leaves the health alone, and of which no handler comes out in the
\* course of answering a timeout that was not in it before.
LEMMA HealthUntouched ==
    ASSUME HealthInv, UNCHANGED <<healthVars, before, ready>>,
           \A r \in Web :
               handler'[r] \in {"type", "body", "copyHead", "copyBody", "sentTimeout"} =>
                   web[r] = "timedout",
           \A p \in Probes :
               /\ work'[p] = "new" => work[p] = "new"
               /\ work'[p] \notin {"new", "work"} <=> work[p] \notin {"new", "work"}
    PROVE  HealthInv'
BY DEF HealthInv, PostHealth, BusyIsLatest, H!BusyIsLatest, ProbeHealth, ProbeStage,
       ProbeKnows, ProbeCovers, healthVars

\* What a handler or a goroutine does by itself.
LEMMA SharedHealth ==
    ASSUME MInv, NEW r \in Requests,
           Plain(Expire(r) \/ Select(r) \/ Signal(r) \/ TimeoutType(r)
                     \/ CopyHead(r) \/ CopyBody(r))
    PROVE  HealthInv'
<1> USE Kinds DEF MInv, MonitoringTypeOK, TypeOK
<1>1. UNCHANGED <<healthVars, before, ready>>
  BY DEF Plain, Expire, Select, Signal, TimeoutType, CopyHead, CopyBody
<1>2. ASSUME NEW q \in Web,
             handler'[q] \in {"type", "body", "copyHead", "copyBody", "sentTimeout"}
      PROVE  web[q] = "timedout"
  <2>1. handler[q] \in {"type", "body", "copyHead", "copyBody", "sentTimeout"}
    BY <1>2 DEF Plain, Expire, Select, Signal, TimeoutType, CopyHead, CopyBody
  <2> QED BY <2>1 DEF HealthInv, PostHealth
<1>3. ASSUME NEW p \in Probes
      PROVE  /\ work'[p] = "new" => work[p] = "new"
             /\ work'[p] \notin {"new", "work"} <=> work[p] \notin {"new", "work"}
  BY DEF Plain, Expire, Select, Signal, SignalReady, TimeoutType, CopyHead, CopyBody
<1> QED BY <1>1, <1>2, <1>3, HealthUntouched

LEMMA PostStepHealth ==
    ASSUME MInv, NEW r \in Web, PostStep(r)
    PROVE  HealthInv'
<1> USE Kinds, Constants DEF MInv, MonitoringTypeOK, TypeOK, H!TypeOK
<1>1. ASSUME Plain(Arrive(r)) \/ AnswersTimeout(r)
                 \/ Plain(Work(r) \/ Refuse(r) \/ PostType(r) \/ PostBody(r) \/ PostStatus(r))
      PROVE  HealthInv'
  <2>1. UNCHANGED <<healthVars, before, ready>>
    BY <1>1 DEF Plain, AnswersTimeout, TimeoutStatus, Arrive, Work, Refuse, PostType, PostBody,
                PostStatus
  <2>2. ASSUME NEW q \in Web,
               handler'[q] \in {"type", "body", "copyHead", "copyBody", "sentTimeout"}
        PROVE  web[q] = "timedout"
    BY <1>1, <2>2 DEF Plain, AnswersTimeout, TimeoutRecorded, TimeoutStatus, Arrive, Work, Refuse,
                      PostType, PostBody, PostStatus, HealthInv, PostHealth
  <2>3. ASSUME NEW p \in Probes PROVE work'[p] = work[p]
    BY <1>1 DEF Plain, AnswersTimeout, TimeoutStatus, Arrive, Work, Refuse, PostType, PostBody,
                PostStatus
  <2> QED BY <2>1, <2>2, <2>3, HealthUntouched
<1>2. ASSUME UNCHANGED <<ready, busy, probe, seen, decidedAt, recorded, known, before>>,
             UNCHANGED work,
             \A q \in Web \ {r} : web'[q] = web[q] /\ now'[q] = now[q]
                                    /\ handler'[q] = handler[q],
             web[r] # "timedout", web'[r] # "timedout",
             handler'[r] \notin {"type", "body", "copyHead", "copyBody", "sentTimeout"}
      PROVE  HealthInv'
  BY <1>2 DEF HealthInv, PostHealth, BusyIsLatest, H!BusyIsLatest, ProbeHealth, ProbeStage,
              ProbeKnows, ProbeCovers
<1>3. CASE Completes(r)
  BY <1>2, <1>3 DEF Completes, SendOk, H!Complete
<1>4. CASE NotesTime(r)
  BY <1>2, <1>4 DEF NotesTime, HealthOnly, H!TimeOut, vars
<1>5. CASE RecordsTime(r)
  <2>1. /\ recorded' = recorded \cup {now[r]}
        /\ web[r] = "noted" /\ web' = [web EXCEPT ![r] = "timedout"]
        /\ UNCHANGED <<vars, now, probe, seen, decidedAt, known, before>>
    BY <1>5 DEF RecordsTime, HealthOnly, H!UpdateLatestTimestamps
  <2>2. now[r] <= busy' /\ busy <= busy' /\ busy' \in Int
    BY <1>5 DEF RecordsTime, HealthOnly, H!UpdateLatestTimestamps, H!Later
  <2>3. BusyIsLatest'
    BY <2>1, <2>2 DEF HealthInv, BusyIsLatest, H!BusyIsLatest
  <2>4. \A q \in Web : PostHealth(q)'
    BY <2>1 DEF HealthInv, PostHealth, vars
  <2>5. \A p \in Probes : ProbeHealth(p)'
    BY <2>1 DEF HealthInv, ProbeHealth, ProbeStage, ProbeKnows, ProbeCovers, vars
  <2> QED BY <2>3, <2>4, <2>5 DEF HealthInv
<1> QED BY <1>1, <1>3, <1>4, <1>5 DEF PostStep

LEMMA ProbeStepHealth ==
    ASSUME MInv, NEW p \in Probes, ProbeStep(p)
    PROVE  HealthInv'
<1> USE Kinds, Constants DEF MInv, MonitoringTypeOK, TypeOK, H!TypeOK
<1>1. ASSUME UNCHANGED <<web, now, recorded, busy>>,
             \A r \in Web : handler'[r] = handler[r],
             \A q \in Probes \ {p} :
                 /\ work'[q] = work[q] /\ ready'[q] = ready[q] /\ probe'[q] = probe[q]
                 /\ seen'[q] = seen[q] /\ decidedAt'[q] = decidedAt[q]
                 /\ known'[q] = known[q] /\ before'[q] = before[q],
             ProbeHealth(p)'
      PROVE  HealthInv'
  BY <1>1 DEF HealthInv, PostHealth, BusyIsLatest, H!BusyIsLatest, ProbeHealth, ProbeStage,
              ProbeKnows, ProbeCovers
<1>2. CASE ProbeArrives(p)
  <2>1. /\ handler[p] = "new" /\ work' = [work EXCEPT ![p] = "work"]
        /\ handler' = [handler EXCEPT ![p] = "enter"]
        /\ before' = [before EXCEPT ![p] = ToldTimeout]
        /\ UNCHANGED <<ready, web, now, busy, probe, seen, decidedAt, recorded, known>>
    BY <1>2 DEF ProbeArrives, Arrive, healthVars
  <2>2. work[p] = "new" /\ probe[p] = "new"
    BY <2>1 DEF CInv, LocalInv, Unstarted, HealthInv, ProbeHealth, ProbeStage
  <2>3. \A r \in ToldTimeout : web[r] = "timedout"
    BY DEF ToldTimeout, HealthInv, PostHealth
  <2>4. ProbeHealth(p)'
    BY <2>1, <2>2, <2>3 DEF HealthInv, ProbeHealth, ProbeStage, ProbeKnows, ProbeCovers
  <2> QED BY <1>1, <2>1, <2>4
<1>3. CASE CopiesTimestamp(p)
  <2>1. /\ p \notin Livez /\ work[p] = "work" /\ probe[p] = "new"
        /\ probe' = [probe EXCEPT ![p] = "copied"]
        /\ seen' = [seen EXCEPT ![p] = busy]
        /\ known' = [known EXCEPT ![p] = recorded]
        /\ UNCHANGED <<vars, web, now, busy, decidedAt, recorded, before>>
    BY <1>3 DEF CopiesTimestamp, HealthOnly, H!CopyTimestamp
  <2>2. ProbeStage(p)' /\ ProbeKnows(p)'
    BY <2>1 DEF HealthInv, BusyIsLatest, H!BusyIsLatest, ProbeHealth, ProbeStage,
                ProbeKnows, vars
  <2>3. ProbeCovers(p)'
    BY <2>1 DEF HealthInv, PostHealth, ProbeHealth, ProbeCovers
  <2> QED BY <1>1, <2>1, <2>2, <2>3 DEF ProbeHealth, vars
<1>4. CASE AsksReady(p)
  <2>1. /\ p \notin Livez /\ work[p] = "work" /\ probe[p] = "copied"
        /\ work' = [work EXCEPT ![p] = "type"]
        /\ probe' = [probe EXCEPT ![p] = "decided"]
        /\ ready' = [ready EXCEPT ![p] = H!Quiet(p)]
        /\ decidedAt' = [decidedAt EXCEPT ![p] = clock]
        /\ UNCHANGED <<handler, web, now, busy, seen, recorded, known, before>>
    BY <1>4 DEF AsksReady, AskHealth, H!IsReady
  <2>2. ProbeStage(p)' /\ ProbeCovers(p)'
    BY <2>1 DEF HealthInv, ProbeHealth, ProbeStage, ProbeCovers
  <2>3. ProbeKnows(p)'
    BY <2>1 DEF HealthInv, ProbeHealth, ProbeKnows, H!Quiet
  <2> QED BY <1>1, <2>1, <2>2, <2>3 DEF ProbeHealth
<1>5. CASE AsksAlive(p)
  <2>1. /\ p \in Livez
        /\ work' = [work EXCEPT ![p] = "type"]
        /\ \E answer \in BOOLEAN : ready' = [ready EXCEPT ![p] = answer]
        /\ UNCHANGED <<handler, healthVars, before>>
    BY <1>5 DEF AsksAlive, Plain, AskHealth
  <2>2. ProbeHealth(p)'
    BY <2>1 DEF HealthInv, ProbeHealth, ProbeStage, ProbeKnows, ProbeCovers, healthVars
  <2> QED BY <1>1, <2>1, <2>2 DEF healthVars
<1>6. CASE \/ Plain(SendOk(p))
           \/ Plain(ProbeType(p) \/ ProbeStatus(p) \/ ProbeBody(p))
           \/ Plain(TimeoutStatus(p) \/ TimeoutBody(p))
  <2>1. /\ UNCHANGED <<healthVars, before, ready>>
        /\ \A r \in Web : handler'[r] = handler[r]
    BY <1>6 DEF Plain, SendOk, ProbeType, ProbeStatus, ProbeBody, TimeoutStatus, TimeoutBody
  <2>2. ASSUME NEW q \in Probes
        PROVE  /\ work'[q] = "new" => work[q] = "new"
               /\ work'[q] \notin {"new", "work"} <=> work[q] \notin {"new", "work"}
    BY <1>6 DEF Plain, SendOk, ProbeType, ProbeStatus, ProbeBody, TimeoutStatus, TimeoutBody
  <2> QED BY <2>1, <2>2, HealthUntouched DEF HealthInv, PostHealth
<1> QED BY <1>2, <1>3, <1>4, <1>5, <1>6 DEF ProbeStep

LEMMA MonitoringInvStep == MInv /\ [MonitoringNext]_monitoringVars => MInv'
<1> SUFFICES ASSUME MInv, [MonitoringNext]_monitoringVars PROVE MInv'
  OBVIOUS
<1>1. CInv'
  BY StepIsCompletion, CompletionStep DEF MInv
<1>2. CASE MonitoringNext
  <2>1. MonitoringTypeOK'
    BY <1>1, <1>2, MonitoringTypeStep DEF MInv, CInv
  <2>2. ASSUME HealthOnly(H!Tick) PROVE HealthInv'
    BY <2>2 DEF HealthOnly, H!Tick, vars, MInv, HealthInv, PostHealth, BusyIsLatest,
                H!BusyIsLatest, ProbeHealth, ProbeStage, ProbeKnows, ProbeCovers
  <2>3. HealthInv'
    BY <1>2, <2>2, SharedHealth, PostStepHealth, ProbeStepHealth DEF MonitoringNext
  <2> QED BY <1>1, <2>1, <2>3 DEF MInv
<1>3. CASE UNCHANGED monitoringVars
  <2>1. MonitoringTypeOK' /\ HealthInv'
    BY <1>1, <1>3 DEF monitoringVars, vars, healthVars, MInv, CInv, MonitoringTypeOK,
                      H!TypeOK, HealthInv, PostHealth, BusyIsLatest, H!BusyIsLatest,
                      ProbeHealth, ProbeStage, ProbeKnows, ProbeCovers
  <2> QED BY <1>1, <2>1 DEF MInv
<1> QED BY <1>2, <1>3

LEMMA MonitoringInductive == MonitoringSpec => []MInv
BY MonitoringInitInv, MonitoringInvStep, PTL DEF MonitoringSpec

-----------------------------------------------------------------------------
(* The theorems.                                                           *)

\* Every variable of the handlers, the goroutines and the health keeps its type.
THEOREM MonitoringTypeCorrect == MonitoringSpec => []MonitoringTypeOK
<1>1. MInv => MonitoringTypeOK
  BY DEF MInv
<1> QED BY MonitoringInductive, <1>1, PTL

\* A POST that is not reported as timed out is answered whole, with 400 and nothing
\* else if its response format is not recognised, also when timeouts are recorded and
\* probes answered beside it (post.go, server.go).
THEOREM MonitoringPostWhole == MonitoringSpec => []AnswerIsWhole
BY ImplementsCompletion, PostAnsweredWhole, PTL

\* A probe that is answered in time is told one thing, whatever the timestamp does
\* between the copy, the comparison and the answer (health.go, readyz.go).
THEOREM MonitoringProbeWhole == MonitoringSpec => []ProbeIsConsistent
BY ImplementsCompletion, ProbeAnsweredWhole, PTL

\* No timeout that was recorded is later than the busy timestamp, though handlers
\* take the lock in another order than they noted their times in (health.go,
\* UpdateLatestTimestamps).
THEOREM BusyTimestampIsLatest == MonitoringSpec => []BusyIsLatest
<1>1. MInv => BusyIsLatest
  BY DEF MInv, HealthInv
<1> QED BY MonitoringInductive, <1>1, PTL

\* IsReady says ready only when every timeout recorded before it copied the
\* timestamp is longer ago than RememberBusyTimeout (health.go).
THEOREM ReadyMeansQuiet == MonitoringSpec => []NotReadyWhileBusy
<1>1. ASSUME MInv, NEW p \in Probes, ready[p], NEW t \in known[p]
      PROVE  t + RememberBusy < decidedAt[p]
  <2>1. ProbeStage(p) /\ ProbeKnows(p)
    BY <1>1 DEF MInv, HealthInv, ProbeHealth
  <2>2. probe[p] = "decided"
    BY <1>1, <2>1, Constants DEF ProbeStage, ProbeKnows, MInv, MonitoringTypeOK, H!TypeOK
  <2>3. t \in Nat /\ seen[p] \in Int /\ decidedAt[p] \in Nat
    BY <1>1 DEF MInv, MonitoringTypeOK, H!TypeOK
  <2> QED BY <1>1, <2>1, <2>2, <2>3, Constants DEF ProbeKnows
<1>2. MInv => NotReadyWhileBusy
  BY <1>1 DEF NotReadyWhileBusy, H!NotReadyWhileBusy
<1> QED BY MonitoringInductive, <1>2, PTL

\* A client that was told of a timeout does not then hear from /readyz, in time,
\* that the server is ready, before RememberBusyTimeout has passed since that
\* timeout (server.go, health.go and readyz.go together).
THEOREM TimeoutThenNotReady == MonitoringSpec => []NotReadyAfterTimeout
<1>1. ASSUME MInv, NEW p \in Probes \ Livez, handler[p] = "sentOk", sent[p].status = 200,
             NEW r \in before[p]
      PROVE  now[r] + RememberBusy < decidedAt[p]
  <2>1. ready[p]
    BY <1>1, Kinds DEF MInv, CInv, LocalInv, Waits, ProbeInv, TimedOut, TimeoutSteps,
                       ProbeWritten
  <2>2. ProbeStage(p) /\ ProbeKnows(p) /\ ProbeCovers(p)
    BY <1>1 DEF MInv, HealthInv, ProbeHealth
  <2>3. probe[p] = "decided" /\ now[r] \in known[p]
    BY <1>1, <2>1, <2>2 DEF ProbeStage, ProbeCovers
  <2>4. now[r] \in Nat /\ seen[p] \in Int /\ decidedAt[p] \in Nat
    BY <1>1 DEF MInv, MonitoringTypeOK, H!TypeOK
  <2> QED BY <2>1, <2>2, <2>3, <2>4, Constants DEF ProbeKnows
<1>2. MInv => NotReadyAfterTimeout
  BY <1>1 DEF NotReadyAfterTimeout
<1> QED BY MonitoringInductive, <1>2, PTL
=============================================================================
