-------------------------- MODULE CompletionProofs --------------------------
(***************************************************************************)
(* Proofs about Completion, for any number of requests of either kind.     *)
(*                                                                         *)
(* A goroutine writes its response field by field, and the handler of a    *)
(* request that timed out writes to the same response.  A response that    *)
(* was sent in time is whole because such a handler is past its select     *)
(* when the first of its writes happens, and because the goroutine signals *)
(* only after the last of its own.                                         *)
(***************************************************************************)
EXTENDS Completion, TLAPS

TimedOut(r) == handler[r] \in TimeoutSteps \cup {"sentTimeout"}

Unstarted(r) == handler[r] \in {"absent", "new"} <=> work[r] = "new"

\* A handler blocks only when it has neither a signal nor a timeout to see.
Waits(r) ==
    /\ handler[r] = "waiting" => ~closed[r] /\ ~late[r] /\ work[r] # "done"
    /\ handler[r] \in {"ok", "sentOk"} => work[r] = "done"

\* What the goroutine of a POST has written, when nobody wrote after it.
ResultWritten(r) ==
    /\ work[r] \in {"body", "status", "signal", "done"} => resp[r].type = "result"
    /\ work[r] \in {"status", "signal", "done"} =>
           resp[r].body = IF full[r] THEN "full" ELSE "partial"
    /\ work[r] \in {"signal", "done"} => resp[r].status = 200

RefusalWritten(r) ==
    /\ work[r] \in {"new", "work", "status", "signal", "done"}
    /\ resp[r].type = "none" /\ resp[r].body = "none"
    /\ work[r] \in {"signal", "done"} => resp[r].status = 400

PostWritten(r) == IF r \in Formatted THEN ResultWritten(r) ELSE RefusalWritten(r)

\* Only the deadline makes a result partial; a handler that blocked before the
\* deadline does not see the signal after it.
Results(r) ==
    /\ work[r] \notin {"new", "work"} /\ ~full[r] => closed[r]
    /\ handler[r] \in {"ok", "sentOk"} /\ ~full[r] => late[r]

WebInv(r) ==
    /\ ~TimedOut(r) => PostWritten(r)
    /\ r \in Formatted => Results(r)
    /\ handler[r] = "sentOk" => sent[r] = resp[r]

\* What the goroutine of a probe has written.
ProbeWritten(p) ==
    /\ work[p] \in {"body", "signal", "done"} =>
           resp[p].status = IF ready[p] THEN 200 ELSE 503
    /\ work[p] \in {"signal", "done"} =>
           resp[p].body = IF ready[p] THEN "ok" ELSE "error"

ProbeInv(p) ==
    /\ ~TimedOut(p) => ProbeWritten(p)
    /\ handler[p] = "sentOk" => sent[p] = resp[p]

LocalInv(r) ==
    /\ Unstarted(r)
    /\ Waits(r)
    /\ r \in Web => WebInv(r)
    /\ r \in Probes => ProbeInv(r)

CInv == TypeOK /\ \A r \in Requests : LocalInv(r)

RequestStep(r) == Arrive(r) \/ Expire(r) \/ WorkStep(r) \/ HandlerStep(r)

-----------------------------------------------------------------------------
LEMMA Kinds ==
    /\ \A r \in Requests : r \in Web \/ r \in Probes
    /\ \A r \in Web : r \notin Probes
    /\ Formatted \subseteq Web /\ Web \subseteq Requests /\ Probes \subseteq Requests
BY CompletionAssumption DEF CompletionAssumption, Requests

LEMMA CompletionInit == Init => CInv
<1> SUFFICES ASSUME Init PROVE CInv
  OBVIOUS
<1> USE DEF Init
<1>1. handler \in [Requests -> {"absent", "new"}]
  OBVIOUS
<1>2. EmptyResponse \in Responses
  BY DEF EmptyResponse, Responses
<1>3. TypeOK
  BY <1>1, <1>2 DEF TypeOK, Handlers, WorkSteps
<1>4. ASSUME NEW r \in Requests PROVE LocalInv(r)
  BY <1>1, Kinds DEF EmptyResponse, LocalInv, Unstarted, Waits, WebInv, Results, ProbeInv,
                     PostWritten, ResultWritten, RefusalWritten, ProbeWritten
<1> QED BY <1>3, <1>4 DEF CInv

LEMMA CompletionType ==
    ASSUME TypeOK, NEW r \in Requests, RequestStep(r)
    PROVE  TypeOK'
<1> USE DEF TypeOK, WorkSteps, Handlers, TimeoutSteps
<1>1. ASSUME NEW field \in {"status", "type", "body"}, NEW value,
             field = "status" => value \in {200, 400, 503},
             field = "type" => value \in {"none", "plain", "result"},
             field = "body" => value \in {"none", "ok", "error", "full", "partial"},
             SetResp(r, field, value)
      PROVE  resp' \in [Requests -> Responses] /\ sent' = sent
  <2>1. resp[r] \in Responses
    OBVIOUS
  <2>2. [resp[r] EXCEPT ![field] = value] \in Responses
    <3>1. CASE field = "status"
      BY <1>1, <2>1, <3>1 DEF Responses
    <3>2. CASE field = "type"
      BY <1>1, <2>1, <3>2 DEF Responses
    <3>3. CASE field = "body"
      BY <1>1, <2>1, <3>3 DEF Responses
    <3> QED BY <1>1, <3>1, <3>2, <3>3
  <2> QED BY <1>1, <2>2 DEF SetResp
<1>2. CASE Arrive(r) \/ Expire(r) \/ Work(r) \/ Refuse(r) \/ AskHealth(r)
  BY <1>2 DEF Arrive, Expire, Work, Refuse, AskHealth
<1>3. CASE ProbeType(r) \/ ProbeStatus(r) \/ ProbeBody(r)
  BY <1>3, <1>1 DEF ProbeType, ProbeStatus, ProbeBody
<1>4. CASE PostType(r) \/ PostBody(r) \/ PostStatus(r)
  BY <1>4, <1>1 DEF PostType, PostBody, PostStatus, PostStatusCode
<1>5. CASE Signal(r) \/ Select(r) \/ SendOk(r)
  BY <1>5 DEF Signal, Select, SendOk
<1>6. CASE TimeoutStatus(r) \/ TimeoutType(r) \/ TimeoutBody(r)
  BY <1>6, <1>1 DEF TimeoutStatus, TimeoutType, TimeoutBody
<1>7. CASE CopyHead(r)
  <2>1. [resp[r] EXCEPT !.body = "none"] \in Responses
    BY DEF Responses
  <2> QED BY <1>7, <2>1 DEF CopyHead
<1>8. CASE CopyBody(r)
  BY <1>8 DEF CopyBody, Responses
<1> QED
  BY <1>2, <1>3, <1>4, <1>5, <1>6, <1>7, <1>8 DEF RequestStep, WorkStep, HandlerStep

\* A step of one request leaves every other one as it is.
LEMMA OthersKeep ==
    ASSUME TypeOK, NEW r \in Requests, NEW q \in Requests, q # r, RequestStep(r)
    PROVE  /\ closed'[q] = closed[q] /\ work'[q] = work[q] /\ full'[q] = full[q]
           /\ q \in Probes => ready'[q] = ready[q]
           /\ handler'[q] = handler[q] /\ late'[q] = late[q]
           /\ resp'[q] = resp[q] /\ sent'[q] = sent[q]
<1> USE DEF TypeOK
<1>1. CASE Arrive(r) \/ Expire(r)
  BY <1>1 DEF Arrive, Expire
<1>2. CASE WorkStep(r)
  BY <1>2 DEF WorkStep, Work, Refuse, AskHealth, ProbeType, ProbeStatus, ProbeBody, PostType,
              PostBody, PostStatus, Signal, SetResp
<1>3. CASE HandlerStep(r)
  BY <1>3 DEF HandlerStep, Select, SendOk, TimeoutStatus, TimeoutType, TimeoutBody,
              CopyHead, CopyBody, SetResp
<1> QED BY <1>1, <1>2, <1>3 DEF RequestStep

LEMMA LocalKept ==
    ASSUME NEW q \in Requests, LocalInv(q),
           /\ closed'[q] = closed[q] /\ work'[q] = work[q] /\ full'[q] = full[q]
           /\ q \in Probes => ready'[q] = ready[q]
           /\ handler'[q] = handler[q] /\ late'[q] = late[q]
           /\ resp'[q] = resp[q] /\ sent'[q] = sent[q]
    PROVE  LocalInv(q)'
BY DEF LocalInv, Unstarted, Waits, WebInv, TimedOut, PostWritten, ResultWritten, RefusalWritten,
       Results, ProbeInv, ProbeWritten

-----------------------------------------------------------------------------
(* A step keeps what is known of its own request.                          *)

\* A field is written and the others are left.
LEMMA Written ==
    ASSUME TypeOK, NEW r \in Requests, NEW field \in {"status", "type", "body"}, NEW value,
           SetResp(r, field, value)
    PROVE  /\ resp'[r][field] = value
           /\ \A f \in {"status", "type", "body"} \ {field} : resp'[r][f] = resp[r][f]
           /\ sent' = sent
BY DEF TypeOK, Responses, SetResp

LEMMA ArriveExpireLocal ==
    ASSUME CInv, NEW r \in Requests, Arrive(r) \/ Expire(r)
    PROVE  LocalInv(r)'
<1> USE DEF CInv, TypeOK, LocalInv, Unstarted, Waits, WebInv, TimedOut, PostWritten,
            ResultWritten, RefusalWritten, Results, ProbeInv, ProbeWritten, TimeoutSteps
<1>1. CASE Arrive(r)
  BY <1>1 DEF Arrive
<1>2. CASE Expire(r)
  BY <1>2 DEF Expire
<1> QED BY <1>1, <1>2

LEMMA PostLocal ==
    ASSUME CInv, NEW r \in Requests, Work(r) \/ Refuse(r) \/ PostType(r) \/ PostBody(r) \/ PostStatus(r)
    PROVE  LocalInv(r)'
<1> USE Kinds, Written DEF CInv, TypeOK, LocalInv, Unstarted, Waits, WebInv, TimedOut,
            PostWritten, ResultWritten, RefusalWritten, Results
<1>1. CASE Work(r)
  BY <1>1 DEF Work
<1>2. CASE PostType(r)
  BY <1>2 DEF PostType
<1>3. CASE PostBody(r)
  BY <1>3 DEF PostBody
<1>4. CASE PostStatus(r)
  BY <1>4 DEF PostStatus, PostStatusCode
<1>5. CASE Refuse(r)
  BY <1>5 DEF Refuse
<1> QED BY <1>1, <1>2, <1>3, <1>4, <1>5

LEMMA ProbeLocal ==
    ASSUME CInv, NEW r \in Requests,
           AskHealth(r) \/ ProbeType(r) \/ ProbeStatus(r) \/ ProbeBody(r)
    PROVE  LocalInv(r)'
<1> USE Kinds, Written DEF CInv, TypeOK, LocalInv, Unstarted, Waits, ProbeInv, TimedOut,
            ProbeWritten
<1>1. CASE AskHealth(r)
  BY <1>1 DEF AskHealth
<1>2. CASE ProbeType(r)
  BY <1>2 DEF ProbeType
<1>3. CASE ProbeStatus(r)
  BY <1>3 DEF ProbeStatus
<1>4. CASE ProbeBody(r)
  BY <1>4 DEF ProbeBody
<1> QED BY <1>1, <1>2, <1>3, <1>4

LEMMA SignalLocal ==
    ASSUME CInv, NEW r \in Requests, Signal(r)
    PROVE  LocalInv(r)'
BY DEF CInv, TypeOK, LocalInv, Unstarted, Waits, WebInv, TimedOut, PostWritten, ResultWritten,
       RefusalWritten, Results, ProbeInv, ProbeWritten, TimeoutSteps, Signal, SignalReady

LEMMA HandlerLocal ==
    ASSUME CInv, NEW r \in Requests, HandlerStep(r)
    PROVE  LocalInv(r)'
<1> USE DEF CInv, TypeOK, LocalInv, Unstarted, Waits, WebInv, TimedOut, Results, ProbeInv,
            TimeoutSteps
<1>1. CASE Select(r)
  BY <1>1 DEF Select, PostWritten, ResultWritten, RefusalWritten, ProbeWritten
<1>2. CASE SendOk(r)
  BY <1>2 DEF SendOk, PostWritten, ResultWritten, RefusalWritten, ProbeWritten
<1>3. CASE TimeoutStatus(r) \/ TimeoutType(r) \/ TimeoutBody(r)
  BY <1>3 DEF TimeoutStatus, TimeoutType, TimeoutBody, SetResp
<1>4. CASE CopyHead(r) \/ CopyBody(r)
  BY <1>4 DEF CopyHead, CopyBody
<1> QED BY <1>1, <1>2, <1>3, <1>4 DEF HandlerStep

LEMMA CompletionStep == CInv /\ [Next]_vars => CInv'
<1> SUFFICES ASSUME CInv, [Next]_vars PROVE CInv'
  OBVIOUS
<1>1. ASSUME NEW r \in Requests, RequestStep(r) PROVE CInv'
  <2>1. TypeOK'
    BY <1>1, CompletionType DEF CInv
  <2>2. LocalInv(r)'
    BY <1>1, ArriveExpireLocal, PostLocal, ProbeLocal, SignalLocal, HandlerLocal
       DEF RequestStep, WorkStep
  <2>3. ASSUME NEW q \in Requests, q # r PROVE LocalInv(q)'
    BY <1>1, <2>3, OthersKeep, LocalKept DEF CInv
  <2> QED BY <2>1, <2>2, <2>3 DEF CInv
<1>2. CASE UNCHANGED vars
  BY <1>2, LocalKept DEF vars, CInv, TypeOK
<1> QED BY <1>1, <1>2 DEF Next, RequestStep

LEMMA CompletionInductive == Spec => []CInv
BY CompletionInit, CompletionStep, PTL DEF Spec

\* Every variable of the handlers and goroutines keeps its type: a response has one of
\* the statuses 200, 400 and 503 (post.go, server.go, readyz.go).
THEOREM CompletionTypeCorrect == Spec => []TypeOK
<1>1. CInv => TypeOK
  BY DEF CInv
<1> QED BY CompletionInductive, <1>1, PTL

\* A POST that CompleteRequest does not report as timed out is answered with the
\* whole response that its goroutine wrote, or with status 400 and nothing else if
\* its response format is not recognised (post.go, server.go).
THEOREM PostAnsweredWhole == Spec => []AnswerIsWhole
<1>1. CInv => AnswerIsWhole
  <2> SUFFICES ASSUME CInv, NEW r \in Web, handler[r] = "sentOk"
               PROVE  IF r \in Formatted
                        THEN /\ sent[r].status = 200
                             /\ sent[r].type = "result"
                             /\ sent[r].body \in {"full", "partial"}
                             /\ sent[r].body = "partial" => late[r]
                        ELSE sent[r] = [EmptyResponse EXCEPT !.status = 400]
    BY DEF AnswerIsWhole
  <2>1. work[r] = "done" /\ PostWritten(r) /\ sent[r] = resp[r]
    BY Kinds DEF CInv, LocalInv, Waits, WebInv, TimedOut, TimeoutSteps
  <2>2. CASE r \in Formatted
    BY <2>1, <2>2, Kinds DEF CInv, LocalInv, WebInv, PostWritten, ResultWritten, Results
  <2>3. CASE r \notin Formatted
    <3>1. sent[r] \in Responses
      BY Kinds DEF CInv, TypeOK
    <3>2. sent[r].status = 400 /\ sent[r].type = "none" /\ sent[r].body = "none"
      BY <2>1, <2>3 DEF PostWritten, RefusalWritten
    <3> QED BY <2>3, <3>1, <3>2 DEF Responses, EmptyResponse
  <2> QED BY <2>2, <2>3
<1> QED BY CompletionInductive, <1>1, PTL

\* A probe that is answered in time is told one thing: status and body are both
\* what IsReady or IsAlive returned (health.go, readyz.go, livez.go).
THEOREM ProbeAnsweredWhole == Spec => []ProbeIsConsistent
<1>1. CInv => ProbeIsConsistent
  BY Kinds DEF CInv, LocalInv, Waits, ProbeInv, TimedOut, TimeoutSteps, ProbeWritten,
               ProbeIsConsistent
<1> QED BY CompletionInductive, <1>1, PTL
=============================================================================
