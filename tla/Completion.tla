----------------------------- MODULE Completion -----------------------------
(***************************************************************************)
(* How a request is completed: the goroutine that works on it writes the   *)
(* response into the request's fhctx and signals doneChan, the handler     *)
(* waits for doneChan or the deadline, and answers a timeout by writing to *)
(* the same fhctx (server/server.go, health/health.go, request/post.go,    *)
(* server/readyz.go, server/livez.go).  What a timeout does to /readyz is  *)
(* in Health, and the two together are in Monitoring.                      *)
(*                                                                         *)
(* The goroutine and a handler that timed out run concurrently and without *)
(* synchronisation.  Their accesses to the response are modelled field by  *)
(* field, in the order each of them makes them.                            *)
(***************************************************************************)
CONSTANTS
    Web,        \* POST requests
    Formatted,  \* those whose responseFormat is one that POST knows
    Probes,     \* /readyz and /livez requests, whose handlers are alike
    Loads       \* bound: the requests that come together, by behaviour

Requests == Web \cup Probes

ASSUME CompletionAssumption ==
    /\ Web \cap Probes = {}
    /\ Formatted \subseteq Web
    /\ Loads \subseteq SUBSET Requests

VARIABLES
    closed,     \* request -> its context is done
    work,       \* request -> where its goroutine stands
    full,       \* request -> the goroutine has the whole result
    ready,      \* probe -> what IsReady or IsAlive returned
    handler,    \* request -> where its handler stands
    late,       \* history: request -> its context was done before its handler waited
    resp,       \* request -> fhctx.Response
    sent        \* request -> what fasthttp sends to the client

vars == <<closed, work, full, ready, handler, late, resp, sent>>

\* A fresh fasthttp response has status 200 and no body.
EmptyResponse == [status |-> 200, type |-> "none", body |-> "none"]

WorkSteps    == {"new", "work", "type", "body", "status", "signal", "done"}
TimeoutSteps == {"status", "type", "body", "copyHead", "copyBody"}
Handlers     == TimeoutSteps \cup {"absent", "new", "enter", "waiting", "ok",
                                   "sentOk", "sentTimeout"}

Init ==
    /\ closed = [r \in Requests |-> FALSE]
    /\ work = [r \in Requests |-> "new"]
    /\ full = [r \in Requests |-> FALSE]
    /\ ready = [p \in Probes |-> FALSE]
    /\ \E load \in Loads :
          handler = [r \in Requests |-> IF r \in load THEN "new" ELSE "absent"]
    /\ late = [r \in Requests |-> FALSE]
    /\ resp = [r \in Requests |-> EmptyResponse]
    /\ sent = [r \in Requests |-> EmptyResponse]

\* A request arrives: its context, its doneChan and its goroutine are made.
Arrive(r) ==
    /\ handler[r] = "new"
    /\ handler' = [handler EXCEPT ![r] = "enter"]
    /\ work' = [work EXCEPT ![r] = "work"]
    /\ UNCHANGED <<closed, full, ready, late, resp, sent>>

\* The deadline passes; a handler that is blocked in its select returns -1.
Expire(r) ==
    /\ handler[r] \notin {"absent", "new"}
    /\ ~closed[r]
    /\ closed' = [closed EXCEPT ![r] = TRUE]
    /\ handler' = [handler EXCEPT ![r] = IF @ = "waiting" THEN "status" ELSE @]
    /\ UNCHANGED <<work, full, ready, late, resp, sent>>

-----------------------------------------------------------------------------
(* The goroutine.                                                          *)

SetResp(r, field, value) ==
    /\ resp' = [resp EXCEPT ![r] = [@ EXCEPT ![field] = value]]
    /\ UNCHANGED sent

\* The results are there, all of them or, when the deadline ended the wait for
\* the linters, those that had arrived.
Work(r) ==
    /\ r \in Formatted
    /\ work[r] = "work"
    /\ \/ full' = [full EXCEPT ![r] = TRUE]
       \/ closed[r] /\ UNCHANGED full
    /\ work' = [work EXCEPT ![r] = "type"]
    /\ UNCHANGED <<closed, ready, handler, late, resp, sent>>

\* Of an unrecognised response format, a POST is neither linted nor given a body.
Refuse(r) ==
    /\ r \in Web \ Formatted
    /\ work[r] = "work"
    /\ work' = [work EXCEPT ![r] = "status"]
    /\ UNCHANGED <<closed, full, ready, handler, late, resp, sent>>

\* IsReady or IsAlive says whether the server is ready, or alive.
AskHealth(p) ==
    /\ p \in Probes
    /\ work[p] = "work"
    /\ \E answer \in BOOLEAN : ready' = [ready EXCEPT ![p] = answer]
    /\ work' = [work EXCEPT ![p] = "type"]
    /\ UNCHANGED <<closed, full, handler, late, resp, sent>>

\* The response to a probe: content type, status, then body.
ProbeType(p) ==
    /\ p \in Probes
    /\ work[p] = "type"
    /\ SetResp(p, "type", "plain")
    /\ work' = [work EXCEPT ![p] = "status"]
    /\ UNCHANGED <<closed, full, ready, handler, late>>

ProbeStatus(p) ==
    /\ p \in Probes
    /\ work[p] = "status"
    /\ SetResp(p, "status", IF ready[p] THEN 200 ELSE 503)
    /\ work' = [work EXCEPT ![p] = "body"]
    /\ UNCHANGED <<closed, full, ready, handler, late>>

ProbeBody(p) ==
    /\ p \in Probes
    /\ work[p] = "body"
    /\ SetResp(p, "body", IF ready[p] THEN "ok" ELSE "error")
    /\ work' = [work EXCEPT ![p] = "signal"]
    /\ UNCHANGED <<closed, full, ready, handler, late>>

\* The response to a POST: content type, body, then status.
PostType(r) ==
    /\ r \in Web
    /\ work[r] = "type"
    /\ SetResp(r, "type", "result")
    /\ work' = [work EXCEPT ![r] = "body"]
    /\ UNCHANGED <<closed, full, ready, handler, late>>

PostBody(r) ==
    /\ r \in Web
    /\ work[r] = "body"
    /\ SetResp(r, "body", IF full[r] THEN "full" ELSE "partial")
    /\ work' = [work EXCEPT ![r] = "status"]
    /\ UNCHANGED <<closed, full, ready, handler, late>>

\* Variant: POST starts from no status.
PostStatusCodeUnset(r) == IF r \in Formatted THEN 200 ELSE 0

\* What the sendXResponse functions return; if none is called, the status is the one
\* that POST starts from.
PostStatusCode(r) == IF r \in Formatted THEN 200 ELSE 400

PostStatus(r) ==
    /\ r \in Web
    /\ work[r] = "status"
    /\ SetResp(r, "status", PostStatusCode(r))
    /\ work' = [work EXCEPT ![r] = "signal"]
    /\ UNCHANGED <<closed, full, ready, handler, late>>

\* Variant: the signal is sent before the response is written.
SignalReadyEarly(r) == work[r] \in {"type", "body", "status", "signal"}

\* The response is complete when doneChan is signalled.
SignalReady(r) == work[r] = "signal"

\* doneChan <- 0, for which the channel has room.
Signal(r) ==
    /\ SignalReady(r)
    /\ work' = [work EXCEPT ![r] = "done"]
    /\ handler' = [handler EXCEPT ![r] = IF @ = "waiting" THEN "ok" ELSE @]
    /\ UNCHANGED <<closed, full, ready, late, resp, sent>>

-----------------------------------------------------------------------------
(* The handler.                                                            *)

\* The handler reaches its select.
Select(r) ==
    /\ handler[r] = "enter"
    /\ late' = [late EXCEPT ![r] = closed[r]]
    /\ \/ /\ work[r] = "done"
          /\ handler' = [handler EXCEPT ![r] = "ok"]
       \/ /\ closed[r]
          /\ handler' = [handler EXCEPT ![r] = "status"]
       \/ /\ work[r] # "done"
          /\ ~closed[r]
          /\ handler' = [handler EXCEPT ![r] = "waiting"]
    /\ UNCHANGED <<closed, work, full, ready, resp, sent>>

\* fasthttp sends the response of a handler that returned.
SendOk(r) ==
    /\ handler[r] = "ok"
    /\ handler' = [handler EXCEPT ![r] = "sentOk"]
    /\ sent' = [sent EXCEPT ![r] = resp[r]]
    /\ UNCHANGED <<closed, work, full, ready, late, resp>>

TimeoutStatus(r) ==
    /\ handler[r] = "status"
    /\ SetResp(r, "status", 503)
    /\ handler' = [handler EXCEPT ![r] = "type"]
    /\ UNCHANGED <<closed, work, full, ready, late>>

TimeoutType(r) ==
    /\ handler[r] = "type"
    /\ SetResp(r, "type", "plain")
    /\ handler' = [handler EXCEPT ![r] = IF r \in Probes THEN "body" ELSE "copyHead"]
    /\ UNCHANGED <<closed, work, full, ready, late>>

\* The monitoring handler also sets a body.
TimeoutBody(r) ==
    /\ handler[r] = "body"
    /\ SetResp(r, "body", "error")
    /\ handler' = [handler EXCEPT ![r] = "copyHead"]
    /\ UNCHANGED <<closed, work, full, ready, late>>

\* TimeoutErrorWithResponse, deferred until the request is logged: the header,
\* then the body, is copied into the response that fasthttp sends.
CopyHead(r) ==
    /\ handler[r] = "copyHead"
    /\ sent' = [sent EXCEPT ![r] = [resp[r] EXCEPT !.body = "none"]]
    /\ handler' = [handler EXCEPT ![r] = "copyBody"]
    /\ UNCHANGED <<closed, work, full, ready, late, resp>>

CopyBody(r) ==
    /\ handler[r] = "copyBody"
    /\ sent' = [sent EXCEPT ![r].body = resp[r].body]
    /\ handler' = [handler EXCEPT ![r] = "sentTimeout"]
    /\ UNCHANGED <<closed, work, full, ready, late, resp>>

-----------------------------------------------------------------------------
WorkStep(r) ==
    \/ Work(r) \/ Refuse(r) \/ PostType(r) \/ PostBody(r) \/ PostStatus(r)
    \/ AskHealth(r) \/ ProbeType(r) \/ ProbeStatus(r) \/ ProbeBody(r)
    \/ Signal(r)

HandlerStep(r) ==
    \/ Select(r) \/ SendOk(r)
    \/ TimeoutStatus(r) \/ TimeoutType(r) \/ TimeoutBody(r)
    \/ CopyHead(r) \/ CopyBody(r)

Next ==
    \E r \in Requests :
        Arrive(r) \/ Expire(r) \/ WorkStep(r) \/ HandlerStep(r)

Spec == Init /\ [][Next]_vars

-----------------------------------------------------------------------------
(* Properties.                                                             *)

Responses == [status : {200, 400, 503}, type : {"none", "plain", "result"},
              body : {"none", "ok", "error", "full", "partial"}]

TypeOK ==
    /\ closed \in [Requests -> BOOLEAN]
    /\ work \in [Requests -> WorkSteps]
    /\ full \in [Requests -> BOOLEAN]
    /\ ready \in [Probes -> BOOLEAN]
    /\ handler \in [Requests -> Handlers]
    /\ late \in [Requests -> BOOLEAN]
    /\ resp \in [Requests -> Responses]
    /\ sent \in [Requests -> Responses]

\* A POST that is answered without a timeout gets the response its goroutine
\* wrote, whole: status, type and body of a result, which has all that the linters
\* found unless its handler only came to wait after the deadline; or, if it names a
\* response format that the code does not know, status 400 and neither type nor body.
AnswerIsWhole ==
    \A r \in Web :
        handler[r] = "sentOk" =>
            IF r \in Formatted
              THEN /\ sent[r].status = 200
                   /\ sent[r].type = "result"
                   /\ sent[r].body \in {"full", "partial"}
                   /\ sent[r].body = "partial" => late[r]
              ELSE sent[r] = [EmptyResponse EXCEPT !.status = 400]

\* What a probe is told in time agrees with itself and with what IsReady or
\* IsAlive said.
ProbeIsConsistent ==
    \A p \in Probes :
        handler[p] = "sentOk" =>
            /\ sent[p].status = IF ready[p] THEN 200 ELSE 503
            /\ sent[p].body = IF ready[p] THEN "ok" ELSE "error"

\* server.go:47-49, "Request timed out.": a request whose handler took the
\* timeout is answered with status 503.
TimedOutGets503 ==
    \A r \in Web : handler[r] = "sentTimeout" => sent[r].status = 503
=============================================================================
