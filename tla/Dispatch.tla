------------------------------ MODULE Dispatch ------------------------------
(***************************************************************************)
(* The request path of pkimetal: POST goroutines (request/post.go), the    *)
(* bounded request channel of every linter, the server loop of every       *)
(* linter instance (linter/linter.go) and the unbuffered response channel  *)
(* on which the two meet, all under the per-request deadline.              *)
(*                                                                         *)
(* A Go select is modelled as it runs.  A goroutine that reaches a select  *)
(* takes any case that is ready, and blocks when none is; a goroutine that *)
(* is blocked is committed to the first event that becomes ready.  So the  *)
(* closing of a context (Expire, Cancel) releases, in the same step, every *)
(* goroutine that is blocked on it.                                        *)
(***************************************************************************)
EXTENDS Integers, Sequences, FiniteSets

CONSTANTS
    Requests,       \* the POST requests that can arrive
    NLinters,       \* len(linter.Linters); linters are named by their place
                    \* in the slice that StartLinters sorts
    Instances,      \* the linter instances (linterInstances)
    LinterOf,       \* instance -> its linter
    External,       \* linters whose instances speak the STDIN/STDOUT protocol
    Applicable,     \* request -> linters that support its profile
    MaxQueueSize,   \* config.Linter.MaxQueueSize
    MaxResults,     \* bound: findings in hand at once (one HandleRequest, one token)
    Timed,          \* requests whose deadline may pass in the behaviour
    MayStop         \* the process may be told to stop in the behaviour

Linters == 1 .. NLinters
None == "none"

NumInstances(l) == Cardinality({i \in Instances : LinterOf[i] = l})

\* post.go:102, the linters a request is sent to.
Used(r) == {l \in Applicable[r] : NumInstances(l) > 0}

ASSUME DispatchAssumption ==
    /\ NLinters \in Nat \ {0}
    /\ MaxQueueSize \in Nat \ {0}
    /\ MaxResults \in Nat
    /\ IsFiniteSet(Instances)
    /\ LinterOf \in [Instances -> Linters]
    /\ External \subseteq Linters
    /\ Applicable \in [Requests -> SUBSET Linters]
    /\ Timed \subseteq Requests
    /\ MayStop \in BOOLEAN
    /\ None \notin Requests

VARIABLES
    handler,    \* request -> where the HTTP handler stands in CompleteRequest
    post,       \* request -> where its POST goroutine stands
    next,       \* request -> linter the submit loop looks at next
    nlresp,     \* request -> server loops the goroutine still waits for
    ctxDone,    \* request -> ctxWithDeadline.Done() is closed
    metas,      \* request -> linters with a META result in lresp
    queue,      \* linter -> its ReqChannel
    pc,         \* instance -> where its server loop stands
    cur,        \* instance -> the request it holds
    left,       \* instance -> findings in hand that are not yet sent
    gone,       \* instance -> clientGone
    blocked,    \* instance -> it is blocked in the select of sendResult
    stopping,   \* the process received SIGHUP, SIGINT or SIGTERM
    (* History, read by no action. *)
    ended,      \* request -> linters whose EndOfResults was counted
    lost,       \* request -> linters a finding of which was not delivered
    abandoned   \* request -> the collect loop ended on the deadline

reqVars  == <<handler, post, next, nlresp, ctxDone, metas>>
instVars == <<pc, cur, left, gone, blocked>>
histVars == <<ended, lost, abandoned>>
vars     == <<reqVars, queue, instVars, stopping, histVars>>

HandlerStates == {"new", "enter", "waiting", "ok", "timeout"}
PostStates    == {"new", "submit", "collect", "waiting", "respond", "done"}
Sending       == {"result", "fatal", "meta", "end"}
LoopStates    == Sending \cup {"starting", "idle", "taken", "handle", "scan",
                               "restart", "stopped"}

Init ==
    /\ handler = [r \in Requests |-> "new"]
    /\ post = [r \in Requests |-> "new"]
    /\ next = [r \in Requests |-> 1]
    /\ nlresp = [r \in Requests |-> 0]
    /\ ctxDone = [r \in Requests |-> FALSE]
    /\ metas = [r \in Requests |-> {}]
    /\ queue = [l \in Linters |-> <<>>]
    /\ pc = [i \in Instances |-> "starting"]
    /\ cur = [i \in Instances |-> None]
    /\ left = [i \in Instances |-> 0]
    /\ gone = [i \in Instances |-> FALSE]
    /\ blocked = [i \in Instances |-> FALSE]
    /\ stopping = FALSE
    /\ ended = [r \in Requests |-> {}]
    /\ lost = [r \in Requests |-> {}]
    /\ abandoned = [r \in Requests |-> FALSE]

-----------------------------------------------------------------------------
(* The POST goroutine and its HTTP handler.                                *)

\* POST(): a request that passed validation has its context, its doneChan and
\* its goroutine; the handler goes on to CompleteRequest.
Accept(r) ==
    /\ handler[r] = "new"
    /\ handler' = [handler EXCEPT ![r] = "enter"]
    /\ post' = [post EXCEPT ![r] = "submit"]
    /\ UNCHANGED <<next, nlresp, ctxDone, metas, queue, instVars,
                   stopping, histVars>>

\* Variant: the submit loop walks the linters in no agreed order.
LinterAtUnordered(r) ==
    IF r = CHOOSE q \in Requests : TRUE THEN NLinters + 1 - next[r] ELSE next[r]

\* The linter that the submit loop of r has come to: the loop follows the order
\* in which StartLinters left the slice.
LinterAt(r) == next[r]

\* Variant: the loop runs one linter too far.
SubmitNextTooFar(r) ==
    /\ next' = [next EXCEPT ![r] = @ + 1]
    /\ post' = [post EXCEPT ![r] = IF next[r] > NLinters THEN "collect" ELSE @]

SubmitNext(r) ==
    /\ next' = [next EXCEPT ![r] = @ + 1]
    /\ post' = [post EXCEPT ![r] = IF next[r] = NLinters THEN "collect" ELSE @]

\* The submit loop, for a linter that is both available and applicable: the
\* channel send waits for room and heeds no deadline.
Submit(r) ==
    LET l == LinterAt(r) IN
    /\ post[r] = "submit"
    /\ l \in Used(r)
    /\ Len(queue[l]) < MaxQueueSize
    /\ queue' = [queue EXCEPT ![l] = Append(@, r)]
    /\ nlresp' = [nlresp EXCEPT ![r] = @ + 1]
    /\ SubmitNext(r)
    /\ UNCHANGED <<handler, ctxDone, metas, instVars, stopping,
                   histVars>>

\* The submit loop, for any other linter: a "Not used" META result.
SkipLinter(r) ==
    LET l == LinterAt(r) IN
    /\ post[r] = "submit"
    /\ l \notin Used(r)
    /\ metas' = [metas EXCEPT ![r] = @ \cup {l}]
    /\ SubmitNext(r)
    /\ UNCHANGED <<handler, nlresp, ctxDone, queue, instVars,
                   stopping, histVars>>

\* Variant: the select of the collect loop has no case for the deadline.
NothingReadyNoDeadline(r) == ~ \E i \in Instances : blocked[i] /\ cur[i] = r

\* Neither case of the collect loop's select is ready.
NothingReady(r) ==
    /\ ~ctxDone[r]
    /\ ~ \E i \in Instances : blocked[i] /\ cur[i] = r

\* The goroutine reaches the select of the collect loop and nothing is ready.
CollectWait(r) ==
    /\ post[r] = "collect"
    /\ nlresp[r] > 0
    /\ NothingReady(r)
    /\ post' = [post EXCEPT ![r] = "waiting"]
    /\ UNCHANGED <<handler, next, nlresp, ctxDone, metas, queue,
                   instVars, stopping, histVars>>

\* Variant: the goroutine never takes it.
GivesUpWaitingNever(r) == FALSE

\* The deadline case of the select is ready.
GivesUpWaiting(r) == nlresp[r] > 0 /\ ctxDone[r]

\* The goroutine reaches the select and takes the deadline.
CollectAbandon(r) ==
    /\ post[r] = "collect"
    /\ GivesUpWaiting(r)
    /\ nlresp' = [nlresp EXCEPT ![r] = 0]
    /\ post' = [post EXCEPT ![r] = "respond"]
    /\ abandoned' = [abandoned EXCEPT ![r] = TRUE]
    /\ UNCHANGED <<handler, next, ctxDone, metas, queue, instVars,
                   stopping, ended, lost>>

\* Variant: the loop ends one linter early.
AllHeardButOne(r) == nlresp[r] <= 1

\* The condition that ends the collect loop.
AllHeard(r) == nlresp[r] = 0

\* The loop is over: every server loop that got the request sent EndOfResults.
CollectDone(r) ==
    /\ post[r] = "collect"
    /\ AllHeard(r)
    /\ post' = [post EXCEPT ![r] = "respond"]
    /\ UNCHANGED <<handler, next, nlresp, ctxDone, metas, queue,
                   instVars, stopping, histVars>>

\* The response is written and doneChan, which has room for it, is signalled:
\* a handler that is blocked in CompleteRequest is committed to it.
Respond(r) ==
    /\ post[r] = "respond"
    /\ post' = [post EXCEPT ![r] = "done"]
    /\ handler' = [handler EXCEPT ![r] = IF @ = "waiting" THEN "ok" ELSE @]
    /\ UNCHANGED <<next, nlresp, ctxDone, metas, queue, instVars,
                   stopping, histVars>>

\* The handler reaches the select of CompleteRequest.
HandlerSelect(r) ==
    /\ handler[r] = "enter"
    /\ \/ /\ post[r] = "done"
          /\ handler' = [handler EXCEPT ![r] = "ok"]
       \/ /\ ctxDone[r]
          /\ handler' = [handler EXCEPT ![r] = "timeout"]
       \/ /\ post[r] # "done"
          /\ ~ctxDone[r]
          /\ handler' = [handler EXCEPT ![r] = "waiting"]
    /\ UNCHANGED <<post, next, nlresp, ctxDone, metas, queue,
                   instVars, stopping, histVars>>

-----------------------------------------------------------------------------
(* The response channel.                                                   *)

\* The server loop's next state when sendResult returns true.
AfterSend(i) ==
    CASE pc[i] = "result" /\ left[i] > 1 -> "result"
      [] pc[i] = "result" /\ left[i] <= 1 ->
             IF LinterOf[i] \in External THEN "scan" ELSE "meta"
      [] pc[i] = "fatal" -> "restart"
      [] pc[i] = "meta" -> "end"
      [] OTHER -> "idle"

\* The same when sendResult returns false: an in-process linter breaks out of
\* its results; an external one goes on reading its backend, delivering none.
AfterDrop(i) ==
    CASE pc[i] = "result" ->
             IF LinterOf[i] \in External THEN "scan" ELSE "meta"
      [] pc[i] = "fatal" -> "restart"
      [] pc[i] = "meta" -> "end"
      [] OTHER -> "idle"

\* A dropped finding is missing from the answer.
Loses(i) == pc[i] \in {"result", "fatal"}

\* A result that is dropped makes the loop of an external linter note that the
\* client gave up.
GivesUp(i) == pc[i] = "result" /\ LinterOf[i] \in External

\* Whether clientGone still matters after the send: it is a variable of one turn
\* of the loop.
KeepGone(i) == pc[i] # "end" /\ (gone[i] \/ GivesUp(i))

\* Variant: any result that pkimetal itself adds counts as an end, a FATAL one too.
ReceiveByName(r, l, kind) ==
    /\ nlresp' = [nlresp EXCEPT ![r] = IF kind \in {"end", "fatal"} THEN @ - 1 ELSE @]
    /\ metas' = [metas EXCEPT ![r] = IF kind = "meta" THEN @ \cup {l} ELSE @]
    /\ ended' = [ended EXCEPT ![r] = IF kind = "end" THEN @ \cup {l} ELSE @]

\* What the collect loop does with a result: EndOfResults is counted, anything
\* else is appended to lresp (findings that do arrive are not told apart).
Receive(r, l, kind) ==
    /\ nlresp' = [nlresp EXCEPT ![r] = IF kind = "end" THEN @ - 1 ELSE @]
    /\ metas' = [metas EXCEPT ![r] = IF kind = "meta" THEN @ \cup {l} ELSE @]
    /\ ended' = [ended EXCEPT ![r] = IF kind = "end" THEN @ \cup {l} ELSE @]

Delivered(i) ==
    /\ Receive(cur[i], LinterOf[i], pc[i])
    /\ pc' = [pc EXCEPT ![i] = AfterSend(i)]
    /\ left' = [left EXCEPT ![i] = IF pc[i] = "result" THEN @ - 1 ELSE @]
    /\ cur' = [cur EXCEPT ![i] = IF pc[i] = "end" THEN None ELSE @]
    /\ blocked' = [blocked EXCEPT ![i] = FALSE]
    /\ gone' = [gone EXCEPT ![i] = @ /\ pc[i] # "end"]
    /\ UNCHANGED <<handler, next, ctxDone, queue, stopping, lost, abandoned>>

\* Variant: a select with a default case, which drops what nobody waits for.
DropReadyDefault(i) == post[cur[i]] # "waiting"

\* Variant: a plain channel send, which does not see the client give up.
DropReadyNever(i) == FALSE

\* The deadline case of sendResult is ready.
DropReady(i) == ctxDone[cur[i]]

\* Variant: the deadline does not keep a loop from blocking.
NoCaseReadyDespiteDone(i) == post[cur[i]] # "waiting"

\* Neither case of sendResult is ready.
NoCaseReady(i) == post[cur[i]] # "waiting" /\ ~ctxDone[cur[i]]

\* Server loop i reaches the select of sendResult, whose three outcomes follow.
AtSelect(i) == pc[i] \in Sending /\ ~blocked[i]

SendNow(i) ==
    /\ AtSelect(i)
    /\ post[cur[i]] = "waiting"
    /\ post' = [post EXCEPT ![cur[i]] = "collect"]
    /\ Delivered(i)

SendDropped(i) ==
    /\ AtSelect(i)
    /\ DropReady(i)
    /\ pc' = [pc EXCEPT ![i] = AfterDrop(i)]
    /\ left' = [left EXCEPT ![i] = 0]
    /\ gone' = [gone EXCEPT ![i] = KeepGone(i)]
    /\ cur' = [cur EXCEPT ![i] = IF pc[i] = "end" THEN None ELSE @]
    /\ lost' = [lost EXCEPT ![cur[i]] =
                   IF Loses(i) THEN @ \cup {LinterOf[i]} ELSE @]
    /\ UNCHANGED <<reqVars, queue, blocked, stopping, ended, abandoned>>

SendBlock(i) ==
    /\ AtSelect(i)
    /\ NoCaseReady(i)
    /\ blocked' = [blocked EXCEPT ![i] = TRUE]
    /\ UNCHANGED <<reqVars, queue, pc, cur, left, gone, stopping, histVars>>

\* The collect loop reaches its select and finds server loop i blocked.
CollectFrom(r, i) ==
    /\ post[r] = "collect"
    /\ nlresp[r] > 0
    /\ blocked[i]
    /\ cur[i] = r
    /\ Delivered(i)
    /\ UNCHANGED post

-----------------------------------------------------------------------------
(* The request's context.                                                  *)

\* Variant: CompleteRequest waits for doneChan alone.
TimesOutNever(h) == h

\* A handler that is blocked in CompleteRequest returns -1.
TimesOut(h) == IF h = "waiting" THEN "timeout" ELSE h

\* ctxWithDeadline.Done() is closed: everyone blocked on it goes on.
CloseCtx(r) ==
    LET released == {i \in Instances : blocked[i] /\ cur[i] = r} IN
    /\ ctxDone' = [ctxDone EXCEPT ![r] = TRUE]
    /\ handler' = [handler EXCEPT ![r] = TimesOut(@)]
    /\ post' = [post EXCEPT ![r] = IF @ = "waiting" THEN "respond" ELSE @]
    /\ nlresp' = [nlresp EXCEPT ![r] = IF post[r] = "waiting" THEN 0 ELSE @]
    /\ abandoned' = [abandoned EXCEPT ![r] = @ \/ post[r] = "waiting"]
    /\ blocked' = [i \in Instances |-> blocked[i] /\ i \notin released]
    /\ pc' = [i \in Instances |-> IF i \in released THEN AfterDrop(i) ELSE pc[i]]
    /\ left' = [i \in Instances |-> IF i \in released THEN 0 ELSE left[i]]
    /\ gone' = [i \in Instances |-> IF i \in released THEN KeepGone(i) ELSE gone[i]]
    /\ lost' = [lost EXCEPT ![r] =
                   @ \cup {LinterOf[i] : i \in {j \in released : Loses(j)}}]
    /\ cur' = [i \in Instances |->
                  IF i \in released /\ pc[i] = "end" THEN None ELSE cur[i]]
    /\ UNCHANGED <<next, metas, queue, stopping, ended>>

\* The request's deadline passes.
Expire(r) ==
    /\ r \in Timed
    /\ handler[r] # "new"
    /\ ~ctxDone[r]
    /\ CloseCtx(r)

\* POST() returns: its deferred cancel closes the context.
Cancel(r) ==
    /\ handler[r] = "ok"
    /\ ~ctxDone[r]
    /\ CloseCtx(r)

-----------------------------------------------------------------------------
(* The server loop of a linter instance.                                   *)

\* An external backend is started and warmed up before the loop serves.
Started(i) ==
    /\ pc[i] = "starting"
    /\ pc' = [pc EXCEPT ![i] = "idle"]
    /\ UNCHANGED <<reqVars, queue, cur, left, gone, blocked, stopping, histVars>>

\* The loop of an external backend bails out if shutdown is in progress.
StartAborted(i) ==
    /\ pc[i] = "starting"
    /\ LinterOf[i] \in External
    /\ stopping
    /\ pc' = [pc EXCEPT ![i] = "stopped"]
    /\ UNCHANGED <<reqVars, queue, cur, left, gone, blocked, stopping, histVars>>

Take(i) ==
    LET l == LinterOf[i] IN
    /\ pc[i] = "idle"
    /\ queue[l] # <<>>
    /\ cur' = [cur EXCEPT ![i] = Head(queue[l])]
    /\ queue' = [queue EXCEPT ![l] = Tail(@)]
    /\ pc' = [pc EXCEPT ![i] = "taken"]
    /\ UNCHANGED <<reqVars, left, gone, blocked, stopping, histVars>>

\* A request whose deadline passed while it was queued is not processed, and
\* nothing is sent for it.
SkipExpired(i) ==
    /\ pc[i] = "taken"
    /\ ctxDone[cur[i]]
    /\ pc' = [pc EXCEPT ![i] = "idle"]
    /\ cur' = [cur EXCEPT ![i] = None]
    /\ UNCHANGED <<reqVars, queue, left, gone, blocked, stopping, histVars>>

Begin(i) ==
    /\ pc[i] = "taken"
    /\ ~ctxDone[cur[i]]
    /\ pc' = [pc EXCEPT ![i] = IF LinterOf[i] \in External THEN "scan" ELSE "handle"]
    /\ UNCHANGED <<reqVars, queue, cur, left, gone, blocked, stopping, histVars>>

\* HandleRequest returns n findings, which are sent one after the other.
HandleRequest(i, n) ==
    /\ pc[i] = "handle"
    /\ left' = [left EXCEPT ![i] = n]
    /\ pc' = [pc EXCEPT ![i] = IF n = 0 THEN "meta" ELSE "result"]
    /\ UNCHANGED <<reqVars, queue, cur, gone, blocked, stopping, histVars>>

\* A token of an external backend that parses to n findings.  They are
\* delivered unless the client is already known to have given up.
Token(i, n) ==
    /\ pc[i] = "scan"
    /\ left' = [left EXCEPT ![i] = IF gone[i] THEN 0 ELSE n]
    /\ pc' = [pc EXCEPT ![i] = IF gone[i] THEN "scan" ELSE "result"]
    /\ lost' = [lost EXCEPT ![cur[i]] =
                   IF gone[i] THEN @ \cup {LinterOf[i]} ELSE @]
    /\ UNCHANGED <<reqVars, queue, cur, gone, blocked, stopping, ended, abandoned>>

\* The end-of-results sentinel of an external backend.
EndToken(i) ==
    /\ pc[i] = "scan"
    /\ pc' = [pc EXCEPT ![i] = "meta"]
    /\ UNCHANGED <<reqVars, queue, cur, left, gone, blocked, stopping, histVars>>

\* A failed write, a closed STDOUT, the backend timeout or a bad token: a FATAL
\* finding unless the client gave up, and a restart of the backend.
BackendError(i) ==
    /\ pc[i] = "scan"
    /\ pc' = [pc EXCEPT ![i] = IF gone[i] THEN "restart" ELSE "fatal"]
    /\ UNCHANGED <<reqVars, queue, cur, left, gone, blocked, stopping, histVars>>

\* Variant: the loop goes on to the next request after a restart.
AfterRestartNext == "idle"

\* What follows a restart: the META result and the end of the results.
AfterRestart == "meta"

Restarted(i) ==
    /\ pc[i] = "restart"
    /\ pc' = [pc EXCEPT ![i] = AfterRestart]
    /\ UNCHANGED <<reqVars, queue, cur, left, gone, blocked, stopping, histVars>>

\* An idle loop sees the shutdown; what is still queued stays there.
StopServing(i) ==
    /\ pc[i] = "idle"
    /\ stopping
    /\ pc' = [pc EXCEPT ![i] = "stopped"]
    /\ UNCHANGED <<reqVars, queue, cur, left, gone, blocked, stopping, histVars>>

\* signal.NotifyContext cancels the context that main gave to the loops.
Signal ==
    /\ MayStop
    /\ ~stopping
    /\ stopping' = TRUE
    /\ UNCHANGED <<reqVars, queue, instVars, histVars>>

-----------------------------------------------------------------------------
PostStep(r) ==
    \/ Submit(r) \/ SkipLinter(r)
    \/ CollectWait(r) \/ CollectAbandon(r) \/ CollectDone(r)
    \/ \E i \in Instances : CollectFrom(r, i)
    \/ Respond(r)

HandlerStep(r) == HandlerSelect(r) \/ Cancel(r)

SendStep(i) == SendNow(i) \/ SendDropped(i) \/ SendBlock(i)

\* What the backend of instance i decides: its findings, its end, its failure.
BackendStep(i) ==
    \/ \E n \in 0 .. MaxResults : HandleRequest(i, n)
    \/ \E n \in 1 .. MaxResults : Token(i, n)
    \/ EndToken(i)
    \/ BackendError(i)
    \/ Restarted(i)

LoopStep(i) ==
    \/ Started(i) \/ StartAborted(i)
    \/ Take(i) \/ SkipExpired(i) \/ Begin(i) \/ StopServing(i)
    \/ SendStep(i)
    \/ BackendStep(i)

Next ==
    \/ \E r \in Requests : Accept(r) \/ PostStep(r) \/ HandlerStep(r) \/ Expire(r)
    \/ \E i \in Instances : LoopStep(i)
    \/ Signal

Spec == Init /\ [][Next]_vars

\* The Go scheduler runs every runnable goroutine; a timer fires; a backend
\* answers, fails or runs into the backend timeout.
\* The backend timeout bounds one request's tokens, however many there are.
Fairness ==
    /\ \A r \in Requests : /\ WF_vars(PostStep(r))
                           /\ WF_vars(HandlerStep(r))
                           /\ WF_vars(Expire(r))
    /\ \A i \in Instances : /\ WF_vars(LoopStep(i))
                            /\ SF_vars(EndToken(i) \/ BackendError(i))

FairSpec == Spec /\ Fairness

-----------------------------------------------------------------------------
(* Properties.                                                             *)

TypeOK ==
    /\ handler \in [Requests -> HandlerStates]
    /\ post \in [Requests -> PostStates]
    /\ next \in [Requests -> 1 .. NLinters + 1]
    /\ nlresp \in [Requests -> Nat]
    /\ ctxDone \in [Requests -> BOOLEAN]
    /\ metas \in [Requests -> SUBSET Linters]
    /\ queue \in [Linters -> Seq(Requests)]
    /\ pc \in [Instances -> LoopStates]
    /\ cur \in [Instances -> Requests \cup {None}]
    /\ left \in [Instances -> Nat]
    /\ gone \in [Instances -> BOOLEAN]
    /\ blocked \in [Instances -> BOOLEAN]
    /\ stopping \in BOOLEAN
    /\ ended \in [Requests -> SUBSET Linters]
    /\ lost \in [Requests -> SUBSET Linters]
    /\ abandoned \in [Requests -> BOOLEAN]

\* Linters that r was sent to and whose end has not been counted.
Outstanding(r) == {l \in Used(r) : l < next[r]} \ ended[r]

\* nlresp counts server loops, not results: it is the number of linters whose
\* end is still to come for as long as the goroutine relies on it.
CountMatches ==
    \A r \in Requests :
        post[r] \in {"submit", "collect", "waiting"} =>
            nlresp[r] = Cardinality(Outstanding(r))

\* Everything every linter had to say about r is in lresp, with a META result
\* of every linter, used or not.
Complete(r) ==
    /\ ended[r] = Used(r)
    /\ lost[r] = {}
    /\ metas[r] = Linters

\* An answer that the deadline did not cut short is complete: no finding can
\* be dropped while the end of the same linter's results is still counted.
AnswersComplete ==
    \A r \in Requests :
        post[r] \in {"respond", "done"} /\ ~abandoned[r] => Complete(r)

\* A server loop that is blocked in sendResult waits for a goroutine that will
\* come to its select: one that still submits, or that runs the collect loop.
BlockedOnLiveRequest ==
    \A i \in Instances :
        blocked[i] => /\ ~ctxDone[cur[i]]
                      /\ post[cur[i]] \in {"submit", "collect"}

\* Submitting in one order keeps the waits acyclic: the goroutine that a blocked
\* server loop waits for can itself only wait at a linter further on.
NoCyclicWait ==
    \A i \in Instances :
        blocked[i] /\ post[cur[i]] = "submit" => LinterAt(cur[i]) > LinterOf[i]

\* Nothing reaches lresp once the deadline has passed or POST() has returned.
NothingAfterDone ==
    [][\A r \in Requests :
          ctxDone[r] /\ post[r] # "submit"
              => ended'[r] = ended[r] /\ metas'[r] = metas[r]]_vars

\* The service this implements: a handler that has not returned is an open
\* request, an END that was counted is a linter that was heard.
Service == INSTANCE LintService WITH
    Uses   <- [r \in Requests |-> Used(r)],
    status <- [r \in Requests |->
                  IF handler[r] \in {"enter", "waiting"} THEN "open" ELSE handler[r]],
    heard  <- ended,
    closed <- ctxDone

ServiceSpec == Service!Spec

Place(state) ==
    CASE state = "starting" -> "away"
      [] state \in {"idle", "taken"} -> "idle"
      [] state \in {"handle", "scan"} -> "working"
      [] state = "result" -> "sending"
      [] state = "fatal" -> "failing"
      [] state = "restart" -> "mending"
      [] state \in {"meta", "end"} -> "closing"
      [] state = "stopped" -> "over"

\* The instances that took r from a channel and have not looked at its deadline.
JustTook(r) == {i \in Instances : pc[i] = "taken" /\ cur[i] = r}

\* r is still to be submitted to l, in its channel or just taken from it.
Due(r, l) ==
    \/ l \in Used(r) /\ next[r] <= l
    \/ \E k \in 1 .. Len(queue[l]) : queue[l][k] = r
    \/ \E i \in JustTook(r) : LinterOf[i] = l

\* The server loops as ServerLoop has them, with their channels and sends.
Loops == INSTANCE ServerLoop WITH
    External <- {i \in Instances : LinterOf[i] \in External},
    place    <- [i \in Instances |-> Place(pc[i])],
    held     <- [i \in Instances |-> IF pc[i] = "taken" THEN None ELSE cur[i]],
    quiet    <- gone,
    due      <- [l \in Linters |-> {r \in Requests : Due(r, l)}],
    late     <- {r \in Requests : ctxDone[r]}

\* Whatever the channels, the deadlines and the backends do, a request is received
\* by one instance of a linter and never after its deadline, a turn is closed after
\* a failure too, and a result goes undelivered only once the deadline has passed.
LoopsSpec == Loops!Spec

\* Every handler whose deadline passes returns, whatever the linters do.
HandlerReturns ==
    \A r \in Timed : handler[r] = "enter" ~> handler[r] \in {"ok", "timeout"}

\* Every POST goroutine comes to its end, unless the server loops were told to
\* stop and left it at a full queue.
GoroutineEnds ==
    \A r \in Requests : post[r] = "submit" ~> (post[r] = "done" \/ stopping)

\* No server loop is held up for ever by a request.
LoopFreed ==
    \A i \in Instances : pc[i] = "taken" ~> pc[i] \in {"idle", "stopped"}

\* Without any deadline every request is answered: every loop that took a
\* request gets to its end, whatever the backend did, and none waits for ever.
AnsweredInTime ==
    \A r \in Requests : handler[r] = "enter" ~> (handler[r] = "ok" \/ stopping)
=============================================================================
