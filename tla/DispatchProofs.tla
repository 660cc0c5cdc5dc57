--------------------------- MODULE DispatchProofs ---------------------------
(***************************************************************************)
(* Proofs about Dispatch, for any number of requests, linters, instances   *)
(* and for any queue size.                                                 *)
(*                                                                         *)
(* What a collect loop counts is only right because of where a request is: *)
(* of the linters it was sent to and did not hear from, each has it in its *)
(* queue or in the hands of one instance, once.  That is not visible in    *)
(* the properties, so the inductive invariant IInv states it.              *)
(***************************************************************************)
EXTENDS Dispatch, FiniteSetTheorems, SequenceLemmas

\* Server loop i has a request in hand.
Busy(i) == pc[i] \in Sending \cup {"taken", "handle", "scan", "restart"}

\* What the goroutine and the handler of r know by themselves.
RequestLocal(r) ==
    /\ handler[r] = "new" => post[r] = "new"
    /\ post[r] = "new" => next[r] = 1 /\ nlresp[r] = 0
    /\ post[r] = "submit" => next[r] <= NLinters
    /\ post[r] \notin {"new", "submit"} => next[r] = NLinters + 1
    /\ post[r] = "waiting" => nlresp[r] > 0 /\ ~ctxDone[r]
    /\ abandoned[r] => ctxDone[r]
    /\ handler[r] = "ok" => post[r] = "done"
    /\ handler[r] = "timeout" => ctxDone[r]

\* What server loop i knows by itself.
LoopLocal(i) ==
    /\ Busy(i) => cur[i] \in Requests
    /\ pc[i] = "result" => left[i] > 0
    /\ blocked[i] => pc[i] \in Sending /\ ~ctxDone[cur[i]]
    /\ gone[i] => pc[i] \in {"scan", "restart", "meta", "end"} /\ ctxDone[cur[i]]

LocalInv ==
    /\ \A r \in Requests : RequestLocal(r)
    /\ \A i \in Instances : LoopLocal(i)

TypeInv == TypeOK /\ LocalInv

\* A queue holds a request once, and only one that still waits for its linter.
QueueInv ==
    \A l \in Linters :
        /\ \A k \in 1 .. Len(queue[l]) : l \in Outstanding(queue[l][k])
        /\ \A k, m \in 1 .. Len(queue[l]) : queue[l][k] = queue[l][m] => k = m

\* So does an instance, and nobody else of the same linter has it.
HeldInv ==
    \A i \in Instances :
        Busy(i) =>
            /\ LinterOf[i] \in Outstanding(cur[i])
            /\ \A k \in 1 .. Len(queue[LinterOf[i]]) : queue[LinterOf[i]][k] # cur[i]
            /\ \A j \in Instances :
                   Busy(j) /\ LinterOf[j] = LinterOf[i] /\ cur[j] = cur[i] => i = j

\* A linter that was heard was sent the request; one that lost a finding is not
\* heard, because the deadline has passed.
HeardInv ==
    \A r \in Requests :
        /\ \A l \in ended[r] : l \in Used(r) /\ l < next[r]
        /\ \A l \in lost[r] : ctxDone[r] /\ l \in Used(r) /\ l \notin ended[r]

\* The META result of a linter is there once the linter is skipped or heard.
MetaInv ==
    /\ \A r \in Requests :
           /\ \A l \in 1 .. next[r] - 1 : l \in Used(r) \/ l \in metas[r]
           /\ ended[r] \subseteq metas[r]
    /\ \A i \in Instances :
           pc[i] = "end" /\ ~ctxDone[cur[i]] => LinterOf[i] \in metas[cur[i]]

IInv ==
    /\ TypeInv
    /\ QueueInv
    /\ HeldInv
    /\ HeardInv
    /\ MetaInv
    /\ CountMatches
    /\ AnswersComplete
    /\ BlockedOnLiveRequest

-----------------------------------------------------------------------------
(* Type correctness.                                                       *)

LEMMA TypeInvInit == Init => TypeInv
<1> SUFFICES ASSUME Init PROVE TypeInv
  OBVIOUS
<1> USE DispatchAssumption DEF DispatchAssumption, Init
<1>1. \A l \in Linters : queue[l] \in Seq(Requests)
  BY EmptySeq
<1>2. handler \in [Requests -> HandlerStates] /\ post \in [Requests -> PostStates]
  BY DEF HandlerStates, PostStates
<1>3. pc \in [Instances -> LoopStates]
  BY DEF LoopStates
<1>4. next \in [Requests -> 1 .. NLinters + 1]
  OBVIOUS
<1>5. TypeOK
  BY <1>1, <1>2, <1>3, <1>4 DEF TypeOK
<1>6. LocalInv
  BY DEF LocalInv, RequestLocal, LoopLocal, Busy, Sending
<1> QED BY <1>5, <1>6 DEF TypeInv

LEMMA AfterSendType ==
    ASSUME NEW i \in Instances
    PROVE  AfterSend(i) \in LoopStates /\ AfterDrop(i) \in LoopStates
BY DEF AfterSend, AfterDrop, LoopStates, Sending

\* Every step keeps every variable in its type.
LEMMA TypeOKStep == TypeInv /\ [Next]_vars => TypeOK'
<1> SUFFICES ASSUME TypeInv, [Next]_vars PROVE TypeOK'
  OBVIOUS
<1> USE DispatchAssumption DEF DispatchAssumption, TypeInv, TypeOK, LocalInv,
        RequestLocal, LoopLocal, Busy, HandlerStates, PostStates, LoopStates, Sending,
        reqVars, instVars, histVars
<1>1. ASSUME NEW r \in Requests, Accept(r) PROVE TypeOK'
  BY <1>1 DEF Accept
<1>2. ASSUME NEW r \in Requests, Submit(r) PROVE TypeOK'
  <2>1. queue' \in [Linters -> Seq(Requests)]
    BY <1>2, SequenceFacts DEF Submit, Used
  <2>2. next' \in [Requests -> 1 .. NLinters + 1] /\ post' \in [Requests -> PostStates]
    BY <1>2 DEF Submit, SubmitNext
  <2>3. nlresp' \in [Requests -> Nat]
    BY <1>2 DEF Submit
  <2> QED BY <1>2, <2>1, <2>2, <2>3 DEF Submit
<1>3. ASSUME NEW r \in Requests, SkipLinter(r) PROVE TypeOK'
  <2>1. next' \in [Requests -> 1 .. NLinters + 1] /\ post' \in [Requests -> PostStates]
    BY <1>3 DEF SkipLinter, SubmitNext
  <2>2. metas' \in [Requests -> SUBSET Linters]
    BY <1>3 DEF SkipLinter, LinterAt, Linters
  <2> QED BY <1>3, <2>1, <2>2 DEF SkipLinter
<1>4. ASSUME NEW r \in Requests, CollectWait(r) PROVE TypeOK'
  BY <1>4 DEF CollectWait, NothingReady
<1>5. ASSUME NEW r \in Requests, CollectAbandon(r) PROVE TypeOK'
  BY <1>5 DEF CollectAbandon, GivesUpWaiting
<1>6. ASSUME NEW r \in Requests, CollectDone(r) PROVE TypeOK'
  BY <1>6 DEF CollectDone, AllHeard
<1>7. ASSUME NEW r \in Requests, NEW i \in Instances, CollectFrom(r, i) PROVE TypeOK'
  <2>1. nlresp' \in [Requests -> Nat]
    BY <1>7 DEF CollectFrom, Delivered, Receive
  <2>2. metas' \in [Requests -> SUBSET Linters] /\ ended' \in [Requests -> SUBSET Linters]
    BY <1>7 DEF CollectFrom, Delivered, Receive
  <2>3. pc' \in [Instances -> LoopStates]
    BY <1>7, AfterSendType DEF CollectFrom, Delivered
  <2>4. /\ cur' \in [Instances -> Requests \cup {None}]
        /\ left' \in [Instances -> Nat]
    BY <1>7 DEF CollectFrom, Delivered
  <2>5. /\ gone' \in [Instances -> BOOLEAN]
        /\ blocked' \in [Instances -> BOOLEAN]
    BY <1>7 DEF CollectFrom, Delivered
  <2> QED BY <1>7, <2>1, <2>2, <2>3, <2>4, <2>5 DEF CollectFrom, Delivered
<1>8. ASSUME NEW r \in Requests, Respond(r) PROVE TypeOK'
  BY <1>8 DEF Respond
<1>9. ASSUME NEW r \in Requests, HandlerSelect(r) PROVE TypeOK'
  <2>1. handler' \in [Requests -> HandlerStates]
    BY <1>9 DEF HandlerSelect
  <2> QED BY <1>9, <2>1 DEF HandlerSelect
<1>10. ASSUME NEW r \in Requests, CloseCtx(r), handler[r] # "new" PROVE TypeOK'
  <2>1. handler' \in [Requests -> HandlerStates] /\ post' \in [Requests -> PostStates]
    BY <1>10 DEF CloseCtx, TimesOut
  <2>2. pc' \in [Instances -> LoopStates]
    BY <1>10, AfterSendType DEF CloseCtx
  <2>3. /\ cur' \in [Instances -> Requests \cup {None}]
        /\ left' \in [Instances -> Nat]
        /\ nlresp' \in [Requests -> Nat]
    BY <1>10 DEF CloseCtx
  <2>4. /\ gone' \in [Instances -> BOOLEAN]
        /\ blocked' \in [Instances -> BOOLEAN]
    BY <1>10 DEF CloseCtx, KeepGone
  <2>5. /\ ctxDone' \in [Requests -> BOOLEAN]
        /\ abandoned' \in [Requests -> BOOLEAN]
    BY <1>10 DEF CloseCtx
  <2>6. lost' \in [Requests -> SUBSET Linters]
    BY <1>10 DEF CloseCtx
  <2> QED BY <1>10, <2>1, <2>2, <2>3, <2>4, <2>5, <2>6 DEF CloseCtx
<1>11. ASSUME NEW i \in Instances, SendNow(i) PROVE TypeOK'
  <2>1. nlresp' \in [Requests -> Nat]
    BY <1>11 DEF SendNow, AtSelect, Delivered, Receive
  <2>2. metas' \in [Requests -> SUBSET Linters] /\ ended' \in [Requests -> SUBSET Linters]
    BY <1>11 DEF SendNow, AtSelect, Delivered, Receive
  <2>3. pc' \in [Instances -> LoopStates]
    BY <1>11, AfterSendType DEF SendNow, AtSelect, Delivered
  <2>4. /\ cur' \in [Instances -> Requests \cup {None}]
        /\ left' \in [Instances -> Nat]
    BY <1>11 DEF SendNow, AtSelect, Delivered
  <2>5. /\ gone' \in [Instances -> BOOLEAN]
        /\ blocked' \in [Instances -> BOOLEAN]
    BY <1>11 DEF SendNow, AtSelect, Delivered
  <2> QED BY <1>11, <2>1, <2>2, <2>3, <2>4, <2>5 DEF SendNow, AtSelect, Delivered
<1>12. ASSUME NEW i \in Instances, SendDropped(i) PROVE TypeOK'
  BY <1>12 DEF SendDropped, AtSelect, AfterDrop, KeepGone
<1>13. ASSUME NEW i \in Instances, SendBlock(i) PROVE TypeOK'
  BY <1>13 DEF SendBlock, AtSelect
<1>14. ASSUME NEW i \in Instances, Started(i) PROVE TypeOK'
  BY <1>14 DEF Started
<1>15. ASSUME NEW i \in Instances, StartAborted(i) PROVE TypeOK'
  BY <1>15 DEF StartAborted
<1>16. ASSUME NEW i \in Instances, Take(i) PROVE TypeOK'
  <2>1. /\ Head(queue[LinterOf[i]]) \in Requests
        /\ queue' \in [Linters -> Seq(Requests)]
    BY <1>16, SequenceFacts DEF Take
  <2> QED BY <1>16, <2>1 DEF Take
<1>17. ASSUME NEW i \in Instances, SkipExpired(i) PROVE TypeOK'
  BY <1>17 DEF SkipExpired
<1>18. ASSUME NEW i \in Instances, Begin(i) PROVE TypeOK'
  BY <1>18 DEF Begin
<1>19. ASSUME NEW i \in Instances, NEW n \in 0 .. MaxResults, HandleRequest(i, n)
      PROVE  TypeOK'
  BY <1>19 DEF HandleRequest
<1>20. ASSUME NEW i \in Instances, NEW n \in 1 .. MaxResults, Token(i, n) PROVE TypeOK'
  BY <1>20 DEF Token
<1>21. ASSUME NEW i \in Instances, EndToken(i) PROVE TypeOK'
  BY <1>21 DEF EndToken
<1>22. ASSUME NEW i \in Instances, BackendError(i) PROVE TypeOK'
  BY <1>22 DEF BackendError
<1>23. ASSUME NEW i \in Instances, Restarted(i) PROVE TypeOK'
  BY <1>23 DEF Restarted, AfterRestart
<1>24. ASSUME NEW i \in Instances, StopServing(i) PROVE TypeOK'
  BY <1>24 DEF StopServing
<1>25. CASE Signal
  BY <1>25 DEF Signal
<1>26. CASE UNCHANGED vars
  BY <1>26 DEF vars
<1> QED
  BY <1>1, <1>2, <1>3, <1>4, <1>5, <1>6, <1>7, <1>8, <1>9, <1>10, <1>11, <1>12,
     <1>13, <1>14, <1>15, <1>16, <1>17, <1>18, <1>19, <1>20, <1>21, <1>22, <1>23, <1>24, <1>25, <1>26
     DEF Next, PostStep, HandlerStep, Expire, Cancel, LoopStep, SendStep, BackendStep

\* Every step keeps what each process knows by itself.
LEMMA LocalInvStep == TypeInv /\ [Next]_vars => LocalInv'
<1> SUFFICES ASSUME TypeInv, [Next]_vars PROVE LocalInv'
  OBVIOUS
<1> USE DispatchAssumption DEF DispatchAssumption, TypeInv, TypeOK, LocalInv, Busy,
        HandlerStates, PostStates, LoopStates, Sending, reqVars, instVars, histVars
<1>1. ASSUME NEW r \in Requests, Accept(r) PROVE LocalInv'
  BY <1>1 DEF Accept, RequestLocal, LoopLocal
<1>2. ASSUME NEW r \in Requests, Submit(r) PROVE LocalInv'
  BY <1>2 DEF Submit, SubmitNext, LinterAt, Used, RequestLocal, LoopLocal
<1>3. ASSUME NEW r \in Requests, SkipLinter(r) PROVE LocalInv'
  BY <1>3 DEF SkipLinter, SubmitNext, LinterAt, RequestLocal, LoopLocal
<1>4. ASSUME NEW r \in Requests, CollectWait(r) PROVE LocalInv'
  BY <1>4 DEF CollectWait, NothingReady, RequestLocal, LoopLocal
<1>5. ASSUME NEW r \in Requests, CollectAbandon(r) PROVE LocalInv'
  BY <1>5 DEF CollectAbandon, GivesUpWaiting, RequestLocal, LoopLocal
<1>6. ASSUME NEW r \in Requests, CollectDone(r) PROVE LocalInv'
  BY <1>6 DEF CollectDone, AllHeard, RequestLocal, LoopLocal
<1>7. ASSUME NEW r \in Requests, NEW i \in Instances, CollectFrom(r, i) PROVE LocalInv'
  <2>1. \A q \in Requests : RequestLocal(q)'
    BY <1>7 DEF RequestLocal, CollectFrom, Delivered, Receive
  <2>2. \A j \in Instances : LoopLocal(j)'
    BY <1>7 DEF LoopLocal, CollectFrom, Delivered, AfterSend
  <2> QED BY <2>1, <2>2
<1>8. ASSUME NEW r \in Requests, Respond(r) PROVE LocalInv'
  BY <1>8 DEF Respond, RequestLocal, LoopLocal
<1>9. ASSUME NEW r \in Requests, HandlerSelect(r) PROVE LocalInv'
  BY <1>9 DEF HandlerSelect, RequestLocal, LoopLocal
<1>10. ASSUME NEW r \in Requests, CloseCtx(r), handler[r] # "new" PROVE LocalInv'
  BY <1>10 DEF CloseCtx, TimesOut, AfterDrop, KeepGone, RequestLocal, LoopLocal
<1>11. ASSUME NEW i \in Instances, SendNow(i) PROVE LocalInv'
  <2>1. \A q \in Requests : RequestLocal(q)'
    BY <1>11 DEF RequestLocal, SendNow, AtSelect, Delivered, Receive
  <2>2. \A j \in Instances : LoopLocal(j)'
    BY <1>11 DEF LoopLocal, SendNow, AtSelect, Delivered, AfterSend
  <2> QED BY <2>1, <2>2
<1>12. ASSUME NEW i \in Instances, SendDropped(i) PROVE LocalInv'
  BY <1>12 DEF SendDropped, AtSelect, AfterDrop, DropReady, KeepGone, RequestLocal,
               LoopLocal
<1>13. ASSUME NEW i \in Instances, SendBlock(i) PROVE LocalInv'
  BY <1>13 DEF SendBlock, AtSelect, NoCaseReady, RequestLocal, LoopLocal
<1>14. ASSUME NEW i \in Instances, Started(i) PROVE LocalInv'
  BY <1>14 DEF Started, RequestLocal, LoopLocal
<1>15. ASSUME NEW i \in Instances, StartAborted(i) PROVE LocalInv'
  BY <1>15 DEF StartAborted, RequestLocal, LoopLocal
<1>16. ASSUME NEW i \in Instances, Take(i) PROVE LocalInv'
  <2>1. Head(queue[LinterOf[i]]) \in Requests
    BY <1>16, SequenceFacts DEF Take
  <2>2. \A q \in Requests : RequestLocal(q)'
    BY <1>16 DEF RequestLocal, Take
  <2>3. \A j \in Instances : LoopLocal(j)'
    BY <1>16, <2>1 DEF LoopLocal, Take
  <2> QED BY <2>2, <2>3
<1>17. ASSUME NEW i \in Instances, SkipExpired(i) PROVE LocalInv'
  BY <1>17 DEF SkipExpired, RequestLocal, LoopLocal
<1>18. ASSUME NEW i \in Instances, Begin(i) PROVE LocalInv'
  BY <1>18 DEF Begin, RequestLocal, LoopLocal
<1>19. ASSUME NEW i \in Instances, NEW n \in 0 .. MaxResults, HandleRequest(i, n)
      PROVE  LocalInv'
  BY <1>19 DEF HandleRequest, RequestLocal, LoopLocal
<1>20. ASSUME NEW i \in Instances, NEW n \in 1 .. MaxResults, Token(i, n)
      PROVE  LocalInv'
  BY <1>20 DEF Token, RequestLocal, LoopLocal
<1>21. ASSUME NEW i \in Instances, EndToken(i) PROVE LocalInv'
  BY <1>21 DEF EndToken, RequestLocal, LoopLocal
<1>22. ASSUME NEW i \in Instances, BackendError(i) PROVE LocalInv'
  BY <1>22 DEF BackendError, RequestLocal, LoopLocal
<1>23. ASSUME NEW i \in Instances, Restarted(i) PROVE LocalInv'
  BY <1>23 DEF Restarted, AfterRestart, RequestLocal, LoopLocal
<1>24. ASSUME NEW i \in Instances, StopServing(i) PROVE LocalInv'
  BY <1>24 DEF StopServing, RequestLocal, LoopLocal
<1>25. CASE Signal
  BY <1>25 DEF Signal, RequestLocal, LoopLocal
<1>26. CASE UNCHANGED vars
  BY <1>26 DEF vars, RequestLocal, LoopLocal
<1> QED
  BY <1>1, <1>2, <1>3, <1>4, <1>5, <1>6, <1>7, <1>8, <1>9, <1>10, <1>11, <1>12,
     <1>13, <1>14, <1>15, <1>16, <1>17, <1>18, <1>19, <1>20, <1>21, <1>22, <1>23, <1>24, <1>25, <1>26
     DEF Next, PostStep, HandlerStep, Expire, Cancel, LoopStep, SendStep, BackendStep

\* Every variable keeps its type and every process what it knows by itself, in
\* every behaviour of the dispatching of requests (post.go, linter.go).
THEOREM TypeCorrect == Spec => []TypeOK
<1>1. TypeInv /\ [Next]_vars => TypeInv'
  BY TypeOKStep, LocalInvStep DEF TypeInv
<1>2. TypeInv => TypeOK
  BY DEF TypeInv
<1> QED BY TypeInvInit, <1>1, <1>2, PTL DEF Spec

-----------------------------------------------------------------------------
(* Where a request is.  A step moves it in one of few ways.                *)

\* No request is sent to a linter or heard from, and no instance takes one.
Keeps ==
    /\ UNCHANGED <<queue, next, ended>>
    /\ \A j \in Instances : Busy(j)' => Busy(j) /\ cur'[j] = cur[j]

\* The end of the results of instance i is counted.
Hears(i) ==
    /\ pc[i] = "end"
    /\ ~ctxDone[cur[i]]
    /\ UNCHANGED <<queue, next>>
    /\ ended' = [ended EXCEPT ![cur[i]] = @ \cup {LinterOf[i]}]
    /\ ~Busy(i)'
    /\ \A j \in Instances : Busy(j)' => Busy(j) /\ cur'[j] = cur[j]

Moves ==
    \/ Keeps
    \/ \E r \in Requests : Submit(r) \/ SkipLinter(r)
    \/ \E i \in Instances : Take(i) \/ Hears(i)

LEMMA StepMoves == TypeInv /\ [Next]_vars => Moves
<1> SUFFICES ASSUME TypeInv, [Next]_vars PROVE Moves
  OBVIOUS
<1> USE DEF Moves, TypeInv, Busy, Sending, reqVars, instVars, histVars
<1>1. ASSUME NEW r \in Requests, Accept(r) PROVE Moves
  BY <1>1 DEF Keeps, Accept
<1>2. ASSUME NEW r \in Requests, Submit(r) PROVE Moves
  BY <1>2
<1>3. ASSUME NEW r \in Requests, SkipLinter(r) PROVE Moves
  BY <1>3
<1>4. ASSUME NEW r \in Requests, CollectWait(r) PROVE Moves
  BY <1>4 DEF Keeps, CollectWait, NothingReady
<1>5. ASSUME NEW r \in Requests, CollectAbandon(r) PROVE Moves
  BY <1>5 DEF Keeps, CollectAbandon, GivesUpWaiting
<1>6. ASSUME NEW r \in Requests, CollectDone(r) PROVE Moves
  BY <1>6 DEF Keeps, CollectDone, AllHeard
<1>7. ASSUME NEW r \in Requests, NEW i \in Instances, CollectFrom(r, i) PROVE Moves
  <2>1. CASE pc[i] = "end"
    <3>1. /\ ~Busy(i)'
          /\ \A j \in Instances : Busy(j)' => Busy(j) /\ cur'[j] = cur[j]
      BY <1>7, <2>1 DEF TypeOK, CollectFrom, Delivered, AfterSend
    <3>2. ended' = [ended EXCEPT ![cur[i]] = @ \cup {LinterOf[i]}]
      BY <1>7, <2>1 DEF TypeOK, CollectFrom, Delivered, Receive
    <3>3. ~ctxDone[cur[i]]
      BY <1>7 DEF TypeOK, LocalInv, LoopLocal, CollectFrom
    <3> QED BY <1>7, <2>1, <3>1, <3>2, <3>3 DEF Hears, CollectFrom, Delivered
  <2>2. CASE pc[i] # "end"
    <3>1. ended' = ended
      BY <1>7, <2>2 DEF TypeOK, CollectFrom, Delivered, Receive
    <3>2. \A j \in Instances : Busy(j)' => Busy(j) /\ cur'[j] = cur[j]
      BY <1>7, <2>2 DEF TypeOK, LocalInv, LoopLocal, CollectFrom, Delivered, AfterSend
    <3> QED BY <1>7, <3>1, <3>2 DEF Keeps, CollectFrom, Delivered
  <2> QED BY <2>1, <2>2
<1>8. ASSUME NEW r \in Requests, Respond(r) PROVE Moves
  BY <1>8 DEF Keeps, Respond
<1>9. ASSUME NEW r \in Requests, HandlerSelect(r) PROVE Moves
  BY <1>9 DEF Keeps, HandlerSelect
<1>10. ASSUME NEW r \in Requests, CloseCtx(r), handler[r] # "new" PROVE Moves
  BY <1>10 DEF Keeps, CloseCtx, AfterDrop, TypeOK, LocalInv, LoopLocal
<1>11. ASSUME NEW i \in Instances, SendNow(i) PROVE Moves
  <2>1. CASE pc[i] = "end"
    <3>1. /\ ~Busy(i)'
          /\ \A j \in Instances : Busy(j)' => Busy(j) /\ cur'[j] = cur[j]
      BY <1>11, <2>1 DEF TypeOK, SendNow, AtSelect, Delivered, AfterSend
    <3>2. ended' = [ended EXCEPT ![cur[i]] = @ \cup {LinterOf[i]}]
      BY <1>11, <2>1 DEF TypeOK, SendNow, AtSelect, Delivered, Receive
    <3>3. ~ctxDone[cur[i]]
      BY <1>11 DEF TypeOK, LocalInv, RequestLocal, LoopLocal, SendNow, AtSelect
    <3> QED BY <1>11, <2>1, <3>1, <3>2, <3>3 DEF Hears, SendNow, AtSelect, Delivered
  <2>2. CASE pc[i] # "end"
    <3>1. ended' = ended
      BY <1>11, <2>2 DEF TypeOK, SendNow, AtSelect, Delivered, Receive
    <3>2. \A j \in Instances : Busy(j)' => Busy(j) /\ cur'[j] = cur[j]
      BY <1>11, <2>2 DEF TypeOK, LocalInv, LoopLocal, SendNow, AtSelect, Delivered, AfterSend
    <3> QED BY <1>11, <3>1, <3>2 DEF Keeps, SendNow, AtSelect, Delivered
  <2> QED BY <2>1, <2>2
<1>12. ASSUME NEW i \in Instances, SendDropped(i) PROVE Moves
  BY <1>12 DEF Keeps, TypeOK, SendDropped, AtSelect, AfterDrop
<1>13. ASSUME NEW i \in Instances, SendBlock(i) PROVE Moves
  BY <1>13 DEF Keeps, SendBlock, AtSelect
<1>14. ASSUME NEW i \in Instances, Started(i) PROVE Moves
  BY <1>14 DEF Keeps, Started
<1>15. ASSUME NEW i \in Instances, StartAborted(i) PROVE Moves
  BY <1>15 DEF Keeps, StartAborted
<1>16. ASSUME NEW i \in Instances, Take(i) PROVE Moves
  BY <1>16
<1>17. ASSUME NEW i \in Instances, SkipExpired(i) PROVE Moves
  BY <1>17 DEF Keeps, TypeOK, SkipExpired
<1>18. ASSUME NEW i \in Instances, Begin(i) PROVE Moves
  BY <1>18 DEF Keeps, Begin
<1>19. ASSUME NEW i \in Instances, NEW n \in 0 .. MaxResults, HandleRequest(i, n)
      PROVE  Moves
  BY <1>19 DEF Keeps, HandleRequest
<1>20. ASSUME NEW i \in Instances, NEW n \in 1 .. MaxResults, Token(i, n) PROVE Moves
  BY <1>20 DEF Keeps, Token
<1>21. ASSUME NEW i \in Instances, EndToken(i) PROVE Moves
  BY <1>21 DEF Keeps, EndToken
<1>22. ASSUME NEW i \in Instances, BackendError(i) PROVE Moves
  BY <1>22 DEF Keeps, BackendError
<1>23. ASSUME NEW i \in Instances, Restarted(i) PROVE Moves
  BY <1>23 DEF Keeps, Restarted, AfterRestart
<1>24. ASSUME NEW i \in Instances, StopServing(i) PROVE Moves
  BY <1>24 DEF Keeps, StopServing
<1>25. CASE Signal
  BY <1>25 DEF Keeps, Signal
<1>26. CASE UNCHANGED vars
  BY <1>26 DEF Keeps, vars, reqVars
<1> QED
  BY <1>1, <1>2, <1>3, <1>4, <1>5, <1>6, <1>7, <1>8, <1>9, <1>10, <1>11, <1>12,
     <1>13, <1>14, <1>15, <1>16, <1>17, <1>18, <1>19, <1>20, <1>21, <1>22, <1>23, <1>24, <1>25, <1>26
     DEF Next, PostStep, HandlerStep, Expire, Cancel, LoopStep, SendStep, BackendStep

\* As the submit loop advances, a linter that is owed an answer stays so.
LEMMA OutstandingGrows ==
    ASSUME \A q \in Requests : /\ next[q] \in Int /\ next'[q] \in Int
                               /\ next[q] <= next'[q],
           \A q \in Requests : Used(q) \subseteq Linters /\ Used(q)' = Used(q),
           Linters \subseteq Int,
           ended' = ended
    PROVE  \A q \in Requests : Outstanding(q) \subseteq Outstanding(q)'
<1> SUFFICES ASSUME NEW q \in Requests, NEW l \in Outstanding(q)
             PROVE  l \in Outstanding(q)'
  OBVIOUS
<1>1. l \in Used(q) /\ l < next[q] /\ l \notin ended[q] /\ l \in Int
  BY DEF Outstanding
<1>2. l < next'[q]
  BY <1>1
<1> QED BY <1>1, <1>2 DEF Outstanding

\* A request stays in one place per linter: appended once, taken from the head
\* by one instance, gone before its end is counted.
LEMMA PlaceStep ==
    TypeInv /\ QueueInv /\ HeldInv /\ HeardInv /\ [Next]_vars => QueueInv' /\ HeldInv'
<1> SUFFICES ASSUME TypeInv, QueueInv, HeldInv, HeardInv, [Next]_vars
             PROVE  QueueInv' /\ HeldInv'
  OBVIOUS
<1>0. Moves
  BY StepMoves
<1>a. TypeOK /\ TypeOK' /\ \A i \in Instances : LinterOf[i] \in Linters
  BY TypeOKStep, DispatchAssumption DEF TypeInv, DispatchAssumption
<1>b. /\ \A l \in Linters : /\ Len(queue[l]) \in Nat
                            /\ \A k \in 1 .. Len(queue[l]) : queue[l][k] \in Requests
      /\ \A i \in Instances : Busy(i) => cur[i] \in Requests
      /\ \A r \in Requests : next[r] \in Int
      /\ Linters \subseteq Int
  <2>1. ASSUME NEW l \in Linters
        PROVE  Len(queue[l]) \in Nat /\ \A k \in 1 .. Len(queue[l]) : queue[l][k] \in Requests
    <3>1. queue[l] \in Seq(Requests)
      BY <1>a DEF TypeOK
    <3> QED BY <3>1, SequenceFacts
  <2>2. \A i \in Instances : Busy(i) => cur[i] \in Requests
    BY DEF TypeInv, LocalInv, LoopLocal
  <2>3. \A r \in Requests : next[r] \in Int
    BY <1>a DEF TypeOK
  <2>4. Linters \subseteq Int
    BY DispatchAssumption DEF DispatchAssumption, Linters
  <2> QED BY <2>1, <2>2, <2>3, <2>4
<1>c. \A q \in Requests : Used(q) \subseteq Linters /\ Used(q)' = Used(q)
  BY DispatchAssumption DEF DispatchAssumption, Used, NumInstances
<1>1. CASE Keeps
  <2>1. \A r \in Requests : Outstanding(r)' = Outstanding(r)
    BY <1>1 DEF Keeps, Outstanding, Used, NumInstances
  <2>2. QueueInv'
    <3>1. queue' = queue
      BY <1>1 DEF Keeps
    <3>2. ASSUME NEW l \in Linters, NEW k \in 1 .. Len(queue[l])
          PROVE  l \in Outstanding(queue[l][k])'
      <4>1. queue[l][k] \in Requests
        BY <1>b
      <4>2. l \in Outstanding(queue[l][k])
        BY DEF QueueInv
      <4> QED BY <2>1, <3>1, <4>1, <4>2
    <3> QED BY <3>1, <3>2 DEF QueueInv
  <2>3. HeldInv'
    <3>1. ASSUME NEW i \in Instances, Busy(i)'
          PROVE  Busy(i) /\ cur'[i] = cur[i] /\ LinterOf[i] \in Linters
      BY <1>1, <1>a, <3>1 DEF Keeps
    <3>2. ASSUME NEW i \in Instances, Busy(i)'
          PROVE  LinterOf[i] \in Outstanding(cur[i])'
      <4>1. LinterOf[i] \in Outstanding(cur[i]) /\ cur[i] \in Requests
        BY <1>b, <3>1, <3>2 DEF HeldInv
      <4> QED BY <2>1, <3>1, <3>2, <4>1
    <3>3. queue' = queue
      BY <1>1 DEF Keeps
    <3> QED BY <3>1, <3>2, <3>3 DEF HeldInv
  <2> QED BY <2>2, <2>3
<1>2. ASSUME NEW r \in Requests, Submit(r) PROVE QueueInv' /\ HeldInv'
  <2> PICK m \in Linters : m = next[r]
    BY <1>2, DispatchAssumption DEF Submit, LinterAt, Used, DispatchAssumption
  <2>1. /\ m \in Used(r)
        /\ queue' = [queue EXCEPT ![m] = Append(queue[m], r)]
        /\ next' = [next EXCEPT ![r] = m + 1]
        /\ UNCHANGED <<ended, pc, cur>>
    BY <1>2 DEF Submit, SubmitNext, LinterAt, instVars, histVars
  <2>2. m \notin Outstanding(r)
    BY <1>b DEF Outstanding
  <2>3. /\ m \in Outstanding(r)'
        /\ \A q \in Requests : Outstanding(q) \subseteq Outstanding(q)'
    <3>1. m \notin ended[r] /\ m \in Int
      BY <1>b DEF HeardInv
    <3>2. \A q \in Requests : next[q] <= next'[q] /\ next'[q] \in Int
      BY <1>a, <1>b, <2>1, <3>1 DEF TypeOK
    <3>3. next'[r] = m + 1
      BY <1>a, <2>1 DEF TypeOK
    <3>4. m \in Outstanding(r)'
      BY <1>c, <2>1, <3>1, <3>3 DEF Outstanding
    <3> QED BY <1>b, <1>c, <2>1, <3>2, <3>4, OutstandingGrows
  <2>4. ASSUME NEW l \in Linters, l # m
        PROVE  queue'[l] = queue[l]
    BY <1>a, <2>1, <2>4 DEF TypeOK
  <2>5. /\ Len(queue'[m]) = Len(queue[m]) + 1
        /\ queue'[m][Len(queue[m]) + 1] = r
        /\ \A k \in 1 .. Len(queue[m]) : queue'[m][k] = queue[m][k]
    <3>1. queue'[m] = Append(queue[m], r) /\ queue[m] \in Seq(Requests)
      BY <1>a, <2>1 DEF TypeOK
    <3> QED BY <3>1, SequenceFacts
  <2>6. \A k \in 1 .. Len(queue[m]) : queue[m][k] # r
    BY <2>1, <2>2 DEF QueueInv
  <2>7. ASSUME NEW l \in Linters
        PROVE  /\ \A k \in 1 .. Len(queue'[l]) : l \in Outstanding(queue[l][k])'
               /\ \A k, n \in 1 .. Len(queue'[l]) : queue'[l][k] = queue'[l][n] => k = n
    <3>1. CASE l # m
      BY <1>b, <2>3, <2>4, <3>1 DEF QueueInv
    <3>2. CASE l = m
      <4>1. \A k \in 1 .. Len(queue'[m]) :
                k \in 1 .. Len(queue[m]) \/ k = Len(queue[m]) + 1
        BY <1>b, <2>1, <2>5
      <4>2. \A k \in 1 .. Len(queue'[m]) : m \in Outstanding(queue[m][k])'
        BY <1>b, <2>1, <2>3, <2>5, <4>1 DEF QueueInv
      <4>3. \A k, n \in 1 .. Len(queue'[m]) : queue'[m][k] = queue'[m][n] => k = n
        <5>1. \A k, n \in 1 .. Len(queue[m]) : queue[m][k] = queue[m][n] => k = n
          BY DEF QueueInv
        <5>2. SUFFICES ASSUME NEW k \in 1 .. Len(queue'[m]), NEW n \in 1 .. Len(queue'[m]),
                              queue'[m][k] = queue'[m][n]
                       PROVE  k = n
          OBVIOUS
        <5>3. CASE k \in 1 .. Len(queue[m]) /\ n \in 1 .. Len(queue[m])
          BY <2>5, <5>1, <5>2, <5>3
        <5>4. CASE k = Len(queue[m]) + 1
          BY <2>5, <2>6, <4>1, <5>2, <5>4
        <5>5. CASE n = Len(queue[m]) + 1
          BY <2>5, <2>6, <4>1, <5>2, <5>5
        <5> QED BY <4>1, <5>3, <5>4, <5>5
      <4> QED BY <3>2, <4>2, <4>3
    <3> QED BY <3>1, <3>2
  <2>8. QueueInv'
    BY <2>7 DEF QueueInv
  <2>9. ASSUME NEW i \in Instances, Busy(i)'
        PROVE  /\ LinterOf[i] \in Outstanding(cur[i])'
               /\ \A k \in 1 .. Len(queue'[LinterOf[i]]) : queue'[LinterOf[i]][k] # cur[i]
               /\ \A j \in Instances :
                      Busy(j)' /\ LinterOf[j] = LinterOf[i] /\ cur[j] = cur[i] => i = j
    <3>1. Busy(i) /\ \A j \in Instances : Busy(j)' => Busy(j)
      BY <2>1, <2>9 DEF Busy
    <3>2. LinterOf[i] = m => cur[i] # r
      BY <2>2, <3>1 DEF HeldInv
    <3>3. \A k \in 1 .. Len(queue'[LinterOf[i]]) : queue'[LinterOf[i]][k] # cur[i]
      <4>1. CASE LinterOf[i] # m
        BY <1>a, <2>4, <3>1, <4>1 DEF HeldInv
      <4>2. CASE LinterOf[i] = m
        <5>1. \A k \in 1 .. Len(queue[m]) : queue[m][k] # cur[i]
          BY <3>1, <4>2 DEF HeldInv
        <5> QED BY <1>b, <2>1, <2>5, <3>2, <4>2, <5>1
      <4> QED BY <4>1, <4>2
    <3> QED BY <1>b, <2>1, <2>3, <3>1, <3>3 DEF HeldInv
  <2> QED BY <2>1, <2>8, <2>9 DEF HeldInv
<1>3. ASSUME NEW r \in Requests, SkipLinter(r) PROVE QueueInv' /\ HeldInv'
  <2>1. UNCHANGED <<queue, ended, pc, cur>>
    BY <1>3 DEF SkipLinter, instVars, histVars
  <2>2. \A q \in Requests : Outstanding(q) \subseteq Outstanding(q)'
    <3>1. \A q \in Requests : next[q] <= next'[q] /\ next'[q] \in Int
      BY <1>3, <1>a, <1>b DEF SkipLinter, SubmitNext, TypeOK
    <3> QED BY <1>b, <1>c, <2>1, <3>1, OutstandingGrows
  <2>3. QueueInv'
    BY <1>b, <2>1, <2>2 DEF QueueInv
  <2>4. HeldInv'
    BY <1>b, <2>1, <2>2 DEF HeldInv, Busy
  <2> QED BY <2>3, <2>4
<1>4. ASSUME NEW i \in Instances, Take(i) PROVE QueueInv' /\ HeldInv'
  <2> DEFINE m == LinterOf[i]
  <2>1. /\ ~Busy(i)
        /\ m \in Linters /\ queue[m] \in Seq(Requests) /\ queue[m] # <<>>
        /\ queue' = [queue EXCEPT ![m] = Tail(queue[m])]
        /\ cur' = [cur EXCEPT ![i] = Head(queue[m])]
        /\ pc' = [pc EXCEPT ![i] = "taken"]
        /\ UNCHANGED <<next, ended>>
    BY <1>4, <1>a DEF Take, Busy, Sending, TypeOK, reqVars, histVars
  <2> HIDE DEF m
  <2>2. /\ Len(queue[m]) > 0
        /\ queue'[m] = Tail(queue[m])
        /\ Len(queue'[m]) = Len(queue[m]) - 1
        /\ \A k \in 1 .. Len(queue[m]) - 1 : queue'[m][k] = queue[m][k + 1]
        /\ cur'[i] = queue[m][1]
    BY <1>a, <2>1, SequenceFacts DEF TypeOK
  <2>3. \A l \in Linters : l # m => queue'[l] = queue[l]
    BY <1>a, <2>1 DEF TypeOK
  <2>4. \A r \in Requests : Outstanding(r)' = Outstanding(r)
    BY <2>1 DEF Outstanding, Used, NumInstances
  <2>5. \A k \in 1 .. Len(queue'[m]) : k \in 1 .. Len(queue[m]) - 1 /\ k + 1 \in 1 .. Len(queue[m])
    BY <1>b, <2>1, <2>2
  <2>6. ASSUME NEW l \in Linters
        PROVE  /\ \A k \in 1 .. Len(queue'[l]) : l \in Outstanding(queue[l][k])'
               /\ \A k, n \in 1 .. Len(queue'[l]) : queue'[l][k] = queue'[l][n] => k = n
    <3>1. CASE l # m
      BY <1>b, <2>3, <2>4, <3>1 DEF QueueInv
    <3>2. CASE l = m
      <4>1. \A k \in 1 .. Len(queue'[m]) : m \in Outstanding(queue[m][k])'
        BY <1>b, <2>1, <2>2, <2>4, <2>5 DEF QueueInv
      <4>2. ASSUME NEW k \in 1 .. Len(queue'[m]), NEW n \in 1 .. Len(queue'[m]),
                   queue'[m][k] = queue'[m][n]
            PROVE  k = n
        <5>1. queue[m][k + 1] = queue[m][n + 1]
          BY <2>2, <2>5, <4>2
        <5>2. k + 1 = n + 1
          BY <2>1, <2>5, <5>1 DEF QueueInv
        <5> QED BY <5>2, <1>b, <2>1, <2>2
      <4> QED BY <3>2, <4>1, <4>2
    <3> QED BY <3>1, <3>2
  <2>7. QueueInv'
    BY <2>6 DEF QueueInv
  <2>8. \A j \in Instances : j # i /\ Busy(j)' => Busy(j) /\ cur'[j] = cur[j]
    BY <1>a, <2>1 DEF Busy, TypeOK
  <2>9. /\ m \in Outstanding(cur[i])'
        /\ \A k \in 1 .. Len(queue'[m]) : queue'[m][k] # cur'[i]
        /\ \A j \in Instances : j # i /\ Busy(j) /\ LinterOf[j] = m => cur[j] # cur'[i]
    <3>1. 1 \in 1 .. Len(queue[m]) /\ queue[m][1] \in Requests
      BY <1>b, <2>1, <2>2
    <3>2. m \in Outstanding(cur[i])'
      BY <2>1, <2>2, <2>4, <3>1 DEF QueueInv
    <3>3. ASSUME NEW k \in 1 .. Len(queue'[m]), queue'[m][k] = cur'[i] PROVE FALSE
      <4>1. queue[m][k + 1] = queue[m][1] /\ k + 1 \in 1 .. Len(queue[m])
        BY <2>2, <2>5, <3>3
      <4>2. k + 1 = 1
        BY <2>1, <3>1, <4>1 DEF QueueInv
      <4> QED BY <4>2, <1>b, <2>1, <2>2
    <3>4. \A j \in Instances : Busy(j) /\ LinterOf[j] = m => cur[j] # queue[m][1]
      BY <3>1 DEF HeldInv
    <3> QED BY <2>2, <3>2, <3>3, <3>4
  <2>10. ASSUME NEW j \in Instances, j # i, Busy(j)'
         PROVE  /\ LinterOf[j] \in Outstanding(cur[j])'
                /\ \A k \in 1 .. Len(queue'[LinterOf[j]]) : queue'[LinterOf[j]][k] # cur'[j]
    <3>1. Busy(j) /\ cur'[j] = cur[j] /\ cur[j] \in Requests
      BY <1>b, <2>8, <2>10
    <3>2. LinterOf[j] \in Outstanding(cur[j])'
      BY <2>4, <3>1 DEF HeldInv
    <3>3. CASE LinterOf[j] # m
      BY <1>a, <2>3, <3>1, <3>2, <3>3 DEF HeldInv
    <3>4. CASE LinterOf[j] = m
      <4>1. \A k \in 1 .. Len(queue[m]) : queue[m][k] # cur[j]
        BY <3>1, <3>4 DEF HeldInv
      <4> QED BY <2>2, <2>5, <3>1, <3>2, <3>4, <4>1
    <3> QED BY <3>3, <3>4
  <2>11. HeldInv'
    <3>1. ASSUME NEW j \in Instances, NEW h \in Instances, Busy(j)', Busy(h)',
                 LinterOf[h] = LinterOf[j], cur'[h] = cur'[j]
          PROVE  j = h
      BY <2>8, <2>9, <3>1 DEF HeldInv, m
    <3> QED BY <2>9, <2>10, <3>1 DEF HeldInv, m
  <2> QED BY <2>7, <2>11
<1>5. ASSUME NEW i \in Instances, Hears(i) PROVE QueueInv' /\ HeldInv'
  <2> DEFINE r == cur[i]
             m == LinterOf[i]
  <2>1. /\ Busy(i) /\ r \in Requests /\ m \in Linters
        /\ UNCHANGED <<queue, next>>
        /\ ended' = [ended EXCEPT ![r] = @ \cup {m}]
        /\ ~Busy(i)'
        /\ \A j \in Instances : Busy(j)' => Busy(j) /\ cur'[j] = cur[j]
    BY <1>5, <1>a, <1>b DEF Hears, Busy, Sending
  <2>2. /\ \A k \in 1 .. Len(queue[m]) : queue[m][k] # r
        /\ \A j \in Instances : j # i /\ Busy(j) /\ LinterOf[j] = m => cur[j] # r
    BY <2>1 DEF HeldInv
  <2> HIDE DEF r, m
  <2>3. \A q \in Requests : \A l \in Outstanding(q) :
            l \in Outstanding(q)' \/ (q = r /\ l = m)
    BY <1>a, <2>1 DEF Outstanding, Used, NumInstances, TypeOK
  <2>4. QueueInv'
    BY <1>b, <2>1, <2>2, <2>3 DEF QueueInv
  <2>5. ASSUME NEW j \in Instances, Busy(j)'
        PROVE  LinterOf[j] \in Outstanding(cur[j])'
    <3>1. Busy(j) /\ cur'[j] = cur[j] /\ j # i /\ cur[j] \in Requests
      BY <1>b, <2>1, <2>5
    <3> QED BY <2>2, <2>3, <3>1 DEF HeldInv
  <2>6. HeldInv'
    BY <2>1, <2>5 DEF HeldInv
  <2> QED BY <2>4, <2>6
<1> QED
  BY <1>0, <1>1, <1>2, <1>3, <1>4, <1>5 DEF Moves

-----------------------------------------------------------------------------
(* What is heard, lost and closed.                                        *)

\* Contexts stay closed and META results stay in lresp.
Monotone ==
    \A r \in Requests : /\ ctxDone[r] => ctxDone'[r]
                        /\ metas[r] \subseteq metas'[r]

LEMMA StepMonotone == TypeInv /\ [Next]_vars => Monotone
<1> SUFFICES ASSUME TypeInv, [Next]_vars PROVE Monotone
  OBVIOUS
<1> USE DEF Monotone, TypeInv, reqVars, instVars, histVars
<1>1. ASSUME NEW r \in Requests, Accept(r) PROVE Monotone
  BY <1>1 DEF Accept, TypeOK
<1>2. ASSUME NEW r \in Requests, Submit(r) PROVE Monotone
  BY <1>2 DEF Submit, SubmitNext, LinterAt, Used, TypeOK
<1>3. ASSUME NEW r \in Requests, SkipLinter(r) PROVE Monotone
  BY <1>3 DEF SkipLinter, SubmitNext, LinterAt, TypeOK
<1>4. ASSUME NEW r \in Requests, CollectWait(r) PROVE Monotone
  BY <1>4 DEF CollectWait, NothingReady, TypeOK
<1>5. ASSUME NEW r \in Requests, CollectAbandon(r) PROVE Monotone
  BY <1>5 DEF CollectAbandon, GivesUpWaiting, TypeOK
<1>6. ASSUME NEW r \in Requests, CollectDone(r) PROVE Monotone
  BY <1>6 DEF CollectDone, AllHeard, TypeOK
<1>7. ASSUME NEW r \in Requests, NEW i \in Instances, CollectFrom(r, i) PROVE Monotone
  BY <1>7 DEF CollectFrom, Delivered, Receive, AfterSend, TypeOK
<1>8. ASSUME NEW r \in Requests, Respond(r) PROVE Monotone
  BY <1>8 DEF Respond, TypeOK
<1>9. ASSUME NEW r \in Requests, HandlerSelect(r) PROVE Monotone
  BY <1>9 DEF HandlerSelect, TypeOK
<1>10. ASSUME NEW r \in Requests, CloseCtx(r), handler[r] # "new" PROVE Monotone
  BY <1>10 DEF CloseCtx, Loses, AfterDrop, TypeOK
<1>11. ASSUME NEW i \in Instances, SendNow(i) PROVE Monotone
  BY <1>11 DEF SendNow, AtSelect, Delivered, Receive, AfterSend, TypeOK
<1>12. ASSUME NEW i \in Instances, SendDropped(i) PROVE Monotone
  BY <1>12 DEF SendDropped, AtSelect, AfterDrop, DropReady, Loses, TypeOK
<1>13. ASSUME NEW i \in Instances, SendBlock(i) PROVE Monotone
  BY <1>13 DEF SendBlock, AtSelect, TypeOK
<1>14. ASSUME NEW i \in Instances, Started(i) PROVE Monotone
  BY <1>14 DEF Started, TypeOK
<1>15. ASSUME NEW i \in Instances, StartAborted(i) PROVE Monotone
  BY <1>15 DEF StartAborted, TypeOK
<1>16. ASSUME NEW i \in Instances, Take(i) PROVE Monotone
  BY <1>16 DEF Take, TypeOK
<1>17. ASSUME NEW i \in Instances, SkipExpired(i) PROVE Monotone
  BY <1>17 DEF SkipExpired, TypeOK
<1>18. ASSUME NEW i \in Instances, Begin(i) PROVE Monotone
  BY <1>18 DEF Begin, TypeOK
<1>19. ASSUME NEW i \in Instances, NEW n \in 0 .. MaxResults, HandleRequest(i, n)
      PROVE  Monotone
  BY <1>19 DEF HandleRequest, TypeOK
<1>20. ASSUME NEW i \in Instances, NEW n \in 1 .. MaxResults, Token(i, n) PROVE Monotone
  BY <1>20 DEF Token, TypeOK
<1>21. ASSUME NEW i \in Instances, EndToken(i) PROVE Monotone
  BY <1>21 DEF EndToken, TypeOK
<1>22. ASSUME NEW i \in Instances, BackendError(i) PROVE Monotone
  BY <1>22 DEF BackendError, TypeOK
<1>23. ASSUME NEW i \in Instances, Restarted(i) PROVE Monotone
  BY <1>23 DEF Restarted, AfterRestart, TypeOK
<1>24. ASSUME NEW i \in Instances, StopServing(i) PROVE Monotone
  BY <1>24 DEF StopServing, TypeOK
<1>25. CASE Signal
  BY <1>25 DEF Signal, TypeOK
<1>26. CASE UNCHANGED vars
  BY <1>26 DEF vars, reqVars, TypeOK
<1> QED
  BY <1>1, <1>2, <1>3, <1>4, <1>5, <1>6, <1>7, <1>8, <1>9, <1>10, <1>11, <1>12,
     <1>13, <1>14, <1>15, <1>16, <1>17, <1>18, <1>19, <1>20, <1>21, <1>22, <1>23, <1>24, <1>25, <1>26
     DEF Next, PostStep, HandlerStep, Expire, Cancel, LoopStep, SendStep, BackendStep

\* A finding is lost by an instance that has the request in hand, after its
\* deadline, in a step that counts no end.
LosesLate ==
    \A r \in Requests : \A l \in lost'[r] \ lost[r] :
        /\ ctxDone'[r] /\ ended' = ended
        /\ \E i \in Instances : Busy(i) /\ cur[i] = r /\ LinterOf[i] = l

LEMMA StepLosesLate == TypeInv /\ [Next]_vars => LosesLate
<1> SUFFICES ASSUME TypeInv, [Next]_vars PROVE LosesLate
  OBVIOUS
<1> USE DEF LosesLate, TypeInv, LocalInv, LoopLocal, Busy, Sending, reqVars, instVars,
        histVars
<1>1. ASSUME NEW r \in Requests, Accept(r) PROVE LosesLate
  BY <1>1 DEF Accept, TypeOK
<1>2. ASSUME NEW r \in Requests, Submit(r) PROVE LosesLate
  BY <1>2 DEF Submit, SubmitNext, LinterAt, Used, TypeOK
<1>3. ASSUME NEW r \in Requests, SkipLinter(r) PROVE LosesLate
  BY <1>3 DEF SkipLinter, SubmitNext, LinterAt, TypeOK
<1>4. ASSUME NEW r \in Requests, CollectWait(r) PROVE LosesLate
  BY <1>4 DEF CollectWait, NothingReady, TypeOK
<1>5. ASSUME NEW r \in Requests, CollectAbandon(r) PROVE LosesLate
  BY <1>5 DEF CollectAbandon, GivesUpWaiting, TypeOK
<1>6. ASSUME NEW r \in Requests, CollectDone(r) PROVE LosesLate
  BY <1>6 DEF CollectDone, AllHeard, TypeOK
<1>7. ASSUME NEW r \in Requests, NEW i \in Instances, CollectFrom(r, i) PROVE LosesLate
  BY <1>7 DEF CollectFrom, Delivered, Receive, AfterSend, TypeOK
<1>8. ASSUME NEW r \in Requests, Respond(r) PROVE LosesLate
  BY <1>8 DEF Respond, TypeOK
<1>9. ASSUME NEW r \in Requests, HandlerSelect(r) PROVE LosesLate
  BY <1>9 DEF HandlerSelect, TypeOK
<1>10. ASSUME NEW r \in Requests, CloseCtx(r), handler[r] # "new" PROVE LosesLate
  <2>1. \A q \in Requests : \A l \in lost'[q] \ lost[q] :
            q = r /\ \E i \in Instances : blocked[i] /\ cur[i] = r /\ LinterOf[i] = l
    BY <1>10 DEF CloseCtx, TypeOK
  <2>2. ctxDone'[r] /\ ended' = ended
    BY <1>10 DEF CloseCtx, TypeOK
  <2> QED BY <2>1, <2>2
<1>11. ASSUME NEW i \in Instances, SendNow(i) PROVE LosesLate
  BY <1>11 DEF SendNow, AtSelect, Delivered, Receive, AfterSend, TypeOK
<1>12. ASSUME NEW i \in Instances, SendDropped(i) PROVE LosesLate
  BY <1>12 DEF SendDropped, AtSelect, AfterDrop, DropReady, Loses, TypeOK
<1>13. ASSUME NEW i \in Instances, SendBlock(i) PROVE LosesLate
  BY <1>13 DEF SendBlock, AtSelect, TypeOK
<1>14. ASSUME NEW i \in Instances, Started(i) PROVE LosesLate
  BY <1>14 DEF Started, TypeOK
<1>15. ASSUME NEW i \in Instances, StartAborted(i) PROVE LosesLate
  BY <1>15 DEF StartAborted, TypeOK
<1>16. ASSUME NEW i \in Instances, Take(i) PROVE LosesLate
  BY <1>16 DEF Take, TypeOK
<1>17. ASSUME NEW i \in Instances, SkipExpired(i) PROVE LosesLate
  BY <1>17 DEF SkipExpired, TypeOK
<1>18. ASSUME NEW i \in Instances, Begin(i) PROVE LosesLate
  BY <1>18 DEF Begin, TypeOK
<1>19. ASSUME NEW i \in Instances, NEW n \in 0 .. MaxResults, HandleRequest(i, n)
      PROVE  LosesLate
  BY <1>19 DEF HandleRequest, TypeOK
<1>20. ASSUME NEW i \in Instances, NEW n \in 1 .. MaxResults, Token(i, n)
      PROVE  LosesLate
  BY <1>20 DEF Token, TypeOK
<1>21. ASSUME NEW i \in Instances, EndToken(i) PROVE LosesLate
  BY <1>21 DEF EndToken, TypeOK
<1>22. ASSUME NEW i \in Instances, BackendError(i) PROVE LosesLate
  BY <1>22 DEF BackendError, TypeOK
<1>23. ASSUME NEW i \in Instances, Restarted(i) PROVE LosesLate
  BY <1>23 DEF Restarted, AfterRestart, TypeOK
<1>24. ASSUME NEW i \in Instances, StopServing(i) PROVE LosesLate
  BY <1>24 DEF StopServing, TypeOK
<1>25. CASE Signal
  BY <1>25 DEF Signal, TypeOK
<1>26. CASE UNCHANGED vars
  BY <1>26 DEF vars, reqVars, TypeOK
<1> QED
  BY <1>1, <1>2, <1>3, <1>4, <1>5, <1>6, <1>7, <1>8, <1>9, <1>10, <1>11, <1>12,
     <1>13, <1>14, <1>15, <1>16, <1>17, <1>18, <1>19, <1>20, <1>21, <1>22, <1>23, <1>24, <1>25, <1>26
     DEF Next, PostStep, HandlerStep, Expire, Cancel, LoopStep, SendStep, BackendStep

\* An instance comes to send the end of its results after its META result was
\* received, or dropped for the deadline.
EndsAfterMeta ==
    \A j \in Instances :
        pc'[j] = "end" =>
            \/ pc[j] = "end" /\ cur'[j] = cur[j]
            \/ ctxDone'[cur'[j]]
            \/ LinterOf[j] \in metas'[cur'[j]]

LEMMA StepEndsAfterMeta == TypeInv /\ [Next]_vars => EndsAfterMeta
<1> SUFFICES ASSUME TypeInv, [Next]_vars PROVE EndsAfterMeta
  OBVIOUS
<1> USE DEF EndsAfterMeta, TypeInv, LocalInv, LoopLocal, Busy, Sending, reqVars,
        instVars, histVars
<1>1. ASSUME NEW r \in Requests, Accept(r) PROVE EndsAfterMeta
  BY <1>1 DEF Accept, TypeOK
<1>2. ASSUME NEW r \in Requests, Submit(r) PROVE EndsAfterMeta
  BY <1>2 DEF Submit, SubmitNext, LinterAt, Used, TypeOK
<1>3. ASSUME NEW r \in Requests, SkipLinter(r) PROVE EndsAfterMeta
  BY <1>3 DEF SkipLinter, SubmitNext, LinterAt, TypeOK
<1>4. ASSUME NEW r \in Requests, CollectWait(r) PROVE EndsAfterMeta
  BY <1>4 DEF CollectWait, NothingReady, TypeOK
<1>5. ASSUME NEW r \in Requests, CollectAbandon(r) PROVE EndsAfterMeta
  BY <1>5 DEF CollectAbandon, GivesUpWaiting, TypeOK
<1>6. ASSUME NEW r \in Requests, CollectDone(r) PROVE EndsAfterMeta
  BY <1>6 DEF CollectDone, AllHeard, TypeOK
<1>7. ASSUME NEW r \in Requests, NEW i \in Instances, CollectFrom(r, i)
      PROVE  EndsAfterMeta
  <2>1. CASE pc[i] = "meta"
    <3>1. cur' = cur /\ LinterOf[i] \in metas'[cur[i]]
      BY <1>7, <2>1 DEF CollectFrom, Delivered, Receive, TypeOK
    <3>2. \A j \in Instances : j # i => pc'[j] = pc[j]
      BY <1>7 DEF CollectFrom, Delivered, TypeOK
    <3> QED BY <3>1, <3>2
  <2>2. CASE pc[i] # "meta"
    <3>1. pc'[i] # "end"
      BY <1>7, <2>2 DEF CollectFrom, Delivered, AfterSend, TypeOK
    <3>2. \A j \in Instances : j # i => pc'[j] = pc[j] /\ cur'[j] = cur[j]
      BY <1>7 DEF CollectFrom, Delivered, TypeOK
    <3> QED BY <3>1, <3>2
  <2> QED BY <2>1, <2>2
<1>8. ASSUME NEW r \in Requests, Respond(r) PROVE EndsAfterMeta
  BY <1>8 DEF Respond, TypeOK
<1>9. ASSUME NEW r \in Requests, HandlerSelect(r) PROVE EndsAfterMeta
  BY <1>9 DEF HandlerSelect, TypeOK
<1>10. ASSUME NEW r \in Requests, CloseCtx(r), handler[r] # "new" PROVE EndsAfterMeta
  BY <1>10 DEF CloseCtx, AfterDrop, TypeOK
<1>11. ASSUME NEW i \in Instances, SendNow(i) PROVE EndsAfterMeta
  <2>1. CASE pc[i] = "meta"
    <3>1. cur' = cur /\ LinterOf[i] \in metas'[cur[i]]
      BY <1>11, <2>1 DEF SendNow, AtSelect, Delivered, Receive, TypeOK
    <3>2. \A j \in Instances : j # i => pc'[j] = pc[j]
      BY <1>11 DEF SendNow, AtSelect, Delivered, TypeOK
    <3> QED BY <3>1, <3>2
  <2>2. CASE pc[i] # "meta"
    <3>1. pc'[i] # "end"
      BY <1>11, <2>2 DEF SendNow, AtSelect, Delivered, AfterSend, TypeOK
    <3>2. \A j \in Instances : j # i => pc'[j] = pc[j] /\ cur'[j] = cur[j]
      BY <1>11 DEF SendNow, AtSelect, Delivered, TypeOK
    <3> QED BY <3>1, <3>2
  <2> QED BY <2>1, <2>2
<1>12. ASSUME NEW i \in Instances, SendDropped(i) PROVE EndsAfterMeta
  BY <1>12 DEF SendDropped, AtSelect, AfterDrop, DropReady, Loses, TypeOK
<1>13. ASSUME NEW i \in Instances, SendBlock(i) PROVE EndsAfterMeta
  BY <1>13 DEF SendBlock, AtSelect, TypeOK
<1>14. ASSUME NEW i \in Instances, Started(i) PROVE EndsAfterMeta
  BY <1>14 DEF Started, TypeOK
<1>15. ASSUME NEW i \in Instances, StartAborted(i) PROVE EndsAfterMeta
  BY <1>15 DEF StartAborted, TypeOK
<1>16. ASSUME NEW i \in Instances, Take(i) PROVE EndsAfterMeta
  BY <1>16 DEF Take, TypeOK
<1>17. ASSUME NEW i \in Instances, SkipExpired(i) PROVE EndsAfterMeta
  BY <1>17 DEF SkipExpired, TypeOK
<1>18. ASSUME NEW i \in Instances, Begin(i) PROVE EndsAfterMeta
  BY <1>18 DEF Begin, TypeOK
<1>19. ASSUME NEW i \in Instances, NEW n \in 0 .. MaxResults, HandleRequest(i, n)
      PROVE  EndsAfterMeta
  BY <1>19 DEF HandleRequest, TypeOK
<1>20. ASSUME NEW i \in Instances, NEW n \in 1 .. MaxResults, Token(i, n)
      PROVE  EndsAfterMeta
  BY <1>20 DEF Token, TypeOK
<1>21. ASSUME NEW i \in Instances, EndToken(i) PROVE EndsAfterMeta
  BY <1>21 DEF EndToken, TypeOK
<1>22. ASSUME NEW i \in Instances, BackendError(i) PROVE EndsAfterMeta
  BY <1>22 DEF BackendError, TypeOK
<1>23. ASSUME NEW i \in Instances, Restarted(i) PROVE EndsAfterMeta
  BY <1>23 DEF Restarted, AfterRestart, TypeOK
<1>24. ASSUME NEW i \in Instances, StopServing(i) PROVE EndsAfterMeta
  BY <1>24 DEF StopServing, TypeOK
<1>25. CASE Signal
  BY <1>25 DEF Signal, TypeOK
<1>26. CASE UNCHANGED vars
  BY <1>26 DEF vars, reqVars, TypeOK
<1> QED
  BY <1>1, <1>2, <1>3, <1>4, <1>5, <1>6, <1>7, <1>8, <1>9, <1>10, <1>11, <1>12,
     <1>13, <1>14, <1>15, <1>16, <1>17, <1>18, <1>19, <1>20, <1>21, <1>22, <1>23, <1>24, <1>25, <1>26
     DEF Next, PostStep, HandlerStep, Expire, Cancel, LoopStep, SendStep, BackendStep

\* No step makes a linter that was heard one that was never asked, or one that
\* lost a finding one that was heard.
LEMMA HeardInvStep ==
    TypeInv /\ HeldInv /\ HeardInv /\ [Next]_vars => HeardInv'
<1> SUFFICES ASSUME TypeInv, HeldInv, HeardInv, [Next]_vars
             PROVE  HeardInv'
  OBVIOUS
<1>0. Moves /\ Monotone /\ LosesLate
  BY StepMoves, StepMonotone, StepLosesLate
<1>1. TypeOK /\ TypeOK' /\ LocalInv
  BY TypeOKStep DEF TypeInv
<1>2. /\ \A q \in Requests : Used(q) \subseteq Linters /\ Used(q)' = Used(q)
      /\ Linters \subseteq Int
      /\ \A i \in Instances : LinterOf[i] \in Linters
  BY DispatchAssumption DEF DispatchAssumption, Used, NumInstances, Linters
<1>3. \A q \in Requests : next[q] <= next'[q] /\ next[q] \in Int /\ next'[q] \in Int
  <2>1. \A q \in Requests : next[q] \in Int /\ next'[q] \in Int
    BY <1>1, DispatchAssumption DEF TypeOK, DispatchAssumption
  <2>2. CASE next' = next
    BY <2>1, <2>2
  <2>3. ASSUME NEW r \in Requests, Submit(r) \/ SkipLinter(r)
        PROVE  \A q \in Requests : next[q] <= next'[q]
    <3>1. next' = [next EXCEPT ![r] = @ + 1]
      BY <2>3 DEF Submit, SkipLinter, SubmitNext
    <3> QED BY <1>1, <2>1, <3>1 DEF TypeOK
  <2> QED BY <1>0, <2>1, <2>2, <2>3 DEF Moves, Keeps, Hears, Take, reqVars
<1>4. ASSUME NEW q \in Requests, NEW l \in ended'[q] \ ended[q]
      PROVE  l \in Outstanding(q) /\ ~ctxDone[q]
  <2>1. PICK i \in Instances : Hears(i)
    BY <1>0, <1>4 DEF Moves, Keeps, Take, reqVars, Submit, SkipLinter, histVars
  <2>2. cur[i] = q /\ LinterOf[i] = l
    BY <1>1, <1>4, <2>1 DEF Hears, TypeOK
  <2> QED BY <2>1, <2>2 DEF Hears, HeldInv, Busy, Sending
<1>5. ASSUME NEW q \in Requests, NEW l \in ended'[q]
      PROVE  l \in Used(q)' /\ l < next'[q]
  <2>1. l \in Used(q) /\ l < next[q]
    BY <1>4, <1>5 DEF HeardInv, Outstanding
  <2>2. l \in Int
    BY <1>2, <2>1
  <2> QED BY <1>2, <1>3, <2>1, <2>2
<1>6. ASSUME NEW q \in Requests, NEW l \in lost'[q]
      PROVE  ctxDone'[q] /\ l \in Used(q)' /\ l \notin ended'[q]
  <2>1. CASE l \in lost[q]
    BY <1>0, <1>2, <1>4, <2>1 DEF HeardInv, Monotone
  <2>2. CASE l \notin lost[q]
    <3>1. /\ ctxDone'[q] /\ ended' = ended
          /\ \E i \in Instances : Busy(i) /\ cur[i] = q /\ LinterOf[i] = l
      BY <1>0, <1>6, <2>2 DEF LosesLate
    <3>2. l \in Outstanding(q)
      BY <3>1 DEF HeldInv
    <3> QED BY <1>2, <3>1, <3>2 DEF Outstanding
  <2> QED BY <2>1, <2>2
<1> QED BY <1>5, <1>6 DEF HeardInv

LEMMA MetaInvStep ==
    TypeInv /\ MetaInv /\ [Next]_vars => MetaInv'
<1> SUFFICES ASSUME TypeInv, MetaInv, [Next]_vars
             PROVE  MetaInv'
  OBVIOUS
<1>0. Moves /\ Monotone /\ EndsAfterMeta
  BY StepMoves, StepMonotone, StepEndsAfterMeta
<1>1. TypeOK /\ TypeOK' /\ LocalInv /\ LocalInv'
  BY TypeOKStep, LocalInvStep DEF TypeInv
<1>2. \A q \in Requests : Used(q)' = Used(q)
  BY DEF Used, NumInstances
<1>3. ASSUME NEW q \in Requests, NEW l \in 1 .. next'[q] - 1
      PROVE  l \in Used(q)' \/ l \in metas'[q]
  <2>1. CASE l \in 1 .. next[q] - 1
    BY <1>0, <1>2, <2>1 DEF MetaInv, Monotone
  <2>2. CASE l \notin 1 .. next[q] - 1
    <3>1. Submit(q) \/ SkipLinter(q)
      <4>1. \/ next' = next
            \/ \E r \in Requests : Submit(r) \/ SkipLinter(r)
        BY <1>0 DEF Moves, Keeps, Hears, Take, reqVars
      <4>2. ASSUME NEW r \in Requests, r # q, Submit(r) \/ SkipLinter(r)
            PROVE  next'[q] = next[q]
        BY <1>1, <4>2 DEF Submit, SkipLinter, SubmitNext, TypeOK
      <4>3. next'[q] # next[q]
        BY <1>3, <2>2
      <4> QED BY <4>1, <4>2, <4>3
    <3>2. l = next[q] /\ metas'[q] \in SUBSET Linters
      BY <1>1, <1>3, <2>2, <3>1 DEF Submit, SkipLinter, SubmitNext, TypeOK
    <3> QED BY <1>1, <1>2, <3>1, <3>2 DEF Submit, SkipLinter, LinterAt, TypeOK
  <2> QED BY <2>1, <2>2
<1>4. ASSUME NEW q \in Requests PROVE ended'[q] \subseteq metas'[q]
  <2>1. ended[q] \subseteq metas'[q]
    BY <1>0 DEF MetaInv, Monotone
  <2>2. CASE ended' = ended
    BY <2>1, <2>2
  <2>3. ASSUME NEW i \in Instances, Hears(i) PROVE ended'[q] \subseteq metas'[q]
    <3>1. cur[i] \in Requests /\ LinterOf[i] \in metas[cur[i]]
      BY <1>1, <2>3 DEF Hears, MetaInv, LocalInv, LoopLocal, Busy, Sending
    <3>2. LinterOf[i] \in metas'[cur[i]]
      BY <1>0, <3>1 DEF Monotone
    <3> QED BY <1>1, <2>1, <2>3, <3>1, <3>2 DEF Hears, TypeOK
  <2> QED BY <1>0, <2>2, <2>3 DEF Moves, Keeps, Take, reqVars, Submit, SkipLinter, histVars
<1>5. ASSUME NEW i \in Instances, pc'[i] = "end", ~ctxDone'[cur'[i]]
      PROVE  LinterOf[i] \in metas'[cur'[i]]
  <2>1. CASE pc[i] = "end" /\ cur'[i] = cur[i]
    <3>1. cur[i] \in Requests
      BY <1>1, <2>1 DEF LocalInv, LoopLocal, Busy, Sending
    <3> QED BY <1>0, <1>5, <2>1, <3>1 DEF MetaInv, Monotone
  <2>2. CASE LinterOf[i] \in metas'[cur'[i]]
    BY <2>2
  <2> QED BY <1>0, <1>5, <2>1, <2>2 DEF EndsAfterMeta
<1> QED BY <1>3, <1>4, <1>5 DEF MetaInv

\* An answer that is complete stays so: nobody has the request any more.
LEMMA CompleteStays ==
    ASSUME TypeInv, HeldInv, HeardInv, [Next]_vars,
           NEW r \in Requests, Complete(r)
    PROVE  Complete(r)'
<1>0. Moves /\ Monotone /\ LosesLate /\ HeardInv'
  BY StepMoves, StepMonotone, StepLosesLate, HeardInvStep
<1>1. TypeOK /\ TypeOK' /\ LocalInv
  BY TypeOKStep DEF TypeInv
<1>2. Used(r)' = Used(r)
  BY DEF Used, NumInstances
<1>3. \A i \in Instances : Busy(i) => cur[i] # r
  BY DEF HeldInv, Complete, Outstanding
<1>4. ended'[r] = ended[r]
  BY <1>0, <1>1, <1>3 DEF Moves, Keeps, Hears, Take, reqVars, Submit, SkipLinter, histVars,
     Busy, Sending, TypeOK
<1>5. lost'[r] = {}
  BY <1>0, <1>3 DEF LosesLate, Complete
<1>6. metas'[r] = Linters
  BY <1>0, <1>1 DEF Monotone, Complete, TypeOK
<1> QED BY <1>2, <1>4, <1>5, <1>6 DEF Complete

\* How a step changes what is counted for a request.
Counting == {"submit", "collect", "waiting"}

Unmoved(q) ==
    /\ post[q] \in Counting
    /\ next'[q] = next[q] /\ nlresp'[q] = nlresp[q] /\ ended'[q] = ended[q]

Counts ==
    \A q \in Requests :
        post'[q] \in Counting =>
            \/ Unmoved(q)
            \/ /\ post[q] = "new"
               /\ next'[q] = next[q] /\ nlresp'[q] = nlresp[q] /\ ended'[q] = ended[q]
            \/ Submit(q)
            \/ SkipLinter(q)
            \/ \E i \in Instances : /\ Hears(i)
                                    /\ cur[i] = q
                                    /\ nlresp'[q] = nlresp[q] - 1
                                    /\ post[q] \in Counting

\* An end that is delivered, on either side's initiative, is counted.
LEMMA HeardWhenDelivered ==
    ASSUME TypeInv, NEW i \in Instances, pc[i] = "end",
           SendNow(i) \/ \E r \in Requests : CollectFrom(r, i)
    PROVE  Hears(i) /\ nlresp'[cur[i]] = nlresp[cur[i]] - 1
<1> USE DEF TypeInv, Busy, Sending
<1>1. Delivered(i) /\ cur[i] \in Requests
  BY DEF SendNow, CollectFrom, LocalInv, LoopLocal
<1>2. /\ ~Busy(i)'
      /\ \A j \in Instances : Busy(j)' => Busy(j) /\ cur'[j] = cur[j]
  BY <1>1 DEF TypeOK, Delivered, AfterSend
<1>3. /\ ended' = [ended EXCEPT ![cur[i]] = @ \cup {LinterOf[i]}]
      /\ nlresp'[cur[i]] = nlresp[cur[i]] - 1
      /\ UNCHANGED <<queue, next>>
  BY <1>1 DEF TypeOK, Delivered, Receive
<1>4. ~ctxDone[cur[i]]
  BY <1>1 DEF TypeOK, LocalInv, RequestLocal, LoopLocal, SendNow, AtSelect, CollectFrom
<1> QED BY <1>2, <1>3, <1>4 DEF Hears

LEMMA StepCounts == TypeInv /\ [Next]_vars => Counts
<1> SUFFICES ASSUME TypeInv, [Next]_vars PROVE Counts
  OBVIOUS
<1> USE DEF Counts, TypeInv, LocalInv, LoopLocal, RequestLocal, Busy, Sending, reqVars,
        instVars, histVars
<1>1. ASSUME NEW r \in Requests, Accept(r) PROVE Counts
  BY <1>1 DEF Unmoved, Counting, Accept, TypeOK
<1>2. ASSUME NEW r \in Requests, Submit(r) PROVE Counts
  <2>1. \A q \in Requests \ {r} : post'[q] \in Counting => Unmoved(q)
    BY <1>2 DEF Submit, SubmitNext, TypeOK, Unmoved, Counting
  <2> QED BY <1>2, <2>1
<1>3. ASSUME NEW r \in Requests, SkipLinter(r) PROVE Counts
  <2>1. \A q \in Requests \ {r} : post'[q] \in Counting => Unmoved(q)
    BY <1>3 DEF SkipLinter, SubmitNext, TypeOK, Unmoved, Counting
  <2> QED BY <1>3, <2>1
<1>4. ASSUME NEW r \in Requests, CollectWait(r) PROVE Counts
  BY <1>4 DEF Unmoved, Counting, CollectWait, TypeOK
<1>5. ASSUME NEW r \in Requests, CollectAbandon(r) PROVE Counts
  BY <1>5 DEF Unmoved, Counting, CollectAbandon, TypeOK
<1>6. ASSUME NEW r \in Requests, CollectDone(r) PROVE Counts
  BY <1>6 DEF Unmoved, Counting, CollectDone, TypeOK
<1>7. ASSUME NEW r \in Requests, NEW i \in Instances, CollectFrom(r, i) PROVE Counts
  <2>1. \A q \in Requests \ {cur[i]} : post'[q] \in Counting => Unmoved(q)
    BY <1>7 DEF CollectFrom, Delivered, Receive, TypeOK, Unmoved, Counting
  <2>2. CASE pc[i] # "end"
    BY <1>7, <2>1, <2>2 DEF CollectFrom, Delivered, Receive, TypeOK, Unmoved, Counting
  <2>3. CASE pc[i] = "end"
    <3>1. /\ Hears(i)
          /\ nlresp'[cur[i]] = nlresp[cur[i]] - 1
          /\ post[cur[i]] \in Counting
      BY <1>7, <2>3, HeardWhenDelivered DEF CollectFrom, Delivered, Receive, TypeOK, Counting
    <3> QED BY <2>1, <3>1
  <2> QED BY <2>2, <2>3
<1>8. ASSUME NEW r \in Requests, Respond(r) PROVE Counts
  BY <1>8 DEF Unmoved, Counting, Respond, TypeOK
<1>9. ASSUME NEW r \in Requests, HandlerSelect(r) PROVE Counts
  BY <1>9 DEF Unmoved, Counting, HandlerSelect, TypeOK
<1>10. ASSUME NEW r \in Requests, CloseCtx(r), handler[r] # "new" PROVE Counts
  BY <1>10 DEF Unmoved, Counting, CloseCtx, TypeOK
<1>11. ASSUME NEW i \in Instances, SendNow(i) PROVE Counts
  <2>1. \A q \in Requests \ {cur[i]} : post'[q] \in Counting => Unmoved(q)
    BY <1>11 DEF SendNow, AtSelect, Delivered, Receive, TypeOK, Unmoved, Counting
  <2>2. CASE pc[i] # "end"
    BY <1>11, <2>1, <2>2 DEF SendNow, AtSelect, Delivered, Receive, TypeOK, Unmoved, Counting
  <2>3. CASE pc[i] = "end"
    <3>1. /\ Hears(i)
          /\ nlresp'[cur[i]] = nlresp[cur[i]] - 1
          /\ post[cur[i]] \in Counting
      BY <1>11, <2>3, HeardWhenDelivered DEF SendNow, AtSelect, Delivered, Receive, TypeOK, Counting
    <3> QED BY <2>1, <3>1
  <2> QED BY <2>2, <2>3
<1>12. ASSUME NEW i \in Instances, SendDropped(i) PROVE Counts
  BY <1>12 DEF Unmoved, Counting, SendDropped, TypeOK
<1>13. ASSUME NEW i \in Instances, SendBlock(i) PROVE Counts
  BY <1>13 DEF Unmoved, Counting, SendBlock, TypeOK
<1>14. ASSUME NEW i \in Instances, Started(i) PROVE Counts
  BY <1>14 DEF Unmoved, Counting, Started, TypeOK
<1>15. ASSUME NEW i \in Instances, StartAborted(i) PROVE Counts
  BY <1>15 DEF Unmoved, Counting, StartAborted, TypeOK
<1>16. ASSUME NEW i \in Instances, Take(i) PROVE Counts
  BY <1>16 DEF Unmoved, Counting, Take, TypeOK
<1>17. ASSUME NEW i \in Instances, SkipExpired(i) PROVE Counts
  BY <1>17 DEF Unmoved, Counting, SkipExpired, TypeOK
<1>18. ASSUME NEW i \in Instances, Begin(i) PROVE Counts
  BY <1>18 DEF Unmoved, Counting, Begin, TypeOK
<1>19. ASSUME NEW i \in Instances, NEW n \in 0 .. MaxResults, HandleRequest(i, n)
      PROVE  Counts
  BY <1>19 DEF Unmoved, Counting, HandleRequest, TypeOK
<1>20. ASSUME NEW i \in Instances, NEW n \in 1 .. MaxResults, Token(i, n) PROVE Counts
  BY <1>20 DEF Unmoved, Counting, Token, TypeOK
<1>21. ASSUME NEW i \in Instances, EndToken(i) PROVE Counts
  BY <1>21 DEF Unmoved, Counting, EndToken, TypeOK
<1>22. ASSUME NEW i \in Instances, BackendError(i) PROVE Counts
  BY <1>22 DEF Unmoved, Counting, BackendError, TypeOK
<1>23. ASSUME NEW i \in Instances, Restarted(i) PROVE Counts
  BY <1>23 DEF Unmoved, Counting, Restarted, TypeOK
<1>24. ASSUME NEW i \in Instances, StopServing(i) PROVE Counts
  BY <1>24 DEF Unmoved, Counting, StopServing, TypeOK
<1>25. CASE Signal
  BY <1>25 DEF Unmoved, Counting, Signal, TypeOK
<1>26. CASE UNCHANGED vars
  BY <1>26 DEF Unmoved, Counting, vars, reqVars, TypeOK
<1> QED
  BY <1>1, <1>2, <1>3, <1>4, <1>5, <1>6, <1>7, <1>8, <1>9, <1>10, <1>11, <1>12,
     <1>13, <1>14, <1>15, <1>16, <1>17, <1>18, <1>19, <1>20, <1>21, <1>22, <1>23, <1>24, <1>25, <1>26
     DEF Next, PostStep, HandlerStep, Expire, Cancel, LoopStep, SendStep, BackendStep

LEMMA OutstandingFinite ==
    ASSUME NEW q \in Requests
    PROVE  IsFiniteSet(Outstanding(q)) /\ Cardinality(Outstanding(q)) \in Nat
<1>1. Used(q) \subseteq Linters /\ IsFiniteSet(Linters)
  BY DispatchAssumption, FS_Interval DEF DispatchAssumption, Used, Linters
<1> QED BY <1>1, FS_Subset, FS_CardinalityType DEF Outstanding

\* The count and the set of linters it stands for change together.
LEMMA CountStep ==
    TypeInv /\ HeldInv /\ HeardInv /\ CountMatches /\ [Next]_vars => CountMatches'
<1> SUFFICES ASSUME TypeInv, HeldInv, HeardInv, CountMatches, [Next]_vars,
                    NEW q \in Requests, post'[q] \in Counting
             PROVE  nlresp'[q] = Cardinality(Outstanding(q)')
  BY DEF CountMatches, Counting
<1>0. TypeOK /\ TypeOK' /\ LocalInv
  BY TypeOKStep DEF TypeInv
<1>1. /\ Used(q) \subseteq Linters /\ Used(q)' = Used(q)
      /\ IsFiniteSet(Linters) /\ Linters = 1 .. NLinters /\ NLinters \in Nat
      /\ Linters \subseteq Int
  BY DispatchAssumption, FS_Interval DEF DispatchAssumption, Used, NumInstances, Linters
<1>2. IsFiniteSet(Outstanding(q)) /\ Cardinality(Outstanding(q)) \in Nat
  BY <1>1, FS_Subset, FS_CardinalityType DEF Outstanding
<1>3. post[q] \in Counting => nlresp[q] = Cardinality(Outstanding(q))
  BY DEF CountMatches, Counting
<1>4. next[q] \in Int /\ \A l \in ended[q] : l < next[q]
  BY <1>0, <1>1 DEF TypeOK, HeardInv
<1>5. CASE Unmoved(q)
  <2>1. Outstanding(q)' = Outstanding(q)
    BY <1>1, <1>5 DEF Unmoved, Outstanding
  <2> QED BY <1>3, <1>5, <2>1 DEF Unmoved
<1>6. CASE /\ post[q] = "new"
           /\ next'[q] = next[q] /\ nlresp'[q] = nlresp[q] /\ ended'[q] = ended[q]
  <2>1. nlresp[q] = 0 /\ next[q] = 1
    BY <1>0, <1>6 DEF LocalInv, RequestLocal
  <2>2. Outstanding(q)' = {}
    BY <1>1, <1>6, <2>1 DEF Outstanding
  <2> QED BY <1>6, <2>1, <2>2, FS_EmptySet
<1>7. CASE Submit(q)
  <2>1. /\ next[q] \in Used(q) /\ next'[q] = next[q] + 1
        /\ nlresp'[q] = nlresp[q] + 1 /\ ended' = ended /\ post[q] \in Counting
    BY <1>0, <1>7 DEF Submit, SubmitNext, LinterAt, TypeOK, histVars, Counting
  <2>2. next[q] \notin ended[q]
    BY <1>4
  <2>3. \A l \in Used(q) : l < next'[q] <=> l < next[q] \/ l = next[q]
    BY <1>1, <1>4, <2>1
  <2>4. Outstanding(q)' = Outstanding(q) \cup {next[q]} /\ next[q] \notin Outstanding(q)
    BY <1>1, <1>4, <2>1, <2>2, <2>3 DEF Outstanding
  <2>5. Cardinality(Outstanding(q)') = Cardinality(Outstanding(q)) + 1
    BY <1>2, <2>4, FS_AddElement
  <2> QED BY <1>3, <2>1, <2>5
<1>8. CASE SkipLinter(q)
  <2>1. /\ next[q] \notin Used(q) /\ next'[q] = next[q] + 1
        /\ nlresp' = nlresp /\ ended' = ended /\ post[q] \in Counting
    BY <1>0, <1>8 DEF SkipLinter, SubmitNext, LinterAt, TypeOK, histVars, Counting
  <2>2. \A l \in Used(q) : l < next'[q] <=> l < next[q]
    BY <1>1, <1>4, <2>1
  <2>3. Outstanding(q)' = Outstanding(q)
    BY <1>1, <2>1, <2>2 DEF Outstanding
  <2> QED BY <1>3, <2>1, <2>3
<1>9. ASSUME NEW i \in Instances, Hears(i), cur[i] = q, nlresp'[q] = nlresp[q] - 1,
             post[q] \in Counting
      PROVE  nlresp'[q] = Cardinality(Outstanding(q)')
  <2>1. LinterOf[i] \in Outstanding(q)
    BY <1>9 DEF Hears, HeldInv, Busy, Sending
  <2>2. next' = next /\ ended'[q] = ended[q] \cup {LinterOf[i]}
    BY <1>0, <1>9 DEF Hears, TypeOK
  <2>3. Outstanding(q)' = Outstanding(q) \ {LinterOf[i]}
    BY <1>1, <2>2 DEF Outstanding
  <2>4. Cardinality(Outstanding(q)') = Cardinality(Outstanding(q)) - 1
    BY <1>2, <2>1, <2>3, FS_RemoveElement
  <2> QED BY <1>3, <1>9, <2>4
<1> QED
  BY StepCounts, <1>5, <1>6, <1>7, <1>8, <1>9 DEF Counts

\* An answer that no deadline cut short is given when the collect loop is done.
AnswersWhenDone ==
    \A q \in Requests :
        post'[q] \in {"respond", "done"} /\ ~abandoned'[q] =>
            \/ post[q] \in {"respond", "done"} /\ ~abandoned[q]
            \/ CollectDone(q)

LEMMA StepAnswers == TypeInv /\ [Next]_vars => AnswersWhenDone
<1> SUFFICES ASSUME TypeInv, [Next]_vars PROVE AnswersWhenDone
  OBVIOUS
<1> USE DEF AnswersWhenDone, TypeInv, LocalInv, LoopLocal, RequestLocal, reqVars,
        instVars, histVars
<1>1. ASSUME NEW r \in Requests, Accept(r) PROVE AnswersWhenDone
  BY <1>1 DEF Accept, TypeOK
<1>2. ASSUME NEW r \in Requests, Submit(r) PROVE AnswersWhenDone
  BY <1>2 DEF Submit, SubmitNext, LinterAt, Used, TypeOK
<1>3. ASSUME NEW r \in Requests, SkipLinter(r) PROVE AnswersWhenDone
  BY <1>3 DEF SkipLinter, SubmitNext, LinterAt, TypeOK
<1>4. ASSUME NEW r \in Requests, CollectWait(r) PROVE AnswersWhenDone
  BY <1>4 DEF CollectWait, NothingReady, TypeOK
<1>5. ASSUME NEW r \in Requests, CollectAbandon(r) PROVE AnswersWhenDone
  BY <1>5 DEF CollectAbandon, GivesUpWaiting, TypeOK
<1>6. ASSUME NEW r \in Requests, CollectDone(r) PROVE AnswersWhenDone
  BY <1>6 DEF CollectDone, TypeOK
<1>7. ASSUME NEW r \in Requests, NEW i \in Instances, CollectFrom(r, i)
      PROVE  AnswersWhenDone
  BY <1>7 DEF CollectFrom, Delivered, TypeOK
<1>8. ASSUME NEW r \in Requests, Respond(r) PROVE AnswersWhenDone
  BY <1>8 DEF Respond, TypeOK
<1>9. ASSUME NEW r \in Requests, HandlerSelect(r) PROVE AnswersWhenDone
  BY <1>9 DEF HandlerSelect, TypeOK
<1>10. ASSUME NEW r \in Requests, CloseCtx(r), handler[r] # "new" PROVE AnswersWhenDone
  BY <1>10 DEF CloseCtx, TypeOK
<1>11. ASSUME NEW i \in Instances, SendNow(i) PROVE AnswersWhenDone
  BY <1>11 DEF SendNow, AtSelect, Delivered, TypeOK
<1>12. ASSUME NEW i \in Instances, SendDropped(i) PROVE AnswersWhenDone
  BY <1>12 DEF SendDropped, AtSelect, TypeOK
<1>13. ASSUME NEW i \in Instances, SendBlock(i) PROVE AnswersWhenDone
  BY <1>13 DEF SendBlock, AtSelect, TypeOK
<1>14. ASSUME NEW i \in Instances, Started(i) PROVE AnswersWhenDone
  BY <1>14 DEF Started, TypeOK
<1>15. ASSUME NEW i \in Instances, StartAborted(i) PROVE AnswersWhenDone
  BY <1>15 DEF StartAborted, TypeOK
<1>16. ASSUME NEW i \in Instances, Take(i) PROVE AnswersWhenDone
  BY <1>16 DEF Take, TypeOK
<1>17. ASSUME NEW i \in Instances, SkipExpired(i) PROVE AnswersWhenDone
  BY <1>17 DEF SkipExpired, TypeOK
<1>18. ASSUME NEW i \in Instances, Begin(i) PROVE AnswersWhenDone
  BY <1>18 DEF Begin, TypeOK
<1>19. ASSUME NEW i \in Instances, NEW n \in 0 .. MaxResults, HandleRequest(i, n)
      PROVE  AnswersWhenDone
  BY <1>19 DEF HandleRequest, TypeOK
<1>20. ASSUME NEW i \in Instances, NEW n \in 1 .. MaxResults, Token(i, n)
      PROVE  AnswersWhenDone
  BY <1>20 DEF Token, TypeOK
<1>21. ASSUME NEW i \in Instances, EndToken(i) PROVE AnswersWhenDone
  BY <1>21 DEF EndToken, TypeOK
<1>22. ASSUME NEW i \in Instances, BackendError(i) PROVE AnswersWhenDone
  BY <1>22 DEF BackendError, TypeOK
<1>23. ASSUME NEW i \in Instances, Restarted(i) PROVE AnswersWhenDone
  BY <1>23 DEF Restarted, TypeOK
<1>24. ASSUME NEW i \in Instances, StopServing(i) PROVE AnswersWhenDone
  BY <1>24 DEF StopServing, TypeOK
<1>25. CASE Signal
  BY <1>25 DEF Signal, TypeOK
<1>26. CASE UNCHANGED vars
  BY <1>26 DEF vars, reqVars, TypeOK
<1> QED
  BY <1>1, <1>2, <1>3, <1>4, <1>5, <1>6, <1>7, <1>8, <1>9, <1>10, <1>11, <1>12,
     <1>13, <1>14, <1>15, <1>16, <1>17, <1>18, <1>19, <1>20, <1>21, <1>22, <1>23, <1>24, <1>25, <1>26
     DEF Next, PostStep, HandlerStep, Expire, Cancel, LoopStep, SendStep, BackendStep

LEMMA AnswersStep ==
    TypeInv /\ HeldInv /\ HeardInv /\ MetaInv /\ CountMatches /\ AnswersComplete
        /\ [Next]_vars => AnswersComplete'
<1> SUFFICES ASSUME TypeInv, HeldInv, HeardInv, MetaInv, CountMatches, AnswersComplete,
                    [Next]_vars, NEW q \in Requests,
                    post'[q] \in {"respond", "done"}, ~abandoned'[q]
             PROVE  Complete(q)'
  BY DEF AnswersComplete
<1>1. CASE post[q] \in {"respond", "done"} /\ ~abandoned[q]
  BY <1>1, CompleteStays DEF AnswersComplete
<1>2. CASE CollectDone(q)
  <2>1. nlresp[q] = 0 /\ post[q] = "collect" /\ next[q] = NLinters + 1
    BY <1>2 DEF CollectDone, AllHeard, TypeInv, LocalInv, RequestLocal
  <2>2. Outstanding(q) = {}
    BY <2>1, OutstandingFinite, FS_EmptySet DEF CountMatches
  <2>3. /\ Used(q) \subseteq Linters /\ Linters = 1 .. NLinters /\ NLinters \in Nat
    BY DispatchAssumption DEF DispatchAssumption, Used, Linters
  <2>4. ended[q] = Used(q)
    <3>1. \A l \in Used(q) : l < next[q]
      BY <2>1, <2>3
    <3>2. Used(q) \subseteq ended[q]
      BY <2>2, <3>1 DEF Outstanding
    <3>3. ended[q] \subseteq Used(q)
      BY DEF HeardInv
    <3> QED BY <3>2, <3>3
  <2>5. lost[q] = {}
    BY <2>4 DEF HeardInv
  <2>6. metas[q] = Linters
    <3>1. Linters = 1 .. next[q] - 1
      BY <2>1, <2>3
    <3>2. metas[q] \subseteq Linters
      BY DEF TypeInv, TypeOK
    <3>3. \A l \in Linters : l \in metas[q]
      BY <2>4, <3>1 DEF MetaInv
    <3> QED BY <3>2, <3>3
  <2> QED BY <2>4, <2>5, <2>6, CompleteStays DEF Complete
<1> QED BY <1>1, <1>2, StepAnswers DEF AnswersWhenDone

\* A goroutine that a server loop waits for leaves its loops only when all ends
\* are counted.
BlocksOnWaited ==
    \A j \in Instances :
        blocked'[j] =>
            \/ SendBlock(j)
            \/ /\ blocked[j] /\ cur'[j] = cur[j]
               /\ post[cur[j]] \in {"submit", "collect"} =>
                      post'[cur[j]] \in {"submit", "collect"} \/ CollectDone(cur[j])

LEMMA StepBlocks == TypeInv /\ [Next]_vars => BlocksOnWaited
<1> SUFFICES ASSUME TypeInv, [Next]_vars PROVE BlocksOnWaited
  OBVIOUS
<1> USE DEF BlocksOnWaited, TypeInv, LocalInv, LoopLocal, RequestLocal, Busy, Sending,
        reqVars, instVars, histVars
<1>1. ASSUME NEW r \in Requests, Accept(r) PROVE BlocksOnWaited
  BY <1>1 DEF Accept, TypeOK
<1>2. ASSUME NEW r \in Requests, Submit(r) PROVE BlocksOnWaited
  BY <1>2 DEF Submit, SubmitNext, LinterAt, Used, TypeOK
<1>3. ASSUME NEW r \in Requests, SkipLinter(r) PROVE BlocksOnWaited
  BY <1>3 DEF SkipLinter, SubmitNext, LinterAt, TypeOK
<1>4. ASSUME NEW r \in Requests, CollectWait(r) PROVE BlocksOnWaited
  BY <1>4 DEF CollectWait, NothingReady, TypeOK
<1>5. ASSUME NEW r \in Requests, CollectAbandon(r) PROVE BlocksOnWaited
  <2>1. UNCHANGED <<cur, blocked>> /\ \A s \in Requests : s # r => post'[s] = post[s]
    BY <1>5 DEF CollectAbandon, TypeOK
  <2>2. ASSUME NEW j \in Instances, blocked[j] PROVE cur[j] \in Requests /\ cur[j] # r
    BY <1>5, <2>2 DEF CollectAbandon, GivesUpWaiting
  <2> QED BY <2>1, <2>2
<1>6. ASSUME NEW r \in Requests, CollectDone(r) PROVE BlocksOnWaited
  <2>1. UNCHANGED <<cur, blocked>> /\ \A s \in Requests : s # r => post'[s] = post[s]
    BY <1>6 DEF CollectDone, TypeOK
  <2>2. ASSUME NEW j \in Instances, blocked[j] PROVE cur[j] \in Requests
    BY <2>2
  <2> QED BY <1>6, <2>1, <2>2
<1>7. ASSUME NEW r \in Requests, NEW i \in Instances, CollectFrom(r, i)
      PROVE  BlocksOnWaited
  BY <1>7 DEF CollectFrom, Delivered, TypeOK
<1>8. ASSUME NEW r \in Requests, Respond(r) PROVE BlocksOnWaited
  BY <1>8 DEF Respond, TypeOK
<1>9. ASSUME NEW r \in Requests, HandlerSelect(r) PROVE BlocksOnWaited
  BY <1>9 DEF HandlerSelect, TypeOK
<1>10. ASSUME NEW r \in Requests, CloseCtx(r), handler[r] # "new" PROVE BlocksOnWaited
  BY <1>10 DEF CloseCtx, TypeOK
<1>11. ASSUME NEW i \in Instances, SendNow(i) PROVE BlocksOnWaited
  BY <1>11 DEF SendNow, AtSelect, Delivered, TypeOK
<1>12. ASSUME NEW i \in Instances, SendDropped(i) PROVE BlocksOnWaited
  BY <1>12 DEF SendDropped, AtSelect, TypeOK
<1>13. ASSUME NEW i \in Instances, SendBlock(i) PROVE BlocksOnWaited
  BY <1>13 DEF SendBlock, AtSelect, TypeOK
<1>14. ASSUME NEW i \in Instances, Started(i) PROVE BlocksOnWaited
  BY <1>14 DEF Started, TypeOK
<1>15. ASSUME NEW i \in Instances, StartAborted(i) PROVE BlocksOnWaited
  BY <1>15 DEF StartAborted, TypeOK
<1>16. ASSUME NEW i \in Instances, Take(i) PROVE BlocksOnWaited
  BY <1>16 DEF Take, TypeOK
<1>17. ASSUME NEW i \in Instances, SkipExpired(i) PROVE BlocksOnWaited
  BY <1>17 DEF SkipExpired, TypeOK
<1>18. ASSUME NEW i \in Instances, Begin(i) PROVE BlocksOnWaited
  BY <1>18 DEF Begin, TypeOK
<1>19. ASSUME NEW i \in Instances, NEW n \in 0 .. MaxResults, HandleRequest(i, n)
      PROVE  BlocksOnWaited
  BY <1>19 DEF HandleRequest, TypeOK
<1>20. ASSUME NEW i \in Instances, NEW n \in 1 .. MaxResults, Token(i, n)
      PROVE  BlocksOnWaited
  BY <1>20 DEF Token, TypeOK
<1>21. ASSUME NEW i \in Instances, EndToken(i) PROVE BlocksOnWaited
  BY <1>21 DEF EndToken, TypeOK
<1>22. ASSUME NEW i \in Instances, BackendError(i) PROVE BlocksOnWaited
  BY <1>22 DEF BackendError, TypeOK
<1>23. ASSUME NEW i \in Instances, Restarted(i) PROVE BlocksOnWaited
  BY <1>23 DEF Restarted, TypeOK
<1>24. ASSUME NEW i \in Instances, StopServing(i) PROVE BlocksOnWaited
  BY <1>24 DEF StopServing, TypeOK
<1>25. CASE Signal
  BY <1>25 DEF Signal, TypeOK
<1>26. CASE UNCHANGED vars
  BY <1>26 DEF vars, reqVars, TypeOK
<1> QED
  BY <1>1, <1>2, <1>3, <1>4, <1>5, <1>6, <1>7, <1>8, <1>9, <1>10, <1>11, <1>12,
     <1>13, <1>14, <1>15, <1>16, <1>17, <1>18, <1>19, <1>20, <1>21, <1>22, <1>23, <1>24, <1>25, <1>26
     DEF Next, PostStep, HandlerStep, Expire, Cancel, LoopStep, SendStep, BackendStep

LEMMA BlockedStep ==
    TypeInv /\ HeldInv /\ CountMatches /\ AnswersComplete /\ BlockedOnLiveRequest
        /\ [Next]_vars => BlockedOnLiveRequest'
<1> SUFFICES ASSUME TypeInv, HeldInv, CountMatches, AnswersComplete,
                    BlockedOnLiveRequest, [Next]_vars,
                    NEW i \in Instances, blocked'[i]
             PROVE  ~ctxDone'[cur'[i]] /\ post'[cur'[i]] \in {"submit", "collect"}
  BY DEF BlockedOnLiveRequest
<1>1. ~ctxDone'[cur'[i]]
  BY LocalInvStep DEF LocalInv, LoopLocal
<1>2. CASE SendBlock(i)
  <2>1. /\ cur[i] \in Requests /\ post[cur[i]] \in PostStates
        /\ post[cur[i]] # "waiting" /\ ~ctxDone[cur[i]]
        /\ post' = post /\ cur' = cur
        /\ LinterOf[i] \in Outstanding(cur[i])
    BY <1>2 DEF SendBlock, AtSelect, NoCaseReady, HeldInv, Busy, TypeInv, TypeOK, LocalInv,
       LoopLocal, reqVars
  <2>2. post[cur[i]] # "new"
    <3>1. LinterOf[i] < next[cur[i]] /\ LinterOf[i] \in 1 .. NLinters /\ NLinters \in Nat
      BY <2>1, DispatchAssumption DEF Outstanding, DispatchAssumption, Linters
    <3> QED BY <2>1, <3>1 DEF TypeInv, LocalInv, RequestLocal
  <2>3. post[cur[i]] \notin {"respond", "done"}
    BY <2>1 DEF AnswersComplete, Complete, Outstanding, TypeInv, LocalInv, RequestLocal
  <2> QED BY <1>1, <2>1, <2>2, <2>3 DEF PostStates
<1>3. ASSUME blocked[i], cur'[i] = cur[i],
             post[cur[i]] \in {"submit", "collect"} =>
                 post'[cur[i]] \in {"submit", "collect"} \/ CollectDone(cur[i])
      PROVE  post'[cur'[i]] \in {"submit", "collect"}
  <2>1. Busy(i) /\ cur[i] \in Requests
    BY <1>3 DEF Busy, TypeInv, LocalInv, LoopLocal
  <2>2. LinterOf[i] \in Outstanding(cur[i])
    BY <2>1 DEF HeldInv
  <2>3. ~CollectDone(cur[i])
    <3>1. SUFFICES ASSUME CollectDone(cur[i]) PROVE FALSE
      OBVIOUS
    <3>2. Outstanding(cur[i]) = {}
      BY <2>1, <3>1, OutstandingFinite, FS_EmptySet DEF CollectDone, AllHeard, CountMatches
    <3> QED BY <2>2, <3>2
  <2> QED BY <1>3, <2>3 DEF BlockedOnLiveRequest
<1> QED BY <1>1, <1>2, <1>3, StepBlocks DEF BlocksOnWaited

-----------------------------------------------------------------------------
(* The theorems.                                                           *)

LEMMA IInvInit == Init => IInv
<1> SUFFICES ASSUME Init PROVE IInv
  OBVIOUS
<1>1. TypeInv
  BY TypeInvInit
<1>2. QueueInv
  BY DEF Init, QueueInv
<1>3. HeldInv
  BY DEF Init, HeldInv, Busy, Sending
<1>4. HeardInv
  BY DEF Init, HeardInv
<1>5. MetaInv
  BY DEF Init, MetaInv
<1>6. CountMatches /\ AnswersComplete /\ BlockedOnLiveRequest
  BY DEF Init, CountMatches, AnswersComplete, BlockedOnLiveRequest
<1> QED BY <1>1, <1>2, <1>3, <1>4, <1>5, <1>6 DEF IInv

LEMMA IInvStep == IInv /\ [Next]_vars => IInv'
BY TypeOKStep, LocalInvStep, PlaceStep, HeardInvStep, MetaInvStep, CountStep, AnswersStep,
   BlockedStep DEF IInv, TypeInv

LEMMA IInvHolds == Spec => []IInv
BY IInvInit, IInvStep, PTL DEF Spec

\* The number a POST goroutine counts down (post.go:119) is, at any moment of its
\* loops, the number of linters that have yet to report the end of their results.
THEOREM CountsEnds == Spec => []CountMatches
<1>1. IInv => CountMatches
  BY DEF IInv
<1> QED BY IInvHolds, <1>1, PTL

\* A response that is written before the deadline holds everything that every
\* linter found and a META result of every linter (post.go:113-123).
THEOREM NothingMissing == Spec => []AnswersComplete
<1>1. IInv => AnswersComplete
  BY DEF IInv
<1> QED BY IInvHolds, <1>1, PTL

\* A server loop blocked in sendResult (linter.go:279) is never left alone: its
\* request is open and the goroutine will come to receive.
THEOREM NeverBlockedForNobody == Spec => []BlockedOnLiveRequest
<1>1. IInv => BlockedOnLiveRequest
  BY DEF IInv
<1> QED BY IInvHolds, <1>1, PTL

\* Server loops and submitting goroutines never wait for each other in a circle,
\* because every goroutine visits the linters in one order (post.go:101).
THEOREM WaitsAreAcyclic == Spec => []NoCyclicWait
<1>1. IInv => NoCyclicWait
  BY DispatchAssumption
     DEF IInv, TypeInv, TypeOK, LocalInv, LoopLocal, HeldInv, Busy, Outstanding,
         NoCyclicWait, LinterAt, DispatchAssumption, Linters
<1> QED BY IInvHolds, <1>1, PTL

\* Nothing is added to a response once its deadline has passed and it is being
\* written, or was: results that come late are dropped by their senders.
THEOREM NoLateResults == Spec => NothingAfterDone
<1> DEFINE Quiet == \A r \in Requests :
                       ctxDone[r] /\ post[r] # "submit"
                           => ended'[r] = ended[r] /\ metas'[r] = metas[r]
<1>1. ASSUME IInv, [Next]_vars PROVE [Quiet]_vars
  <2> SUFFICES ASSUME NEW q \in Requests, ctxDone[q], post[q] # "submit"
               PROVE  ended'[q] = ended[q] /\ metas'[q] = metas[q]
    OBVIOUS
  <2>1. TypeOK /\ LocalInv
    BY <1>1 DEF IInv, TypeInv
  <2>2. ASSUME NEW i \in Instances,
               SendNow(i) \/ \E r \in Requests : CollectFrom(r, i)
        PROVE  ended'[q] = ended[q] /\ metas'[q] = metas[q]
    <3>1. Delivered(i) /\ cur[i] # q
      BY <2>1, <2>2 DEF LocalInv, RequestLocal, LoopLocal, SendNow, CollectFrom
    <3> QED BY <2>1, <3>1 DEF Delivered, Receive, TypeOK
  <2>3. ASSUME NEW r \in Requests, SkipLinter(r)
        PROVE  ended'[q] = ended[q] /\ metas'[q] = metas[q]
    BY <2>1, <2>3 DEF SkipLinter, histVars, TypeOK
  <2>4. CASE UNCHANGED <<ended, metas>>
    BY <2>4
  <2>5. \/ UNCHANGED <<ended, metas>>
        \/ \E i \in Instances : SendNow(i) \/ \E r \in Requests : CollectFrom(r, i)
        \/ \E r \in Requests : SkipLinter(r)
    BY <1>1, ZenonT(60)
       DEF Next, PostStep, HandlerStep, Expire, Cancel, LoopStep, SendStep, BackendStep, vars,
           reqVars, instVars, histVars, Accept, Submit, CollectWait, CollectAbandon,
           CollectDone, Respond, HandlerSelect, CloseCtx, SendDropped, SendBlock, Started,
           StartAborted, Take, SkipExpired, Begin, HandleRequest, Token, EndToken,
           BackendError, Restarted, StopServing, Signal
  <2> QED BY <2>2, <2>3, <2>4, <2>5
<1> QED BY IInvHolds, <1>1, PTL DEF Spec, NothingAfterDone

-----------------------------------------------------------------------------
(* Dispatch implements LintService.                                        *)

\* A linter that a request is owed finds the handler of the request open.
LEMMA OpenWhileOwed ==
    ASSUME IInv, NEW r \in Requests, ~ctxDone[r], Outstanding(r) # {}
    PROVE  handler[r] \in {"enter", "waiting"}
<1> USE DEF IInv, TypeInv, LocalInv
<1>1. handler[r] \in HandlerStates
  BY DEF TypeOK
<1>2. post[r] # "new"
  <2>1. ASSUME NEW l \in Outstanding(r) PROVE l \in 1 .. NLinters /\ l < next[r]
    BY DispatchAssumption DEF Outstanding, Used, DispatchAssumption, Linters
  <2>2. next[r] = 1 => Outstanding(r) = {}
    BY <2>1, DispatchAssumption DEF DispatchAssumption
  <2> QED BY <2>2 DEF RequestLocal
<1>3. post[r] # "done"
  BY DEF AnswersComplete, Complete, Outstanding, RequestLocal
<1> QED BY <1>1, <1>2, <1>3 DEF RequestLocal, HandlerStates

\* A goroutine that has its answer heard every linter, or the deadline passed.
LEMMA AnswerJustified ==
    ASSUME IInv, NEW r \in Requests, post[r] \in {"respond", "done"}
    PROVE  ended[r] = Used(r) \/ ctxDone[r]
BY DEF IInv, TypeInv, LocalInv, RequestLocal, AnswersComplete, Complete

\* A step of Dispatch is a step of LintService or leaves its variables alone.
LEMMA ServiceStep ==
    IInv /\ [Next]_vars => [Service!Next]_(Service!serviceVars)
<1> SUFFICES ASSUME IInv, [Next]_vars
             PROVE  [Service!Next]_(Service!serviceVars)
  OBVIOUS
<1> DEFINE Status == [r \in Requests |->
                         IF handler[r] \in {"enter", "waiting"} THEN "open"
                         ELSE handler[r]]
<1>0. TypeOK /\ Moves
  BY StepMoves DEF IInv, TypeInv
<1>1. ASSUME UNCHANGED <<handler, ended, ctxDone>>
      PROVE  [Service!Next]_(Service!serviceVars)
  BY <1>1 DEF Service!serviceVars
<1>2. ASSUME NEW r \in Requests, Accept(r)
      PROVE  [Service!Next]_(Service!serviceVars)
  <2>1. Service!Open(r)
    BY <1>0, <1>2 DEF Service!Open, Accept, reqVars, histVars, TypeOK
  <2> QED BY <2>1 DEF Service!Next
<1>3. ASSUME NEW r \in Requests, CloseCtx(r), handler[r] # "new", ~ctxDone[r]
      PROVE  [Service!Next]_(Service!serviceVars)
  <2>1. /\ handler' = [handler EXCEPT ![r] = TimesOut(@)]
        /\ ctxDone' = [ctxDone EXCEPT ![r] = TRUE]
        /\ ended' = ended
    BY <1>3 DEF CloseCtx
  <2>2. CASE handler[r] = "waiting"
    <3>1. handler' = [handler EXCEPT ![r] = "timeout"]
      BY <1>0, <2>1, <2>2 DEF TimesOut, TypeOK
    <3>2. /\ Status[r] = "open"
          /\ Status' = [Status EXCEPT ![r] = "timeout"]
      BY <1>0, <2>2, <3>1 DEF TypeOK
    <3>3. Service!Close(r)
      BY <1>3, <2>1, <3>2 DEF Service!Close
    <3> QED BY <3>3 DEF Service!Next
  <2>3. CASE handler[r] # "waiting"
    <3>1. handler' = handler
      BY <1>0, <2>1, <2>3 DEF TimesOut, TypeOK
    <3>2. Status[r] # "new"
      BY <1>3
    <3>3. Service!Close(r)
      BY <1>3, <2>1, <3>1, <3>2 DEF Service!Close
    <3> QED BY <3>3 DEF Service!Next
  <2> QED BY <2>2, <2>3
<1>4. ASSUME NEW i \in Instances, Hears(i), UNCHANGED <<handler, ctxDone>>
      PROVE  [Service!Next]_(Service!serviceVars)
  <2>1. /\ cur[i] \in Requests /\ LinterOf[i] \in Linters
        /\ LinterOf[i] \in Outstanding(cur[i])
    BY <1>4, DispatchAssumption
       DEF IInv, TypeInv, LocalInv, LoopLocal, HeldInv, Hears, Busy, Sending,
           DispatchAssumption
  <2>2. handler[cur[i]] \in {"enter", "waiting"}
    BY <1>4, <2>1, OpenWhileOwed DEF Hears
  <2>3. Service!Hear(cur[i], LinterOf[i])
    BY <1>4, <2>1, <2>2 DEF Service!Hear, Hears, Outstanding
  <2> QED BY <2>1, <2>3 DEF Service!Next
<1>5. ASSUME NEW r \in Requests, post[r] \in {"respond", "done"},
             handler[r] \in {"enter", "waiting"},
             handler' = [handler EXCEPT ![r] = "ok"], UNCHANGED <<ended, ctxDone>>
      PROVE  [Service!Next]_(Service!serviceVars)
  <2>1. /\ Status[r] = "open"
        /\ Status' = [Status EXCEPT ![r] = "ok"]
    BY <1>0, <1>5 DEF TypeOK
  <2>2. Service!Answer(r)
    BY <1>5, <2>1, AnswerJustified DEF Service!Answer
  <2> QED BY <2>2 DEF Service!Next
<1>6. ASSUME NEW r \in Requests, HandlerSelect(r)
      PROVE  [Service!Next]_(Service!serviceVars)
  <2>1. handler[r] = "enter" /\ UNCHANGED <<ended, ctxDone>>
    BY <1>6 DEF HandlerSelect, histVars
  <2>2. CASE post[r] = "done" /\ handler' = [handler EXCEPT ![r] = "ok"]
    BY <1>5, <2>1, <2>2
  <2>3. CASE ctxDone[r] /\ handler' = [handler EXCEPT ![r] = "timeout"]
    <3>1. /\ Status[r] = "open"
          /\ Status' = [Status EXCEPT ![r] = "timeout"]
      BY <1>0, <2>1, <2>3 DEF TypeOK
    <3>2. Service!TimeOut(r)
      BY <2>1, <2>3, <3>1 DEF Service!TimeOut
    <3> QED BY <3>2 DEF Service!Next
  <2>4. CASE handler' = [handler EXCEPT ![r] = "waiting"]
    <3>1. Status' = Status
      BY <1>0, <2>1, <2>4 DEF TypeOK
    <3> QED BY <2>1, <3>1 DEF Service!serviceVars
  <2> QED BY <1>6, <2>2, <2>3, <2>4 DEF HandlerSelect
<1>7. ASSUME NEW r \in Requests, Respond(r)
      PROVE  [Service!Next]_(Service!serviceVars)
  <2>1. CASE handler[r] = "waiting"
    <3>1. handler' = [handler EXCEPT ![r] = "ok"] /\ UNCHANGED <<ended, ctxDone>>
      BY <1>0, <1>7, <2>1 DEF Respond, histVars, TypeOK
    <3> QED BY <1>5, <1>7, <2>1, <3>1 DEF Respond
  <2>2. CASE handler[r] # "waiting"
    <3>1. UNCHANGED <<handler, ended, ctxDone>>
      BY <1>0, <1>7, <2>2 DEF Respond, histVars, TypeOK
    <3> QED BY <1>1, <3>1
  <2> QED BY <2>1, <2>2
<1>8. ASSUME NEW i \in Instances,
             SendNow(i) \/ \E r \in Requests : CollectFrom(r, i)
      PROVE  [Service!Next]_(Service!serviceVars)
  <2>1. UNCHANGED <<handler, ctxDone>>
    BY <1>8 DEF SendNow, CollectFrom, Delivered
  <2>2. CASE pc[i] = "end"
    BY <1>4, <1>8, <2>1, <2>2, HeardWhenDelivered DEF IInv
  <2>3. CASE pc[i] # "end"
    <3>1. ended' = ended
      BY <1>0, <1>8, <2>3 DEF SendNow, CollectFrom, Delivered, Receive, TypeOK
    <3> QED BY <1>1, <2>1, <3>1
  <2> QED BY <2>2, <2>3
<1>9. \/ UNCHANGED <<handler, ended, ctxDone>>
      \/ \E r \in Requests : \/ Accept(r) \/ HandlerSelect(r) \/ Respond(r)
                             \/ CloseCtx(r) /\ handler[r] # "new" /\ ~ctxDone[r]
      \/ \E i \in Instances : SendNow(i) \/ \E r \in Requests : CollectFrom(r, i)
  BY ZenonT(60)
     DEF Next, PostStep, HandlerStep, Expire, Cancel, LoopStep, SendStep, BackendStep, vars,
         reqVars, instVars, histVars, Submit, SkipLinter, CollectWait, CollectAbandon,
         CollectDone, SendDropped, SendBlock, Started, StartAborted, Take, SkipExpired,
         Begin, HandleRequest, Token, EndToken, BackendError, Restarted, StopServing, Signal
<1> QED BY <1>1, <1>2, <1>3, <1>6, <1>7, <1>8, <1>9

\* Queues, server loops and channels together keep the promise that LintService
\* states: a handler hears each linter it uses at most once, never after its
\* context is closed, and answers only when it heard them all or ran out of time.
THEOREM ImplementsService == Spec => ServiceSpec
<1>1. Init => Service!Init
  BY DEF Init, Service!Init
<1> QED BY IInvHolds, <1>1, ServiceStep, PTL DEF Spec, ServiceSpec, Service!Spec

-----------------------------------------------------------------------------
(* Dispatch implements ServerLoop.                                         *)

\* A loop without a request holds none, and only a loop with a backend reads from one.
LoopFree(i) ==
    /\ ~Busy(i) => cur[i] = None
    /\ pc[i] = "scan" => LinterOf[i] \in External

FreeInv == \A i \in Instances : LoopFree(i)

LEMMA FreeInit == Init => FreeInv
BY DEF Init, FreeInv, LoopFree

\* A step that leaves the loops alone, moves one that keeps what it holds, takes a request,
\* ends a turn, or is done with results.
LEMMA FreeStep == TypeInv /\ FreeInv /\ [Next]_vars => FreeInv'
<1> SUFFICES ASSUME TypeInv, FreeInv, [Next]_vars PROVE FreeInv'
  OBVIOUS
<1> USE DEF FreeInv, LoopFree, Busy, Sending, TypeInv, TypeOK, LocalInv, LoopLocal
<1>1. ASSUME UNCHANGED <<pc, cur>> PROVE FreeInv'
  BY <1>1
<1>2. ASSUME NEW i \in Instances, NEW state, pc' = [pc EXCEPT ![i] = state], cur' = cur,
             Busy(i) <=> state \in Sending \cup {"taken", "handle", "scan", "restart"},
             state = "scan" => LinterOf[i] \in External
      PROVE  FreeInv'
  BY <1>2
<1>3. ASSUME NEW i \in Instances, pc[i] \in Sending,
             pc' = [pc EXCEPT ![i] = AfterSend(i)] \/ pc' = [pc EXCEPT ![i] = AfterDrop(i)],
             cur' = [cur EXCEPT ![i] = IF pc[i] = "end" THEN None ELSE @]
      PROVE  FreeInv'
  BY <1>3 DEF AfterSend, AfterDrop
<1>4. ASSUME NEW r \in Requests,
             Accept(r) \/ Submit(r) \/ SkipLinter(r) \/ CollectWait(r) \/ CollectAbandon(r)
                \/ CollectDone(r) \/ Respond(r) \/ HandlerSelect(r)
      PROVE  FreeInv'
  BY <1>1, <1>4 DEF Accept, Submit, SkipLinter, CollectWait, CollectAbandon, CollectDone, Respond,
                    HandlerSelect, instVars
<1>5. ASSUME NEW r \in Requests, NEW i \in Instances, CollectFrom(r, i) PROVE FreeInv'
  BY <1>3, <1>5 DEF CollectFrom, Delivered
<1>6. ASSUME NEW r \in Requests, CloseCtx(r) PROVE FreeInv'
  BY <1>6 DEF CloseCtx, AfterDrop
<1>7. ASSUME NEW i \in Instances, SendStep(i) PROVE FreeInv'
  BY <1>1, <1>3, <1>7 DEF SendStep, SendNow, SendDropped, SendBlock, AtSelect, Delivered
<1>8. ASSUME NEW i \in Instances, Started(i) \/ StartAborted(i) \/ StopServing(i) \/ Begin(i)
      PROVE  FreeInv'
  BY <1>2, <1>8 DEF Started, StartAborted, StopServing, Begin
<1>9. ASSUME NEW i \in Instances, Take(i) PROVE FreeInv'
  BY <1>9 DEF Take
<1>10. ASSUME NEW i \in Instances, SkipExpired(i) PROVE FreeInv'
  BY <1>10 DEF SkipExpired
<1>11. ASSUME NEW i \in Instances, BackendStep(i) PROVE FreeInv'
  BY <1>2, <1>11 DEF BackendStep, HandleRequest, Token, EndToken, BackendError, Restarted,
                     AfterRestart
<1>12. CASE Signal \/ UNCHANGED vars
  BY <1>1, <1>12 DEF Signal, vars, instVars
<1> QED BY <1>4, <1>5, <1>6, <1>7, <1>8, <1>9, <1>10, <1>11, <1>12
        DEF Next, PostStep, HandlerStep, Expire, Cancel, LoopStep

LEMMA Places ==
    /\ Place("starting") = "away" /\ Place("idle") = "idle" /\ Place("taken") = "idle"
    /\ Place("handle") = "working" /\ Place("scan") = "working"
    /\ Place("result") = "sending" /\ Place("fatal") = "failing"
    /\ Place("restart") = "mending" /\ Place("meta") = "closing" /\ Place("end") = "closing"
    /\ Place("stopped") = "over"
BY DEF Place

\* What ServerLoop has for the requests that no instance received, for what the instances
\* hold and for the requests whose deadline has passed.
AllDue  == [l \in Linters |-> {r \in Requests : Due(r, l)}]
AllHeld == [i \in Instances |-> IF pc[i] = "taken" THEN None ELSE cur[i]]
AllLate == {r \in Requests : ctxDone[r]}

\* The requests that are due change when they are submitted or received, and only then.
LEMMA DueKept ==
    ASSUME UNCHANGED <<queue, next>>,
           \A j \in Instances : /\ pc'[j] = "taken" <=> pc[j] = "taken"
                                /\ pc[j] = "taken" => cur'[j] = cur[j]
    PROVE  AllDue' = AllDue
<1>1. ASSUME NEW r \in Requests PROVE JustTook(r)' = JustTook(r)
  BY DEF JustTook
<1>2. ASSUME NEW r \in Requests, NEW l \in Linters PROVE Due(r, l)' <=> Due(r, l)
  BY <1>1 DEF Due, Used, NumInstances
<1> QED BY <1>2 DEF AllDue

LEMMA LoopsInit == Init => Loops!Init
<1> SUFFICES ASSUME Init PROVE Loops!Init
  OBVIOUS
<1>1. /\ pc = [i \in Instances |-> "starting"] /\ cur = [i \in Instances |-> None]
      /\ gone = [i \in Instances |-> FALSE] /\ ctxDone = [r \in Requests |-> FALSE]
      /\ stopping = FALSE
  BY DEF Init
<1>2. [i \in Instances |-> Place(pc[i])] \in [Instances -> {"away", "over"}]
  BY <1>1, Places
<1>3. AllHeld = [i \in Instances |-> Loops!None]
  BY <1>1 DEF AllHeld, None, Loops!None
<1>4. AllDue \in [Linters -> SUBSET Requests] /\ AllLate = {}
  BY <1>1 DEF AllDue, AllLate
<1> QED BY <1>1, <1>2, <1>3, <1>4 DEF Loops!Init, AllHeld, AllDue, AllLate

\* Where a loop goes when it goes, and nothing else that ServerLoop sees changes.
LEMMA LoopsGoes ==
    ASSUME TypeOK, NEW i \in Instances, NEW state,
           pc' = [pc EXCEPT ![i] = state], pc[i] # "taken", state # "taken",
           UNCHANGED <<next, queue, cur, gone, ctxDone, stopping>>
    PROVE  /\ Loops!Goes(i, Place(pc[i]), Place(state))
           /\ Place(pc[i]) = Place(state) => UNCHANGED Loops!loopsVars
<1> DEFINE place == [j \in Instances |-> Place(pc[j])]
<1>1. place' = [place EXCEPT ![i] = Place(state)]
  BY DEF TypeOK
<1>2. place[i] = Place(pc[i])
  OBVIOUS
<1>3. Place(pc[i]) = Place(state) => place' = place
  BY <1>1, <1>2
<1>4. AllDue' = AllDue
  BY DueKept DEF TypeOK
<1>5. AllHeld' = AllHeld /\ AllLate' = AllLate
  BY DEF AllHeld, AllLate, TypeOK
<1> HIDE DEF place
<1>6. Loops!Goes(i, Place(pc[i]), Place(state))
  BY <1>1, <1>2, <1>4, <1>5 DEF Loops!Goes, place, AllHeld, AllDue, AllLate
<1>7. Place(pc[i]) = Place(state) => UNCHANGED Loops!loopsVars
  BY <1>3, <1>4, <1>5 DEF Loops!loopsVars, Loops!loopVars, place, AllHeld, AllDue, AllLate
<1> QED BY <1>6, <1>7

\* A step that ServerLoop does not see.
LEMMA LoopsStutter ==
    ASSUME UNCHANGED <<pc, cur, gone, ctxDone, stopping, AllDue>>
    PROVE  UNCHANGED Loops!loopsVars
BY DEF Loops!loopsVars, Loops!loopVars, AllDue

Queued(r, l) == \E k \in 1 .. Len(queue[l]) : queue[l][k] = r

\* A request that is submitted to a linter was due to it before and still is.
LEMMA LoopsSubmit ==
    ASSUME TypeOK, NEW r \in Requests, Submit(r) \/ SkipLinter(r)
    PROVE  UNCHANGED Loops!loopsVars
<1> PICK l : l = next[r]
  OBVIOUS
<1>1. UNCHANGED <<pc, cur, gone, ctxDone, stopping>>
  BY DEF Submit, SkipLinter, instVars
<1>2. l \in Int /\ next' = [next EXCEPT ![r] = l + 1]
  BY DEF Submit, SkipLinter, SubmitNext, TypeOK
<1>3. \/ l \in Used(r) /\ queue' = [queue EXCEPT ![l] = Append(@, r)]
      \/ l \notin Used(r) /\ queue' = queue
  BY DEF Submit, SkipLinter, LinterAt
<1>4. Used(r) \subseteq Linters /\ Linters \subseteq Int
  BY DispatchAssumption DEF Used, Linters, DispatchAssumption
<1>5. ASSUME NEW q \in Requests, NEW m \in Linters
      PROVE  Due(q, m)' <=> Due(q, m)
  <2>1. JustTook(q)' = JustTook(q) /\ Used(q)' = Used(q)
    BY <1>1 DEF JustTook, Used, NumInstances
  <2>2. q # r \/ m # l => next'[q] <= m <=> next[q] <= m
    BY <1>2, <1>4, <1>5 DEF TypeOK
  <2>3. CASE l \in Used(r) /\ queue' = [queue EXCEPT ![l] = Append(@, r)]
    <3>1. l \in Linters /\ queue[l] \in Seq(Requests) /\ queue'[l] = Append(queue[l], r)
      BY <1>4, <2>3 DEF TypeOK
    <3>2. Queued(q, l)' <=> q = r \/ Queued(q, l)
      <4> DEFINE s == queue[l]
      <4>1. (\E k \in 1 .. Len(Append(s, r)) : Append(s, r)[k] = q)
                <=> q = r \/ \E k \in 1 .. Len(s) : s[k] = q
        BY ONLY <3>1, r \in Requests, ElementsOfAppend
      <4> QED BY <3>1, <4>1 DEF Queued
    <3>3. m # l => queue'[m] = queue[m]
      BY <2>3 DEF TypeOK
    <3>4. m # l => Queued(q, m)' <=> Queued(q, m)
      BY <3>3 DEF Queued
    <3>5. CASE m = l /\ q = r
      <4>1. Queued(r, l)' /\ l \in Used(r) /\ next[r] <= l
        BY <1>2, <2>3, <3>2, <3>5
      <4> QED BY <3>5, <4>1 DEF Due, Queued
    <3>6. CASE m = l /\ q # r
      BY <2>1, <2>2, <3>2, <3>6 DEF Due, Queued
    <3>7. CASE m # l
      BY <2>1, <2>2, <3>4, <3>7 DEF Due, Queued
    <3> QED BY <3>5, <3>6, <3>7
  <2>4. CASE l \notin Used(r) /\ queue' = queue
    BY <2>1, <2>2, <2>4 DEF Due
  <2> QED BY <1>3, <2>3, <2>4
<1>6. AllDue' = AllDue
  BY <1>5 DEF AllDue
<1> QED BY <1>1, <1>6, LoopsStutter

\* A loop that takes a request from its channel has not received it yet: it first looks at
\* the deadline.
LEMMA LoopsFetch ==
    ASSUME TypeOK, FreeInv, NEW i \in Instances, Take(i)
    PROVE  UNCHANGED Loops!loopsVars
<1> DEFINE l == LinterOf[i]
           h == Head(queue[l])
<1>1. /\ pc[i] = "idle" /\ queue[l] # <<>>
      /\ pc' = [pc EXCEPT ![i] = "taken"] /\ cur' = [cur EXCEPT ![i] = h]
      /\ queue' = [queue EXCEPT ![l] = Tail(@)]
      /\ UNCHANGED <<next, gone, ctxDone, stopping>>
  BY DEF Take, reqVars
<1>2. cur[i] = None
  BY <1>1 DEF FreeInv, LoopFree, Busy, Sending
<1>3. AllHeld' = AllHeld
  BY <1>1, <1>2 DEF AllHeld, TypeOK
<1>4. [j \in Instances |-> Place(pc[j])]' = [j \in Instances |-> Place(pc[j])]
  BY <1>1, Places DEF TypeOK
<1>5. ASSUME NEW q \in Requests, NEW m \in Linters
      PROVE  Due(q, m)' <=> Due(q, m)
  <2>1. Used(q)' = Used(q) /\ next'[q] = next[q]
    BY <1>1 DEF Used, NumInstances
  <2>2. l \in Linters /\ queue[l] \in Seq(Requests) /\ queue'[l] = Tail(queue[l])
    BY <1>1, DispatchAssumption DEF TypeOK, DispatchAssumption
  <2>3. Queued(q, l) <=> q = h \/ Queued(q, l)'
    <3> DEFINE s == queue[l]
    <3>1. (\E k \in 1 .. Len(s) : s[k] = q)
              <=> q = Head(s) \/ \E k \in 1 .. Len(Tail(s)) : Tail(s)[k] = q
      BY ONLY <1>1, <2>2, ElementsOfTail
    <3> QED BY <2>2, <3>1 DEF Queued
  <2>4. m # l => (Queued(q, m)' <=> Queued(q, m))
    BY <1>1 DEF Queued, TypeOK
  <2>5. JustTook(q)' = IF q = h THEN JustTook(q) \cup {i} ELSE JustTook(q)
    BY <1>1 DEF JustTook, TypeOK
  <2>6. (\E j \in JustTook(q)' : LinterOf[j] = m)
            <=> (q = h /\ m = l) \/ \E j \in JustTook(q) : LinterOf[j] = m
    BY <2>5
  <2>7. Due(q, m) <=> \/ m \in Used(q) /\ next[q] <= m
                      \/ Queued(q, m)
                      \/ \E j \in JustTook(q) : LinterOf[j] = m
    BY DEF Due, Queued
  <2>8. Due(q, m)' <=> \/ m \in Used(q) /\ next[q] <= m
                       \/ Queued(q, m)'
                       \/ \E j \in JustTook(q)' : LinterOf[j] = m
    BY <2>1 DEF Due, Queued
  <2> HIDE DEF l, h
  <2> QED BY <2>3, <2>4, <2>6, <2>7, <2>8
<1>6. AllDue' = AllDue
  BY <1>5 DEF AllDue
<1> QED BY <1>1, <1>3, <1>4, <1>6
        DEF Loops!loopsVars, Loops!loopVars, AllDue, AllHeld

\* With the look at the deadline the request is received, and due to its linter no more: it
\* is in no channel of it and in no other instance's hands.
LEMMA LoopsReceive ==
    ASSUME IInv, FreeInv, NEW i \in Instances, SkipExpired(i) \/ Begin(i)
    PROVE  Loops!Next
<1> DEFINE l == LinterOf[i]
           place == [j \in Instances |-> Place(pc[j])]
<1>0. TypeOK /\ pc[i] = "taken" /\ Busy(i) /\ cur[i] \in Requests /\ l \in Linters
  BY DispatchAssumption
     DEF IInv, TypeInv, LocalInv, LoopLocal, SkipExpired, Begin, Busy, Sending, DispatchAssumption
<1> PICK r \in Requests : r = cur[i]
  BY <1>0
<1>1. TypeOK /\ pc[i] = "taken" /\ Busy(i) /\ r = cur[i] /\ r \in Requests /\ l \in Linters
  BY <1>0
<1>2. UNCHANGED <<next, queue, gone, ctxDone, stopping>>
  BY DEF SkipExpired, Begin, reqVars
<1>3. /\ r \in AllDue[l]
      /\ AllDue' = [AllDue EXCEPT ![l] = @ \ {r}]
  <2>1. /\ l \in Outstanding(r)
        /\ ~Queued(r, l)
        /\ \A j \in Instances : Busy(j) /\ LinterOf[j] = l /\ cur[j] = r => i = j
    BY <1>1 DEF IInv, HeldInv, Queued
  <2>2. ~(next[r] <= l)
    <3>1. l < next[r] /\ l \in Int /\ next[r] \in Int
      BY <1>1, <2>1 DEF Outstanding, TypeOK, Linters
    <3> QED BY <3>1
  <2>3. \A j \in JustTook(r) : LinterOf[j] = l => j = i
    BY <2>1 DEF JustTook, Busy, Sending
  <2>4. i \in JustTook(r)
    BY <1>1 DEF JustTook
  <2>5. pc' \in [Instances -> LoopStates] /\ pc'[i] # "taken"
            /\ \A j \in Instances \ {i} : pc'[j] = pc[j] /\ cur'[j] = cur[j]
    BY <1>1 DEF SkipExpired, Begin, TypeOK, LoopStates
  <2>6. ASSUME NEW q \in Requests PROVE JustTook(q)' = JustTook(q) \ {i}
    BY <2>5 DEF JustTook
  <2>7. ASSUME NEW q \in Requests, NEW m \in Linters
        PROVE  Due(q, m)' <=> Due(q, m) /\ ~(q = r /\ m = l)
    <3>1. Used(q)' = Used(q)
      BY DEF Used, NumInstances
    <3>2. CASE q = r /\ m = l
      BY <1>2, <2>1, <2>2, <2>3, <2>6, <3>1, <3>2 DEF Due, Queued
    <3>3. CASE q = r /\ m # l
      BY <1>2, <2>6, <3>1, <3>3 DEF Due
    <3>4. CASE q # r
      <4>1. JustTook(q)' = JustTook(q)
        BY <2>6, <3>4 DEF JustTook
      <4> QED BY <1>2, <3>1, <3>4, <4>1 DEF Due
    <3> QED BY <3>2, <3>3, <3>4
  <2>8. Due(r, l)
    BY <2>4 DEF Due
  <2>9. r \in AllDue[l]
    BY <1>1, <2>8 DEF AllDue
  <2> DEFINE other == [AllDue EXCEPT ![l] = @ \ {r}]
  <2>10. ASSUME NEW m \in Linters PROVE AllDue'[m] = other[m]
    BY <1>1, <2>7 DEF AllDue
  <2>11. AllDue' = other
    BY <2>10 DEF AllDue
  <2> QED BY <2>9, <2>11
<1>4. place[i] = "idle" /\ AllHeld[i] = None
  BY <1>1, Places DEF AllHeld
<1>5. Loops!Receives(i, r)
  BY <1>2, <1>3, <1>4 DEF Loops!Receives, AllDue, AllLate
<1>6. CASE SkipExpired(i)
  <2>1. /\ ctxDone[r] /\ pc' = [pc EXCEPT ![i] = "idle"] /\ cur' = [cur EXCEPT ![i] = None]
    BY <1>1, <1>6 DEF SkipExpired
  <2>2. place' = place
    BY <1>1, <2>1, Places DEF TypeOK
  <2>3. AllHeld' = AllHeld
    BY <1>1, <2>1 DEF AllHeld, TypeOK
  <2>4. Loops!Skip(i, r)
    BY <1>1, <1>5, <2>1, <2>2, <2>3 DEF Loops!Skip, AllHeld
  <2> QED BY <1>1, <2>4 DEF Loops!Next
<1>7. CASE Begin(i)
  <2>1. PICK state \in {"scan", "handle"} : pc' = [pc EXCEPT ![i] = state]
    BY <1>7 DEF Begin
  <2>2. cur' = cur /\ ~ctxDone[r]
    BY <1>1, <1>7 DEF Begin
  <2>3. place' = [place EXCEPT ![i] = "working"]
    BY <1>1, <2>1, Places DEF TypeOK
  <2>4. AllHeld' = [AllHeld EXCEPT ![i] = r]
    BY <1>1, <2>1, <2>2 DEF AllHeld, TypeOK
  <2>5. r \notin AllLate
    BY <2>2 DEF AllLate
  <2>6. Loops!Take(i, r)
    <3> HIDE DEF place
    <3> QED BY <1>5, <2>3, <2>4, <2>5 DEF Loops!Take, AllHeld, AllLate, place
  <2> QED BY <2>6 DEF Loops!Next
<1> QED BY <1>6, <1>7

\* Where a loop goes that is done with a result, delivered or not.
GoesOnTo(i, delivered) == IF delivered THEN AfterSend(i) ELSE AfterDrop(i)
GoneThen(i, delivered) == IF delivered THEN gone[i] /\ pc[i] # "end" ELSE KeepGone(i)

\* It is where ServerLoop has it, unless it is in the midst of a turn's findings or has only
\* sent the META result.
LEMMA ResultDone ==
    ASSUME TypeInv, NEW i \in Instances, pc[i] \in Sending, NEW delivered \in BOOLEAN
    PROVE  LET place == [j \in Instances |-> Place(pc[j])]
               stays == pc[i] = "meta" \/ (pc[i] = "result" /\ left[i] > 1 /\ delivered)
           IN  /\ stays => /\ Place(GoesOnTo(i, delivered)) = place[i]
                           /\ GoneThen(i, delivered) = gone[i]
               /\ ~stays => /\ place[i] \in Loops!Sending
                            /\ place[i] = "closing" <=> pc[i] = "end"
                            /\ Place(GoesOnTo(i, delivered)) = Loops!AfterResult(i)
                            /\ GoneThen(i, delivered) <=>
                                 IF place[i] = "closing" THEN FALSE
                                 ELSE \/ gone[i]
                                      \/ ~delivered /\ place[i] = "sending"
                                           /\ i \in {j \in Instances : LinterOf[j] \in External}
               /\ GoesOnTo(i, delivered) # "taken"
<1> USE Places DEF GoesOnTo, GoneThen, KeepGone, GivesUp, Sending
<1> DEFINE place == [j \in Instances |-> Place(pc[j])]
<1>1. gone[i] \in BOOLEAN /\ (pc[i] = "result" => left[i] > 0) /\ left[i] \in Nat
  BY DEF TypeInv, TypeOK, LocalInv, LoopLocal
<1>2. CASE pc[i] = "meta"
  BY <1>1, <1>2 DEF AfterSend, AfterDrop
<1>3. CASE pc[i] = "end"
  BY <1>1, <1>3 DEF AfterSend, AfterDrop, Loops!Sending, Loops!AfterResult
<1>4. CASE pc[i] = "fatal"
  BY <1>1, <1>4 DEF AfterSend, AfterDrop, Loops!Sending, Loops!AfterResult
<1>5. CASE pc[i] = "result"
  BY <1>1, <1>5 DEF AfterSend, AfterDrop, Loops!Sending, Loops!AfterResult
<1> QED BY <1>2, <1>3, <1>4, <1>5

LEMMA LoopsSend ==
    ASSUME TypeInv, NEW i \in Instances,
           SendNow(i) \/ SendDropped(i) \/ \E r \in Requests : CollectFrom(r, i)
    PROVE  [Loops!Next]_(Loops!loopsVars)
<1> DEFINE place == [j \in Instances |-> Place(pc[j])]
<1>1. /\ TypeOK /\ pc[i] \in Sending /\ cur[i] \in Requests
      /\ UNCHANGED <<queue, next, ctxDone, stopping>>
  BY DEF TypeInv, LocalInv, LoopLocal, Busy, SendNow, SendDropped, CollectFrom, AtSelect,
         Delivered, reqVars
<1>2. PICK delivered \in BOOLEAN :
          /\ pc' = [pc EXCEPT ![i] = GoesOnTo(i, delivered)]
          /\ gone' = [gone EXCEPT ![i] = GoneThen(i, delivered)]
          /\ cur' = [cur EXCEPT ![i] = IF pc[i] = "end" THEN None ELSE @]
          /\ ~delivered => ctxDone[cur[i]]
  <2>1. CASE SendDropped(i)
    BY <2>1 DEF SendDropped, DropReady, GoesOnTo, GoneThen
  <2>2. CASE SendNow(i) \/ \E r \in Requests : CollectFrom(r, i)
    BY <2>2 DEF SendNow, CollectFrom, Delivered, GoesOnTo, GoneThen
  <2> QED BY <2>1, <2>2
<1> DEFINE stays == pc[i] = "meta" \/ (pc[i] = "result" /\ left[i] > 1 /\ delivered)
<1>3. GoesOnTo(i, delivered) # "taken" /\ pc[i] # "taken"
  BY <1>1, ResultDone DEF Sending
<1>4. AllDue' = AllDue
  BY <1>1, <1>2, <1>3, DueKept DEF TypeOK
<1>5. place' = [place EXCEPT ![i] = Place(GoesOnTo(i, delivered))]
  BY <1>1, <1>2 DEF TypeOK
<1>6. AllHeld' = [AllHeld EXCEPT ![i] = IF pc[i] = "end" THEN None ELSE @] /\ AllHeld[i] = cur[i]
  BY <1>1, <1>2, <1>3 DEF TypeOK, AllHeld
<1>7. CASE stays
  <2>1. Place(GoesOnTo(i, delivered)) = place[i] /\ GoneThen(i, delivered) = gone[i]
    BY <1>1, <1>7, ResultDone
  <2>2. place' = place
    BY <1>5, <2>1
  <2>3. gone' = gone
    BY <1>1, <1>2, <2>1 DEF TypeOK
  <2>4. AllHeld' = AllHeld
    BY <1>6, <1>7 DEF AllHeld
  <2> QED BY <1>1, <1>4, <2>2, <2>3, <2>4 DEF Loops!loopsVars, Loops!loopVars, AllDue, AllHeld
<1>8. CASE ~stays
  <2> DEFINE external == {j \in Instances : LinterOf[j] \in External}
  <2>1. /\ place[i] \in Loops!Sending
        /\ place[i] = "closing" <=> pc[i] = "end"
        /\ Place(GoesOnTo(i, delivered)) = Loops!AfterResult(i)
        /\ GoneThen(i, delivered) <=>
               IF place[i] = "closing" THEN FALSE
               ELSE gone[i] \/ (~delivered /\ place[i] = "sending" /\ i \in external)
    BY <1>1, <1>8, ResultDone
  <2>2. place' = [j \in Instances |-> IF j \in {i} THEN Loops!AfterResult(j) ELSE place[j]]
    BY <1>5, <2>1
  <2>3. AllHeld' = [j \in Instances |->
                       IF j \in {i} /\ place[j] = "closing" THEN Loops!None ELSE AllHeld[j]]
    BY <1>6, <2>1 DEF AllHeld, None, Loops!None
  <2>4. gone' = [j \in Instances |->
                    IF j \notin {i} THEN gone[j]
                    ELSE IF place[j] = "closing" THEN FALSE
                    ELSE gone[j] \/ (~delivered /\ place[j] = "sending" /\ j \in external)]
    <3>1. GoneThen(i, delivered) \in BOOLEAN
      BY <1>1 DEF GoneThen, KeepGone, GivesUp, TypeOK
    <3> HIDE DEF place
    <3> QED BY <1>1, <1>2, <2>1, <3>1 DEF TypeOK
  <2> HIDE DEF place
  <2>5. Loops!AreDone({i}, delivered)
    BY <1>1, <1>4, <2>2, <2>3, <2>4 DEF Loops!AreDone, place, AllHeld, AllDue
  <2>6. delivered = TRUE \/ (delivered = FALSE /\ AllHeld[i] \in AllLate)
    BY <1>1, <1>2, <1>6 DEF AllLate
  <2>7. AllLate' = AllLate
    BY <1>1 DEF AllLate
  <2>8. Loops!Sends(i)
    BY <2>1, <2>5, <2>6, <2>7 DEF Loops!Sends, place, AllHeld, AllLate
  <2> QED BY <2>8 DEF Loops!Next
<1> QED BY <1>7, <1>8

\* A context that is closed releases the loops that are blocked on it, all at once.
LEMMA LoopsClose ==
    ASSUME TypeInv, NEW r \in Requests, CloseCtx(r)
    PROVE  Loops!Expire(r)
<1> DEFINE place == [j \in Instances |-> Place(pc[j])]
           released == {i \in Instances : blocked[i] /\ cur[i] = r}
           done == {i \in released : pc[i] # "meta"}
           external == {j \in Instances : LinterOf[j] \in External}
<1>1. /\ TypeOK /\ UNCHANGED <<queue, next, stopping>>
      /\ pc' = [i \in Instances |-> IF i \in released THEN GoesOnTo(i, FALSE) ELSE pc[i]]
      /\ gone' = [i \in Instances |-> IF i \in released THEN GoneThen(i, FALSE) ELSE gone[i]]
      /\ cur' = [i \in Instances |-> IF i \in released /\ pc[i] = "end" THEN None ELSE cur[i]]
      /\ ctxDone' = [ctxDone EXCEPT ![r] = TRUE]
  BY DEF TypeInv, CloseCtx, GoesOnTo, GoneThen
<1>2. ASSUME NEW i \in released PROVE pc[i] \in Sending /\ pc[i] # "taken"
  BY DEF TypeInv, LocalInv, LoopLocal, Sending
<1>3. ASSUME NEW i \in done
      PROVE  /\ place[i] \in Loops!Sending
             /\ place[i] = "closing" <=> pc[i] = "end"
             /\ Place(GoesOnTo(i, FALSE)) = Loops!AfterResult(i)
             /\ GoneThen(i, FALSE) <=>
                    IF place[i] = "closing" THEN FALSE
                    ELSE gone[i] \/ (place[i] = "sending" /\ i \in external)
  BY <1>2, ResultDone
<1>4. ASSUME NEW i \in released, i \notin done
      PROVE  Place(GoesOnTo(i, FALSE)) = place[i] /\ GoneThen(i, FALSE) = gone[i] /\ pc[i] # "end"
  BY <1>2, <1>4, ResultDone
<1>5. ASSUME NEW i \in released PROVE GoesOnTo(i, FALSE) # "taken"
  BY <1>2, ResultDone
<1>6. AllDue' = AllDue
  <2>1. ASSUME NEW j \in Instances
        PROVE  /\ pc'[j] = "taken" <=> pc[j] = "taken"
               /\ pc[j] = "taken" => cur'[j] = cur[j]
    BY <1>1, <1>2, <1>5
  <2> QED BY <1>1, <2>1, DueKept
<1>7. place' = [i \in Instances |-> IF i \in done THEN Loops!AfterResult(i) ELSE place[i]]
  <2>1. ASSUME NEW i \in Instances
        PROVE  place'[i] = IF i \in done THEN Loops!AfterResult(i) ELSE place[i]
    <3>1. place'[i] = IF i \in released THEN Place(GoesOnTo(i, FALSE)) ELSE place[i]
      BY <1>1
    <3> QED BY <1>3, <1>4, <3>1
  <2> QED BY <2>1
<1>8. AllHeld' = [i \in Instances |->
                     IF i \in done /\ place[i] = "closing" THEN Loops!None ELSE AllHeld[i]]
  <2>1. ASSUME NEW i \in Instances
        PROVE  AllHeld'[i] = IF i \in done /\ place[i] = "closing" THEN Loops!None ELSE AllHeld[i]
    BY <1>1, <1>2, <1>3, <1>4, <1>5 DEF AllHeld, None, Loops!None
  <2> QED BY <2>1 DEF AllHeld
<1>9. gone' = [i \in Instances |->
                  IF i \notin done THEN gone[i]
                  ELSE IF place[i] = "closing" THEN FALSE
                  ELSE gone[i] \/ (~FALSE /\ place[i] = "sending" /\ i \in external)]
  <2>1. ASSUME NEW i \in Instances
        PROVE  gone'[i] = IF i \notin done THEN gone[i]
                          ELSE IF place[i] = "closing" THEN FALSE
                          ELSE gone[i] \/ (~FALSE /\ place[i] = "sending" /\ i \in external)
    <3>1. GoneThen(i, FALSE) \in BOOLEAN
      BY <1>1 DEF GoneThen, KeepGone, GivesUp, TypeOK
    <3>2. gone'[i] = IF i \in released THEN GoneThen(i, FALSE) ELSE gone[i]
      BY <1>1
    <3> HIDE DEF place, external
    <3> QED BY <1>3, <1>4, <3>1, <3>2
  <2> HIDE DEF place, external, done
  <2> QED BY <1>1, <2>1
<1>10. done \in SUBSET {i \in Instances : AllHeld[i] = r /\ place[i] \in Loops!Sending}
  BY <1>2, <1>3 DEF AllHeld
<1>11. AllLate' = AllLate \cup {r}
  BY <1>1 DEF AllLate, TypeOK
<1> HIDE DEF place, done
<1>12. Loops!AreDone(done, FALSE)
  BY <1>1, <1>6, <1>7, <1>8, <1>9 DEF Loops!AreDone, place, AllHeld, AllDue
<1> QED BY <1>10, <1>11, <1>12 DEF Loops!Expire, place, AllHeld, AllLate

LEMMA LoopsStep == IInv /\ FreeInv /\ [Next]_vars => [Loops!Next]_(Loops!loopsVars)
<1> SUFFICES ASSUME IInv, FreeInv, [Next]_vars
             PROVE  [Loops!Next]_(Loops!loopsVars)
  OBVIOUS
<1>0. TypeInv /\ TypeOK
  BY DEF IInv, TypeInv
<1>1. ASSUME UNCHANGED <<pc, cur, gone, ctxDone, stopping, queue, next>>
      PROVE  UNCHANGED Loops!loopsVars
  BY <1>1, LoopsStutter, DueKept
<1>2. ASSUME NEW r \in Requests,
             Accept(r) \/ CollectWait(r) \/ CollectAbandon(r) \/ CollectDone(r) \/ Respond(r)
                \/ HandlerSelect(r)
      PROVE  UNCHANGED Loops!loopsVars
  BY <1>1, <1>2 DEF Accept, CollectWait, CollectAbandon, CollectDone, Respond, HandlerSelect,
                    instVars
<1>3. ASSUME NEW r \in Requests, CloseCtx(r) PROVE Loops!Next
  BY <1>0, <1>3, LoopsClose DEF Loops!Next
<1>4. ASSUME NEW i \in Instances, SendStep(i) PROVE [Loops!Next]_(Loops!loopsVars)
  BY <1>0, <1>1, <1>4, LoopsSend DEF SendStep, SendBlock, reqVars
<1>5. ASSUME NEW i \in Instances, NEW state, pc[i] # "taken", state # "taken",
             pc' = [pc EXCEPT ![i] = state], UNCHANGED <<next, queue, cur, gone, ctxDone, stopping>>
      PROVE  /\ Loops!Goes(i, Place(pc[i]), Place(state))
             /\ Place(pc[i]) = Place(state) => UNCHANGED Loops!loopsVars
  BY <1>0, <1>5, LoopsGoes
<1>6. ASSUME NEW i \in Instances, Started(i) \/ StartAborted(i) \/ StopServing(i)
      PROVE  Loops!Next
  <2>1. Loops!Serve(i) \/ Loops!Leave(i)
    BY <1>5, <1>6, Places DEF Started, StartAborted, StopServing, reqVars, Loops!Serve, Loops!Leave
  <2> QED BY <2>1 DEF Loops!Next
<1>7. ASSUME NEW i \in Instances, BackendStep(i) PROVE [Loops!Next]_(Loops!loopsVars)
  <2>1. /\ LoopLocal(i) /\ LoopFree(i) /\ gone[i] \in BOOLEAN
        /\ UNCHANGED <<next, queue, cur, gone, ctxDone, stopping>>
    BY <1>0, <1>7 DEF TypeInv, TypeOK, LocalInv, FreeInv, BackendStep, HandleRequest, Token,
                      EndToken, BackendError, Restarted, reqVars
  <2>2. \/ Loops!Finishes(i) \/ Loops!Finds(i) \/ Loops!Fails(i) \/ Loops!Mended(i)
        \/ UNCHANGED Loops!loopsVars
    <3>1. ASSUME NEW n \in 0 .. MaxResults, HandleRequest(i, n)
          PROVE  Loops!Finishes(i) \/ Loops!Finds(i)
      BY <1>5, <2>1, <3>1, Places DEF HandleRequest, LoopLocal, Loops!Finishes, Loops!Finds
    <3>2. ASSUME NEW n \in 1 .. MaxResults, Token(i, n)
          PROVE  Loops!Finds(i) \/ UNCHANGED Loops!loopsVars
      BY <1>5, <2>1, <3>2, Places DEF Token, Loops!Finds
    <3>3. CASE EndToken(i)
      BY <1>5, <2>1, <3>3, Places DEF EndToken, Loops!Finishes
    <3>4. CASE BackendError(i)
      <4>1. pc[i] = "scan" /\ pc' = [pc EXCEPT ![i] = IF gone[i] THEN "restart" ELSE "fatal"]
        BY <3>4 DEF BackendError
      <4>2. Loops!Goes(i, "working", IF gone[i] THEN "mending" ELSE "failing")
        BY <1>5, <2>1, <4>1, Places
      <4> QED BY <2>1, <4>1, <4>2 DEF Loops!Fails, LoopFree
    <3>5. CASE Restarted(i)
      BY <1>5, <2>1, <3>5, Places DEF Restarted, AfterRestart, Loops!Mended
    <3> QED BY <1>7, <3>1, <3>2, <3>3, <3>4, <3>5 DEF BackendStep
  <2> QED BY <2>2 DEF Loops!Next
<1>8. CASE Signal
  <2>1. stopping' = TRUE /\ UNCHANGED <<pc, cur, gone, ctxDone, queue, next>>
    BY <1>8 DEF Signal, reqVars, instVars
  <2>2. AllDue' = AllDue
    BY <2>1, DueKept
  <2>3. Loops!Stop
    BY <2>1, <2>2 DEF Loops!Stop, Loops!loopVars, AllDue
  <2> QED BY <2>3 DEF Loops!Next
<1>9. CASE UNCHANGED vars
  BY <1>1, <1>9 DEF vars, reqVars, instVars
<1> QED
  BY <1>0, <1>2, <1>3, <1>4, <1>6, <1>7, <1>8, <1>9, LoopsSubmit, LoopsFetch, LoopsReceive, LoopsSend
     DEF Next, PostStep, HandlerStep, Expire, Cancel, LoopStep

\* With their channels, their blocking sends and the contexts that close under them, the server
\* loops are those of ServerLoop: a request that is submitted is received by one instance of
\* its linter and only before its deadline, each turn is closed after a restart too, a result
\* goes undelivered only after the deadline and then no finding follows it, and a loop ends
\* between turns only (serverLoop and sendResult of linter.go, the submit loop of post.go).
THEOREM DispatchImplementsLoop == Spec => LoopsSpec
<1>1. IInv /\ FreeInv /\ [Next]_vars => FreeInv'
  BY FreeStep DEF IInv
<1>2. Spec => []FreeInv
  BY IInvHolds, FreeInit, <1>1, PTL DEF Spec
<1> QED BY IInvHolds, <1>2, LoopsInit, LoopsStep, PTL DEF Spec, LoopsSpec, Loops!Spec
=============================================================================
