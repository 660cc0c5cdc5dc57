---------------------------- MODULE BackendProofs ----------------------------
(***************************************************************************)
(* Proofs about Backend, for any number of instances and requests, any     *)
(* size of the pipes and any load.                                         *)
(*                                                                         *)
(* The loop takes a line of STDOUT for an answer to the request it serves  *)
(* and nothing in the line says so.  That is right because a request and   *)
(* its answer move through the pipes in one order (Order), because a turn  *)
(* that is not waiting for an answer leaves nothing behind (Quiet), and    *)
(* because the signal of a new process is read before any request is       *)
(* written (WarmUpInv).  InStep shows none of the three.                   *)
(***************************************************************************)
EXTENDS Backend, SequenceLemmas

\* The request of the turn may be on its way to the process or back.
Answering == {"scan", "send", "fatal", "restart"}
Warming   == {"warm", "rewarm"}

\* What is on its way belongs to the request of the turn.
Mine(i) ==
    /\ \A k \in 1 .. Len(stdin[i]) : stdin[i][k] = cur[i]
    /\ \A k \in 1 .. Len(stdout[i]) : stdout[i][k].of \in {None, cur[i]}
    /\ job[i] \in {None, cur[i]}

\* A request is on STDIN, then in the process, then answered; the end is last.
Order(i) ==
    /\ job[i] # None => stdin[i] = <<>>
    /\ Len(stdin[i]) <= 1
    /\ \A k \in 1 .. Len(stdout[i]) :
           stdout[i][k].kind = "end" =>
               k = Len(stdout[i]) /\ stdin[i] = <<>> /\ job[i] = None

Quiet(i) ==
    /\ pc[i] \notin Answering => stdin[i] = <<>> /\ job[i] = None
    /\ pc[i] \notin Answering \cup Warming => stdout[i] = <<>>

\* Before its first request a process prints nothing but its ready signal, once.
WarmUpInv(i) ==
    /\ i \in HasReady /\ proc[i] = "init" => pc[i] \in Warming /\ stdout[i] = <<>>
    /\ pc[i] \in Warming =>
           /\ Len(stdout[i]) <= 1
           /\ i \notin HasReady => stdout[i] = <<>>
           /\ \A k \in 1 .. Len(stdout[i]) : stdout[i][k] = ReadyToken

\* What led to a restart is still there to be seen.
FailureSeen(i) ==
    pc[i] \in {"fatal", "restart"} =>
        proc[i] \in {"dead", "hung"} \/ BadToken(i) \/ timedOut[i]

Turn(i) == cur[i] \in Requests <=> pc[i] \in Serving

LocalInv(i) ==
    Mine(i) /\ Order(i) /\ Quiet(i) /\ WarmUpInv(i) /\ FailureSeen(i) /\ Turn(i)

\* backendInitMutex is held during the warm-up of a first start, and only then.
MutexHeld == \A i \in Instances : pc[i] = "warm" <=> initMutex = i

IInv ==
    /\ TypeOK
    /\ MutexHeld
    /\ \A i \in Instances : LocalInv(i)

\* A step of instance i or of its process.
InstanceStep(i) ==
    LoopStep(i) \/ ProcStep(i) \/ ProcCrash(i) \/ ProcHang(i) \/ BackendTimeout(i)

-----------------------------------------------------------------------------
(* Type correctness.                                                       *)

\* The states and tokens by name, which most steps need.
LEMMA Names ==
    /\ Serving \subseteq LoopStates
    /\ {"init", "warm", "idle", "closing", "exited"} \subseteq LoopStates
    /\ ReadyToken \in Tokens
    /\ \A t \in Tokens : t.kind \in {"ready", "finding", "bad", "end"}
    /\ \A t \in Tokens : t.of \in Requests \cup {None}
    /\ \A t \in Tokens : t.kind = "ready" => t = ReadyToken
    /\ \A r \in Requests, kind \in {"finding", "bad", "end"} :
           [kind |-> kind, of |-> r] \in Tokens
BY DEF Serving, LoopStates, ReadyToken, Tokens

LEMMA InitIInv == Init => IInv
<1> SUFFICES ASSUME Init PROVE IInv
  OBVIOUS
<1> USE BackendAssumption DEF BackendAssumption, Init
<1>1. pc \in [Instances -> {"init", "exited"}] /\ waiting \subseteq Requests
  OBVIOUS
<1>2. TypeOK
  BY <1>1, EmptySeq DEF TypeOK, LoopStates, ProcStates
<1>3. MutexHeld
  BY <1>1 DEF MutexHeld
<1>4. ASSUME NEW i \in Instances PROVE LocalInv(i)
  <2>1. stdin[i] = <<>> /\ stdout[i] = <<>> /\ job[i] = None /\ cur[i] = None
    OBVIOUS
  <2>2. pc[i] \in {"init", "exited"} /\ proc[i] = "none"
    BY <1>1
  <2>3. Mine(i) /\ Order(i)
    BY <2>1 DEF Mine, Order
  <2>4. Quiet(i) /\ WarmUpInv(i) /\ FailureSeen(i)
    BY <2>1, <2>2 DEF Quiet, WarmUpInv, FailureSeen, Warming
  <2>5. Turn(i)
    BY <2>1, <2>2 DEF Turn, Serving
  <2> QED BY <2>3, <2>4, <2>5 DEF LocalInv
<1> QED BY <1>2, <1>3, <1>4 DEF IInv

LEMMA ProcType ==
    ASSUME TypeOK, NEW i \in Instances,
           ProcStep(i) \/ ProcCrash(i) \/ ProcHang(i)
    PROVE  TypeOK'
<1> USE DEF TypeOK, loopVars, procVars, ProcStates
<1>1. ASSUME NEW t \in Tokens, Emit(i, t) PROVE stdout' \in [Instances -> Seq(Tokens)]
  BY <1>1, SequenceFacts DEF Emit
<1>2. CASE ProcUp(i)
  BY <1>2, <1>1, Names DEF ProcUp
<1>3. CASE ProcRead(i)
  <2>1. /\ Head(stdin[i]) \in Requests
        /\ Tail(stdin[i]) \in Seq(Requests)
    BY <1>3, SequenceFacts DEF ProcRead
  <2> QED BY <1>3, <2>1 DEF ProcRead
<1>4. ASSUME NEW kind \in {"finding", "bad"}, ProcPrint(i, kind) PROVE TypeOK'
  BY <1>4, <1>1, Names DEF ProcPrint
<1>5. CASE ProcEnd(i)
  BY <1>5, <1>1, Names DEF ProcEnd
<1>6. CASE ProcEOF(i)
  BY <1>6 DEF ProcEOF
<1>7. CASE ProcCrash(i) \/ ProcHang(i)
  BY <1>7 DEF ProcCrash, ProcHang
<1> QED BY <1>2, <1>3, <1>4, <1>5, <1>6, <1>7 DEF ProcStep

LEMMA LoopType ==
    ASSUME TypeOK, NEW i \in Instances, Turn(i), LoopStep(i) \/ BackendTimeout(i)
    PROVE  TypeOK'
<1> USE DEF TypeOK, procVars, Serving, LoopStates
<1>1. ASSUME StartProcess(i)
      PROVE  /\ proc' \in [Instances -> ProcStates]
             /\ job' \in [Instances -> Requests \cup {None}]
             /\ stdin' \in [Instances -> Seq(Requests)]
             /\ stdinOpen' \in [Instances -> BOOLEAN]
             /\ stdout' \in [Instances -> Seq(Tokens)]
  BY <1>1, EmptySeq DEF StartProcess, ProcStates
<1>2. CASE Start(i)
  BY <1>2, <1>1 DEF Start
<1>3. CASE StartAborted(i) \/ Stopped(i)
  BY <1>3 DEF StartAborted, Stopped
<1>4. CASE WarmUp(i)
  <2>1. stdout' \in [Instances -> Seq(Tokens)]
    BY <1>4, SequenceFacts DEF WarmUp
  <2> QED BY <1>4, <2>1 DEF WarmUp
<1>5. CASE Restart(i)
  BY <1>5, <1>1 DEF Restart, RestartProcess
<1>6. CASE Stop(i)
  BY <1>6 DEF Stop, StdinAfterStop
<1>7. ASSUME NEW r \in Requests, Take(i, r) PROVE TypeOK'
  BY <1>7 DEF Take, Hold
<1>8. CASE Write(i)
  <2>1. Append(stdin[i], cur[i]) \in Seq(Requests)
    BY <1>8, SequenceFacts DEF Write, Turn
  <2> QED BY <1>8, <2>1 DEF Write, Fail
<1>9. CASE Scan(i)
  <2>1. stdout' \in [Instances -> Seq(Tokens)]
    BY <1>9, SequenceFacts DEF Scan
  <2> QED BY <1>9, <2>1 DEF Scan, AfterFinding
<1>10. CASE ScanError(i)
  BY <1>10 DEF ScanError, Fail
<1>11. CASE Send(i)
  BY <1>11 DEF Send, AfterSend, AfterDrop
<1>12. CASE BackendTimeout(i)
  BY <1>12 DEF BackendTimeout, loopVars
<1> QED
  BY <1>2, <1>3, <1>4, <1>5, <1>6, <1>7, <1>8, <1>9, <1>10, <1>11, <1>12 DEF LoopStep

-----------------------------------------------------------------------------
(* One instance.                                                           *)

\* An instance is disturbed by its own steps only.
LEMMA OthersUntouched ==
    ASSUME TypeOK, NEW i \in Instances, NEW j \in Instances, i # j, InstanceStep(i)
    PROVE  /\ pc'[j] = pc[j] /\ cur'[j] = cur[j] /\ timedOut'[j] = timedOut[j]
           /\ proc'[j] = proc[j] /\ job'[j] = job[j]
           /\ stdin'[j] = stdin[j] /\ stdout'[j] = stdout[j]
<1> USE DEF TypeOK, loopVars, procVars
<1>1. CASE ProcStep(i) \/ ProcCrash(i) \/ ProcHang(i)
  BY <1>1 DEF ProcStep, ProcUp, ProcRead, ProcPrint, ProcEnd, ProcEOF, ProcCrash,
              ProcHang, Emit
<1>2. CASE Start(i) \/ StartAborted(i) \/ WarmUp(i) \/ Restart(i) \/ Stop(i)
           \/ Stopped(i)
  BY <1>2 DEF Start, StartAborted, WarmUp, Restart, RestartProcess, StartProcess, Stop,
              Stopped
<1>3. ASSUME NEW r \in Requests, Take(i, r)
      PROVE  UNCHANGED <<timedOut, procVars>> /\ pc'[j] = pc[j] /\ cur'[j] = cur[j]
  BY <1>3 DEF Take, Hold
<1>4. CASE Write(i) \/ Scan(i) \/ ScanError(i)
  BY <1>4 DEF Write, Fail, Scan, ScanError
<1>5. CASE Send(i) \/ BackendTimeout(i)
  BY <1>5 DEF Send, BackendTimeout
<1> QED BY <1>1, <1>2, <1>3, <1>4, <1>5 DEF InstanceStep, LoopStep

LEMMA LocalUntouched ==
    ASSUME NEW j \in Instances, LocalInv(j),
           /\ pc'[j] = pc[j] /\ cur'[j] = cur[j] /\ timedOut'[j] = timedOut[j]
           /\ proc'[j] = proc[j] /\ job'[j] = job[j]
           /\ stdin'[j] = stdin[j] /\ stdout'[j] = stdout[j]
    PROVE  LocalInv(j)'
BY DEF LocalInv, Mine, Order, Quiet, WarmUpInv, FailureSeen, BadToken, Turn

\* The process keeps the order of the pipes, whatever the loop does meanwhile.
LEMMA ProcLocal ==
    ASSUME TypeOK, NEW i \in Instances, LocalInv(i),
           ProcStep(i) \/ ProcCrash(i) \/ ProcHang(i)
    PROVE  LocalInv(i)'
<1> USE BackendAssumption, SequenceFacts
    DEF BackendAssumption, TypeOK, LocalInv, Mine, Order, Quiet, WarmUpInv, FailureSeen,
        BadToken, Turn, loopVars, procVars
<1>1. CASE ProcUp(i)
  BY <1>1, Names DEF ProcUp, Emit, ReadyToken, Answering, Warming
<1>2. CASE ProcRead(i)
  BY <1>2 DEF ProcRead, Answering, Warming
<1>3. ASSUME NEW kind \in {"finding", "bad"}, ProcPrint(i, kind) PROVE LocalInv(i)'
  BY <1>3, Names DEF ProcPrint, Emit, Answering, Warming
<1>4. CASE ProcEnd(i)
  <2> DEFINE end == [kind |-> "end", of |-> job[i]]
  <2>1. /\ stdout'[i] = Append(stdout[i], end)
        /\ job'[i] = None
        /\ end \in Tokens /\ end.of = cur[i] /\ end.kind = "end"
        /\ pc[i] \in Answering
    <3>1. job[i] \in Requests /\ pc[i] \in Answering
      BY <1>4 DEF ProcEnd
    <3>2. end \in Tokens
      BY <3>1, Names
    <3> QED BY <1>4, <3>1, <3>2 DEF ProcEnd, Emit
  <2>2. UNCHANGED <<pc, cur, timedOut, proc, stdin>> /\ stdin[i] = <<>>
    BY <1>4 DEF ProcEnd
  <2> HIDE DEF end
  <2>3. \A k \in 1 .. Len(stdout[i]) : stdout[i][k].kind # "end"
    BY <1>4 DEF ProcEnd
  <2>4. ASSUME NEW k \in 1 .. Len(stdout'[i])
        PROVE  /\ stdout'[i][k].of \in {None, cur[i]}
               /\ stdout'[i][k].kind = "end" => k = Len(stdout'[i])
    BY <2>1, <2>3, InAppend
  <2>5. Mine(i)' /\ Order(i)'
    BY <2>1, <2>2, <2>4
  <2>6. Quiet(i)' /\ WarmUpInv(i)' /\ Turn(i)'
    BY <2>1, <2>2 DEF Answering, Warming
  <2>7. FailureSeen(i)'
    <3>1. /\ stdout'[i] # <<>>
          /\ stdout[i] # <<>> => Head(stdout'[i]) = Head(stdout[i])
      <4>1. stdout[i] \in Seq(Tokens)
        OBVIOUS
      <4> QED BY ONLY <2>1, <4>1, HeadOfAppend
    <3> QED BY <2>2, <3>1
  <2> QED BY <2>5, <2>6, <2>7
<1>5. CASE ProcEOF(i) \/ ProcCrash(i) \/ ProcHang(i)
  <2>1. /\ UNCHANGED <<pc, cur, timedOut, job, stdin, stdout>>
        /\ proc'[i] \in {"dead", "hung"}
    BY <1>5 DEF ProcEOF, ProcCrash, ProcHang
  <2> QED BY <2>1
<1> QED BY <1>1, <1>2, <1>3, <1>4, <1>5 DEF ProcStep

\* The loop leaves a turn only when everything of it has been read or thrown away.
LEMMA LoopLocal ==
    ASSUME TypeOK, NEW i \in Instances, LocalInv(i), LoopStep(i) \/ BackendTimeout(i)
    PROVE  LocalInv(i)'
<1> USE BackendAssumption
    DEF BackendAssumption, TypeOK, LocalInv, Mine, Order, Quiet, WarmUpInv, FailureSeen,
        Turn, Answering, Warming, Serving, procVars
<1>1. CASE Start(i)
  BY <1>1 DEF Start, StartProcess, BadToken
<1>2. CASE StartAborted(i) \/ Stop(i) \/ Stopped(i)
  BY <1>2 DEF StartAborted, Stop, Stopped, BadToken
<1>3. CASE WarmUp(i)
  <2>1. stdout'[i] = <<>>
    BY <1>3, SequenceFacts DEF WarmUp, WarmUpEnds
  <2>2. i \in HasReady => proc[i] # "init"
    BY <1>3 DEF WarmUp, WarmUpEnds
  <2> QED BY <1>3, <2>1, <2>2 DEF WarmUp
<1>4. CASE Restart(i)
  BY <1>4 DEF Restart, RestartProcess, StartProcess
<1>5. ASSUME NEW r \in Requests, Take(i, r) PROVE LocalInv(i)'
  BY <1>5 DEF Take, Hold
<1>6. CASE Write(i)
  <2>1. /\ stdin[i] = <<>> /\ job[i] = None /\ stdout[i] = <<>>
        /\ cur[i] \in Requests
        /\ UNCHANGED <<cur, timedOut, proc, job, stdout>>
        /\ i \in HasReady => proc[i] # "init"
    BY <1>6 DEF Write
  <2>2. CASE stdin' = [stdin EXCEPT ![i] = Append(@, cur[i])] /\ pc'[i] = "scan"
    <3>1. Len(stdin'[i]) = 1 /\ stdin'[i][1] = cur[i]
      BY <2>1, <2>2, SequenceFacts
    <3> QED BY <2>1, <2>2, <3>1, SequenceFacts
  <2>3. CASE /\ proc[i] = "dead" \/ timedOut[i]
             /\ pc'[i] \in {"fatal", "restart"}
             /\ UNCHANGED stdin
    BY <2>1, <2>3
  <2> QED BY <1>6, <2>2, <2>3 DEF Write, Fail
<1>7. CASE Scan(i)
  <2>1. /\ stdout'[i] = Tail(stdout[i])
        /\ UNCHANGED <<cur, timedOut, proc, job, stdin>>
        /\ cur[i] \in Requests
        /\ i \in HasReady => proc[i] # "init"
    BY <1>7 DEF Scan
  <2>2. /\ Len(stdout'[i]) = Len(stdout[i]) - 1 /\ Len(stdout[i]) \in Nat
        /\ Len(stdout[i]) = 1 => stdout'[i] = <<>>
        /\ Head(stdout[i]) = stdout[i][1] /\ 1 \in 1 .. Len(stdout[i])
    BY <1>7, <2>1, SequenceFacts, EmptyIffNoLength DEF Scan
  <2>3. Mine(i)' /\ Order(i)'
    <3>1. ASSUME NEW k \in 1 .. Len(stdout'[i])
          PROVE  k + 1 \in 1 .. Len(stdout[i]) /\ stdout'[i][k] = stdout[i][k + 1]
      BY <1>7, <2>1, InTail DEF Scan
    <3>2. ASSUME NEW k \in 1 .. Len(stdout'[i])
          PROVE  /\ stdout'[i][k].of \in {None, cur[i]}
                 /\ stdout'[i][k].kind = "end" =>
                        k = Len(stdout'[i]) /\ stdin[i] = <<>> /\ job[i] = None
      <4>1. k + 1 = Len(stdout[i]) => k = Len(stdout'[i])
        BY <2>2
      <4> QED BY <3>1, <4>1
    <3> QED BY <2>1, <2>2, <3>2
  <2>4. CASE pc'[i] \in {"scan", "send"}
    BY <2>1, <2>3, <2>4
  <2>5. CASE Head(stdout[i]).kind = "end" /\ pc'[i] = "meta"
    <3>1. stdin[i] = <<>> /\ job[i] = None /\ stdout'[i] = <<>>
      BY <2>2, <2>5
    <3> QED BY <2>1, <2>3, <2>5, <3>1
  <2> QED BY <1>7, <2>4, <2>5 DEF Scan, AfterFinding
<1>8. CASE ScanError(i)
  BY <1>8 DEF ScanError, Fail, BadToken
<1>9. CASE Send(i)
  BY <1>9 DEF Send, AfterSend, AfterDrop, BadToken
<1>10. CASE BackendTimeout(i)
  BY <1>10 DEF BackendTimeout, loopVars, BadToken
<1> QED
  BY <1>1, <1>2, <1>3, <1>4, <1>5, <1>6, <1>7, <1>8, <1>9, <1>10 DEF LoopStep

-----------------------------------------------------------------------------
(* All instances.                                                          *)

LEMMA NotAnInstance == None \notin Instances
BY BackendAssumption DEF BackendAssumption

\* A process, and an instance past its warm-up, leave the mutex alone.
LEMMA MutexStep ==
    ASSUME TypeOK, MutexHeld, NEW i \in Instances, InstanceStep(i)
    PROVE  MutexHeld'
<1> USE DEF TypeOK, MutexHeld, loopVars, procVars
<1>1. CASE ProcStep(i) \/ ProcCrash(i) \/ ProcHang(i) \/ BackendTimeout(i)
  BY <1>1 DEF ProcStep, ProcUp, ProcRead, ProcPrint, ProcEnd, ProcEOF, ProcCrash,
              ProcHang, BackendTimeout
<1>2. CASE Start(i)
  BY <1>2, NotAnInstance DEF Start
<1>3. CASE WarmUp(i)
  BY <1>3, NotAnInstance DEF WarmUp
<1>4. CASE StartAborted(i) \/ Restart(i) \/ Stop(i) \/ Stopped(i)
  BY <1>4 DEF StartAborted, Restart, Stop, Stopped
<1>5. ASSUME NEW r \in Requests, Take(i, r) PROVE MutexHeld'
  BY <1>5 DEF Take
<1>6. CASE Write(i) \/ Scan(i) \/ ScanError(i)
  BY <1>6 DEF Write, Fail, Scan, AfterFinding, ScanError
<1>7. CASE Send(i)
  BY <1>7 DEF Send, AfterSend, AfterDrop
<1> QED BY <1>1, <1>2, <1>3, <1>4, <1>5, <1>6, <1>7 DEF InstanceStep, LoopStep

LEMMA IInvStep == IInv /\ [Next]_vars => IInv'
<1> SUFFICES ASSUME IInv, [Next]_vars PROVE IInv'
  OBVIOUS
<1> USE DEF IInv
<1>1. ASSUME NEW i \in Instances, InstanceStep(i) PROVE IInv'
  <2>1. TypeOK'
    BY <1>1, ProcType, LoopType DEF InstanceStep, LocalInv
  <2>2. MutexHeld'
    BY <1>1, MutexStep
  <2>3. LocalInv(i)'
    BY <1>1, ProcLocal, LoopLocal DEF InstanceStep
  <2>4. ASSUME NEW j \in Instances, j # i PROVE LocalInv(j)'
    BY <1>1, <2>4, OthersUntouched, LocalUntouched
  <2> QED BY <2>1, <2>2, <2>3, <2>4
<1>2. ASSUME UNCHANGED <<loopVars, procVars>>, TypeOK' PROVE IInv'
  BY <1>2, LocalUntouched DEF MutexHeld, loopVars, procVars
<1>3. ASSUME NEW r \in Requests, Expire(r) PROVE IInv'
  <2>1. TypeOK'
    BY <1>3 DEF Expire, TypeOK, loopVars, procVars
  <2> QED BY <1>2, <1>3, <2>1 DEF Expire
<1>4. CASE Signal
  <2>1. TypeOK'
    BY <1>4 DEF Signal, TypeOK, loopVars, procVars
  <2> QED BY <1>2, <1>4, <2>1 DEF Signal
<1>5. CASE UNCHANGED vars
  <2>1. TypeOK'
    BY <1>5 DEF vars, TypeOK, loopVars, procVars
  <2> QED BY <1>2, <1>5, <2>1 DEF vars
<1> QED BY <1>1, <1>3, <1>4, <1>5 DEF Next, InstanceStep

\* The inductive invariant holds in every behaviour of the instances.
LEMMA Inductive == Spec => []IInv
BY InitIInv, IInvStep, PTL DEF Spec

-----------------------------------------------------------------------------
(* The theorems.                                                           *)

\* Every variable of the instances, their processes and pipes keeps its type.
THEOREM BackendTypeCorrect == Spec => []TypeOK
<1>1. IInv => TypeOK
  BY DEF IInv
<1> QED BY Inductive, <1>1, PTL

\* Nothing that is on its way between a server loop and its process belongs to
\* another request than the one the loop serves (linter.go: the loop sends what
\* it scans to the client it holds, and nothing on the line names a client).
THEOREM PipesStayInStep == Spec => []InStep
<1>1. ASSUME IInv, NEW i \in Instances PROVE InFlight(i) \subseteq {cur[i]}
  <2>1. Mine(i)
    BY <1>1 DEF IInv, LocalInv
  <2> QED BY <2>1 DEF InFlight, Mine
<1>2. IInv => InStep
  BY <1>1 DEF InStep
<1> QED BY Inductive, <1>2, PTL

\* handleRequests_external restarts a process only when it died or hung, when
\* what it printed did not parse, or when it used up the backend timeout; never
\* because a client went away.
THEOREM RestartsHaveACause == Spec => KilledOnlyAfterFailure
<1>1. ASSUME IInv, NEW i \in Instances, pc[i] = "restart"
      PROVE  proc[i] \in {"dead", "hung"} \/ BadToken(i) \/ timedOut[i]
  BY <1>1 DEF IInv, LocalInv, FailureSeen
<1>2. IInv /\ [Next]_vars =>
          [\A i \in Instances :
              pc[i] = "restart" /\ pc'[i] = "rewarm" =>
                  proc[i] \in {"dead", "hung"} \/ BadToken(i) \/ timedOut[i]]_vars
  BY <1>1
<1> QED BY Inductive, <1>2, PTL DEF Spec, KilledOnlyAfterFailure

\* The part of "one initialisation at a time" (linter.go:91) that the code keeps:
\* backendInitMutex is held by one first warm-up, and by nothing else.  A warm-up
\* after a restart runs without it, which is what OneWarmUpAtATime trips over.
THEOREM FirstWarmUpsAlone ==
    Spec => [](\A i, j \in Instances : pc[i] = "warm" /\ pc[j] = "warm" => i = j)
<1>1. IInv => \A i, j \in Instances : pc[i] = "warm" /\ pc[j] = "warm" => i = j
  BY DEF IInv, MutexHeld
<1> QED BY Inductive, <1>1, PTL

-----------------------------------------------------------------------------
(* Backend implements ServerLoop.                                          *)

LEMMA Places ==
    /\ Place("init") = "away" /\ Place("warm") = "away" /\ Place("idle") = "idle"
    /\ Place("write") = "working" /\ Place("scan") = "working"
    /\ Place("send") = "sending" /\ Place("fatal") = "failing"
    /\ Place("restart") = "mending" /\ Place("rewarm") = "mending"
    /\ Place("meta") = "closing" /\ Place("end") = "closing"
    /\ Place("closing") = "over" /\ Place("exited") = "over"
BY DEF Place

LEMMA LoopsInit == Init => Loops!Init
<1> SUFFICES ASSUME Init PROVE Loops!Init
  OBVIOUS
<1> USE BackendAssumption DEF BackendAssumption, Init
<1>1. pc \in [Instances -> {"init", "exited"}] /\ waiting \subseteq Requests
  OBVIOUS
<1>2. [i \in Instances |-> Place(pc[i])] \in [Instances -> {"away", "over"}]
  BY <1>1, Places
<1>3. [l \in {"linter"} |-> waiting] \in [{"linter"} -> SUBSET Requests]
  BY <1>1
<1>4. cur = [i \in Instances |-> Loops!None]
  BY DEF None, Loops!None
<1> HIDE BackendAssumption DEF BackendAssumption, Init
<1>5. gone = [i \in Instances |-> FALSE] /\ expired = {} /\ stopping = FALSE
  BY DEF Init
<1> QED BY <1>2, <1>3, <1>4, <1>5 DEF Loops!Init

\* Where a loop goes when it goes, and nothing else that ServerLoop sees changes.
LEMMA LoopsGoes ==
    ASSUME TypeOK, NEW i \in Instances, NEW state,
           pc' = [pc EXCEPT ![i] = state], UNCHANGED <<cur, gone, waiting, expired, stopping>>
    PROVE  /\ Loops!Goes(i, Place(pc[i]), Place(state))
           /\ Place(pc[i]) = Place(state) => UNCHANGED Loops!loopsVars
<1> DEFINE place == [j \in Instances |-> Place(pc[j])]
<1>1. place' = [place EXCEPT ![i] = Place(state)]
  <2>1. ASSUME NEW j \in Instances PROVE place'[j] = [place EXCEPT ![i] = Place(state)][j]
    BY DEF TypeOK
  <2> QED BY <2>1
<1>2. place[i] = Place(pc[i])
  OBVIOUS
<1>3. Place(pc[i]) = Place(state) => place' = place
  BY <1>1, <1>2
<1> HIDE DEF place
<1>4. Loops!Goes(i, Place(pc[i]), Place(state))
  BY <1>1, <1>2 DEF Loops!Goes, place
<1>5. Place(pc[i]) = Place(state) => UNCHANGED Loops!loopsVars
  BY <1>3 DEF Loops!loopsVars, Loops!loopVars, place
<1> QED BY <1>4, <1>5

\* A step that ServerLoop does not see.
LEMMA LoopsStutter ==
    ASSUME UNCHANGED <<pc, cur, gone, waiting, expired, stopping>>
    PROVE  UNCHANGED Loops!loopsVars
BY DEF Loops!loopsVars, Loops!loopVars

LEMMA LoopsTake ==
    ASSUME TypeOK, NEW i \in Instances, NEW r \in Requests, Take(i, r)
    PROVE  Loops!Take(i, r) \/ Loops!Skip(i, r)
<1> DEFINE place == [j \in Instances |-> Place(pc[j])]
           due == [l \in {"linter"} |-> waiting]
<1>1. place[i] = "idle" /\ r \in due["linter"]
  BY Places DEF Take
<1>2. due' = [due EXCEPT !["linter"] = @ \ {r}]
  <2>1. waiting' = waiting \ {r}
    BY DEF Take
  <2> QED BY <2>1
<1>3. UNCHANGED <<gone, expired, stopping>>
  BY DEF Take
<1>4. Loops!Receives(i, r)
  BY <1>1, <1>2, <1>3 DEF Loops!Receives
<1>5. CASE r \in expired
  <2>1. UNCHANGED <<pc, cur>>
    BY <1>5 DEF Take
  <2> QED BY <1>4, <1>5, <2>1 DEF Loops!Skip
<1>6. CASE r \notin expired
  <2>1. pc' = [pc EXCEPT ![i] = "write"] /\ cur' = [cur EXCEPT ![i] = r]
    BY <1>6 DEF Take, Hold
  <2>2. place' = [place EXCEPT ![i] = "working"]
    BY <2>1, Places DEF TypeOK
  <2> QED BY <1>4, <1>6, <2>1, <2>2 DEF Loops!Take
<1> QED BY <1>5, <1>6

\* A result is sent or, after the deadline, is not; a META result alone does not end the turn.
LEMMA LoopsSend ==
    ASSUME TypeOK, NEW i \in Instances, Send(i)
    PROVE  Loops!Sends(i) \/ UNCHANGED Loops!loopsVars
<1> DEFINE place == [j \in Instances |-> Place(pc[j])]
<1>1. /\ pc[i] \in {"send", "fatal", "meta", "end"}
      /\ pc' = [pc EXCEPT ![i] = AfterSend(i)]
      /\ cur' = [cur EXCEPT ![i] = IF pc[i] = "end" THEN None ELSE @]
      /\ UNCHANGED <<waiting, expired, stopping>>
  BY DEF Send, AfterDrop
<1>2. \/ gone' = [gone EXCEPT ![i] = @ /\ pc[i] # "end"]
      \/ /\ cur[i] \in expired
         /\ gone' = [gone EXCEPT ![i] = pc[i] = "send" \/ (@ /\ pc[i] # "end")]
  BY DEF Send
<1>3. CASE pc[i] = "meta"
  <2>1. pc' = [pc EXCEPT ![i] = "end"]
    BY <1>1, <1>3 DEF AfterSend
  <2>2. cur' = cur /\ gone' = gone
    BY <1>1, <1>2, <1>3 DEF TypeOK
  <2>3. Place(pc[i]) = Place("end")
    BY <1>3, Places
  <2>4. UNCHANGED <<cur, gone, waiting, expired, stopping>>
    BY <1>1, <2>2
  <2> QED BY <2>1, <2>3, <2>4, LoopsGoes
<1>4. CASE pc[i] # "meta"
  <2>1. place[i] \in Loops!Sending
    BY <1>1, <1>4, Places DEF Loops!Sending
  <2>2. Place(AfterSend(i)) = Loops!AfterResult(i)
    BY <1>1, <1>4, Places DEF AfterSend, Loops!AfterResult
  <2>3. place' = [j \in Instances |-> IF j \in {i} THEN Loops!AfterResult(j) ELSE place[j]]
    BY <1>1, <2>2 DEF TypeOK
  <2>4. place[i] = "closing" <=> pc[i] = "end"
    BY <1>1, <1>4, Places
  <2>5. cur' = [j \in Instances |-> IF j \in {i} /\ place[j] = "closing" THEN Loops!None ELSE cur[j]]
    BY <1>1, <2>4 DEF TypeOK, None, Loops!None
  <2>6. place[i] = "sending" <=> pc[i] = "send"
    BY <1>1, <1>4, Places
  <2> DEFINE Quiet2(delivered) == [j \in Instances |->
                    IF j \notin {i} THEN gone[j]
                    ELSE IF place[j] = "closing" THEN FALSE
                    ELSE gone[j] \/ (~delivered /\ place[j] = "sending" /\ j \in Instances)]
  <2>7. gone' = Quiet2(TRUE) \/ (cur[i] \in expired /\ gone' = Quiet2(FALSE))
    BY <1>1, <1>2, <2>4, <2>6 DEF TypeOK
  <2>8. UNCHANGED <<[l \in {"linter"} |-> waiting], stopping>>
    BY <1>1
  <2> HIDE DEF place
  <2>9. /\ gone' = Quiet2(TRUE) => Loops!AreDone({i}, TRUE)
        /\ gone' = Quiet2(FALSE) => Loops!AreDone({i}, FALSE)
    BY <2>3, <2>5, <2>8 DEF Loops!AreDone, place
  <2> HIDE DEF Quiet2
  <2> QED BY <1>1, <2>1, <2>7, <2>9 DEF Loops!Sends, place
<1> QED BY <1>3, <1>4

\* A deadline that passes does not release a loop here: that is its next step.
LEMMA LoopsExpire ==
    ASSUME TypeOK, NEW r \in Requests, Expire(r)
    PROVE  Loops!Expire(r)
<1> DEFINE place == [j \in Instances |-> Place(pc[j])]
<1>1. expired' = expired \cup {r} /\ UNCHANGED <<pc, cur, gone, waiting, stopping>>
  BY DEF Expire, loopVars
<1>2. Loops!AreDone({}, FALSE)
  BY <1>1 DEF Loops!AreDone, TypeOK
<1> QED BY <1>1, <1>2 DEF Loops!Expire

LEMMA LoopsStep == IInv /\ [Next]_vars => [Loops!Next]_(Loops!loopsVars)
<1> SUFFICES ASSUME IInv, [Next]_vars
             PROVE  [Loops!Next]_(Loops!loopsVars)
  OBVIOUS
<1>0. TypeOK
  BY DEF IInv
<1>1. ASSUME NEW i \in Instances,
             ProcStep(i) \/ ProcCrash(i) \/ ProcHang(i) \/ BackendTimeout(i)
      PROVE  UNCHANGED Loops!loopsVars
  <2>1. UNCHANGED <<pc, cur, gone, waiting, expired, stopping>>
    BY <1>1 DEF ProcStep, ProcUp, ProcRead, ProcPrint, ProcEnd, ProcEOF, ProcCrash, ProcHang,
                BackendTimeout, loopVars
  <2> QED BY <2>1, LoopsStutter
<1>2. ASSUME NEW i \in Instances, LoopStep(i)
      PROVE  [Loops!Next]_(Loops!loopsVars)
  <2>1. CASE Start(i) \/ Restart(i) \/ Stopped(i)
    BY <1>0, <2>1, LoopsGoes, Places DEF Start, Restart, Stopped
  <2>2. CASE StartAborted(i) \/ Stop(i)
    <3>1. Loops!Leave(i)
      BY <1>0, <2>2, LoopsGoes, Places DEF StartAborted, Stop, Loops!Leave
    <3> QED BY <3>1 DEF Loops!Next
  <2>3. CASE WarmUp(i)
    <3>1. Loops!Serve(i) \/ Loops!Mended(i)
      BY <1>0, <2>3, LoopsGoes, Places DEF WarmUp, Loops!Serve, Loops!Mended
    <3> QED BY <3>1 DEF Loops!Next
  <2>4. ASSUME NEW r \in Requests, Take(i, r) PROVE Loops!Next
    BY <1>0, <2>4, LoopsTake DEF Loops!Next
  <2>5. ASSUME pc[i] \in {"write", "scan"}, Fail(i),
               UNCHANGED <<cur, gone, waiting, expired, stopping>>
        PROVE  Loops!Next
    <3>1. Loops!Goes(i, "working", IF gone[i] THEN "mending" ELSE "failing")
      BY <1>0, <2>5, LoopsGoes, Places DEF Fail
    <3>2. Loops!Fails(i)
      BY <3>1 DEF Loops!Fails
    <3> QED BY <3>2 DEF Loops!Next
  <2>6. CASE Write(i)
    <3>1. UNCHANGED <<cur, gone, waiting, expired, stopping>>
      BY <2>6 DEF Write
    <3>2. CASE pc' = [pc EXCEPT ![i] = "scan"]
      BY <1>0, <2>6, <3>1, <3>2, LoopsGoes, Places DEF Write
    <3> QED BY <2>5, <2>6, <3>1, <3>2 DEF Write
  <2>7. CASE Scan(i)
    <3>1. /\ pc[i] = "scan" /\ UNCHANGED <<cur, gone, waiting, expired, stopping>>
          /\ \/ pc' = [pc EXCEPT ![i] = AfterFinding(i)]
             \/ pc' = [pc EXCEPT ![i] = "meta"]
      BY <2>7 DEF Scan
    <3>2. CASE pc' = [pc EXCEPT ![i] = "meta"]
      <4>1. Loops!Finishes(i)
        BY <1>0, <3>1, <3>2, LoopsGoes, Places DEF Loops!Finishes
      <4> QED BY <4>1 DEF Loops!Next
    <3>3. CASE pc' = [pc EXCEPT ![i] = "scan"]
      BY <1>0, <3>1, <3>3, LoopsGoes
    <3>4. CASE pc' = [pc EXCEPT ![i] = "send"] /\ ~gone[i]
      <4>1. Loops!Finds(i)
        BY <1>0, <3>1, <3>4, LoopsGoes, Places DEF Loops!Finds
      <4> QED BY <4>1 DEF Loops!Next
    <3> QED BY <3>1, <3>2, <3>3, <3>4 DEF AfterFinding
  <2>8. CASE ScanError(i)
    BY <2>5, <2>8 DEF ScanError
  <2>9. CASE Send(i)
    BY <1>0, <2>9, LoopsSend DEF Loops!Next
  <2> QED BY <1>2, <2>1, <2>2, <2>3, <2>4, <2>6, <2>7, <2>8, <2>9 DEF LoopStep
<1>3. ASSUME NEW r \in Requests, Expire(r) PROVE Loops!Next
  BY <1>0, <1>3, LoopsExpire DEF Loops!Next
<1>4. CASE Signal
  <2>1. Loops!Stop
    BY <1>4 DEF Signal, loopVars, Loops!Stop, Loops!loopVars
  <2> QED BY <2>1 DEF Loops!Next
<1>5. CASE UNCHANGED vars
  BY <1>5, LoopsStutter DEF vars, loopVars
<1> QED BY <1>1, <1>2, <1>3, <1>4, <1>5 DEF Next

\* An external instance, with its process, its pipes, the backend timeout and the restarts,
\* is a server loop as ServerLoop describes it: it receives no request after its deadline,
\* closes every turn, mends a failure before that, leaves a result undelivered only after the
\* deadline, sends no finding after one went undelivered, and ends between turns only
\* (serverLoop and sendResult of linter.go).
THEOREM BackendImplementsLoop == Spec => LoopsSpec
BY Inductive, LoopsInit, LoopsStep, PTL DEF Spec, LoopsSpec, Loops!Spec
=============================================================================
