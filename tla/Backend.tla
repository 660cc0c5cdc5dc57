------------------------------ MODULE Backend ------------------------------
(***************************************************************************)
(* The instances of external linters (linter/linter.go): the process       *)
(* behind an instance, its STDIN and STDOUT pipes, the start that          *)
(* backendInitMutex serialises, the warm-up, the request/response protocol *)
(* under the backend timeout, the restart after a failure and the          *)
(* shutdown.  Dispatch sees of all this only tokens and errors.            *)
(*                                                                         *)
(* A request travels down STDIN as one item and is answered on STDOUT by   *)
(* tokens that remember which request they answer; the server loop never   *)
(* looks at that mark, it relies on the pipes being in step.               *)
(***************************************************************************)
EXTENDS Integers, Sequences, FiniteSets

CONSTANTS
    Instances,      \* instances of external linters
    HasReady,       \* those whose linter has a ReadySignal
    Requests,       \* the requests they receive, each once
    Loads,          \* bound: the instances that are started together and the
                    \* requests that come, by behaviour
    PipeBound       \* bound: tokens in a STDOUT pipe

None == "none"

ASSUME BackendAssumption ==
    /\ HasReady \subseteq Instances
    /\ Loads \subseteq [instances : SUBSET Instances, requests : SUBSET Requests]
    /\ PipeBound \in Nat \ {0}
    /\ None \notin Requests \cup Instances

VARIABLES
    pc,         \* instance -> where its server loop stands
    cur,        \* instance -> the request it serves
    gone,       \* instance -> clientGone
    timedOut,   \* instance -> backendDeadline has passed
    initMutex,  \* the instance that holds backendInitMutex
    waiting,    \* requests still in the request channel
    expired,    \* requests whose deadline has passed
    proc,       \* instance -> state of its backend process
    job,        \* instance -> request its backend process works on
    stdin,      \* instance -> requests in the STDIN pipe
    stdinOpen,  \* instance -> the write end of STDIN is open
    stdout,     \* instance -> tokens in the STDOUT pipe
    stopping    \* the context that main gave to the loops is done

loopVars == <<pc, cur, gone, timedOut, initMutex, waiting>>
procVars == <<proc, job, stdin, stdinOpen, stdout>>
vars     == <<loopVars, procVars, expired, stopping>>

Serving    == {"write", "scan", "send", "fatal", "restart", "rewarm", "meta", "end"}
LoopStates == Serving \cup {"init", "warm", "idle", "closing", "exited"}
ProcStates == {"none", "init", "up", "hung", "dead"}

ReadyToken == [kind |-> "ready", of |-> None]
Tokens     == {ReadyToken} \cup [kind : {"finding", "bad", "end"}, of : Requests]

\* An instance that is not configured has no server loop.
Init ==
    /\ \E load \in Loads :
          /\ pc = [i \in Instances |->
                     IF i \in load.instances THEN "init" ELSE "exited"]
          /\ waiting = load.requests
    /\ cur = [i \in Instances |-> None]
    /\ gone = [i \in Instances |-> FALSE]
    /\ timedOut = [i \in Instances |-> FALSE]
    /\ initMutex = None
    /\ expired = {}
    /\ proc = [i \in Instances |-> "none"]
    /\ job = [i \in Instances |-> None]
    /\ stdin = [i \in Instances |-> <<>>]
    /\ stdinOpen = [i \in Instances |-> FALSE]
    /\ stdout = [i \in Instances |-> <<>>]
    /\ stopping = FALSE

-----------------------------------------------------------------------------
(* The backend process, as the scripts that the handlers embed behave.     *)

Emit(i, t) ==
    /\ Len(stdout[i]) < PipeBound
    /\ stdout' = [stdout EXCEPT ![i] = Append(@, t)]

\* Initialisation ends; a backend with a ReadySignal says so.
ProcUp(i) ==
    /\ proc[i] = "init"
    /\ proc' = [proc EXCEPT ![i] = "up"]
    /\ IF i \in HasReady THEN Emit(i, ReadyToken) ELSE UNCHANGED stdout
    /\ UNCHANGED <<loopVars, job, stdin, stdinOpen, expired, stopping>>

ProcRead(i) ==
    /\ proc[i] = "up"
    /\ job[i] = None
    /\ stdin[i] # <<>>
    /\ job' = [job EXCEPT ![i] = Head(stdin[i])]
    /\ stdin' = [stdin EXCEPT ![i] = Tail(@)]
    /\ UNCHANGED <<loopVars, proc, stdinOpen, stdout, expired, stopping>>

\* A line of output: a finding, or something that parseResultToken rejects, such as
\* the second line of an exception's text, or a line too long for the Scanner.
ProcPrint(i, kind) ==
    /\ proc[i] = "up"
    /\ job[i] # None
    /\ Emit(i, [kind |-> kind, of |-> job[i]])
    /\ UNCHANGED <<loopVars, proc, job, stdin, stdinOpen, expired, stopping>>

ProcEnd(i) ==
    /\ proc[i] = "up"
    /\ job[i] # None
    /\ Emit(i, [kind |-> "end", of |-> job[i]])
    /\ job' = [job EXCEPT ![i] = None]
    /\ UNCHANGED <<loopVars, proc, stdin, stdinOpen, expired, stopping>>

\* The process dies, at any time; what it printed can still be read.
ProcCrash(i) ==
    /\ proc[i] \in {"init", "up"}
    /\ proc' = [proc EXCEPT ![i] = "dead"]
    /\ UNCHANGED <<loopVars, job, stdin, stdinOpen, stdout, expired, stopping>>

\* The process hangs on a request.
ProcHang(i) ==
    /\ proc[i] = "up"
    /\ job[i] # None
    /\ proc' = [proc EXCEPT ![i] = "hung"]
    /\ UNCHANGED <<loopVars, job, stdin, stdinOpen, stdout, expired, stopping>>

\* The script's loop over STDIN ends and the process exits.
ProcEOF(i) ==
    /\ proc[i] = "up"
    /\ job[i] = None
    /\ stdin[i] = <<>>
    /\ ~stdinOpen[i]
    /\ proc' = [proc EXCEPT ![i] = "dead"]
    /\ UNCHANGED <<loopVars, job, stdin, stdinOpen, stdout, expired, stopping>>

-----------------------------------------------------------------------------
(* Start, warm-up, restart and stop.                                       *)

\* startInstance_external: a new process behind new pipes.
StartProcess(i) ==
    /\ proc' = [proc EXCEPT ![i] = "init"]
    /\ job' = [job EXCEPT ![i] = None]
    /\ stdin' = [stdin EXCEPT ![i] = <<>>]
    /\ stdinOpen' = [stdinOpen EXCEPT ![i] = TRUE]
    /\ stdout' = [stdout EXCEPT ![i] = <<>>]

Start(i) ==
    /\ pc[i] = "init"
    /\ initMutex = None
    /\ ~stopping
    /\ initMutex' = i
    /\ pc' = [pc EXCEPT ![i] = "warm"]
    /\ StartProcess(i)
    /\ UNCHANGED <<cur, gone, timedOut, waiting, expired, stopping>>

\* The loop gets the mutex and finds shutdown in progress: it unlocks and ends.
StartAborted(i) ==
    /\ pc[i] = "init"
    /\ initMutex = None
    /\ stopping
    /\ pc' = [pc EXCEPT ![i] = "exited"]
    /\ UNCHANGED <<cur, gone, timedOut, initMutex, waiting, procVars, expired,
                   stopping>>

\* Variant: only the ready signal ends the warm-up.
WarmUpEndsReadyOnly(i) ==
    \/ i \notin HasReady
    \/ stdout[i] # <<>> /\ Head(stdout[i]) = ReadyToken

\* warmUp returns: there is no signal to wait for, it is the next token, or
\* STDOUT is closed.
WarmUpEnds(i) ==
    \/ i \notin HasReady
    \/ stdout[i] # <<>> /\ Head(stdout[i]) = ReadyToken
    \/ stdout[i] = <<>> /\ proc[i] = "dead"

\* The first warm-up gives backendInitMutex back; the one after a restart never
\* took it.
WarmUp(i) ==
    /\ pc[i] \in {"warm", "rewarm"}
    /\ WarmUpEnds(i)
    /\ pc' = [pc EXCEPT ![i] = IF @ = "warm" THEN "idle" ELSE "meta"]
    /\ initMutex' = IF pc[i] = "warm" THEN None ELSE initMutex
    /\ stdout' = [stdout EXCEPT ![i] =
                     IF i \in HasReady /\ @ # <<>> THEN Tail(@) ELSE @]
    /\ UNCHANGED <<cur, gone, timedOut, waiting, proc, job, stdin, stdinOpen,
                   expired, stopping>>

\* Variant: the process is started again without being killed first, and goes
\* on writing to the pipe that is read.
RestartProcessKeepPipes(i) == UNCHANGED procVars

\* The old process is killed and waited for, a new one is started.
RestartProcess(i) == StartProcess(i)

Restart(i) ==
    /\ pc[i] = "restart"
    /\ pc' = [pc EXCEPT ![i] = "rewarm"]
    /\ RestartProcess(i)
    /\ UNCHANGED <<cur, gone, timedOut, initMutex, waiting, expired, stopping>>

\* Variant: STDIN is left open.
StdinAfterStopOpen(i) == stdinOpen

\* The write end of STDIN is closed.
StdinAfterStop(i) == [stdinOpen EXCEPT ![i] = FALSE]

\* The loop sees the shutdown while it is idle: its deferred
\* stopInstance_external closes STDIN and waits for the process.
Stop(i) ==
    /\ pc[i] = "idle"
    /\ stopping
    /\ pc' = [pc EXCEPT ![i] = "closing"]
    /\ stdinOpen' = StdinAfterStop(i)
    /\ UNCHANGED <<cur, gone, timedOut, initMutex, waiting, proc, job, stdin,
                   stdout, expired, stopping>>

Stopped(i) ==
    /\ pc[i] = "closing"
    /\ proc[i] = "dead"
    /\ pc' = [pc EXCEPT ![i] = "exited"]
    /\ UNCHANGED <<cur, gone, timedOut, initMutex, waiting, procVars, expired,
                   stopping>>

-----------------------------------------------------------------------------
(* One turn of the server loop.                                            *)

\* Variant: the loop does not keep the request it received.
HoldNothing(i, r) == cur

\* The request is held for this turn.
Hold(i, r) == [cur EXCEPT ![i] = r]

Take(i, r) ==
    /\ pc[i] = "idle"
    /\ r \in waiting
    /\ waiting' = waiting \ {r}
    /\ IF r \in expired
         THEN UNCHANGED <<pc, cur>>
         ELSE /\ pc' = [pc EXCEPT ![i] = "write"]
              /\ cur' = Hold(i, r)
    /\ UNCHANGED <<gone, timedOut, initMutex, procVars, expired, stopping>>

\* Where an error leads: a FATAL result, unless the client is known to be gone.
Fail(i) == pc' = [pc EXCEPT ![i] = IF gone[i] THEN "restart" ELSE "fatal"]

\* The request is written to STDIN; the write fails when nobody can read it, or
\* when the backend timeout finds the pipe full.
Write(i) ==
    /\ pc[i] = "write"
    /\ \/ /\ proc[i] # "dead"
          /\ stdin' = [stdin EXCEPT ![i] = Append(@, cur[i])]
          /\ pc' = [pc EXCEPT ![i] = "scan"]
       \/ /\ proc[i] = "dead" \/ timedOut[i]
          /\ Fail(i)
          /\ UNCHANGED stdin
    /\ UNCHANGED <<cur, gone, timedOut, initMutex, waiting, proc, job,
                   stdinOpen, stdout, expired, stopping>>

\* Variant: a client that gave up ends the scan.
AfterFindingStopsScan(i) == IF gone[i] THEN "meta" ELSE "send"

\* Variant: findings are sent on to a client that gave up.
AfterFindingSends(i) == "send"

\* A finding is delivered, or passed over once the client gave up.
AfterFinding(i) == IF gone[i] THEN "scan" ELSE "send"

Scan(i) ==
    /\ pc[i] = "scan"
    /\ stdout[i] # <<>>
    /\ stdout' = [stdout EXCEPT ![i] = Tail(@)]
    /\ \/ /\ Head(stdout[i]).kind = "finding"
          /\ pc' = [pc EXCEPT ![i] = AfterFinding(i)]
       \/ /\ Head(stdout[i]).kind = "end"
          /\ pc' = [pc EXCEPT ![i] = "meta"]
    /\ UNCHANGED <<cur, gone, timedOut, initMutex, waiting, proc, job, stdin,
                   stdinOpen, expired, stopping>>

\* The next token does not parse.  (It stays at the head of a pipe that the
\* restart discards.)
BadToken(i) == stdout[i] # <<>> /\ Head(stdout[i]).kind \in {"bad", "ready"}

ScanError(i) ==
    /\ pc[i] = "scan"
    /\ \/ BadToken(i)
       \/ stdout[i] = <<>> /\ proc[i] = "dead"
       \/ timedOut[i]
    /\ Fail(i)
    /\ UNCHANGED <<cur, gone, timedOut, initMutex, waiting, procVars, expired,
                   stopping>>

BackendTimeout(i) ==
    /\ pc[i] \in {"write", "scan", "send"}
    /\ ~timedOut[i]
    /\ timedOut' = [timedOut EXCEPT ![i] = TRUE]
    /\ UNCHANGED <<pc, cur, gone, initMutex, waiting, procVars, expired, stopping>>

AfterSend(i) ==
    CASE pc[i] = "send" -> "scan"
      [] pc[i] = "fatal" -> "restart"
      [] pc[i] = "meta" -> "end"
      [] pc[i] = "end" -> "idle"

\* Variant: a finding that nobody takes is treated as a failure of the backend.
AfterDropRestarts(i) == IF pc[i] = "send" THEN "restart" ELSE AfterSend(i)

AfterDrop(i) == AfterSend(i)

\* sendResult: the client takes the result, or the request's deadline passes.
\* The end of the turn forgets the turn's variables.
Send(i) ==
    /\ pc[i] \in {"send", "fatal", "meta", "end"}
    /\ \/ /\ pc' = [pc EXCEPT ![i] = AfterSend(i)]
          /\ gone' = [gone EXCEPT ![i] = @ /\ pc[i] # "end"]
       \/ /\ cur[i] \in expired
          /\ pc' = [pc EXCEPT ![i] = AfterDrop(i)]
          /\ gone' = [gone EXCEPT ![i] = pc[i] = "send" \/ (@ /\ pc[i] # "end")]
    /\ cur' = [cur EXCEPT ![i] = IF pc[i] = "end" THEN None ELSE @]
    /\ timedOut' = [timedOut EXCEPT ![i] = @ /\ pc[i] # "end"]
    /\ UNCHANGED <<initMutex, waiting, procVars, expired, stopping>>

\* The deadline of a request that waits or is held passes; nobody looks at that
\* of another.
Expire(r) ==
    /\ r \in waiting \cup {cur[i] : i \in Instances}
    /\ r \notin expired
    /\ expired' = expired \cup {r}
    /\ UNCHANGED <<loopVars, procVars, stopping>>

Signal ==
    /\ ~stopping
    /\ stopping' = TRUE
    /\ UNCHANGED <<loopVars, procVars, expired>>

-----------------------------------------------------------------------------
ProcStep(i) ==
    \/ ProcUp(i) \/ ProcRead(i) \/ ProcEnd(i) \/ ProcEOF(i)
    \/ \E kind \in {"finding", "bad"} : ProcPrint(i, kind)

LoopStep(i) ==
    \/ Start(i) \/ StartAborted(i) \/ WarmUp(i) \/ Restart(i)
    \/ Stop(i) \/ Stopped(i)
    \/ \E r \in Requests : Take(i, r)
    \/ Write(i) \/ Scan(i) \/ ScanError(i) \/ Send(i)

Next ==
    \/ \E i \in Instances :
          \/ LoopStep(i) \/ ProcStep(i)
          \/ ProcCrash(i) \/ ProcHang(i)
          \/ BackendTimeout(i)
    \/ \E r \in Requests : Expire(r)
    \/ Signal

Spec == Init /\ [][Next]_vars

\* Goroutines are scheduled, the mutex is handed on, deadlines pass.  Of a
\* process only this is assumed: its initialisation ends in readiness or death
\* (warmUp has no deadline), and it exits when its STDIN is closed.
Fairness ==
    \A i \in Instances :
        /\ WF_vars(LoopStep(i)) /\ SF_vars(Start(i) \/ StartAborted(i))
        /\ WF_vars(BackendTimeout(i)) /\ SF_vars(ScanError(i) \/ Write(i))
        /\ WF_vars(ProcUp(i)) /\ WF_vars(ProcRead(i)) /\ WF_vars(ProcEOF(i))

FairSpec == Spec /\ Fairness

-----------------------------------------------------------------------------
(* Properties.                                                             *)

TypeOK ==
    /\ pc \in [Instances -> LoopStates]
    /\ cur \in [Instances -> Requests \cup {None}]
    /\ gone \in [Instances -> BOOLEAN]
    /\ timedOut \in [Instances -> BOOLEAN]
    /\ initMutex \in Instances \cup {None}
    /\ waiting \in SUBSET Requests
    /\ expired \in SUBSET Requests
    /\ proc \in [Instances -> ProcStates]
    /\ job \in [Instances -> Requests \cup {None}]
    /\ stdin \in [Instances -> Seq(Requests)]
    /\ stdinOpen \in [Instances -> BOOLEAN]
    /\ stdout \in [Instances -> Seq(Tokens)]
    /\ stopping \in BOOLEAN

\* The requests that a process was given and has not fully answered to the loop.
InFlight(i) ==
    ({stdin[i][k] : k \in 1 .. Len(stdin[i])}
        \cup {stdout[i][k].of : k \in 1 .. Len(stdout[i])}
        \cup {job[i]}) \ {None}

\* The pipes are in step: what is on its way belongs to the request the loop
\* serves, so no client is sent what was found for another one, however the
\* turns before ended.
InStep == \A i \in Instances : InFlight(i) \subseteq {cur[i]}

\* A backend is killed only after it failed: it died, hung, broke the protocol
\* or used up its timeout.  A client that gave up is no reason.
KilledOnlyAfterFailure ==
    [][\A i \in Instances :
          pc[i] = "restart" /\ pc'[i] = "rewarm" =>
              proc[i] \in {"dead", "hung"} \/ BadToken(i) \/ timedOut[i]]_vars

\* linter.go:91, "Serialises external backend initialisation so that
\* simultaneous (re)starts do not thrash the CPU": one warm-up at a time.
OneWarmUpAtATime ==
    Cardinality({i \in Instances :
                    pc[i] \in {"warm", "rewarm"} /\ proc[i] = "init"}) <= 1

\* Whatever a backend does with a request, its instance is free again in the end.
ServesAgain ==
    \A i \in Instances : pc[i] = "write" ~> pc[i] \in {"idle", "closing", "exited"}

\* After the signal every loop ends, and with it main's ShutdownWG.Wait.
LoopsEnd == stopping ~> \A i \in Instances : pc[i] = "exited"

Place(state) ==
    CASE state \in {"init", "warm"} -> "away"
      [] state = "idle" -> "idle"
      [] state \in {"write", "scan"} -> "working"
      [] state = "send" -> "sending"
      [] state = "fatal" -> "failing"
      [] state \in {"restart", "rewarm"} -> "mending"
      [] state \in {"meta", "end"} -> "closing"
      [] state \in {"closing", "exited"} -> "over"

\* The server loops as ServerLoop has them, with a process behind each of them: all
\* are of one linter here.
Loops == INSTANCE ServerLoop WITH
    External <- Instances,
    Linters  <- {"linter"},
    LinterOf <- [i \in Instances |-> "linter"],
    place    <- [i \in Instances |-> Place(pc[i])],
    held     <- cur,
    quiet    <- gone,
    due      <- [l \in {"linter"} |-> waiting],
    late     <- expired

\* Whatever the process does, each turn is closed, a failure is mended before that,
\* no finding follows one that went undelivered, and a loop ends between turns only.
LoopsSpec == Loops!Spec
=============================================================================
