------------------------------ MODULE Lifecycle -----------------------------
(***************************************************************************)
(* Start and shutdown of the process (main.go, server/server.go,           *)
(* linter/linter.go) around the linters that run in HandleRequest: main    *)
(* starts the server loops and the web server, waits for a signal, drains  *)
(* the web server, runs the linters' cleanup and waits for the loops, which *)
(* end by themselves on the same signal.                                   *)
(***************************************************************************)
EXTENDS Ftfy, Pwnedkeys

CONSTANT StopsWith    \* bound: the process is told to stop in behaviours of these linters

VARIABLES
    main,       \* where main stands
    running,    \* the counter of ShutdownWG
    cleaned     \* instances whose linter's StopInstance ran

mainVars == <<main, running, cleaned>>
vars     == <<loopVars, ftfyVars, pwnedVars, mainVars>>

MainStates == {"startLinters", "serving", "draining", "stopLinters", "waiting",
               "exited"}

LifecycleInit ==
    /\ Init
    /\ FtfyInit
    /\ PwnedInit
    /\ main = "startLinters"
    /\ running = 0
    /\ cleaned = {}

Configured == {i \in Instances : pc[i] # "absent"}

-----------------------------------------------------------------------------
(* main.                                                                   *)

\* Variant: nobody counts the loop.
CountedNever == running

\* ShutdownWG.Add(1)
Counted == running + 1

\* The counter is raised before the goroutine of the loop is started.
StartLinter(i) ==
    /\ main = "startLinters"
    /\ pc[i] = "new"
    /\ Moves(i, "start")
    /\ running' = Counted
    /\ UNCHANGED <<ftfyVars, pwnedVars, main, cleaned>>

Run ==
    /\ main = "startLinters"
    /\ \A i \in Configured : pc[i] # "new"
    /\ main' = "serving"
    /\ UNCHANGED <<loopVars, ftfyVars, pwnedVars, running, cleaned>>

\* SIGHUP, SIGINT or SIGTERM, at any time after NotifyContext: the loops see it
\* at once, main when it comes to wait for it.
Signal ==
    /\ linter \in StopsWith
    /\ ~stopping
    /\ main # "exited"
    /\ stopping' = TRUE
    /\ UNCHANGED <<linter, pc, cur, found, waiting, handler, expired, answer,
                   ftfyVars, pwnedVars, mainVars>>

\* Requests are accepted until the server is told to shut down.
Receive(r) ==
    /\ main = "serving"
    /\ Accept(r)
    /\ \E kind \in Texts : Brings(r, kind)
    /\ UNCHANGED <<pwnedVars, mainVars>>

\* Run starts the listeners in goroutines of their own, and fasthttp's Shutdown does
\* nothing before they listen: main is taken to be so far only when they do.
Shutdown ==
    /\ main = "serving"
    /\ stopping
    /\ main' = "draining"
    /\ UNCHANGED <<loopVars, ftfyVars, pwnedVars, running, cleaned>>

\* Variant: the linters are stopped before the server is drained.
DrainedUnasked == TRUE

\* Shutdown of the web server returns when no handler runs any more.
Drained == \A r \in Requests : handler[r] # "open"

StopLinters ==
    /\ main = "draining"
    /\ Drained
    /\ main' = "stopLinters"
    /\ UNCHANGED <<loopVars, ftfyVars, pwnedVars, running, cleaned>>

\* The interface-level cleanup: dwklint closes its database, x509lint frees what
\* it checks with, whatever the server loop is doing.
StopInstance(i) ==
    /\ main = "stopLinters"
    /\ i \in Configured \ cleaned
    /\ cleaned' = cleaned \cup {i}
    /\ main' = IF cleaned' = Configured THEN "waiting" ELSE main
    /\ UNCHANGED <<loopVars, ftfyVars, pwnedVars, running>>

Exit ==
    /\ main = "waiting"
    /\ running = 0
    /\ main' = "exited"
    /\ UNCHANGED <<loopVars, ftfyVars, pwnedVars, running, cleaned>>

-----------------------------------------------------------------------------
(* The server loops of the other linters, and what all loops share.        *)

\* A loop without a process serves at once.
LoopStart(i) ==
    /\ linter # "ftfy"
    /\ pc[i] = "start"
    /\ Moves(i, "idle")
    /\ UNCHANGED <<ftfyVars, pwnedVars, mainVars>>

LoopStop(i) ==
    /\ linter # "ftfy"
    /\ pc[i] = "idle"
    /\ stopping
    /\ Moves(i, "returned")
    /\ UNCHANGED <<ftfyVars, pwnedVars, mainVars>>

\* HandleRequest of dwklint or x509lint, which needs what StopInstance takes away.
Check(i) ==
    /\ linter \in {"dwklint", "x509lint"}
    /\ pc[i] = "handle"
    /\ Returns(i, Outcome(IF i \in cleaned THEN "unreliable" ELSE "checked"))
    /\ UNCHANGED <<ftfyVars, pwnedVars, mainVars>>

\* Variant: the counter is lowered before the deferred stop of the process.
LoopOverAtStop(i) == pc[i] \in {"closing", "returned"}

\* All that the loop deferred is done but the lowering of the counter.
LoopOver(i) == pc[i] = "returned"

LoopDone(i) ==
    /\ LoopOver(i)
    /\ Moves(i, "exited")
    /\ running' = running - 1
    /\ UNCHANGED <<ftfyVars, pwnedVars, main, cleaned>>

-----------------------------------------------------------------------------
LoopStep(i) ==
    \/ LoopStart(i) \/ LoopStop(i) \/ Check(i) \/ LoopDone(i)
    \/ Turn(i) /\ UNCHANGED <<ftfyVars, pwnedVars, mainVars>>
    \/ FtfyLoopStep(i) /\ UNCHANGED <<pwnedVars, mainVars>>
    \/ PwnedStep(i) /\ UNCHANGED <<ftfyVars, mainVars>>

ProcStep(i) == FtfyProcStep(i) /\ UNCHANGED <<pwnedVars, mainVars>>

HandlerStep(r) == RequestStep(r) /\ UNCHANGED <<ftfyVars, pwnedVars, mainVars>>

MainStep ==
    \/ \E i \in Instances : StartLinter(i) \/ StopInstance(i)
    \/ Run \/ Shutdown \/ StopLinters \/ Exit

LifecycleNext ==
    \/ MainStep
    \/ Signal
    \/ main # "exited" /\ \/ \E r \in Requests : Receive(r) \/ HandlerStep(r)
                          \/ \E i \in Instances :
                                \/ LoopStep(i) \/ ProcStep(i)
                                \/ PyFails(i) /\ UNCHANGED <<pwnedVars, mainVars>>
                          \/ Tick /\ UNCHANGED <<ftfyVars, mainVars>>

LifecycleSpec == LifecycleInit /\ [][LifecycleNext]_vars

\* Goroutines are scheduled, deadlines pass, an API call ends (the HTTP client
\* has a timeout), and the Python process answers and ends unless it hangs.
Fairness ==
    /\ WF_vars(MainStep)
    /\ \A r \in Requests : WF_vars(HandlerStep(r))
    /\ \A i \in Instances : WF_vars(LoopStep(i)) /\ WF_vars(ProcStep(i))

FairSpec == LifecycleSpec /\ Fairness

-----------------------------------------------------------------------------
(* Properties.                                                             *)

LifecycleTypeOK ==
    /\ linter \in Names
    /\ pc \in [Instances -> LoopStates]
    /\ cur \in [Instances -> Requests \cup {None}]
    /\ waiting \subseteq Requests
    /\ handler \in [Requests -> Handlers]
    /\ expired \subseteq Requests
    /\ stopping \in BOOLEAN
    /\ FtfyTypeOK
    /\ PwnedTypeOK
    /\ main \in MainStates
    /\ running \in Nat
    /\ cleaned \subseteq Instances

\* StopLinters runs while loops may still be in HandleRequest, but no client is
\* told what was found after the cleanup: the server was drained before, as it was
\* listening when it was told to shut down (see Shutdown).
AnswersPredateCleanup ==
    \A r \in Requests : handler[r] = "ok" => answer[r].kind # "unreliable"

\* The process exits only when every loop has ended and every Python process is
\* gone, and with no handler left: main waits for the loops, they for theirs, and
\* for the handlers of a server that was listening (see Shutdown).
ExitIsClean ==
    main = "exited" =>
        /\ \A i \in Configured : pc[i] = "exited" /\ proc[i] \in {"none", "dead"}
        /\ \A r \in Requests : handler[r] # "open"

\* HandleRequest of ftfy waits for output that will not come.
Stuck(i) ==
    \/ proc[i] = "hung" /\ pc[i] \in {"scan", "closing"}
    \/ /\ pc[i] = "scan" /\ scanner[i] = "reading"
       /\ unended[i] # {} /\ stdin[i] = <<>> /\ stdout[i] = <<>>

\* After a signal, start-up included, the process exits, unless ftfy's process
\* hangs or left the end of a line out: nothing bounds the wait for it.
Exits == stopping ~> (main = "exited" \/ \E i \in Instances : Stuck(i))

Place(state) ==
    CASE state \in {"new", "start"} -> "away"
      [] state = "idle" -> "idle"
      [] state \in Handling -> "working"
      [] state = "send" -> "sending"
      [] state = "end" -> "closing"
      [] state \in {"absent", "closing", "returned", "exited"} -> "over"

\* The server loops as ServerLoop has them, with what HandleRequest does.
Loops == INSTANCE ServerLoop WITH
    External <- {},
    Linters  <- {"linter"},
    LinterOf <- [i \in Instances |-> "linter"],
    place    <- [i \in Instances |-> Place(pc[i])],
    held     <- cur,
    quiet    <- [i \in Instances |-> FALSE],
    due      <- [l \in {"linter"} |-> waiting \cup {r \in Requests : handler[r] = "new"}],
    late     <- expired

\* Whatever HandleRequest does and wherever main is, a loop receives no request
\* after its deadline, closes its turns, and ends between them only.
LoopsSpec == Loops!Spec
=============================================================================
