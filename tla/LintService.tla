---------------------------- MODULE LintService ----------------------------
(***************************************************************************)
(* What the dispatching of lint requests promises to an HTTP handler,      *)
(* without queues, server loops and channels: a request is open until it   *)
(* is answered; it hears from each linter it uses at most once, and never  *)
(* after its context is closed; it is answered when it heard from all of   *)
(* them, or after its context is closed.                                   *)
(***************************************************************************)
CONSTANTS Requests, Linters, Uses   \* Uses: request -> linters it is sent to

VARIABLES status, heard, closed

serviceVars == <<status, heard, closed>>

Init ==
    /\ status = [r \in Requests |-> "new"]
    /\ heard = [r \in Requests |-> {}]
    /\ closed = [r \in Requests |-> FALSE]

Open(r) ==
    /\ status[r] = "new"
    /\ status' = [status EXCEPT ![r] = "open"]
    /\ UNCHANGED <<heard, closed>>

Hear(r, l) ==
    /\ status[r] = "open"
    /\ ~closed[r]
    /\ l \in Uses[r] \ heard[r]
    /\ heard' = [heard EXCEPT ![r] = @ \cup {l}]
    /\ UNCHANGED <<status, closed>>

\* A handler that is already waiting when the context is closed times out with
\* it, so closing may end the request too.
Close(r) ==
    /\ status[r] # "new"
    /\ ~closed[r]
    /\ closed' = [closed EXCEPT ![r] = TRUE]
    /\ \/ UNCHANGED status
       \/ status[r] = "open" /\ status' = [status EXCEPT ![r] = "timeout"]
    /\ UNCHANGED heard

Answer(r) ==
    /\ status[r] = "open"
    /\ heard[r] = Uses[r] \/ closed[r]
    /\ status' = [status EXCEPT ![r] = "ok"]
    /\ UNCHANGED <<heard, closed>>

TimeOut(r) ==
    /\ status[r] = "open"
    /\ closed[r]
    /\ status' = [status EXCEPT ![r] = "timeout"]
    /\ UNCHANGED <<heard, closed>>

Next ==
    \E r \in Requests :
        \/ Open(r) \/ Close(r) \/ Answer(r) \/ TimeOut(r)
        \/ \E l \in Linters : Hear(r, l)

Spec == Init /\ [][Next]_serviceVars
=============================================================================
