----------------------------- MODULE ServerLoop -----------------------------
(***************************************************************************)
(* The server loops of linter instances as their clients may rely on them, *)
(* without channels, processes and what HandleRequest does.  A loop        *)
(* receives a request that no other instance of its linter received, works *)
(* on it, sends its findings, then closes the turn (the META result and    *)
(* the end of the results), whatever failed, and ends between turns only.  *)
(* A result goes undelivered only when the request's deadline has passed.  *)
(* After that an external linter's findings are read and not sent; one     *)
(* that fails is mended before the turn is closed.                         *)
(***************************************************************************)
CONSTANTS Requests, Instances, External, Linters, LinterOf

VARIABLES
    place,      \* instance -> where its loop stands
    held,       \* instance -> the request of its turn
    quiet,      \* instance -> a finding of this turn went undelivered
    due,        \* linter -> requests that none of its instances received yet
    late,       \* requests whose deadline has passed
    stopping    \* the loops are told to end

loopVars == <<place, held, quiet>>
loopsVars == <<loopVars, due, late, stopping>>

None    == "none"
Sending == {"sending", "failing", "closing"}

Init ==
    /\ place \in [Instances -> {"away", "over"}]
    /\ held = [i \in Instances |-> None]
    /\ quiet = [i \in Instances |-> FALSE]
    /\ due \in [Linters -> SUBSET Requests]
    /\ late = {}
    /\ stopping = FALSE

Goes(i, from, to) ==
    /\ place[i] = from
    /\ place' = [place EXCEPT ![i] = to]
    /\ UNCHANGED <<held, quiet, due, late, stopping>>

Serve(i) == Goes(i, "away", "idle")

Leave(i) == stopping /\ (Goes(i, "away", "over") \/ Goes(i, "idle", "over"))

Receives(i, r) ==
    /\ place[i] = "idle"
    /\ r \in due[LinterOf[i]]
    /\ due' = [due EXCEPT ![LinterOf[i]] = @ \ {r}]
    /\ UNCHANGED <<quiet, late, stopping>>

Take(i, r) ==
    /\ Receives(i, r)
    /\ r \notin late
    /\ place' = [place EXCEPT ![i] = "working"]
    /\ held' = [held EXCEPT ![i] = r]

Skip(i, r) ==
    /\ Receives(i, r)
    /\ r \in late
    /\ UNCHANGED <<place, held>>

Finds(i) == ~quiet[i] /\ Goes(i, "working", "sending")

Finishes(i) == Goes(i, "working", "closing")

Fails(i) == i \in External /\ Goes(i, "working", IF quiet[i] THEN "mending" ELSE "failing")

Mended(i) == Goes(i, "mending", "closing")

AfterResult(i) ==
    CASE place[i] = "sending" -> IF i \in External THEN "working" ELSE "closing"
      [] place[i] = "failing" -> "mending"
      [] place[i] = "closing" -> "idle"

\* The loops of S are done with the results that they are sending, which are delivered or not.
AreDone(S, delivered) ==
    /\ place' = [i \in Instances |-> IF i \in S THEN AfterResult(i) ELSE place[i]]
    /\ held' = [i \in Instances |-> IF i \in S /\ place[i] = "closing" THEN None ELSE held[i]]
    /\ quiet' = [i \in Instances |->
                    IF i \notin S THEN quiet[i]
                    ELSE IF place[i] = "closing" THEN FALSE
                    ELSE \/ quiet[i]
                         \/ ~delivered /\ place[i] = "sending" /\ i \in External]
    /\ UNCHANGED <<due, stopping>>

Sends(i) ==
    /\ place[i] \in Sending
    /\ AreDone({i}, TRUE) \/ (held[i] \in late /\ AreDone({i}, FALSE))
    /\ UNCHANGED late

\* The deadline of r passes, which may release any of the loops that are sending for it.
Expire(r) ==
    /\ \E S \in SUBSET {i \in Instances : held[i] = r /\ place[i] \in Sending} : AreDone(S, FALSE)
    /\ late' = late \cup {r}

Stop ==
    /\ stopping' = TRUE
    /\ UNCHANGED <<loopVars, due, late>>

Next ==
    \/ \E i \in Instances :
          \/ Serve(i) \/ Leave(i)
          \/ \E r \in Requests : Take(i, r) \/ Skip(i, r)
          \/ Finds(i) \/ Finishes(i) \/ Fails(i) \/ Mended(i)
          \/ Sends(i)
    \/ \E r \in Requests : Expire(r)
    \/ Stop

Spec == Init /\ [][Next]_loopsVars
=============================================================================
