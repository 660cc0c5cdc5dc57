----------------------------- MODULE InProcess ------------------------------
(***************************************************************************)
(* The server loop of the linters that run in HandleRequest                *)
(* (linter/linter.go:408): a request is taken, HandleRequest works on it   *)
(* for as long as it likes, then its findings and the end of the results   *)
(* are sent.  What HandleRequest does is in Ftfy and Pwnedkeys, and for    *)
(* dwklint and x509lint in Lifecycle, which also has main.                 *)
(*                                                                         *)
(* One linter runs in a behaviour, so a request is answered when that      *)
(* linter's end has come; how several linters answer it is in Dispatch.    *)
(***************************************************************************)
EXTENDS Integers, Sequences, FiniteSets

CONSTANTS
    Instances,
    Requests,
    Timed,      \* requests whose deadline may pass in the behaviour
    Loads       \* bound: the linter, its instances and the requests of a behaviour

None == "none"
Names == {"ftfy", "pwnedkeys", "dwklint", "x509lint"}

\* dwklint and x509lint refuse to be configured with a second instance.
ASSUME InProcessAssumption ==
    /\ None \notin Requests
    /\ IsFiniteSet(Instances)
    /\ Timed \subseteq Requests
    /\ Loads \subseteq [linter : Names, instances : SUBSET Instances,
                        requests : SUBSET Requests]
    /\ \A load \in Loads :
          load.linter \in {"dwklint", "x509lint"} => Cardinality(load.instances) <= 1

VARIABLES
    linter,     \* the linter of this behaviour
    pc,         \* instance -> where its server loop stands
    cur,        \* instance -> the request it holds
    found,      \* instance -> what HandleRequest returned
    waiting,    \* requests in the ReqChannel
    handler,    \* request -> where its HTTP handler stands
    expired,    \* requests whose deadline has passed
    answer,     \* request -> what its client is told that the linter found
    stopping    \* the context that main gave to the loops is done

loopVars == <<linter, pc, cur, found, waiting, handler, expired, answer, stopping>>

\* The places in HandleRequest are those of its linter.
Handling   == {"handle", "write", "scan", "call", "calling", "respect"}
LoopStates == Handling \cup {"absent", "new", "start", "idle", "send", "end",
                             "closing", "returned", "exited"}
Handlers   == {"absent", "new", "open", "ok", "timeout"}

\* What HandleRequest returns, by kind; what ftfy compared also says to which
\* texts the line it read answers, and whether it is the whole answer.
Outcome(kind) == [kind |-> kind, of |-> {}, whole |-> FALSE]
Nothing == Outcome("none")

Init ==
    /\ \E load \in Loads :
          /\ linter = load.linter
          /\ pc = [i \in Instances |-> IF i \in load.instances THEN "new" ELSE "absent"]
          /\ handler = [r \in Requests |-> IF r \in load.requests THEN "new" ELSE "absent"]
    /\ cur = [i \in Instances |-> None]
    /\ found = [i \in Instances |-> Nothing]
    /\ waiting = {}
    /\ expired = {}
    /\ answer = [r \in Requests |-> Nothing]
    /\ stopping = FALSE

-----------------------------------------------------------------------------
(* The requests.                                                           *)

Accept(r) ==
    /\ handler[r] = "new"
    /\ handler' = [handler EXCEPT ![r] = "open"]
    /\ waiting' = waiting \cup {r}
    /\ UNCHANGED <<linter, pc, cur, found, expired, answer, stopping>>

Expire(r) ==
    /\ r \in Timed \ expired
    /\ handler[r] = "open"
    /\ expired' = expired \cup {r}
    /\ UNCHANGED <<linter, pc, cur, found, waiting, handler, answer, stopping>>

\* CompleteRequest returns -1, or the goroutine gave up waiting for the linter
\* and its partial answer was there first.
GiveUp(r) ==
    /\ handler[r] = "open"
    /\ r \in expired
    /\ \E status \in {"ok", "timeout"} : handler' = [handler EXCEPT ![r] = status]
    /\ UNCHANGED <<linter, pc, cur, found, waiting, expired, answer, stopping>>

-----------------------------------------------------------------------------
(* The server loop.                                                        *)

Goto(i, place) == pc' = [pc EXCEPT ![i] = place]

Take(i, r) ==
    /\ pc[i] = "idle"
    /\ r \in waiting
    /\ waiting' = waiting \ {r}
    /\ IF r \in expired
         THEN UNCHANGED <<pc, cur>>
         ELSE Goto(i, "handle") /\ cur' = [cur EXCEPT ![i] = r]
    /\ UNCHANGED <<linter, found, handler, expired, answer, stopping>>

\* HandleRequest goes on to another place of its own.
Moves(i, place) ==
    /\ Goto(i, place)
    /\ UNCHANGED <<linter, cur, found, waiting, handler, expired, answer, stopping>>

\* HandleRequest returns an outcome.
Returns(i, outcome) ==
    /\ Goto(i, "send")
    /\ found' = [found EXCEPT ![i] = outcome]
    /\ UNCHANGED <<linter, cur, waiting, handler, expired, answer, stopping>>

\* sendResult: the goroutine takes the finding, or the deadline has passed.
SendFound(i) ==
    /\ pc[i] = "send"
    /\ \/ /\ handler[cur[i]] = "open"
          /\ answer' = [answer EXCEPT ![cur[i]] = found[i]]
       \/ cur[i] \in expired /\ UNCHANGED answer
    /\ Goto(i, "end")
    /\ UNCHANGED <<linter, cur, found, waiting, handler, expired, stopping>>

\* The META result and the end of the results.
SendEnd(i) ==
    /\ pc[i] = "end"
    /\ \/ /\ handler[cur[i]] = "open"
          /\ handler' = [handler EXCEPT ![cur[i]] = "ok"]
       \/ cur[i] \in expired /\ UNCHANGED handler
    /\ Goto(i, "idle")
    /\ cur' = [cur EXCEPT ![i] = None]
    /\ found' = [found EXCEPT ![i] = Nothing]
    /\ UNCHANGED <<linter, waiting, expired, answer, stopping>>

Turn(i) == (\E r \in Requests : Take(i, r)) \/ SendFound(i) \/ SendEnd(i)

RequestStep(r) == Expire(r) \/ GiveUp(r)
=============================================================================
