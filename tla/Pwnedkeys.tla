----------------------------- MODULE Pwnedkeys ------------------------------
(***************************************************************************)
(* pwnedkeys (linter/pwnedkeys/handler.go): HandleRequest asks a remote    *)
(* API for every key, unless the API said to stay away until a time that   *)
(* all instances share.  That time is read under a lock, the API is called *)
(* without it, and the time is raised under it again.                      *)
(***************************************************************************)
EXTENDS InProcess

CONSTANTS
    Headers,        \* Retry-After values that the API sends
    HalfRange,      \* a time.Duration is in -HalfRange .. HalfRange - 1
    MaxTime         \* bound: the clock stops there

\* A Retry-After value is a number of seconds, a date, or neither.
ASSUME PwnedkeysAssumption ==
    /\ HalfRange \in Nat \ {0}
    /\ MaxTime \in Nat
    /\ Headers \subseteq [kind : {"seconds", "date", "invalid"}, value : Int]

VARIABLES
    clock,          \* time.Now()
    retryAfter,     \* retryAfter, shared by all instances
    ra,             \* instance -> the time respectRetryAfter worked out
    (* History, read by no action. *)
    given,          \* the times that respectRetryAfter worked out
    overrun         \* calls begun under the present limit

pwnedVars == <<clock, retryAfter, ra, given, overrun>>

\* The zero time.Time, long before the program starts.
ZeroTime == -1

PwnedInit ==
    /\ clock = 0
    /\ retryAfter = ZeroTime
    /\ ra = [i \in Instances |-> ZeroTime]
    /\ given = {}
    /\ overrun = 0

Tick ==
    /\ linter = "pwnedkeys"
    /\ clock < MaxTime
    /\ clock' = clock + 1
    /\ UNCHANGED <<loopVars, retryAfter, ra, given, overrun>>

\* Variant: the test is left out.
RateLimitedNever == FALSE

\* retryAfter.After(time.Now())
RateLimited == retryAfter > clock

CheckLimit(i) ==
    /\ linter = "pwnedkeys"
    /\ pc[i] = "handle"
    /\ IF RateLimited THEN Returns(i, Outcome("checked")) ELSE Moves(i, "call")
    /\ UNCHANGED pwnedVars

CallApi(i) ==
    /\ pc[i] = "call"
    /\ Moves(i, "calling")
    /\ overrun' = IF retryAfter > clock THEN overrun + 1 ELSE overrun
    /\ UNCHANGED <<clock, retryAfter, ra, given>>

\* A Duration of that many seconds, in the width that an int64 has.
Duration(seconds) == ((seconds + HalfRange) % (2 * HalfRange)) - HalfRange

\* The API answers that the key is pwned or that it is not; it fails, or the
\* client's timeout or the request's deadline ends the call.
ApiAnswers(i) ==
    /\ pc[i] = "calling"
    /\ Returns(i, Outcome("checked"))
    /\ UNCHANGED pwnedVars

\* HTTP 429: respectRetryAfter works out a time, unless there is no header, or
\* one it does not understand.
TooManyRequests(i) ==
    /\ pc[i] = "calling"
    /\ \E h \in Headers :
          IF h.kind = "invalid"
            THEN Returns(i, Outcome("checked")) /\ UNCHANGED <<ra, given>>
            ELSE /\ Moves(i, "respect")
                 /\ ra' = [ra EXCEPT ![i] = IF h.kind = "date" THEN h.value
                                            ELSE clock + Duration(h.value)]
                 /\ given' = given \cup {ra'[i]}
    /\ UNCHANGED <<clock, retryAfter, overrun>>

\* Variant: the time that gets the lock last wins.
RaisedToLast(t) == t

\* retryAfter is only ever raised.
RaisedTo(t) == IF t > retryAfter THEN t ELSE retryAfter

RespectRetryAfter(i) ==
    /\ pc[i] = "respect"
    /\ Returns(i, Outcome("checked"))
    /\ retryAfter' = RaisedTo(ra[i])
    /\ overrun' = IF retryAfter' > retryAfter THEN 0 ELSE overrun
    /\ ra' = [ra EXCEPT ![i] = ZeroTime]
    /\ UNCHANGED <<clock, given>>

PwnedStep(i) ==
    \/ CheckLimit(i) \/ CallApi(i)
    \/ ApiAnswers(i) \/ TooManyRequests(i) \/ RespectRetryAfter(i)

-----------------------------------------------------------------------------
(* Properties.                                                             *)

PwnedTypeOK ==
    /\ clock \in 0 .. MaxTime
    /\ retryAfter \in Int
    /\ ra \in [Instances -> Int]
    /\ given \subseteq Int
    /\ overrun \in Nat

\* An instance worked that time out and has not recorded it yet.
AwaitsLock(t) == \E j \in Instances : pc[j] = "respect" /\ ra[j] = t

\* No request sets out for the API before a time that any instance worked out of
\* a Retry-After is over, in whatever order the instances record them and however
\* many they are.  Only a time that an instance still has to record, between
\* respectRetryAfter's time.Now() and its lock, holds nobody back.
SetsOutAfterLimits ==
    [][\A i \in Instances :
          pc[i] = "handle" /\ pc'[i] = "call" =>
              \A t \in given : t <= clock \/ AwaitsLock(t)]_pc

\* While a limit is in force, the API is called by at most one request of every
\* other instance: one that had passed the test before the limit was set.
OverrunBounded ==
    retryAfter > clock =>
        overrun < Cardinality({i \in Instances : pc[i] # "absent"})
=============================================================================
