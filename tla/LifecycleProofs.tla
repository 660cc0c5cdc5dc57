-------------------------- MODULE LifecycleProofs ---------------------------
(***************************************************************************)
(* Proofs about Lifecycle, for any finite set of instances, any requests,  *)
(* texts and Retry-After values, any width of a Duration and any clock.    *)
(*                                                                         *)
(* Three arguments meet in it.  The counter of ShutdownWG is the number of *)
(* loops that run, so main exits after all of them, and a Python process   *)
(* does not outlive its loop.  What is in the pipes of ftfy is the line of *)
(* the request its loop scans for.  And every time that pwnedkeys was told *)
(* to keep away from its API is recorded or on its way to the lock, and    *)
(* those that passed the test before are the only ones that still call.    *)
(***************************************************************************)
EXTENDS Lifecycle, FiniteSetTheorems, SequenceLemmas

Kinds    == {"none", "info", "fatal", "compared", "checked", "unreliable"}
Outcomes == [kind : Kinds, of : SUBSET Requests, whole : BOOLEAN]
Lines    == [kind : {"compared", "long"}, of : SUBSET Requests, whole : BOOLEAN]

\* The types, with what HandleRequest returns, and without the counter.
LoopTypes ==
    /\ linter \in Names
    /\ pc \in [Instances -> LoopStates]
    /\ cur \in [Instances -> Requests \cup {None}]
    /\ found \in [Instances -> Outcomes]
    /\ waiting \subseteq Requests
    /\ handler \in [Requests -> Handlers]
    /\ expired \subseteq Requests
    /\ answer \in [Requests -> Outcomes]
    /\ stopping \in BOOLEAN

FtfyTypes ==
    /\ text \in [Requests -> TextKinds]
    /\ proc \in [Instances -> {"none", "up", "hung", "dead"}]
    /\ stdin \in [Instances -> Seq(Requests)]
    /\ stdinOpen \in [Instances -> BOOLEAN]
    /\ stdout \in [Instances -> Seq(Lines)]
    /\ scanner \in [Instances -> {"reading", "full", "ended"}]
    /\ unended \in [Instances -> SUBSET Requests]

MainTypes == main \in MainStates /\ cleaned \subseteq Instances

TypeInv == LoopTypes /\ FtfyTypes /\ PwnedTypeOK /\ MainTypes

Holding == Handling \cup {"send", "end"}
Came(r) == handler[r] \notin {"absent", "new"}

\* A request that waits or is held has come, and a loop in its turn holds one.
HoldInv ==
    /\ \A r \in waiting : Came(r)
    /\ \A i \in Instances : pc[i] \in Holding => cur[i] \in Requests /\ Came(cur[i])

\* A Python process runs only under a loop of ftfy that started it.
ProcInv ==
    \A i \in Instances :
        /\ pc[i] \in {"absent", "new", "start"} => proc[i] = "none"
        /\ proc[i] \in {"up", "hung"} =>
               linter = "ftfy" /\ pc[i] \in Holding \cup {"idle", "closing"}

Active == {i \in Instances : pc[i] \notin {"absent", "new", "exited"}}

\* main is past the draining of the web server.
Late == {"stopLinters", "waiting", "exited"}

\* How far main is, and who is left.
MainInv ==
    /\ running = Cardinality(Active)
    /\ main # "startLinters" => \A i \in Instances : pc[i] # "new"
    /\ main = "exited" => Active = {}
    /\ main \in Late => \A r \in Requests : handler[r] # "open"
    /\ cleaned # {} => main \in Late

\* What was found without what StopInstance takes away is never answered.
ReliableInv ==
    /\ \A r \in Requests : answer[r].kind # "unreliable"
    /\ \A i \in Instances : found[i].kind = "unreliable" => cleaned # {}

NoneOdd == \A r \in Requests : ~Odd(r)

\* What is in the pipes of ftfy is the line of the request it scans for.
Pipes(i) ==
    /\ scanner[i] = "reading" /\ unended[i] = {}
    /\ pc[i] # "scan" => /\ stdout[i] = <<>>
                         /\ proc[i] # "dead" => stdin[i] = <<>>
    /\ pc[i] = "scan" => \/ stdin[i] = <<cur[i]>> /\ stdout[i] = <<>>
                         \/ stdin[i] = <<>> /\ stdout[i] = <<Line({cur[i]}, TRUE)>>
    /\ found[i].kind = "compared" =>
           found[i] = Line({cur[i]}, TRUE) /\ pc[i] \in {"send", "end"}

PipesInv ==
    NoneOdd => /\ \A i \in Instances : Pipes(i)
               /\ \A r \in Requests : Compared(r) => OwnLine(r)

\* The instances that passed the test and have not called yet.
Calling == {i \in Instances : pc[i] = "call"}

LimitInv ==
    retryAfter > clock => overrun + Cardinality(Calling) < Cardinality(Configured)

\* A time that was worked out is recorded, or its instance is about to record it.
GivenInv == \A t \in given : t <= retryAfter \/ AwaitsLock(t)

IInv ==
    /\ TypeInv /\ HoldInv /\ ProcInv /\ MainInv /\ ReliableInv /\ PipesInv
    /\ LimitInv /\ GivenInv

-----------------------------------------------------------------------------
(* Type correctness.                                                       *)

LEMMA Outcome1 ==
    /\ \A kind \in Kinds : Outcome(kind) \in Outcomes /\ Outcome(kind).kind = kind
    /\ \A R \in SUBSET Requests, whole \in BOOLEAN :
           /\ Line(R, whole) \in Lines \cap Outcomes /\ Line(R, whole).kind = "compared"
           /\ LongLine(R) \in Lines
    /\ \A o \in Lines : o.of \subseteq Requests /\ (o.kind = "compared" => o \in Outcomes)
BY DEF Outcome, Line, LongLine, Outcomes, Lines, Kinds

LEMMA States ==
    /\ Handling \subseteq LoopStates /\ Holding \subseteq LoopStates
    /\ {"absent", "new", "start", "idle", "send", "end", "closing", "returned",
        "exited"} \subseteq LoopStates
    /\ {"handle", "write", "scan", "call", "calling", "respect"} = Handling
BY DEF Handling, Holding, LoopStates

LEMMA TypeInit == LifecycleInit => TypeInv
<1> SUFFICES ASSUME LifecycleInit PROVE TypeInv
  OBVIOUS
<1> USE InProcessAssumption, PwnedkeysAssumption
    DEF InProcessAssumption, PwnedkeysAssumption, LifecycleInit, Init, FtfyInit, PwnedInit
<1>1. /\ linter \in Names
      /\ pc \in [Instances -> {"new", "absent"}]
      /\ handler \in [Requests -> {"new", "absent"}]
  OBVIOUS
<1>2. LoopTypes
  BY <1>1, Outcome1 DEF LoopTypes, LoopStates, Handlers, Nothing, Kinds
<1>3. FtfyTypes
  BY EmptySeq DEF FtfyTypes, TextKinds
<1>4. PwnedTypeOK
  BY DEF PwnedTypeOK, ZeroTime
<1> QED BY <1>2, <1>3, <1>4 DEF TypeInv, MainTypes, MainStates

\* The steps of a server loop that other actions are made of.
LEMMA MovesType ==
    ASSUME LoopTypes, NEW i \in Instances, NEW place \in LoopStates, Moves(i, place)
    PROVE  LoopTypes'
BY DEF LoopTypes, Moves, Goto

LEMMA ReturnsType ==
    ASSUME LoopTypes, NEW i \in Instances, NEW o \in Outcomes, Returns(i, o)
    PROVE  LoopTypes'
BY States DEF LoopTypes, Returns, Goto

LEMMA TurnType ==
    ASSUME LoopTypes, HoldInv, NEW i \in Instances, Turn(i)
    PROVE  LoopTypes'
<1> USE States DEF LoopTypes, Goto
<1>1. ASSUME NEW r \in Requests, Take(i, r) PROVE LoopTypes'
  BY <1>1 DEF Take
<1>2. CASE SendFound(i)
  BY <1>2 DEF SendFound
<1>3. CASE SendEnd(i)
  <2>1. Nothing \in Outcomes
    BY Outcome1 DEF Nothing, Kinds
  <2>2. handler' \in [Requests -> Handlers]
    BY <1>3 DEF SendEnd, Handlers
  <2> QED BY <1>3, <2>1, <2>2 DEF SendEnd
<1> QED BY <1>1, <1>2, <1>3 DEF Turn

LEMMA KeptTypes ==
    /\ LoopTypes /\ UNCHANGED loopVars => LoopTypes'
    /\ FtfyTypes /\ UNCHANGED ftfyVars => FtfyTypes'
    /\ PwnedTypeOK /\ UNCHANGED pwnedVars => PwnedTypeOK'
    /\ MainTypes /\ UNCHANGED <<main, cleaned>> => MainTypes'
BY DEF LoopTypes, loopVars, FtfyTypes, ftfyVars, PwnedTypeOK, pwnedVars, MainTypes

LEMMA MainType ==
    ASSUME TypeInv, MainStep \/ Signal
    PROVE  TypeInv'
<1> USE KeptTypes DEF TypeInv
<1>1. ASSUME NEW i \in Instances, StartLinter(i) PROVE TypeInv'
  BY <1>1, MovesType, States DEF StartLinter
<1>2. ASSUME NEW i \in Instances, StopInstance(i) PROVE TypeInv'
  BY <1>2 DEF StopInstance, MainTypes, MainStates
<1>3. CASE Run \/ Shutdown \/ StopLinters \/ Exit
  BY <1>3 DEF Run, Shutdown, StopLinters, Exit, MainTypes, MainStates
<1>4. CASE Signal
  BY <1>4 DEF Signal, mainVars, LoopTypes
<1> QED BY <1>1, <1>2, <1>3, <1>4 DEF MainStep

LEMMA RequestType ==
    ASSUME TypeInv, NEW r \in Requests, Receive(r) \/ HandlerStep(r)
    PROVE  TypeInv'
<1> USE KeptTypes DEF TypeInv, mainVars
<1>1. CASE Receive(r)
  <2>1. LoopTypes'
    BY <1>1 DEF Receive, Accept, LoopTypes, Handlers
  <2>2. FtfyTypes'
    BY <1>1, FtfyAssumption DEF FtfyAssumption, Receive, Brings, FtfyTypes
  <2> QED BY <1>1, <2>1, <2>2 DEF Receive
<1>2. CASE HandlerStep(r)
  <2>1. LoopTypes'
    BY <1>2 DEF HandlerStep, RequestStep, Expire, GiveUp, LoopTypes, Handlers
  <2> QED BY <1>2, <2>1 DEF HandlerStep
<1> QED BY <1>1, <1>2

LEMMA LoopType ==
    ASSUME TypeInv, HoldInv, NEW i \in Instances,
           LoopStart(i) \/ LoopStop(i) \/ Check(i) \/ LoopDone(i) \/ Turn(i),
           UNCHANGED <<ftfyVars, pwnedVars, main, cleaned>>
    PROVE  TypeInv'
<1>1. ASSUME LoopStart(i) \/ LoopStop(i) \/ LoopDone(i) PROVE LoopTypes'
  BY <1>1, MovesType, States DEF LoopStart, LoopStop, LoopDone, TypeInv
<1>2. ASSUME Check(i) PROVE LoopTypes'
  <2>1. PICK kind \in {"unreliable", "checked"} : Returns(i, Outcome(kind))
    BY <1>2 DEF Check
  <2>2. Outcome(kind) \in Outcomes
    BY Outcome1 DEF Kinds
  <2> QED BY <2>1, <2>2, ReturnsType DEF TypeInv
<1>3. ASSUME Turn(i) PROVE LoopTypes'
  BY <1>3, TurnType DEF TypeInv
<1>4. LoopTypes'
  BY <1>1, <1>2, <1>3
<1> QED BY <1>4, KeptTypes DEF TypeInv

LEMMA FtfyType ==
    ASSUME TypeInv, HoldInv, NEW i \in Instances,
           FtfyLoopStep(i) \/ FtfyProcStep(i) \/ PyFails(i), UNCHANGED <<pwnedVars, main, cleaned>>
    PROVE  TypeInv'
<1> USE KeptTypes DEF TypeInv
<1>1. CASE FtfyStart(i) \/ FtfyStop(i) \/ FtfyStopped(i)
  <2>1. LoopTypes'
    BY <1>1, MovesType, States DEF FtfyStart, FtfyStop, FtfyStopped
  <2>2. FtfyTypes'
    BY <1>1 DEF FtfyStart, FtfyStop, FtfyStopped, StdinAfterStop, FtfyTypes, ftfyVars
  <2> QED BY <2>1, <2>2
<1>2. CASE FtfyBegin(i)
  <2>1. Outcome("info") \in Outcomes
    BY Outcome1 DEF Kinds
  <2> QED BY <1>2, <2>1, MovesType, ReturnsType, States DEF FtfyBegin
<1>3. CASE FtfyWrite(i)
  <2>1. Append(stdin[i], cur[i]) \in Seq(Requests)
    <3>1. cur[i] \in Requests /\ stdin[i] \in Seq(Requests)
      BY <1>3, States DEF FtfyWrite, HoldInv, Holding, FtfyTypes
    <3> QED BY <3>1, SequenceFacts
  <2>2. Outcome("fatal") \in Outcomes
    BY Outcome1 DEF Kinds
  <2>3. LoopTypes'
    BY <1>3, <2>2, MovesType, ReturnsType, States DEF FtfyWrite
  <2>4. FtfyTypes'
    BY <1>3, <2>1 DEF FtfyWrite, FtfyTypes
  <2> QED BY <2>3, <2>4
<1>4. CASE FtfyScan(i)
  <2>0. stdout[i] # <<>> => Head(stdout[i]) \in Lines /\ Tail(stdout[i]) \in Seq(Lines)
    BY SequenceFacts DEF FtfyTypes
  <2>1. CASE /\ stdout[i] # <<>> /\ Head(stdout[i]).kind = "compared"
             /\ Returns(i, Head(stdout[i]))
             /\ stdout' = [stdout EXCEPT ![i] = Tail(@)]
             /\ UNCHANGED <<unended, scanner>>
    <3>2. Head(stdout[i]) \in Lines /\ Tail(stdout[i]) \in Seq(Lines)
      BY <2>0, <2>1
    <3>3. LoopTypes'
      BY <2>1, <3>2, Outcome1, ReturnsType
    <3>4. FtfyTypes'
      BY <1>4, <2>1, <3>2 DEF FtfyScan, FtfyTypes
    <3> QED BY <3>3, <3>4
  <2>2. CASE /\ Returns(i, IF unended[i] # {} THEN Line(unended[i], FALSE)
                                               ELSE Outcome("fatal"))
             /\ unended' = [unended EXCEPT ![i] = {}]
             /\ UNCHANGED <<stdout, scanner>>
    <3>1. (IF unended[i] # {} THEN Line(unended[i], FALSE) ELSE Outcome("fatal")) \in Outcomes
      BY Outcome1 DEF FtfyTypes, Kinds
    <3>2. LoopTypes'
      BY <2>2, <3>1, ReturnsType
    <3>3. FtfyTypes'
      BY <1>4, <2>2 DEF FtfyScan, FtfyTypes
    <3> QED BY <3>2, <3>3
  <2>3. CASE ScanLong(i)
    <3>1. \E o \in Outcomes : Returns(i, o)
      <4>1. Outcome("fatal") \in Outcomes
        BY Outcome1 DEF Kinds
      <4>2. stdout[i] # <<>> => Line(Head(stdout[i]).of, FALSE) \in Outcomes
        BY <2>0, Outcome1
      <4> QED BY <2>3, <4>1, <4>2 DEF ScanLong
    <3>2. LoopTypes'
      BY <3>1, ReturnsType
    <3>3. FtfyTypes'
      BY <1>4, <2>3 DEF FtfyScan, ScanLong, FtfyTypes
    <3> QED BY <3>2, <3>3
  <2> QED BY <1>4, <2>1, <2>2, <2>3 DEF FtfyScan, ScanLine
<1>5. CASE PyAnswers(i)
  <2> DEFINE r == Head(stdin[i])
             first == unended[i] \cup {r}
             two == <<Line(first, FALSE), Line({r}, FALSE)>>
             one == IF AsWritten(text[r]) = "long" THEN LongLine(first)
                    ELSE Line(first, unended[i] = {})
  <2>1. /\ r \in Requests /\ Tail(stdin[i]) \in Seq(Requests)
        /\ stdout[i] \in Seq(Lines) /\ unended[i] \subseteq Requests
    BY <1>5, SequenceFacts DEF PyAnswers, FtfyTypes
  <2>2. one \in Lines /\ two \in Seq(Lines)
    <3>1. first \in SUBSET Requests /\ {r} \in SUBSET Requests
      BY <2>1
    <3>2. Line(first, FALSE) \in Lines /\ Line({r}, FALSE) \in Lines /\ one \in Lines
      BY <3>1, Outcome1
    <3> QED BY <3>2, PairInSeq
  <2>3. stdout[i] \o two \in Seq(Lines) /\ Append(stdout[i], one) \in Seq(Lines)
    <3> HIDE DEF one, two
    <3> QED BY <2>1, <2>2, SequenceFacts, ConcatProperties
  <2>4. /\ stdout' \in {[stdout EXCEPT ![i] = stdout[i] \o two],
                        [stdout EXCEPT ![i] = Append(stdout[i], one)], stdout}
        /\ unended' \in {[unended EXCEPT ![i] = first], [unended EXCEPT ![i] = {}]}
    BY <1>5 DEF PyAnswers, Replies
  <2>5. stdout' \in [Instances -> Seq(Lines)] /\ unended' \in [Instances -> SUBSET Requests]
    <3> HIDE DEF one, two, first
    <3>1. stdout \in [Instances -> Seq(Lines)] /\ unended \in [Instances -> SUBSET Requests]
      BY DEF FtfyTypes
    <3>2. stdout' \in [Instances -> Seq(Lines)]
      BY ONLY <2>3, <2>4, <3>1
    <3>3. first \in SUBSET Requests
      BY <2>1 DEF first
    <3>4. unended' \in [Instances -> SUBSET Requests]
      BY ONLY <2>4, <3>1, <3>3
    <3> QED BY <3>2, <3>4
  <2>6. FtfyTypes'
    BY <1>5, <2>1, <2>5 DEF PyAnswers, FtfyTypes
  <2> QED BY <1>5, <2>6 DEF PyAnswers
<1>6. CASE PyEnds(i) \/ PyFails(i)
  BY <1>6 DEF PyEnds, PyFails, FtfyTypes
<1> QED BY <1>1, <1>2, <1>3, <1>4, <1>5, <1>6 DEF FtfyLoopStep, FtfyProcStep

LEMMA PwnedType ==
    ASSUME TypeInv, NEW i \in Instances, PwnedStep(i), UNCHANGED <<ftfyVars, main, cleaned>>
    PROVE  TypeInv'
<1> USE KeptTypes DEF TypeInv
<1>1. Outcome("checked") \in Outcomes
  BY Outcome1 DEF Kinds
<1>2. CASE CheckLimit(i) \/ ApiAnswers(i)
  BY <1>1, <1>2, MovesType, ReturnsType, States DEF CheckLimit, ApiAnswers
<1>3. CASE CallApi(i)
  <2>1. LoopTypes'
    BY <1>3, MovesType, States DEF CallApi
  <2> QED BY <1>3, <2>1 DEF CallApi, PwnedTypeOK
<1>4. CASE TooManyRequests(i)
  <2>1. LoopTypes'
    BY <1>1, <1>4, MovesType, ReturnsType, States DEF TooManyRequests
  <2>2. \A h \in Headers : h.value \in Int /\ clock + Duration(h.value) \in Int
    BY PwnedkeysAssumption DEF PwnedkeysAssumption, Duration, PwnedTypeOK
  <2>3. ra' \in [Instances -> Int]
    BY <1>4, <2>2 DEF TooManyRequests, PwnedTypeOK
  <2>4. given' \subseteq Int
    <3>1. given' \in {given, given \cup {ra'[i]}}
      BY <1>4 DEF TooManyRequests, pwnedVars
    <3> QED BY <2>3, <3>1 DEF PwnedTypeOK
  <2> QED BY <1>4, <2>1, <2>3, <2>4 DEF TooManyRequests, PwnedTypeOK
<1>5. CASE RespectRetryAfter(i)
  <2>1. LoopTypes'
    BY <1>1, <1>5, ReturnsType DEF RespectRetryAfter
  <2> QED BY <1>5, <2>1 DEF RespectRetryAfter, RaisedTo, ZeroTime, PwnedTypeOK
<1> QED BY <1>2, <1>3, <1>4, <1>5 DEF PwnedStep

LEMMA TickType ==
    ASSUME TypeInv, Tick, UNCHANGED <<ftfyVars, mainVars>>
    PROVE  TypeInv'
BY PwnedkeysAssumption, KeptTypes
   DEF PwnedkeysAssumption, TypeInv, Tick, mainVars, PwnedTypeOK

\* Every step keeps the types, as long as the loops hold requests that came.
LEMMA TypeStep == TypeInv /\ HoldInv /\ [LifecycleNext]_vars => TypeInv'
<1> SUFFICES ASSUME TypeInv, HoldInv, [LifecycleNext]_vars PROVE TypeInv'
  OBVIOUS
<1>1. ASSUME NEW r \in Requests, Receive(r) \/ HandlerStep(r) PROVE TypeInv'
  BY <1>1, RequestType
<1>2. ASSUME NEW i \in Instances, LoopStep(i) PROVE TypeInv'
  <2>1. CASE \/ LoopStart(i) \/ LoopStop(i) \/ Check(i) \/ LoopDone(i)
             \/ Turn(i) /\ UNCHANGED <<ftfyVars, pwnedVars, mainVars>>
    <3>1. UNCHANGED <<ftfyVars, pwnedVars, main, cleaned>>
      BY <2>1 DEF LoopStart, LoopStop, Check, LoopDone, mainVars
    <3> QED BY <2>1, <3>1, LoopType
  <2>2. CASE FtfyLoopStep(i) /\ UNCHANGED <<pwnedVars, mainVars>>
    BY <2>2, FtfyType DEF mainVars
  <2>3. CASE PwnedStep(i) /\ UNCHANGED <<ftfyVars, mainVars>>
    BY <2>3, PwnedType DEF mainVars
  <2> QED BY <1>2, <2>1, <2>2, <2>3 DEF LoopStep
<1>2a. ASSUME NEW i \in Instances, FtfyProcStep(i) \/ PyFails(i), UNCHANGED <<pwnedVars, mainVars>>
      PROVE  TypeInv'
  BY <1>2a, FtfyType DEF mainVars
<1>3. CASE Tick /\ UNCHANGED <<ftfyVars, mainVars>>
  BY <1>3, TickType
<1>4. CASE UNCHANGED vars
  BY <1>4, KeptTypes DEF vars, mainVars, TypeInv
<1> QED BY <1>1, <1>2, <1>2a, <1>3, <1>4, MainType DEF LifecycleNext, ProcStep

-----------------------------------------------------------------------------
(* What a step does to the loops and the requests.                         *)

\* Where a loop may go without taking or answering a request.
Edges ==
    {<<"new", "start">>, <<"start", "idle">>, <<"start", "returned">>, <<"idle", "closing">>,
     <<"idle", "returned">>, <<"closing", "returned">>, <<"returned", "exited">>}
        \cup Handling \X Handling

MovesOn(i) == \E place \in LoopStates : <<pc[i], place>> \in Edges /\ Moves(i, place)

\* HandleRequest returns something, and only without what StopInstance takes away
\* something unreliable.
ReturnsFrom(i) ==
    /\ pc[i] \in Handling
    /\ \E o \in Outcomes : Returns(i, o) /\ (o.kind = "unreliable" => cleaned # {})

RequestsChange ==
    \E r \in Requests : Receive(r) \/ HandlerStep(r)

LoopsChange == \E i \in Instances : MovesOn(i) \/ ReturnsFrom(i) \/ Turn(i)

LEMMA StepKinds ==
    ASSUME TypeInv, HoldInv, [LifecycleNext]_vars
    PROVE  \/ UNCHANGED <<pc, cur, found, waiting, handler, answer>>
           \/ RequestsChange
           \/ LoopsChange
<1> DEFINE Goal == \/ UNCHANGED <<pc, cur, found, waiting, handler, answer>>
                   \/ RequestsChange
                   \/ LoopsChange
<1>1. ASSUME NEW i \in Instances, MovesOn(i) \/ ReturnsFrom(i) \/ Turn(i) PROVE Goal
  BY <1>1 DEF LoopsChange
<1> HIDE DEF Goal
<1>2. ASSUME MainStep \/ Signal PROVE Goal
  <2>1. ASSUME NEW i \in Instances, StartLinter(i) PROVE Goal
    <3>1. MovesOn(i)
      BY <2>1, States DEF StartLinter, MovesOn, Edges
    <3> QED BY <3>1, <1>1
  <2>2. ASSUME NEW i \in Instances, StopInstance(i) PROVE Goal
    BY <2>2 DEF StopInstance, loopVars, Goal
  <2>3. CASE Run \/ Shutdown \/ StopLinters \/ Exit \/ Signal
    BY <2>3 DEF Run, Shutdown, StopLinters, Exit, Signal, loopVars, Goal
  <2> QED BY <1>2, <2>1, <2>2, <2>3 DEF MainStep
<1>3. ASSUME NEW r \in Requests, Receive(r) \/ HandlerStep(r) PROVE Goal
  BY <1>3 DEF RequestsChange, Goal
<1>4. ASSUME NEW i \in Instances,
             LoopStart(i) \/ LoopStop(i) \/ Check(i) \/ LoopDone(i) \/ Turn(i)
      PROVE  Goal
  <2>1. CASE LoopStart(i) \/ LoopStop(i) \/ LoopDone(i)
    <3>1. MovesOn(i)
      BY <2>1, States DEF LoopStart, LoopStop, LoopDone, LoopOver, MovesOn, Edges
    <3> QED BY <3>1, <1>1
  <2>2. CASE Check(i)
    <3>1. /\ Outcome("unreliable") \in Outcomes /\ Outcome("checked") \in Outcomes
          /\ Outcome("checked").kind = "checked"
      BY Outcome1 DEF Kinds
    <3>2. ReturnsFrom(i)
      BY <2>2, <3>1, States DEF Check, ReturnsFrom
    <3> QED BY <3>2, <1>1
  <2> QED BY <1>1, <1>4, <2>1, <2>2
<1>5. ASSUME NEW i \in Instances, FtfyLoopStep(i) PROVE Goal
  <2>1. CASE FtfyStart(i) \/ FtfyStop(i) \/ FtfyStopped(i)
    <3>1. MovesOn(i)
      BY <2>1, States DEF FtfyStart, FtfyStop, FtfyStopped, MovesOn, Edges
    <3> QED BY <3>1, <1>1
  <2>2. CASE FtfyBegin(i) \/ FtfyWrite(i)
    <3>1. /\ Outcome("info") \in Outcomes /\ Outcome("info").kind = "info"
          /\ Outcome("fatal") \in Outcomes /\ Outcome("fatal").kind = "fatal"
      BY Outcome1 DEF Kinds
    <3>2. CASE Returns(i, Outcome("info")) \/ Returns(i, Outcome("fatal"))
      <4>1. ReturnsFrom(i)
        BY <2>2, <3>1, <3>2, States DEF ReturnsFrom, FtfyBegin, FtfyWrite
      <4> QED BY <4>1, <1>1
    <3>3. CASE Moves(i, "write") \/ Moves(i, "scan")
      <4>1. MovesOn(i)
        BY <2>2, <3>3, States DEF MovesOn, Edges, FtfyBegin, FtfyWrite
      <4> QED BY <4>1, <1>1
    <3> QED BY <2>2, <3>2, <3>3 DEF FtfyBegin, FtfyWrite
  <2>3. CASE FtfyScan(i)
    <3>1. PICK o \in Outcomes : Returns(i, o) /\ o.kind # "unreliable"
      <4>1. stdout[i] # <<>> => Head(stdout[i]) \in Lines
        BY SequenceFacts DEF TypeInv, FtfyTypes
      <4>2. /\ Line(unended[i], FALSE) \in Outcomes
            /\ Line(unended[i], FALSE).kind = "compared"
            /\ stdout[i] # <<>> => /\ Line(Head(stdout[i]).of, FALSE) \in Outcomes
                                  /\ Line(Head(stdout[i]).of, FALSE).kind = "compared"
        BY <4>1, Outcome1 DEF TypeInv, FtfyTypes
      <4>3. Outcome("fatal") \in Outcomes /\ Outcome("fatal").kind = "fatal"
        BY Outcome1 DEF Kinds
      <4> QED BY <2>3, <4>1, <4>2, <4>3, Outcome1 DEF FtfyScan, ScanLine, ScanLong
    <3>2. ReturnsFrom(i)
      BY <2>3, <3>1, States DEF ReturnsFrom, FtfyScan
    <3> QED BY <3>2, <1>1
  <2> QED BY <1>5, <2>1, <2>2, <2>3 DEF FtfyLoopStep
<1>6. ASSUME NEW i \in Instances, PwnedStep(i) PROVE Goal
  <2>1. Outcome("checked") \in Outcomes /\ Outcome("checked").kind = "checked"
    BY Outcome1 DEF Kinds
  <2>2. CASE Returns(i, Outcome("checked"))
    <3>1. ReturnsFrom(i)
      BY <1>6, <2>1, <2>2, States DEF PwnedStep, CheckLimit, CallApi, ApiAnswers, TooManyRequests,
                                      RespectRetryAfter, ReturnsFrom
    <3> QED BY <3>1, <1>1
  <2>3. CASE Moves(i, "call") \/ Moves(i, "calling") \/ Moves(i, "respect")
    <3>1. pc[i] \in Handling
      BY <1>6, States DEF PwnedStep, CheckLimit, CallApi, ApiAnswers, TooManyRequests,
                          RespectRetryAfter
    <3>2. MovesOn(i)
      BY <2>3, <3>1, States DEF MovesOn, Edges
    <3> QED BY <3>2, <1>1
  <2> QED BY <1>6, <2>2, <2>3 DEF PwnedStep, CheckLimit, CallApi, ApiAnswers, TooManyRequests,
                                  RespectRetryAfter
<1>7. ASSUME NEW i \in Instances, FtfyProcStep(i) \/ PyFails(i) PROVE Goal
  BY <1>7 DEF FtfyProcStep, PyAnswers, PyEnds, PyFails, loopVars, Goal
<1>8. ASSUME Tick \/ UNCHANGED vars PROVE Goal
  BY <1>8 DEF Tick, vars, loopVars, Goal
<1>9. ASSUME NEW i \in Instances, LoopStep(i) \/ ProcStep(i) PROVE Goal
  BY <1>4, <1>5, <1>6, <1>7, <1>9 DEF LoopStep, ProcStep
<1>10. Goal
  BY <1>2, <1>3, <1>7, <1>8, <1>9 DEF LifecycleNext
<1> QED BY <1>10 DEF Goal

\* No loop comes back to where it was before it was started, or is added or
\* dropped; and a request that came stays one.
LEMMA NeverBack ==
    ASSUME TypeInv, HoldInv, [LifecycleNext]_vars
    PROVE  /\ \A i \in Instances : /\ pc'[i] = "absent" <=> pc[i] = "absent"
                                   /\ pc'[i] = "new" => pc[i] = "new"
           /\ \A r \in Requests : Came(r) => Came(r)'
<1> DEFINE Goal == /\ \A i \in Instances : /\ pc'[i] = "absent" <=> pc[i] = "absent"
                                           /\ pc'[i] = "new" => pc[i] = "new"
                   /\ \A r \in Requests : Came(r) => Came(r)'
<1>1. CASE UNCHANGED <<pc, handler>>
  BY <1>1 DEF Came
<1>2. ASSUME NEW r \in Requests, Receive(r) \/ HandlerStep(r) PROVE Goal
  BY <1>2 DEF Receive, Accept, HandlerStep, RequestStep, Expire, GiveUp, Came,
              TypeInv, LoopTypes
<1>3. ASSUME NEW i \in Instances, MovesOn(i) PROVE Goal
  <2>1. PICK place \in LoopStates : <<pc[i], place>> \in Edges /\ Moves(i, place)
    BY <1>3 DEF MovesOn
  <2>2. /\ pc[i] # "absent" /\ place \notin {"absent", "new"}
        /\ pc' = [pc EXCEPT ![i] = place] /\ handler' = handler
    BY <2>1 DEF Edges, Handling, Moves, Goto
  <2> QED BY <2>2 DEF Came, TypeInv, LoopTypes
<1>4. ASSUME NEW i \in Instances, ReturnsFrom(i) PROVE Goal
  BY <1>4 DEF ReturnsFrom, Returns, Goto, Handling, Came, TypeInv, LoopTypes
<1>5. ASSUME NEW i \in Instances, Turn(i) PROVE Goal
  BY <1>5 DEF Turn, Take, SendFound, SendEnd, Goto, Came, TypeInv, LoopTypes
<1> QED BY <1>1, <1>2, <1>3, <1>4, <1>5, StepKinds DEF RequestsChange, LoopsChange

LEMMA HoldStep == TypeInv /\ HoldInv /\ [LifecycleNext]_vars => HoldInv'
<1> SUFFICES ASSUME TypeInv, HoldInv, [LifecycleNext]_vars PROVE HoldInv'
  OBVIOUS
<1>1. \A r \in Requests : Came(r) => Came(r)'
  BY NeverBack
<1>2. waiting \subseteq Requests /\ pc \in [Instances -> LoopStates]
  BY DEF TypeInv, LoopTypes
<1> DEFINE Waits == \A r \in waiting : Came(r)
           Holds(i) == pc[i] \in Holding => cur[i] \in Requests /\ Came(cur[i])
<1>3. Waits /\ \A i \in Instances : Holds(i)
  BY DEF HoldInv
<1>4. ASSUME waiting' \subseteq waiting PROVE Waits'
  BY <1>1, <1>2, <1>3, <1>4
<1>5. ASSUME NEW j \in Instances, pc'[j] = pc[j], cur'[j] = cur[j] PROVE Holds(j)'
  BY <1>1, <1>3, <1>5
<1>6. CASE UNCHANGED <<pc, cur, waiting>>
  BY <1>4, <1>5, <1>6 DEF HoldInv
<1>7. ASSUME NEW r \in Requests, Receive(r) \/ HandlerStep(r) PROVE HoldInv'
  <2>1. UNCHANGED <<pc, cur>>
    BY <1>7 DEF Receive, Accept, HandlerStep, RequestStep, Expire, GiveUp
  <2>2. waiting' \subseteq waiting \/ (waiting' = waiting \cup {r} /\ Came(r)')
    BY <1>7 DEF Receive, Accept, HandlerStep, RequestStep, Expire, GiveUp, Came, TypeInv,
                LoopTypes
  <2>3. Waits'
    BY <1>1, <1>2, <1>3, <2>2
  <2> QED BY <1>5, <2>1, <2>3 DEF HoldInv
<1>8. ASSUME NEW i \in Instances, MovesOn(i) \/ ReturnsFrom(i) PROVE HoldInv'
  <2>1. PICK place : /\ pc' = [pc EXCEPT ![i] = place]
                     /\ place \in Holding => pc[i] \in Holding
    BY <1>8 DEF MovesOn, Moves, Edges, ReturnsFrom, Returns, Goto, Holding, Handling
  <2>2. UNCHANGED <<cur, waiting>>
    BY <1>8 DEF MovesOn, Moves, ReturnsFrom, Returns
  <2>3. Holds(i)'
    BY <1>1, <1>2, <1>3, <2>1, <2>2
  <2> QED BY <1>2, <1>4, <1>5, <2>1, <2>2, <2>3 DEF HoldInv
<1>9. ASSUME NEW i \in Instances, Turn(i) PROVE HoldInv'
  <2>1. waiting' \subseteq waiting
    BY <1>9 DEF Turn, Take, SendFound, SendEnd
  <2>2. \A j \in Instances \ {i} : pc'[j] = pc[j] /\ cur'[j] = cur[j]
    BY <1>9, <1>2 DEF Turn, Take, SendFound, SendEnd, Goto, TypeInv, LoopTypes
  <2>3. Holds(i)'
    <3>1. ASSUME NEW r \in Requests, Take(i, r) PROVE Holds(i)'
      BY <1>1, <1>2, <1>3, <3>1 DEF Take, Goto, TypeInv, LoopTypes
    <3>2. CASE SendFound(i)
      BY <1>1, <1>2, <1>3, <3>2 DEF SendFound, Goto, Holding
    <3>3. CASE SendEnd(i)
      BY <1>2, <3>3 DEF SendEnd, Goto, Holding, Handling
    <3> QED BY <1>9, <3>1, <3>2, <3>3 DEF Turn
  <2> QED BY <1>4, <1>5, <2>1, <2>2, <2>3 DEF HoldInv
<1> QED BY <1>6, <1>7, <1>8, <1>9, StepKinds DEF RequestsChange, LoopsChange

-----------------------------------------------------------------------------
(* The processes, and who is left when main exits.                         *)

LEMMA ProcInit == LifecycleInit => ProcInv
BY DEF LifecycleInit, FtfyInit, ProcInv

LEMMA ProcStays ==
    ASSUME TypeInv, HoldInv, ProcInv, [LifecycleNext]_vars
    PROVE  ProcInv'
<1> DEFINE P(i) == /\ pc[i] \in {"absent", "new", "start"} => proc[i] = "none"
                   /\ proc[i] \in {"up", "hung"} =>
                          linter = "ftfy" /\ pc[i] \in Holding \cup {"idle", "closing"}
<1>1. /\ \A i \in Instances : P(i)
      /\ pc \in [Instances -> LoopStates]
      /\ proc \in [Instances -> {"none", "up", "hung", "dead"}]
  BY DEF ProcInv, TypeInv, LoopTypes, FtfyTypes
<1>2. ASSUME UNCHANGED <<linter, pc, proc>> PROVE ProcInv'
  BY <1>1, <1>2 DEF ProcInv
<1>3. ASSUME NEW i \in Instances, NEW place, NEW state,
             pc' = [pc EXCEPT ![i] = place], proc' = [proc EXCEPT ![i] = state],
             linter' = linter,
             place \in {"absent", "new", "start"} => state = "none",
             state \in {"up", "hung"} =>
                 linter = "ftfy" /\ place \in Holding \cup {"idle", "closing"}
      PROVE  ProcInv'
  BY <1>1, <1>3 DEF ProcInv
<1>4. ASSUME NEW i \in Instances, NEW place, proc' = proc, linter' = linter,
             pc' = [pc EXCEPT ![i] = place],
             place \in {"absent", "new", "start"} => proc[i] = "none",
             proc[i] \in {"up", "hung"} =>
                 linter = "ftfy" /\ place \in Holding \cup {"idle", "closing"}
      PROVE  ProcInv'
  <2>1. proc' = [proc EXCEPT ![i] = proc[i]]
    BY <1>1, <1>4
  <2> QED BY ONLY <1>3, <1>4, <2>1
<1>5. ASSUME NEW i \in Instances, pc[i] \in Handling \cup {"idle", "send", "end"},
             proc' = proc, linter' = linter,
             \E place \in Handling \cup {"idle", "send", "end"} : pc' = [pc EXCEPT ![i] = place]
      PROVE  ProcInv'
  <2>1. PICK place \in Handling \cup {"idle", "send", "end"} : pc' = [pc EXCEPT ![i] = place]
    BY <1>5
  <2>2. /\ place \notin {"absent", "new", "start"}
        /\ place \in Holding \cup {"idle", "closing"}
        /\ pc[i] \in Holding \cup {"idle", "closing"}
    BY <1>5, <2>1 DEF Holding, Handling
  <2>3. proc[i] \in {"up", "hung"} => linter = "ftfy"
    BY <1>1
  <2> QED BY <1>4, <1>5, <2>1, <2>2, <2>3
<1>6. CASE Run \/ Shutdown \/ StopLinters \/ Exit \/ Signal
  BY <1>2, <1>6 DEF Run, Shutdown, StopLinters, Exit, Signal, loopVars, ftfyVars
<1>7. ASSUME NEW i \in Instances, StartLinter(i) PROVE ProcInv'
  BY <1>1, <1>4, <1>7 DEF StartLinter, Moves, Goto, ftfyVars
<1>8. ASSUME NEW i \in Instances, StopInstance(i) PROVE ProcInv'
  BY <1>2, <1>8 DEF StopInstance, loopVars, ftfyVars
<1>9. ASSUME NEW r \in Requests, Receive(r) \/ HandlerStep(r) PROVE ProcInv'
  BY <1>2, <1>9 DEF Receive, Accept, Brings, HandlerStep, RequestStep, Expire, GiveUp, ftfyVars
<1>10. ASSUME NEW i \in Instances, LoopStart(i) \/ LoopStop(i) \/ LoopDone(i) PROVE ProcInv'
  BY <1>1, <1>4, <1>10 DEF LoopStart, LoopStop, LoopDone, LoopOver, Moves, Goto, ftfyVars,
                           Holding, Handling
<1>11. ASSUME NEW i \in Instances, Check(i) PROVE ProcInv'
  BY <1>5, <1>11 DEF Check, Returns, Goto, Handling, ftfyVars
<1>12. ASSUME NEW i \in Instances, Turn(i), UNCHANGED ftfyVars PROVE ProcInv'
  <2>1. CASE UNCHANGED pc
    BY <1>2, <1>12, <2>1 DEF Turn, Take, SendFound, SendEnd, ftfyVars
  <2>2. CASE ~UNCHANGED pc
    BY <1>5, <1>12, <2>2 DEF Turn, Take, SendFound, SendEnd, Goto, Handling, ftfyVars
  <2> QED BY <2>1, <2>2
<1>13. ASSUME NEW i \in Instances, FtfyLoopStep(i) PROVE ProcInv'
  <2>1. CASE FtfyStart(i)
    <3>1. CASE Moves(i, "idle") /\ proc' = [proc EXCEPT ![i] = "up"]
      BY <1>3, <2>1, <3>1 DEF FtfyStart, Moves, Goto
    <3>2. CASE Moves(i, "returned") /\ UNCHANGED ftfyVars
      BY <1>1, <1>4, <2>1, <3>2 DEF FtfyStart, Moves, Goto, ftfyVars
    <3> QED BY <2>1, <3>1, <3>2 DEF FtfyStart
  <2>2. CASE FtfyStop(i) \/ FtfyStopped(i)
    BY <1>1, <1>4, <2>2 DEF FtfyStop, FtfyStopped, Moves, Goto, ftfyVars
  <2>3. CASE FtfyBegin(i) \/ FtfyWrite(i) \/ FtfyScan(i)
    BY <1>5, <2>3 DEF FtfyBegin, FtfyWrite, FtfyScan, ScanLine, ScanLong, Moves, Returns, Goto,
                        Handling, ftfyVars
  <2> QED BY <1>13, <2>1, <2>2, <2>3 DEF FtfyLoopStep
<1>14. ASSUME NEW i \in Instances, PwnedStep(i), UNCHANGED ftfyVars PROVE ProcInv'
  BY <1>5, <1>14 DEF PwnedStep, CheckLimit, CallApi, ApiAnswers, TooManyRequests,
                     RespectRetryAfter, Moves, Returns, Goto, Handling, ftfyVars
<1>15. ASSUME NEW i \in Instances, PyAnswers(i) PROVE ProcInv'
  BY <1>2, <1>15 DEF PyAnswers, loopVars
<1>16. ASSUME NEW i \in Instances, PyEnds(i) \/ PyFails(i) PROVE ProcInv'
  <2>1. PICK state \in {"dead", "hung"} : proc' = [proc EXCEPT ![i] = state]
    BY <1>16 DEF PyEnds, PyFails
  <2>2. pc' = [pc EXCEPT ![i] = pc[i]] /\ linter' = linter /\ proc[i] = "up"
    BY <1>1, <1>16 DEF PyEnds, PyFails, loopVars
  <2> QED BY <1>1, <1>3, <2>1, <2>2
<1>17. CASE (Tick /\ UNCHANGED ftfyVars) \/ UNCHANGED vars
  BY <1>2, <1>17 DEF Tick, vars, loopVars, ftfyVars
<1>18. ASSUME NEW i \in Instances, LoopStep(i) PROVE ProcInv'
  BY <1>10, <1>11, <1>12, <1>13, <1>14, <1>18 DEF LoopStep
<1> QED BY <1>6, <1>7, <1>8, <1>9, <1>15, <1>16, <1>17, <1>18
        DEF LifecycleNext, MainStep, ProcStep, FtfyProcStep

\* A step by whose it is.
InstanceStep(i) ==
    \/ LoopStep(i)
    \/ ProcStep(i)
    \/ PyFails(i) /\ UNCHANGED <<pwnedVars, mainVars>>

Ticks == Tick /\ UNCHANGED <<ftfyVars, mainVars>>

LEMMA StepCases ==
    [LifecycleNext]_vars => \/ MainStep
                            \/ Signal
                            \/ \E r \in Requests : Receive(r) \/ HandlerStep(r)
                            \/ \E i \in Instances : InstanceStep(i)
                            \/ Ticks
                            \/ UNCHANGED vars
BY DEF LifecycleNext, InstanceStep, Ticks

\* What a step of a loop or a process does to the loops that run.
ActiveKept == running' = running /\ Active' = Active

LEMMA OnePlace ==
    ASSUME TypeInv, NEW i \in Instances, NEW place,
           pc' = [pc EXCEPT ![i] = place],
           pc[i] \notin {"absent", "new", "exited"}
    PROVE  /\ place \notin {"absent", "new", "exited"} => Active' = Active
           /\ place = "exited" => i \in Active /\ Active' = Active \ {i}
BY DEF Active, TypeInv, LoopTypes

LEMMA LoopsAndMain ==
    ASSUME TypeInv, NEW i \in Instances,
           InstanceStep(i)
    PROVE  /\ UNCHANGED <<main, cleaned>>
           /\ \/ ActiveKept
              \/ /\ running' = running - 1
                 /\ i \in Active /\ Active' = Active \ {i}
<1> DEFINE Goal == /\ UNCHANGED <<main, cleaned>>
                   /\ \/ ActiveKept
                      \/ /\ running' = running - 1
                         /\ i \in Active /\ Active' = Active \ {i}
<1>1. ASSUME UNCHANGED <<pc, mainVars>> PROVE Goal
  BY <1>1 DEF ActiveKept, Active, mainVars
<1>2. ASSUME NEW place, pc' = [pc EXCEPT ![i] = place], UNCHANGED mainVars,
             {pc[i], place} \cap {"absent", "new", "exited"} = {}
      PROVE  Goal
  BY <1>2, OnePlace DEF ActiveKept, mainVars
<1> HIDE DEF Goal
<1>3. ASSUME LoopStart(i) \/ LoopStop(i) \/ Check(i) PROVE Goal
  <2>1. PICK place \in {"idle", "returned", "send"} : pc' = [pc EXCEPT ![i] = place]
    BY <1>3 DEF LoopStart, LoopStop, Check, Moves, Returns, Goto
  <2>2. pc[i] \notin {"absent", "new", "exited"} /\ UNCHANGED mainVars
    BY <1>3 DEF LoopStart, LoopStop, Check
  <2> QED BY <1>2, <2>1, <2>2
<1>4. ASSUME LoopDone(i) PROVE Goal
  BY <1>4, OnePlace DEF LoopDone, LoopOver, Moves, Goto, Goal
<1>5. ASSUME Turn(i), UNCHANGED mainVars PROVE Goal
  <2>1. UNCHANGED pc \/ \E place \in {"handle", "end", "idle"} : pc' = [pc EXCEPT ![i] = place]
    BY <1>5 DEF Turn, Take, SendFound, SendEnd, Goto
  <2>2. pc[i] \notin {"absent", "new", "exited"}
    BY <1>5 DEF Turn, Take, SendFound, SendEnd
  <2> QED BY <1>1, <1>2, <1>5, <2>1, <2>2
<1>6. ASSUME FtfyLoopStep(i), UNCHANGED mainVars PROVE Goal
  <2>1. PICK place \in {"returned", "idle", "closing", "send", "write", "scan"} :
             pc' = [pc EXCEPT ![i] = place]
    BY <1>6 DEF FtfyLoopStep, FtfyStart, FtfyStop, FtfyStopped, FtfyBegin, FtfyWrite, FtfyScan,
                ScanLine, ScanLong, Moves, Returns, Goto
  <2>2. pc[i] \notin {"absent", "new", "exited"}
    BY <1>6 DEF FtfyLoopStep, FtfyStart, FtfyStop, FtfyStopped, FtfyBegin, FtfyWrite, FtfyScan
  <2> QED BY <1>2, <1>6, <2>1, <2>2
<1>7. ASSUME PwnedStep(i), UNCHANGED mainVars PROVE Goal
  <2>1. PICK place \in {"send", "call", "calling", "respect"} : pc' = [pc EXCEPT ![i] = place]
    BY <1>7 DEF PwnedStep, CheckLimit, CallApi, ApiAnswers, TooManyRequests, RespectRetryAfter,
                Moves, Returns, Goto
  <2>2. pc[i] \notin {"absent", "new", "exited"}
    BY <1>7 DEF PwnedStep, CheckLimit, CallApi, ApiAnswers, TooManyRequests, RespectRetryAfter
  <2> QED BY <1>2, <1>7, <2>1, <2>2
<1>8. ASSUME FtfyProcStep(i) \/ PyFails(i), UNCHANGED mainVars PROVE Goal
  BY <1>1, <1>8 DEF FtfyProcStep, PyAnswers, PyEnds, PyFails, loopVars
<1>9. ASSUME LoopStep(i) PROVE Goal
  BY <1>3, <1>4, <1>5, <1>6, <1>7, <1>9 DEF LoopStep
<1> QED BY <1>8, <1>9 DEF InstanceStep, ProcStep, Goal

\* Only an accepted request is open.
LEMMA Opened ==
    ASSUME TypeInv, HoldInv, [LifecycleNext]_vars, NEW r \in Requests, handler'[r] = "open"
    PROVE  handler[r] = "open" \/ main = "serving"
<1>1. ASSUME RequestsChange PROVE handler[r] = "open" \/ main = "serving"
  BY <1>1 DEF RequestsChange, Receive, Accept, HandlerStep, RequestStep, Expire, GiveUp,
              TypeInv, LoopTypes
<1>2. ASSUME LoopsChange PROVE handler[r] = "open"
  BY <1>2 DEF LoopsChange, MovesOn, Moves, ReturnsFrom, Returns, Turn, Take, SendFound, SendEnd,
              TypeInv, LoopTypes
<1>3. CASE UNCHANGED handler
  BY <1>3
<1> QED BY <1>1, <1>2, <1>3, StepKinds

LEMMA MainInit == LifecycleInit => MainInv
<1> SUFFICES ASSUME LifecycleInit PROVE MainInv
  OBVIOUS
<1>1. Active = {}
  BY DEF LifecycleInit, Init, Active
<1>2. Cardinality({}) = 0
  BY FS_EmptySet
<1> QED BY <1>1, <1>2 DEF MainInv, LifecycleInit, Late

LEMMA MainStays ==
    ASSUME TypeInv, HoldInv, MainInv, [LifecycleNext]_vars
    PROVE  MainInv'
<1>1. IsFiniteSet(Active)
  BY InProcessAssumption, FS_Subset DEF InProcessAssumption, Active
<1>2. /\ \A i \in Instances : pc'[i] = "new" => pc[i] = "new"
      /\ \A r \in Requests : handler'[r] = "open" => handler[r] = "open" \/ main = "serving"
  BY NeverBack, Opened
<1>3. ASSUME UNCHANGED <<main, cleaned>>, ActiveKept PROVE MainInv'
  BY <1>2, <1>3 DEF ActiveKept, MainInv, Late
<1>4. ASSUME NEW i \in Instances, InstanceStep(i)
      PROVE  MainInv'
  <2>1. CASE ActiveKept
    BY <1>3, <1>4, <2>1, LoopsAndMain
  <2>2. CASE /\ UNCHANGED <<main, cleaned>> /\ running' = running - 1
             /\ i \in Active /\ Active' = Active \ {i}
    <3>1. Cardinality(Active') = Cardinality(Active) - 1
      BY <1>1, <2>2, FS_RemoveElement
    <3> QED BY <1>2, <2>2, <3>1 DEF MainInv, Late
  <2> QED BY <1>4, <2>1, <2>2, LoopsAndMain
<1>5. ASSUME NEW i \in Instances, StartLinter(i) PROVE MainInv'
  <2>1. i \notin Active /\ Active' = Active \cup {i}
    BY <1>5 DEF StartLinter, Moves, Goto, Active, TypeInv, LoopTypes
  <2>2. Cardinality(Active') = Cardinality(Active) + 1
    BY <1>1, <2>1, FS_AddElement
  <2> QED BY <1>2, <1>5, <2>2 DEF StartLinter, Counted, MainInv, Late
<1>6. ASSUME NEW i \in Instances, StopInstance(i) PROVE MainInv'
  BY <1>2, <1>6 DEF StopInstance, loopVars, MainInv, Late, Active
<1>7. CASE Run
  BY <1>2, <1>7 DEF Run, loopVars, MainInv, Late, Active, Configured
<1>8. CASE Shutdown \/ StopLinters
  BY <1>2, <1>8 DEF Shutdown, StopLinters, Drained, loopVars, MainInv, Late, Active
<1>9. CASE Exit
  <2>1. Active = {}
    BY <1>1, <1>9, FS_EmptySet DEF Exit, MainInv
  <2> QED BY <1>2, <1>9, <2>1 DEF Exit, loopVars, MainInv, Late, Active
<1>10. ASSUME NEW r \in Requests, Receive(r) \/ HandlerStep(r) PROVE MainInv'
  <2>1. UNCHANGED <<pc, mainVars>>
    BY <1>10 DEF Receive, Accept, HandlerStep, RequestStep, Expire, GiveUp
  <2> QED BY <1>3, <2>1 DEF ActiveKept, Active, mainVars
<1>11. CASE Signal \/ Ticks \/ UNCHANGED vars
  BY <1>3, <1>11 DEF Signal, Ticks, Tick, vars, loopVars, mainVars, ActiveKept, Active
<1> QED BY <1>4, <1>5, <1>6, <1>7, <1>8, <1>9, <1>10, <1>11, StepCases DEF MainStep

LEMMA ReliableInit == LifecycleInit => ReliableInv
BY DEF LifecycleInit, Init, ReliableInv, Nothing, Outcome

\* An answer needs an open handler, so it is given before the cleanup.
LEMMA ReliableStays ==
    ASSUME TypeInv, HoldInv, MainInv, ReliableInv, [LifecycleNext]_vars
    PROVE  ReliableInv'
<1>1. cleaned # {} => cleaned' # {}
  <2>1. ASSUME NEW i \in Instances, InstanceStep(i)
        PROVE  UNCHANGED cleaned
    BY <2>1, LoopsAndMain
  <2>2. CASE MainStep
    BY <2>2 DEF MainStep, StartLinter, StopInstance, Run, Shutdown, StopLinters, Exit
  <2>3. ASSUME NEW r \in Requests, Receive(r) \/ HandlerStep(r) PROVE UNCHANGED cleaned
    BY <2>3 DEF Receive, HandlerStep, mainVars
  <2>4. CASE Signal \/ Ticks \/ UNCHANGED vars
    BY <2>4 DEF Signal, Ticks, vars, mainVars
  <2> QED BY <2>1, <2>2, <2>3, <2>4, StepCases
<1>2. CASE UNCHANGED <<found, answer>>
  BY <1>1, <1>2 DEF ReliableInv
<1>3. CASE RequestsChange
  <2>1. UNCHANGED <<found, answer>>
    BY <1>3 DEF RequestsChange, Receive, Accept, HandlerStep, RequestStep, Expire, GiveUp
  <2> QED BY <1>2, <2>1
<1>4. ASSUME NEW i \in Instances, MovesOn(i) PROVE ReliableInv'
  BY <1>2, <1>4 DEF MovesOn, Moves
<1>5. ASSUME NEW i \in Instances, ReturnsFrom(i) PROVE ReliableInv'
  BY <1>1, <1>5 DEF ReturnsFrom, Returns, ReliableInv, TypeInv, LoopTypes
<1>6. ASSUME NEW i \in Instances, Turn(i) PROVE ReliableInv'
  <2>1. CASE UNCHANGED <<found, answer>>
    BY <1>2, <2>1
  <2>2. CASE /\ SendFound(i) /\ handler[cur[i]] = "open"
             /\ answer' = [answer EXCEPT ![cur[i]] = found[i]]
    <3>1. cur[i] \in Requests
      BY <2>2 DEF SendFound, HoldInv, Holding
    <3>2. found[i].kind # "unreliable"
      BY <2>2, <3>1 DEF ReliableInv, MainInv
    <3> QED BY <1>1, <2>2, <3>1, <3>2 DEF SendFound, ReliableInv, TypeInv, LoopTypes
  <2>3. CASE SendEnd(i)
    BY <1>1, <2>3 DEF SendEnd, ReliableInv, Nothing, Outcome, TypeInv, LoopTypes
  <2> QED BY <1>6, <2>1, <2>2, <2>3 DEF Turn, Take, SendFound
<1> QED BY <1>2, <1>3, <1>4, <1>5, <1>6, StepKinds DEF LoopsChange

-----------------------------------------------------------------------------
(* The lines of ftfy.                                                      *)

LEMMA PipesInit == LifecycleInit => PipesInv
BY DEF LifecycleInit, Init, FtfyInit, PipesInv, Pipes, Compared, Nothing, Outcome

\* A text that was brought is kept.
LEMMA OddStays ==
    ASSUME TypeInv, HoldInv, [LifecycleNext]_vars, NoneOdd'
    PROVE  NoneOdd
<1>1. \A r \in Requests : Came(r) => Came(r)'
  BY NeverBack
<1>2. ASSUME UNCHANGED text PROVE NoneOdd
  BY <1>1, <1>2 DEF NoneOdd, Odd, Came
<1>3. ASSUME NEW s \in Requests, Receive(s) PROVE NoneOdd
  <2>1. handler[s] = "new" /\ \A r \in Requests \ {s} : text'[r] = text[r]
    BY <1>3 DEF Receive, Accept, Brings, TypeInv, FtfyTypes
  <2> QED BY <1>1, <2>1 DEF NoneOdd, Odd, Came
<1>4. ASSUME NEW r \in Requests, HandlerStep(r) PROVE NoneOdd
  BY <1>2, <1>4 DEF HandlerStep, ftfyVars
<1>5. ASSUME NEW i \in Instances, InstanceStep(i) PROVE UNCHANGED text
  BY <1>5 DEF InstanceStep, LoopStep, LoopStart, LoopStop, Check, LoopDone, FtfyLoopStep,
              FtfyStart, FtfyStop, FtfyStopped, FtfyBegin, FtfyWrite, FtfyScan,
              ProcStep, FtfyProcStep, PyAnswers, PyEnds, PyFails, ftfyVars
<1>6. CASE MainStep \/ Signal \/ Ticks \/ UNCHANGED vars
  <2>1. UNCHANGED text
    BY <1>6 DEF MainStep, StartLinter, StopInstance, Run, Shutdown, StopLinters, Exit, Signal,
                Ticks, vars, ftfyVars
  <2> QED BY <1>2, <2>1
<1> QED BY <1>2, <1>3, <1>4, <1>5, <1>6, StepCases

\* All but the loop and the process of i is as it was.
OnlyPipe(i) ==
    \A j \in Instances \ {i} :
        /\ pc'[j] = pc[j] /\ cur'[j] = cur[j] /\ found'[j] = found[j] /\ proc'[j] = proc[j]
        /\ stdin'[j] = stdin[j] /\ stdout'[j] = stdout[j] /\ unended'[j] = unended[j]
        /\ scanner'[j] = scanner[j]

LEMMA OtherPipes ==
    ASSUME NEW i \in Instances, OnlyPipe(i), \A j \in Instances : Pipes(j), Pipes(i)'
    PROVE  \A j \in Instances : Pipes(j)'
<1>1. ASSUME NEW j \in Instances \ {i} PROVE Pipes(j)'
  BY <1>1 DEF OnlyPipe, Pipes
<1> QED BY <1>1

\* A loop goes on, or returns something that was not read, past empty pipes.
LEMMA PipesMove ==
    ASSUME TypeInv, NEW i \in Instances, NEW place \in LoopStates \ {"scan"},
           \A j \in Instances : Pipes(j), pc[i] \notin {"scan", "send", "end"},
           UNCHANGED <<proc, stdin, stdout, scanner, unended>>,
           \/ Moves(i, place)
           \/ place = "send" /\ \E o \in Outcomes : o.kind # "compared" /\ Returns(i, o)
    PROVE  \A j \in Instances : Pipes(j)'
<1>1. /\ pc'[i] = place /\ cur'[i] = cur[i] /\ found'[i].kind # "compared"
      /\ OnlyPipe(i)
  <2>1. CASE Moves(i, place)
    BY <2>1 DEF Moves, Goto, Pipes, OnlyPipe, TypeInv, LoopTypes
  <2>2. CASE place = "send" /\ \E o \in Outcomes : o.kind # "compared" /\ Returns(i, o)
    BY <2>2 DEF Returns, Goto, OnlyPipe, TypeInv, LoopTypes
  <2> QED BY <2>1, <2>2
<1>2. Pipes(i)'
  BY <1>1 DEF Pipes
<1> QED BY <1>1, <1>2, OtherPipes

LEMMA PipesFtfyLoop ==
    ASSUME TypeInv, HoldInv, ProcInv, NEW i \in Instances, FtfyLoopStep(i),
           \A j \in Instances : Pipes(j)
    PROVE  \A j \in Instances : Pipes(j)'
<1>1. /\ Outcome("info") \in Outcomes /\ Outcome("info").kind # "compared"
      /\ Outcome("fatal") \in Outcomes /\ Outcome("fatal").kind # "compared"
  BY Outcome1 DEF Kinds
<1>2. CASE FtfyStart(i)
  <2>1. CASE Moves(i, "returned") /\ UNCHANGED ftfyVars
    BY <1>2, <2>1, PipesMove, States DEF FtfyStart, ftfyVars
  <2>2. CASE /\ Moves(i, "idle")
             /\ proc' = [proc EXCEPT ![i] = "up"]
             /\ UNCHANGED <<stdin, stdout, scanner, unended>>
    <3>1. OnlyPipe(i)
      BY <2>2 DEF Moves, Goto, OnlyPipe, TypeInv, LoopTypes, FtfyTypes
    <3>2. stdin[i] = <<>>
      BY <1>2 DEF FtfyStart, ProcInv, Pipes
    <3>3. Pipes(i)'
      BY <1>2, <2>2, <3>2 DEF FtfyStart, Moves, Goto, Pipes, TypeInv, LoopTypes
    <3> QED BY <3>1, <3>3, OtherPipes
  <2> QED BY <1>2, <2>1, <2>2 DEF FtfyStart
<1>3. CASE FtfyStop(i) \/ FtfyStopped(i)
  <2>1. PICK place \in {"closing", "returned"} : Moves(i, place)
    BY <1>3 DEF FtfyStop, FtfyStopped
  <2>2. pc[i] \notin {"scan", "send", "end"} /\ UNCHANGED <<proc, stdin, stdout, scanner, unended>>
    BY <1>3 DEF FtfyStop, FtfyStopped, ftfyVars
  <2> QED BY <2>1, <2>2, PipesMove, States
<1>4. CASE FtfyBegin(i)
  <2>1. pc[i] = "handle" /\ UNCHANGED <<proc, stdin, stdout, scanner, unended>>
    BY <1>4 DEF FtfyBegin, ftfyVars
  <2>2. Returns(i, Outcome("info")) \/ Moves(i, "write")
    BY <1>4 DEF FtfyBegin
  <2>3. {"send", "write"} \subseteq LoopStates \ {"scan"}
    BY DEF LoopStates, Handling
  <2> QED BY <1>1, <2>1, <2>2, <2>3, PipesMove
<1>5. CASE FtfyWrite(i)
  <2>1. CASE proc[i] = "dead"
    BY <1>1, <1>5, <2>1, PipesMove, States DEF FtfyWrite
  <2>2. CASE proc[i] # "dead"
    <3>1. /\ pc[i] = "write" /\ Moves(i, "scan")
          /\ stdin' = [stdin EXCEPT ![i] = Append(@, cur[i])]
          /\ UNCHANGED <<proc, stdout, scanner, unended>>
      BY <1>5, <2>2 DEF FtfyWrite
    <3>2. OnlyPipe(i)
      BY <3>1 DEF Moves, Goto, OnlyPipe, TypeInv, LoopTypes, FtfyTypes
    <3>3. stdin'[i] = <<cur[i]>>
      <4>1. stdin[i] = <<>> /\ stdin \in [Instances -> Seq(Requests)]
        BY <2>2, <3>1 DEF Pipes, TypeInv, FtfyTypes
      <4>2. Append(<<>>, cur[i]) = <<cur[i]>>
        OBVIOUS
      <4> QED BY <3>1, <4>1, <4>2
    <3>4. /\ pc'[i] = "scan" /\ cur'[i] = cur[i] /\ found'[i] = found[i]
      BY <3>1 DEF Moves, Goto, TypeInv, LoopTypes
    <3>5. Pipes(i)'
      BY <3>1, <3>3, <3>4 DEF Pipes
    <3> QED BY <3>2, <3>5, OtherPipes
  <2> QED BY <2>1, <2>2
<1>6. CASE FtfyScan(i)
  <2>1. OnlyPipe(i)
    BY <1>6 DEF FtfyScan, ScanLine, ScanLong, Returns, Goto, OnlyPipe, TypeInv, LoopTypes, FtfyTypes
  <2>2. /\ pc[i] = "scan" /\ pc'[i] = "send" /\ cur'[i] = cur[i]
        /\ proc' = proc /\ stdin' = stdin
    BY <1>6 DEF FtfyScan, ScanLine, ScanLong, Returns, Goto, TypeInv, LoopTypes
  <2>2a. ScanLine(i) /\ scanner' = scanner
    <3>1. scanner[i] = "reading" /\ (stdout[i] # <<>> => Head(stdout[i]).kind = "compared")
      <4>1. Head(<<Line({cur[i]}, TRUE)>>).kind = "compared"
        BY DEF Line
      <4> QED BY <2>2, <4>1 DEF Pipes
    <3> QED BY <1>6, <3>1 DEF FtfyScan, ScanLine, ScanLong
  <2>3. CASE stdout[i] # <<>>
    <3>1. stdin[i] = <<>> /\ stdout[i] = <<Line({cur[i]}, TRUE)>>
      BY <2>2, <2>3 DEF Pipes
    <3>2. Head(stdout[i]) = Line({cur[i]}, TRUE) /\ Tail(stdout[i]) = <<>>
      BY <3>1
    <3>3. found'[i] = Line({cur[i]}, TRUE) /\ stdout'[i] = <<>> /\ unended' = unended
      BY <2>2a, <2>3, <3>2 DEF ScanLine, Returns, TypeInv, LoopTypes, FtfyTypes
    <3>4. Pipes(i)'
      BY <2>2, <2>2a, <3>1, <3>3 DEF Pipes
    <3> QED BY <2>1, <3>4, OtherPipes
  <2>4. CASE stdout[i] = <<>>
    <3>1. /\ proc[i] = "dead" /\ unended[i] = {}
          /\ found'[i] = Outcome("fatal") /\ stdout' = stdout /\ unended'[i] = {}
      BY <2>2a, <2>4 DEF ScanLine, Returns, Pipes, TypeInv, LoopTypes, FtfyTypes
    <3>2. Pipes(i)'
      BY <1>1, <2>2, <2>2a, <2>4, <3>1 DEF Pipes
    <3> QED BY <2>1, <3>2, OtherPipes
  <2> QED BY <2>3, <2>4
<1> QED BY <1>2, <1>3, <1>4, <1>5, <1>6 DEF FtfyLoopStep

LEMMA PipesProc ==
    ASSUME TypeInv, HoldInv, NEW i \in Instances, FtfyProcStep(i) \/ PyFails(i),
           NoneOdd, \A j \in Instances : Pipes(j)
    PROVE  \A j \in Instances : Pipes(j)'
<1>1. CASE PyAnswers(i)
  <2>1. proc[i] = "up" /\ stdin[i] # <<>> /\ UNCHANGED <<pc, cur, found, proc, scanner>>
    BY <1>1 DEF PyAnswers, loopVars
  <2>2. pc[i] = "scan" /\ stdin[i] = <<cur[i]>> /\ stdout[i] = <<>> /\ unended[i] = {}
    BY <2>1 DEF Pipes
  <2>3. Head(stdin[i]) = cur[i] /\ Tail(stdin[i]) = <<>>
    BY <2>2
  <2>4. AsWritten(text[cur[i]]) \in {"ascii", "plain"}
    BY <2>2, States DEF AsWritten, NoneOdd, Odd, HoldInv, Holding, Came, TypeInv, FtfyTypes,
                        TextKinds
  <2>5. /\ stdout' = [stdout EXCEPT ![i] = Append(@, Line({} \cup {cur[i]}, TRUE))]
        /\ unended' = [unended EXCEPT ![i] = {}]
    BY <1>1, <2>2, <2>3, <2>4 DEF PyAnswers, Replies
  <2>6. stdout'[i] = <<Line({cur[i]}, TRUE)>>
    <3>1. {} \cup {cur[i]} = {cur[i]}
      OBVIOUS
    <3>2. stdout'[i] = Append(<<>>, Line({cur[i]}, TRUE))
      BY <2>2, <2>5, <3>1 DEF TypeInv, FtfyTypes
    <3> QED BY <3>2
  <2>7. stdin'[i] = <<>> /\ unended'[i] = {}
    BY <1>1, <2>3, <2>5 DEF PyAnswers, TypeInv, FtfyTypes
  <2>8. OnlyPipe(i)
    BY <1>1, <2>1, <2>5 DEF PyAnswers, OnlyPipe, TypeInv, FtfyTypes
  <2>9. Pipes(i)'
    BY <2>1, <2>2, <2>6, <2>7 DEF Pipes
  <2> QED BY <2>8, <2>9, OtherPipes
<1>2. CASE PyEnds(i) \/ PyFails(i)
  <2>1. /\ proc[i] = "up" /\ UNCHANGED <<pc, cur, found, stdin, stdout, scanner, unended>>
        /\ \A j \in Instances \ {i} : proc'[j] = proc[j]
    BY <1>2 DEF PyEnds, PyFails, loopVars, TypeInv, FtfyTypes
  <2>2. OnlyPipe(i)
    BY <2>1 DEF OnlyPipe
  <2>3. Pipes(i)'
    BY <2>1 DEF Pipes
  <2> QED BY <2>2, <2>3, OtherPipes
<1> QED BY <1>1, <1>2 DEF FtfyProcStep

LEMMA PipesTurn ==
    ASSUME TypeInv, NEW i \in Instances, Turn(i), UNCHANGED ftfyVars,
           \A j \in Instances : Pipes(j)
    PROVE  \A j \in Instances : Pipes(j)'
<1>1. OnlyPipe(i)
  BY DEF Turn, Take, SendFound, SendEnd, Goto, OnlyPipe, ftfyVars, TypeInv, LoopTypes
<1>2. UNCHANGED <<proc, stdin, stdout, scanner, unended>> /\ pc[i] # "scan"
  BY DEF Turn, Take, SendFound, SendEnd, ftfyVars
<1>3. ASSUME NEW r \in Requests, Take(i, r) PROVE Pipes(i)'
  BY <1>2, <1>3 DEF Take, Goto, Pipes, TypeInv, LoopTypes
<1>4. CASE SendFound(i)
  BY <1>2, <1>4 DEF SendFound, Goto, Pipes, TypeInv, LoopTypes
<1>5. CASE SendEnd(i)
  BY <1>2, <1>5 DEF SendEnd, Goto, Pipes, Nothing, Outcome, TypeInv, LoopTypes
<1> QED BY <1>1, <1>3, <1>4, <1>5, OtherPipes DEF Turn

LEMMA PipesInstance ==
    ASSUME TypeInv, HoldInv, ProcInv, NEW i \in Instances, InstanceStep(i),
           NoneOdd, \A j \in Instances : Pipes(j)
    PROVE  \A j \in Instances : Pipes(j)'
<1> DEFINE Goal == \A j \in Instances : Pipes(j)'
<1>1. ASSUME LoopStart(i) \/ LoopStop(i) \/ LoopDone(i) PROVE Goal
  <2>1. PICK place \in {"idle", "returned", "exited"} : Moves(i, place)
    BY <1>1 DEF LoopStart, LoopStop, LoopDone
  <2>2. pc[i] \notin {"scan", "send", "end"} /\ UNCHANGED <<proc, stdin, stdout, scanner, unended>>
    BY <1>1 DEF LoopStart, LoopStop, LoopDone, LoopOver, ftfyVars
  <2> QED BY <2>1, <2>2, PipesMove, States
<1>2. ASSUME Check(i) PROVE Goal
  <2>1. \E o \in Outcomes : o.kind # "compared" /\ Returns(i, o)
    BY <1>2, Outcome1 DEF Check, Kinds
  <2>2. pc[i] \notin {"scan", "send", "end"} /\ UNCHANGED <<proc, stdin, stdout, scanner, unended>>
    BY <1>2 DEF Check, ftfyVars
  <2> QED BY <2>1, <2>2, PipesMove, States
<1>3. ASSUME PwnedStep(i), UNCHANGED ftfyVars PROVE Goal
  <2>1. \/ Returns(i, Outcome("checked"))
        \/ \E place \in {"call", "calling", "respect"} : Moves(i, place)
    BY <1>3 DEF PwnedStep, CheckLimit, CallApi, ApiAnswers, TooManyRequests, RespectRetryAfter
  <2>2. pc[i] \notin {"scan", "send", "end"} /\ UNCHANGED <<proc, stdin, stdout, scanner, unended>>
    BY <1>3 DEF PwnedStep, CheckLimit, CallApi, ApiAnswers, TooManyRequests,
                RespectRetryAfter, ftfyVars
  <2>3. Outcome("checked") \in Outcomes /\ Outcome("checked").kind # "compared"
    BY Outcome1 DEF Kinds
  <2>4. {"call", "calling", "respect", "send"} \subseteq LoopStates \ {"scan"}
    BY DEF LoopStates, Handling
  <2> QED BY <2>1, <2>2, <2>3, <2>4, PipesMove
<1>4. ASSUME LoopStep(i) PROVE Goal
  BY <1>1, <1>2, <1>3, <1>4, PipesTurn, PipesFtfyLoop DEF LoopStep
<1> QED BY <1>4, PipesProc DEF InstanceStep, ProcStep

LEMMA PipesStay ==
    ASSUME TypeInv, HoldInv, ProcInv, PipesInv, [LifecycleNext]_vars
    PROVE  PipesInv'
<1> SUFFICES ASSUME NoneOdd'
             PROVE  /\ \A i \in Instances : Pipes(i)'
                    /\ \A r \in Requests : Compared(r)' => OwnLine(r)'
  BY DEF PipesInv
<1>1. NoneOdd
  BY OddStays
<1>2. /\ \A i \in Instances : Pipes(i)
      /\ \A r \in Requests : Compared(r) => OwnLine(r)
  BY <1>1 DEF PipesInv
<1>3. \A i \in Instances : Pipes(i)'
  <2>1. ASSUME UNCHANGED <<pc, cur, found, proc, stdin, stdout, scanner, unended>>
        PROVE  \A i \in Instances : Pipes(i)'
    BY <1>2, <2>1 DEF Pipes
  <2>2. ASSUME NEW i \in Instances, StartLinter(i) PROVE \A j \in Instances : Pipes(j)'
    BY <1>2, <2>2, PipesMove, States DEF StartLinter, ftfyVars
  <2>3. ASSUME NEW i \in Instances, StopInstance(i) PROVE \A j \in Instances : Pipes(j)'
    BY <2>1, <2>3 DEF StopInstance, loopVars, ftfyVars
  <2>4. CASE Run \/ Shutdown \/ StopLinters \/ Exit \/ Signal \/ Ticks \/ UNCHANGED vars
    BY <2>1, <2>4 DEF Run, Shutdown, StopLinters, Exit, Signal, Ticks, Tick, vars,
                      loopVars, ftfyVars
  <2>5. ASSUME NEW r \in Requests, Receive(r) \/ HandlerStep(r)
        PROVE  \A i \in Instances : Pipes(i)'
    BY <2>1, <2>5 DEF Receive, Accept, Brings, HandlerStep, RequestStep, Expire, GiveUp, ftfyVars
  <2>6. ASSUME NEW i \in Instances, InstanceStep(i) PROVE \A j \in Instances : Pipes(j)'
    BY <1>1, <1>2, <2>6, PipesInstance
  <2> QED BY <2>2, <2>3, <2>4, <2>5, <2>6, StepCases DEF MainStep
<1>4. \A r \in Requests : Compared(r)' => OwnLine(r)'
  <2>1. ASSUME UNCHANGED answer PROVE \A r \in Requests : Compared(r)' => OwnLine(r)'
    BY <1>2, <2>1 DEF Compared, OwnLine
  <2>2. CASE RequestsChange
    BY <2>1, <2>2 DEF RequestsChange, Receive, Accept, HandlerStep, RequestStep, Expire, GiveUp
  <2>3. ASSUME NEW i \in Instances, MovesOn(i) \/ ReturnsFrom(i) PROVE UNCHANGED answer
    BY <2>3 DEF MovesOn, Moves, ReturnsFrom, Returns
  <2>4. ASSUME NEW i \in Instances, Turn(i)
        PROVE  \A r \in Requests : Compared(r)' => OwnLine(r)'
    <3>1. UNCHANGED answer \/ /\ pc[i] = "send"
                              /\ answer' = [answer EXCEPT ![cur[i]] = found[i]]
      BY <2>4 DEF Turn, Take, SendFound, SendEnd
    <3>2. CASE pc[i] = "send" /\ answer' = [answer EXCEPT ![cur[i]] = found[i]]
      <4>1. found[i].kind = "compared" => found[i] = Line({cur[i]}, TRUE)
        BY <1>2 DEF Pipes
      <4>2. cur[i] \in Requests /\ answer'[cur[i]] = found[i]
        BY <3>2 DEF HoldInv, Holding, TypeInv, LoopTypes
      <4>3. \A r \in Requests \ {cur[i]} : answer'[r] = answer[r]
        BY <3>2 DEF TypeInv, LoopTypes
      <4> QED BY <1>2, <4>1, <4>2, <4>3 DEF Compared, OwnLine
    <3> QED BY <2>1, <3>1, <3>2
  <2>5. CASE LoopsChange
    BY <2>1, <2>3, <2>4, <2>5 DEF LoopsChange
  <2> QED BY <2>1, <2>2, <2>5, StepKinds
<1> QED BY <1>3, <1>4

-----------------------------------------------------------------------------
(* The limit of pwnedkeys.                                                 *)

LEMMA LimitInit == LifecycleInit => LimitInv /\ GivenInv
BY DEF LifecycleInit, PwnedInit, LimitInv, GivenInv, ZeroTime

LEMMA CallingKept ==
    ASSUME TypeInv, NEW i \in Instances, NEW place,
           pc' = [pc EXCEPT ![i] = place]
    PROVE  /\ pc[i] # "call" /\ place # "call" => Calling' = Calling
           /\ pc[i] = "call" /\ place # "call" => i \in Calling /\ Calling' = Calling \ {i}
           /\ pc[i] # "call" => i \notin Calling
BY DEF Calling, TypeInv, LoopTypes

Respecting == {i \in Instances : pc[i] = "respect"}

\* A step that neither sets out for the API nor knows of the limit.
Unlimited ==
    /\ Calling' = Calling /\ Respecting' = Respecting
    /\ UNCHANGED pwnedVars

LEMMA UnlimitedStep ==
    ASSUME TypeInv, HoldInv, [LifecycleNext]_vars
    PROVE  \/ Unlimited
           \/ Ticks
           \/ \E i \in Instances : PwnedStep(i)
<1>1. ASSUME UNCHANGED <<pc, pwnedVars>> PROVE Unlimited
  BY <1>1 DEF Unlimited, Calling, Respecting
<1>2. ASSUME NEW i \in Instances, NEW place, pc' = [pc EXCEPT ![i] = place], UNCHANGED pwnedVars,
             pc[i] \notin {"call", "respect"}, place \notin {"call", "respect"}
      PROVE  Unlimited
  BY <1>2, CallingKept DEF Unlimited, Respecting, TypeInv, LoopTypes
<1>3. ASSUME MainStep \/ Signal \/ UNCHANGED vars PROVE Unlimited
  <2>1. ASSUME NEW i \in Instances, StartLinter(i) PROVE Unlimited
    BY <1>2, <2>1 DEF StartLinter, Moves, Goto
  <2>2. ASSUME NEW i \in Instances, StopInstance(i) PROVE Unlimited
    BY <1>1, <2>2 DEF StopInstance, loopVars
  <2>3. CASE Run \/ Shutdown \/ StopLinters \/ Exit \/ Signal \/ UNCHANGED vars
    BY <1>1, <2>3 DEF Run, Shutdown, StopLinters, Exit, Signal, vars, loopVars
  <2> QED BY <1>3, <2>1, <2>2, <2>3 DEF MainStep
<1>4. ASSUME NEW r \in Requests, Receive(r) \/ HandlerStep(r) PROVE Unlimited
  BY <1>1, <1>4 DEF Receive, Accept, HandlerStep, RequestStep, Expire, GiveUp
<1>5. ASSUME NEW i \in Instances, InstanceStep(i) PROVE Unlimited \/ PwnedStep(i)
  <2>1. ASSUME LoopStart(i) \/ LoopStop(i) \/ LoopDone(i) \/ Check(i) PROVE Unlimited
    <3>1. PICK place \in {"idle", "returned", "exited", "send"} : pc' = [pc EXCEPT ![i] = place]
      BY <2>1 DEF LoopStart, LoopStop, LoopDone, Check, Moves, Returns, Goto
    <3>2. pc[i] \notin {"call", "respect"} /\ UNCHANGED pwnedVars
      BY <2>1 DEF LoopStart, LoopStop, LoopDone, LoopOver, Check
    <3> QED BY <1>2, <3>1, <3>2
  <2>2. ASSUME Turn(i), UNCHANGED pwnedVars PROVE Unlimited
    <3>1. \/ UNCHANGED pc
          \/ \E place \in {"handle", "end", "idle"} : pc' = [pc EXCEPT ![i] = place]
      BY <2>2 DEF Turn, Take, SendFound, SendEnd, Goto
    <3>2. pc[i] \notin {"call", "respect"}
      BY <2>2 DEF Turn, Take, SendFound, SendEnd
    <3> QED BY <1>1, <1>2, <2>2, <3>1, <3>2
  <2>3. ASSUME FtfyLoopStep(i), UNCHANGED pwnedVars PROVE Unlimited
    <3>1. PICK place \in {"returned", "idle", "closing", "send", "write", "scan"} :
               pc' = [pc EXCEPT ![i] = place]
      BY <2>3 DEF FtfyLoopStep, FtfyStart, FtfyStop, FtfyStopped, FtfyBegin, FtfyWrite, FtfyScan,
                  ScanLine, ScanLong, Moves, Returns, Goto
    <3>2. pc[i] \notin {"call", "respect"}
      BY <2>3 DEF FtfyLoopStep, FtfyStart, FtfyStop, FtfyStopped, FtfyBegin, FtfyWrite, FtfyScan
    <3> QED BY <1>2, <2>3, <3>1, <3>2
  <2>4. ASSUME FtfyProcStep(i) \/ PyFails(i), UNCHANGED <<pwnedVars, mainVars>> PROVE Unlimited
    BY <1>1, <2>4 DEF FtfyProcStep, PyAnswers, PyEnds, PyFails, loopVars
  <2>5. ASSUME LoopStep(i) PROVE Unlimited \/ PwnedStep(i)
    BY <2>1, <2>2, <2>3, <2>5 DEF LoopStep
  <2> QED BY <1>5, <2>4, <2>5 DEF InstanceStep, ProcStep
<1> QED BY <1>3, <1>4, <1>5, StepCases

LEMMA LimitStays ==
    ASSUME TypeInv, HoldInv, LimitInv, [LifecycleNext]_vars
    PROVE  LimitInv'
<1>1. IsFiniteSet(Calling) /\ IsFiniteSet(Configured) /\ Calling \subseteq Configured
  BY InProcessAssumption, FS_Subset DEF InProcessAssumption, Calling, Configured
<1>2. Configured' = Configured
  BY NeverBack DEF Configured
<1>3. /\ Cardinality(Calling) \in Nat /\ Cardinality(Configured) \in Nat
      /\ clock \in Int /\ retryAfter \in Int /\ overrun \in Nat
  BY <1>1, FS_CardinalityType DEF TypeInv, PwnedTypeOK
<1>4. CASE Unlimited
  BY <1>2, <1>4 DEF Unlimited, LimitInv, pwnedVars
<1>5. CASE Ticks
  <2>1. Calling' = Calling /\ UNCHANGED <<retryAfter, overrun>> /\ clock' = clock + 1
    BY <1>5 DEF Ticks, Tick, loopVars, Calling
  <2> QED BY <1>2, <1>3, <2>1 DEF LimitInv
<1>6. ASSUME NEW i \in Instances, PwnedStep(i) PROVE LimitInv'
  <2>1. ASSUME NEW place, pc' = [pc EXCEPT ![i] = place], pc[i] # "call", place # "call",
               UNCHANGED <<clock, retryAfter, overrun>>
        PROVE  LimitInv'
    BY <1>2, <2>1, CallingKept DEF LimitInv
  <2>2. CASE CheckLimit(i) /\ RateLimited
    BY <2>1, <2>2 DEF CheckLimit, Returns, Goto, pwnedVars
  <2>3. CASE CheckLimit(i) /\ ~RateLimited
    BY <2>3 DEF CheckLimit, RateLimited, LimitInv, pwnedVars
  <2>4. CASE CallApi(i)
    <3>1. i \in Calling /\ Calling' = Calling \ {i}
      <4>1. pc[i] = "call" /\ \E place \in {"calling"} : pc' = [pc EXCEPT ![i] = place]
        BY <2>4 DEF CallApi, Moves, Goto
      <4> QED BY <4>1, CallingKept
    <3>2. Cardinality(Calling') = Cardinality(Calling) - 1
      BY <1>1, <3>1, FS_RemoveElement
    <3> QED BY <1>2, <1>3, <2>4, <3>2 DEF CallApi, LimitInv
  <2>5. CASE ApiAnswers(i)
    BY <2>1, <2>5 DEF ApiAnswers, Returns, Goto, pwnedVars
  <2>6. CASE TooManyRequests(i)
    BY <2>1, <2>6 DEF TooManyRequests, Moves, Returns, Goto
  <2>7. CASE RespectRetryAfter(i)
    <3>1. Calling' = Calling /\ i \notin Calling
      <4>1. pc[i] = "respect" /\ \E place \in {"send"} : pc' = [pc EXCEPT ![i] = place]
        BY <2>7 DEF RespectRetryAfter, Returns, Goto
      <4> QED BY <4>1, CallingKept
    <3>2. clock' = clock
      BY <2>7 DEF RespectRetryAfter
    <3>3. CASE retryAfter' > retryAfter
      <4>1. i \in Configured /\ Calling \subseteq Configured \ {i}
        BY <1>1, <2>7, <3>1 DEF RespectRetryAfter, Configured
      <4>2. /\ IsFiniteSet(Configured \ {i})
            /\ Cardinality(Configured \ {i}) = Cardinality(Configured) - 1
        BY <1>1, <4>1, FS_RemoveElement
      <4>3. Cardinality(Calling) <= Cardinality(Configured \ {i})
        BY <4>1, <4>2, FS_Subset
      <4> QED BY <1>2, <1>3, <2>7, <3>1, <3>2, <3>3, <4>2, <4>3
              DEF RespectRetryAfter, LimitInv
    <3>4. CASE ~(retryAfter' > retryAfter)
      <4>1. retryAfter' = retryAfter
        BY <2>7, <3>4 DEF RespectRetryAfter, RaisedTo
      <4> QED BY <1>2, <2>7, <3>1, <3>2, <3>4, <4>1 DEF RespectRetryAfter, LimitInv
    <3> QED BY <3>3, <3>4
  <2> QED BY <1>6, <2>2, <2>3, <2>4, <2>5, <2>6, <2>7 DEF PwnedStep
<1> QED BY <1>4, <1>5, <1>6, UnlimitedStep

\* A step of pwnedkeys works a time out, or records the one of its own instance.
LEMMA GivenPwned ==
    ASSUME TypeInv, GivenInv, NEW i \in Instances, PwnedStep(i)
    PROVE  GivenInv'
<1>1. /\ \A j \in Instances \ {i} : pc'[j] = pc[j] /\ ra'[j] = ra[j]
      /\ retryAfter' \in Int /\ retryAfter <= retryAfter'
  BY DEF PwnedStep, CheckLimit, CallApi, ApiAnswers, TooManyRequests, RespectRetryAfter, RaisedTo,
         Moves, Returns, Goto, TypeInv, LoopTypes, PwnedTypeOK, pwnedVars
<1>2. \A t \in given : t \in Int /\ retryAfter \in Int
  BY DEF TypeInv, PwnedTypeOK
<1>3. ASSUME NEW t \in given, pc[i] # "respect" \/ ra[i] # t
      PROVE  t <= retryAfter' \/ AwaitsLock(t)'
  BY <1>1, <1>2, <1>3 DEF GivenInv, AwaitsLock
<1>4. CASE pc[i] # "respect" /\ given' = given
  BY <1>3, <1>4 DEF GivenInv
<1>5. CASE TooManyRequests(i) /\ given' # given
  <2>1. /\ pc[i] # "respect" /\ given' = given \cup {ra'[i]} /\ pc'[i] = "respect"
    BY <1>5 DEF TooManyRequests, Moves, Goto, TypeInv, LoopTypes
  <2> QED BY <1>3, <2>1 DEF GivenInv, AwaitsLock
<1>6. CASE RespectRetryAfter(i)
  <2>1. given' = given /\ ra[i] <= retryAfter'
    BY <1>6 DEF RespectRetryAfter, RaisedTo, TypeInv, PwnedTypeOK
  <2> QED BY <1>3, <2>1 DEF GivenInv
<1> QED BY <1>4, <1>5, <1>6
        DEF PwnedStep, CheckLimit, CallApi, ApiAnswers, TooManyRequests, pwnedVars

LEMMA GivenStays ==
    ASSUME TypeInv, HoldInv, GivenInv, [LifecycleNext]_vars
    PROVE  GivenInv'
<1>1. ASSUME Respecting' = Respecting, UNCHANGED <<retryAfter, ra, given>> PROVE GivenInv'
  <2>1. \A j \in Instances : pc[j] = "respect" <=> pc'[j] = "respect"
    BY <1>1 DEF Respecting
  <2> QED BY <1>1, <2>1 DEF GivenInv, AwaitsLock
<1>2. CASE Unlimited
  BY <1>1, <1>2 DEF Unlimited, pwnedVars
<1>3. CASE Ticks
  BY <1>1, <1>3 DEF Ticks, Tick, loopVars, Respecting
<1> QED BY <1>2, <1>3, GivenPwned, UnlimitedStep

\* Whoever sets out for the API found every time over that is recorded.
LEMMA SetsOut ==
    ASSUME TypeInv, HoldInv, GivenInv, [LifecycleNext]_vars, NEW i \in Instances,
           pc[i] = "handle", pc'[i] = "call"
    PROVE  \A t \in given : t <= clock \/ AwaitsLock(t)
<1>1. i \in Calling' /\ i \notin Calling
  BY DEF Calling
<1>2. ~Unlimited
  BY <1>1 DEF Unlimited
<1>3. ~Ticks
  BY <1>1 DEF Ticks, Tick, loopVars
<1>4. PICK j \in Instances : PwnedStep(j)
  BY <1>2, <1>3, UnlimitedStep
<1>5. i = j
  BY <1>4 DEF PwnedStep, CheckLimit, CallApi, ApiAnswers, TooManyRequests, RespectRetryAfter,
              Moves, Returns, Goto, TypeInv, LoopTypes
<1>6. CheckLimit(i) /\ ~RateLimited
  BY <1>4, <1>5 DEF PwnedStep, CheckLimit, CallApi, ApiAnswers, TooManyRequests, RespectRetryAfter,
                    Moves, Returns, Goto, TypeInv, LoopTypes
<1> QED BY <1>6 DEF RateLimited, GivenInv, TypeInv, PwnedTypeOK

-----------------------------------------------------------------------------
(* The theorems.                                                           *)

LEMMA IInvInit == LifecycleInit => IInv
BY TypeInit, ProcInit, MainInit, ReliableInit, PipesInit, LimitInit
   DEF IInv, HoldInv, LifecycleInit, Init, Holding, Handling

LEMMA IInvStep == IInv /\ [LifecycleNext]_vars => IInv'
<1> SUFFICES ASSUME IInv, [LifecycleNext]_vars PROVE IInv'
  OBVIOUS
<1>1. /\ TypeInv /\ HoldInv /\ ProcInv /\ MainInv /\ ReliableInv /\ PipesInv
      /\ LimitInv /\ GivenInv
  BY DEF IInv
<1>2. TypeInv' /\ HoldInv'
  BY <1>1, TypeStep, HoldStep
<1>3. ProcInv' /\ MainInv' /\ ReliableInv'
  BY <1>1, ProcStays, MainStays, ReliableStays
<1>4. PipesInv' /\ LimitInv' /\ GivenInv'
  BY <1>1, PipesStay, LimitStays, GivenStays
<1> QED BY <1>2, <1>3, <1>4 DEF IInv

\* In every behaviour the loops, pipes, handlers, counters and main are where the
\* code can put them (main.go, linter/linter.go:408, and the two HandleRequest).
THEOREM LifecycleTypeCorrect == LifecycleSpec => []LifecycleTypeOK
<1>1. IInv => LifecycleTypeOK
  <2> SUFFICES ASSUME IInv PROVE LifecycleTypeOK
    OBVIOUS
  <2>1. TypeInv
    BY DEF IInv
  <2>2. running \in Nat
    <3>1. IsFiniteSet(Active)
      BY InProcessAssumption, FS_Subset DEF InProcessAssumption, Active
    <3> QED BY <3>1, FS_CardinalityType DEF IInv, MainInv
  <2>3. ASSUME NEW i \in Instances, NEW k \in 1 .. Len(stdout[i])
        PROVE  stdout[i][k].of \subseteq Requests
    <3>1. stdout[i] \in Seq(Lines)
      BY <2>1 DEF TypeInv, FtfyTypes
    <3>2. stdout[i][k] \in Lines
      BY <2>3, <3>1, ElementOfSeq
    <3> QED BY <3>2, Outcome1
  <2>4. FtfyTypeOK
    BY <2>1, <2>3 DEF TypeInv, FtfyTypes, FtfyTypeOK
  <2> QED BY <2>1, <2>2, <2>4 DEF LifecycleTypeOK, TypeInv, LoopTypes, MainTypes
<1> QED BY <1>1, IInvInit, IInvStep, PTL DEF LifecycleSpec

\* ftfy (linter/ftfy/handler.go): whatever the clients, the deadlines and the
\* process do, as long as every text is one line for Python, within what the Scanner
\* holds, and fix_text does not raise, what a client is told rests on the line for
\* its own text.
THEOREM LinesKeptInStep == LifecycleSpec => []LinesStayInStep
<1>1. IInv => LinesStayInStep
  BY DEF IInv, PipesInv, NoneOdd, LinesStayInStep
<1> QED BY <1>1, IInvInit, IInvStep, PTL DEF LifecycleSpec

\* pwnedkeys (linter/pwnedkeys/handler.go): while a limit is in force, fewer calls
\* begin than there are instances, for any number of them, any Retry-After values
\* and any wrap of their Duration.
THEOREM OverrunIsBounded == LifecycleSpec => []OverrunBounded
<1>1. IInv => OverrunBounded
  <2> SUFFICES ASSUME IInv, retryAfter > clock PROVE overrun < Cardinality(Configured)
    BY DEF OverrunBounded, Configured
  <2>1. IsFiniteSet(Calling) /\ IsFiniteSet(Configured)
    BY InProcessAssumption, FS_Subset DEF InProcessAssumption, Calling, Configured
  <2> QED BY <2>1, FS_CardinalityType DEF IInv, LimitInv, TypeInv, PwnedTypeOK
<1> QED BY <1>1, IInvInit, IInvStep, PTL DEF LifecycleSpec

\* pwnedkeys (respectRetryAfter): no instance sets out for the API before a time
\* that any of them worked out of a Retry-After, but for one that its instance has
\* still to record under the lock.
THEOREM LimitsRespected == LifecycleSpec => SetsOutAfterLimits
<1>1. IInv /\ [LifecycleNext]_vars =>
          [\A i \in Instances :
              pc[i] = "handle" /\ pc'[i] = "call" =>
                  \A t \in given : t <= clock \/ AwaitsLock(t)]_pc
  BY SetsOut DEF IInv
<1> QED BY <1>1, IInvInit, IInvStep, PTL DEF LifecycleSpec, SetsOutAfterLimits

\* main.go: what dwklint and x509lint find after their cleanup ran under them is
\* told to no client, as the web server was drained before.
THEOREM NoAnswerAfterCleanup == LifecycleSpec => []AnswersPredateCleanup
<1>1. IInv => AnswersPredateCleanup
  BY DEF IInv, ReliableInv, AnswersPredateCleanup
<1> QED BY <1>1, IInvInit, IInvStep, PTL DEF LifecycleSpec

\* main.go: main exits when every loop that it started has ended, every Python
\* process is gone and no handler is left.
THEOREM CleanExit == LifecycleSpec => []ExitIsClean
<1>1. IInv => ExitIsClean
  <2> SUFFICES ASSUME IInv, main = "exited" PROVE ExitIsClean
    BY DEF ExitIsClean
  <2>1. ASSUME NEW i \in Configured PROVE pc[i] = "exited"
    BY <2>1 DEF IInv, MainInv, Active, Configured
  <2>2. ASSUME NEW i \in Configured PROVE proc[i] \in {"none", "dead"}
    BY <2>1, <2>2 DEF IInv, ProcInv, Holding, Handling, Configured, TypeInv, FtfyTypes
  <2> QED BY <2>1, <2>2 DEF IInv, MainInv, Late, ExitIsClean
<1> QED BY <1>1, IInvInit, IInvStep, PTL DEF LifecycleSpec

-----------------------------------------------------------------------------
(* Lifecycle implements ServerLoop.                                        *)

LEMMA Places ==
    /\ Place("new") = "away" /\ Place("start") = "away" /\ Place("idle") = "idle"
    /\ \A state \in Handling : Place(state) = "working"
    /\ Place("send") = "sending" /\ Place("end") = "closing"
    /\ Place("absent") = "over" /\ Place("closing") = "over"
    /\ Place("returned") = "over" /\ Place("exited") = "over"
BY DEF Place, Handling

\* The requests that no instance received, as ServerLoop has them.
NotReceived == [l \in {"linter"} |-> waiting \cup {r \in Requests : handler[r] = "new"}]

LEMMA LoopsInit == LifecycleInit => Loops!Init
<1> SUFFICES ASSUME LifecycleInit PROVE Loops!Init
  OBVIOUS
<1>1. /\ pc \in [Instances -> {"new", "absent"}]
      /\ cur = [i \in Instances |-> None]
      /\ waiting = {} /\ expired = {} /\ stopping = FALSE
  BY DEF LifecycleInit, Init
<1>2. [i \in Instances |-> Place(pc[i])] \in [Instances -> {"away", "over"}]
  BY <1>1, Places
<1>3. NotReceived \in [{"linter"} -> SUBSET Requests]
  BY <1>1 DEF NotReceived
<1>4. cur = [i \in Instances |-> Loops!None]
  BY <1>1 DEF None, Loops!None
<1> QED BY <1>1, <1>2, <1>3, <1>4 DEF Loops!Init, NotReceived

\* Where a loop goes when it goes, and nothing else that ServerLoop sees changes.
LEMMA LoopsGoes ==
    ASSUME TypeInv, NEW i \in Instances, NEW state,
           pc' = [pc EXCEPT ![i] = state],
           UNCHANGED <<cur, waiting, handler, expired, stopping>>
    PROVE  /\ Loops!Goes(i, Place(pc[i]), Place(state))
           /\ Place(pc[i]) = Place(state) => UNCHANGED Loops!loopsVars
<1> DEFINE place == [j \in Instances |-> Place(pc[j])]
<1>1. place' = [place EXCEPT ![i] = Place(state)]
  BY DEF TypeInv, LoopTypes
<1>2. place[i] = Place(pc[i])
  OBVIOUS
<1>3. Place(pc[i]) = Place(state) => place' = place
  BY <1>1, <1>2
<1> HIDE DEF place
<1>4. Loops!Goes(i, Place(pc[i]), Place(state))
  BY <1>1, <1>2 DEF Loops!Goes, place
<1>5. Place(pc[i]) = Place(state) => UNCHANGED Loops!loopsVars
  BY <1>3 DEF Loops!loopsVars, Loops!loopVars, place
<1> QED BY <1>4, <1>5

\* A step that ServerLoop does not see.
LEMMA LoopsStutter ==
    ASSUME UNCHANGED <<pc, cur, expired, stopping, NotReceived>>
    PROVE  UNCHANGED Loops!loopsVars
BY DEF Loops!loopsVars, Loops!loopVars, NotReceived

\* Whatever HandleRequest does is work, until it has something to send.
LEMMA LoopsHandle ==
    ASSUME TypeInv, NEW i \in Instances, pc[i] \in Handling,
           \/ \E state \in Handling : Moves(i, state)
           \/ \E outcome : Returns(i, outcome)
    PROVE  [Loops!Next]_(Loops!loopsVars)
<1>1. UNCHANGED <<cur, waiting, handler, expired, stopping>>
  BY DEF Moves, Returns
<1>2. ASSUME NEW state \in Handling, pc' = [pc EXCEPT ![i] = state]
      PROVE  UNCHANGED Loops!loopsVars
  BY <1>1, <1>2, LoopsGoes, Places
<1>3. CASE pc' = [pc EXCEPT ![i] = "send"]
  <2>1. Loops!Finds(i)
    BY <1>1, <1>3, LoopsGoes, Places DEF Loops!Finds
  <2> QED BY <2>1 DEF Loops!Next
<1> QED BY <1>2, <1>3 DEF Moves, Returns, Goto

\* A turn begins with a request that is due, and is closed after what was found is sent or
\* the deadline has passed.
LEMMA LoopsTurn ==
    ASSUME TypeInv, HoldInv, NEW i \in Instances, Turn(i)
    PROVE  Loops!Next
<1> DEFINE place == [j \in Instances |-> Place(pc[j])]
           quiet == [j \in Instances |-> FALSE]
<1>1. ASSUME NEW r \in Requests, Take(i, r) PROVE Loops!Next
  <2>1. place[i] = "idle" /\ r \in NotReceived["linter"]
    BY <1>1, Places DEF Take, NotReceived
  <2>2. NotReceived' = [NotReceived EXCEPT !["linter"] = @ \ {r}]
    <3>1. waiting' = waiting \ {r} /\ handler' = handler /\ handler[r] # "new"
      BY <1>1 DEF Take, HoldInv, Came
    <3> QED BY <3>1 DEF NotReceived
  <2>3. UNCHANGED <<expired, stopping>>
    BY <1>1 DEF Take
  <2>4. Loops!Receives(i, r)
    BY <2>1, <2>2, <2>3 DEF Loops!Receives, NotReceived
  <2>5. CASE r \in expired
    <3>1. UNCHANGED <<pc, cur>>
      BY <1>1, <2>5 DEF Take
    <3>2. Loops!Skip(i, r)
      BY <2>4, <2>5, <3>1 DEF Loops!Skip
    <3> QED BY <3>2 DEF Loops!Next
  <2>6. CASE r \notin expired
    <3>1. pc' = [pc EXCEPT ![i] = "handle"] /\ cur' = [cur EXCEPT ![i] = r]
      BY <1>1, <2>6 DEF Take, Goto
    <3>2. place' = [place EXCEPT ![i] = "working"]
      <4>1. Place("handle") = "working"
        BY Places DEF Handling
      <4> QED BY <3>1, <4>1 DEF TypeInv, LoopTypes
    <3>3. Loops!Take(i, r)
      BY <2>4, <2>6, <3>1, <3>2 DEF Loops!Take
    <3> QED BY <3>3 DEF Loops!Next
  <2> QED BY <2>5, <2>6
<1>2. ASSUME SendFound(i) \/ SendEnd(i) PROVE Loops!Next
  <2> DEFINE over == pc[i] = "end"
  <2>1. /\ pc[i] \in {"send", "end"}
        /\ pc' = [pc EXCEPT ![i] = IF over THEN "idle" ELSE "end"]
        /\ cur' = [cur EXCEPT ![i] = IF over THEN None ELSE @]
        /\ UNCHANGED <<waiting, expired, stopping>>
    BY <1>2 DEF SendFound, SendEnd, Goto, TypeInv, LoopTypes
  <2>2. cur[i] \in Requests /\ handler[cur[i]] # "new"
    BY <2>1 DEF HoldInv, Holding, Came
  <2>3. UNCHANGED NotReceived
    <3>1. UNCHANGED handler \/ handler' = [handler EXCEPT ![cur[i]] = "ok"]
      BY <1>2 DEF SendFound, SendEnd
    <3>2. \A r \in Requests : handler'[r] = "new" <=> handler[r] = "new"
      BY <2>2, <3>1 DEF TypeInv, LoopTypes
    <3> QED BY <2>1, <3>2 DEF NotReceived
  <2>4. place[i] \in Loops!Sending /\ (place[i] = "closing" <=> over)
    BY <2>1, Places DEF Loops!Sending
  <2>5. Place(IF over THEN "idle" ELSE "end") = Loops!AfterResult(i)
    BY <2>1, <2>4, Places DEF Loops!AfterResult
  <2>6. place' = [j \in Instances |-> IF j \in {i} THEN Loops!AfterResult(j) ELSE place[j]]
    BY <2>1, <2>5 DEF TypeInv, LoopTypes
  <2>7. cur' = [j \in Instances |-> IF j \in {i} /\ place[j] = "closing" THEN Loops!None ELSE cur[j]]
    BY <2>1, <2>4 DEF TypeInv, LoopTypes, None, Loops!None
  <2>8. \/ handler[cur[i]] = "open"
        \/ cur[i] \in expired
    BY <1>2 DEF SendFound, SendEnd
  <2> HIDE DEF place, over
  <2>9. Loops!AreDone({i}, TRUE)
    BY <2>1, <2>3, <2>6, <2>7 DEF Loops!AreDone, NotReceived, place
  <2>10. Loops!Sends(i)
    BY <2>1, <2>4, <2>9 DEF Loops!Sends, place
  <2> QED BY <2>10 DEF Loops!Next
<1> QED BY <1>1, <1>2 DEF Turn

LEMMA LoopsInstance ==
    ASSUME TypeInv, HoldInv, NEW i \in Instances, InstanceStep(i)
    PROVE  [Loops!Next]_(Loops!loopsVars)
<1>1. ASSUME NEW state, Moves(i, state)
      PROVE  /\ Loops!Goes(i, Place(pc[i]), Place(state))
             /\ Place(pc[i]) = Place(state) => UNCHANGED Loops!loopsVars
  BY <1>1, LoopsGoes DEF Moves, Goto
<1>2. ASSUME pc[i] = "start", Moves(i, "idle") PROVE Loops!Next
  <2>1. Loops!Serve(i)
    BY <1>1, <1>2, Places DEF Loops!Serve
  <2> QED BY <2>1 DEF Loops!Next
<1>3. ASSUME pc[i] \in {"start", "idle"}, stopping, Moves(i, "returned") \/ Moves(i, "closing")
      PROVE  Loops!Next
  <2>1. Loops!Leave(i)
    BY <1>1, <1>3, Places DEF Loops!Leave
  <2> QED BY <2>1 DEF Loops!Next
<1>4. ASSUME pc[i] \in {"returned", "closing"}, Moves(i, "exited") \/ Moves(i, "returned")
      PROVE  UNCHANGED Loops!loopsVars
  BY <1>1, <1>4, Places
<1>5. ASSUME LoopStart(i) \/ LoopStop(i) \/ LoopDone(i)
      PROVE  [Loops!Next]_(Loops!loopsVars)
  BY <1>2, <1>3, <1>4, <1>5 DEF LoopStart, LoopStop, LoopDone, LoopOver
<1>6. ASSUME Check(i) PROVE [Loops!Next]_(Loops!loopsVars)
  BY <1>6, LoopsHandle DEF Check, Handling
<1>7. ASSUME FtfyStart(i) \/ FtfyStop(i) \/ FtfyStopped(i)
      PROVE  [Loops!Next]_(Loops!loopsVars)
  BY <1>2, <1>3, <1>4, <1>7 DEF FtfyStart, FtfyStop, FtfyStopped
<1>8. ASSUME FtfyBegin(i) \/ FtfyWrite(i) \/ FtfyScan(i)
      PROVE  [Loops!Next]_(Loops!loopsVars)
  BY <1>8, LoopsHandle DEF FtfyBegin, FtfyWrite, FtfyScan, ScanLine, ScanLong, Handling
<1>9. ASSUME PwnedStep(i) PROVE [Loops!Next]_(Loops!loopsVars)
  BY <1>9, LoopsHandle DEF PwnedStep, CheckLimit, CallApi, ApiAnswers, TooManyRequests,
                           RespectRetryAfter, Handling
<1>10. ASSUME FtfyProcStep(i) \/ PyFails(i) PROVE UNCHANGED Loops!loopsVars
  BY <1>10, LoopsStutter DEF FtfyProcStep, PyAnswers, PyEnds, PyFails, loopVars, NotReceived
<1> QED BY <1>5, <1>6, <1>7, <1>8, <1>9, <1>10, LoopsTurn
        DEF InstanceStep, LoopStep, ProcStep, FtfyLoopStep

\* A request that arrives was due before; a client that gives up leaves that to the loop.
LEMMA LoopsRequest ==
    ASSUME TypeInv, HoldInv, NEW r \in Requests, Receive(r) \/ HandlerStep(r)
    PROVE  [Loops!Next]_(Loops!loopsVars)
<1>1. CASE Expire(r)
  <2>1. expired' = expired \cup {r} /\ UNCHANGED <<pc, cur, stopping, waiting, handler>>
    BY <1>1 DEF Expire
  <2>2. Loops!AreDone({}, FALSE)
    BY <2>1 DEF Loops!AreDone, TypeInv, LoopTypes
  <2>3. Loops!Expire(r)
    BY <2>1, <2>2 DEF Loops!Expire
  <2> QED BY <2>3 DEF Loops!Next
<1>2. CASE Receive(r) \/ GiveUp(r)
  <2>1. UNCHANGED <<pc, cur, expired, stopping>>
    BY <1>2 DEF Receive, Accept, GiveUp
  <2>2. UNCHANGED NotReceived
    <3>1. \/ /\ handler[r] = "new" /\ waiting' = waiting \cup {r}
             /\ handler' = [handler EXCEPT ![r] = "open"]
          \/ /\ handler[r] = "open" /\ waiting' = waiting
             /\ \E status \in {"ok", "timeout"} : handler' = [handler EXCEPT ![r] = status]
      BY <1>2 DEF Receive, Accept, GiveUp
    <3>2. waiting' \cup {q \in Requests : handler'[q] = "new"}
              = waiting \cup {q \in Requests : handler[q] = "new"}
      BY <3>1 DEF TypeInv, LoopTypes
    <3> QED BY <3>2 DEF NotReceived
  <2> QED BY <2>1, <2>2, LoopsStutter
<1> QED BY <1>1, <1>2 DEF HandlerStep, RequestStep

LEMMA LoopsStep == IInv /\ [LifecycleNext]_vars => [Loops!Next]_(Loops!loopsVars)
<1> SUFFICES ASSUME IInv, [LifecycleNext]_vars
             PROVE  [Loops!Next]_(Loops!loopsVars)
  OBVIOUS
<1>0. TypeInv /\ HoldInv
  BY DEF IInv
<1>1. ASSUME NEW i \in Instances, StartLinter(i) PROVE UNCHANGED Loops!loopsVars
  BY <1>0, <1>1, LoopsGoes, Places DEF StartLinter, Moves, Goto
<1>2. ASSUME UNCHANGED loopVars PROVE UNCHANGED Loops!loopsVars
  BY <1>2, LoopsStutter DEF loopVars, NotReceived
<1>3. CASE MainStep
  BY <1>1, <1>2, <1>3 DEF MainStep, StopInstance, Run, Shutdown, StopLinters, Exit
<1>4. CASE Signal
  <2>1. stopping' = TRUE /\ UNCHANGED <<pc, cur, waiting, handler, expired>>
    BY <1>4 DEF Signal
  <2>2. Loops!Stop
    BY <2>1 DEF Loops!Stop, Loops!loopVars
  <2> QED BY <2>2 DEF Loops!Next
<1>5. CASE Ticks \/ UNCHANGED vars
  BY <1>2, <1>5 DEF Ticks, Tick, vars
<1> QED BY <1>0, <1>3, <1>4, <1>5, StepCases, LoopsInstance, LoopsRequest

\* The loops of the linters that run in HandleRequest, with what ftfy and pwnedkeys do there and
\* with main, are server loops as ServerLoop describes them: a loop receives no request after
\* its deadline, sends what was found and closes the turn, and ends between turns only, also
\* where the end of a loop of ftfy waits for its process (serverLoop and sendResult of linter.go).
THEOREM LifecycleImplementsLoop == LifecycleSpec => LoopsSpec
BY IInvInit, IInvStep, LoopsInit, LoopsStep, PTL DEF LifecycleSpec, LoopsSpec, Loops!Spec
=============================================================================
