-------------------------------- MODULE Ftfy --------------------------------
(***************************************************************************)
(* ftfy (linter/ftfy/handler.go): HandleRequest writes the subject's texts *)
(* as one line to a Python process, waits for one line of output without a *)
(* deadline, and compares the two.  The process is started by the server   *)
(* loop as the backends of Backend are, but it is never restarted.         *)
(*                                                                         *)
(* Of a text only its line separators matter, and whether fix_text raises. *)
(* A line of output remembers the texts it answers to; HandleRequest never *)
(* looks at that mark, it relies on one line coming for one line.          *)
(***************************************************************************)
EXTENDS InProcess

CONSTANT Texts  \* the kinds of texts that come in a behaviour

TextKinds == {"ascii",      \* printable ASCII characters only, and no semicolon
              "plain",      \* one line
              "newline",    \* with a line feed
              "separator",  \* with another separator that Python or fix_text knows,
                            \* or an HTML entity for one
              "long",       \* one line of more than a bufio.Scanner holds, 64 KiB
              "raising"}    \* fix_text raises an exception

ASSUME FtfyAssumption == Texts \subseteq TextKinds

VARIABLES
    text,       \* request -> the kind of its subject's text
    proc,       \* instance -> the state of its Python process
    stdin,      \* instance -> requests whose text is in the STDIN pipe
    stdinOpen,  \* instance -> the write end of STDIN is open
    stdout,     \* instance -> lines in the STDOUT pipe
    scanner,    \* instance -> what the Scanner of STDOUT does
    unended     \* instance -> the texts answered by output without an end of line

ftfyVars == <<text, proc, stdin, stdinOpen, stdout, scanner, unended>>

Line(requests, whole) == [kind |-> "compared", of |-> requests, whole |-> whole]

\* A line that the Scanner cannot hold.
LongLine(requests) == [Line(requests, FALSE) EXCEPT !.kind = "long"]

FtfyInit ==
    /\ text = [r \in Requests |-> "ascii"]
    /\ proc = [i \in Instances |-> "none"]
    /\ stdin = [i \in Instances |-> <<>>]
    /\ stdinOpen = [i \in Instances |-> FALSE]
    /\ stdout = [i \in Instances |-> <<>>]
    /\ scanner = [i \in Instances |-> "reading"]
    /\ unended = [i \in Instances |-> {}]

\* A request comes with a text; only ftfy looks at it.
Brings(r, kind) ==
    /\ linter # "ftfy" => kind = "ascii"
    /\ text' = [text EXCEPT ![r] = kind]
    /\ UNCHANGED <<proc, stdin, stdinOpen, stdout, scanner, unended>>

-----------------------------------------------------------------------------
(* The Python process.                                                     *)

\* Variant: HandleRequest leaves the line feeds in.
AsWrittenUnchanged(kind) == kind

\* HandleRequest replaces line feeds.
AsWritten(kind) == IF kind = "newline" THEN "plain" ELSE kind

\* The loop over STDIN, for one text: what it prints for a line keeps that
\* line's end, but the text of an exception has none.
Replies(i, r) ==
    LET first == unended[i] \cup {r}
        kind  == AsWritten(text[r]) IN
    CASE kind = "raising" ->
             UNCHANGED stdout /\ unended' = [unended EXCEPT ![i] = first]
      [] kind \in {"newline", "separator"} ->
             /\ stdout' = [stdout EXCEPT ![i] =
                              @ \o <<Line(first, FALSE), Line({r}, FALSE)>>]
             /\ unended' = [unended EXCEPT ![i] = {}]
      [] OTHER ->
             /\ stdout' = [stdout EXCEPT ![i] =
                              Append(@, IF kind = "long" THEN LongLine(first)
                                        ELSE Line(first, unended[i] = {}))]
             /\ unended' = [unended EXCEPT ![i] = {}]

PyAnswers(i) ==
    /\ proc[i] = "up"
    /\ stdin[i] # <<>>
    /\ Replies(i, Head(stdin[i]))
    /\ stdin' = [stdin EXCEPT ![i] = Tail(@)]
    /\ UNCHANGED <<loopVars, text, proc, stdinOpen, scanner>>

\* The process dies, or hangs; as it does at a STDOUT that is full and that nobody
\* reads, since no length of a pipe is kept.
PyFails(i) ==
    /\ proc[i] = "up"
    /\ \E state \in {"dead", "hung"} : proc' = [proc EXCEPT ![i] = state]
    /\ UNCHANGED <<loopVars, text, stdin, stdinOpen, stdout, scanner, unended>>

PyEnds(i) ==
    /\ proc[i] = "up"
    /\ stdin[i] = <<>>
    /\ ~stdinOpen[i]
    /\ proc' = [proc EXCEPT ![i] = "dead"]
    /\ UNCHANGED <<loopVars, text, stdin, stdinOpen, stdout, scanner, unended>>

-----------------------------------------------------------------------------
(* The server loop starts and stops the process.                           *)

FtfyStart(i) ==
    /\ linter = "ftfy"
    /\ pc[i] = "start"
    /\ IF stopping
         THEN Moves(i, "returned") /\ UNCHANGED ftfyVars
         ELSE /\ Moves(i, "idle")
              /\ proc' = [proc EXCEPT ![i] = "up"]
              /\ stdinOpen' = [stdinOpen EXCEPT ![i] = TRUE]
              /\ UNCHANGED <<text, stdin, stdout, scanner, unended>>

\* Variant: STDIN is left open.
StdinAfterStopOpen(i) == stdinOpen

\* stopInstance_external closes the write end of STDIN.
StdinAfterStop(i) == [stdinOpen EXCEPT ![i] = FALSE]

\* The loop returns: its deferred stopInstance_external closes STDIN, then waits
\* for the process.
FtfyStop(i) ==
    /\ linter = "ftfy"
    /\ pc[i] = "idle"
    /\ stopping
    /\ Moves(i, "closing")
    /\ stdinOpen' = StdinAfterStop(i)
    /\ UNCHANGED <<text, proc, stdin, stdout, scanner, unended>>

FtfyStopped(i) ==
    /\ pc[i] = "closing"
    /\ proc[i] = "dead"
    /\ Moves(i, "returned")
    /\ UNCHANGED ftfyVars

-----------------------------------------------------------------------------
(* HandleRequest.                                                          *)

\* A text of printable ASCII characters is not given to ftfy.
FtfyBegin(i) ==
    /\ linter = "ftfy"
    /\ pc[i] = "handle"
    /\ IF text[cur[i]] = "ascii" THEN Returns(i, Outcome("info")) ELSE Moves(i, "write")
    /\ UNCHANGED ftfyVars

FtfyWrite(i) ==
    /\ pc[i] = "write"
    /\ IF proc[i] = "dead"
         THEN Returns(i, Outcome("fatal")) /\ UNCHANGED stdin
         ELSE Moves(i, "scan") /\ stdin' = [stdin EXCEPT ![i] = Append(@, cur[i])]
    /\ UNCHANGED <<text, proc, stdinOpen, stdout, scanner, unended>>

\* Stdout.Scan: the next line; after the last one, at the end of the output,
\* what has no end of line; after that, nothing.
ScanLine(i) ==
    /\ scanner[i] = "reading"
    /\ \/ /\ stdout[i] # <<>>
          /\ Head(stdout[i]).kind = "compared"
          /\ Returns(i, Head(stdout[i]))
          /\ stdout' = [stdout EXCEPT ![i] = Tail(@)]
          /\ UNCHANGED unended
       \/ /\ stdout[i] = <<>>
          /\ proc[i] = "dead"
          /\ Returns(i, IF unended[i] # {} THEN Line(unended[i], FALSE)
                                           ELSE Outcome("fatal"))
          /\ unended' = [unended EXCEPT ![i] = {}]
          /\ UNCHANGED stdout
    /\ UNCHANGED scanner

\* A line that is too long stays the Scanner's last: Scan fails on it, the next
\* one returns what is in the buffer of it, and all that follow fail.
ScanLong(i) ==
    /\ \/ /\ stdout[i] # <<>>
          /\ \/ /\ scanner[i] = "reading"
                /\ Head(stdout[i]).kind = "long"
                /\ Returns(i, Outcome("fatal"))
                /\ scanner' = [scanner EXCEPT ![i] = "full"]
             \/ /\ scanner[i] = "full"
                /\ Returns(i, Line(Head(stdout[i]).of, FALSE))
                /\ scanner' = [scanner EXCEPT ![i] = "ended"]
       \/ /\ scanner[i] = "ended"
          /\ Returns(i, Outcome("fatal"))
          /\ UNCHANGED scanner
    /\ UNCHANGED <<stdout, unended>>

FtfyScan(i) ==
    /\ pc[i] = "scan"
    /\ ScanLine(i) \/ ScanLong(i)
    /\ UNCHANGED <<text, proc, stdin, stdinOpen>>

FtfyLoopStep(i) ==
    \/ FtfyStart(i) \/ FtfyStop(i) \/ FtfyStopped(i)
    \/ FtfyBegin(i) \/ FtfyWrite(i) \/ FtfyScan(i)

FtfyProcStep(i) == PyAnswers(i) \/ PyEnds(i)

-----------------------------------------------------------------------------
(* Properties.                                                             *)

FtfyTypeOK ==
    /\ text \in [Requests -> TextKinds]
    /\ proc \in [Instances -> {"none", "up", "hung", "dead"}]
    /\ stdin \in [Instances -> Seq(Requests)]
    /\ stdinOpen \in [Instances -> BOOLEAN]
    /\ \A i \in Instances : \A k \in 1 .. Len(stdout[i]) :
          stdout[i][k].of \subseteq Requests
    /\ scanner \in [Instances -> {"reading", "full", "ended"}]
    /\ unended \in [Instances -> SUBSET Requests]

\* What r is told was made of the output for its own text, of all of it, and of
\* nothing else.
OwnLine(r) == answer[r] = Line({r}, TRUE)

Compared(r) == answer[r].kind = "compared"

\* Texts that break the exchange of one line for one line.
Odd(r) ==
    text[r] \in {"separator", "raising", "long"} /\ handler[r] \notin {"absent", "new"}

\* As long as no text had a separator that stays in it, made fix_text raise or was
\* longer than the 64 KiB that the Scanner of STDOUT takes for a line, every answer
\* rests on the line for its own text: neither a dropped answer, nor a client that
\* gave up, nor the death of the process shifts the lines.
LinesStayInStep ==
    (\A r \in Requests : ~Odd(r)) => \A r \in Requests : Compared(r) => OwnLine(r)

\* ftfy/handler.go:84, "Produce a one-line string that concatenates everything
\* that we want ftfy to check": as one line is written for a text and one line
\* is read, no client is told of a line for another one's text.
OneLineString == \A r \in Requests : Compared(r) => answer[r].of = {r}
=============================================================================
