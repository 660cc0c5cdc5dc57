------------------------------- MODULE Scripts -------------------------------
(***************************************************************************)
(* The wire between a server loop and the scripts of the external linters, *)
(* for one request: the lines that serverLoop writes (linter/linter.go),   *)
(* what the embedded scripts of badkeys, certlint and pkilint make of them *)
(* and print, and how parseResultToken reads what they printed.            *)
(*                                                                         *)
(* A written line is <<what it is, whose>>: the profile, or a line of the  *)
(* PEM text of an object of a kind, or an empty line.  A printed line is   *)
(* <<form, what it carries>>: a letter of the "S: description" format, the *)
(* severities in a line of JSON, or the end of the results.                *)
(* What the libraries find is any of the lines that a script may print.    *)
(***************************************************************************)
EXTENDS Profiles

ExternalLinters == {"badkeys", "certlint", "pkilint"}

SeverityLevel ==
    [meta |-> 0, debug |-> 1, info |-> 2, notice |-> 3, warning |-> 4, error |-> 5, bug |-> 6, fatal |-> 7]

Letters ==
    [D |-> "debug", I |-> "info", N |-> "notice", W |-> "warning", E |-> "error", B |-> "bug", F |-> "fatal"]

Finding(letter) == <<"text", letter>>
Json == <<"json", {"debug", "info", "notice", "warning", "error", "fatal"}>>
End  == <<"end">>

-----------------------------------------------------------------------------
(* What is written.                                                        *)

\* EncodeToMemory ends its last line, so the text ends in an empty one.
EncodeToMemory(kind) == <<<<"begin", kind>>, <<"base64", kind>>, <<"end", kind>>, <<"empty">>>>

\* Variant: the text is written as it is.
TrimSpaceNot(text) == text

TrimSpace(text) == IF Last(text) = <<"empty">> THEN Front(text) ELSE text

Written(profile, kind) == <<<<"profile", profile>>>> \o TrimSpace(EncodeToMemory(kind))

-----------------------------------------------------------------------------
(* What the scripts print for the object of a kind.                        *)

\* badkeys knows four letters; certlint's and cablint's messages have any of them.
BadkeysLines  == {Finding(letter) : letter \in {"W", "F", "I", "E"}}
CertlintLines == {Finding(letter) : letter \in DOMAIN Letters}

\* Variant: the lists for CRLs are used, not the ones for ARLs too.
CrlValidatorsWithoutArls == {<<"rfc5280", "crl">>, <<"tbr", "crl">>}

\* The profiles that lint_crl has validators for.
CrlValidators == {<<"rfc5280", "crl">>, <<"tbr", "crl">>, <<"rfc5280", "arl">>, <<"tbr", "arl">>}

\* An object that is not of the kind that the rules load, and a CRL profile without
\* validators, are exceptions; an S/MIME certificate may have no level and generation.
\* A finding, and the text of an exception, is taken to be one line: the script prints
\* str(e) as it is, so each line feed in it would begin a line of its own.
PkilintLines(profile, kind) ==
    LET rules == PkilintRules(profile)
    IN  {Finding("F")}
        \cup (IF /\ Reads("pkilint", profile) = kind
                 /\ rules = "crl" => profile \in CrlValidators
              THEN {Json} ELSE {})
        \cup (IF rules = "smime" /\ kind = "cert" /\ profile \notin PkilintDictionary
              THEN {Finding("E")} ELSE {})

Lines(l, profile, kind) ==
    CASE l = "badkeys"  -> BadkeysLines
      [] l = "certlint" -> CertlintLines
      [] l = "pkilint"  -> PkilintLines(profile, kind)

\* The kinds whose last line a script waits for.
EndLines(l) == IF l = "pkilint" THEN {"cert", "crl", "ocsp"} ELSE {"cert"}

-----------------------------------------------------------------------------
(* A script: the profile it has read and the text, both empty between      *)
(* requests, and what it has printed, each line as the set of what it may  *)
(* be.  It dies of a first line that is no number.                         *)

Nothing == <<>>

Waiting == [alive |-> TRUE, profile |-> Nothing, text |-> Nothing, printed |-> Nothing]

ReadsLine(l, s, line) ==
    CASE ~s.alive -> s
      [] s.alive /\ s.profile = Nothing ->
            IF line[1] = "profile" THEN [s EXCEPT !.profile = line[2]] ELSE [s EXCEPT !.alive = FALSE]
      [] s.alive /\ s.profile # Nothing ->
            IF line[1] = "end" /\ line[2] \in EndLines(l)
            THEN [s EXCEPT !.profile = Nothing, !.text = Nothing,
                           !.printed = @ \o <<Lines(l, s.profile, line[2]), {End}>>]
            ELSE [s EXCEPT !.text = Append(@, line)]

Script(l, lines) ==
    LET after[n \in 0 .. Len(lines)] ==
            IF n = 0 THEN Waiting ELSE ReadsLine(l, after[n - 1], lines[n])
    IN  after[Len(lines)]

-----------------------------------------------------------------------------
(* How a printed line is read: the severities of its findings, whether it  *)
(* is the end of the results, and whether it is an error.                  *)

\* A severity by its name; the map of the code gives META for a name it does not have.
Severity(name) == IF name \in DOMAIN SeverityLevel THEN SeverityLevel[name] ELSE SeverityLevel.meta

ParseResultToken(token) ==
    LET nothing == [severities |-> {}, end |-> FALSE, err |-> FALSE]
    IN  CASE token = End -> [nothing EXCEPT !.end = TRUE]
          [] token[1] = "text" /\ token[2] \in DOMAIN Letters ->
                [nothing EXCEPT !.severities = {Severity(Letters[token[2]])}]
          [] token[1] = "json" ->
                [nothing EXCEPT !.severities = {Severity(name) : name \in token[2]}]
          [] OTHER -> [nothing EXCEPT !.err = TRUE]
=============================================================================
