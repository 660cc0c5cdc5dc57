------------------------------- MODULE Intake -------------------------------
(***************************************************************************)
(* The way of one POST request through validation to its linting request   *)
(* and its response (request/post.go with endpoint.go, input.go,           *)
(* certificate.go, crl.go, ocspResponse.go and autodetect.go).             *)
(*                                                                         *)
(* The steps are those of the if-else chain of POST, in its order; each    *)
(* either goes on or ends in an error message.  The dispatch of the        *)
(* linting request is in Dispatch: here it has a result of any severities. *)
(*                                                                         *)
(* A request is a record:                                                  *)
(*   path            the endpoint it names                                 *)
(*   format, accept  the format parameter and the Accept header            *)
(*   contentType     of the body; field: which form fields are filled      *)
(*   encoding        of the form field: PEM with the header of the         *)
(*                   endpoint's object, other PEM, base64, or neither      *)
(*   object          the bytes submitted                                   *)
(*   profile, severity                                                     *)
(* Bytes are [shape, features]: a signed object of the endpoint's kind, a  *)
(* to-be-signed one, a to-be-signed one in a dummy signature, or other     *)
(* bytes, with the features of Autodetect.                                 *)
(***************************************************************************)
EXTENDS Autodetect, Scripts

CONSTANTS
    Requests,           \* the requests that may come
    Findings,           \* the sets of severities that linters may find
    DefaultFormat       \* the configured default of the response format

Endpoints == {"lintcert", "linttbscert", "lintcrl", "linttbscrl", "lintocsp", "linttbsocsp"}
TbsEndpoints == {"linttbscert", "linttbscrl", "linttbsocsp"}
Formats == {"html", "json", "text"}

KindOf(endpoint) ==
    CASE endpoint \in {"lintcert", "linttbscert"} -> "cert"
      [] endpoint \in {"lintcrl", "linttbscrl"}   -> "crl"
      [] endpoint \in {"lintocsp", "linttbsocsp"} -> "ocsp"

NoFeatures ==
    [v3 |-> TRUE, ca |-> FALSE, selfSigned |-> FALSE, oldAlgorithm |-> FALSE, sameName |-> FALSE,
     keyIdsDiffer |-> FALSE, poison |-> FALSE, qc |-> {}, policies |-> <<>>, ekus |-> {},
     person |-> FALSE, org |-> FALSE, jurisdiction |-> FALSE, mark |-> "none",
     self |-> {}, issuer |-> {}]

NoBytes    == [shape |-> "none", features |-> NoFeatures]
OtherBytes == [shape |-> "other", features |-> NoFeatures]
NoInput    == [encoding |-> "none", of |-> NoBytes]

Submitted == [shape : {"signed", "tbs", "other"}, features : Features]

ASSUME IntakeAssumption ==
    /\ \A q \in Requests : q.object \in Submitted
    /\ DefaultFormat \in Formats
    /\ Findings \subseteq SUBSET (0..7)

VARIABLES
    stage,          \* the next step of the goroutine
    req,            \* the request
    format,         \* responseFormat
    ri,             \* the RequestInfo
    errorMessage,
    lreq,           \* the linting request that was sent to the linters, or NoRequest
    results,        \* lrespFiltered
    response        \* what the goroutine put into the response

vars == <<stage, req, format, ri, errorMessage, lreq, results, response>>

Stages ==
    {"endpoint", "format", "body", "input", "profile", "severity", "lint", "respond", "sent"}

NoRequest == [b64Input |-> NoInput, decodedInput |-> NoBytes, cert |-> NoBytes, profileId |-> AUTODETECT]

\* The fields have Go's zero values: the format is HTML, the profile autodetect.
Init ==
    /\ req \in Requests
    /\ stage = "endpoint"
    /\ format = "html"
    /\ ri = [endpoint |-> "lintcert", profileId |-> AUTODETECT, minimumSeverity |-> 0,
             b64Input |-> NoInput, decodedInput |-> NoBytes, cert |-> NoBytes]
    /\ errorMessage = "none"
    /\ lreq = NoRequest
    /\ results = {}
    /\ response = [status |-> 0, format |-> "none", results |-> {}]

\* Variant: the message is noted and the chain goes on.
FailGoingOn(message) ==
    /\ stage' = "lint"
    /\ errorMessage' = message

\* A step of the chain that fails: the rest of the chain is skipped.
Fail(message) ==
    /\ stage' = "respond"
    /\ errorMessage' = message

GoOn(next) ==
    /\ stage' = next
    /\ UNCHANGED errorMessage

-----------------------------------------------------------------------------
(* Endpoint, format and body.                                              *)

GetPOSTEndpoint ==
    /\ stage = "endpoint"
    /\ IF req.path \in Endpoints
       THEN /\ ri' = [ri EXCEPT !.endpoint = req.path]
            /\ GoOn("format")
       ELSE /\ GoOn("respond")
            /\ UNCHANGED ri
    /\ UNCHANGED <<req, format, lreq, results, response>>

ResponseFormat(q) ==
    CASE q.format # "none" -> IF q.format \in Formats THEN q.format ELSE "unrecognised"
      [] q.format = "none" /\ q.accept \in Formats -> q.accept
      [] OTHER -> DefaultFormat

GetResponseFormat ==
    /\ stage = "format"
    /\ format' = ResponseFormat(req)
    /\ IF format' = "unrecognised" THEN Fail("format") ELSE GoOn("body")
    /\ UNCHANGED <<req, ri, lreq, results, response>>

CheckBody ==
    /\ stage = "body"
    /\ IF req.field # "empty" THEN GoOn("input") ELSE Fail("body")
    /\ UNCHANGED <<req, format, ri, lreq, results, response>>

-----------------------------------------------------------------------------
(* The input: found by content type, decoded, wrapped and parsed.          *)

\* A form may fill the endpoint's own field, b64input, or both: the own one counts.
FormInput(q) ==
    IF q.field \in {"own", "b64input", "both"}
    THEN [encoding |-> q.encoding, of |-> q.object] ELSE NoInput

\* Each raw content type goes with its endpoints only; the body is base64-encoded.
RawInput(q, endpoint) ==
    IF \/ q.contentType = "pkix-cert"     /\ endpoint = "lintcert"
       \/ q.contentType = "pkix-crl"      /\ endpoint = "lintcrl"
       \/ q.contentType = "ocsp-response" /\ endpoint = "lintocsp"
       \/ q.contentType = "octet-stream"  /\ endpoint \in TbsEndpoints
    THEN [encoding |-> "base64", of |-> q.object] ELSE NoInput

Input(q, endpoint) == IF q.contentType = "form" THEN FormInput(q) ELSE RawInput(q, endpoint)

DecodePEMOrBase64(input) ==
    IF input.encoding \in {"pem", "base64"} THEN input.of ELSE NoBytes

\* The dummy signature of a TBS endpoint.  A certificate or a CRL has to be
\* to-be-signed for its algorithm to be found; OCSP response data are not looked at.
DummySign(endpoint, bytes) ==
    CASE bytes.shape = "tbs"  -> [shape |-> "dummy", features |-> DummySigned(bytes.features)]
      [] bytes.shape = "none" -> NoBytes
      [] OTHER                -> IF endpoint = "linttbsocsp" THEN OtherBytes ELSE NoBytes

Process(endpoint, bytes) ==
    IF endpoint \in TbsEndpoints THEN DummySign(endpoint, bytes) ELSE bytes

\* Variant: the base64 form is made from what was decoded, before the dummy signature.
EncodeToPEMEarly(input, bytes) == [encoding |-> "pem", of |-> DecodePEMOrBase64(input)]

EncodeToPEM(input, bytes) == [encoding |-> "pem", of |-> bytes]

Parses(bytes) == bytes.shape \in {"signed", "dummy"}

\* Only the certificate endpoints parse their object here.
GetInput ==
    /\ stage = "input"
    /\ LET input == Input(req, ri.endpoint)
           bytes == Process(ri.endpoint, DecodePEMOrBase64(input))
           asCert == KindOf(ri.endpoint) = "cert"
       IN  IF bytes.shape = "none" \/ (asCert /\ ~Parses(bytes))
           THEN /\ Fail("input")
                /\ UNCHANGED ri
           ELSE /\ GoOn("profile")
                /\ ri' = [ri EXCEPT !.b64Input = EncodeToPEM(input, bytes),
                                    !.decodedInput = bytes,
                                    !.cert = IF asCert THEN bytes ELSE NoBytes]
    /\ UNCHANGED <<req, format, lreq, results, response>>

-----------------------------------------------------------------------------
(* Profile, severity, linting and the response.                            *)

Detected(endpoint, bytes) ==
    CASE KindOf(endpoint) = "crl"  -> IF Parses(bytes) THEN CRLProfile(bytes.features)
                                                       ELSE <<"rfc5280", "crl">>
      [] KindOf(endpoint) = "ocsp" -> <<"rfc6960", "ocspresponse">>
      [] KindOf(endpoint) = "cert" -> CertificateProfile(bytes.features)

Autodetects(q) == q.profile \in {<<>>, AUTODETECT}

GetProfile ==
    /\ stage = "profile"
    /\ IF Autodetects(req)
       THEN /\ ri' = [ri EXCEPT !.profileId = Detected(ri.endpoint, ri.decodedInput)]
            /\ GoOn("severity")
       ELSE IF req.profile \in AllProfiles
       THEN /\ ri' = [ri EXCEPT !.profileId = req.profile]
            /\ GoOn("severity")
       ELSE /\ Fail("profile")
            /\ UNCHANGED ri
    /\ UNCHANGED <<req, format, lreq, results, response>>

\* Variant: no severity is a level below all others.
MinimumSeverityBelow(q) == IF q.severity = "none" THEN 0 - 1 ELSE SeverityLevel[q.severity]

\* With no severity named, everything is asked for.
MinimumSeverity(q) == IF q.severity = "none" THEN 0 ELSE SeverityLevel[q.severity]

GetSeverity ==
    /\ stage = "severity"
    /\ IF req.severity = "none" \/ req.severity \in DOMAIN SeverityLevel
       THEN /\ ri' = [ri EXCEPT !.minimumSeverity = MinimumSeverity(req)]
            /\ GoOn("lint")
       ELSE /\ Fail("severity")
            /\ UNCHANGED ri
    /\ UNCHANGED <<req, format, lreq, results, response>>

\* The linting request is made and answered; the META result with the profile is
\* put before the findings, and what is below the minimum severity is left out.
Lint ==
    /\ stage = "lint"
    /\ lreq' = [b64Input |-> ri.b64Input, decodedInput |-> ri.decodedInput,
                cert |-> ri.cert, profileId |-> ri.profileId]
    /\ \E found \in Findings :
        results' = {r \in {[from |-> "profile", severity |-> 0]}
                         \cup {[from |-> "linters", severity |-> s] : s \in found} :
                     r.severity >= ri.minimumSeverity}
    /\ GoOn("respond")
    /\ UNCHANGED <<req, format, ri, response>>

Fatal == [from |-> "validation", severity |-> 7]

\* With an unrecognised format none of the send functions is called, and the
\* status stays at its initial value; they all return 200.
Respond ==
    /\ stage = "respond"
    /\ results' = IF errorMessage = "none" THEN results ELSE results \cup {Fatal}
    /\ response' = IF format \in Formats
                   THEN [status |-> 200, format |-> format, results |-> results']
                   ELSE [status |-> 400, format |-> "none", results |-> {}]
    /\ GoOn("sent")
    /\ UNCHANGED <<req, format, ri, lreq>>

Next ==
    \/ GetPOSTEndpoint \/ GetResponseFormat \/ CheckBody \/ GetInput
    \/ GetProfile \/ GetSeverity \/ Lint \/ Respond

Spec == Init /\ [][Next]_vars

-----------------------------------------------------------------------------
\* Every variable keeps its type (RequestInfo, LintResult and the locals of POST).
TypeOK ==
    /\ stage \in Stages
    /\ format \in Formats \cup {"unrecognised"}
    /\ ri.endpoint \in Endpoints /\ ri.profileId \in AllProfiles /\ ri.minimumSeverity \in 0..7
    /\ errorMessage \in {"none", "format", "body", "input", "profile", "severity"}
    /\ results \subseteq [from : {"profile", "linters", "validation"}, severity : 0..7]
    /\ response.status \in {0, 200, 400} /\ response.format \in Formats \cup {"none"}

Linted == lreq # NoRequest

\* The linters get one object in three forms, the PEM text, the bytes and the parsed
\* certificate, and it is the one submitted: untouched, or in a dummy signature at the
\* TBS endpoints (input.go, certificate.go, crl.go, ocspResponse.go).
SameInputForAll ==
    Linted =>
        /\ lreq.b64Input = [encoding |-> "pem", of |-> lreq.decodedInput]
        /\ KindOf(ri.endpoint) = "cert" => lreq.cert = lreq.decodedInput
        /\ IF ri.endpoint \notin TbsEndpoints THEN lreq.decodedInput = req.object
           ELSE IF req.object.shape = "tbs"
           THEN lreq.decodedInput = [shape |-> "dummy", features |-> DummySigned(req.object.features)]
           ELSE ri.endpoint = "linttbsocsp"

\* A detected profile is a concrete one, and every linter that it is sent to parses the
\* kind of object that the endpoint took: detection, the lists of profile.go, what the
\* linters register as unsupported and how they choose a parser fit together.
LintersReadTheirKind ==
    Linted /\ Autodetects(req) =>
        /\ lreq.profileId \in AllProfiles \ {AUTODETECT}
        /\ \A l \in LinterNames :
            Applicable(l, lreq.profileId) => Reads(l, lreq.profileId) = KindOf(ri.endpoint)

CertificateType(c) ==
    IF IsRootCertificate(c) THEN "root" ELSE IF c.ca THEN "subordinate" ELSE "leaf"

\* The script of every external linter that a detected profile goes to reads the request
\* through to its last line, prints lines that parseResultToken takes as findings, none of
\* them META, which is pkimetal's own, and then one end of results, and is as it was before
\* for the next request (linter.go:430, 291-366 and the scripts of the three handlers).  No
\* message is taken to have a line feed in it.
ScriptsAnswer ==
    Linted /\ Autodetects(req) =>
        \A l \in ExternalLinters : Applicable(l, lreq.profileId) =>
            LET kind == KindOf(ri.endpoint)
                s == Script(l, Written(lreq.profileId, kind))
            IN  /\ [s EXCEPT !.printed = Nothing] = Waiting
                /\ s.printed = <<Lines(l, lreq.profileId, kind), {End}>>
                /\ \A token \in s.printed[1] :
                      LET parsed == ParseResultToken(token)
                      IN  /\ ~parsed.err /\ ~parsed.end
                          /\ parsed.severities # {} /\ SeverityLevel.meta \notin parsed.severities

\* pkilint has rules for every object under its detected profile: it is never bound to
\* answer with an exception (pkilint/handler.go:148-170 and 201-215).
PkilintLints ==
    Linted /\ Autodetects(req) => Json \in PkilintLines(lreq.profileId, KindOf(ri.endpoint))

\* The linters that tell roots, subordinates and leaves apart by the detected profile
\* agree with the certificate: x509lint's type, zlint's registry for TLS leaves, and
\* ctlint's check of precertificates (x509lint, zlint and ctlint handler.go).
CertTypeFits ==
    Linted /\ Autodetects(req) /\ KindOf(ri.endpoint) = "cert" =>
        LET c == lreq.cert.features
            p == lreq.profileId
        IN  /\ X509lintCertType(p) = CertificateType(c)
            /\ ZlintRegistry(p) = "tlsLeaf" => CertificateType(c) = "leaf"
            /\ CtlintCheck(p) = "precertificate" => c.poison

\* A certificate and its precertificate get the same profile, but for the suffix where
\* there is a profile for precertificates (the two tables of autodetect.go:359-419 and
\* the pairs of branches at 493-588).
PrecertTwins ==
    Linted /\ Autodetects(req) /\ KindOf(ri.endpoint) = "cert" =>
        LET c == lreq.cert.features
            final   == CertificateProfile([c EXCEPT !.poison = FALSE])
            precert == CertificateProfile([c EXCEPT !.poison = TRUE])
        IN  precert = IF Precertificate(final) \in AllProfiles THEN Precertificate(final) ELSE final

\* The linters apply the TLS rules to the same certificates: pkilint's serverauth rules,
\* certlint's cablint and x509lint together, and zlint's and ctlint's TLS rules with them
\* for the leaves.  ETSI certificates for a site are the one exception: zlint and ctlint
\* treat them as TLS leaves, pkilint by its ETSI rules.  pkilint is told the type of every
\* leaf that it lints by S/MIME, TLS or ETSI rules.
TlsLintersAgree ==
    Linted =>
        LET p == lreq.profileId
            tls == PkilintRules(p) = "serverauth"
            leaf == p \in TbrTevgLeafProfileIDs
        IN  /\ tls <=> CertlintRules(p) = "cablint"
            /\ tls <=> Applicable("x509lint", p)
            /\ ZlintRegistry(p) \in {"tlsLeaf", "tlsSubordinate"} <=> tls \/ EtsiWebForSite(p)
            /\ leaf => /\ ZlintRegistry(p) = "tlsLeaf"
                       /\ CtlintCheck(p) = IF p \in PrecertificateProfileIDs
                                           THEN "precertificate" ELSE "serverauth"
                       /\ X509lintCertType(p) = "leaf"
            /\ leaf \/ PkilintRules(p) \in {"etsi", "smime"} => p \in PkilintDictionary

\* A request is linted or told why not, never both; only an unknown endpoint and an
\* unrecognised format are answered without a word (post.go:73-85 and 163-190).
LintedOrTold ==
    stage = "sent" =>
        /\ Linted => Fatal \notin response.results
        /\ ~Linted => \/ Fatal \in response.results
                      \/ req.path \notin Endpoints
                      \/ format = "unrecognised"

\* A request that could not be validated is answered with status 400, as the BadRequest
\* response of doc/openapi.yaml says.
BadRequestGets400 ==
    stage = "sent" /\ errorMessage # "none" => response.status = 400

\* The profiles of ETSI certificates for a site are in the list that certlint and x509lint
\* go by, as the condition at profile.go:285 says.
EtsiWebIsTbrTevg ==
    Linted /\ EtsiWebForSite(lreq.profileId) => lreq.profileId \in TbrTevgCertificateProfileIDs
=============================================================================
