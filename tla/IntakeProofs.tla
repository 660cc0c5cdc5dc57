---------------------------- MODULE IntakeProofs ----------------------------
(***************************************************************************)
(* Proofs about Intake, for any requests whose object is one of Submitted, *)
(* any sets of severities found and any default format.                    *)
(***************************************************************************)
EXTENDS Intake, AutodetectProofs

Bytes  == [shape : {"none", "signed", "tbs", "dummy", "other"}, features : Features]
Inputs == [encoding : {"none", "pem"}, of : Bytes]

\* The types of what is handed on from step to step, but for the profile.
StepTypes ==
    /\ stage \in Stages
    /\ req \in Requests
    /\ format \in Formats \cup {"unrecognised"}
    /\ ri \in [endpoint : Endpoints, profileId : {ri.profileId}, minimumSeverity : 0 .. 7,
               b64Input : {ri.b64Input}, decodedInput : {ri.decodedInput}, cert : {ri.cert}]
    /\ errorMessage \in {"none", "format", "body", "input", "profile", "severity"}
    /\ results \subseteq [from : {"profile", "linters", "validation"}, severity : 0 .. 7]
    /\ response.status \in {0, 200, 400}
    /\ response.format \in Formats \cup {"none"}

\* What the input is made of, at an endpoint.
FromObject(endpoint, bytes, object) ==
    IF endpoint \notin TbsEndpoints THEN bytes = object
    ELSE IF object.shape = "tbs"
    THEN bytes = [shape |-> "dummy", features |-> DummySigned(object.features)]
    ELSE endpoint = "linttbsocsp" /\ bytes = OtherBytes

\* The three forms of an input are of one object.
OneObject(endpoint, object, b64, bytes, cert) ==
    /\ b64 = [encoding |-> "pem", of |-> bytes]
    /\ bytes.shape # "none"
    /\ KindOf(endpoint) = "cert" => cert = bytes /\ Parses(bytes)
    /\ FromObject(endpoint, bytes, object)

\* The input does not change after it was taken, and is what the linters get.
InputInv ==
    /\ stage \in {"profile", "severity", "lint"} =>
           OneObject(ri.endpoint, req.object, ri.b64Input, ri.decodedInput, ri.cert)
    /\ Linted => OneObject(ri.endpoint, req.object, lreq.b64Input, lreq.decodedInput, lreq.cert)

\* So it is with the profile, detected from that input or named by the client.
Chosen(endpoint, bytes, p) ==
    IF Autodetects(req) THEN p = Detected(endpoint, bytes)
    ELSE p = req.profile /\ p \in AllProfiles

ProfileInv ==
    /\ stage \in {"severity", "lint"} => Chosen(ri.endpoint, ri.decodedInput, ri.profileId)
    /\ Linted => Chosen(ri.endpoint, lreq.decodedInput, lreq.profileId)

\* The profile is at every time one of the code's.
KnownInv == ri.profileId \in AllProfiles

\* One error message at most, and none with a linting request.
ToldInv ==
    /\ stage \notin {"respond", "sent"} => errorMessage = "none" /\ ~Linted
    /\ errorMessage # "none" => ~Linted
    /\ stage \in {"respond", "sent"} /\ errorMessage = "none" /\ ~Linted => req.path \notin Endpoints
    /\ stage # "sent" => Fatal \notin results
    /\ stage = "sent" => /\ Fatal \in results <=> errorMessage # "none"
                         /\ response.results = IF format \in Formats THEN results ELSE {}

IInv == StepTypes /\ InputInv /\ ProfileInv /\ KnownInv /\ ToldInv

-----------------------------------------------------------------------------
(* Helpers of the steps.                                                   *)

LEMMA SeverityOfRequest ==
    ASSUME NEW s \in DOMAIN SeverityLevel
    PROVE  SeverityLevel[s] \in 0 .. 7
BY DEF SeverityLevel

LEMMA InputTaken ==
    ASSUME NEW E, NEW P, NEW M, NEW B, NEW D, NEW C, NEW b, NEW d, NEW c,
           NEW r \in [endpoint : E, profileId : P, minimumSeverity : M,
                      b64Input : B, decodedInput : D, cert : C]
    PROVE  [r EXCEPT !.b64Input = b, !.decodedInput = d, !.cert = c] \in
               [endpoint : {r.endpoint}, profileId : {r.profileId},
                minimumSeverity : {r.minimumSeverity},
                b64Input : {b}, decodedInput : {d}, cert : {c}]
OBVIOUS

\* The object of a request is what the input was made of.
LEMMA InputIsObject ==
    ASSUME NEW q \in Requests, NEW endpoint \in Endpoints,
           LET bytes == Process(endpoint, DecodePEMOrBase64(Input(q, endpoint)))
           IN  /\ bytes.shape # "none"
               /\ KindOf(endpoint) = "cert" => Parses(bytes)
    PROVE  LET bytes == Process(endpoint, DecodePEMOrBase64(Input(q, endpoint)))
           IN  FromObject(endpoint, bytes, q.object)
<1> DEFINE input == Input(q, endpoint)
           got == DecodePEMOrBase64(input)
<1>1. q.object \in Submitted
  BY IntakeAssumption
<1>2. got \in {q.object, NoBytes}
  BY DEF DecodePEMOrBase64, Input, FormInput, RawInput, NoInput
<1>3. CASE endpoint \notin TbsEndpoints
  BY <1>2, <1>3 DEF Process, FromObject, NoBytes
<1>4. CASE endpoint \in TbsEndpoints /\ got = NoBytes
  BY <1>4 DEF Process, DummySign, NoBytes
<1>5. CASE endpoint \in TbsEndpoints /\ got = q.object
  <2>1. q.object.shape \in {"signed", "tbs", "other"}
    BY <1>1 DEF Submitted
  <2>2. CASE q.object.shape = "tbs"
    BY <1>5, <2>2 DEF Process, DummySign, FromObject
  <2>3. CASE q.object.shape # "tbs"
    BY <1>5, <2>1, <2>3 DEF Process, DummySign, FromObject, NoBytes
  <2> QED BY <2>2, <2>3
<1> QED BY <1>2, <1>3, <1>4, <1>5

\* What an input is made of has the features of some object.
LEMMA InputFeatures ==
    ASSUME NEW q \in Requests, NEW endpoint, NEW bytes, FromObject(endpoint, bytes, q.object)
    PROVE  bytes.features \in Features
<1>1. q.object \in Submitted
  BY IntakeAssumption
<1>2. q.object.features \in Features
  BY <1>1 DEF Submitted
<1>3. DummySigned(q.object.features) \in Features
  BY <1>2 DEF DummySigned, Features, CcadbListings
<1>4. NoFeatures \in Features
  BY DEF NoFeatures, Features, CcadbListings
<1> QED BY <1>2, <1>3, <1>4 DEF FromObject, OtherBytes

\* Detection chooses a concrete profile for every input.
LEMMA DetectedKnown ==
    ASSUME NEW endpoint \in Endpoints, NEW bytes, bytes.features \in Features
    PROVE  /\ Detected(endpoint, bytes) \in AllProfiles
           /\ Detected(endpoint, bytes) # AUTODETECT
<1> DEFINE p == Detected(endpoint, bytes)
<1>1. CASE KindOf(endpoint) = "crl"
  <2>1. p \in CrlNames
    BY <1>1, CrlDetected DEF Detected, CrlNames
  <2>2. p # AUTODETECT
    BY <2>1 DEF CrlNames, AUTODETECT
  <2> QED BY <2>1, <2>2, NamesInFull
<1>2. CASE KindOf(endpoint) = "ocsp"
  BY <1>2, NamesInFull DEF Detected, OCSPRESPONSE, AUTODETECT
<1>3. CASE KindOf(endpoint) = "cert"
  <2>1. p = CertificateProfile(bytes.features)
    BY <1>3 DEF Detected
  <2> QED BY <2>1, CertificateDetected
<1>4. KindOf(endpoint) \in {"crl", "ocsp", "cert"}
  BY DEF KindOf, Endpoints
<1> QED BY <1>1, <1>2, <1>3, <1>4

-----------------------------------------------------------------------------
(* The steps.                                                              *)

LEMMA InitIInv ==
    ASSUME Init
    PROVE  IInv
<1>1. StepTypes
  BY DEF Init, StepTypes, Stages, Formats, Endpoints
<1>2. ~Linted /\ InputInv /\ ProfileInv /\ KnownInv
  <2>1. AUTODETECT \in AllProfiles
    BY DEF AllProfiles
  <2> QED BY <2>1 DEF Init, Linted, InputInv, ProfileInv, KnownInv
<1>3. ToldInv
  BY <1>2 DEF Init, ToldInv
<1> QED BY <1>1, <1>2, <1>3 DEF IInv

\* A step that only goes on, or fails, keeps the invariant.
LEMMA StepIInv ==
    ASSUME IInv, [Next]_vars
    PROVE  IInv'
<1> USE DEF IInv
<1>1. ASSUME GetPOSTEndpoint PROVE IInv'
  <2>1. StepTypes'
    BY <1>1 DEF GetPOSTEndpoint, StepTypes, GoOn, Stages
  <2>2. ~Linted /\ ~Linted' /\ stage' \in {"format", "respond"}
    BY <1>1 DEF GetPOSTEndpoint, GoOn, ToldInv, Linted
  <2>3. ToldInv'
    BY <1>1, <2>2 DEF GetPOSTEndpoint, GoOn, ToldInv
  <2>4. KnownInv'
    BY <1>1 DEF GetPOSTEndpoint, KnownInv, StepTypes
  <2> QED BY <2>1, <2>2, <2>3, <2>4 DEF InputInv, ProfileInv
<1>2. ASSUME GetResponseFormat PROVE IInv'
  <2>1. format' \in Formats \cup {"unrecognised"}
    BY <1>2, IntakeAssumption DEF GetResponseFormat, ResponseFormat, Formats
  <2>2. StepTypes'
    BY <1>2, <2>1 DEF GetResponseFormat, StepTypes, GoOn, Fail, Stages
  <2>3. ~Linted /\ ~Linted' /\ stage' \in {"body", "respond"}
    BY <1>2 DEF GetResponseFormat, GoOn, Fail, ToldInv, Linted
  <2>4. ToldInv'
    BY <1>2, <2>3 DEF GetResponseFormat, GoOn, Fail, ToldInv
  <2>5. KnownInv'
    BY <1>2 DEF GetResponseFormat, KnownInv
  <2> QED BY <2>2, <2>3, <2>4, <2>5 DEF InputInv, ProfileInv
<1>3. ASSUME CheckBody PROVE IInv'
  <2>1. StepTypes'
    BY <1>3 DEF CheckBody, StepTypes, GoOn, Fail, Stages
  <2>2. ~Linted /\ ~Linted' /\ stage' \in {"input", "respond"}
    BY <1>3 DEF CheckBody, GoOn, Fail, ToldInv, Linted
  <2>3. ToldInv'
    BY <1>3, <2>2 DEF CheckBody, GoOn, Fail, ToldInv
  <2>4. KnownInv'
    BY <1>3 DEF CheckBody, KnownInv
  <2> QED BY <2>1, <2>2, <2>3, <2>4 DEF InputInv, ProfileInv
<1>4. ASSUME GetInput PROVE IInv'
  <2> DEFINE input == Input(req, ri.endpoint)
             bytes == Process(ri.endpoint, DecodePEMOrBase64(input))
             asCert == KindOf(ri.endpoint) = "cert"
             new == [ri EXCEPT !.b64Input = EncodeToPEM(input, bytes),
                               !.decodedInput = bytes,
                               !.cert = IF asCert THEN bytes ELSE NoBytes]
  <2>1. /\ UNCHANGED <<req, format, lreq, results, response>>
        /\ \/ Fail("input") /\ UNCHANGED ri
           \/ /\ bytes.shape # "none" /\ (asCert => Parses(bytes))
              /\ GoOn("profile")
              /\ ri' = new
    BY <1>4 DEF GetInput
  <2>2. ~Linted /\ ~Linted' /\ stage = "input" /\ stage' \in {"profile", "respond"}
    BY <1>4, <2>1 DEF GetInput, GoOn, Fail, ToldInv, Linted
  <2>3. ToldInv'
    <3> HIDE DEF input, bytes, asCert, new
    <3> QED BY <2>1, <2>2 DEF GoOn, Fail, ToldInv
  <2>4. new \in [endpoint : {ri.endpoint}, profileId : {ri.profileId},
                 minimumSeverity : {ri.minimumSeverity},
                 b64Input : {[encoding |-> "pem", of |-> bytes]},
                 decodedInput : {bytes}, cert : {IF asCert THEN bytes ELSE NoBytes}]
    <3>1. EncodeToPEM(input, bytes) = [encoding |-> "pem", of |-> bytes]
      BY DEF EncodeToPEM
    <3>2. ri \in [endpoint : Endpoints, profileId : {ri.profileId}, minimumSeverity : 0..7,
                  b64Input : {ri.b64Input}, decodedInput : {ri.decodedInput}, cert : {ri.cert}]
      BY DEF StepTypes
    <3> DEFINE made == EncodeToPEM(input, bytes)
               read == IF asCert THEN bytes ELSE NoBytes
    <3>3. new \in [endpoint : {ri.endpoint}, profileId : {ri.profileId},
                   minimumSeverity : {ri.minimumSeverity},
                   b64Input : {made}, decodedInput : {bytes}, cert : {read}]
      <4> HIDE DEF bytes
      <4> QED BY <3>2, InputTaken, Zenon
    <3> HIDE DEF input, bytes, asCert, new
    <3> QED BY <3>1, <3>3
  <2>5. StepTypes'
    <3> HIDE DEF input, bytes, asCert, new
    <3> QED BY <2>1, <2>2, <2>4 DEF StepTypes, GoOn, Fail, Stages
  <2>6. InputInv'
    <3>1. CASE Fail("input")
      BY <2>2, <3>1 DEF InputInv, Fail
    <3>2. CASE ri' = new /\ bytes.shape # "none" /\ (asCert => Parses(bytes))
      <4>1. FromObject(ri.endpoint, bytes, req.object)
        BY <3>2, InputIsObject DEF StepTypes
      <4> HIDE DEF input, bytes, new
      <4>2. OneObject(ri'.endpoint, req.object, ri'.b64Input, ri'.decodedInput, ri'.cert)
        BY <2>4, <3>2, <4>1 DEF OneObject
      <4> QED BY <2>1, <2>2, <4>2 DEF InputInv
    <3> QED BY <2>1, <3>1, <3>2
  <2>7. KnownInv'
    <3> HIDE DEF input, bytes, asCert, new
    <3> QED BY <2>1, <2>4 DEF KnownInv
  <2> QED BY <2>2, <2>3, <2>5, <2>6, <2>7 DEF ProfileInv
<1>5. ASSUME GetProfile PROVE IInv'
  <2> DEFINE Choice(p) == ri' = [ri EXCEPT !.profileId = p]
  <2>1. /\ UNCHANGED <<req, format, lreq, results, response>> /\ stage = "profile"
        /\ \/ /\ Choice(IF Autodetects(req) THEN Detected(ri.endpoint, ri.decodedInput) ELSE req.profile)
              /\ ~Autodetects(req) => req.profile \in AllProfiles
              /\ GoOn("severity")
           \/ Fail("profile") /\ UNCHANGED ri
    BY <1>5 DEF GetProfile
  <2>2. ~Linted /\ ~Linted' /\ stage' \in {"severity", "respond"}
    BY <2>1 DEF GoOn, Fail, ToldInv, Linted
  <2>3. ToldInv'
    BY <2>1, <2>2 DEF GoOn, Fail, ToldInv
  <2>4. StepTypes'
    BY <2>1 DEF StepTypes, GoOn, Fail, Stages
  <2>5. InputInv' /\ ProfileInv' /\ KnownInv'
    <3>1. CASE Fail("profile")
      BY <2>1, <2>2, <3>1 DEF InputInv, ProfileInv, KnownInv, Fail, GoOn
    <3>2. CASE GoOn("severity")
      <4>1. /\ Choice(IF Autodetects(req) THEN Detected(ri.endpoint, ri.decodedInput) ELSE req.profile)
            /\ ~Autodetects(req) => req.profile \in AllProfiles
        BY <2>1, <3>2 DEF GoOn, Fail
      <4>2. /\ ri'.endpoint = ri.endpoint /\ ri'.decodedInput = ri.decodedInput
            /\ ri'.b64Input = ri.b64Input /\ ri'.cert = ri.cert
            /\ ri'.profileId =
                   IF Autodetects(req) THEN Detected(ri.endpoint, ri.decodedInput) ELSE req.profile
        BY <4>1 DEF StepTypes
      <4>3. InputInv'
        BY <2>1, <2>2, <4>2 DEF InputInv
      <4>4. ProfileInv'
        BY <2>1, <2>2, <4>1, <4>2 DEF ProfileInv, Chosen, Autodetects
      <4>5. ri.decodedInput.features \in Features
        BY <2>1, InputFeatures DEF InputInv, OneObject, StepTypes
      <4>6. KnownInv'
        BY <4>1, <4>2, <4>5, DetectedKnown DEF KnownInv, StepTypes
      <4> QED BY <4>3, <4>4, <4>6
    <3> QED BY <2>1, <3>1, <3>2
  <2> QED BY <2>3, <2>4, <2>5
<1>6. ASSUME GetSeverity PROVE IInv'
  <2>1. /\ UNCHANGED <<req, format, lreq, results, response>> /\ stage = "severity"
        /\ \/ /\ req.severity = "none" \/ req.severity \in DOMAIN SeverityLevel
              /\ ri' = [ri EXCEPT !.minimumSeverity = MinimumSeverity(req)]
              /\ GoOn("lint")
           \/ Fail("severity") /\ UNCHANGED ri
    BY <1>6 DEF GetSeverity
  <2>2. ~Linted /\ ~Linted' /\ stage' \in {"lint", "respond"}
    BY <2>1 DEF GoOn, Fail, ToldInv, Linted
  <2>3. ToldInv'
    BY <2>1, <2>2 DEF GoOn, Fail, ToldInv
  <2>4. ASSUME req.severity = "none" \/ req.severity \in DOMAIN SeverityLevel
        PROVE  MinimumSeverity(req) \in 0 .. 7
    BY <2>4, SeverityOfRequest DEF MinimumSeverity
  <2>5. StepTypes'
    BY <2>1, <2>4 DEF StepTypes, GoOn, Fail, Stages
  <2>6. InputInv' /\ ProfileInv' /\ KnownInv'
    <3>1. CASE Fail("severity")
      BY <2>1, <2>2, <3>1 DEF InputInv, ProfileInv, KnownInv, Fail, GoOn
    <3>2. CASE GoOn("lint")
      <4>1. /\ ri'.endpoint = ri.endpoint /\ ri'.decodedInput = ri.decodedInput
            /\ ri'.b64Input = ri.b64Input /\ ri'.cert = ri.cert
            /\ ri'.profileId = ri.profileId
        BY <2>1, <3>2 DEF StepTypes, GoOn, Fail
      <4> QED BY <2>1, <2>2, <4>1 DEF InputInv, ProfileInv, KnownInv, Chosen, Autodetects
    <3> QED BY <2>1, <3>1, <3>2
  <2> QED BY <2>3, <2>5, <2>6
<1>7. ASSUME Lint PROVE IInv'
  <2>1. /\ UNCHANGED <<req, format, ri, response, errorMessage>>
        /\ stage = "lint" /\ stage' = "respond"
        /\ lreq' = [b64Input |-> ri.b64Input, decodedInput |-> ri.decodedInput,
                    cert |-> ri.cert, profileId |-> ri.profileId]
    BY <1>7 DEF Lint, GoOn
  <2>2. results' \subseteq [from : {"profile", "linters"}, severity : 0 .. 7]
    <3>1. PICK found \in Findings :
             results' = {r \in {[from |-> "profile", severity |-> 0]}
                                 \cup {[from |-> "linters", severity |-> s] : s \in found} :
                             r.severity >= ri.minimumSeverity}
      BY <1>7 DEF Lint
    <3>2. found \subseteq 0 .. 7
      BY IntakeAssumption
    <3> QED BY <3>1, <3>2
  <2>3. OneObject(ri.endpoint, req.object, lreq'.b64Input, lreq'.decodedInput, lreq'.cert)
    BY <2>1 DEF InputInv
  <2>4. Linted'
    BY <2>3 DEF OneObject, Linted, NoRequest, NoInput
  <2>5. StepTypes'
    BY <2>1, <2>2 DEF StepTypes, Stages
  <2>6. InputInv' /\ ProfileInv' /\ KnownInv'
    BY <2>1, <2>3 DEF InputInv, ProfileInv, KnownInv, Chosen, Autodetects
  <2>7. Fatal \notin results'
    BY <2>2 DEF Fatal
  <2> QED BY <2>1, <2>4, <2>5, <2>6, <2>7 DEF ToldInv
<1>8. ASSUME Respond PROVE IInv'
  <2>1. /\ UNCHANGED <<req, format, ri, lreq, errorMessage>>
        /\ stage = "respond" /\ stage' = "sent"
        /\ results' = IF errorMessage = "none" THEN results ELSE results \cup {Fatal}
        /\ response' = IF format \in Formats
                       THEN [status |-> 200, format |-> format, results |-> results']
                       ELSE [status |-> 400, format |-> "none", results |-> {}]
    BY <1>8 DEF Respond, GoOn
  <2>2. Fatal \in [from : {"profile", "linters", "validation"}, severity : 0 .. 7]
    BY DEF Fatal
  <2>3. StepTypes'
    BY <2>1, <2>2 DEF StepTypes, Stages
  <2>4. Linted' <=> Linted
    BY <2>1 DEF Linted
  <2>5. InputInv' /\ ProfileInv' /\ KnownInv'
    BY <2>1, <2>4 DEF InputInv, ProfileInv, KnownInv, Chosen, Autodetects
  <2>6. ToldInv'
    BY <2>1, <2>4 DEF ToldInv
  <2> QED BY <2>3, <2>5, <2>6
<1>9. ASSUME UNCHANGED vars PROVE IInv'
  BY <1>9 DEF vars, StepTypes, InputInv, ProfileInv, KnownInv, ToldInv, Linted, Chosen, Autodetects
<1> QED BY <1>1, <1>2, <1>3, <1>4, <1>5, <1>6, <1>7, <1>8, <1>9 DEF Next

LEMMA Invariance == Spec => []IInv
<1>1. Init => IInv
  BY InitIInv
<1>2. IInv /\ [Next]_vars => IInv'
  BY StepIInv
<1> QED BY <1>1, <1>2, PTL DEF Spec

-----------------------------------------------------------------------------
(* What follows for the profile of a linting request.                      *)

\* The kinds of objects that the linters read for a profile, by the lists that it is in.
LEMMA LintersRead ==
    ASSUME NEW p \in AllProfiles, NEW kind \in {"cert", "crl", "ocsp"},
           p \in CrlProfileIDs <=> kind = "crl", p \in OcspProfileIDs <=> kind = "ocsp",
           kind # "cert" => /\ p \notin EtsiCertificateProfileIDs /\ p \notin SbrLeafProfileIDs
                            /\ p \notin TbrTevgCertificateProfileIDs
    PROVE  /\ \A l \in LinterNames : Applicable(l, p) => Reads(l, p) = kind
           /\ PkilintRules(p) = "crl" => kind = "crl"
<1>1. /\ PkilintRules(p) = "crl" <=> kind = "crl"
      /\ PkilintRules(p) = "ocsp" <=> kind = "ocsp"
  BY DEF PkilintRules
<1>2. ZlintReads(p) = kind
  BY DEF ZlintReads
<1>3. Reads("pkilint", p) = kind /\ Reads("zlint", p) = kind
  BY <1>1, <1>2 DEF Reads
<1>4. ASSUME NEW l \in LinterNames \ {"pkilint", "zlint"}, Applicable(l, p)
      PROVE  Reads(l, p) = kind
  <2>1. kind = "cert"
    <3>1. Unsupported(l) \in {NonTbrTevgCertificateProfileIDs, NonCertificateProfileIDs}
      BY <1>4 DEF Unsupported
    <3>2. p \notin NonTbrTevgCertificateProfileIDs \/ p \notin NonCertificateProfileIDs
      BY <1>4, <3>1 DEF Applicable
    <3> QED BY <3>2 DEF NonTbrTevgCertificateProfileIDs, NonCertificateProfileIDs
  <2> QED BY <1>4, <2>1 DEF Reads
<1> QED BY <1>1, <1>3, <1>4

\* A detected profile is of the kind of its object.
LEMMA DetectedKind ==
    ASSUME NEW endpoint \in Endpoints, NEW bytes, bytes.features \in Features
    PROVE  LET p == Detected(endpoint, bytes)
               kind == KindOf(endpoint)
           IN  /\ kind \in {"cert", "crl", "ocsp"}
               /\ p \in CrlProfileIDs <=> kind = "crl"
               /\ p \in OcspProfileIDs <=> kind = "ocsp"
               /\ kind # "cert" => /\ p \notin EtsiCertificateProfileIDs /\ p \notin SbrLeafProfileIDs
                                   /\ p \notin TbrTevgCertificateProfileIDs
               /\ kind = "crl" => p \in CrlNames
<1> DEFINE p == Detected(endpoint, bytes)
<1>1. CASE KindOf(endpoint) = "crl"
  <2>1. p \in CrlNames
    BY <1>1, CrlDetected DEF Detected, CrlNames
  <2>2. OnlyIn(p, {"crl"})
    BY <2>1, ListsOfNames
  <2> HIDE DEF p
  <2>3. /\ p \in CrlProfileIDs /\ p \notin OcspProfileIDs /\ p \notin EtsiCertificateProfileIDs
        /\ p \notin SbrLeafProfileIDs /\ p \notin TbrTevgCertificateProfileIDs
    BY <2>2 DEF OnlyIn
  <2> QED BY <1>1, <2>1, <2>3 DEF p
<1>2. CASE KindOf(endpoint) = "ocsp"
  <2>1. p = OCSPRESPONSE
    BY <1>2 DEF Detected, OCSPRESPONSE
  <2>2. OnlyIn(p, {"ocsp"})
    BY <2>1, ListsOfNames
  <2> HIDE DEF p
  <2>3. /\ p \notin CrlProfileIDs /\ p \in OcspProfileIDs /\ p \notin EtsiCertificateProfileIDs
        /\ p \notin SbrLeafProfileIDs /\ p \notin TbrTevgCertificateProfileIDs
    BY <2>2 DEF OnlyIn
  <2> QED BY <1>2, <2>3 DEF p
<1>3. CASE KindOf(endpoint) = "cert"
  <2>1. p = CertificateProfile(bytes.features)
    BY <1>3 DEF Detected
  <2>2. p \notin CrlProfileIDs /\ p \notin OcspProfileIDs
    BY <2>1, CertificateDetected
  <2> QED BY <1>3, <2>2
<1>4. KindOf(endpoint) \in {"crl", "ocsp", "cert"}
  BY DEF KindOf, Endpoints
<1> QED BY <1>1, <1>2, <1>3, <1>4

\* What the invariant says of a linting request whose profile was detected.
LEMMA DetectedRequest ==
    ASSUME IInv, Linted, Autodetects(req)
    PROVE  /\ ri.endpoint \in Endpoints
           /\ lreq.decodedInput.features \in Features
           /\ lreq.profileId = Detected(ri.endpoint, lreq.decodedInput)
           /\ KindOf(ri.endpoint) = "cert" =>
                  /\ lreq.cert = lreq.decodedInput
                  /\ lreq.profileId = CertificateProfile(lreq.cert.features)
<1>1. ri.endpoint \in Endpoints /\ req \in Requests
  BY DEF IInv, StepTypes
<1>2. OneObject(ri.endpoint, req.object, lreq.b64Input, lreq.decodedInput, lreq.cert)
  BY DEF IInv, InputInv
<1>3. lreq.decodedInput.features \in Features
  BY <1>1, <1>2, InputFeatures DEF OneObject
<1>4. lreq.profileId = Detected(ri.endpoint, lreq.decodedInput)
  BY DEF IInv, ProfileInv, Chosen
<1>5. KindOf(ri.endpoint) = "cert" => lreq.cert = lreq.decodedInput
  BY <1>2 DEF OneObject
<1>6. ASSUME KindOf(ri.endpoint) = "cert"
      PROVE  Detected(ri.endpoint, lreq.decodedInput) = CertificateProfile(lreq.decodedInput.features)
  BY <1>6 DEF Detected
<1> QED BY <1>1, <1>3, <1>4, <1>5, <1>6

-----------------------------------------------------------------------------
(* The scripts of the external linters.                                    *)

\* No profile has an empty name, which is how a script says that it has read none.
LEMMA NamesNotEmpty == Nothing \notin AllProfiles
<1>1. Nothing \notin CrlNames \cup {AUTODETECT, OCSPRESPONSE, OCSPSIGNING}
  BY DEF Nothing, CrlNames, AUTODETECT, OCSPRESPONSE, OCSPSIGNING
<1>2. Nothing \notin OtherRootNames \cup OtherSubordinateNames \cup OtherLeafNames
  BY DEF Nothing, OtherRootNames, OtherSubordinateNames, OtherLeafNames
<1>3. Nothing \notin TlsRootNames \cup TlsSubordinateNames \cup TlsSideNames
  BY DEF Nothing, TlsRootNames, TlsSubordinateNames, TlsSideNames
<1>4. Nothing \notin SmimeLeafNames \cup EtsiNcpNames
  BY DEF Nothing, SmimeLeafNames, EtsiNcpNames
<1>5. Nothing \notin PlainNames
  BY DEF Nothing, PlainNames, EtsiSiteNames, EtsiPersonNames, TlsLeafNames, MarkNames
<1>6. Nothing \notin PrecertNames
  BY DEF Nothing, PrecertNames, EtsiSitePrecertNames, EtsiPersonPrecertNames,
         TlsLeafPrecertNames, MarkPrecertNames
<1> QED BY <1>1, <1>2, <1>3, <1>4, <1>5, <1>6, NamesInFull

\* What serverLoop writes: the profile, and the text without its last, empty line.
LEMMA WrittenLines ==
    ASSUME NEW profile, NEW kind
    PROVE  Written(profile, kind) =
               <<<<"profile", profile>>, <<"begin", kind>>, <<"base64", kind>>, <<"end", kind>>>>
<1> DEFINE first == <<"profile", profile>>  b == <<"begin", kind>>  m == <<"base64", kind>>
           e == <<"end", kind>>  empty == <<"empty">>
           S == {first, b, m, e, empty}
<1>1. EncodeToMemory(kind) = <<b, m, e, empty>>
  BY DEF EncodeToMemory
<1> HIDE DEF first, b, m, e, empty
<1>2. TrimSpace(EncodeToMemory(kind)) = <<b, m, e>>
  <2>1. Last(<<b, m, e, empty>>) = empty
    BY DEF Last
  <2>2. Front(<<b, m, e, empty>>) = SubSeq(<<b, m, e, empty>>, 1, 3)
    BY DEF Front
  <2>3. SubSeq(<<b, m, e, empty>>, 1, 3) = <<b, m, e>>
    <3> DEFINE all == <<b, m, e, empty>>
               front == SubSeq(all, 1, 3)
    <3>1. all \in Seq(S) /\ Len(all) = 4 /\ all[1] = b /\ all[2] = m /\ all[3] = e
      OBVIOUS
    <3> HIDE DEF all
    <3>2. /\ front \in Seq(S) /\ Len(front) = 3
          /\ front[1] = b /\ front[2] = m /\ front[3] = e
      BY <3>1, SubSeqProperties
    <3>3. <<b, m, e>> \in Seq(S) /\ Len(<<b, m, e>>) = 3
      OBVIOUS
    <3> HIDE DEF front
    <3>4. \A k \in 1 .. 3 : front[k] = <<b, m, e>>[k]
      BY <3>2
    <3> QED BY <3>2, <3>3, <3>4, SeqEqual DEF front, all
  <2> QED BY <1>1, <2>1, <2>2, <2>3 DEF TrimSpace, empty
<1>3. <<first>> \o <<b, m, e>> = <<first, b, m, e>>
  <2> DEFINE s == <<first>>  r == <<b, m, e>>  t == <<first, b, m, e>>
  <2>1. s \in Seq(S) /\ r \in Seq(S) /\ t \in Seq(S) /\ Len(t) = Len(s) + Len(r)
    OBVIOUS
  <2>2. (\A k \in 1 .. Len(s) : t[k] = s[k]) /\ \A k \in 1 .. Len(r) : t[Len(s) + k] = r[k]
    OBVIOUS
  <2> HIDE DEF s, r, t
  <2> QED BY <2>1, <2>2, ConcatIs DEF s, r, t
<1> QED BY <1>2, <1>3 DEF Written, first, b, m, e

\* A script that is given four lines reads them one after the other.
LEMMA FourLines ==
    ASSUME NEW l, NEW a, NEW b, NEW c, NEW d
    PROVE  Script(l, <<a, b, c, d>>) =
               ReadsLine(l, ReadsLine(l, ReadsLine(l, ReadsLine(l, Waiting, a), b), c), d)
<1> DEFINE lines == <<a, b, c, d>>
           s1 == ReadsLine(l, Waiting, a)
           s2 == ReadsLine(l, s1, b)
           s3 == ReadsLine(l, s2, c)
           s4 == ReadsLine(l, s3, d)
           states == [n \in 0 .. Len(lines) |-> <<Waiting, s1, s2, s3, s4>>[n + 1]]
           Follows(f) == f = [n \in 0 .. Len(lines) |->
                                 IF n = 0 THEN Waiting ELSE ReadsLine(l, f[n - 1], lines[n])]
           after == CHOOSE f : Follows(f)
<1>1. Len(lines) = 4 /\ lines[1] = a /\ lines[2] = b /\ lines[3] = c /\ lines[4] = d
  OBVIOUS
<1>2. Follows(states)
  <2> SUFFICES ASSUME NEW n \in 0 .. 4
               PROVE  states[n] = IF n = 0 THEN Waiting ELSE ReadsLine(l, states[n - 1], lines[n])
    BY <1>1
  <2> HIDE DEF s1, s2, s3, s4
  <2>1. /\ states[0] = Waiting /\ states[1] = s1 /\ states[2] = s2
        /\ states[3] = s3 /\ states[4] = s4
    BY <1>1
  <2>2. n \in {0, 1, 2, 3, 4}
    OBVIOUS
  <2>3. CASE n = 0 BY <2>1, <2>3
  <2>4. CASE n = 1 BY <2>1, <2>4, <1>1 DEF s1
  <2>5. CASE n = 2 BY <2>1, <2>5, <1>1 DEF s2
  <2>6. CASE n = 3 BY <2>1, <2>6, <1>1 DEF s3
  <2>7. CASE n = 4 BY <2>1, <2>7, <1>1 DEF s4
  <2> QED BY <2>2, <2>3, <2>4, <2>5, <2>6, <2>7
<1>3. Follows(after)
  BY <1>2
<1>4. Script(l, lines) = after[4]
  BY <1>1 DEF Script
<1> HIDE DEF after
<1>5. after[1] = s1
  <2>1. after[0] = Waiting
    BY <1>1, <1>3
  <2> QED BY <1>1, <1>3, <2>1
<1>6. after[2] = s2
  BY <1>1, <1>3, <1>5
<1>7. after[3] = s3
  BY <1>1, <1>3, <1>6
<1>8. after[4] = s4
  BY <1>1, <1>3, <1>7
<1> QED BY <1>4, <1>8

\* A script reads a request whole, prints its lines and the end of the results, and is as it
\* was before, when it waits for the last line of the kind.
LEMMA ScriptReads ==
    ASSUME NEW l, NEW profile, profile # Nothing, NEW kind \in EndLines(l)
    PROVE  Script(l, Written(profile, kind)) =
               [alive |-> TRUE, profile |-> Nothing, text |-> Nothing,
                printed |-> <<Lines(l, profile, kind), {End}>>]
<1> DEFINE At(p, text) == [alive |-> TRUE, profile |-> p, text |-> text, printed |-> Nothing]
           begun == Append(Nothing, <<"begin", kind>>)
           whole == Append(begun, <<"base64", kind>>)
<1>1. ReadsLine(l, Waiting, <<"profile", profile>>) = At(profile, Nothing)
  BY DEF ReadsLine, Waiting
<1>2. ReadsLine(l, At(profile, Nothing), <<"begin", kind>>) = At(profile, begun)
  BY DEF ReadsLine
<1>3. ReadsLine(l, At(profile, begun), <<"base64", kind>>) = At(profile, whole)
  <2> HIDE DEF begun
  <2> QED BY DEF ReadsLine
<1>4. ReadsLine(l, At(profile, whole), <<"end", kind>>) =
          [alive |-> TRUE, profile |-> Nothing, text |-> Nothing,
           printed |-> <<Lines(l, profile, kind), {End}>>]
  <2> HIDE DEF begun, whole
  <2>1. Nothing \o <<Lines(l, profile, kind), {End}>> = <<Lines(l, profile, kind), {End}>>
    BY DEF Nothing
  <2> QED BY <2>1 DEF ReadsLine
<1> HIDE DEF At, begun, whole
<1> QED BY <1>1, <1>2, <1>3, <1>4, WrittenLines, FourLines

\* What a script prints before the end of the results is read as findings, none of them META.
LEMMA LinesAreFindings ==
    ASSUME NEW l \in ExternalLinters, NEW profile, NEW kind, NEW token \in Lines(l, profile, kind)
    PROVE  LET parsed == ParseResultToken(token)
           IN  /\ ~parsed.err /\ ~parsed.end
               /\ parsed.severities # {} /\ SeverityLevel.meta \notin parsed.severities
<1>1. (\E letter \in DOMAIN Letters : token = Finding(letter)) \/ token = Json
  BY DEF ExternalLinters, Lines, BadkeysLines, CertlintLines, PkilintLines, Letters
<1>2. \A name \in DOMAIN SeverityLevel \ {"meta"} :
          Severity(name) = SeverityLevel[name] /\ SeverityLevel[name] # SeverityLevel.meta
  BY DEF Severity, SeverityLevel
<1>3. ASSUME NEW letter \in DOMAIN Letters, token = Finding(letter)
      PROVE  ParseResultToken(token) =
                 [severities |-> {Severity(Letters[letter])}, end |-> FALSE, err |-> FALSE]
  BY <1>3 DEF ParseResultToken, Finding, End
<1>4. \A letter \in DOMAIN Letters : Letters[letter] \in DOMAIN SeverityLevel \ {"meta"}
  BY DEF Letters, SeverityLevel
<1>5. ASSUME token = Json
      PROVE  ParseResultToken(token) =
                 [severities |-> {Severity(name) : name \in Json[2]}, end |-> FALSE, err |-> FALSE]
  BY <1>5 DEF ParseResultToken, Json, End
<1>6. Json[2] # {} /\ Json[2] \subseteq DOMAIN SeverityLevel \ {"meta"}
  BY DEF Json, SeverityLevel
<1> QED BY <1>1, <1>2, <1>3, <1>4, <1>5, <1>6

-----------------------------------------------------------------------------
(* The theorems.                                                           *)

\* Every variable keeps its type; above all, the profile is always one that the code knows,
\* whatever detection chooses and the client names (request/post.go).
THEOREM TypeCorrect == Spec => []TypeOK
<1>1. IInv => TypeOK
  BY DEF IInv, StepTypes, KnownInv, TypeOK
<1> QED BY <1>1, Invariance, PTL

\* The linters get one object in three forms, and it is the one submitted, untouched or in
\* a dummy signature (the handlers of request/input.go and its callers).
THEOREM OneObjectForAll == Spec => []SameInputForAll
<1>1. IInv => SameInputForAll
  BY DEF IInv, InputInv, SameInputForAll, OneObject, FromObject
<1> QED BY <1>1, Invariance, PTL

\* A request is linted or told why not, never both (the if-else chain of POST).
THEOREM NeverSilent == Spec => []LintedOrTold
<1>1. IInv => LintedOrTold
  BY DEF IInv, StepTypes, ToldInv, LintedOrTold
<1> QED BY <1>1, Invariance, PTL

\* Every linter that a detected profile is sent to reads the kind of object that the endpoint
\* took, for objects with any features and policies (autodetect.go, linter/profile.go and
\* the handlers' lists of unsupported profiles).
THEOREM KindsFit == Spec => []LintersReadTheirKind
<1>1. ASSUME IInv PROVE LintersReadTheirKind
  <2>1. SUFFICES ASSUME Linted, Autodetects(req)
                 PROVE  /\ lreq.profileId \in AllProfiles \ {AUTODETECT}
                        /\ \A l \in LinterNames : Applicable(l, lreq.profileId) =>
                               Reads(l, lreq.profileId) = KindOf(ri.endpoint)
    BY DEF LintersReadTheirKind
  <2>2. lreq.profileId \in AllProfiles /\ lreq.profileId # AUTODETECT
    BY <1>1, <2>1, DetectedRequest, DetectedKnown
  <2>3. /\ KindOf(ri.endpoint) \in {"cert", "crl", "ocsp"}
        /\ lreq.profileId \in CrlProfileIDs <=> KindOf(ri.endpoint) = "crl"
        /\ lreq.profileId \in OcspProfileIDs <=> KindOf(ri.endpoint) = "ocsp"
        /\ KindOf(ri.endpoint) # "cert" => /\ lreq.profileId \notin EtsiCertificateProfileIDs
                                           /\ lreq.profileId \notin SbrLeafProfileIDs
                                           /\ lreq.profileId \notin TbrTevgCertificateProfileIDs
    BY <1>1, <2>1, DetectedRequest, DetectedKind
  <2> QED BY <2>2, <2>3, LintersRead
<1> QED BY <1>1, Invariance, PTL

\* pkilint has rules for every object under its detected profile (pkilint/handler.go).
THEOREM PkilintHasRules == Spec => []PkilintLints
<1>1. ASSUME IInv PROVE PkilintLints
  <2>1. SUFFICES ASSUME Linted, Autodetects(req)
                 PROVE  Json \in PkilintLines(lreq.profileId, KindOf(ri.endpoint))
    BY DEF PkilintLints
  <2> DEFINE p == lreq.profileId
             kind == KindOf(ri.endpoint)
  <2>2. p \in AllProfiles
    BY <1>1, <2>1, DetectedRequest, DetectedKnown
  <2>3. /\ kind \in {"cert", "crl", "ocsp"}
        /\ p \in CrlProfileIDs <=> kind = "crl"
        /\ p \in OcspProfileIDs <=> kind = "ocsp"
        /\ kind # "cert" => /\ p \notin EtsiCertificateProfileIDs /\ p \notin SbrLeafProfileIDs
                            /\ p \notin TbrTevgCertificateProfileIDs
        /\ kind = "crl" => p \in CrlNames
    BY <1>1, <2>1, DetectedRequest, DetectedKind
  <2>4. CrlNames \subseteq CrlValidators
    BY DEF CrlNames, CrlValidators
  <2>5. Applicable("pkilint", p) /\ "pkilint" \in LinterNames
    BY DEF Applicable, Unsupported, LinterNames
  <2> HIDE DEF p, kind
  <2>6. Reads("pkilint", p) = kind /\ (PkilintRules(p) = "crl" => p \in CrlValidators)
    BY <2>2, <2>3, <2>4, <2>5, LintersRead
  <2>7. Json \in PkilintLines(p, kind)
    BY <2>6 DEF PkilintLines
  <2> QED BY <2>7 DEF p, kind
<1> QED BY <1>1, Invariance, PTL

\* The linters that tell roots, subordinates and leaves apart by the detected profile agree
\* with the certificate (x509lint, zlint and ctlint handler.go).
THEOREM TypesFit == Spec => []CertTypeFits
<1>1. ASSUME IInv PROVE CertTypeFits
  <2>1. SUFFICES ASSUME Linted, Autodetects(req), KindOf(ri.endpoint) = "cert"
                 PROVE  LET c == lreq.cert.features
                            p == lreq.profileId
                        IN  /\ X509lintCertType(p) = CertificateType(c)
                            /\ ZlintRegistry(p) = "tlsLeaf" => CertificateType(c) = "leaf"
                            /\ CtlintCheck(p) = "precertificate" => c.poison
    BY DEF CertTypeFits
  <2> DEFINE c == lreq.cert.features
             p == lreq.profileId
             leaf == ~IsRootCertificate(c) /\ ~c.ca
  <2>2. c \in Features /\ p = CertificateProfile(c)
    BY <1>1, <2>1, DetectedRequest
  <2>3. /\ p \in RootProfileIDs <=> IsRootCertificate(c)
        /\ p \in SubordinateProfileIDs <=> (~IsRootCertificate(c) /\ c.ca)
        /\ p \in TbrTevgLeafProfileIDs => leaf
        /\ p \in PrecertificateProfileIDs => leaf /\ c.poison
    BY <2>2, CertificateDetected
  <2>4. X509lintCertType(p) = CertificateType(c)
    BY <2>3 DEF X509lintCertType, CertificateType
  <2>5. ZlintRegistry(p) = "tlsLeaf" => CertificateType(c) = "leaf"
    BY <2>3 DEF ZlintRegistry, CertificateType
  <2>6. CtlintCheck(p) = "precertificate" => c.poison
    BY <2>3 DEF CtlintCheck
  <2> QED BY <2>4, <2>5, <2>6
<1> QED BY <1>1, Invariance, PTL

\* A certificate and its precertificate get the same profile, but for the suffix
\* (the two tables of autodetect.go:359-419 and the pairs of branches at 493-588).
THEOREM TwinsAgree == Spec => []PrecertTwins
<1>1. ASSUME IInv PROVE PrecertTwins
  <2>1. SUFFICES ASSUME Linted, Autodetects(req), KindOf(ri.endpoint) = "cert"
                 PROVE  CertificateProfile([lreq.cert.features EXCEPT !.poison = TRUE]) =
                            Twin(CertificateProfile([lreq.cert.features EXCEPT !.poison = FALSE]))
    BY DEF PrecertTwins, Twin
  <2>2. lreq.cert.features \in Features
    BY <1>1, <2>1, DetectedRequest
  <2>3. ASSUME NEW c \in Features
        PROVE  Pair([c EXCEPT !.poison = FALSE], [c EXCEPT !.poison = TRUE])
    BY DEF Pair, Features
  <2> QED BY <2>2, <2>3, TwinDetected
<1> QED BY <1>1, Invariance, PTL

\* The linters apply the TLS rules to the same certificates, for every profile, detected or
\* named (the handlers of pkilint, certlint, x509lint, zlint and ctlint).
THEOREM TlsRulesAgree == Spec => []TlsLintersAgree
<1>1. ASSUME IInv PROVE TlsLintersAgree
  <2>1. SUFFICES ASSUME Linted, NEW p, p = lreq.profileId
                 PROVE  LET tls == PkilintRules(p) = "serverauth"
                            leaf == p \in TbrTevgLeafProfileIDs
                        IN  /\ tls <=> CertlintRules(p) = "cablint"
                            /\ tls <=> Applicable("x509lint", p)
                            /\ ZlintRegistry(p) \in {"tlsLeaf", "tlsSubordinate"} <=> tls \/ EtsiWebForSite(p)
                            /\ leaf => /\ ZlintRegistry(p) = "tlsLeaf"
                                       /\ CtlintCheck(p) = IF p \in PrecertificateProfileIDs
                                                           THEN "precertificate" ELSE "serverauth"
                                       /\ X509lintCertType(p) = "leaf"
                            /\ leaf \/ PkilintRules(p) \in {"etsi", "smime"} => p \in PkilintDictionary
    BY DEF TlsLintersAgree
  <2>2. p \in AllProfiles /\ p # AUTODETECT
    <3>1. CASE Autodetects(req)
      BY <1>1, <2>1, <3>1, DetectedRequest, DetectedKnown
    <3>2. CASE ~Autodetects(req)
      BY <1>1, <2>1, <3>2 DEF IInv, ProfileInv, Chosen, Autodetects
    <3> QED BY <3>1, <3>2
  <2>3. PICK lists : OnlyIn(p, lists) /\ Fit(lists)
    BY <2>2, EveryProfileFits
  <2>4. /\ p \in TbrTevgCertificateProfileIDs =>
               p \notin EtsiCertificateProfileIDs /\ p \notin SbrLeafProfileIDs
        /\ p \in TbrTevgLeafProfileIDs =>
               /\ p \notin RootProfileIDs /\ p \notin SubordinateProfileIDs
               /\ p \in TbrTevgCertificateProfileIDs \/ EtsiWebForSite(p)
        /\ EtsiWebForSite(p) => p \in TbrTevgLeafProfileIDs
    BY <2>3 DEF OnlyIn, Fit
  <2> DEFINE tls == p \in TbrTevgCertificateProfileIDs
             leaf == p \in TbrTevgLeafProfileIDs
  <2>5. PkilintRules(p) = "serverauth" <=> tls
    BY <2>4 DEF PkilintRules
  <2>6. CertlintRules(p) = "cablint" <=> tls
    BY DEF CertlintRules
  <2>7. Applicable("x509lint", p) <=> tls
    BY <2>2 DEF Applicable, Unsupported, NonTbrTevgCertificateProfileIDs
  <2>8. /\ ZlintRegistry(p) \in {"tlsLeaf", "tlsSubordinate"} <=> (tls \/ leaf)
        /\ leaf => ZlintRegistry(p) = "tlsLeaf"
    BY DEF ZlintRegistry
  <2>9. leaf => CtlintCheck(p) = IF p \in PrecertificateProfileIDs THEN "precertificate" ELSE "serverauth"
    BY DEF CtlintCheck
  <2>10. leaf => X509lintCertType(p) = "leaf"
    BY <2>4 DEF X509lintCertType
  <2>11. leaf \/ PkilintRules(p) \in {"etsi", "smime"} => p \in PkilintDictionary
    <3>1. /\ PkilintRules(p) = "etsi" => p \in EtsiCertificateProfileIDs
          /\ PkilintRules(p) = "smime" => p \in SbrLeafProfileIDs
      BY DEF PkilintRules
    <3> QED BY <2>2, <3>1, PkilintIsTold
  <2> QED BY <2>4, <2>5, <2>6, <2>7, <2>8, <2>9, <2>10, <2>11
<1> QED BY <1>1, Invariance, PTL

\* The script of every external linter that a detected profile goes to answers the request
\* whole, with lines that are read as findings, and is ready for the next one (serverLoop,
\* parseResultToken and the scripts in the handlers of badkeys, certlint and pkilint).
THEOREM ScriptsAnswerAll == Spec => []ScriptsAnswer
<1>1. ASSUME IInv PROVE ScriptsAnswer
  <2>1. SUFFICES ASSUME Linted, Autodetects(req),
                        NEW l \in ExternalLinters, Applicable(l, lreq.profileId)
                 PROVE  LET kind == KindOf(ri.endpoint)
                            s == Script(l, Written(lreq.profileId, kind))
                        IN  /\ [s EXCEPT !.printed = Nothing] = Waiting
                            /\ s.printed = <<Lines(l, lreq.profileId, kind), {End}>>
                            /\ \A token \in s.printed[1] :
                                  LET parsed == ParseResultToken(token)
                                  IN  /\ ~parsed.err /\ ~parsed.end
                                      /\ parsed.severities # {}
                                      /\ SeverityLevel.meta \notin parsed.severities
    BY DEF ScriptsAnswer
  <2> DEFINE p == lreq.profileId
             kind == KindOf(ri.endpoint)
             s == Script(l, Written(p, kind))
  <2>2. p \in AllProfiles
    BY <1>1, <2>1, DetectedRequest, DetectedKnown
  <2>3. /\ kind \in {"cert", "crl", "ocsp"}
        /\ p \in CrlProfileIDs <=> kind = "crl"
        /\ p \in OcspProfileIDs <=> kind = "ocsp"
        /\ kind # "cert" => /\ p \notin EtsiCertificateProfileIDs /\ p \notin SbrLeafProfileIDs
                            /\ p \notin TbrTevgCertificateProfileIDs
    BY <1>1, <2>1, DetectedRequest, DetectedKind
  <2>4. p # Nothing
    BY <2>2, NamesNotEmpty
  <2>5. l \in LinterNames
    BY DEF ExternalLinters, LinterNames
  <2>6. Applicable(l, p)
    BY <2>1
  <2> HIDE DEF p, kind
  <2>7. kind \in EndLines(l)
    <3>1. Reads(l, p) = kind
      BY <2>2, <2>3, <2>5, <2>6, LintersRead
    <3>2. l # "pkilint" => Reads(l, p) = "cert"
      BY <2>1 DEF Reads, ExternalLinters
    <3> QED BY <2>3, <3>1, <3>2 DEF EndLines
  <2>8. s = [alive |-> TRUE, profile |-> Nothing, text |-> Nothing,
             printed |-> <<Lines(l, p, kind), {End}>>]
    BY <2>4, <2>7, ScriptReads
  <2> HIDE DEF s
  <2>9. [s EXCEPT !.printed = Nothing] = Waiting /\ s.printed = <<Lines(l, p, kind), {End}>>
    <3> DEFINE out == <<Lines(l, p, kind), {End}>>
    <3>1. s = [alive |-> TRUE, profile |-> Nothing, text |-> Nothing, printed |-> out]
      BY <2>8
    <3> HIDE DEF out
    <3>2. s.printed = out
      BY <3>1
    <3>3. [s EXCEPT !.printed = Nothing] = Waiting
      <4> DEFINE after == [s EXCEPT !.printed = Nothing]
      <4>1. after \in [alive : {TRUE}, profile : {Nothing}, text : {Nothing}, printed : {Nothing}]
        BY <3>1
      <4> HIDE DEF after
      <4>2. after = Waiting
        BY <4>1 DEF Waiting
      <4> QED BY <4>2 DEF after
    <3> QED BY <3>2, <3>3 DEF out
  <2>10. \A token \in s.printed[1] :
             LET parsed == ParseResultToken(token)
             IN  /\ ~parsed.err /\ ~parsed.end
                 /\ parsed.severities # {} /\ SeverityLevel.meta \notin parsed.severities
    <3>1. s.printed[1] = Lines(l, p, kind)
      BY <2>9
    <3> QED BY <3>1, LinesAreFindings
  <2> QED BY <2>9, <2>10 DEF p, kind, s
<1> QED BY <1>1, Invariance, PTL
=============================================================================
