------------------------------ MODULE MCIntake ------------------------------
(***************************************************************************)
(* Intake with slices of the possible requests: each slice varies the      *)
(* fields that one part of the chain looks at and keeps the others plain.  *)
(***************************************************************************)
EXTENDS Intake

Ov == [NoFeatures EXCEPT !.policies = <<<<"tls", "ov">>>>, !.ekus = {"serverAuth"}]

Plain == [path |-> "lintcert", format |-> "none", accept |-> "none", contentType |-> "form",
          field |-> "b64input", encoding |-> "base64", profile |-> <<>>, severity |-> "none",
          object |-> [shape |-> "signed", features |-> Ov]]

\* Which endpoint, which response format.
FormatRequests ==
    {[Plain EXCEPT !.path = path, !.format = f, !.accept = a] :
        path \in {"lintcert", "other"},
        f \in Formats \cup {"none", "unknown"}, a \in Formats \cup {"none"}}

\* How the input comes, and what it is.
InputRequests ==
    {[Plain EXCEPT !.path = path, !.contentType = type, !.field = f, !.encoding = e, !.object = o] :
        path \in Endpoints,
        type \in {"form", "pkix-cert", "pkix-crl", "ocsp-response", "octet-stream", "other"},
        f \in {"own", "b64input", "both", "otherField", "empty"},
        e \in {"pem", "otherPem", "base64", "neither"},
        o \in {[shape |-> s, features |-> Ov] : s \in {"signed", "tbs"}} \cup {OtherBytes}}

\* Every profile that a client may name, and the severities.
ProfileRequests ==
    {[Plain EXCEPT !.profile = p] : p \in AllProfiles \cup {<<"unknown">>}}
    \cup {[Plain EXCEPT !.severity = s] : s \in DOMAIN SeverityLevel \cup {"unknown"}}

\* The features that the test for a root looks at, with what CCADB may list.
RootFeatures ==
    {[NoFeatures EXCEPT !.v3 = v3, !.ca = ca, !.selfSigned = selfSigned, !.oldAlgorithm = old,
                        !.sameName = same, !.keyIdsDiffer = differ, !.self = self] :
        v3 \in BOOLEAN, ca \in BOOLEAN, selfSigned \in BOOLEAN, old \in BOOLEAN,
        same \in BOOLEAN, differ \in BOOLEAN,
        self \in {{}, {"listed"}, {"listed", "ev", "tls"}, {"listed", "tls", "smime"},
                  {"listed", "smime", "cs"}, {"listed", "cs", "vmc"}, {"listed", "vmc"}}}

FewPolicies == {<<"tls", "iv">>, <<"tls", "ev">>, <<"smime">>, <<"cs", "ev">>, <<"other">>}

PolicyLists == {<<>>} \cup {<<p>> : p \in Policies} \cup {<<p, q>> : p, q \in FewPolicies}

\* The policies, in their order, with every combination of QC statements.
PolicyFeatures ==
    {[NoFeatures EXCEPT !.ca = ca, !.poison = poison, !.qc = qc, !.policies = policies, !.ekus = ekus] :
        ca \in BOOLEAN, poison \in BOOLEAN, qc \in SUBSET {"compliance", "cclegislation", "psd2"},
        policies \in PolicyLists, ekus \in {{"serverAuth"}, {"precertSigning"}}}

Usages == {"any", "serverAuth", "clientAuth", "emailProtection", "codeSigning", "timeStamping",
           "ocspSigning", "documentSigning", "bimi"}

Listings == {{}, {"listed"}, {"listed", "ev", "tls"}, {"listed", "tls"},
             {"listed", "smime", "cs"}, {"listed", "tls", "smime", "cs"}}

\* The extended key usages, alone and in pairs, with the issuer's listing and the subject.
UsageFeatures ==
    {[NoFeatures EXCEPT !.poison = poison, !.qc = qc, !.ekus = ekus, !.issuer = issuer,
                        !.person = person, !.org = org] :
        poison \in BOOLEAN, qc \in {{}, {"compliance"}, {"compliance", "cclegislation"}},
        ekus \in {{}} \cup {{e} : e \in Usages}, issuer \in Listings,
        person \in BOOLEAN, org \in BOOLEAN}
    \cup
    {[NoFeatures EXCEPT !.ca = ca, !.poison = poison, !.ekus = {e, f}, !.issuer = issuer,
                        !.jurisdiction = jurisdiction, !.mark = mark] :
        ca \in BOOLEAN, poison \in BOOLEAN, e \in Usages, f \in Usages, issuer \in Listings,
        jurisdiction \in BOOLEAN, mark \in {"none", "commonmark", "verifiedmark"}}

DetectRequests ==
    {[Plain EXCEPT !.object.features = c] : c \in RootFeatures \cup PolicyFeatures \cup UsageFeatures}

TbsRequests ==
    {[Plain EXCEPT !.path = "linttbscert", !.object.shape = "tbs", !.object.features = c] :
        c \in RootFeatures}

CrlRequests ==
    {[Plain EXCEPT !.path = path, !.object = [shape |-> s, features |-> [NoFeatures EXCEPT !.issuer = i]]] :
        path \in {"lintcrl", "linttbscrl"}, s \in {"signed", "tbs"},
        i \in {{}} \cup {{"listed"} \cup t : t \in SUBSET {"root", "tls", "ev", "smime"}}}

FewRequests == FormatRequests \cup InputRequests \cup ProfileRequests

MCRequests == FewRequests \cup DetectRequests \cup TbsRequests \cup CrlRequests

MCFindings == {{3}, {2, 7}}
=============================================================================
