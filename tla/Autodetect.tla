----------------------------- MODULE Autodetect -----------------------------
(***************************************************************************)
(* How the profile of a certificate or CRL is detected when the client     *)
(* names none (request/autodetect.go).                                     *)
(*                                                                         *)
(* An object is the record of the features that the code looks at:         *)
(*   v3, ca          version 3; basic constraints with the CA flag         *)
(*   selfSigned, oldAlgorithm, sameName, keyIdsDiffer                      *)
(*                   what the test for a root looks at                     *)
(*   poison, qc      precertificate poison; the QC statements              *)
(*   policies, ekus  the policies in their order; the extended key usages  *)
(*   person, org, jurisdiction, mark                                       *)
(*                   attributes of the subject                             *)
(*   self, issuer    what CCADB says of the certificate and of its issuer: *)
(*                   {} is not listed, "listed" is in every other set      *)
(* A CRL has an issuer only.  A policy is <<"tls", "ov">>, <<"smime", "mv",*)
(* "legacy">>, <<"smime">> for another one in the S/MIME arc, and so on.   *)
(***************************************************************************)
EXTENDS Profiles

\* The policies that the code tells apart; those of another arc are <<"other">>.
Policies ==
    {<<"tls", v>> : v \in {"dv", "ov", "iv", "ev"}}
    \cup {<<"smime", v, g>> : v \in {"mv", "ov", "sv", "iv"}, g \in {"legacy", "multipurpose", "strict"}}
    \cup {<<"smime">>, <<"cs", "ov">>, <<"cs", "ev">>, <<"ts">>, <<"other">>}

ExtendedKeyUsages ==
    {"any", "serverAuth", "clientAuth", "emailProtection", "codeSigning", "timeStamping",
     "ocspSigning", "documentSigning", "bimi", "precertSigning"}

CcadbListings == SUBSET {"listed", "root", "ev", "tls", "smime", "cs", "vmc"}

\* Every object that there may be, with any list of policies.
Features ==
    [v3 : BOOLEAN, ca : BOOLEAN, selfSigned : BOOLEAN, oldAlgorithm : BOOLEAN, sameName : BOOLEAN,
     keyIdsDiffer : BOOLEAN, poison : BOOLEAN, qc : SUBSET {"compliance", "cclegislation", "psd2"},
     policies : Seq(Policies), ekus : SUBSET ExtendedKeyUsages,
     person : BOOLEAN, org : BOOLEAN, jurisdiction : BOOLEAN,
     mark : {"none", "commonmark", "verifiedmark"},
     self : CcadbListings, issuer : CcadbListings]

\* A step of a detection: a profile when its condition holds, or none.
When(condition, p) == IF condition THEN {p} ELSE {}

\* A chain of steps: the result of the first that has one.
FirstOf(steps) ==
    LET hit == SelectInSeq(steps, LAMBDA s : s # {})
    IN  IF hit = 0 THEN {} ELSE steps[hit]

\* A loop over the policies that returns at the first that gives a profile.
FirstPolicy(policies, ProfileOf(_)) == FirstOf([i \in DOMAIN policies |-> ProfileOf(policies[i])])

The(P) == CHOOSE p \in P : TRUE

-----------------------------------------------------------------------------
(* Features.                                                               *)

IsQualified(c)      == "compliance" \in c.qc
IsEidasQualified(c) == IsQualified(c) /\ "cclegislation" \notin c.qc
IsPSD2(c)           == "psd2" \in c.qc

HasAnyOrNoEKU(c) == c.ekus = {} \/ "any" \in c.ekus

IsRootCertificate(c) ==
    /\ c.v3 => c.ca
    /\ \/ c.selfSigned
       \/ c.oldAlgorithm /\ c.sameName /\ ~(c.v3 /\ c.keyIdsDiffer)

\* A dummy signature verifies with no key and changes the hash that CCADB lists.
DummySigned(c) == [c EXCEPT !.selfSigned = FALSE, !.self = {}]

-----------------------------------------------------------------------------
(* CRLs, roots and subordinates.                                           *)

CRLProfile(c) ==
    LET family == IF "tls" \in c.issuer THEN "tbr" ELSE "rfc5280"
    IN  IF "root" \in c.issuer THEN <<family, "arl">> ELSE <<family, "crl">>

RootCertificateProfile(c) ==
    The(FirstOf(<<When("ev"    \in c.self, <<"tevg", "root", "tlsserver">>),
                  When("tls"   \in c.self, <<"tbr", "root", "tlsserver">>),
                  When("smime" \in c.self, <<"sbr", "root", "smime">>),
                  When("cs"    \in c.self, <<"csbr", "root", "codesigning">>),
                  When("vmc"   \in c.self, <<"bimigroup", "root", "bimi">>),
                  {<<"rfc5280", "root">>}>>))

SubordinatePolicyProfile(policy) ==
    CASE policy \in {<<"tls", v>> : v \in {"dv", "ov", "iv"}} ->
                                        {<<"tbr", "subordinate", "tlsserver">>}
      [] policy = <<"tls", "ev">>    -> {<<"tevg", "subordinate", "tlsserver">>}
      [] Head(policy) = "smime"      -> {<<"sbr", "subordinate", "smime">>}
      [] Head(policy) = "cs"         -> {<<"csbr", "subordinate", "codesigning">>}
      [] Head(policy) = "ts"         -> {<<"csbr", "subordinate", "timestamping">>}
      [] OTHER                       -> {}

SubordinateIssuerProfile(c) ==
    LET Eku(e) == e \in c.ekus \/ HasAnyOrNoEKU(c)
    IN  FirstOf(
        <<When(Eku("serverAuth") /\ "ev" \in c.issuer,         <<"tevg", "subordinate", "tlsserver">>),
          When(Eku("serverAuth") /\ "tls" \in c.issuer,        <<"tbr", "subordinate", "tlsserver">>),
          When(Eku("emailProtection") /\ "smime" \in c.issuer, <<"sbr", "subordinate", "smime">>),
          When(Eku("codeSigning") /\ "cs" \in c.issuer,        <<"csbr", "subordinate", "codesigning">>),
          When("timeStamping" \in c.ekus /\ c.issuer # {},     <<"csbr", "subordinate", "timestamping">>),
          When("bimi" \in c.ekus /\ c.issuer # {},             <<"bimigroup", "subordinate", "bimi">>)>>)

SubordinateCertificateProfile(c) ==
    The(FirstOf(<<When("precertSigning" \in c.ekus, <<"tbr", "subordinate", "precertsigning">>),
                  FirstPolicy(c.policies, SubordinatePolicyProfile),
                  SubordinateIssuerProfile(c),
                  {<<"rfc5280", "subordinate">>}>>))

-----------------------------------------------------------------------------
(* Leaf certificates.  The code has one table for precertificates and one  *)
(* for certificates wherever it returns ETSI profiles.                     *)

ByQualification(c, eidas, nonEidas, unqualified) ==
    IF IsEidasQualified(c) THEN eidas ELSE IF IsQualified(c) THEN nonEidas ELSE unqualified

TlsPolicyPrecertProfile(policy, c) ==
    CASE policy = <<"tls", "dv">> -> {<<"tbr", "leaf", "tlsserver", "dv", "precertificate">>}
      [] policy = <<"tls", "ov">> ->
            {ByQualification(c, EtsiWeb(<<"qncpw", "ov", "eidas", "precertificate">>),
                                EtsiWeb(<<"qncpw", "ov", "noneidas", "precertificate">>),
                                <<"tbr", "leaf", "tlsserver", "ov", "precertificate">>)}
      [] policy = <<"tls", "iv">> ->
            {ByQualification(c, EtsiWeb(<<"qncpw", "iv", "eidas", "precertificate">>),
                                EtsiWeb(<<"qncpw", "iv", "noneidas", "precertificate">>),
                                <<"tbr", "leaf", "tlsserver", "iv", "precertificate">>)}
      [] policy = <<"tls", "ev">> ->
            {IF IsPSD2(c) THEN EtsiWeb(<<"qevcpw", "psd2", "eidas", "precertificate">>)
             ELSE ByQualification(c, EtsiWeb(<<"qevcpw", "eidas", "precertificate">>),
                                     EtsiWeb(<<"qevcpw", "noneidas", "precertificate">>),
                                     <<"tevg", "leaf", "tlsserver", "ev", "precertificate">>)}
      [] OTHER -> {}

TlsPolicyProfile(policy, c) ==
    CASE policy = <<"tls", "dv">> -> {<<"tbr", "leaf", "tlsserver", "dv">>}
      [] policy = <<"tls", "ov">> ->
            {ByQualification(c, EtsiWeb(<<"qncpw", "ov", "eidas">>),
                                EtsiWeb(<<"qncpw", "ov", "noneidas">>),
                                <<"tbr", "leaf", "tlsserver", "ov">>)}
      [] policy = <<"tls", "iv">> ->
            {ByQualification(c, EtsiWeb(<<"qncpw", "iv", "eidas">>),
                                EtsiWeb(<<"qncpw", "iv", "noneidas">>),
                                <<"tbr", "leaf", "tlsserver", "iv">>)}
      [] policy = <<"tls", "ev">> ->
            {IF IsPSD2(c) THEN EtsiWeb(<<"qevcpw", "psd2", "eidas">>)
             ELSE ByQualification(c, EtsiWeb(<<"qevcpw", "eidas">>),
                                     EtsiWeb(<<"qevcpw", "noneidas">>),
                                     <<"tevg", "leaf", "tlsserver", "ev">>)}
      [] OTHER -> {}

\* The S/MIME policies that have a profile carry its last two words.
LeafPolicyProfile(policy, c) ==
    FirstOf(<<IF c.poison THEN TlsPolicyPrecertProfile(policy, c) ELSE TlsPolicyProfile(policy, c),
              When(Head(policy) = "smime" /\ Len(policy) = 3, <<"sbr", "leaf">> \o policy),
              When(Head(policy) = "cs", <<"csbr", "leaf", "codesigning">> \o Tail(policy)),
              When(Head(policy) = "ts", <<"csbr", "leaf", "timestamping">>)>>)

\* Variant: the person's profile is returned with the wrong law.
PersonPrecertProfileSwapped(c) ==
    LET who == IF c.person THEN "naturalperson" ELSE "legalperson"
    IN  FirstOf(<<When(IsQualified(c), EtsiWeb(<<"qncpw", "gen", who, "noneidas", "precertificate">>))>>)

\* ETSI website authentication without a policy of the CA/Browser Forum.
PersonPrecertProfile(c) ==
    LET who == IF c.person THEN "naturalperson" ELSE "legalperson"
    IN  FirstOf(
        <<When(IsEidasQualified(c), EtsiWeb(<<"qncpw", "gen", who, "eidas", "precertificate">>)),
          When(IsQualified(c),      EtsiWeb(<<"qncpw", "gen", who, "noneidas", "precertificate">>))>>)

PersonProfile(c) ==
    LET who == IF c.person THEN "naturalperson" ELSE "legalperson"
    IN  FirstOf(<<When(IsEidasQualified(c), EtsiWeb(<<"qncpw", "gen", who, "eidas">>)),
                  When(IsQualified(c),      EtsiWeb(<<"qncpw", "gen", who, "noneidas">>))>>)

\* What the issuer's listing in CCADB implies for the certificate's usages.
LeafIssuerProfile(c) ==
    LET Eku(e)  == e \in c.ekus \/ HasAnyOrNoEKU(c)
        Pre(p)  == IF c.poison THEN Precertificate(p) ELSE p
        tls     == Eku("serverAuth") /\ "tls" \in c.issuer
        signs   == Eku("codeSigning") /\ "cs" \in c.issuer
        bimi    == "bimi" \in c.ekus /\ c.issuer # {} /\ c.mark # "none"
    IN  FirstOf(
        <<When(Eku("serverAuth") /\ "ev" \in c.issuer,    Pre(<<"tevg", "leaf", "tlsserver", "ev">>)),
          When(tls /\ c.person,                           Pre(<<"tbr", "leaf", "tlsserver", "iv">>)),
          When(tls /\ c.org,                              Pre(<<"tbr", "leaf", "tlsserver", "ov">>)),
          When(tls,                                       Pre(<<"tbr", "leaf", "tlsserver", "dv">>)),
          When("ocspSigning" \in c.ekus /\ "tls" \in c.issuer, <<"tbr", "leaf", "ocspsigning">>),
          When(signs /\ c.jurisdiction,                   <<"csbr", "leaf", "codesigning", "ev">>),
          When(signs /\ c.org,                            <<"csbr", "leaf", "codesigning", "ov">>),
          When("timeStamping" \in c.ekus /\ c.issuer # {}, <<"csbr", "leaf", "timestamping">>),
          When(bimi,                                      Pre(<<"bimigroup", "leaf", c.mark>>))>>)

LeafUsageProfile(c) ==
    FirstOf(<<When("serverAuth" \in c.ekus,      <<"rfc5280", "leaf", "tlsserver">>),
              When("emailProtection" \in c.ekus, <<"rfc5280", "leaf", "smime">>),
              When("codeSigning" \in c.ekus,     <<"rfc5280", "leaf", "codesigning">>),
              When("timeStamping" \in c.ekus,    <<"rfc5280", "leaf", "timestamping">>),
              When("ocspSigning" \in c.ekus,     <<"rfc5280", "leaf", "ocspsigning">>),
              When("documentSigning" \in c.ekus, <<"rfc5280", "leaf", "documentsigning">>),
              When("clientAuth" \in c.ekus,      <<"rfc5280", "leaf", "tlsclient">>),
              {<<"rfc5280", "leaf">>}>>)

LeafCertificateProfile(c) ==
    LET OfPolicy(policy) == LeafPolicyProfile(policy, c)
    IN  The(FirstOf(
        <<FirstPolicy(c.policies, OfPolicy),
          IF "serverAuth" \notin c.ekus THEN {}
          ELSE IF c.poison THEN PersonPrecertProfile(c) ELSE PersonProfile(c),
          LeafIssuerProfile(c),
          LeafUsageProfile(c)>>))

-----------------------------------------------------------------------------
\* Variant: the basic constraints decide before the test for a root.
CertificateProfileCaFirst(c) ==
    IF c.ca THEN SubordinateCertificateProfile(c)
    ELSE IF IsRootCertificate(c) THEN RootCertificateProfile(c)
    ELSE LeafCertificateProfile(c)

CertificateProfile(c) ==
    IF IsRootCertificate(c) THEN RootCertificateProfile(c)
    ELSE IF c.ca THEN SubordinateCertificateProfile(c)
    ELSE LeafCertificateProfile(c)
=============================================================================
