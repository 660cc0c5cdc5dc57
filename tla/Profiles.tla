------------------------------ MODULE Profiles ------------------------------
(***************************************************************************)
(* The linting profiles, the lists that linter/profile.go derives from     *)
(* their names, and what the linters do for each profile: whether they are *)
(* applicable at all, what kind of object they parse and by which rules.   *)
(*                                                                         *)
(* A profile is its name, as the sequence of the words the code looks for: *)
(* tbr_leaf_tlsserver_ov is <<"tbr", "leaf", "tlsserver", "ov">>.  An ETSI *)
(* name is divided further, because the code looks for "person" and        *)
(* "nonbrowser" inside it: etsi_leaf_tlsserver_qncpwoveidas ends with      *)
(* "qncpw", "ov", "eidas".                                                 *)
(***************************************************************************)
EXTENDS Naturals, Sequences, SequencesExt

Precertificate(p) == Append(p, "precertificate")
WithPrecertificates(P) == P \cup {Precertificate(p) : p \in P}

EtsiWeb(words) == <<"etsi", "leaf", "tlsserver">> \o words

AUTODETECT == <<"autodetect">>

Rfc5280Profiles ==
    {<<"rfc5280", w>> : w \in {"root", "subordinate", "leaf", "crl", "arl"}}
    \cup {<<"rfc5280", "leaf", use>> : use \in
            {"tlsclient", "tlsserver", "smime", "codesigning", "timestamping",
             "documentsigning", "ocspsigning"}}

TbrProfiles ==
    {<<"tbr", "crl">>, <<"tbr", "arl">>, <<"tbr", "root", "tlsserver">>,
     <<"tbr", "subordinate", "tlsserver">>, <<"tbr", "subordinate", "precertsigning">>,
     <<"tbr", "leaf", "ocspsigning">>}
    \cup {<<"tbr", "cross", side>> \o rest :
            side \in {"internal", "external"}, rest \in {<<>>, <<"subscriberissuing">>}}
    \cup {<<"tbr", "subordinate", "tlsserver", side, names>> :
            side \in {"internal", "external"}, names \in {"unconstrained", "constrained"}}
    \cup WithPrecertificates({<<"tbr", "leaf", "tlsserver", v>> : v \in {"dv", "ov", "iv"}})

TevgProfiles ==
    {<<"tevg", "root", "tlsserver">>, <<"tevg", "subordinate", "tlsserver">>}
    \cup {<<"tevg", "subordinate", "tlsserver", "external", names>> :
            names \in {"unconstrained", "constrained"}}
    \cup WithPrecertificates({<<"tevg", "leaf", "tlsserver", "ev">>})

SbrProfiles ==
    {<<"sbr", "root", "smime">>, <<"sbr", "subordinate", "smime">>}
    \cup {<<"sbr", "leaf", "smime", v, generation>> :
            v \in {"mv", "ov", "sv", "iv"}, generation \in {"legacy", "multipurpose", "strict"}}

CsbrProfiles ==
    {<<"csbr", "leaf", "codesigning", "ov">>, <<"csbr", "leaf", "codesigning", "ev">>,
     <<"csbr", "leaf", "timestamping">>}
    \cup {<<"csbr", ca, use>> :
            ca \in {"root", "subordinate"}, use \in {"codesigning", "timestamping"}}

EtsiProfiles ==
    LET Qualified == {<<"qevcpw">>, <<"qncpw", "iv">>, <<"qncpw", "ov">>,
                      <<"qncpw", "gen", "naturalperson">>, <<"qncpw", "gen", "legalperson">>}
        Others == {<<"ncpw", "naturalperson">>, <<"ncpw", "legalperson">>,
                   <<"dvcp">>, <<"ivcp">>, <<"ovcp">>, <<"evcp">>,
                   <<"qevcpw", "psd2", "eidas">>, <<"qevcpw", "psd2", "eidas", "nonbrowser">>}
    IN  WithPrecertificates(
            {EtsiWeb(words) : words \in Others}
            \cup {EtsiWeb(Append(words, law)) : words \in Qualified, law \in {"eidas", "noneidas"}})
        \cup {<<"etsi", "leaf", "ncp", "naturalperson">>, <<"etsi", "leaf", "ncp", "legalperson">>}

BimiProfiles ==
    {<<"bimigroup", "root", "bimi">>, <<"bimigroup", "subordinate", "bimi">>}
    \cup WithPrecertificates({<<"bimigroup", "leaf", mark>> : mark \in {"commonmark", "verifiedmark"}})

AllProfiles ==
    {AUTODETECT, <<"rfc6960", "ocspresponse">>}
    \cup Rfc5280Profiles \cup TbrProfiles \cup TevgProfiles \cup SbrProfiles
    \cup CsbrProfiles \cup EtsiProfiles \cup BimiProfiles

-----------------------------------------------------------------------------
(* The lists that init() derives from the names, pass by pass.             *)

StartsWith(p, words) == IsPrefix(words, p)
EndsWith(p, word)    == Last(p) = word
ForPerson(p)         == Contains(p, "naturalperson") \/ Contains(p, "legalperson")
EtsiWebForSite(p)    == StartsWith(p, EtsiWeb(<<>>)) /\ ~ForPerson(p)
TbrOrTevg(p)         == StartsWith(p, <<"tbr">>) \/ StartsWith(p, <<"tevg">>)

CrlProfileIDs  == {p \in AllProfiles : EndsWith(p, "crl") \/ EndsWith(p, "arl")}
OcspProfileIDs == {p \in AllProfiles : EndsWith(p, "ocspresponse")}
RootProfileIDs == {p \in AllProfiles : Contains(p, "root")}

SubordinateProfileIDs ==
    {p \in AllProfiles : Contains(p, "subordinate") \/ Contains(p, "cross")}

SbrLeafProfileIDs == {p \in AllProfiles : StartsWith(p, <<"sbr", "leaf">>)}

TbrTevgLeafProfileIDs ==
    {p \in AllProfiles :
        \/ StartsWith(p, <<"tbr", "leaf">>)
        \/ StartsWith(p, <<"tevg", "leaf">>)
        \/ EtsiWebForSite(p)}

MarkCertificateProfileIDs ==
    {p \in AllProfiles : StartsWith(p, <<"bimigroup">>)}
        \ (RootProfileIDs \cup SubordinateProfileIDs)

NonCabforumProfileIDs ==
    {p \in AllProfiles :
        ~ \E family \in {"tbr", "tevg", "sbr", "csbr"} : StartsWith(p, <<family>>)}

\* The code tests this in the else branch of the test for NonCabforumProfileIDs.
TbrTevgCertificateProfileIDs ==
    {p \in AllProfiles \ NonCabforumProfileIDs : TbrOrTevg(p) \/ EtsiWebForSite(p)}
        \ (CrlProfileIDs \cup OcspProfileIDs)

EtsiCertificateProfileIDs == {p \in AllProfiles : StartsWith(p, <<"etsi">>)}

EtsiNonBrowserCertificateProfileIDs ==
    {p \in EtsiCertificateProfileIDs : Contains(p, "nonbrowser")}

PrecertificateProfileIDs == {p \in AllProfiles : EndsWith(p, "precertificate")}

\* Variant: the OCSP profiles are left out.
NonCertificateProfileIDsCrls == CrlProfileIDs

NonCertificateProfileIDs == CrlProfileIDs \cup OcspProfileIDs

NonTbrTevgCertificateProfileIDs == AllProfiles \ TbrTevgCertificateProfileIDs

-----------------------------------------------------------------------------
(* What the linters do for a profile.                                      *)

LinterNames ==
    {"badkeys", "certlint", "ctlint", "dwklint", "ftfy",
     "pkilint", "pwnedkeys", "rocacheck", "x509lint", "zlint"}

\* The profiles that a linter names as unsupported when it registers.
Unsupported(l) ==
    CASE l \in {"pkilint", "zlint"} -> {}
      [] l = "x509lint" -> NonTbrTevgCertificateProfileIDs
      [] OTHER -> NonCertificateProfileIDs

Applicable(l, p) == p \notin Unsupported(l)

\* pkilint's rule set, the first that matches.
PkilintRules(p) ==
    IF p \in EtsiCertificateProfileIDs THEN "etsi"
    ELSE IF p \in SbrLeafProfileIDs THEN "smime"
    ELSE IF p \in TbrTevgCertificateProfileIDs THEN "serverauth"
    ELSE IF p \in CrlProfileIDs THEN "crl"
    ELSE IF p \in OcspProfileIDs THEN "ocsp"
    ELSE "pkix"

\* The profiles for which pkilint is told the type of the certificate; for the
\* others it determines the type from the certificate itself.
PkilintDictionary ==
    EtsiProfiles
    \cup (TbrProfiles \ {<<"tbr", "crl">>, <<"tbr", "arl">>, <<"tbr", "subordinate", "tlsserver">>})
    \cup (TevgProfiles \ {<<"tevg", "root", "tlsserver">>, <<"tevg", "subordinate", "tlsserver">>})
    \cup (SbrProfiles \ {<<"sbr", "root", "smime">>, <<"sbr", "subordinate", "smime">>})

CertlintRules(p) == IF p \in TbrTevgCertificateProfileIDs THEN "cablint" ELSE "certlint"

CtlintCheck(p) ==
    IF p \in PrecertificateProfileIDs THEN "precertificate"
    ELSE IF p \in TbrTevgLeafProfileIDs THEN "serverauth"
    ELSE IF p \in MarkCertificateProfileIDs THEN "mark"
    ELSE "any"

X509lintCertType(p) ==
    IF p \in RootProfileIDs THEN "root"
    ELSE IF p \in SubordinateProfileIDs THEN "subordinate"
    ELSE "leaf"

\* Variant: the more general list is tested first.
ZlintRegistryGeneralFirst(p) ==
    IF p \in TbrTevgCertificateProfileIDs THEN "tlsSubordinate"
    ELSE IF p \in TbrTevgLeafProfileIDs THEN "tlsLeaf"
    ELSE IF p = <<"tbr", "arl">> THEN "tlsArl"
    ELSE IF p \in NonCabforumProfileIDs THEN "notCabforum"
    ELSE "default"

ZlintRegistry(p) ==
    IF p \in TbrTevgLeafProfileIDs THEN "tlsLeaf"
    ELSE IF p \in TbrTevgCertificateProfileIDs THEN "tlsSubordinate"
    ELSE IF p = <<"tbr", "arl">> THEN "tlsArl"
    ELSE IF p \in NonCabforumProfileIDs THEN "notCabforum"
    ELSE "default"

ZlintReads(p) ==
    IF p \in OcspProfileIDs THEN "ocsp" ELSE IF p \in CrlProfileIDs THEN "crl" ELSE "cert"

\* The kind of object that a linter parses when it is given profile p.
Reads(l, p) ==
    CASE l = "pkilint" -> IF PkilintRules(p) \in {"crl", "ocsp"} THEN PkilintRules(p) ELSE "cert"
      [] l = "zlint" -> ZlintReads(p)
      [] OTHER -> "cert"
=============================================================================
