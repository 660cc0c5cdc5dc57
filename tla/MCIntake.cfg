SPECIFICATION Spec
CONSTANTS
    Requests <- MCRequests
    Findings <- MCFindings
    DefaultFormat = "json"
INVARIANTS
    TypeOK
    SameInputForAll
    LintersReadTheirKind
    CertTypeFits
    PrecertTwins
    TlsLintersAgree
    LintedOrTold
    ScriptsAnswer
    PkilintLints
CHECK_DEADLOCK FALSE
