SPECIFICATION Spec
CONSTANTS
    Requests <- FewRequests
    Findings <- MCFindings
    DefaultFormat = "json"
INVARIANT EtsiWebIsTbrTevg
CHECK_DEADLOCK FALSE
