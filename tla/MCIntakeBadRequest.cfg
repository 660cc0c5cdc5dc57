SPECIFICATION Spec
CONSTANTS
    Requests <- FewRequests
    Findings <- MCFindings
    DefaultFormat = "json"
INVARIANT BadRequestGets400
CHECK_DEADLOCK FALSE
