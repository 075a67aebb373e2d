\* Lookups and writes may fail.
CONSTANTS
    d1 = d1  d2 = d2  v1 = v1  r1 = r1  r2 = r2
    Delegators = {d1, d2}  Validators = {v1}  ReqIds = {r1, r2}
    MaxCalls = 2  DbMayFail = TRUE
SPECIFICATION SSpec
INVARIANT NoDuplicateRequest
\* Every request has been added MaxCalls times.
CHECK_DEADLOCK FALSE
