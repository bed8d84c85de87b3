SPECIFICATION Spec
CONSTANTS
    a1 = a1
    c1 = c1
    c2 = c2
    r1 = r1
    r2 = r2
    x1 = x1
    x2 = x2
    NoCase = NoCase
    Agents = {a1}
    Keys <- MCKeys
    Refs = {"withdrawal_request", "withdrawal_request_compensation", "risk_case", "commission_record"}
    Amounts = {1, 2}
    Requests = {r1}
    Callers = {x1}
    Cases = {}
    Transport = "local"
    Crashes = FALSE
    MaxFaults = 1
    Resubmits = FALSE
    Asked = {}
    Funds = 2
    Openings <- MCOpenings
    Submits <- MCSubmits
SYMMETRY Symmetry
CHECK_DEADLOCK FALSE
INVARIANT PaidIsDeducted
