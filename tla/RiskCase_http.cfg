SPECIFICATION CaseSpec
CONSTANTS
    a1 = a1
    c1 = c1
    c2 = c2
    x1 = x1
    x2 = x2
    NoCase = NoCase
    Agents = {a1}
    Keys <- MCKeys
    Refs = {"risk_case", "commission_record"}
    Amounts = {1, 2}
    Cases = {c1, c2}
    Callers = {x1, x2}
    Openings <- MCOpenings
    Funds = 2
    Transport = "http"
    Crashes = TRUE
    MaxFaults = 1
    Asked = {"release", "confirm", "release-pending", "restore"}
SYMMETRY Symmetry
INVARIANTS CaseTypeOK NeverReleasedTwice ReleasedGaveBack ReviewAnnounced
