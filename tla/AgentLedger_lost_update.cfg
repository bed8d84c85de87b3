SPECIFICATION Spec
CONSTANTS
    a1 = a1
    k1 = k1
    k2 = k2
    k3 = k3
    c1 = c1
    c2 = c2
    Agents = {a1}
    Keys = {k1, k2, k3}
    Clients = {c1, c2}
    Amounts = {1}
    Refs = {"withdrawal_request", "manual"}
    Isolation = "snapshot"
INVARIANT Reconciled
SYMMETRY Symmetry
