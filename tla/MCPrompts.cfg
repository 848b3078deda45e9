SPECIFICATION MCSpec
CONSTANTS
    w1 = w1
    w2 = w2
    q1 = q1
    b1 = b1
    h1 = h1
    h2 = h2
    k1 = k1
    k3 = k3
    ed = ed
    rsa = rsa
    addr = addr
    None = None
    Owners = {w1, w2}
    Callers = {u1, u2}
    HostChecks = {h1, h2}
    BastionChecks = {b1}
    KeyboardChecks = {q1}
    OwnerOf <- MCOwnerOf
    EndpointOf <- MCEndpointOf
    Endpoints = {addr}
    Keys = {k1, k2, k3}
    Algorithms = {ed, rsa}
    AlgorithmOf <- MCAlgorithmOf
INVARIANTS
    TrustIsGiven
    CancelWakes
    NothingLeftBehind
PROPERTIES
    PinnedKeyStays
    ChecksEnd
CHECK_DEADLOCK FALSE
