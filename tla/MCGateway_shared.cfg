SPECIFICATION Spec
CONSTANTS
    w1 = w1
    w2 = w2
    d1 = d1
    d2 = d2
    a1 = a1
    a2 = a2
    a3 = a3
    eng = eng
    flat = flat
    s1 = s1
    NoDecision = NoDecision
    NoAttempt = NoAttempt
    Symbols = {s1}
    SymbolOf <- OneSymbol
    Workers = {w1, w2}
    Procs = {eng, flat}
    Engines = {eng}
    ProcOf <- TwoProcesses
    Decisions = {d2}
    Submits <- AllDecisions
    KindOf <- CancelOnly
    Raising = {}
    TTLOf <- Twos
    Attempts = {a1, a2}
    Retention = 0
    MaxTime = 3
    MaxRetries = 1
SYMMETRY RowSymmetry
INVARIANTS
    IInv
    AuthorisedOnce
    NoResend
    NonceEvidence
    ConfirmedIsReal
