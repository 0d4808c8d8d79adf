SPECIFICATION FairSpec
CONSTANTS
    w1 = w1
    w2 = w2
    d1 = d1
    d2 = d2
    a1 = a1
    a2 = a2
    a3 = a3
    eng = eng
    flat = flat
    s1 = s1
    NoDecision = NoDecision
    NoAttempt = NoAttempt
    Symbols = {s1}
    SymbolOf <- OneSymbol
    Workers = {w1}
    Procs = {eng}
    Engines = {eng}
    ProcOf <- OneProcess
    Decisions = {d1, d2}
    Submits <- AllDecisions
    KindOf <- EntryAndAmend
    Raising = {d1, d2}
    TTLOf <- ShortAndLong
    Attempts = {a1, a2}
    Retention = 1
    MaxTime = 2
    MaxRetries = 1
PROPERTIES
    HoldsReturn
    DoubtSettles
