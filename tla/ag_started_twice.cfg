SPECIFICATION ServicesSpec
CONSTANTS
    a1 = a1
    a2 = a2
    a3 = a3
    k1 = k1
    k2 = k2
    i1 = i1
    i2 = i2
    j1 = j1
    s1 = s1
    s2 = s2
    g1 = g1
    g2 = g2
    x1 = x1
    x2 = x2
    w1 = w1
    w2 = w2
    r1 = r1
    r2 = r2
    r3 = r3
    p1 = p1
    v1 = v1
    v2 = v2
    TradeRequest = {a1, a2, a3}
    IdempotencyKey = {k1, k2}
    CorrelationId = {i1, i2}
    RequestKey <- MCRequestKey
    RequestCorr <- MCRequestCorr
    NoRequest = NoRequest
    MaxPendingRequests = 1
    MaxDailyTrades = 2
    MaxListeners = 2
    MaxDoubled = 1
    MaxSignals = 2
    Signal = {s1, s2}
    Plan = {g1, g2}
    ProposalId = {x1, x2}
    ProposalOf <- MCProposalOf
    CorrelationOf <- MCCorrelationOf
    StepsOf <- MCStepsOf
    MaxRecursionDepth = 2
    Coworker = {w1, w2}
    BuiltIn = {w2}
    Run = {r1, r2, r3}
    NoRun = NoRun
    CoworkerOf <- MCCoworkerOf
    MaxIterations = 2
    MaxAgentSaves = 2
    MaxBoots = 1
    CodingSession = {t1}
    MaxDirect = 2
    MaxReloads = 2
    Plugins <- MCPlugins
    Services <- MCServiceOrder
    RuntimeAgent = {m1}
    Shutdown = {d1, d2}
    Provider = {openai, custom}
    Preset = {openai}
    BuiltInProvider = {openai}
    HealthRequest = {h1}
    MaxProviderRestarts = 1
CHECK_DEADLOCK FALSE
INVARIANT
    StartIsIdempotent
