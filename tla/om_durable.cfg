SPECIFICATION TradesSpec
CONSTANTS
    OrderId = {o1, o2}
    Key = {ka, kb}
    FillId = {f1, f2}
    Quantity = {1, 2}
    NoId = NoId
    WriteOutcomes = {TRUE}
    MaxVersion = 5
    MaxRestarts = 1
SYMMETRY Symmetry
INVARIANTS
    TradesTypeOK
    TradesFollowOrders
    FillsMatchStatus
    DurableOnReturn
    FillsAddUp
PROPERTIES
    OneEventPerVersion
    ClosedIsFinal
    ImplementsLedger
    SettledTradeIsFinal
