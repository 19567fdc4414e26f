SPECIFICATION Spec
CONSTANTS
    OrderId = {o1}
    Key = {ka}
    FillId = {f1, f2}
    Quantity = {1, 2}
    NoId = NoId
    WriteOutcomes = {TRUE}
    MaxVersion = 5
    MaxRestarts = 1
INVARIANTS
    FillIdBookedOnce
