SPECIFICATION Spec
CONSTANTS
    OrderId = {o1}
    Key = {ka}
    FillId = {f1, f2}
    Quantity = {1, 2}
    NoId = NoId
    WriteOutcomes = {TRUE, FALSE}
    MaxVersion = 6
    MaxRestarts = 2
SYMMETRY Symmetry
INVARIANTS
    FileNeverAhead
