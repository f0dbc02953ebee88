CONSTANTS
    Top = 88
    At <- MCAt
    Hot = 66
    Usr = 64
    StkAd = 84
    Image <- MCImage
    Org = 0
    Target = {40, 78, 87}
SPECIFICATION Spec
INVARIANTS TypeOK NumberNotExecuted FunctionInv
PROPERTIES CallsReturn FunctionsReturn
CHECK_DEADLOCK FALSE
