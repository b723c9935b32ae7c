SPECIFICATION Spec
CONSTANTS
    Orders = {o1, o2}
    Items <- OneItem
    Qty <- MCQty
    Price <- MCPrice
    MaxQty = 2
    Refunds = {0, 1}
    Amounts = {1}
    Methods = {"CASH"}
    Vouchers = {v1}
    Value = 3
    Keys = {k1, k2}
    Sessions <- MCOneSession
    Txs = {t1, t2}
    Event = Event
    NoTx = NoTx
    NoVoucher = NoVoucher
    NoKey = NoKey
    Kinds = {"create", "quick", "add", "split", "redeem", "cancel", "cancelItem"}
    beer = beer
    food = food
SYMMETRY DeskSymmetry
INVARIANT TypeOK
INVARIANT VouchersConserved
INVARIANT PaidMeansCovered
INVARIANT UnitsPaidOnce
PROPERTY NeverOverpays
CHECK_DEADLOCK FALSE
