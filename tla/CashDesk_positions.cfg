SPECIFICATION Spec
CONSTANTS
    Orders = {o1}
    Items <- MCItems
    Qty <- MCQty
    Price <- MCPrice
    MaxQty = 2
    Refunds = {0, 3}
    Amounts = {1, 2}
    Methods = {"CASH", "CARD"}
    Vouchers = {}
    Value = 1
    Keys = {}
    Sessions <- MCSessions
    Txs = {t1, t2}
    Event = Event
    NoTx = NoTx
    NoVoucher = NoVoucher
    NoKey = NoKey
    Kinds = {"create", "quick", "add", "split", "cancel", "cancelItem"}
    beer = beer
    food = food
INVARIANT TypeOK
INVARIANT PaidMeansCovered
INVARIANT UnitsPaidOnce
PROPERTY NeverOverpays
PROPERTY QuickSalesOnOpenSession
CHECK_DEADLOCK FALSE
