SPECIFICATION Spec
CONSTANTS
    Orders = {o1, o2}
    Items <- MCItems
    Qty <- MCQty
    Price <- MCPrice
    MaxQty = 2
    Refunds = {0}
    Amounts = {2}
    Methods = {"CASH"}
    Vouchers = {v1}
    Value = 5
    Keys = {k1, k2}
    Sessions <- MCOneSession
    Txs = {t1, t2}
    Event = Event
    NoTx = NoTx
    NoVoucher = NoVoucher
    NoKey = NoKey
    Kinds = {"create", "add", "redeem", "cancelItem"}
    beer = beer
    food = food
SYMMETRY DeskSymmetry
INVARIANT VouchersConserved
PROPERTY NeverOverpays
CHECK_DEADLOCK FALSE
