SPECIFICATION Spec
CONSTANTS
    Products <- MCProducts
    Orders = {o1, o2}
    Quantities = {1}
    Counts = {1}
    MaxVersion = 2
    Txs = {t1, t2}
    Keys = {k1}
    Event = Event
    NoTx = NoTx
    NoKey = NoKey
VIEW StockView
SYMMETRY StockSymmetry
INVARIANT LedgerExplainsStock
INVARIANT ReturnedOnce
INVARIANT NoWaitCycle
CHECK_DEADLOCK FALSE
