\* One payment, two refunds, a dispute, two webhooks at once.
CONSTANTS
    Accounts = {a1}
    MaxCredits = 9
    Opening = 0
    Codes = {c1}
    Workers = {w1, w2}
    Modes = {"test"}
    Products = {"p1"}
    Prices = {1, 2}
    ListPrice <- Dearest
    Tax = 1
    Refunds = {x1, x2}
    RefundUnit = 1
    Inputs <- OneSave
    MaxSaves = 1
    MaxFaults = 1
    EncKeys = {"k1"}
    None = None
    a1 = a1
    c1 = c1
    w1 = w1
    w2 = w2
    x1 = x1
    x2 = x2
SPECIFICATION PayFairSpec
INVARIANTS CreditedOnce ReversedAsRefunded
PROPERTIES ChargeIsCredited
CHECK_DEADLOCK FALSE
