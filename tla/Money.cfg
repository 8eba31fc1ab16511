\* One payment, one dispute, two redemptions bought with the credits.
CONSTANTS
    Accounts = {a1}
    MaxCredits = 9
    Opening = 0
    Codes = {c1}
    Workers = {w1}
    Modes = {"test", "prod"}
    Products = {"p1"}
    Prices = {2}
    ListPrice <- Dearest
    Tax = 0
    Refunds = {}
    RefundUnit = 1
    EncKeys = {"k1"}
    Inputs <- MCInputs
    MaxSaves = 2
    MaxFaults = 0
    Requests = {q1, q2}
    Keys = {k1, k2}
    Rewards = {s1}
    RewardPrices = {1}
    Redeemed = {r1, r2}
    PoolSize = 2
    None = None
    NoRow = NoRow
    a1 = a1
    c1 = c1
    w1 = w1
    q1 = q1
    q2 = q2
    k1 = k1
    k2 = k2
    s1 = s1
    r1 = r1
    r2 = r2
SYMMETRY RequestsAlike
SPECIFICATION MoneySpec
INVARIANTS FreshIsSaved
PROPERTIES PromiseKept RedeemedOnce
CHECK_DEADLOCK FALSE
