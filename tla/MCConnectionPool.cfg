\* Three requests, two connections, a PUT beside them.
CONSTANTS
    alice = alice
    root = root
    a = a
    b = b
    half = half
    flat = flat
    None = None
    Workers = {w1, w2, w3}
    Connections = 2
    Users = {root}
    Products = {a, b}
    Promos = {}
    OrderIds = {o1, o2}
    Editors = {e1}
    Role <- MCRole
    Terms <- MCTerms
    Baskets <- PairBasket
    Bodies <- StockBody
    NewRows <- OneRow
    MaxInt = 1
    RateLimit = 0
    MaxTime = 0
    OneAtATime = FALSE
SPECIFICATION PooledSpec
INVARIANT NoStandstill
PROPERTY EveryRequestEnds
