\* Two creations of one user, overlapping.
CONSTANTS
    alice = alice
    root = root
    a = a
    b = b
    half = half
    flat = flat
    None = None
    Workers = {w1, w2}
    Users = {alice, root}
    Products = {a}
    Promos = {}
    OrderIds = {o1, o2}
    Editors = {}
    Role <- MCRole
    Terms <- MCTerms
    Baskets <- OneBasket
    Bodies = {}
    NewRows <- ShelfRows
    MaxInt = 2
    RateLimit = 1
    MaxTime = 0
    OneAtATime = FALSE
SPECIFICATION OrdersSpec
PROPERTY LimitsKept
