\* Every user waits for an answer before the next order request; the clock runs,
\* and one order is being read.
CONSTANTS
    alice = alice
    root = root
    a = a
    b = b
    half = half
    flat = flat
    None = None
    Workers = {w1, w2}
    Readers = {r1}
    Users = {alice, root}
    Products = {a}
    Promos = {}
    OrderIds = {o1, o2}
    Editors = {}
    Role <- MCRole
    Terms <- MCTerms
    Baskets <- OneOrTwo
    Bodies = {}
    NewRows <- ShelfRows
    MaxInt = 2
    RateLimit = 1
    MaxTime = 1
    OneAtATime = TRUE
SPECIFICATION ClientsSpec
SYMMETRY Symmetric
INVARIANTS OneActiveOrder CanceledReadExact
PROPERTY OrderSpacing
