\* A customer and a seller, one order request and one PUT at a time, the clock.
CONSTANTS
    alice = alice
    shop = shop
    a = a
    b = b
    code = code
    None = None
    Workers = {w1}
    Users = {alice, shop}
    Products = {a}
    Promos = {code}
    OrderIds = {o1}
    Editors = {e1}
    Role <- MCRole
    Terms <- MCTerms
    Baskets <- MCBaskets
    Bodies <- AllBodies
    NewRows <- TwoEach
    MaxInt = 2
    RateLimit = 0
    MaxTime = 1
    OneAtATime = FALSE
SPECIFICATION Spec
INVARIANT DiscountJustified
PROPERTIES SoldAsListed OrdersAreAtomic
