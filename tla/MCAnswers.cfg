\* Two order requests at once, two products, one promo code.
CONSTANTS
    alice = alice
    root = root
    a = a
    b = b
    half = half
    flat = flat
    None = None
    Workers = {w1, w2}
    Users = {alice, root}
    Products = {a, b}
    Promos = {flat}
    OrderIds = {o1, o2}
    Editors = {}
    Role <- MCRole
    Terms <- MCTerms
    Baskets <- SmallBaskets
    Bodies = {}
    NewRows <- ShelfOrHidden
    MaxInt = 2
    RateLimit = 0
    MaxTime = 0
    OneAtATime = FALSE
SPECIFICATION AnsweredSpec
SYMMETRY Symmetric
INVARIANTS TypeOK PromoUsesExact PromoCap DiscountJustified DeadlocksOverProducts
PROPERTIES RefusalJustified UnitsConserved OrderLifecycle OrdersAreAtomic
