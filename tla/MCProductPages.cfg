\* One walk, pages of one product, three products, one PUT at a time.
CONSTANTS
    None = None
    shop = shop
    Workers = {}
    Users = {shop}
    Products = {a, b, c}
    Promos = {}
    OrderIds = {}
    Editors = {e1}
    Walkers = {w1}
    Filters <- AllAndActive
    Size = 1
    Role <- MCRole
    Terms <- NoTerms
    Baskets <- NoBaskets
    Bodies <- BackOnSale
    NewRows <- OneRow
    MaxInt = 1
    RateLimit = 0
    MaxTime = 1
    OneAtATime = FALSE
SPECIFICATION PagesSpec
SYMMETRY Symmetric
INVARIANTS WalkComplete TotalAgrees
