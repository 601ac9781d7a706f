\* Two requests at once, which may present the same token.
CONSTANTS
    None = None
    Requests = {r1, r2}
    Emails = {e}
    Passwords = {p, q}
    UserIds = {u1, u2}
    Tokens = {t1, t2, t3}
    RefreshTTL = 1
    MaxTime = 2
SPECIFICATION Spec
INVARIANTS TypeOK OneAccountPerEmail IssuedToOwner SpentIsGone
PROPERTY SessionsPassOn
SYMMETRY Symmetric
