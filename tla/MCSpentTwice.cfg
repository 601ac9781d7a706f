\* Two requests at once, any statement of which may fail.
CONSTANTS
    None = None
    Requests = {r1, r2}
    Emails = {e}
    Passwords = {p}
    UserIds = {u1}
    Tokens = {t1, t2, t3}
    RefreshTTL = 1
    MaxTime = 0
SPECIFICATION Spec
INVARIANT SpentOnce
SYMMETRY Symmetric
