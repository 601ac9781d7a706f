\* The times of the code in ticks of 100 ms; tokens that have expired, that
\* expire during the first attempt, during the second, and after the call.
CONSTANTS
    AttemptTimeout = 20
    Pause = 1
    Budgets = {30}
    Lifetimes = {0, 10, 25, 40}
SPECIFICATION Spec
PROPERTY ExpiryIsTold
