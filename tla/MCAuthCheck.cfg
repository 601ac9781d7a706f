\* The times of the code in ticks of 100 ms; tokens that have expired, that
\* expire during the first attempt, during the second, and after the call;
\* and a context of 1 s, less than one attempt may take.
CONSTANTS
    AttemptTimeout = 20
    Pause = 1
    Budgets = {10, 30}
    Lifetimes = {0, 5, 10, 25, 40}
SPECIFICATION Spec
INVARIANTS TypeOK AnswerInTime SilenceIsUnavailable CounterTellsAnswer
