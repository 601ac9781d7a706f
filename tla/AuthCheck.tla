----------------------------- MODULE AuthCheck -----------------------------
(***************************************************************************)
(* Who is calling?  The auth middleware of marketplace-api asks            *)
(* user-service over HTTP (clients/userclient.go, VerifyAccessToken): at   *)
(* most two attempts with a pause between them, a timeout for each and a   *)
(* budget for all.  Calls share no state, so one at a time is modelled;    *)
(* time is counted from its beginning.                                     *)
(***************************************************************************)
EXTENDS Integers

CONSTANTS
    AttemptTimeout, \* http.Client.Timeout, 2 s
    Pause,          \* between two attempts, 100 ms
    Budgets,        \* of a whole call: 3 s, or what the caller's context leaves
    Lifetimes       \* when access tokens expire, counted from the call

MaxRetries == 1

ASSUME TimesAssumption ==
    /\ AttemptTimeout \in Nat \ {0} /\ Pause \in Nat \ {0} /\ Budgets \subseteq Nat \ {0}
    /\ Lifetimes \subseteq Nat

VARIABLES
    url,        \* USER_SERVICE_URL: whether a request can be built from it
    route,      \* whether the route requires a user: Auth or AuthOptional
    token,      \* the Authorization header
    budget,     \* of this call
    stage,      \* of the call
    attempt,    \* attempts before the present one
    elapsed,    \* ticks since the call began
    waited,     \* ticks since the attempt or the pause began
    counted,    \* auth_validate_calls_total, as far as this call added to it
    reached,    \* whether user-service has given any HTTP answer
    answer      \* what the middleware does with the request

vars == <<url, route, token, budget, stage, attempt, elapsed, waited, counted, reached, answer>>

Outcomes == {"success", "client_error", "server_error", "timeout", "unreachable"}
Answers == {"OK", "ANONYMOUS", "TOKEN_MISSING", "TOKEN_INVALID", "TOKEN_EXPIRED",
            "AUTH_UNAVAILABLE"}
Headers == [kind : {"jwt"}, exp : Lifetimes] \cup [kind : {"garbage", "missing"}, exp : {0}]

NothingCounted == [o \in Outcomes |-> 0]

\* authErrInfo: what the client is told of an error.
ErrorCode == [ErrTokenExpired    |-> "TOKEN_EXPIRED",
              ErrUnauthorized    |-> "TOKEN_MISSING",
              ErrAuthUnavailable |-> "AUTH_UNAVAILABLE",
              ErrTokenInvalid    |-> "TOKEN_INVALID",
              DeadlineExceeded   |-> "TOKEN_INVALID",
              BuildRequest       |-> "TOKEN_INVALID"]

\* Auth stops the request at any error; AuthOptional goes on without a user.
AnswerTo(err, r) == IF err = "none" THEN "OK"
                    ELSE IF r = "optional" THEN "ANONYMOUS"
                    ELSE ErrorCode[err]

Return(err) == /\ stage' = "answered"
               /\ answer' = AnswerTo(err, route)
               /\ UNCHANGED <<attempt, waited>>

\* The retry begins within the budget: true of the 3 s of VerifyAccessToken.
RetryFits == AttemptTimeout + Pause < budget

-----------------------------------------------------------------------------
(* user-service: POST /auth/validate.                                      *)

\* What the JWT library says: the reason is wrapped in the class of the error.
ParseError == IF token.kind # "jwt" THEN "token is malformed"
              ELSE IF elapsed >= token.exp THEN "token has invalid claims: token is expired"
              ELSE "none"

\* AuthUseCase.VerifyAccessToken compares the text.
Verdict == IF ParseError = "none" THEN "none"
           ELSE IF ParseError = "token is expired" THEN "ErrTokenExpired"
           ELSE "ErrTokenInvalid"

-----------------------------------------------------------------------------
(* The client.                                                             *)

\* The URL is read when the service starts, and nobody looks whether it parses.
Init == /\ url \in {"well-formed", "malformed"}
        /\ route = "required" /\ token = [kind |-> "missing", exp |-> 0]
        /\ budget \in Budgets
        /\ stage = "answered" /\ attempt = 0 /\ elapsed = 0 /\ waited = 0
        /\ counted = NothingCounted /\ reached = FALSE /\ answer = "TOKEN_MISSING"

\* A request arrives; without a bearer token the client is not asked.
Call(r, h, b) ==
    /\ stage = "answered"
    /\ route' = r /\ token' = h /\ budget' = b /\ UNCHANGED url
    /\ attempt' = 0 /\ elapsed' = 0 /\ waited' = 0
    /\ counted' = NothingCounted /\ reached' = FALSE
    /\ IF h.kind = "missing"
         THEN stage' = "answered" /\ answer' = AnswerTo("ErrUnauthorized", r)
         ELSE stage' = "attempt" /\ UNCHANGED answer

\* Every error is tried again.
FaultyIsFinal(err) == err = "none"

\* Answers about the token are final, as is success.
IsFinal(err) == err \in {"none", "ErrTokenInvalid", "ErrTokenExpired"}

\* The end of an attempt: count it, then return or pause.
Ends(outcome, err) ==
    /\ stage = "attempt"
    /\ counted' = [counted EXCEPT ![outcome] = @ + 1]
    /\ IF IsFinal(err) \/ attempt = MaxRetries
         THEN Return(err)
         ELSE stage' = "pause" /\ waited' = 0 /\ UNCHANGED <<attempt, answer>>
    /\ UNCHANGED <<url, route, token, budget, elapsed>>

\* doValidate.  No request can be built from the URL: an error of no kind the
\* client knows, so it is tried again.
NotBuilt == /\ url = "malformed"
            /\ Ends("client_error", "BuildRequest")
            /\ UNCHANGED reached

\* The request is sent, and ends in one of these ways.
Sent(outcome, err) == url = "well-formed" /\ Ends(outcome, err)

\* The verdict of user-service comes back, ...
Answered == /\ Sent(IF Verdict = "none" THEN "success" ELSE "client_error", Verdict)
            /\ reached' = TRUE

\* ... its status without a readable body, ...
BodyLost == /\ IF Verdict = "none" THEN Sent("server_error", "ErrAuthUnavailable")
                                   ELSE Sent("client_error", "ErrTokenInvalid")
            /\ reached' = TRUE

\* ... a status of 500 and more, or one that is no answer to the question, ...
ServerError == Sent("server_error", "ErrAuthUnavailable") /\ reached' = TRUE
OtherStatus == Sent("client_error", "ErrTokenInvalid") /\ reached' = TRUE

\* ... or nothing, at once or until the time is over.
Unreachable == Sent("unreachable", "ErrAuthUnavailable") /\ UNCHANGED reached

\* A request built without the context: only http.Client.Timeout ends it.
FaultyUnbudgeted == waited >= AttemptTimeout

\* A client without a timeout of its own: only the context ends it.
FaultyUntimed == elapsed >= budget

AttemptOver == waited >= AttemptTimeout \/ elapsed >= budget

TimesOut == /\ AttemptOver
            /\ Sent("timeout", "ErrAuthUnavailable")
            /\ UNCHANGED reached

\* A retry that is not counted as one.
FaultyPauseEnds == /\ stage = "pause" /\ waited >= Pause
                   /\ stage' = "attempt" /\ waited' = 0
                   /\ UNCHANGED <<url, route, token, budget, attempt, elapsed, counted, reached, answer>>

\* The select between two attempts; with both channels ready, either is taken.
PauseEnds == /\ stage = "pause" /\ waited >= Pause
             /\ stage' = "attempt" /\ attempt' = attempt + 1 /\ waited' = 0
             /\ UNCHANGED <<url, route, token, budget, elapsed, counted, reached, answer>>

BudgetEnds == /\ stage = "pause" /\ elapsed >= budget
              /\ Return("DeadlineExceeded")
              /\ UNCHANGED <<url, route, token, budget, elapsed, counted, reached>>

\* Timers fire on time: no tick while one is due.  Building a request takes none.
TimerDue == \/ stage = "attempt" /\ (AttemptOver \/ url = "malformed")
            \/ stage = "pause" /\ (waited >= Pause \/ elapsed >= budget)

Tick == /\ stage # "answered" /\ ~TimerDue
        /\ elapsed' = elapsed + 1 /\ waited' = waited + 1
        /\ UNCHANGED <<url, route, token, budget, stage, attempt, counted, reached, answer>>

Next == \/ \E r \in {"required", "optional"}, h \in Headers, b \in Budgets : Call(r, h, b)
        \/ NotBuilt \/ Answered \/ BodyLost \/ ServerError \/ OtherStatus \/ Unreachable
        \/ TimesOut \/ PauseEnds \/ BudgetEnds \/ Tick

Spec == Init /\ [][Next]_vars

-----------------------------------------------------------------------------

TypeOK == /\ url \in {"well-formed", "malformed"}
          /\ route \in {"required", "optional"}
          /\ token \in Headers
          /\ budget \in Budgets
          /\ stage \in {"attempt", "pause", "answered"}
          /\ attempt \in 0 .. MaxRetries
          /\ elapsed \in Nat /\ waited \in Nat
          /\ counted \in [Outcomes -> 0 .. MaxRetries + 1]
          /\ reached \in BOOLEAN
          /\ answer \in Answers

\* No request waits for its claims longer than the budget, whatever mix of
\* silence, errors and retries it meets.  (Both timeouts apply to an attempt.)
AnswerInTime == elapsed <= budget

\* While user-service does not answer, a route that requires a user lets nobody
\* in, and says so: it is not the token that is to blame (README.md, "503
\* AUTH_UNAVAILABLE").  The client has two errors of other kinds, which the
\* middleware turns into TOKEN_INVALID: for a budget that ends in the pause, which
\* RetryFits prevents, and for a URL that does not parse, which nothing prevents.
SilenceIsUnavailable ==
    stage = "answered" /\ route = "required" /\ token.kind # "missing" /\ ~reached =>
      /\ answer \in {"AUTH_UNAVAILABLE", "TOKEN_INVALID"}
      /\ url = "well-formed" /\ RetryFits => answer = "AUTH_UNAVAILABLE"

Attempts == counted["success"] + counted["client_error"] + counted["server_error"]
              + counted["timeout"] + counted["unreachable"]

\* The counter behind the SLI tells what happened: one entry an attempt, a
\* success for every request let in, and for every 503 all the attempts there
\* can be, none of which had an answer about the token.  client_error is the
\* last word of user-service, unless the URL does not parse: then every attempt
\* is one, though none was made.
CounterTellsAnswer ==
    stage = "answered" /\ token.kind # "missing" =>
      /\ Attempts \in 1 .. MaxRetries + 1
      /\ answer = "OK" <=> counted["success"] = 1
      /\ url = "well-formed" => counted["success"] + counted["client_error"] <= 1
      /\ url = "malformed" => counted["client_error"] = Attempts
      /\ answer = "AUTH_UNAVAILABLE" =>
           /\ Attempts = MaxRetries + 1
           /\ counted["success"] + counted["client_error"] = 0

\* A client whose token has expired is told so when user-service answers.
ExpiryIsTold ==
    [][ Answered /\ route = "required" /\ token.kind = "jwt" /\ elapsed >= token.exp
          => answer' = "TOKEN_EXPIRED" ]_vars
=============================================================================
