-------------------------- MODULE AuthCheckProofs --------------------------
(***************************************************************************)
(* The token check, for all timeouts, pauses, budgets and lifetimes.       *)
(***************************************************************************)
EXTENDS AuthCheck, TLAPS

\* How late it can be: the first attempt began with the call, and the pause
\* and the second attempt follow an attempt that had its own timeout.
OnTime ==
    /\ elapsed <= budget
    /\ stage = "attempt" => waited <= AttemptTimeout /\ (attempt = 0 => elapsed = waited)
    /\ stage = "pause" => attempt = 0 /\ waited <= Pause /\ elapsed <= AttemptTimeout + waited

\* What has been counted while the call goes on: attempts without an answer, all
\* of them a client_error when no request can be built.
SoFar ==
    /\ counted["success"] \in Nat /\ counted["client_error"] \in Nat
    /\ stage # "answered" =>
         /\ token.kind # "missing"
         /\ counted["success"] = 0
         /\ counted["client_error"] = IF url = "malformed" THEN Attempts ELSE 0
         /\ Attempts = IF stage = "attempt" THEN attempt ELSE attempt + 1

IInv == TypeOK /\ OnTime /\ SoFar /\ CounterTellsAnswer

-----------------------------------------------------------------------------
LEMMA InitInvariant == Init => IInv
<1> SUFFICES ASSUME Init PROVE IInv
  OBVIOUS
<1>1. TypeOK
  <2>1. token \in Headers
    BY DEF Init, Headers
  <2>2. counted \in [Outcomes -> 0 .. MaxRetries + 1]
    BY DEF Init, NothingCounted, MaxRetries
  <2>3. reached \in BOOLEAN /\ answer \in Answers
    BY DEF Init, Answers
  <2>4. elapsed \in Nat /\ waited \in Nat /\ attempt \in 0 .. MaxRetries
    BY DEF Init, MaxRetries
  <2>5. /\ route \in {"required", "optional"} /\ stage \in {"attempt", "pause", "answered"}
        /\ budget \in Budgets /\ url \in {"well-formed", "malformed"}
    BY DEF Init
  <2> QED BY <2>1, <2>2, <2>3, <2>4, <2>5 DEF TypeOK
<1>2. OnTime
  BY TimesAssumption DEF Init, OnTime
<1>3. SoFar
  BY DEF Init, SoFar, NothingCounted, Outcomes
<1>4. CounterTellsAnswer
  BY DEF Init, CounterTellsAnswer
<1> QED BY <1>1, <1>2, <1>3, <1>4 DEF IInv

\* A new entry of the counter.
LEMMA OneMore ==
    ASSUME TypeOK, NEW o \in Outcomes, \A i \in Outcomes : counted[i] <= MaxRetries,
           counted' = [counted EXCEPT ![o] = @ + 1]
    PROVE  /\ counted' \in [Outcomes -> 0 .. MaxRetries + 1]
           /\ Attempts' = Attempts + 1
           /\ counted'["success"] = counted["success"] + (IF o = "success" THEN 1 ELSE 0)
           /\ counted'["client_error"] =
                counted["client_error"] + (IF o = "client_error" THEN 1 ELSE 0)
<1>1. counted \in [Outcomes -> 0 .. MaxRetries + 1]
  BY DEF TypeOK
<1>2. counted' \in [Outcomes -> 0 .. MaxRetries + 1]
  BY <1>1 DEF MaxRetries
<1>3. \A i \in Outcomes : counted'[i] = counted[i] + (IF o = i THEN 1 ELSE 0)
  BY <1>1
<1>4. \A i \in Outcomes : counted[i] \in Nat
  BY <1>1 DEF MaxRetries
<1>5. Attempts' = Attempts + 1
  <2>1. ASSUME NEW i \in Outcomes, o = i
        PROVE  \A k \in Outcomes : counted'[k] = counted[k] + (IF k = i THEN 1 ELSE 0)
    BY <1>3, <2>1
  <2> QED BY <1>4, <2>1 DEF Attempts, Outcomes
<1> QED BY <1>2, <1>3, <1>5 DEF Outcomes

\* The end of an attempt keeps the invariant when its outcome tells its error.
LEMMA EndsStep ==
    ASSUME IInv, reached' \in BOOLEAN, NEW o \in Outcomes, NEW err, Ends(o, err),
           o = "success" <=> err = "none",
           url = "malformed" => o = "client_error" /\ err = "BuildRequest",
           url = "well-formed" =>
             /\ o = "client_error" <=> err \in {"ErrTokenInvalid", "ErrTokenExpired"}
             /\ err \in {"none", "ErrTokenInvalid", "ErrTokenExpired", "ErrAuthUnavailable"}
    PROVE  IInv'
<1>1. stage = "attempt" /\ counted' = [counted EXCEPT ![o] = @ + 1]
  BY DEF Ends
<1>2. /\ counted \in [Outcomes -> 0 .. MaxRetries + 1] /\ attempt \in 0 .. MaxRetries
      /\ url \in {"well-formed", "malformed"}
  BY DEF IInv, TypeOK
<1>3. /\ Attempts = attempt /\ counted["success"] = 0
      /\ counted["client_error"] = IF url = "malformed" THEN attempt ELSE 0
  BY <1>1 DEF IInv, SoFar
<1>4. \A i \in Outcomes : counted[i] <= MaxRetries
  BY <1>2, <1>3 DEF Attempts, Outcomes, MaxRetries
<1>5. /\ counted' \in [Outcomes -> 0 .. MaxRetries + 1]
      /\ Attempts' = attempt + 1
      /\ counted'["success"] = IF o = "success" THEN 1 ELSE 0
      /\ counted'["client_error"] = IF url = "malformed" THEN attempt + 1
                                    ELSE IF o = "client_error" THEN 1 ELSE 0
  <2>1. TypeOK
    BY DEF IInv
  <2>2. /\ counted' \in [Outcomes -> 0 .. MaxRetries + 1]
        /\ Attempts' = Attempts + 1
        /\ counted'["success"] = counted["success"] + (IF o = "success" THEN 1 ELSE 0)
        /\ counted'["client_error"] =
             counted["client_error"] + (IF o = "client_error" THEN 1 ELSE 0)
    BY <1>1, <1>4, <2>1, OneMore
  <2> QED BY <1>2, <1>3, <2>2
<1>6. CASE IsFinal(err) \/ attempt = MaxRetries
  <2>1. /\ stage' = "answered" /\ answer' = AnswerTo(err, route)
        /\ UNCHANGED <<url, attempt, waited, route, token, budget, elapsed>>
    BY <1>6 DEF Ends, Return
  <2>2. /\ answer' \in Answers
        /\ answer' = "OK" <=> err = "none"
        /\ answer' = "AUTH_UNAVAILABLE" => err = "ErrAuthUnavailable"
    BY <1>2, <2>1 DEF AnswerTo, ErrorCode, Answers
  <2>3. TypeOK'
    BY <1>5, <2>1, <2>2 DEF IInv, TypeOK
  <2>4. OnTime'
    BY <2>1 DEF IInv, OnTime
  <2>5. SoFar'
    BY <1>5, <2>1 DEF SoFar
  <2>6. CounterTellsAnswer'
    BY <1>2, <1>5, <1>6, <2>1, <2>2 DEF CounterTellsAnswer, IsFinal, MaxRetries
  <2> QED BY <2>3, <2>4, <2>5, <2>6 DEF IInv
<1>7. CASE ~(IsFinal(err) \/ attempt = MaxRetries)
  <2>1. /\ stage' = "pause" /\ waited' = 0
        /\ UNCHANGED <<url, attempt, answer, route, token, budget, elapsed>>
    BY <1>7 DEF Ends
  <2>2. attempt = 0 /\ o # "success" /\ (url = "well-formed" => o # "client_error")
    BY <1>2, <1>7 DEF IsFinal, MaxRetries
  <2>3. TypeOK'
    BY <1>5, <2>1 DEF IInv, TypeOK
  <2>4. OnTime'
    BY <1>1, <2>1, <2>2, TimesAssumption DEF IInv, OnTime, TypeOK
  <2>5. SoFar'
    BY <1>1, <1>2, <1>5, <2>1, <2>2 DEF IInv, SoFar
  <2>6. CounterTellsAnswer'
    BY <2>1 DEF CounterTellsAnswer
  <2> QED BY <2>3, <2>4, <2>5, <2>6 DEF IInv
<1> QED BY <1>6, <1>7

\* A call begins.
LEMMA CallStep ==
    ASSUME IInv, NEW r \in {"required", "optional"}, NEW h \in Headers,
           NEW b \in Budgets, Call(r, h, b)
    PROVE  IInv'
<1>1. AnswerTo("ErrUnauthorized", r) \in Answers
  BY DEF AnswerTo, ErrorCode, Answers
<1>2. /\ counted' \in [Outcomes -> 0 .. MaxRetries + 1]
      /\ counted'["success"] = 0 /\ counted'["client_error"] = 0 /\ Attempts' = 0
  BY DEF Call, NothingCounted, Outcomes, Attempts, MaxRetries
<1>3. TypeOK'
  <2>1. /\ route' \in {"required", "optional"} /\ token' \in Headers /\ budget' \in Budgets
        /\ stage' \in {"attempt", "pause", "answered"} /\ url' \in {"well-formed", "malformed"}
    BY DEF Call, IInv, TypeOK
  <2>2. elapsed' \in Nat /\ waited' \in Nat /\ attempt' \in 0 .. MaxRetries
    BY DEF Call, MaxRetries
  <2>3. reached' \in BOOLEAN /\ answer' \in Answers
    BY <1>1 DEF Call, IInv, TypeOK
  <2> QED BY <1>2, <2>1, <2>2, <2>3 DEF TypeOK
<1>4. OnTime'
  BY TimesAssumption DEF Call, OnTime
<1>5. SoFar'
  BY <1>2 DEF Call, SoFar
<1>6. CounterTellsAnswer'
  BY DEF Call, CounterTellsAnswer
<1> QED BY <1>3, <1>4, <1>5, <1>6 DEF IInv

\* What can come back from an attempt.
LEMMA AttemptStep ==
    ASSUME IInv,
           NotBuilt \/ Answered \/ BodyLost \/ ServerError \/ OtherStatus \/ Unreachable \/ TimesOut
    PROVE  IInv'
<1>1. Verdict \in {"none", "ErrTokenInvalid", "ErrTokenExpired"}
  BY DEF Verdict
<1>2. reached' \in BOOLEAN
  BY DEF NotBuilt, Answered, BodyLost, ServerError, OtherStatus, Unreachable, TimesOut, IInv, TypeOK
<1>3. CASE Answered
  BY <1>1, <1>2, <1>3, EndsStep DEF Answered, Sent, Outcomes
<1>4. CASE BodyLost
  BY <1>2, <1>4, EndsStep DEF BodyLost, Sent, Outcomes
<1>5. CASE ServerError
  BY <1>2, <1>5, EndsStep DEF ServerError, Sent, Outcomes
<1>6. CASE OtherStatus
  BY <1>2, <1>6, EndsStep DEF OtherStatus, Sent, Outcomes
<1>7. CASE Unreachable
  BY <1>2, <1>7, EndsStep DEF Unreachable, Sent, Outcomes
<1>8. CASE TimesOut
  BY <1>2, <1>8, EndsStep DEF TimesOut, Sent, Outcomes
<1>9. CASE NotBuilt
  BY <1>2, <1>9, EndsStep DEF NotBuilt, Outcomes
<1> QED BY <1>3, <1>4, <1>5, <1>6, <1>7, <1>8, <1>9

\* The pause, and the passing of time.
LEMMA PauseEndsStep == ASSUME IInv, PauseEnds PROVE IInv'
<1>1. TypeOK'
  BY DEF PauseEnds, IInv, TypeOK, OnTime, MaxRetries
<1>2. OnTime'
  BY TimesAssumption DEF PauseEnds, IInv, TypeOK, OnTime
<1>3. SoFar'
  BY DEF PauseEnds, IInv, TypeOK, SoFar, OnTime, Attempts
<1>4. CounterTellsAnswer'
  BY DEF PauseEnds, CounterTellsAnswer
<1> QED BY <1>1, <1>2, <1>3, <1>4 DEF IInv

LEMMA BudgetEndsStep == ASSUME IInv, BudgetEnds PROVE IInv'
<1>1. /\ stage = "pause" /\ stage' = "answered"
      /\ UNCHANGED <<url, attempt, waited, route, token, budget, elapsed, counted, reached>>
  BY DEF BudgetEnds, Return
<1>2. answer' \in {"ANONYMOUS", "TOKEN_INVALID"}
  BY DEF BudgetEnds, Return, AnswerTo, ErrorCode
<1>3. TypeOK'
  BY <1>1, <1>2 DEF IInv, TypeOK, Answers
<1>4. OnTime'
  BY <1>1 DEF IInv, OnTime
<1>5. Attempts' = Attempts
  BY <1>1 DEF Attempts
<1>6. SoFar'
  BY <1>1 DEF IInv, SoFar
<1>7. CounterTellsAnswer'
  BY <1>1, <1>2, <1>5 DEF IInv, TypeOK, SoFar, OnTime, CounterTellsAnswer, MaxRetries
<1> QED BY <1>3, <1>4, <1>6, <1>7 DEF IInv

LEMMA TickStep == ASSUME IInv, Tick PROVE IInv'
<1>1. TypeOK'
  BY DEF Tick, IInv, TypeOK
<1>2. OnTime'
  BY TimesAssumption DEF Tick, IInv, TypeOK, OnTime, TimerDue, AttemptOver
<1>3. SoFar'
  BY DEF Tick, IInv, SoFar, Attempts
<1>4. CounterTellsAnswer'
  BY DEF Tick, CounterTellsAnswer
<1> QED BY <1>1, <1>2, <1>3, <1>4 DEF IInv

LEMMA NextInvariant == IInv /\ [Next]_vars => IInv'
<1> SUFFICES ASSUME IInv, [Next]_vars PROVE IInv'
  OBVIOUS
<1>1. CASE UNCHANGED vars
  BY <1>1 DEF vars, IInv, TypeOK, OnTime, SoFar, CounterTellsAnswer, Attempts
<1>2. CASE Next
  BY <1>2, CallStep, AttemptStep, PauseEndsStep, BudgetEndsStep, TickStep DEF Next
<1> QED BY <1>1, <1>2

-----------------------------------------------------------------------------
\* The invariant the other results rest on.
THEOREM CallInvariance == Spec => []IInv
  BY InitInvariant, NextInvariant, PTL DEF Spec

\* The types are right: in particular no call makes more than MaxRetries retries,
\* and no outcome is counted more often than there were attempts.
THEOREM TypeCorrect == Spec => []TypeOK
<1>1. IInv => TypeOK
  BY DEF IInv
<1> QED BY <1>1, CallInvariance, PTL

\* No call takes longer than its budget.
THEOREM CallEndsInTime == Spec => []AnswerInTime
<1>1. IInv => AnswerInTime
  BY DEF IInv, OnTime, AnswerInTime
<1> QED BY <1>1, CallInvariance, PTL

\* The counter of outcomes agrees with what the caller was told.
THEOREM CounterAgrees == Spec => []CounterTellsAnswer
<1>1. IInv => CounterTellsAnswer
  BY DEF IInv
<1> QED BY <1>1, CallInvariance, PTL

\* While user-service is silent nobody is let in; and when requests can be built
\* and the retry fits in the budget, the silence is reported as such, for every
\* choice of the times.
THEOREM SilenceTold == Spec => []SilenceIsUnavailable
<1>1. Init => SilenceIsUnavailable
  BY DEF Init, SilenceIsUnavailable
<1>2. IInv /\ SilenceIsUnavailable /\ [Next]_vars => SilenceIsUnavailable'
  <2> SUFFICES ASSUME IInv, SilenceIsUnavailable, [Next]_vars, stage' = "answered",
                      route' = "required", token'.kind # "missing", ~reached'
               PROVE  /\ answer' \in {"AUTH_UNAVAILABLE", "TOKEN_INVALID"}
                      /\ url' = "well-formed" /\ RetryFits' => answer' = "AUTH_UNAVAILABLE"
    BY DEF SilenceIsUnavailable
  <2>1. CASE UNCHANGED vars
    BY <2>1 DEF vars, SilenceIsUnavailable, RetryFits
  <2>2. ASSUME NEW r, NEW h, NEW b, Call(r, h, b) PROVE FALSE
    BY <2>2 DEF Call
  <2>3. CASE Answered \/ BodyLost \/ ServerError \/ OtherStatus
    BY <2>3 DEF Answered, BodyLost, ServerError, OtherStatus
  <2>4. CASE Unreachable \/ TimesOut
    BY <2>4 DEF Unreachable, TimesOut, Sent, Ends, Return, AnswerTo, ErrorCode
  <2>5. CASE NotBuilt
    BY <2>5 DEF NotBuilt, Ends, Return, AnswerTo, ErrorCode
  <2>6. CASE BudgetEnds
    <3>1. answer' = "TOKEN_INVALID"
      BY <2>6 DEF BudgetEnds, Return, AnswerTo, ErrorCode
    <3>2. ~RetryFits'
      BY <2>6, TimesAssumption DEF BudgetEnds, IInv, TypeOK, OnTime, RetryFits
    <3> QED BY <3>1, <3>2
  <2>7. CASE PauseEnds \/ Tick
    BY <2>7 DEF PauseEnds, Tick
  <2> QED BY <2>1, <2>2, <2>3, <2>4, <2>5, <2>6, <2>7 DEF Next
<1> QED BY <1>1, <1>2, CallInvariance, PTL DEF Spec
=============================================================================
