--------------------------- MODULE SessionsProofs ---------------------------
(***************************************************************************)
(* user-service implements Sessions.                                       *)
(***************************************************************************)
EXTENDS UserServiceProofs

\* Only what was made can be spoilt, and only for an account.  A request about to
\* delete a token finds it in the table, and has it for itself, unless the token
\* was presented twice: of two requests with one token, one has yet to find it
\* and will not.
Handles ==
    /\ \A t \in Tokens : made[t] = Unmade => ~Spoilt(t)
    /\ \A t \in Tokens : made[t] # Unmade => users[made[t].user] # NoUser
    /\ \A r \in Requests : pc[r] \in {"purge", "delete"} =>
         req[r].token \in doubled \/ Live(req[r].token)
    /\ \A r, i \in Requests :
         /\ r # i /\ pc[r] # "idle" /\ pc[i] # "idle"
         /\ req[r].token = req[i].token /\ req[r].token \in Tokens \ doubled
         => ~Live(req[r].token) /\ "find" \in {pc[r], pc[i]}

Inv == IInv /\ Handles

Simulated == Abstract!Next \/ UNCHANGED Abstract!vars

OthersStay(r) == \A i \in Requests \ {r} : req'[i] = req[i] /\ pc'[i] = pc[i]

-----------------------------------------------------------------------------
(* The handles.                                                            *)

\* A request goes on with the token it came with.
LEMMA HandlesOnward ==
    ASSUME Inv, Grows, NEW r \in Requests, OthersStay(r),
           pc[r] # "idle", req'[r].token = req[r].token, doubled' = doubled,
           kept' \subseteq kept \cup {req[r].token},
           \A t \in Tokens : made[t] = Unmade /\ made'[t] # Unmade => users'[made'[t].user] # NoUser,
           \A t \in Tokens : t # req[r].token /\ Live(t) => Live(t)',
           pc[r] = "find" /\ pc'[r] \notin {"find", "idle"} => Live(req[r].token),
           pc'[r] \in {"purge", "delete"} => pc[r] = "find" /\ UNCHANGED tokens
    PROVE  Handles'
<1> DEFINE h == req[r].token
<1>1. TypeOK /\ Handles /\ (\A i \in Requests : Position(i))
  BY DEF Inv, IInv
<1>2. \A i \in Requests :
        /\ req[i].token \in Tokens \cup {None}
        /\ req[i].token # None => made[req[i].token] # Unmade
        /\ req'[i].token = req[i].token
  BY <1>1 DEF TypeOK, Asked, Position, OthersStay
<1>3. ASSUME NEW t \in Tokens, made'[t] = Unmade PROVE ~Spoilt(t)'
  <2>1. made[t] = Unmade /\ t # h
    BY <1>2, <1>3, ServiceAssumption DEF Grows
  <2> QED BY <1>1, <2>1 DEF Handles, Spoilt
<1>4. ASSUME NEW t \in Tokens, made'[t] # Unmade PROVE users'[made'[t].user] # NoUser
  <2>1. CASE made[t] # Unmade
    <3>1. made'[t] = made[t] /\ made[t].user \in UserIds /\ users[made[t].user] # NoUser
      BY <1>1, <2>1, RowsThere DEF Grows, Handles
    <3> QED BY <3>1 DEF Grows
  <2> QED BY <1>4, <2>1
<1>5. ASSUME NEW i \in Requests, pc'[i] \in {"purge", "delete"}
      PROVE  req'[i].token \in doubled' \/ Live(req[i].token)'
  <2>1. CASE i = r
    BY <1>2, <1>5, <2>1 DEF Live
  <2>2. CASE i # r
    <3>1. pc[i] \in {"purge", "delete"} /\ req[i].token \in Tokens
      BY <1>1, <1>5, <2>2 DEF OthersStay, Position
    <3>2. req[i].token \in doubled \/ Live(req[i].token)
      BY <1>1, <3>1 DEF Handles
    <3>3. req[i].token = h /\ req[i].token \notin doubled => ~Live(h)
      BY <1>1, <2>2, <3>1 DEF Handles
    <3> QED BY <1>2, <3>1, <3>2, <3>3 DEF Live
  <2> QED BY <2>1, <2>2
<1>6. ASSUME NEW i \in Requests, NEW k \in Requests, i # k, pc'[i] # "idle", pc'[k] # "idle",
             req'[i].token = req'[k].token, req'[i].token \in Tokens \ doubled'
      PROVE  ~Live(req[i].token)' /\ "find" \in {pc'[i], pc'[k]}
  <2>1. pc[i] # "idle" /\ pc[k] # "idle"
    BY <1>6 DEF OthersStay
  <2>2. ~Live(req[i].token) /\ "find" \in {pc[i], pc[k]}
    <3>1. Handles
      BY <1>1
    <3>2. req[i].token = req[k].token /\ req[i].token \in Tokens \ doubled
      BY <1>2, <1>6
    <3> QED BY <1>6, <2>1, <3>1, <3>2 DEF Handles
  <2> QED BY <1>2, <1>6, <2>1, <2>2 DEF Grows, Live, OthersStay
<1> QED BY <1>3, <1>4, <1>5, <1>6 DEF Handles, Live

\* Nothing but the positions of requests changes.
LEMMA HandlesQuiet ==
    ASSUME Inv, UNCHANGED <<table, past>>,
           \A i \in Requests : pc'[i] \in {pc[i], "idle"} /\ req'[i] = req[i]
    PROVE  Handles'
<1>1. Handles
  BY DEF Inv
<1>2. UNCHANGED <<users, tokens, made, doubled, kept>>
  BY DEF table, past
<1>3. /\ \A t \in Tokens : made'[t] = Unmade => ~Spoilt(t)'
      /\ \A t \in Tokens : made'[t] # Unmade => users'[made'[t].user] # NoUser
  BY <1>1, <1>2 DEF Handles, Spoilt
<1>4. ASSUME NEW i \in Requests, pc'[i] \in {"purge", "delete"}
      PROVE  req'[i].token \in doubled' \/ Live(req[i].token)'
  BY <1>1, <1>2, <1>4 DEF Handles, Live
<1>5. ASSUME NEW i \in Requests, NEW k \in Requests, i # k, pc'[i] # "idle", pc'[k] # "idle",
             req'[i].token = req'[k].token, req'[i].token \in Tokens \ doubled'
      PROVE  ~Live(req[i].token)' /\ "find" \in {pc'[i], pc'[k]}
  <2>1. pc'[i] = pc[i] /\ pc'[k] = pc[k] /\ req'[i] = req[i] /\ req'[k] = req[k]
    BY <1>5
  <2>2. ~Live(req[i].token) /\ "find" \in {pc[i], pc[k]}
    BY <1>1, <1>2, <1>5, <2>1 DEF Handles
  <2> QED BY <1>2, <2>1, <2>2 DEF Live
<1> QED BY <1>3, <1>4, <1>5 DEF Handles

\* A request comes with a token, or with none.
LEMMA HandlesBegin ==
    ASSUME Inv, NEW r \in Requests, NEW label, NEW q, Begin(r, label, q),
           label \in {"lookup", "find"}, q.token \in Tokens \cup {None},
           doubled \subseteq doubled', doubled' \subseteq doubled \cup {q.token},
           q.token \in Tokens =>
             /\ label = "find" /\ made[q.token] # Unmade
             /\ Live(q.token) /\ Presented(q.token) => q.token \in doubled'
    PROVE  Handles'
<1>1. Handles /\ TypeOK
  BY DEF Inv, IInv
<1>2. /\ UNCHANGED <<users, tokens, made, kept>>
      /\ OthersStay(r) /\ req'[r] = q /\ pc'[r] = label
  BY <1>1 DEF Begin, table, TypeOK, OthersStay
<1>3. /\ \A t \in Tokens : made'[t] = Unmade => ~Spoilt(t)'
      /\ \A t \in Tokens : made'[t] # Unmade => users'[made'[t].user] # NoUser
  BY <1>1, <1>2, ServiceAssumption DEF Handles, Spoilt
<1>4. ASSUME NEW i \in Requests, pc'[i] \in {"purge", "delete"}
      PROVE  req'[i].token \in doubled' \/ Live(req[i].token)'
  <2>1. i # r /\ pc'[i] = pc[i] /\ req'[i] = req[i]
    BY <1>2, <1>4 DEF OthersStay
  <2>2. req[i].token \in doubled \/ Live(req[i].token)
    BY <1>1, <1>4, <2>1 DEF Handles
  <2> QED BY <1>2, <2>1, <2>2 DEF Live
<1>5. ASSUME NEW i \in Requests, i # r, pc'[i] # "idle",
             req'[i].token = q.token, q.token \in Tokens \ doubled'
      PROVE  tokens'[q.token] = NoToken /\ label = "find"
  <2>1. pc[i] # "idle" /\ req[i].token = q.token
    BY <1>2, <1>5 DEF OthersStay
  <2>2. Presented(q.token)
    BY <2>1 DEF Presented
  <2>3. ~Live(q.token) /\ q.token # None /\ label = "find"
    BY <1>5, <2>2, ServiceAssumption
  <2> QED BY <1>2, <2>3 DEF Live
<1>6. ASSUME NEW i \in Requests, NEW k \in Requests, i # k, pc'[i] # "idle", pc'[k] # "idle",
             req'[i].token = req'[k].token, req'[i].token \in Tokens \ doubled'
      PROVE  ~Live(req[i].token)' /\ "find" \in {pc'[i], pc'[k]}
  <2>1. CASE i # r /\ k # r
    <3>1. pc'[i] = pc[i] /\ pc'[k] = pc[k] /\ req'[i] = req[i] /\ req'[k] = req[k]
      BY <1>2, <2>1 DEF OthersStay
    <3>2. ~Live(req[i].token) /\ "find" \in {pc[i], pc[k]}
      BY <1>1, <1>6, <3>1 DEF Handles
    <3> QED BY <1>2, <3>1, <3>2 DEF Live
  <2>2. CASE i = r
    BY <1>2, <1>5, <1>6, <2>2 DEF Live
  <2>3. CASE k = r
    BY <1>2, <1>5, <1>6, <2>3 DEF Live
  <2> QED BY <2>1, <2>2, <2>3
<1> QED BY <1>3, <1>4, <1>6 DEF Handles

-----------------------------------------------------------------------------
(* The steps of Sessions.                                                  *)

LEMMA StatusIs ==
    ASSUME NEW t
    PROVE  /\ made[t] = Unmade => TokenStatus(t) = "unused"
           /\ made[t] # Unmade /\ Spoilt(t) => TokenStatus(t) = "ended"
           /\ made[t] # Unmade /\ ~Spoilt(t) =>
                TokenStatus(t) = IF Live(t) THEN "live" ELSE IF Passing(t) THEN "passing" ELSE "ended"
           /\ made'[t] = Unmade => TokenStatus(t)' = "unused"
           /\ made'[t] # Unmade /\ Spoilt(t)' => TokenStatus(t)' = "ended"
           /\ made'[t] # Unmade /\ ~Spoilt(t)' =>
                TokenStatus(t)' = IF Live(t)' THEN "live" ELSE IF Passing(t)' THEN "passing" ELSE "ended"
  BY DEF TokenStatus

\* Who passes a token on, when only r moves.
LEMMA PassingIs ==
    ASSUME NEW r \in Requests, OthersStay(r), NEW t,
           (pc'[r] = "issue" /\ req'[r].token = t) <=> (pc[r] = "issue" /\ req[r].token = t)
    PROVE  Passing(t)' <=> Passing(t)
  BY DEF Passing, OthersStay

\* The status of a token of which nothing that counts changes.
LEMMA StatusKept ==
    ASSUME NEW t, made'[t] = made[t], Spoilt(t)' <=> Spoilt(t),
           ~Spoilt(t) => (Live(t)' <=> Live(t)) /\ (Live(t) \/ (Passing(t)' <=> Passing(t)))
    PROVE  TokenStatus(t)' = TokenStatus(t)
  BY StatusIs

\* Nothing about tokens changes but where r is, which is not at an end of a
\* renewal.
LEMMA StatusesKept ==
    ASSUME NEW r \in Requests, OthersStay(r), UNCHANGED <<tokens, past>>,
           \A t \in Tokens : (pc'[r] = "issue" /\ req'[r].token = t)
                                <=> (pc[r] = "issue" /\ req[r].token = t)
    PROVE  SessionStatus' = SessionStatus /\ SessionOrigin' = SessionOrigin
<1>1. UNCHANGED <<tokens, made, doubled, kept>>
  BY DEF past
<1>2. ASSUME NEW t \in Tokens PROVE TokenStatus(t)' = TokenStatus(t)
  <2>1. Passing(t)' <=> Passing(t)
    BY PassingIs
  <2> QED BY <1>1, <2>1, StatusKept DEF Spoilt, Live
<1>3. SessionStatus' = SessionStatus
  BY <1>2 DEF SessionStatus
<1>4. SessionOrigin' = SessionOrigin
  BY <1>1 DEF SessionOrigin, Spoilt
<1> QED BY <1>3, <1>4

\* A live token is taken away.
LEMMA TakeStep ==
    ASSUME NEW t \in Tokens, UNCHANGED users, SessionOrigin' = SessionOrigin,
           TokenStatus(t) = "live", TokenStatus(t)' \in {"passing", "ended"},
           \A s \in Tokens \ {t} : TokenStatus(s)' = TokenStatus(s)
    PROVE  Abstract!Next
<1>1. SessionStatus' = [SessionStatus EXCEPT ![t] = TokenStatus(t)']
  BY DEF SessionStatus
<1>2. SessionStatus[t] = "live"
  BY DEF SessionStatus
<1>3. Abstract!Take(t)
  BY <1>1, <1>2 DEF Abstract!Take
<1> QED BY <1>3 DEF Abstract!Next

\* A session ends in the middle of a renewal.
LEMMA DropStep ==
    ASSUME NEW t \in Tokens, UNCHANGED users, SessionOrigin' = SessionOrigin,
           TokenStatus(t) = "passing", TokenStatus(t)' = "ended",
           \A s \in Tokens \ {t} : TokenStatus(s)' = TokenStatus(s)
    PROVE  Abstract!Next
<1>1. SessionStatus' = [SessionStatus EXCEPT ![t] = "ended"]
  BY DEF SessionStatus
<1>2. SessionStatus[t] = "passing"
  BY DEF SessionStatus
<1>3. Abstract!Drop(t)
  BY <1>1, <1>2 DEF Abstract!Drop
<1> QED BY <1>3 DEF Abstract!Next

LEMMA StutterStep ==
    ASSUME UNCHANGED users, SessionOrigin' = SessionOrigin,
           \A s \in Tokens : TokenStatus(s)' = TokenStatus(s)
    PROVE  UNCHANGED Abstract!vars
  BY DEF Abstract!vars, SessionStatus

\* The origins stay when only tokens without a successor are spoilt.
LEMMA OriginKept ==
    ASSUME UNCHANGED made,
           \A t \in Tokens : made[t].from # None =>
             (made[t].from \in doubled' \cup kept' <=> made[t].from \in doubled \cup kept)
    PROVE  SessionOrigin' = SessionOrigin
  BY DEF SessionOrigin, Spoilt

-----------------------------------------------------------------------------
(* The steps of user-service.                                              *)

\* What every step rests on.
LEMMA Known ==
    ASSUME Inv, NEW r \in Requests
    PROVE  /\ TypeOK /\ Handles /\ Position(r) /\ Genuine /\ SpentIsGone
           /\ req[r].token \in Tokens \cup {None}
           /\ req[r].token # None => made[req[r].token] # Unmade
  BY DEF Inv, IInv, TypeOK, Asked, Position

\* A token in the table has no successor that counts, so taking it for spoilt
\* changes no origin.
LEMMA SpoilStep ==
    ASSUME Inv, NEW t \in Tokens, Live(t), ~Spoilt(t), UNCHANGED <<users, made>>,
           doubled' \cup kept' = doubled \cup kept \cup {t},
           \A s \in Tokens \ {t} : (Live(s)' <=> Live(s)) /\ (Passing(s)' <=> Passing(s))
    PROVE  Abstract!Next
<1>1. TypeOK /\ Genuine /\ SpentIsGone /\ Handles
  BY DEF Inv, IInv
<1>2. \A s \in Tokens : made[s].from # t
  BY <1>1 DEF SpentIsGone, Spoilt
<1>3. SessionOrigin' = SessionOrigin
  BY <1>2, OriginKept
<1>4. made[t] # Unmade
  <2>1. tokens[t].user \in UserIds
    BY <1>1, RowsThere
  <2> QED BY <1>1, <2>1, ServiceAssumption DEF Genuine, Unmade
<1>5. Spoilt(t)' /\ made'[t] # Unmade
  BY <1>4 DEF Spoilt
<1>6. TokenStatus(t) = "live" /\ TokenStatus(t)' = "ended"
  BY <1>4, <1>5, StatusIs
<1>7. ASSUME NEW s \in Tokens \ {t} PROVE TokenStatus(s)' = TokenStatus(s)
  <2>1. Spoilt(s)' <=> Spoilt(s)
    BY DEF Spoilt
  <2> QED BY <2>1, StatusKept
<1> QED BY <1>3, <1>6, <1>7, TakeStep

\* A request ends, or goes on elsewhere than to the end of a renewal, with no
\* change of the tokens.
LEMMA RestStep ==
    ASSUME Inv, NEW r \in Requests, OthersStay(r), UNCHANGED <<users, tokens, past>>,
           pc[r] # "issue", pc'[r] = "issue" => req'[r].token = None
    PROVE  Simulated
<1>1. SessionStatus' = SessionStatus /\ SessionOrigin' = SessionOrigin
  BY ServiceAssumption, StatusesKept
<1> QED BY <1>1 DEF Simulated, Abstract!vars

LEMMA ArrivalSimulated ==
    ASSUME Inv, NEW r \in Requests, Arrival(r)
    PROVE  Handles' /\ Simulated
<1>t. TypeOK
  BY DEF Inv, IInv
<1>1. ASSUME NEW label, NEW q, Begin(r, label, q)
      PROVE  /\ pc[r] # "issue" /\ pc'[r] = label /\ req'[r] = q /\ OthersStay(r)
             /\ UNCHANGED <<users, tokens, made, kept>>
  BY <1>t, <1>1 DEF Begin, table, TypeOK, OthersStay
<1>2. ASSUME NEW e \in Emails, NEW p \in Passwords, BeginRegister(r, e, p) \/ BeginLogin(r, e, p)
      PROVE  Handles' /\ Simulated
  <2>1. PICK q : Begin(r, "lookup", q) /\ q.token = None /\ UNCHANGED doubled
    BY <1>2 DEF BeginRegister, BeginLogin, NoReq
  <2>2. Handles'
    BY <2>1, HandlesBegin, ServiceAssumption
  <2>3. Simulated
    BY <1>1, <2>1, RestStep DEF past
  <2> QED BY <2>2, <2>3
<1>3. ASSUME NEW t \in held \cup {None}, BeginRefresh(r, t)
      PROVE  Handles' /\ Simulated
  <2>1. PICK q : /\ Begin(r, "find", q) /\ q.token = t
                 /\ doubled' = IF Live(t) /\ Presented(t) THEN doubled \cup {t} ELSE doubled
    BY <1>3 DEF BeginRefresh, NoReq
  <2>2. t \in Tokens \cup {None} /\ (t # None => made[t] # Unmade)
    BY <1>t DEF Inv, IInv, TypeOK, Genuine
  <2>3. /\ doubled \subseteq doubled' /\ doubled' \subseteq doubled \cup {q.token}
        /\ Live(q.token) /\ Presented(q.token) => q.token \in doubled'
    BY <2>1
  <2>4. Handles'
    BY <2>1, <2>2, <2>3, HandlesBegin, ServiceAssumption
  <2>5. /\ pc[r] # "issue" /\ pc'[r] = "find" /\ OthersStay(r)
        /\ UNCHANGED <<users, tokens, made, kept>>
    BY <1>1, <2>1
  <2>6. CASE doubled' = doubled
    BY <2>4, <2>5, <2>6, RestStep DEF past
  <2>7. CASE doubled' # doubled
    <3>1. Live(t) /\ t \in Tokens /\ doubled' = doubled \cup {t}
      BY <2>1, <2>2, <2>7 DEF Live
    <3>2. \A s \in Tokens : (Live(s)' <=> Live(s)) /\ (Passing(s)' <=> Passing(s))
      BY <2>5, PassingIs DEF Live
    <3>3. CASE ~Spoilt(t)
      BY <2>4, <2>5, <3>1, <3>2, <3>3, SpoilStep DEF Simulated
    <3>4. CASE Spoilt(t)
      <4>1. doubled' \cup kept' = doubled \cup kept
        BY <2>5, <3>1, <3>4 DEF Spoilt
      <4>2. SessionOrigin' = SessionOrigin
        BY <2>5, <4>1, OriginKept
      <4>3. \A s \in Tokens : Spoilt(s)' <=> Spoilt(s)
        BY <4>1 DEF Spoilt
      <4>4. \A s \in Tokens : TokenStatus(s)' = TokenStatus(s)
        BY <2>5, <3>2, <4>3, StatusKept
      <4> QED BY <2>4, <2>5, <4>2, <4>4, StutterStep DEF Simulated
    <3> QED BY <3>3, <3>4
  <2> QED BY <2>4, <2>6, <2>7
<1> QED BY <1>2, <1>3 DEF Arrival

\* An account is opened.
LEMMA OpenStep ==
    ASSUME Inv, NEW r \in Requests, NEW u \in UserIds, OthersStay(r), pc[r] = "insert",
           Unique(req[r].email), AddUser(r, u), UNCHANGED <<tokens, past>>,
           pc'[r] = "issue" => req'[r].token = None
    PROVE  Simulated
<1>1. req[r].email \in Emails /\ req[r].password \in Passwords
  BY DEF Inv, IInv, Position
<1>2. SessionStatus' = SessionStatus /\ SessionOrigin' = SessionOrigin
  BY ServiceAssumption, StatusesKept
<1>3. Abstract!Open(u, req[r].email, req[r].password)
  BY <1>2 DEF Abstract!Open, AddUser, Unique, EmailUsed, NoUser
<1> QED BY <1>1, <1>3 DEF Simulated, Abstract!Next

\* A request that found its token takes it out of the table.
LEMMA DeleteSimulated ==
    ASSUME Inv, NEW r \in Requests, OthersStay(r), pc[r] \in {"purge", "delete"},
           DeleteToken(req[r].token), UNCHANGED <<users, past>>, req'[r] = req[r]
    PROVE  Simulated
<1> DEFINE t == req[r].token
<1>1. TypeOK /\ Handles /\ t \in Tokens /\ made[t] # Unmade
  <2>1. TypeOK /\ Handles /\ Position(r)
    BY Known
  <2>2. t \in Tokens /\ t # None
    BY <2>1, ServiceAssumption DEF Position
  <2> QED BY <2>1, <2>2 DEF Position
<1>2. /\ ~Live(t)' /\ UNCHANGED <<made, doubled, kept>>
      /\ \A s \in Tokens \ {t} : Live(s)' <=> Live(s)
  BY <1>1 DEF DeleteToken, Live, TypeOK, past
<1>3. SessionOrigin' = SessionOrigin
  BY <1>2, OriginKept
<1>4. \A s \in Tokens : Spoilt(s)' <=> Spoilt(s)
  BY <1>2 DEF Spoilt
<1>5. ASSUME NEW s \in Tokens \ {t} PROVE TokenStatus(s)' = TokenStatus(s)
  <2>1. Passing(s)' <=> Passing(s)
    BY <1>5, PassingIs
  <2> QED BY <1>2, <1>4, <2>1, StatusKept
<1>6. CASE Spoilt(t)
  <2>1. TokenStatus(t)' = TokenStatus(t)
    BY <1>1, <1>2, <1>4, <1>6, StatusKept
  <2> QED BY <1>3, <1>5, <2>1, StutterStep DEF Simulated
<1>7. CASE ~Spoilt(t)
  <2>1. Live(t)
    BY <1>1, <1>7 DEF Handles, Spoilt
  <2>2. TokenStatus(t) = "live" /\ TokenStatus(t)' \in {"passing", "ended"}
    <3>1. TokenStatus(t) = "live"
      BY <1>1, <1>7, <2>1, StatusIs
    <3>2. ~Spoilt(t)' /\ made'[t] # Unmade
      BY <1>1, <1>2, <1>4, <1>7
    <3>3. TokenStatus(t)' = IF Live(t)' THEN "live" ELSE IF Passing(t)' THEN "passing" ELSE "ended"
      BY <3>2, StatusIs
    <3> QED BY <1>2, <3>1, <3>3
  <2> QED BY <1>1, <1>3, <1>5, <2>2, TakeStep DEF Simulated
<1> QED BY <1>6, <1>7

\* A token that is being passed on, unspoilt, is with one request only.
LEMMA PassedByOne ==
    ASSUME Inv, NEW r \in Requests, OthersStay(r), pc[r] = "issue", pc'[r] = "idle",
           NEW t \in Tokens, req[r].token = t, ~Spoilt(t)
    PROVE  /\ made[t] # Unmade /\ made[t].user = req[r].user
           /\ TokenStatus(t) = "passing" /\ ~Passing(t)' /\ ~Live(t)
<1>1. /\ Handles /\ MayIssue(r) /\ made[t] # Unmade
  <2>1. Handles /\ Position(r)
    BY Known
  <2> QED BY <2>1, ServiceAssumption DEF Position
<1>2. ~Live(t) /\ made[t].user = req[r].user
  BY <1>1, ServiceAssumption DEF MayIssue, Spoilt
<1>3. Passing(t)
  BY DEF Passing
<1>4. TokenStatus(t) = "passing"
  BY <1>1, <1>2, <1>3, StatusIs
<1>5. ASSUME NEW i \in Requests, pc'[i] = "issue", req'[i].token = t
      PROVE  FALSE
  <2>1. i # r /\ pc[i] = "issue" /\ req[i].token = t
    BY <1>5 DEF OthersStay
  <2>2. t \in Tokens \ doubled
    BY DEF Spoilt
  <2> QED BY <1>1, <2>1, <2>2 DEF Handles
<1>6. ~Passing(t)'
  BY <1>5 DEF Passing
<1> QED BY <1>1, <1>2, <1>4, <1>6

\* A request that is to issue tokens ends without.
LEMMA EndSimulated ==
    ASSUME Inv, NEW r \in Requests, OthersStay(r), pc[r] = "issue", pc'[r] = "idle",
           UNCHANGED <<users, tokens, past>>
    PROVE  Simulated
<1> DEFINE s == req[r].token
<1>1. s \in Tokens \cup {None} /\ (s # None => made[s] # Unmade)
  BY Known
<1>2. SessionOrigin' = SessionOrigin
  BY DEF SessionOrigin, Spoilt, past
<1>3. /\ UNCHANGED made
      /\ \A t \in Tokens : (Spoilt(t)' <=> Spoilt(t)) /\ (Live(t)' <=> Live(t))
  BY DEF Spoilt, Live, past
<1>4. ASSUME NEW t \in Tokens \ {s} PROVE TokenStatus(t)' = TokenStatus(t)
  <2>1. Passing(t)' <=> Passing(t)
    BY <1>4, PassingIs
  <2> QED BY <1>3, <2>1, StatusKept
<1>5. CASE s = None \/ Spoilt(s)
  <2>1. ASSUME NEW x \in Tokens, x = s PROVE TokenStatus(x)' = TokenStatus(x)
    BY <1>3, <1>5, <2>1, ServiceAssumption, StatusKept
  <2> QED BY <1>2, <1>4, <2>1, StutterStep DEF Simulated
<1>6. CASE s \in Tokens /\ ~Spoilt(s)
  <2>1. PICK t \in Tokens : t = s /\ ~Spoilt(t)
    BY <1>6
  <2>2. made[t] # Unmade /\ TokenStatus(t) = "passing" /\ ~Passing(t)' /\ ~Live(t)
    BY <2>1, PassedByOne
  <2>3. TokenStatus(t)' = "ended"
    BY <1>3, <2>1, <2>2, StatusIs
  <2> QED BY <1>2, <1>4, <2>1, <2>2, <2>3, DropStep DEF Simulated
<1> QED BY <1>1, <1>5, <1>6

\* A token is issued: by a sign-in, or in exchange for a spoilt token, or for one
\* that is being passed on.
LEMMA IssueSimulated ==
    ASSUME Inv, NEW r \in Requests, OthersStay(r), pc[r] = "issue", pc'[r] = "idle",
           NEW t \in Tokens, AddToken(r, t), UNCHANGED <<users, doubled, kept>>
    PROVE  Simulated
<1> DEFINE s == req[r].token
           u == req[r].user
<1>1. /\ TypeOK /\ Handles /\ Genuine /\ MayIssue(r) /\ u \in UserIds
      /\ s \in Tokens \cup {None} /\ (s # None => made[s] # Unmade)
  <2>1. Position(r)
    BY Known
  <2> QED BY <2>1, Known DEF Position
<1>2. /\ made[t] = Unmade /\ t # s
      /\ made' = [made EXCEPT ![t] = [user |-> u, from |-> s]]
      /\ tokens' = [tokens EXCEPT ![t] = [user |-> u, expires |-> now + RefreshTTL]]
  BY <1>1, ServiceAssumption DEF AddToken
<1>3. /\ made'[t] = [user |-> u, from |-> s] /\ made'[t] # Unmade /\ Live(t)'
      /\ \A x \in Tokens \ {t} : made'[x] = made[x] /\ (Live(x)' <=> Live(x))
      /\ \A x \in Tokens : Spoilt(x)' <=> Spoilt(x)
  BY <1>1, <1>2, ServiceAssumption DEF TypeOK, Live, Unmade, NoToken, Spoilt
<1>4. TokenStatus(t) = "unused" /\ TokenStatus(t)' = "live"
  <2>1. ~Spoilt(t)
    BY <1>1, <1>2 DEF Handles
  <2> QED BY <1>2, <1>3, <2>1, StatusIs
<1>5. ASSUME NEW x \in Tokens \ {s, t} PROVE TokenStatus(x)' = TokenStatus(x)
  <2>1. Passing(x)' <=> Passing(x)
    BY <1>5, PassingIs
  <2> QED BY <1>3, <2>1, StatusKept
<1>6. users[u].email # None
  <2>1. CASE s = None
    <3>1. users[u].email = req[r].email /\ req[r].email \in Emails
      <4>1. Position(r)
        BY Known
      <4>2. /\ req[r].kind \in {"register", "login"}
            /\ users[u] = [email |-> req[r].email, password |-> req[r].password]
        BY <1>1, <2>1, ServiceAssumption DEF MayIssue
      <4> QED BY <4>1, <4>2 DEF Position
    <3> QED BY <3>1, ServiceAssumption
  <2>2. CASE s # None
    <3>1. users[u] # NoUser
      BY <1>1, <2>2, ServiceAssumption DEF MayIssue, Handles
    <3> QED BY <1>1, <3>1, ServiceAssumption DEF TypeOK
  <2> QED BY <2>1, <2>2
<1>7. \A x \in Tokens \ {t} : SessionOrigin'[x] = SessionOrigin[x]
  BY <1>3 DEF SessionOrigin, Spoilt
<1>8. CASE s = None \/ Spoilt(s)
  <2>1. SessionOrigin'[t] = [user |-> u, from |-> None]
    BY <1>3, <1>8 DEF SessionOrigin, Spoilt
  <2>2. SessionOrigin' = [SessionOrigin EXCEPT ![t] = [user |-> u, from |-> None]]
    BY <1>7, <2>1 DEF SessionOrigin
  <2>3. \A x \in Tokens \ {t} : TokenStatus(x)' = TokenStatus(x)
    <3>1. ASSUME NEW x \in Tokens, x = s PROVE TokenStatus(x)' = TokenStatus(x)
      BY <1>2, <1>3, <1>8, <3>1, ServiceAssumption, StatusKept
    <3> QED BY <1>5, <3>1
  <2>4. SessionStatus' = [SessionStatus EXCEPT ![t] = "live"] /\ SessionStatus[t] = "unused"
    BY <1>4, <2>3 DEF SessionStatus
  <2>5. Abstract!SignIn(t, u)
    BY <1>6, <2>2, <2>4 DEF Abstract!SignIn, Abstract!Make
  <2> QED BY <1>1, <2>5 DEF Simulated, Abstract!Next
<1>9. CASE s \in Tokens /\ ~Spoilt(s)
  <2>1. PICK y \in Tokens : y = s /\ ~Spoilt(y)
    BY <1>9
  <2>2. /\ made[y] # Unmade /\ made[y].user = u
        /\ TokenStatus(y) = "passing" /\ ~Passing(y)' /\ ~Live(y)
    BY <2>1, PassedByOne
  <2>3. TokenStatus(y)' = "ended"
    BY <1>2, <1>3, <2>1, <2>2, StatusIs
  <2>4. SessionOrigin'[t] = [user |-> u, from |-> y]
    BY <1>2, <1>3, <2>1 DEF SessionOrigin, Spoilt
  <2>5. SessionOrigin[y].user = u
    <3>1. made[y] \in [user : UserIds, from : Tokens \cup {None}]
      BY <1>1, <2>2 DEF TypeOK
    <3> QED BY <2>2, <3>1 DEF SessionOrigin
  <2>6. SessionOrigin' = [SessionOrigin EXCEPT ![t] = [user |-> SessionOrigin[y].user, from |-> y]]
    BY <1>7, <2>4, <2>5 DEF SessionOrigin
  <2>7. /\ SessionStatus[t] = "unused" /\ SessionStatus[y] = "passing"
        /\ SessionStatus' = [SessionStatus EXCEPT ![y] = "ended", ![t] = "live"]
    BY <1>2, <1>4, <1>5, <2>1, <2>2, <2>3 DEF SessionStatus
  <2>8. Abstract!PassOn(y, t)
    BY <2>6, <2>7 DEF Abstract!PassOn, Abstract!Make
  <2> QED BY <2>8 DEF Simulated, Abstract!Next
<1> QED BY <1>1, <1>8, <1>9

\* A request is refused before it is to issue tokens, or asks on.
LEMMA RefuseSimulated ==
    ASSUME Inv, NEW r \in Requests, NEW code, Refuse(r, code), UNCHANGED table, pc[r] # "issue"
    PROVE  Handles' /\ Simulated
<1>1. OthersStay(r) /\ pc'[r] = "idle" /\ UNCHANGED <<req, past>>
  BY Known DEF Refuse, Reply, TypeOK, OthersStay
<1>2. \A i \in Requests : pc'[i] \in {pc[i], "idle"} /\ req'[i] = req[i]
  BY <1>1 DEF OthersStay
<1>3. Handles'
  BY <1>1, <1>2, HandlesQuiet
<1>4. Simulated
  BY <1>1, RestStep DEF table
<1> QED BY <1>3, <1>4

LEMMA GotoSimulated ==
    ASSUME Inv, NEW r \in Requests, NEW label, Goto(r, label), UNCHANGED <<table, past>>,
           pc[r] \notin {"idle", "issue"}, req'[r].token = req[r].token, label # "idle",
           \A i \in Requests \ {r} : req'[i] = req[i],
           label = "issue" => req[r].token = None,
           pc[r] = "find" => Live(req[r].token),
           label \in {"purge", "delete"} => pc[r] = "find"
    PROVE  Handles' /\ Simulated
<1>1. /\ OthersStay(r) /\ pc'[r] = label
      /\ UNCHANGED <<users, tokens, made, doubled, kept>>
  BY Known DEF Goto, TypeOK, OthersStay, table, past
<1>2. Grows
  BY <1>1 DEF Grows, Live
<1>3. Handles'
  BY <1>1, <1>2, HandlesOnward DEF Live
<1>4. Simulated
  BY <1>1, RestStep
<1> QED BY <1>3, <1>4

\* The last step of a request that makes a token.
LEMMA IssuedSimulated ==
    ASSUME Inv, NEW r \in Requests, NEW t \in Tokens, NEW code, AddToken(r, t), pc[r] = "issue",
           Reply(r, code), held' \subseteq held \cup {t}, UNCHANGED <<users, req, doubled, kept>>
    PROVE  Handles' /\ Simulated
<1>1. /\ IInv /\ TypeOK /\ Position(r) /\ Genuine /\ Handles
      /\ OthersStay(r) /\ pc'[r] = "idle" /\ req'[r] = req[r]
  BY Known DEF Reply, TypeOK, OthersStay, Inv
<1>2. Grows
  BY <1>1, AddTokenStep
<1>3. \A x \in Tokens :
        /\ made[x] = Unmade /\ made'[x] # Unmade => x = t
        /\ Live(x) /\ x # t => Live(x)'
  BY <1>1 DEF AddToken, TypeOK, Live
<1>4. ~Live(t)
  <2>1. Live(t) => made[t].user \in UserIds
    BY <1>1, RowsThere DEF Genuine
  <2> QED BY <2>1, ServiceAssumption DEF AddToken, Unmade
<1>5. users'[made'[t].user] # NoUser
  <2>1. made'[t].user = req[r].user
    BY <1>1 DEF AddToken, TypeOK
  <2>2. MayIssue(r) /\ req[r].user \in UserIds
    BY <1>1 DEF Position
  <2>3. CASE req[r].kind = "refresh"
    <3>1. req[r].token \in Tokens /\ made[req[r].token].user = req[r].user
      BY <2>2, <2>3 DEF MayIssue
    <3>2. made[req[r].token] # Unmade
      BY <1>1, <3>1, ServiceAssumption DEF Position
    <3> QED BY <1>1, <2>1, <3>1, <3>2 DEF Handles
  <2>4. CASE req[r].kind # "refresh"
    <3>1. users[req[r].user].email = req[r].email /\ req[r].email \in Emails
      BY <1>1, <2>2, <2>4 DEF MayIssue, Position
    <3> QED BY <1>1, <2>1, <2>2, <3>1, RowsThere
  <2> QED BY <2>3, <2>4
<1>6. Handles'
  BY <1>1, <1>2, <1>3, <1>4, <1>5, HandlesOnward
<1>7. Simulated
  BY <1>1, IssueSimulated
<1> QED BY <1>6, <1>7

LEMMA StatementSimulated ==
    ASSUME Inv, NEW r \in Requests, Statement(r)
    PROVE  Handles' /\ Simulated
<1> DEFINE q == req[r]
<1>t. /\ IInv /\ TypeOK /\ Handles /\ Position(r) /\ Genuine
      /\ q.token \in Tokens \cup {None} /\ (q.token # None => made[q.token] # Unmade)
  BY Known DEF Inv
<1>1. CASE RegisterLookup(r)
  <2>1. pc[r] = "lookup" /\ UNCHANGED <<table, now>>
    BY <1>1 DEF RegisterLookup
  <2>2. CASE EmailUsed(q.email)
    BY <1>1, <2>1, <2>2, RefuseSimulated DEF RegisterLookup
  <2>3. CASE ~EmailUsed(q.email)
    <3>1. Goto(r, "insert") /\ UNCHANGED <<req, past>>
      BY <1>1, <2>3 DEF RegisterLookup
    <3> QED BY <2>1, <3>1, GotoSimulated
  <2> QED BY <2>2, <2>3
<1>2. CASE InsertUser(r)
  <2>1. PICK u \in UserIds : AddUser(r, u) /\ req' = [req EXCEPT ![r].user = u]
    BY <1>2 DEF InsertUser
  <2>2. pc[r] = "insert" /\ Unique(q.email) /\ Goto(r, "issue") /\ UNCHANGED <<tokens, past>>
    BY <1>2 DEF InsertUser
  <2>3. q.token = None
    BY <1>t, <2>2 DEF Position
  <2>4. /\ OthersStay(r) /\ pc'[r] = "issue" /\ req'[r].token = q.token
        /\ UNCHANGED <<made, doubled, kept, held>>
    BY <1>t, <2>1, <2>2 DEF Goto, TypeOK, OthersStay, past
  <2>5. Grows
    BY <1>t, <2>1, <2>2, <2>4, AddUserStep
  <2>6. Handles'
    BY <2>2, <2>4, <2>5, HandlesOnward DEF Live
  <2>7. Simulated
    BY <2>1, <2>2, <2>3, <2>4, OpenStep
  <2> QED BY <2>6, <2>7
<1>3. CASE LoginLookup(r)
  <2>1. pc[r] = "lookup" /\ q.kind = "login" /\ UNCHANGED <<table, now>>
    BY <1>3 DEF LoginLookup
  <2>2. CASE \A u \in UserIds : ~Matches(u, q)
    <3>1. Refuse(r, "INVALID_CREDENTIALS")
      BY <1>3, <2>2 DEF LoginLookup
    <3> QED BY <2>1, <3>1, RefuseSimulated
  <2>3. CASE \E u \in UserIds : Matches(u, q)
    <3>1. PICK u \in UserIds : /\ req' = [req EXCEPT ![r].user = u]
                               /\ Goto(r, "issue") /\ UNCHANGED past
      BY <1>3, <2>3 DEF LoginLookup
    <3>2. /\ req'[r].token = q.token /\ q.token = None
          /\ \A i \in Requests \ {r} : req'[i] = req[i]
      BY <1>t, <2>1, <3>1 DEF Position, TypeOK
    <3> QED BY <2>1, <3>1, <3>2, GotoSimulated
  <2> QED BY <2>2, <2>3
<1>4. CASE FindToken(r)
  <2> DEFINE t == q.token
  <2>1. pc[r] = "find" /\ UNCHANGED <<table, now>>
    BY <1>4 DEF FindToken
  <2>2. CASE ~Live(t)
    BY <1>4, <2>1, <2>2, RefuseSimulated DEF FindToken
  <2>3. CASE Live(t) /\ Expired(t)
    <3>1. Goto(r, "purge") /\ UNCHANGED <<req, past>>
      BY <1>4, <2>3 DEF FindToken
    <3> QED BY <2>1, <2>3, <3>1, GotoSimulated
  <2>4. CASE Live(t) /\ ~Expired(t)
    <3>1. /\ req' = [req EXCEPT ![r].user = tokens[t].user]
          /\ Goto(r, "delete") /\ UNCHANGED past
      BY <1>4, <2>4 DEF FindToken
    <3>2. req'[r].token = t /\ \A i \in Requests \ {r} : req'[i] = req[i]
      BY <1>t, <3>1 DEF TypeOK
    <3> QED BY <2>1, <2>4, <3>1, <3>2, GotoSimulated
  <2> QED BY <2>2, <2>3, <2>4
<1>5. CASE PurgeExpired(r)
  <2>1. /\ pc[r] = "purge" /\ Refuse(r, "TOKEN_EXPIRED") /\ UNCHANGED <<users, now>>
        /\ DeleteToken(q.token) \/ UNCHANGED tokens
    BY <1>5 DEF PurgeExpired
  <2>2. CASE UNCHANGED tokens
    BY <2>1, <2>2, RefuseSimulated DEF table
  <2>3. CASE DeleteToken(q.token)
    <3>1. /\ OthersStay(r) /\ pc'[r] = "idle" /\ req'[r] = q
          /\ UNCHANGED <<past, made, doubled, kept, held>>
      BY <1>t, <2>1 DEF Refuse, Reply, TypeOK, OthersStay, past
    <3>2. q.token \in Tokens
      BY <1>t, <2>1 DEF Position
    <3>3. Grows
      BY <1>t, <2>1, <3>1, <3>2, DeleteStep
    <3>4. \A s \in Tokens : s # q.token /\ Live(s) => Live(s)'
      BY <1>t, <2>3 DEF DeleteToken, Live, TypeOK
    <3>5. Handles'
      BY <2>1, <3>1, <3>3, <3>4, HandlesOnward
    <3> QED BY <2>1, <2>3, <3>1, <3>5, DeleteSimulated
  <2> QED BY <2>1, <2>2, <2>3
<1>6. CASE DeleteOld(r)
  <2>1. /\ pc[r] = "delete" /\ DeleteToken(q.token) /\ Goto(r, "issue")
        /\ UNCHANGED <<users, now, req, past>>
    BY <1>6 DEF DeleteOld
  <2>2. /\ OthersStay(r) /\ pc'[r] = "issue" /\ req'[r] = q
        /\ UNCHANGED <<made, doubled, kept, held>>
    BY <1>t, <2>1 DEF Goto, TypeOK, OthersStay, past
  <2>3. q.token \in Tokens
    BY <1>t, <2>1 DEF Position
  <2>4. Grows
    BY <1>t, <2>1, <2>2, <2>3, DeleteStep
  <2>5. \A s \in Tokens : s # q.token /\ Live(s) => Live(s)'
    BY <1>t, <2>1 DEF DeleteToken, Live, TypeOK
  <2>6. Handles'
    BY <2>1, <2>2, <2>4, <2>5, HandlesOnward
  <2> QED BY <2>1, <2>2, <2>6, DeleteSimulated
<1>7. CASE IssueTokens(r)
  <2>1. PICK t \in Tokens : AddToken(r, t) /\ held' = held \cup {t}
    BY <1>7 DEF IssueTokens
  <2>2. /\ pc[r] = "issue" /\ Reply(r, "OK") /\ UNCHANGED <<users, req, doubled, kept>>
    BY <1>7 DEF IssueTokens
  <2> QED BY <2>1, <2>2, IssuedSimulated
<1> QED BY <1>1, <1>2, <1>3, <1>4, <1>5, <1>6, <1>7 DEF Statement

LEMMA FailureSimulated ==
    ASSUME Inv, NEW r \in Requests, Failure(r)
    PROVE  Handles' /\ Simulated
<1> DEFINE q == req[r]
<1>t. /\ IInv /\ TypeOK /\ Handles /\ Position(r) /\ Genuine
      /\ q.token \in Tokens \cup {None} /\ (q.token # None => made[q.token] # Unmade)
  BY Known DEF Inv
<1>1. CASE RegisterLookupFails(r)
  <2>1. pc[r] = "lookup" /\ Goto(r, "insert") /\ UNCHANGED <<table, req, past>>
    BY <1>1 DEF RegisterLookupFails
  <2> QED BY <2>1, GotoSimulated
<1>2. CASE InsertUserFails(r)
  <2>1. /\ pc[r] = "insert" /\ Refuse(r, "INTERNAL_ERROR") /\ UNCHANGED tokens
    BY <1>2 DEF InsertUserFails
  <2>2. CASE UNCHANGED users
    BY <2>1, <2>2, RefuseSimulated DEF table
  <2>3. CASE Unique(q.email) /\ \E u \in UserIds : AddUser(r, u)
    <3>1. PICK u \in UserIds : AddUser(r, u)
      BY <2>3
    <3>2. /\ OthersStay(r) /\ pc'[r] = "idle" /\ req'[r] = q
          /\ UNCHANGED <<past, made, doubled, kept, held>>
      BY <1>t, <2>1 DEF Refuse, Reply, TypeOK, OthersStay, past
    <3>3. Grows
      BY <1>t, <2>1, <2>3, <3>1, <3>2, AddUserStep
    <3>4. Handles'
      BY <2>1, <3>2, <3>3, HandlesOnward DEF Live
    <3>5. Simulated
      BY <2>1, <2>3, <3>1, <3>2, OpenStep
    <3> QED BY <3>4, <3>5
  <2> QED BY <1>2, <2>2, <2>3 DEF InsertUserFails
<1>3. CASE LoginLookupFails(r)
  BY <1>3, RefuseSimulated DEF LoginLookupFails
<1>4. CASE FindTokenFails(r)
  BY <1>4, RefuseSimulated DEF FindTokenFails
<1>5. CASE DeleteOldFails(r)
  <2>1. /\ pc[r] = "delete" /\ Goto(r, "issue") /\ kept' = kept \cup {q.token}
        /\ UNCHANGED <<users, tokens, req, made, doubled>>
    BY <1>5 DEF DeleteOldFails, table
  <2>2. PICK t \in Tokens : t = q.token
    BY <1>t, <2>1 DEF Position
  <2>3. OthersStay(r) /\ pc'[r] = "issue" /\ req'[r] = q
    BY <1>t, <2>1 DEF Goto, TypeOK, OthersStay
  <2>4. Grows
    BY <2>1 DEF Grows, Live
  <2>5. Handles'
    BY <2>1, <2>3, <2>4, HandlesOnward DEF Live
  <2>6. /\ doubled' \cup kept' = doubled \cup kept \cup {t}
        /\ \A s \in Tokens \ {t} : (Live(s)' <=> Live(s)) /\ (Passing(s)' <=> Passing(s))
    BY <2>1, <2>2, <2>3, PassingIs DEF Live
  <2>7. CASE ~Spoilt(t)
    <3>1. Live(t)
      BY <1>t, <2>1, <2>2, <2>7 DEF Handles, Spoilt
    <3> QED BY <2>1, <2>5, <2>6, <2>7, <3>1, SpoilStep DEF Simulated
  <2>8. CASE Spoilt(t)
    <3>1. doubled' \cup kept' = doubled \cup kept
      BY <2>6, <2>8 DEF Spoilt
    <3>2. SessionOrigin' = SessionOrigin
      BY <2>1, <3>1, OriginKept
    <3>3. ASSUME NEW s \in Tokens PROVE TokenStatus(s)' = TokenStatus(s)
      <4>1. (Spoilt(s)' <=> Spoilt(s)) /\ (s # t \/ Spoilt(s))
        BY <2>8, <3>1 DEF Spoilt
      <4> QED BY <2>1, <2>6, <4>1, StatusKept
    <3> QED BY <2>1, <2>5, <3>2, <3>3, StutterStep DEF Simulated
  <2> QED BY <2>7, <2>8
<1>6. CASE IssueFails(r)
  <2>1. /\ pc[r] = "issue" /\ Reply(r, IssueError(q.kind))
        /\ UNCHANGED <<users, req, held, doubled, kept>>
    BY <1>6 DEF IssueFails
  <2>2. CASE \E t \in Tokens : AddToken(r, t)
    BY <2>1, <2>2, IssuedSimulated
  <2>3. CASE UNCHANGED <<tokens, made>>
    <3>1. /\ UNCHANGED <<table, past>> /\ OthersStay(r) /\ pc'[r] = "idle"
          /\ \A i \in Requests : pc'[i] \in {pc[i], "idle"} /\ req'[i] = req[i]
      BY <1>t, <2>1, <2>3 DEF Reply, TypeOK, OthersStay, table, past
    <3>2. Handles'
      BY <3>1, HandlesQuiet
    <3>3. Simulated
      BY <2>1, <2>3, <3>1, EndSimulated
    <3> QED BY <3>2, <3>3
  <2> QED BY <1>6, <2>2, <2>3 DEF IssueFails
<1>7. CASE Vanish(r)
  <2>1. Refuse(r, "none") /\ UNCHANGED table
    BY <1>7 DEF Vanish
  <2>2. CASE pc[r] # "issue"
    BY <2>1, <2>2, RefuseSimulated
  <2>3. CASE pc[r] = "issue"
    <3>1. /\ UNCHANGED <<users, tokens, past>> /\ OthersStay(r) /\ pc'[r] = "idle"
          /\ \A i \in Requests : pc'[i] \in {pc[i], "idle"} /\ req'[i] = req[i]
      BY <1>t, <2>1 DEF Refuse, Reply, TypeOK, OthersStay, table
    <3>2. Handles'
      BY <2>1, <3>1, HandlesQuiet
    <3> QED BY <2>3, <3>1, <3>2, EndSimulated
  <2> QED BY <2>2, <2>3
<1> QED BY <1>1, <1>2, <1>3, <1>4, <1>5, <1>6, <1>7 DEF Failure

LEMMA InitSimulated == Init => Handles /\ Abstract!Init
<1> SUFFICES ASSUME Init PROVE Handles /\ Abstract!Init
  OBVIOUS
<1>1. Handles
  BY DEF Init, Handles, Spoilt
<1>2. \A t \in Tokens : TokenStatus(t) = "unused"
  BY StatusIs DEF Init
<1>3. SessionOrigin = [t \in Tokens |-> [user |-> None, from |-> None]]
  BY DEF Init, SessionOrigin, Unmade
<1> QED BY <1>1, <1>2, <1>3 DEF Init, Abstract!Init, SessionStatus, NoUser

LEMMA NextSimulated == Inv /\ [Next]_vars => Inv' /\ [Abstract!Next]_(Abstract!vars)
<1> SUFFICES ASSUME Inv, [Next]_vars PROVE Inv' /\ Simulated
  BY DEF Simulated
<1>1. IInv'
  BY NextInvariant DEF Inv
<1>2. CASE \E r \in Requests : Arrival(r) \/ Statement(r) \/ Failure(r)
  BY <1>1, <1>2, ArrivalSimulated, StatementSimulated, FailureSimulated DEF Inv
<1>3. ASSUME UNCHANGED <<table, pc, req, past>> PROVE Handles' /\ Simulated
  <2>1. Handles'
    BY <1>3, HandlesQuiet
  <2>2. UNCHANGED <<users, tokens, made, doubled, kept>>
    BY <1>3 DEF table, past
  <2>3. SessionOrigin' = SessionOrigin
    BY <2>2 DEF SessionOrigin, Spoilt
  <2>4. ASSUME NEW t \in Tokens PROVE TokenStatus(t)' = TokenStatus(t)
    BY <1>3, <2>2, StatusKept DEF Spoilt, Live, Passing
  <2> QED BY <2>1, <2>2, <2>3, <2>4, StutterStep DEF Simulated
<1>4. CASE Tick
  BY <1>1, <1>3, <1>4 DEF Tick, Inv
<1>5. CASE UNCHANGED vars
  <2>1. UNCHANGED <<table, pc, req, past>>
    BY <1>5 DEF vars, table, past
  <2> QED BY <1>1, <1>3, <2>1 DEF Inv
<1> QED BY <1>2, <1>4, <1>5 DEF Next

\* A session lives on in one token at a time, of one user: every step of
\* user-service is a step of Sessions, or none.
THEOREM SessionsImplemented == Spec => SessionsPassOn
<1>1. Init => Inv /\ Abstract!Init
  BY InitInvariant, InitSimulated DEF Inv
<1>2. Inv /\ [Next]_vars => Inv' /\ [Abstract!Next]_(Abstract!vars)
  BY NextSimulated
<1> QED BY <1>1, <1>2, PTL DEF Spec, SessionsPassOn, Abstract!Spec
=============================================================================
