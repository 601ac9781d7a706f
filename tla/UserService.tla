---------------------------- MODULE UserService ----------------------------
(***************************************************************************)
(* user-service: POST /auth/register, /auth/login and /auth/refresh        *)
(* (usecases/auth.go over repository/user.go), one action for each         *)
(* statement.  There are no transactions: every statement commits by       *)
(* itself, and anything may happen between two of them.                    *)
(* Requests are those that pass the checks of the handlers on their form.  *)
(***************************************************************************)
EXTENDS Integers, FiniteSets

CONSTANTS
    Requests,       \* requests being served at once
    Emails, Passwords,
    UserIds,        \* ids the database can give to users
    Tokens,         \* refresh tokens the service can make
    None,           \* an absent value
    RefreshTTL,     \* lifetime of a refresh token, in ticks
    MaxTime         \* the clock stops here

ASSUME ServiceAssumption ==
    /\ None \notin Emails \cup Passwords \cup UserIds \cup Tokens
    /\ RefreshTTL \in Nat /\ MaxTime \in Nat

VARIABLES
    users,      \* table users
    tokens,     \* table refresh_tokens
    now,        \* the clock
    pc,         \* the statement each request is at
    req,        \* what each request asks, the user it has found, and, as history,
                \* whether the token it presents had expired on arrival
    answer,     \* the last answer to each
    held,       \* the tokens clients have received
    made,       \* history: each token ever made, for whom and in exchange for which
    doubled,    \* history: tokens presented again before the first use was over
    kept        \* history: tokens the database failed to delete when they were renewed

table == <<users, tokens>>
past == <<made, doubled, kept>>
vars == <<users, tokens, now, pc, req, answer, held, past>>

NoUser  == [email |-> None, password |-> None]
NoToken == [user |-> None, expires |-> 0]
Unmade  == [user |-> None, from |-> None]
NoReq   == [kind |-> "none", email |-> None, password |-> None, token |-> None, user |-> None,
            came |-> "in time"]

Codes == {"none", "OK", "EMAIL_TAKEN", "INTERNAL_ERROR", "INVALID_CREDENTIALS",
          "TOKEN_EXPIRED", "TOKEN_INVALID"}

EmailUsed(e) == \E u \in UserIds : users[u].email = e

Goto(r, label) == /\ pc' = [pc EXCEPT ![r] = label]
                  /\ UNCHANGED <<answer, held>>

Reply(r, code) == /\ pc' = [pc EXCEPT ![r] = "idle"]
                  /\ answer' = [answer EXCEPT ![r] = code]

Refuse(r, code) == Reply(r, code) /\ UNCHANGED <<held, req, past>>

-----------------------------------------------------------------------------
(* Requests arrive.                                                        *)

\* The bounds on users and tokens: every request being served could take one.
Left(free) == Cardinality({r \in Requests : pc[r] # "idle"}) < Cardinality(free)
TokensLeft == Left({t \in Tokens : made[t] = Unmade})
UsersLeft  == Left({u \in UserIds : users[u] = NoUser})

Begin(r, label, q) == /\ pc[r] = "idle"
                      /\ req' = [req EXCEPT ![r] = q]
                      /\ pc' = [pc EXCEPT ![r] = label]
                      /\ answer' = [answer EXCEPT ![r] = "none"]
                      /\ UNCHANGED <<table, now, held, made, kept>>

BeginRegister(r, e, p) ==
    /\ UsersLeft /\ TokensLeft
    /\ Begin(r, "lookup", [NoReq EXCEPT !.kind = "register", !.email = e, !.password = p])
    /\ UNCHANGED doubled

BeginLogin(r, e, p) ==
    /\ TokensLeft
    /\ Begin(r, "lookup", [NoReq EXCEPT !.kind = "login", !.email = e, !.password = p])
    /\ UNCHANGED doubled

\* GetByHash that takes an empty result for a token.
FaultyLive(t) == t # None

\* GetByHash finds the token.
Live(t) == t # None /\ tokens[t] # NoToken

\* A renewal that does not look at the time.
FaultyExpired(t) == FALSE

Expired(t) == now > tokens[t].expires

Presented(t) == \E r \in Requests : pc[r] # "idle" /\ req[r].token = t

\* None stands for a token the service never made.
BeginRefresh(r, t) ==
    /\ t # None => TokensLeft
    /\ Begin(r, "find", [NoReq EXCEPT !.kind = "refresh", !.token = t,
                                     !.came = IF Live(t) /\ now > tokens[t].expires
                                               THEN "late" ELSE "in time"])
    /\ doubled' = IF Live(t) /\ Presented(t) THEN doubled \cup {t} ELSE doubled

-----------------------------------------------------------------------------
(* Register and Login.                                                     *)

\* GetByEmail: any error lets the registration go on, not only "not found".
RegisterLookup(r) ==
    /\ pc[r] = "lookup" /\ req[r].kind = "register"
    /\ IF EmailUsed(req[r].email)
         THEN Refuse(r, "EMAIL_TAKEN")
         ELSE Goto(r, "insert") /\ UNCHANGED <<req, past>>
    /\ UNCHANGED <<table, now>>

RegisterLookupFails(r) ==
    /\ pc[r] = "lookup" /\ req[r].kind = "register"
    /\ Goto(r, "insert")
    /\ UNCHANGED <<table, now, req, past>>

AddUser(r, u) == /\ users[u] = NoUser
                 /\ users' = [users EXCEPT ![u] = [email |-> req[r].email,
                                                   password |-> req[r].password]]

\* A table without the constraint.
FaultyUnique(e) == TRUE

\* UNIQUE on users.email.
Unique(e) == ~EmailUsed(e)

InsertUser(r) ==
    /\ pc[r] = "insert"
    /\ Unique(req[r].email)
    /\ \E u \in UserIds : /\ AddUser(r, u)
                          /\ req' = [req EXCEPT ![r].user = u]
    /\ Goto(r, "issue")
    /\ UNCHANGED <<tokens, now, past>>

\* The constraint refuses, or the statement fails; it may have been executed.
InsertUserFails(r) ==
    /\ pc[r] = "insert"
    /\ Refuse(r, "INTERNAL_ERROR")
    /\ \/ UNCHANGED users
       \/ Unique(req[r].email) /\ \E u \in UserIds : AddUser(r, u)
    /\ UNCHANGED <<tokens, now>>

\* A login that trusts the email.
FaultyMatches(u, q) == users[u].email = q.email

\* GetByEmail and the comparison with the hash.
Matches(u, q) == users[u].email = q.email /\ users[u].password = q.password

LoginLookup(r) ==
    /\ pc[r] = "lookup" /\ req[r].kind = "login"
    /\ \/ \E u \in UserIds : /\ Matches(u, req[r])
                             /\ req' = [req EXCEPT ![r].user = u]
                             /\ Goto(r, "issue") /\ UNCHANGED past
       \/ /\ \A u \in UserIds : ~Matches(u, req[r])
          /\ Refuse(r, "INVALID_CREDENTIALS")
    /\ UNCHANGED <<table, now>>

LoginLookupFails(r) == /\ pc[r] = "lookup" /\ req[r].kind = "login"
                       /\ Refuse(r, "INVALID_CREDENTIALS")
                       /\ UNCHANGED <<table, now>>

-----------------------------------------------------------------------------
(* Refresh.                                                                *)

\* The token and the check of the time; GetByID, as a user never changes.
FindToken(r) ==
    LET t == req[r].token IN
    /\ pc[r] = "find"
    /\ IF ~Live(t)
         THEN Refuse(r, "TOKEN_INVALID")
         ELSE IF Expired(t)
           THEN Goto(r, "purge") /\ UNCHANGED <<req, past>>
           ELSE /\ req' = [req EXCEPT ![r].user = tokens[t].user]
                /\ Goto(r, "delete") /\ UNCHANGED past
    /\ UNCHANGED <<table, now>>

FindTokenFails(r) == /\ pc[r] = "find"
                     /\ Refuse(r, "TOKEN_INVALID")
                     /\ UNCHANGED <<table, now>>

\* DELETE ... WHERE user_id: all tokens of the user.
FaultyDeleteToken(t) ==
    tokens' = [s \in Tokens |-> IF tokens[s].user = tokens[t].user THEN NoToken ELSE tokens[s]]

\* A renewal that does not delete.
FaultyKeepToken(t) == UNCHANGED tokens

DeleteToken(t) == tokens' = [tokens EXCEPT ![t] = NoToken]

\* The error of a DELETE is not looked at.
PurgeExpired(r) == /\ pc[r] = "purge"
                   /\ Refuse(r, "TOKEN_EXPIRED")
                   /\ DeleteToken(req[r].token) \/ UNCHANGED tokens
                   /\ UNCHANGED <<users, now>>

DeleteOld(r) == /\ pc[r] = "delete"
                /\ DeleteToken(req[r].token)
                /\ Goto(r, "issue")
                /\ UNCHANGED <<users, now, req, past>>

DeleteOldFails(r) == /\ pc[r] = "delete"
                     /\ Goto(r, "issue")
                     /\ kept' = kept \cup {req[r].token}
                     /\ UNCHANGED <<table, now, req, made, doubled>>

-----------------------------------------------------------------------------
(* issueTokens, common to the three.                                       *)

\* A token is new every time: user, nanoseconds and a random UUID.
AddToken(r, t) ==
    /\ made[t] = Unmade
    /\ tokens' = [tokens EXCEPT ![t] = [user |-> req[r].user, expires |-> now + RefreshTTL]]
    /\ made' = [made EXCEPT ![t] = [user |-> req[r].user, from |-> req[r].token]]

IssueTokens(r) == /\ pc[r] = "issue"
                  /\ \E t \in Tokens : AddToken(r, t) /\ held' = held \cup {t}
                  /\ Reply(r, "OK")
                  /\ UNCHANGED <<users, now, req, doubled, kept>>

IssueError(kind) == CASE kind = "register" -> "INTERNAL_ERROR"
                      [] kind = "login"    -> "INVALID_CREDENTIALS"
                      [] kind = "refresh"  -> "TOKEN_INVALID"

\* The INSERT fails; it may have been executed, for a client that never hears.
IssueFails(r) == /\ pc[r] = "issue"
                 /\ \/ UNCHANGED <<tokens, made>>
                    \/ \E t \in Tokens : AddToken(r, t)
                 /\ Reply(r, IssueError(req[r].kind))
                 /\ UNCHANGED <<users, now, req, held, doubled, kept>>

\* The client goes away (its context ends every later statement) or the process
\* dies.
Vanish(r) == /\ pc[r] # "idle"
             /\ Refuse(r, "none")
             /\ UNCHANGED <<table, now>>

-----------------------------------------------------------------------------

Tick == /\ now < MaxTime
        /\ now' = now + 1
        /\ UNCHANGED <<table, pc, req, answer, held, past>>

Init == /\ users = [u \in UserIds |-> NoUser]
        /\ tokens = [t \in Tokens |-> NoToken]
        /\ now = 0
        /\ pc = [r \in Requests |-> "idle"]
        /\ req = [r \in Requests |-> NoReq]
        /\ answer = [r \in Requests |-> "none"]
        /\ held = {}
        /\ made = [t \in Tokens |-> Unmade]
        /\ doubled = {} /\ kept = {}

Arrival(r) == \/ \E e \in Emails, p \in Passwords : BeginRegister(r, e, p) \/ BeginLogin(r, e, p)
              \/ \E t \in held \cup {None} : BeginRefresh(r, t)

Statement(r) == \/ RegisterLookup(r) \/ InsertUser(r) \/ LoginLookup(r)
                \/ FindToken(r) \/ PurgeExpired(r) \/ DeleteOld(r) \/ IssueTokens(r)

Failure(r) == \/ RegisterLookupFails(r) \/ InsertUserFails(r) \/ LoginLookupFails(r)
              \/ FindTokenFails(r) \/ DeleteOldFails(r) \/ IssueFails(r) \/ Vanish(r)

Next == \/ \E r \in Requests : Arrival(r) \/ Statement(r) \/ Failure(r)
        \/ Tick

Spec == Init /\ [][Next]_vars

-----------------------------------------------------------------------------
(* Properties.                                                             *)

Asked == [kind : {"none", "register", "login", "refresh"},
          email : Emails \cup {None}, password : Passwords \cup {None},
          token : Tokens \cup {None}, user : UserIds \cup {None}, came : {"in time", "late"}]

\* The types; every token row names a user.
TypeOK ==
    /\ users \in [UserIds -> {NoUser} \cup [email : Emails, password : Passwords]]
    /\ tokens \in [Tokens -> {NoToken} \cup [user : UserIds, expires : Nat]]
    /\ now \in Nat
    /\ pc \in [Requests -> {"idle", "lookup", "insert", "find", "purge", "delete", "issue"}]
    /\ req \in [Requests -> Asked]
    /\ answer \in [Requests -> Codes]
    /\ held \subseteq Tokens
    /\ made \in [Tokens -> {Unmade} \cup [user : UserIds, from : Tokens \cup {None}]]
    /\ doubled \subseteq Tokens /\ kept \subseteq Tokens

\* An email has one account, however many registrations find it free at once:
\* the lookup in Register decides nothing.
OneAccountPerEmail ==
    \A u, v \in UserIds : users[u].email # None /\ users[u].email = users[v].email => u = v

\* Tokens go to those who showed the password of the account, or a token of it
\* whose time was not over when it was presented, however long its request takes
\* and whatever has become of the token since.  Of two registrations that race for an
\* email, only the one whose password was stored gets any.
IssuedToOwner ==
    \A r \in Requests :
      LET q == req[r] IN
      pc[r] = "issue" =>
        IF q.kind = "refresh"
          THEN made[q.token].user = q.user /\ q.came = "in time"
          ELSE users[q.user] = [email |-> q.email, password |-> q.password]

\* The old token cannot be used once it has been exchanged, unless its DELETE
\* failed, whose error is dropped.
SpentIsGone == \A s \in Tokens : Live(made[s].from) => made[s].from \in kept

\* A token is spent once (usecases/auth_test.go, TestRefresh_RotatesToken): no
\* two tokens are made in exchange for the same one.
SpentOnce == \A s, t \in Tokens : made[s].from # None /\ made[s].from = made[t].from => s = t

-----------------------------------------------------------------------------
(* Requests and their statements taken away, user-service is Sessions.     *)
(* A token that is presented twice at once, or that the database fails to  *)
(* delete, ends its session here: what is made of it counts as signed in   *)
(* anew.                                                                   *)

Spoilt(t) == t \in doubled \cup kept

Passing(t) == \E r \in Requests : pc[r] = "issue" /\ req[r].token = t

TokenStatus(t) == CASE made[t] = Unmade             -> "unused"
                    [] made[t] # Unmade /\ Spoilt(t) -> "ended"
                    [] OTHER -> IF Live(t) THEN "live" ELSE IF Passing(t) THEN "passing" ELSE "ended"

SessionStatus == [t \in Tokens |-> TokenStatus(t)]

SessionOrigin == [t \in Tokens |-> IF made[t].from = None \/ ~Spoilt(made[t].from)
                                      THEN made[t] ELSE [made[t] EXCEPT !.from = None]]

Abstract == INSTANCE Sessions WITH
              accounts <- users, status <- SessionStatus, origin <- SessionOrigin

\* A session started by a registration or a login lives on in one token at a
\* time, of one user, whatever fails and however requests overlap.
SessionsPassOn == Abstract!Spec
=============================================================================
