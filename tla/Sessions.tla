------------------------------ MODULE Sessions ------------------------------
(***************************************************************************)
(* What user-service promises about accounts and refresh tokens.  Signing  *)
(* in starts a session with one token.  The token is passed on like a      *)
(* baton: it is taken away first, and then at most one new token of the    *)
(* same user takes its place.  A session may end at any time; it never     *)
(* splits in two.                                                          *)
(***************************************************************************)
CONSTANTS UserIds, Emails, Passwords, Tokens, None

VARIABLES
    accounts,   \* the email and password of each user id
    status,     \* of each token: "unused", "live", "passing" or "ended"
    origin      \* of each token: the user it was made for, the token it replaced

vars == <<accounts, status, origin>>

Open(u, e, p) ==
    /\ accounts[u].email = None
    /\ \A v \in UserIds : accounts[v].email # e
    /\ accounts' = [accounts EXCEPT ![u] = [email |-> e, password |-> p]]
    /\ UNCHANGED <<status, origin>>

Make(t, u, from) == /\ status[t] = "unused"
                    /\ origin' = [origin EXCEPT ![t] = [user |-> u, from |-> from]]
                    /\ UNCHANGED accounts

SignIn(t, u) == /\ accounts[u].email # None
                /\ Make(t, u, None)
                /\ status' = [status EXCEPT ![t] = "live"]

\* The token is taken away, for good or for a new one to come.
Take(t) == /\ status[t] = "live"
           /\ \E s \in {"passing", "ended"} : status' = [status EXCEPT ![t] = s]
           /\ UNCHANGED <<accounts, origin>>

PassOn(t, s) == /\ status[t] = "passing"
                /\ Make(s, origin[t].user, t)
                /\ status' = [status EXCEPT ![t] = "ended", ![s] = "live"]

Drop(t) == /\ status[t] = "passing"
           /\ status' = [status EXCEPT ![t] = "ended"]
           /\ UNCHANGED <<accounts, origin>>

Init == /\ accounts = [u \in UserIds |-> [email |-> None, password |-> None]]
        /\ status = [t \in Tokens |-> "unused"]
        /\ origin = [t \in Tokens |-> [user |-> None, from |-> None]]

Next == \/ \E u \in UserIds, e \in Emails, p \in Passwords : Open(u, e, p)
        \/ \E t \in Tokens, u \in UserIds : SignIn(t, u)
        \/ \E t \in Tokens : Take(t) \/ Drop(t)
        \/ \E t, s \in Tokens : PassOn(t, s)

Spec == Init /\ [][Next]_vars
=============================================================================
