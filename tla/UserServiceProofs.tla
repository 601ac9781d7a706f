------------------------- MODULE UserServiceProofs -------------------------
(***************************************************************************)
(* Accounts and tokens, for any number of requests, emails, users and      *)
(* tokens, and every failure.                                              *)
(***************************************************************************)
EXTENDS UserService, TLAPS

\* The token rows are what was made; whoever holds a token or exchanged one, it
\* was made before.
Genuine ==
    /\ \A t \in Tokens : Live(t) => tokens[t].user = made[t].user
    /\ \A t \in held : made[t] # Unmade
    /\ \A s \in Tokens : made[s].from # None => made[made[s].from] # Unmade

\* A request that is to issue tokens: for an account whose password it showed, or
\* in exchange for a token that is gone and had not expired when it was presented.
MayIssue(r) ==
    LET q == req[r] IN
    IF q.kind = "refresh"
      THEN /\ q.token \in Tokens /\ made[q.token].user = q.user /\ q.came = "in time"
           /\ Live(q.token) => q.token \in kept
      ELSE /\ q.kind \in {"register", "login"} /\ q.token = None
           /\ users[q.user] = [email |-> q.email, password |-> q.password]

\* What the position of a request says of it.
Position(r) ==
    LET q == req[r] IN
    /\ q.token # None => made[q.token] # Unmade
    /\ q.kind \in {"register", "login"} =>
         q.email \in Emails /\ q.password \in Passwords /\ q.token = None
    /\ pc[r] = "lookup" => q.kind \in {"register", "login"}
    /\ pc[r] = "insert" => q.kind = "register"
    /\ pc[r] \in {"find", "purge", "delete"} => q.kind = "refresh"
    /\ pc[r] \in {"purge", "delete"} => q.token \in Tokens
    /\ pc[r] \in {"delete", "issue"} => q.user \in UserIds
    /\ pc[r] = "find" /\ q.came = "late" /\ Live(q.token) => Expired(q.token)
    /\ pc[r] = "delete" => made[q.token].user = q.user /\ q.came = "in time"
    /\ pc[r] = "issue" => MayIssue(r)

IInv == /\ TypeOK /\ OneAccountPerEmail /\ SpentIsGone /\ Genuine
        /\ \A r \in Requests : Position(r)

\* What no step takes back: accounts, tokens once made, and tokens once gone.  A
\* token keeps its time while it is there.
Grows ==
    /\ \A u \in UserIds : users[u] # NoUser => users'[u] = users[u]
    /\ \A t \in Tokens : made[t] # Unmade => made'[t] = made[t]
    /\ \A t \in Tokens : made[t] # Unmade /\ Live(t)' => Live(t) /\ tokens'[t] = tokens[t]
    /\ kept \subseteq kept'

-----------------------------------------------------------------------------
(* What the steps have in common.                                          *)

LEMMA InitInvariant == Init => IInv
<1> SUFFICES ASSUME Init PROVE IInv
  OBVIOUS
<1>1. TypeOK
  BY ServiceAssumption DEF Init, TypeOK, Asked, NoUser, NoToken, NoReq, Unmade, Codes
<1>2. OneAccountPerEmail
  BY DEF Init, OneAccountPerEmail, NoUser
<1>3. SpentIsGone
  BY DEF Init, SpentIsGone, Live, Unmade
<1>4. Genuine
  BY DEF Init, Genuine, Live, Unmade
<1>5. ASSUME NEW r \in Requests PROVE Position(r)
  BY DEF Init, Position, NoReq
<1> QED BY <1>1, <1>2, <1>3, <1>4, <1>5 DEF IInv

\* A row of a user or a token is not the empty one.
LEMMA RowsThere ==
    ASSUME TypeOK
    PROVE  /\ \A u \in UserIds, e \in Emails : users[u].email = e => users[u] # NoUser
           /\ \A t \in Tokens : made[t] # Unmade => made[t].user \in UserIds
           /\ \A t \in Tokens : made[t].from # None => made[t].from \in Tokens /\ made[t] # Unmade
           /\ \A t \in Tokens : Live(t) => tokens[t].user \in UserIds
           /\ \A t \in Tokens : Live(t) <=> tokens[t] # NoToken
  BY ServiceAssumption DEF TypeOK, NoUser, Unmade, NoToken, Live

\* A request has found its user.
LEMMA UserFound ==
    ASSUME TypeOK, NEW r \in Requests, NEW u \in UserIds, req' = [req EXCEPT ![r].user = u]
    PROVE  req' \in [Requests -> Asked]
<1>1. req \in [Requests -> Asked] /\ req' = [req EXCEPT ![r] = [req[r] EXCEPT !.user = u]]
  BY DEF TypeOK
<1>2. ASSUME NEW q \in Asked PROVE [q EXCEPT !.user = u] \in Asked
  BY DEF Asked
<1> QED BY <1>1, <1>2

\* A request that does not move, or that ends.
LEMMA PositionKept ==
    ASSUME TypeOK, Grows, NEW r \in Requests, Position(r),
           req'[r] = req[r], pc'[r] \in {pc[r], "idle"}, now' \in Nat, now <= now'
    PROVE  Position(r)'
<1> DEFINE q == req[r]
<1>1. q.token \in Tokens \cup {None} /\ q.user \in UserIds \cup {None}
  BY DEF TypeOK, Asked
<1>2. q.token # None => made[q.token] # Unmade /\ made'[q.token] = made[q.token]
  BY <1>1 DEF Position, Grows
<1>3. pc[r] = "issue" => MayIssue(r)'
  <2> SUFFICES ASSUME pc[r] = "issue" PROVE MayIssue(r)'
    OBVIOUS
  <2>1. MayIssue(r) /\ q.user \in UserIds
    BY DEF Position
  <2>2. CASE q.kind = "refresh"
    BY <1>2, <2>1, <2>2, ServiceAssumption DEF MayIssue, Grows
  <2>3. CASE q.kind # "refresh"
    <3>1. q.email \in Emails /\ users[q.user].email = q.email
      BY <2>1, <2>3 DEF MayIssue, Position
    <3>2. users'[q.user] = users[q.user]
      BY <2>1, <3>1, RowsThere DEF Grows
    <3> QED BY <2>1, <2>3, <3>2 DEF MayIssue
  <2> QED BY <2>2, <2>3
<1>4. pc'[r] = "find" /\ q.came = "late" /\ Live(q.token)' => Expired(q.token)'
  <2> SUFFICES ASSUME pc[r] = "find", q.came = "late", q.token # None, tokens'[q.token] # NoToken
               PROVE  now' > tokens'[q.token].expires
    BY DEF Live, Expired
  <2>1. q.token \in Tokens /\ tokens'[q.token] = tokens[q.token] /\ Live(q.token)
    BY <1>1, <1>2 DEF Grows, Live
  <2>2. tokens[q.token].expires \in Nat /\ now \in Nat
    BY <2>1 DEF TypeOK, Live
  <2>3. now > tokens[q.token].expires
    BY <2>1 DEF Position, Expired
  <2> QED BY <2>1, <2>2, <2>3
<1> QED BY <1>1, <1>2, <1>3, <1>4, ServiceAssumption DEF Position

LEMMA Together ==
    ASSUME IInv, TypeOK', OneAccountPerEmail', SpentIsGone', Genuine', Grows,
           NEW r \in Requests,
           \A i \in Requests \ {r} : req'[i] = req[i] /\ pc'[i] = pc[i],
           Position(r)' \/ (req'[r] = req[r] /\ pc'[r] = "idle"), UNCHANGED now
    PROVE  IInv'
<1>1. ASSUME NEW i \in Requests PROVE Position(i)'
  <2>1. TypeOK /\ Position(i) /\ now' \in Nat /\ now <= now'
    BY DEF IInv, TypeOK
  <2>2. CASE i = r /\ Position(r)'
    BY <2>2
  <2>3. CASE req'[i] = req[i] /\ pc'[i] \in {pc[i], "idle"}
    BY <2>1, <2>3, PositionKept
  <2> QED BY <2>2, <2>3
<1> QED BY <1>1 DEF IInv

\* A step that leaves the tables and the tokens alone.
LEMMA QuietStep ==
    ASSUME IInv, UNCHANGED <<table, held, made, kept>>
    PROVE  /\ OneAccountPerEmail' /\ SpentIsGone' /\ Genuine' /\ Grows
<1> USE DEF IInv, table
<1>1. OneAccountPerEmail'
  BY DEF OneAccountPerEmail
<1>2. \A t : Live(t)' <=> Live(t)
  BY DEF Live
<1>3. SpentIsGone'
  BY <1>2 DEF SpentIsGone
<1>4. Genuine'
  BY <1>2 DEF Genuine
<1>5. Grows
  BY <1>2 DEF Grows
<1> QED BY <1>1, <1>3, <1>4, <1>5

\* A request ends with the tables as they were.
LEMMA RefuseStep ==
    ASSUME IInv, NEW r \in Requests, NEW code \in Codes, Refuse(r, code), UNCHANGED <<table, now>>
    PROVE  IInv'
<1>1. TypeOK'
  BY DEF IInv, TypeOK, Refuse, Reply, table, past
<1>2. OneAccountPerEmail' /\ SpentIsGone' /\ Genuine' /\ Grows
  BY QuietStep DEF Refuse, past
<1>3. /\ \A i \in Requests \ {r} : req'[i] = req[i] /\ pc'[i] = pc[i]
      /\ req'[r] = req[r] /\ pc'[r] = "idle"
  BY DEF IInv, TypeOK, Refuse, Reply
<1> QED BY <1>1, <1>2, <1>3, Together

\* A request begins.
LEMMA BeginStep ==
    ASSUME IInv, NEW r \in Requests, NEW label, NEW q, Begin(r, label, q),
           \/ label = "lookup" /\ q.kind \in {"register", "login"}
           \/ label = "find" /\ q.kind = "refresh",
           q \in Asked,
           q.came = "late" /\ Live(q.token) => Expired(q.token),
           q.token # None => made[q.token] # Unmade,
           q.kind # "refresh" => q.email \in Emails /\ q.password \in Passwords /\ q.token = None,
           doubled' \subseteq Tokens
    PROVE  IInv'
<1>1. TypeOK'
  BY DEF IInv, TypeOK, Begin, table, Codes
<1>2. OneAccountPerEmail' /\ SpentIsGone' /\ Genuine' /\ Grows
  BY QuietStep DEF Begin
<1>3. /\ \A i \in Requests \ {r} : req'[i] = req[i] /\ pc'[i] = pc[i]
      /\ req'[r] = q /\ pc'[r] = label /\ UNCHANGED made
  BY DEF IInv, TypeOK, Begin
<1>4. q.came = "late" /\ Live(q.token)' => Expired(q.token)'
  BY DEF Begin, table, Live, Expired
<1>5. Position(r)'
  BY <1>3, <1>4 DEF Position
<1>6. UNCHANGED now
  BY DEF Begin
<1> QED BY <1>1, <1>2, <1>3, <1>5, <1>6, Together

-----------------------------------------------------------------------------
(* The steps.                                                              *)

LEMMA ArrivalInvariant ==
    ASSUME IInv, NEW r \in Requests, Arrival(r)
    PROVE  IInv'
<1>1. CASE \E e \in Emails, p \in Passwords : BeginRegister(r, e, p)
  <2>1. PICK e \in Emails, p \in Passwords : BeginRegister(r, e, p)
    BY <1>1
  <2>2. doubled' \subseteq Tokens
    BY <2>1 DEF BeginRegister, IInv, TypeOK
  <2> QED BY <2>1, <2>2, BeginStep DEF BeginRegister, NoReq, Asked
<1>2. CASE \E e \in Emails, p \in Passwords : BeginLogin(r, e, p)
  <2>1. PICK e \in Emails, p \in Passwords : BeginLogin(r, e, p)
    BY <1>2
  <2>2. doubled' \subseteq Tokens
    BY <2>1 DEF BeginLogin, IInv, TypeOK
  <2> QED BY <2>1, <2>2, BeginStep DEF BeginLogin, NoReq, Asked
<1>3. CASE \E t \in held \cup {None} : BeginRefresh(r, t)
  <2>1. PICK t \in held \cup {None} : BeginRefresh(r, t)
    BY <1>3
  <2>2. t \in Tokens \cup {None} /\ (t # None => made[t] # Unmade)
    BY <2>1 DEF IInv, TypeOK, Genuine
  <2>3. doubled' \subseteq Tokens
    BY <2>1, <2>2 DEF BeginRefresh, IInv, TypeOK, Live
  <2> QED BY <2>1, <2>2, <2>3, BeginStep DEF BeginRefresh, NoReq, Expired, Asked
<1> QED BY <1>1, <1>2, <1>3 DEF Arrival

\* The rows of users never change, and a new one has a free email.
LEMMA AddUserStep ==
    ASSUME IInv, NEW r \in Requests, NEW u \in UserIds, pc[r] = "insert",
           Unique(req[r].email), AddUser(r, u), UNCHANGED <<tokens, held, made, kept>>
    PROVE  /\ users' \in [UserIds -> {NoUser} \cup [email : Emails, password : Passwords]]
           /\ users'[u] = [email |-> req[r].email, password |-> req[r].password]
           /\ OneAccountPerEmail' /\ SpentIsGone' /\ Genuine' /\ Grows
<1>1. req[r].email \in Emails /\ req[r].password \in Passwords
  BY DEF IInv, Position
<1>2. /\ users \in [UserIds -> {NoUser} \cup [email : Emails, password : Passwords]]
      /\ users[u] = NoUser
      /\ users' = [users EXCEPT ![u] = [email |-> req[r].email, password |-> req[r].password]]
  BY DEF IInv, TypeOK, AddUser
<1>3. /\ users' \in [UserIds -> {NoUser} \cup [email : Emails, password : Passwords]]
      /\ users'[u] = [email |-> req[r].email, password |-> req[r].password]
      /\ \A v \in UserIds \ {u} : users'[v] = users[v]
  BY <1>1, <1>2
<1>4. OneAccountPerEmail'
  <2> SUFFICES ASSUME NEW v \in UserIds, NEW w \in UserIds,
                      users'[v].email # None, users'[v].email = users'[w].email
               PROVE  v = w
    BY DEF OneAccountPerEmail
  <2>1. \A i \in UserIds : users[i].email # req[r].email
    BY DEF Unique, EmailUsed
  <2>2. CASE v # u /\ w # u
    BY <1>3, <2>2 DEF IInv, OneAccountPerEmail
  <2>3. CASE v = u \/ w = u
    BY <1>3, <2>1, <2>3
  <2> QED BY <2>2, <2>3
<1>5. \A t : Live(t)' <=> Live(t)
  BY DEF Live
<1>6. SpentIsGone' /\ Genuine'
  BY <1>5 DEF IInv, SpentIsGone, Genuine
<1>7. Grows
  BY <1>2, <1>3, <1>5 DEF Grows
<1> QED BY <1>3, <1>4, <1>6, <1>7

\* One token taken out of the table, or none.
LEMMA DeleteStep ==
    ASSUME IInv, NEW t \in Tokens, DeleteToken(t) \/ UNCHANGED tokens,
           UNCHANGED <<users, held, made>>, kept \subseteq kept'
    PROVE  /\ tokens' \in [Tokens -> {NoToken} \cup [user : UserIds, expires : Nat]]
           /\ OneAccountPerEmail' /\ SpentIsGone' /\ Genuine' /\ Grows
<1>1. tokens \in [Tokens -> {NoToken} \cup [user : UserIds, expires : Nat]]
  BY DEF IInv, TypeOK
<1>2. tokens' \in [Tokens -> {NoToken} \cup [user : UserIds, expires : Nat]]
  BY <1>1 DEF DeleteToken
<1>3. \A s \in Tokens : Live(s)' => Live(s) /\ tokens'[s] = tokens[s]
  BY <1>1 DEF Live, DeleteToken
<1>4. OneAccountPerEmail'
  BY DEF IInv, OneAccountPerEmail
<1>5. SpentIsGone'
  <2>1. \A s \in Tokens : Live(made[s].from)' => made[s].from \in Tokens
    BY RowsThere DEF IInv, Live
  <2> QED BY <1>3, <2>1 DEF IInv, SpentIsGone
<1>6. Genuine'
  BY <1>3 DEF IInv, Genuine
<1>7. Grows
  BY <1>3 DEF Grows
<1> QED BY <1>2, <1>4, <1>5, <1>6, <1>7

\* A new token for the user of a request that may have one.
LEMMA AddTokenStep ==
    ASSUME IInv, NEW r \in Requests, NEW t \in Tokens, pc[r] = "issue", AddToken(r, t),
           held' \subseteq held \cup {t}, UNCHANGED <<users, kept>>
    PROVE  /\ tokens' \in [Tokens -> {NoToken} \cup [user : UserIds, expires : Nat]]
           /\ made' \in [Tokens -> {Unmade} \cup [user : UserIds, from : Tokens \cup {None}]]
           /\ OneAccountPerEmail' /\ SpentIsGone' /\ Genuine' /\ Grows
<1> DEFINE q == req[r]
<1>1. TypeOK /\ Position(r)
  BY DEF IInv
<1>2. /\ q.user \in UserIds /\ q.token \in Tokens \cup {None}
      /\ q.token # None => q.kind = "refresh" /\ made[q.token] # Unmade
      /\ MayIssue(r)
  <2>1. q.user \in UserIds /\ q.token \in Tokens \cup {None} /\ MayIssue(r)
    BY <1>1 DEF Position, TypeOK, Asked
  <2>2. q.token # None => q.kind = "refresh"
    BY <2>1 DEF MayIssue
  <2> QED BY <1>1, <2>1, <2>2 DEF Position
<1>3. /\ made[t] = Unmade
      /\ made' = [made EXCEPT ![t] = [user |-> q.user, from |-> q.token]]
      /\ tokens' = [tokens EXCEPT ![t] = [user |-> q.user, expires |-> now + RefreshTTL]]
  BY DEF AddToken
<1>4. /\ tokens' \in [Tokens -> {NoToken} \cup [user : UserIds, expires : Nat]]
      /\ made' \in [Tokens -> {Unmade} \cup [user : UserIds, from : Tokens \cup {None}]]
  BY <1>1, <1>2, <1>3, ServiceAssumption DEF TypeOK
<1>5. /\ made'[t] = [user |-> q.user, from |-> q.token] /\ made'[t] # Unmade
      /\ \A s \in Tokens \ {t} : made'[s] = made[s] /\ tokens'[s] = tokens[s]
      /\ tokens'[t].user = q.user
  BY <1>1, <1>2, <1>3, ServiceAssumption DEF TypeOK, Unmade
<1>6. \A s \in Tokens \ {t} : Live(s)' <=> Live(s)
  BY <1>5 DEF Live
<1>7. \A s \in Tokens : made[s] # Unmade => s # t /\ made'[s] = made[s] /\ tokens'[s] = tokens[s]
  BY <1>3, <1>5
<1>8. OneAccountPerEmail'
  BY DEF IInv, OneAccountPerEmail
<1>9. SpentIsGone'
  <2> SUFFICES ASSUME NEW s \in Tokens,
                      made'[s].from # None, tokens'[made'[s].from] # NoToken
               PROVE  made'[s].from \in kept
    BY DEF SpentIsGone, Live
  <2>2. CASE s = t
    <3>1. made'[s].from = q.token /\ q.token \in Tokens /\ made[q.token] # Unmade
      BY <1>2, <1>5, <2>2
    <3>2. Live(q.token)
      BY <1>7, <3>1 DEF Live
    <3> QED BY <1>2, <3>1, <3>2 DEF MayIssue
  <2>3. CASE s # t
    <3>1. made'[s].from = made[s].from /\ made[s].from \in Tokens
      BY <1>1, <1>5, <2>3, RowsThere
    <3>2. made[made[s].from] # Unmade
      BY <3>1 DEF IInv, Genuine
    <3>3. Live(made[s].from)
      BY <1>7, <3>1, <3>2 DEF Live
    <3> QED BY <3>1, <3>3 DEF IInv, SpentIsGone
  <2> QED BY <2>2, <2>3
<1>10. Genuine'
  <2>1. ASSUME NEW s \in Tokens, Live(s)' PROVE tokens'[s].user = made'[s].user
    BY <1>5, <1>6, <2>1 DEF IInv, Genuine
  <2>2. ASSUME NEW s \in held' PROVE made'[s] # Unmade
    <3>1. s \in Tokens /\ (s \in held \/ s = t)
      BY <1>1 DEF TypeOK
    <3> QED BY <1>5, <1>7, <3>1 DEF IInv, Genuine
  <2>3. ASSUME NEW s \in Tokens, made'[s].from # None PROVE made'[made'[s].from] # Unmade
    <3>1. CASE s = t
      BY <1>2, <1>5, <1>7, <2>3, <3>1
    <3>2. CASE s # t
      <4>1. made'[s].from = made[s].from /\ made[s].from \in Tokens
        BY <1>1, <1>5, <2>3, <3>2, RowsThere
      <4>2. made[made[s].from] # Unmade
        BY <4>1, <2>3 DEF IInv, Genuine
      <4> QED BY <1>7, <4>1, <4>2
    <3> QED BY <3>1, <3>2
  <2> QED BY <2>1, <2>2, <2>3 DEF Genuine
<1>11. Grows
  BY <1>7 DEF Grows, Live
<1> QED BY <1>4, <1>8, <1>9, <1>10, <1>11

LEMMA StatementInvariant ==
    ASSUME IInv, NEW r \in Requests, Statement(r)
    PROVE  IInv'
<1> DEFINE q == req[r]
<1> DEFINE Others == \A i \in Requests \ {r} : req'[i] = req[i] /\ pc'[i] = pc[i]
<1>t. TypeOK /\ Position(r)
  BY DEF IInv
<1>1. CASE RegisterLookup(r)
  <2>1. CASE EmailUsed(q.email)
    BY <1>1, <2>1, RefuseStep DEF RegisterLookup, Codes
  <2>2. CASE ~EmailUsed(q.email)
    <3>1. Goto(r, "insert") /\ UNCHANGED <<table, now, req, past>> /\ q.kind = "register"
      BY <1>1, <2>2 DEF RegisterLookup
    <3>2. TypeOK'
      BY <1>t, <3>1 DEF TypeOK, Goto, table, past
    <3>3. OneAccountPerEmail' /\ SpentIsGone' /\ Genuine' /\ Grows
      BY <3>1, QuietStep DEF Goto, past
    <3>4. Others /\ pc'[r] = "insert" /\ UNCHANGED <<req, made>>
      BY <1>t, <3>1 DEF TypeOK, Goto, past
    <3>5. Position(r)'
      BY <1>t, <3>1, <3>4 DEF Position
    <3> QED BY <3>1, <3>2, <3>3, <3>4, <3>5, Together
  <2> QED BY <2>1, <2>2
<1>2. CASE InsertUser(r)
  <2>1. PICK u \in UserIds : AddUser(r, u) /\ req' = [req EXCEPT ![r].user = u]
    BY <1>2 DEF InsertUser
  <2>2. /\ pc[r] = "insert" /\ Unique(q.email) /\ Goto(r, "issue")
        /\ UNCHANGED <<tokens, now, past>>
    BY <1>2 DEF InsertUser
  <2>3. /\ users' \in [UserIds -> {NoUser} \cup [email : Emails, password : Passwords]]
        /\ users'[u] = [email |-> q.email, password |-> q.password]
        /\ OneAccountPerEmail' /\ SpentIsGone' /\ Genuine' /\ Grows
    BY <2>1, <2>2, AddUserStep DEF Goto, past
  <2>4. TypeOK'
    BY <1>t, <2>1, <2>2, <2>3, UserFound DEF TypeOK, Goto, past
  <2>5. Others /\ pc'[r] = "issue" /\ req'[r] = [q EXCEPT !.user = u]
    BY <1>t, <2>1, <2>2 DEF TypeOK, Asked, Goto
  <2>6. /\ q.kind = "register" /\ q.token = None /\ q.email \in Emails /\ q.password \in Passwords
        /\ q \in Asked
    BY <1>t, <2>2 DEF Position, TypeOK, Asked
  <2>7. Position(r)'
    BY <2>3, <2>5, <2>6 DEF Position, MayIssue, Asked
  <2> QED BY <2>2, <2>3, <2>4, <2>5, <2>7, Together
<1>3. CASE LoginLookup(r)
  <2>1. CASE \A u \in UserIds : ~Matches(u, q)
    <3>1. Refuse(r, "INVALID_CREDENTIALS") /\ UNCHANGED <<table, now>>
      BY <1>3, <2>1 DEF LoginLookup
    <3> QED BY <3>1, RefuseStep DEF Codes
  <2>2. CASE \E u \in UserIds : Matches(u, q)
    <3>1. PICK u \in UserIds : /\ Matches(u, q) /\ req' = [req EXCEPT ![r].user = u]
                               /\ Goto(r, "issue") /\ UNCHANGED past
      BY <1>3, <2>2 DEF LoginLookup
    <3>2. pc[r] = "lookup" /\ q.kind = "login" /\ UNCHANGED <<table, now>>
      BY <1>3 DEF LoginLookup
    <3>3. TypeOK'
      BY <1>t, <3>1, <3>2, UserFound DEF TypeOK, Goto, table, past
    <3>4. OneAccountPerEmail' /\ SpentIsGone' /\ Genuine' /\ Grows
      BY <3>1, <3>2, QuietStep DEF Goto, past
    <3>5. Others /\ pc'[r] = "issue" /\ req'[r] = [q EXCEPT !.user = u] /\ UNCHANGED <<users, made>>
      BY <1>t, <3>1, <3>2 DEF TypeOK, Asked, Goto, past, table
    <3>6. /\ q.token = None /\ q.email \in Emails /\ q.password \in Passwords
          /\ q \in Asked
      BY <1>t, <3>2 DEF Position, TypeOK, Asked
    <3>7. users[u] = [email |-> q.email, password |-> q.password]
      <4>1. users[u].email = q.email /\ users[u].password = q.password
        BY <3>1 DEF Matches
      <4>2. users[u] \in [email : Emails, password : Passwords]
        BY <1>t, <3>6, <4>1, ServiceAssumption DEF TypeOK, NoUser
      <4> QED BY <4>1, <4>2
    <3>8. Position(r)'
      BY <3>2, <3>5, <3>6, <3>7 DEF Position, MayIssue, Asked
    <3> QED BY <3>2, <3>3, <3>4, <3>5, <3>8, Together
  <2> QED BY <2>1, <2>2
<1>4. CASE FindToken(r)
  <2> DEFINE t == q.token
  <2>1. pc[r] = "find" /\ UNCHANGED <<table, now>>
    BY <1>4 DEF FindToken
  <2>2. CASE ~Live(t)
    BY <1>4, <2>1, <2>2, RefuseStep DEF FindToken, Codes
  <2>3. CASE Live(t) /\ Expired(t)
    <3>1. Goto(r, "purge") /\ UNCHANGED <<req, past>>
      BY <1>4, <2>3 DEF FindToken
    <3>2. TypeOK'
      BY <1>t, <2>1, <3>1 DEF TypeOK, Goto, table, past
    <3>3. OneAccountPerEmail' /\ SpentIsGone' /\ Genuine' /\ Grows
      BY <2>1, <3>1, QuietStep DEF Goto, past
    <3>4. Others /\ pc'[r] = "purge" /\ UNCHANGED <<req, made>>
      BY <1>t, <3>1 DEF TypeOK, Goto, past
    <3>5. t \in Tokens
      BY <1>t, <2>3 DEF TypeOK, Asked, Live
    <3>6. Position(r)'
      BY <1>t, <2>1, <3>4, <3>5 DEF Position
    <3> QED BY <2>1, <3>2, <3>3, <3>4, <3>6, Together
  <2>4. CASE Live(t) /\ ~Expired(t)
    <3>1. /\ req' = [req EXCEPT ![r].user = tokens[t].user]
          /\ Goto(r, "delete") /\ UNCHANGED past
      BY <1>4, <2>4 DEF FindToken
    <3>2. t \in Tokens /\ tokens[t].user \in UserIds /\ tokens[t].user = made[t].user
      <4>1. t \in Tokens
        BY <1>t, <2>4 DEF TypeOK, Asked, Live
      <4> QED BY <1>t, <2>4, <4>1, RowsThere DEF IInv, Genuine
    <3>3. TypeOK'
      <4>1. req' \in [Requests -> Asked]
        BY <1>t, <3>1, <3>2, UserFound
      <4> QED BY <1>t, <2>1, <3>1, <4>1 DEF TypeOK, Goto, table, past
    <3>4. OneAccountPerEmail' /\ SpentIsGone' /\ Genuine' /\ Grows
      BY <2>1, <3>1, QuietStep DEF Goto, past
    <3>5. /\ Others /\ pc'[r] = "delete" /\ UNCHANGED made
          /\ req'[r] = [q EXCEPT !.user = tokens[t].user]
      BY <1>t, <3>1 DEF TypeOK, Asked, Goto, past
    <3>6. q \in Asked
      BY <1>t DEF TypeOK, Asked
    <3>7. Position(r)'
      BY <1>t, <2>1, <2>4, <3>2, <3>5, <3>6 DEF Position, Asked
    <3> QED BY <2>1, <3>3, <3>4, <3>5, <3>7, Together
  <2> QED BY <2>2, <2>3, <2>4
<1>5. CASE PurgeExpired(r)
  <2>1. /\ pc[r] = "purge" /\ Refuse(r, "TOKEN_EXPIRED")
        /\ DeleteToken(q.token) \/ UNCHANGED tokens
        /\ UNCHANGED <<users, now>>
    BY <1>5 DEF PurgeExpired
  <2>2. q.token \in Tokens
    BY <1>t, <2>1 DEF Position
  <2>3. /\ tokens' \in [Tokens -> {NoToken} \cup [user : UserIds, expires : Nat]]
        /\ OneAccountPerEmail' /\ SpentIsGone' /\ Genuine' /\ Grows
    BY <2>1, <2>2, DeleteStep DEF Refuse, past
  <2>4. TypeOK'
    BY <1>t, <2>1, <2>3 DEF TypeOK, Refuse, Reply, past, Codes
  <2>5. Others /\ req'[r] = q /\ pc'[r] = "idle"
    BY <1>t, <2>1 DEF TypeOK, Refuse, Reply
  <2> QED BY <2>1, <2>2, <2>3, <2>4, <2>5, Together
<1>6. CASE DeleteOld(r)
  <2>1. /\ pc[r] = "delete" /\ DeleteToken(q.token) /\ Goto(r, "issue")
        /\ UNCHANGED <<users, now, req, past>>
    BY <1>6 DEF DeleteOld
  <2>2. /\ q.token \in Tokens /\ q.user \in UserIds /\ q.kind = "refresh"
        /\ made[q.token].user = q.user /\ q.came = "in time"
    BY <1>t, <2>1 DEF Position
  <2>3. /\ tokens' \in [Tokens -> {NoToken} \cup [user : UserIds, expires : Nat]]
        /\ OneAccountPerEmail' /\ SpentIsGone' /\ Genuine' /\ Grows
    BY <2>1, <2>2, DeleteStep DEF Goto, past
  <2>4. TypeOK'
    BY <1>t, <2>1, <2>3 DEF TypeOK, Goto, past
  <2>5. Others /\ UNCHANGED <<req, made, kept>> /\ pc'[r] = "issue"
    BY <1>t, <2>1 DEF TypeOK, Goto, past
  <2>6. ~Live(q.token)'
    BY <1>t, <2>1, <2>2 DEF Live, DeleteToken, TypeOK
  <2>7. Position(r)'
    BY <1>t, <2>1, <2>2, <2>5, <2>6 DEF Position, MayIssue
  <2> QED BY <2>1, <2>3, <2>4, <2>5, <2>7, Together
<1>7. CASE IssueTokens(r)
  <2>1. PICK t \in Tokens : AddToken(r, t) /\ held' = held \cup {t}
    BY <1>7 DEF IssueTokens
  <2>2. pc[r] = "issue" /\ Reply(r, "OK") /\ UNCHANGED <<users, now, req, doubled, kept>>
    BY <1>7 DEF IssueTokens
  <2>3. /\ tokens' \in [Tokens -> {NoToken} \cup [user : UserIds, expires : Nat]]
        /\ made' \in [Tokens -> {Unmade} \cup [user : UserIds, from : Tokens \cup {None}]]
        /\ OneAccountPerEmail' /\ SpentIsGone' /\ Genuine' /\ Grows
    BY <2>1, <2>2, AddTokenStep
  <2>4. TypeOK'
    BY <1>t, <2>1, <2>2, <2>3 DEF TypeOK, Reply, Codes
  <2>5. Others /\ req'[r] = q /\ pc'[r] = "idle"
    BY <1>t, <2>2 DEF TypeOK, Reply
  <2> QED BY <2>1, <2>2, <2>3, <2>4, <2>5, Together
<1> QED BY <1>1, <1>2, <1>3, <1>4, <1>5, <1>6, <1>7 DEF Statement

LEMMA FailureInvariant ==
    ASSUME IInv, NEW r \in Requests, Failure(r)
    PROVE  IInv'
<1> DEFINE q == req[r]
<1> DEFINE Others == \A i \in Requests \ {r} : req'[i] = req[i] /\ pc'[i] = pc[i]
<1>t. TypeOK /\ Position(r)
  BY DEF IInv
<1>1. CASE RegisterLookupFails(r)
  <2>1. Goto(r, "insert") /\ UNCHANGED <<table, now, req, past>> /\ q.kind = "register" /\ pc[r] = "lookup"
    BY <1>1 DEF RegisterLookupFails
  <2>2. TypeOK'
    BY <1>t, <2>1 DEF TypeOK, Goto, table, past
  <2>3. OneAccountPerEmail' /\ SpentIsGone' /\ Genuine' /\ Grows
    BY <2>1, QuietStep DEF Goto, past
  <2>4. Others /\ pc'[r] = "insert" /\ UNCHANGED <<req, made>>
    BY <1>t, <2>1 DEF TypeOK, Goto, past
  <2>5. Position(r)'
    BY <1>t, <2>1, <2>4 DEF Position
  <2> QED BY <2>1, <2>2, <2>3, <2>4, <2>5, Together
<1>2. CASE InsertUserFails(r)
  <2>1. /\ pc[r] = "insert" /\ Refuse(r, "INTERNAL_ERROR") /\ UNCHANGED <<tokens, now>>
    BY <1>2 DEF InsertUserFails
  <2>2. CASE UNCHANGED users
    BY <2>1, <2>2, RefuseStep DEF Codes, table
  <2>3. CASE Unique(q.email) /\ \E u \in UserIds : AddUser(r, u)
    <3>1. PICK u \in UserIds : AddUser(r, u)
      BY <2>3
    <3>2. /\ users' \in [UserIds -> {NoUser} \cup [email : Emails, password : Passwords]]
          /\ OneAccountPerEmail' /\ SpentIsGone' /\ Genuine' /\ Grows
      BY <2>1, <2>3, <3>1, AddUserStep DEF Refuse, past
    <3>3. TypeOK'
      BY <1>t, <2>1, <3>2 DEF TypeOK, Refuse, Reply, past, Codes
    <3>4. Others /\ req'[r] = q /\ pc'[r] = "idle"
      BY <1>t, <2>1 DEF TypeOK, Refuse, Reply
    <3> QED BY <2>1, <3>2, <3>3, <3>4, Together
  <2> QED BY <1>2, <2>2, <2>3 DEF InsertUserFails
<1>3. CASE LoginLookupFails(r)
  BY <1>3, RefuseStep DEF LoginLookupFails, Codes
<1>4. CASE FindTokenFails(r)
  BY <1>4, RefuseStep DEF FindTokenFails, Codes
<1>5. CASE DeleteOldFails(r)
  <2>1. /\ pc[r] = "delete" /\ Goto(r, "issue") /\ kept' = kept \cup {q.token}
        /\ UNCHANGED <<table, now, req, made, doubled>>
    BY <1>5 DEF DeleteOldFails
  <2>2. /\ q.token \in Tokens /\ q.user \in UserIds /\ q.kind = "refresh"
        /\ made[q.token].user = q.user /\ q.came = "in time"
    BY <1>t, <2>1 DEF Position
  <2>3. /\ OneAccountPerEmail' /\ SpentIsGone' /\ Genuine' /\ Grows
    BY <2>1, <2>2, DeleteStep DEF Goto, table
  <2>4. TypeOK'
    BY <1>t, <2>1, <2>2 DEF TypeOK, Goto, table
  <2>5. Others /\ UNCHANGED <<req, made>> /\ pc'[r] = "issue" /\ q.token \in kept'
    BY <1>t, <2>1 DEF TypeOK, Goto
  <2>6. Position(r)'
    BY <1>t, <2>1, <2>2, <2>5 DEF Position, MayIssue
  <2> QED BY <2>1, <2>3, <2>4, <2>5, <2>6, Together
<1>6. CASE IssueFails(r)
  <2>1. /\ pc[r] = "issue" /\ Reply(r, IssueError(q.kind))
        /\ UNCHANGED <<users, now, req, held, doubled, kept>>
    BY <1>6 DEF IssueFails
  <2>2. q.kind \in {"register", "login", "refresh"}
    BY <1>t, <2>1 DEF Position, MayIssue
  <2>3. IssueError(q.kind) \in Codes
    BY <2>2 DEF IssueError, Codes
  <2>4. /\ tokens' \in [Tokens -> {NoToken} \cup [user : UserIds, expires : Nat]]
        /\ made' \in [Tokens -> {Unmade} \cup [user : UserIds, from : Tokens \cup {None}]]
        /\ OneAccountPerEmail' /\ SpentIsGone' /\ Genuine' /\ Grows
    <3>1. CASE UNCHANGED <<tokens, made>>
      BY <1>t, <2>1, <3>1, QuietStep DEF TypeOK, table
    <3>2. CASE \E t \in Tokens : AddToken(r, t)
      BY <2>1, <3>2, AddTokenStep
    <3> QED BY <1>6, <3>1, <3>2 DEF IssueFails
  <2>5. TypeOK'
    BY <1>t, <2>1, <2>3, <2>4 DEF TypeOK, Reply
  <2>6. Others /\ req'[r] = q /\ pc'[r] = "idle"
    BY <1>t, <2>1 DEF TypeOK, Reply
  <2> QED BY <2>1, <2>4, <2>5, <2>6, Together
<1>7. CASE Vanish(r)
  BY <1>7, RefuseStep DEF Vanish, Codes
<1> QED BY <1>1, <1>2, <1>3, <1>4, <1>5, <1>6, <1>7 DEF Failure

\* A step that moves no request: a tick, or nothing.
LEMMA IdleStep ==
    ASSUME IInv, UNCHANGED <<table, pc, req, answer, held, past>>, now' \in Nat, now <= now'
    PROVE  IInv'
<1>1. TypeOK'
  BY DEF IInv, TypeOK, table, past
<1>2. OneAccountPerEmail' /\ SpentIsGone' /\ Genuine' /\ Grows
  BY QuietStep DEF past
<1>3. ASSUME NEW r \in Requests PROVE Position(r)'
  BY <1>2, PositionKept DEF IInv
<1> QED BY <1>1, <1>2, <1>3 DEF IInv

LEMMA NextInvariant == IInv /\ [Next]_vars => IInv'
<1> SUFFICES ASSUME IInv, [Next]_vars PROVE IInv'
  OBVIOUS
<1>0. now \in Nat
  BY DEF IInv, TypeOK
<1>1. CASE \E r \in Requests : Arrival(r) \/ Statement(r) \/ Failure(r)
  BY <1>1, ArrivalInvariant, StatementInvariant, FailureInvariant
<1>2. CASE Tick
  BY <1>0, <1>2, IdleStep DEF Tick
<1>3. CASE UNCHANGED vars
  <2>1. UNCHANGED <<table, now, pc, req, answer, held, past>>
    BY <1>3 DEF vars, table, past
  <2> QED BY <1>0, <2>1, IdleStep
<1> QED BY <1>1, <1>2, <1>3 DEF Next

\* The invariant of user-service: every action of Register, Login and Refresh
\* keeps it, and so does every failure.
THEOREM Invariance == Spec => []IInv
<1>1. Init => IInv
  BY InitInvariant
<1>2. IInv /\ [Next]_vars => IInv'
  BY NextInvariant
<1> QED BY <1>1, <1>2, PTL DEF Spec

-----------------------------------------------------------------------------

\* The types of tables and requests.
THEOREM TypeCorrect == Spec => []TypeOK
<1>1. IInv => TypeOK
  BY DEF IInv
<1> QED BY <1>1, Invariance, PTL

\* However many registrations overlap, an email has one account.
THEOREM EmailsUnique == Spec => []OneAccountPerEmail
<1>1. IInv => OneAccountPerEmail
  BY DEF IInv
<1> QED BY <1>1, Invariance, PTL

\* Who is about to get tokens has shown the password of the account, or a token
\* that was made for it and had not expired when it was presented.
THEOREM TokensIssuedToOwner == Spec => []IssuedToOwner
<1>1. IInv => IssuedToOwner
  BY DEF IInv, IssuedToOwner, Position, MayIssue
<1> QED BY <1>1, Invariance, PTL

\* A token that was exchanged is never in the table again, unless its DELETE
\* failed: not even when requests that present it overlap.
THEOREM SpentTokensGone == Spec => []SpentIsGone
<1>1. IInv => SpentIsGone
  BY DEF IInv
<1> QED BY <1>1, Invariance, PTL
=============================================================================
