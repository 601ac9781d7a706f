--------------------------- MODULE MCUserService ---------------------------
(***************************************************************************)
(* Two requests at once.  No definition tells requests, emails, passwords, *)
(* ids or tokens apart.                                                    *)
(***************************************************************************)
EXTENDS UserService, TLC

Symmetric == Permutations(Requests) \cup Permutations(Emails) \cup Permutations(Passwords)
               \cup Permutations(UserIds) \cup Permutations(Tokens)
=============================================================================
