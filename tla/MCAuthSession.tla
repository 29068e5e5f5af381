--------------------------- MODULE MCAuthSession ---------------------------
(* Three requests of one user, who is signed in on the web. *)
EXTENDS AuthSession

CONSTANTS r1, r2, r3

Kinds(a, b, c) == [p \in Request |-> CASE p = r1 -> a [] p = r2 -> b [] OTHER -> c]

MCScenarios ==
    {Kinds("refresh", "refresh", last) : last \in {"refresh", "revoke", "logout", "login"}}
    \union {Kinds("login", "login", "login")}
    \union {Kinds("login", "refresh", last) : last \in EndingKind \union RevokingKind}
=============================================================================
