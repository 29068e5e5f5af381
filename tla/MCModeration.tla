----------------------------- MODULE MCModeration -----------------------------
(* A small instance of Moderation for TLC. *)
EXTENDS Moderation, TLC

CONSTANTS c1, c2, guest

\* Contents with their counters; a comment and a moment under one case or report, then
\* an account under two cases, and under cases, reports, direct sanctions, their
\* revocation and logins.
Load(targets, ops, n) == [targets |-> targets, ops |-> ops, cases |-> n]
AllLoads == {Load({TheMoment, c1, c2}, {"comment", "close", "like", "staff"}, 0),
             Load({c1}, {"comment", "report", "case", "appeal"}, 1),
             Load({c1}, {"comment", "close", "staff", "report", "handle"}, 1),
             Load({TheMoment}, {"close", "staff", "report", "case", "appeal"}, 1),
             Load({guest}, {"staff", "login", "report", "case", "appeal"}, 1),
             Load({guest}, {"login", "report", "handle", "case"}, 1),
             Load({guest}, {"report", "case", "appeal"}, 2),
             Load({guest}, {"report", "case", "revoke"}, 2),
             Load({guest}, {"staff", "login", "revoke"}, 0)}

Symmetric == Permutations(Handlers)
=============================================================================
