------------------------------ MODULE MCReleases ------------------------------
(* A small instance of ReleasePromotion for TLC. *)
EXTENDS ReleasePromotion, TLC

CONSTANTS a1, a2

\* Promotions with and without the gateway that fail, crash and are recovered, next to withdrawals; with
\* operators; with a journal that is torn and staff who edits,
\* and an APK that was built again.
Load(ops, n, apks, builds) == [ops |-> ops \union {"promote"}, promotions |-> n, apks |-> apks, builds |-> builds]
AllLoads == {Load({"recover", "plain", "gateway", "database"}, 2, {a1}, {1, 2}),
             Load({"withdraw", "plain", "gateway"}, 2, {a1}, {1, 2}),
             Load({"gateway", "desk", "prune"}, 2, {a1}, {1, 2}),
             Load({"plain", "gateway", "tear"}, 2, {a1, a2}, {1}),
             Load({"plain", "gateway", "admin"}, 2, {a1, a2}, {1})}
=============================================================================
