----------------------------- MODULE MCEconomy -----------------------------
(* Two users, two contents; the first tip meets a copy of itself, the same    *)
(* key with another amount, or a tip in the opposite direction.               *)
EXTENDS Economy

CONSTANTS A, B, thread, moment, t1, t2, v1, v2, b1, f1, u1

MCRelOf == [b \in Relation |-> CASE b = b1 -> [op |-> "block", actor |-> B, target |-> A]
                                [] b = u1 -> [op |-> "unblock", actor |-> B, target |-> A]
                                [] OTHER -> [op |-> "follow", actor |-> A, target |-> B]]
MCHolder == Relation \union Tip \union Visit
MCWalletRank == [w \in Wallet |-> CASE w = A -> 3 [] w = B -> 1 [] OTHER -> 2]
MCKindOf == [c \in Content |-> IF c = thread THEN "THREAD" ELSE "MOMENT"]
MCOwnerOf == [c \in Content |-> B]
MCVisitorOf == [v \in Visit |-> A]
MCFunds == [w \in Wallet |-> IF w = Platform THEN 0 ELSE 4]

ToThread(key, amount) ==
    [sender |-> A, recipient |-> B, content |-> thread, amount |-> amount, key |-> key]
ToMoment(key, amount) == [ToThread(key, amount) EXCEPT !.content = moment]
ToUser(s, r, key, amount) ==
    [sender |-> s, recipient |-> r, content |-> NoRow, amount |-> amount, key |-> key]

Tips(first, second) == [t \in Tip |-> IF t = t1 THEN first ELSE second]

MCScenarios ==
    {[made |-> {t1, t2, v1}, tips |-> Tips(ToThread(1, 3), second)] :
        second \in {ToThread(1, 3), ToThread(1, 2), ToMoment(2, 3), ToUser(B, A, 1, 2),
                    ToUser(B, B, 1, 2)}}
    \union
    {[made |-> made, tips |-> Tips(ToThread(1, 3), ToUser(A, B, 2, 2))] :
        made \in {{t1, t2, b1}, {t1, v1, v2}, {b1, f1, v1}, {b1, u1, f1}}}
=============================================================================
