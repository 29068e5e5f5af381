---------------------------- MODULE MCPostFanout ----------------------------
(* The thread's owner o and a fan f, besides the author; four kinds of post. *)
EXTENDS PostFanout, TLC

CONSTANTS o, f

None == [direct |-> {}, all |-> FALSE]
Name(us) == [direct |-> us, all |-> FALSE]
All == [direct |-> {}, all |-> TRUE]

Floor == [kind |-> "floor", content |-> Name({f}), role |-> "PARTICIPANT", player |-> TRUE,
          owner |-> o, managers |-> {o}, target |-> NoUser, carried |-> TRUE]
Body == [Floor EXCEPT !.kind = "body", !.content = All, !.role = "OWNER", !.owner = NoUser,
                      !.managers = {}]
Nested == [Floor EXCEPT !.kind = "nested", !.content = Name({o}), !.target = f, !.carried = FALSE]
Collab == [Floor EXCEPT !.kind = "nested", !.content = None, !.role = "COLLABORATOR",
                        !.target = o]

MCScenarios ==
    {[post |-> Floor, follows |-> {f}, marked |-> {o}, subscribed |-> {<<f, "USER">>}],
     [post |-> Body, follows |-> {}, marked |-> {f}, subscribed |-> {<<o, "THREAD">>}],
     [post |-> Body, follows |-> {}, marked |-> {}, subscribed |-> {}],
     [post |-> Nested, follows |-> {}, marked |-> {o}, subscribed |-> {<<f, "USER">>}],
     [post |-> Collab, follows |-> {}, marked |-> {o}, subscribed |-> {<<f, "THREAD">>, <<f, "USER">>}]}

Dispatchers == Permutations(Worker)

MCContents == {All, [direct |-> {f}, all |-> TRUE]}
=============================================================================
