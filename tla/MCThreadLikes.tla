--------------------------- MODULE MCThreadLikes ---------------------------
(* Two users like the thread, two instances deliver.  The listeners do not *)
(* share state, so a behaviour runs one of them, with what disturbs it.    *)
EXTENDS ThreadLikes, TLC

Swaps == Permutations(Users) \union Permutations(Workers)

Notify == [ops |-> {"like", "read", "delete", "fault"}, listeners |-> {"notify"}]
Repeat == [ops |-> {"like", "unlike", "fault"}, listeners |-> {"notify"}]
Refuse == [ops |-> {"like", "block", "remove"}, listeners |-> {"notify"}]
Count == [ops |-> {"like", "unlike", "remove", "fault", "publish", "rebuild"}, listeners |-> {"cache"}]

AllLoads == {Notify, Repeat, Refuse, Count}
RepeatLoad == {Repeat}
=============================================================================
