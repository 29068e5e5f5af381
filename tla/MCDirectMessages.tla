-------------------------- MODULE MCDirectMessages --------------------------
(* The instance: two users and two concurrent requests, of two keys.       *)
EXTENDS DirectMessages, TLC
CONSTANTS a, b
Sided == Permutations(Handlers) \union Permutations(Reqs)
Load(ops, messages) == [ops |-> ops, messages |-> messages]
AllLoads == {Load({"initiate", "accept", "decline", "recall"}, 3),
             Load({"initiate", "send", "recall"}, 3),
             Load({"initiate", "send", "read", "accept"}, 3),
             Load({"initiate", "accept", "archive"}, 2),
             Load({"initiate", "archive", "recall"}, 2),
             Load({"initiate", "follow", "recall"}, 2),
             Load({"initiate", "block", "accept"}, 2)}
=============================================================================
