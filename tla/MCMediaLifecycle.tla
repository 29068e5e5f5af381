--------------------------- MODULE MCMediaLifecycle ---------------------------
(* A small instance of MediaLifecycle for TLC. *)
EXTENDS MediaLifecycle

\* An honest upload whose queue fails; refused and undecodable files; stalled and lost jobs;
\* references that come and go over the days of grace.
AllLoads == {{"good", "confirm", "queue", "crash", "lose", "clean"},
             {"bad", "good", "corrupt", "confirm", "store", "clean"},
             {"good", "corrupt", "confirm", "stall", "store", "lose"},
             {"good", "confirm", "edit", "cascade", "clean", "store"}}
QueueLoad == {{"good", "confirm", "queue", "clean"}}
=============================================================================
