------------------------------- MODULE Moments -------------------------------
(***************************************************************************)
(* One moment with its comments, likes and bookmarks and the three         *)
(* counters kept beside them (src/src/moments).                            *)
(*                                                                         *)
(* Every write holds the row lock of the moment from its first read to its *)
(* commit, so each is one step.  Editing, media, bookmark folders, blocks  *)
(* and deactivated accounts are left out.                                  *)
(***************************************************************************)
EXTENDS Naturals, FiniteSets

CONSTANTS Users, Author, Staff, Comments, None

ASSUME MomentsAssumption == Author \in Users /\ Staff \subseteq Users /\ None \notin Comments

\* "hidden" is a removal with removalSource ADMIN, "gone" one by the author or the owner.
VARIABLES moment,    \* [state, comments, likes, marks]: the row and its counters
          comments,  \* comment -> [state, by, root]
          likes, marks   \* the users with a row in moment_likes, moment_bookmarks

content == <<moment, comments, likes, marks>>

MomentsInit ==
    /\ moment = [state |-> "live", comments |-> 0, likes |-> 0, marks |-> 0]
    /\ comments = [c \in Comments |-> [state |-> "none", by |-> None, root |-> None]]
    /\ likes = {} /\ marks = {}

Live == moment.state = "live"
RootState(c) == IF comments[c].root = None THEN "live" ELSE comments[comments[c].root].state
Shown(c) == comments[c].state = "live" /\ RootState(c) # "hidden"

\* A reply belongs to the root of what it answers; a root its author removed still takes replies.
CreateComment(u, c, to) ==
    /\ Live /\ comments[c].state = "none"
    /\ to # None => Shown(to)
    /\ comments' = [comments EXCEPT ![c] =
           [state |-> "live", by |-> u,
            root |-> IF to # None /\ comments[to].root # None THEN comments[to].root ELSE to]]
    /\ moment' = [moment EXCEPT !.comments = @ + 1]
    /\ UNCHANGED <<likes, marks>>

\* Staff removing another's comment hides it; the owner of the moment and the author end it.
RemoveState(u, owner) == IF u \in Staff /\ u # owner THEN "hidden" ELSE "gone"

\* Mutant: the early return is lost.
BugRemovable(c) == Live /\ comments[c].state \in {"live", "gone"} /\ RootState(c) # "hidden"

\* A removal that is repeated changes nothing: if (comment.deletedAt) return.
Removable(c) == Live /\ Shown(c)

RemoveComment(u, c) ==
    /\ Removable(c) /\ u \in {comments[c].by, Author} \cup Staff
    /\ comments' = [comments EXCEPT ![c].state = RemoveState(u, comments[c].by)]
    /\ moment' = [moment EXCEPT !.comments = @ - 1]
    /\ UNCHANGED <<likes, marks>>

RemoveMoment(u) ==
    /\ Live /\ u \in {Author} \cup Staff
    /\ moment' = [moment EXCEPT !.state = RemoveState(u, Author)]
    /\ UNCHANGED <<comments, likes, marks>>

\* The counter follows only a row that was really created or deleted.
SetLike(u, active) ==
    /\ Live /\ active # (u \in likes)
    /\ likes' = IF active THEN likes \cup {u} ELSE likes \ {u}
    /\ moment' = [moment EXCEPT !.likes = IF active THEN @ + 1 ELSE @ - 1]
    /\ UNCHANGED <<comments, marks>>

SetMark(u, active) ==
    /\ Live /\ active # (u \in marks)
    /\ marks' = IF active THEN marks \cup {u} ELSE marks \ {u}
    /\ moment' = [moment EXCEPT !.marks = IF active THEN @ + 1 ELSE @ - 1]
    /\ UNCHANGED <<comments, likes>>

(***************************************************************************)
(* Properties.                                                             *)
(***************************************************************************)

\* The counters shown with a moment are the numbers of its rows, through every removal by an
\* author, an owner or staff, every hiding and every restoration, while the moment is hidden too.
CountsMatch ==
    /\ moment.comments = Cardinality({c \in Comments : comments[c].state = "live"})
    /\ moment.likes = Cardinality(likes)
    /\ moment.marks = Cardinality(marks)
=============================================================================
