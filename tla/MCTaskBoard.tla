---------------------------- MODULE MCTaskBoard ----------------------------
(* TLC instances of TaskBoard. *)
EXTENDS TaskBoard, TLC

CONSTANTS t1, t2, t3, todo, done

\* Boards of two or three cards, one of each kind that differ only in the names
\* of the cards and columns; the third row may be one that was deleted before its
\* position was given away again.
Rank(b, t) ==
    (IF b[t].state = "absent" THEN 2 * (MaxPos + 2) ELSE 0)
    + (IF b[t].status = todo THEN 0 ELSE MaxPos + 2) + b[t].position

Boards ==
    {b \in [Tasks -> {[state |-> "absent", status |-> todo, position |-> 0]}
                     \cup [state : {"live", "deleted"}, status : Statuses,
                           position : 0 .. MaxPos]] :
        /\ InOrder(b)
        /\ Rank(b, t1) <= Rank(b, t2) /\ Rank(b, t2) <= Rank(b, t3)
        /\ b[t1].state = "live" /\ b[t2].state = "live" /\ b[t2].status = todo
        /\ b[t3].state = "deleted" => b[t3].position = b[t2].position}

=============================================================================
