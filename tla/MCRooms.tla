------------------------------- MODULE MCRooms -------------------------------
(* Small watch-party rooms for TLC: who hosts and is present, and what      *)
(* plays next.  The two share no state, so each is explored by itself.      *)
(* Both use the same instances and slots, which serve symmetry.             *)
EXTENDS RoomControl, RoomMedia

VARIABLE side

mcVars == <<vars, mediaVars, side>>

MCInit ==
    /\ Init /\ MediaInit
    /\ \/ side = "hosts" /\ mediaRow.queue = <<>>
       \/ side = "media" /\ row.hostId = (CHOOSE u \in Users : TRUE) /\ ~row.isPrivate

MCNext ==
    \/ side = "hosts" /\ Next /\ UNCHANGED <<mediaVars, side>>
    \/ side = "media" /\ MediaNext /\ UNCHANGED <<vars, side>>

MCSpec == MCInit /\ [][MCNext]_mcVars

\* Types of both.
RoomsTypeOK == TypeOK /\ MediaTypeOK

Symmetry ==
    UNION {Permutations(S) : S \in {Users, Instances, Slots}}
=============================================================================
