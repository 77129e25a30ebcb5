--------------------------- MODULE PlaybackControl ---------------------------
(***************************************************************************)
(* What the watch party promises its controllers: the commands given       *)
(* through one server instance take effect one at a time, in the order     *)
(* they were given, each on the state its predecessor left.  The pauses    *)
(* and resumes the server itself gives are commands like any other.        *)
(*                                                                         *)
(* The exceptions the code makes on purpose: a seek gives way to the next  *)
(* seek (debounce) and to an episode change, an episode change or a resume *)
(* by the server overtakes a seek still being debounced, and a report that *)
(* the episode ended may find nothing to advance to.  An error or a        *)
(* restart loses commands.  Instances do not order their commands among    *)
(* each other: the mode a seek keeps may then be one that is gone.         *)
(***************************************************************************)
EXTENDS Naturals, Sequences, SequencesExt

CONSTANTS
    Instances,   \* server instances
    Times,       \* positions, named by the command that sets them
    NONE         \* no state committed yet

VARIABLES
    room,        \* what the room follows: a position and playing or paused
    waiting,     \* per instance: commands given and not yet in effect
    faults       \* errors and restarts so far

vars == <<room, waiting, faults>>

Modes == {"playing", "paused"}
EpisodeTypes == {"SWITCH", "NEXT"}
\* The server only pauses and resumes; a NEXT says from which episode it goes on.
Commands ==
    [type : {"PLAY", "PAUSE"}, time : Times, by : {"person", "server"}, from : {0}]
      \cup [type : {"SEEK", "SWITCH"}, time : Times, by : {"person"}, from : {0}]
      \cup [type : {"NEXT"}, time : Times, by : {"person"}, from : Times]

OneInstance == \A i, j \in Instances : i = j

\* The states a command may turn a state into.  A seek and a switch keep the
\* mode, on one instance; before the first commit it is that of the database row.
Effects(s, c) ==
    {[time |-> c.time, mode |-> m] : m \in
        CASE c.type \in {"PLAY", "NEXT"} -> {"playing"}
          [] c.type = "PAUSE" -> {"paused"}
          [] OTHER -> IF s # NONE /\ OneInstance THEN {s.mode} ELSE Modes}

Init ==
    /\ room = NONE
    /\ waiting = [i \in Instances |-> <<>>]
    /\ faults = 0

EndsInSeek(w) == w # <<>> /\ Last(w).type = "SEEK"

Give(i, c) ==
    /\ waiting' = [waiting EXCEPT ![i] = Append(@, c)]
    /\ UNCHANGED <<room, faults>>

\* The debounce: the last seek counts.
Replace(i, c) ==
    /\ c.type = "SEEK"
    /\ EndsInSeek(waiting[i])
    /\ waiting' = [waiting EXCEPT ![i] = Append(Front(@), c)]
    /\ UNCHANGED <<room, faults>>

Overtake(i, c) ==
    /\ c.type \in EpisodeTypes \/ (c.by = "server" /\ c.type = "PLAY")
    /\ EndsInSeek(waiting[i])
    /\ waiting' = [waiting EXCEPT ![i] = Front(@) \o <<c, Last(@)>>]
    /\ UNCHANGED <<room, faults>>

GiveWay(i) ==
    /\ Len(waiting[i]) > 1
    /\ Head(waiting[i]).type \in EpisodeTypes
    /\ EndsInSeek(waiting[i])
    /\ waiting' = [waiting EXCEPT ![i] = Front(@)]
    /\ UNCHANGED <<room, faults>>

Apply(i) ==
    /\ waiting[i] # <<>>
    /\ room' \in Effects(room, Head(waiting[i]))
    /\ waiting' = [waiting EXCEPT ![i] = Tail(@)]
    /\ UNCHANGED faults

NothingNext(i) ==
    /\ waiting[i] # <<>>
    /\ Head(waiting[i]).type = "NEXT"
    /\ waiting' = [waiting EXCEPT ![i] = Tail(@)]
    /\ UNCHANGED <<room, faults>>

Lose(i) ==
    /\ faults' = faults + 1
    /\ \E n \in 0..Len(waiting[i]) :
         waiting' = [waiting EXCEPT ![i] = SubSeq(@, n + 1, Len(@))]
    /\ UNCHANGED room

Settle(i) == Apply(i) \/ NothingNext(i)

Next ==
    \E i \in Instances :
        \/ \E c \in Commands : Give(i, c) \/ Replace(i, c) \/ Overtake(i, c)
        \/ GiveWay(i)
        \/ Settle(i)
        \/ Lose(i)

\* Every command given is settled: applied, superseded or lost to a fault.
Spec == Init /\ [][Next]_vars /\ \A i \in Instances : WF_vars(Settle(i))

=============================================================================
