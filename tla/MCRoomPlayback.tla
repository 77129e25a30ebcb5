---------------------------- MODULE MCRoomPlayback ----------------------------
(* One room for TLC, with liveness: behaviours of people who give commands,  *)
(* and behaviours of viewers who buffer once a person pressed play.          *)
EXTENDS RoomBuffering

VARIABLE side

Commands ==
    \E i \in Instances : QueueStep(i) \/ RoomRestart(i)

Viewers ==
    \/ \E h \in Handlers : HandlerStep(h) \/ FailHandler(h)
    \/ \E s \in Sockets : Viewer(s) \/ Timer(s)

PlayOnce == sent = 0 /\ \E i \in Instances : Press(i, "PLAY")

MCInit == RoomInit /\ side \in {"commands", "viewers"}

MCNext ==
    /\ \/ Commands /\ side = "commands"
       \/ Commands /\ side = "viewers" /\ (sent' = sent \/ PlayOnce)
       \/ Viewers /\ side = "viewers"
    /\ UNCHANGED side

MCSpec == MCInit /\ [][MCNext]_<<roomVars, side>> /\ RoomFairness
=============================================================================
