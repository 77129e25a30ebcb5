------------------------------ MODULE MCSessions ------------------------------
(* RefreshTokens for TLC: one device that signs in, refreshes and changes   *)
(* its password, or two users who sign in, refresh and log out on two       *)
(* devices, with a soft-revoked row.  Requests of a device take turns.      *)
EXTENDS RefreshTokens, TLC

VARIABLE side

Device == CHOOSE b \in Browsers : TRUE
Account == CHOOSE u \in Users : TRUE

\* Users and devices are interchangeable, so the soft-revoked rows belong to
\* the others and only this device may still hold one.
MCInit ==
    /\ Init
    /\ side \in {"one device", "two devices"}
    /\ \A t \in Legacy : owner[t] # Account
    /\ \A b \in Browsers : jar[b] # NONE => side = "two devices" /\ b = Device

OneDevice ==
    /\ \/ \E r \in Requests : BrowserStep(Device, r) \/ ServerStep(r)
       \/ Environment
    /\ \A r \in Requests : req'[r].user \in {Account, NONE} /\ req'[r].pc \notin LogoutPcs
    /\ lapsed' \cup barred' \subseteq (Tokens \ Legacy) \cup {Account}

TwoDevices ==
    /\ \E r \in Requests : ServerStep(r) \/ \E b \in Browsers : BrowserStep(b, r)
    /\ \A r \in Requests : req'[r].pc # "deleteAll"
    /\ Cardinality(issued' \ Legacy) <= 2

MCNext ==
    /\ \/ side = "one device" /\ OneDevice
       \/ side = "two devices" /\ TwoDevices
    /\ UNCHANGED side

MCSpec == MCInit /\ [][MCNext]_<<vars, side>>

Symmetry == Permutations(Requests) \cup Permutations(Tokens \ Legacy)
=============================================================================
