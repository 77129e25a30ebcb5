------------------------------- MODULE Watchlists -------------------------------
(***************************************************************************)
(* The watchlists of one user and the links they are shared by             *)
(* (watchlists.service.ts, user-watchlists.repository.ts).                 *)
(*                                                                         *)
(* A device saves all the lists it knows in one transaction, which deletes *)
(* the others.  Sharing a list finds it and updates it in a second         *)
(* statement.  Names and slugs are left out.                               *)
(***************************************************************************)
EXTENDS Naturals

CONSTANTS
    ListKeys,
    Toggles,    \* requests to share or unshare a list
    MaxLinks    \* bound on the links made up

ASSUME WatchlistsAssumption == MaxLinks \in Nat

VARIABLES
    list,       \* row of each key, or NoList
    toggle,     \* requests between their two statements, or NoToggle
    links       \* links made up so far

watchlistVars == <<list, toggle, links>>

NoLink == 0
NoList == [stored |-> FALSE, isPublic |-> FALSE, shareId |-> NoLink]
Stored == [stored |-> TRUE, isPublic |-> FALSE, shareId |-> NoLink]
NoToggle == [pc |-> "idle"]

WatchlistsInit ==
    /\ list = [k \in ListKeys |-> NoList]
    /\ toggle = [t \in Toggles |-> NoToggle]
    /\ links = 0

\* Variant: what is saved is deleted and created anew.
SavedAnew(k, keys) == IF k \in keys THEN Stored ELSE NoList

\* upsertMany: the lists left out are deleted, new ones created; updating one
\* leaves its sharing alone.
Saved(k, keys) ==
    IF k \notin keys THEN NoList ELSE IF list[k].stored THEN list[k] ELSE Stored

SaveAll(keys) ==
    /\ list' = [k \in ListKeys |-> Saved(k, keys)]
    /\ UNCHANGED <<toggle, links>>

\* newShareId: 64 random bits.
FreshLink == links + 1

\* setSharing up to its second statement: the link of the list is kept, and one
\* is made up when a list without a link becomes public.
FindList(t, k, on) ==
    /\ toggle[t] = NoToggle
    /\ list[k].stored
    /\ LET fresh == on /\ list[k].shareId = NoLink IN
       /\ fresh => links < MaxLinks
       /\ links' = IF fresh THEN FreshLink ELSE links
       /\ toggle' = [toggle EXCEPT ![t] =
             [pc |-> "update", key |-> k, isPublic |-> on, seen |-> list[k].shareId,
              shareId |-> IF fresh THEN FreshLink ELSE list[k].shareId]]
    /\ UNCHANGED list

\* The update of a list deleted meanwhile fails; without a link the column is
\* left alone.
UpdateSharing(t) ==
    /\ toggle[t] # NoToggle
    /\ LET q == toggle[t] IN
       list' = IF ~list[q.key].stored THEN list
               ELSE [list EXCEPT ![q.key] =
                        [stored |-> TRUE, isPublic |-> q.isPublic,
                         shareId |-> IF q.shareId = NoLink THEN @.shareId ELSE q.shareId]]
    /\ toggle' = [toggle EXCEPT ![t] = NoToggle]
    /\ UNCHANGED links

ToggleFails(t) ==
    /\ toggle[t] # NoToggle
    /\ toggle' = [toggle EXCEPT ![t] = NoToggle]
    /\ UNCHANGED <<list, links>>

WatchlistsNext ==
    \/ \E keys \in SUBSET ListKeys : SaveAll(keys)
    \/ \E t \in Toggles, k \in ListKeys, on \in BOOLEAN : FindList(t, k, on)
    \/ \E t \in Toggles : UpdateSharing(t) \/ ToggleFails(t)

WatchlistsSpec == WatchlistsInit /\ [][WatchlistsNext]_watchlistVars

-----------------------------------------------------------------------------
(* Properties.                                                             *)

WatchlistsTypeOK ==
    /\ list \in [ListKeys -> [stored : BOOLEAN, isPublic : BOOLEAN, shareId : 0..MaxLinks]]
    /\ \A k \in ListKeys : ~list[k].stored => list[k] = NoList
    /\ links \in 0..MaxLinks
    /\ \A t \in Toggles : toggle[t] = NoToggle \/ toggle[t].shareId \in 0..MaxLinks

\* A link once given stays the link of its list across toggles and however
\* devices save ("the link id stays the same across toggles"), but for a request
\* that found another link than the list has now: of two requests that share a
\* list for the first time at once, the later one replaces the link given first.
LinkStays ==
    [][\A k \in ListKeys :
          list[k].shareId # NoLink /\ list'[k].stored /\ list'[k].shareId # list[k].shareId =>
             \E t \in Toggles : /\ toggle[t] # NoToggle /\ toggle[t].key = k
                                /\ toggle[t].seen # list[k].shareId
                                /\ list'[k].shareId = toggle[t].shareId]_watchlistVars
=============================================================================
