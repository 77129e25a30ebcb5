------------------------------ MODULE MCServices ------------------------------
(* What the rest of the platform does for its users, for TLC: movies from   *)
(* the sources and from the cache, emoji reactions, new accounts, rate      *)
(* limits, the watch history, watchlists and skip markers.  They share no   *)
(* state, so each is explored by itself.  The same model values serve       *)
(* several of them, for symmetry.                                           *)
EXTENDS MovieSources, MovieCache, Moments, AccountApproval, RateLimit,
        WatchHistory, Watchlists, SkipMarkers

VARIABLE side

mcVars == <<sourceVars, cacheVars, vars, approvalVars, rateVars, historyVars,
            watchlistVars, skipVars, side>>

Sides == {"sources", "cache", "moments", "accounts", "rate", "history", "watchlists", "skip"}

\* The sides that are not explored start in one state.
MCInit ==
    /\ side \in Sides
    /\ SourcesInit /\ CacheInit /\ Init /\ ApprovalInit /\ RateInit
    /\ HistoryInit /\ WatchlistsInit /\ SkipInit
    /\ side # "sources" => ask = CHOOSE r \in Asks : TRUE
    /\ side # "accounts" => ~user /\ status = "none"
    /\ side # "rate" => ~redis

MCNext ==
    \/ /\ side = "sources" /\ SourcesNext
       /\ UNCHANGED <<cacheVars, vars, approvalVars, rateVars,
                      historyVars, watchlistVars, skipVars, side>>
    \/ /\ side = "cache" /\ CacheNext
       /\ UNCHANGED <<sourceVars, vars, approvalVars, rateVars,
                      historyVars, watchlistVars, skipVars, side>>
    \/ /\ side = "moments" /\ Next
       /\ UNCHANGED <<sourceVars, cacheVars, approvalVars, rateVars,
                      historyVars, watchlistVars, skipVars, side>>
    \/ /\ side = "accounts" /\ ApprovalNext
       /\ UNCHANGED <<sourceVars, cacheVars, vars, rateVars,
                      historyVars, watchlistVars, skipVars, side>>
    \/ /\ side = "rate" /\ RateNext
       /\ UNCHANGED <<sourceVars, cacheVars, vars, approvalVars,
                      historyVars, watchlistVars, skipVars, side>>
    \/ /\ side = "history" /\ HistoryNext
       /\ UNCHANGED <<sourceVars, cacheVars, vars, approvalVars,
                      rateVars, watchlistVars, skipVars, side>>
    \/ /\ side = "watchlists" /\ WatchlistsNext
       /\ UNCHANGED <<sourceVars, cacheVars, vars, approvalVars,
                      rateVars, historyVars, skipVars, side>>
    \/ /\ side = "skip" /\ SkipNext
       /\ UNCHANGED <<sourceVars, cacheVars, vars, approvalVars,
                      rateVars, historyVars, watchlistVars, side>>

MCSpec == MCInit /\ [][MCNext]_mcVars

\* Types of all eight.
ServicesTypeOK ==
    /\ SourcesTypeOK /\ CacheTypeOK /\ TypeOK /\ ApprovalTypeOK /\ RateTypeOK
    /\ HistoryTypeOK /\ WatchlistsTypeOK /\ SkipTypeOK

Symmetry == Permutations(Servers) \cup Permutations(Requests)
=============================================================================
