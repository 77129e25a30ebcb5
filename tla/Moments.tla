------------------------------- MODULE Moments -------------------------------
(***************************************************************************)
(* Emoji reactions on their way to the database: moments.service.ts and    *)
(* moment-reactions.repository.ts.                                         *)
(*                                                                         *)
(* A reaction is counted in memory under its key (movie, episode, bucket,  *)
(* emoji); a timer moves the counts to the database in one upsert.         *)
(* Reactions arrive while the upsert is under way, the upsert may fail     *)
(* before or after the database took it, and the process may stop.  The    *)
(* upsert only adds, so every instance is on its own: this is one.         *)
(***************************************************************************)
EXTENDS Naturals, FiniteSets, Functions

CONSTANTS
    Keys,           \* (movie, episode, bucket, emoji)
    MaxPending,     \* MAX_PENDING_KEYS
    MaxReactions,   \* bound on reactions recorded
    MaxFaults       \* bound on failed upserts, shutdowns and crashes

ASSUME KeysAssumption == IsFiniteSet(Keys)
ASSUME BoundsAssumption == MaxPending \in Nat /\ MaxReactions \in Nat /\ MaxFaults \in Nat

VARIABLES
    pending,    \* counts in memory; 0 stands for no entry
    flushing,   \* "no", or where the upsert is: "sent", "stored"
    batch,      \* the rows of the upsert under way
    stopping,   \* onModuleDestroy has run: "no", "draining" (it waits for a flush)
    table,      \* moment_reactions
    recorded,   \* history: reactions accepted by record()
    full,       \* history: counts dropped because MAX_PENDING_KEYS entries exist
    stopped,    \* history: counts in memory when the process ended
    twice,      \* history: counts sent again although the database had taken them
    faults      \* failed upserts, shutdowns and crashes so far

losses == <<full, stopped, twice>>
vars == <<pending, flushing, batch, stopping, table, recorded, losses, faults>>

None == [k \in Keys |-> 0]
Plus(f, g) == [k \in Keys |-> f[k] + g[k]]
Entries(f) == {k \in Keys : f[k] # 0}

Init ==
    /\ pending = None
    /\ flushing = "no"
    /\ batch = None
    /\ stopping = "no"
    /\ table = None
    /\ recorded = None
    /\ full = None
    /\ stopped = None
    /\ twice = None
    /\ faults = 0

\* Variant: the cap admits one entry more.
HasRoomForOneMore(k) == pending[k] # 0 \/ Cardinality(Entries(pending)) <= MaxPending

\* add: an existing entry always grows, a new one needs room.
HasRoom(k) == pending[k] # 0 \/ Cardinality(Entries(pending)) < MaxPending

MayRecord == FoldFunction(+, 0, recorded) < MaxReactions

Record(k) ==
    /\ MayRecord
    /\ recorded' = [recorded EXCEPT ![k] = @ + 1]
    /\ IF HasRoom(k)
       THEN pending' = [pending EXCEPT ![k] = @ + 1] /\ UNCHANGED full
       ELSE full' = [full EXCEPT ![k] = @ + 1] /\ UNCHANGED pending
    /\ UNCHANGED <<flushing, batch, stopping, table, stopped, twice, faults>>

\* Variant: the counts stay in memory while the upsert runs.
FlushWithoutClear ==
    /\ flushing = "no"
    /\ stopping = "no"
    /\ Entries(pending) # {}
    /\ batch' = pending
    /\ flushing' = "sent"
    /\ UNCHANGED <<pending, stopping, table, recorded, losses, faults>>

\* flushPending takes the counts before its await; a flush under way is shared.
Flush ==
    /\ flushing = "no"
    /\ stopping = "no"
    /\ Entries(pending) # {}
    /\ batch' = pending
    /\ pending' = None
    /\ flushing' = "sent"
    /\ UNCHANGED <<stopping, table, recorded, losses, faults>>

\* INSERT ... ON CONFLICT DO UPDATE SET count = count + EXCLUDED.count.
Store ==
    /\ flushing = "sent"
    /\ table' = Plus(table, batch)
    /\ flushing' = "stored"
    /\ UNCHANGED <<pending, batch, stopping, recorded, losses, faults>>

Flushed ==
    /\ flushing = "stored"
    /\ flushing' = "no"
    /\ batch' = None
    /\ UNCHANGED <<pending, stopping, table, recorded, losses, faults>>

Fault == faults < MaxFaults /\ faults' = faults + 1

\* The upsert fails, or its answer is lost: every row is added again, those
\* that need a new entry as long as there is room.
FlushFails ==
    /\ flushing # "no"
    /\ Fault
    /\ \E kept \in SUBSET Entries(batch) :
         LET new == kept \ Entries(pending) IN
         /\ Entries(batch) \cap Entries(pending) \subseteq kept
         /\ \/ kept = Entries(batch)
            \/ Cardinality(Entries(pending)) + Cardinality(new) >= MaxPending
         /\ new # {} => Cardinality(Entries(pending)) + Cardinality(new) <= MaxPending
         /\ pending' = [k \in Keys |-> IF k \in kept THEN pending[k] + batch[k] ELSE pending[k]]
         /\ full' = [k \in Keys |-> IF k \in kept THEN full[k] ELSE full[k] + batch[k]]
    /\ twice' = IF flushing = "stored" THEN Plus(twice, batch) ELSE twice
    /\ flushing' = "no"
    /\ batch' = None
    /\ UNCHANGED <<stopping, table, recorded, stopped>>

\* onModuleDestroy stops the timer and waits for one flush: the one under way,
\* or one it starts itself.
Shutdown ==
    /\ stopping = "no"
    /\ Fault
    /\ stopping' = "draining"
    /\ IF flushing = "no" /\ Entries(pending) # {}
       THEN batch' = pending /\ pending' = None /\ flushing' = "sent"
       ELSE UNCHANGED <<batch, pending, flushing>>
    /\ UNCHANGED <<table, recorded, losses>>

Forget ==
    /\ pending' = None
    /\ batch' = None
    /\ flushing' = "no"
    /\ stopping' = "no"
    /\ UNCHANGED <<table, recorded, full, twice>>

\* The process ends when that flush is over, and another one starts.
Exit ==
    /\ stopping = "draining"
    /\ flushing = "no"
    /\ stopped' = Plus(stopped, pending)
    /\ Forget
    /\ UNCHANGED faults

Crash ==
    /\ Fault
    /\ stopped' = Plus(stopped, IF flushing = "sent" THEN Plus(pending, batch) ELSE pending)
    /\ Forget

Next ==
    \/ \E k \in Keys : Record(k)
    \/ Flush
    \/ Store
    \/ Flushed
    \/ FlushFails
    \/ Shutdown
    \/ Exit
    \/ Crash

Spec == Init /\ [][Next]_vars

-----------------------------------------------------------------------------
(* Properties.                                                             *)

Counts == [Keys -> Nat]

\* Types of the counters.
TypeOK ==
    /\ pending \in Counts /\ batch \in Counts /\ table \in Counts
    /\ recorded \in Counts /\ full \in Counts /\ stopped \in Counts /\ twice \in Counts
    /\ flushing \in {"no", "sent", "stored"}
    /\ stopping \in {"no", "draining"}
    /\ faults \in Nat

\* The counts not yet in the table.
Underway == IF flushing = "sent" THEN Plus(pending, batch) ELSE pending

\* Every reaction is counted exactly once, in memory or in the table, but for
\* those dropped at the cap or by the end of the process, and those sent twice
\* because an error hid that the database had them (flushPending, add).
Conserved ==
    \A k \in Keys :
        table[k] + Underway[k] + full[k] + stopped[k] = recorded[k] + twice[k]

\* Memory stays bounded however long the database is down.
Bounded == Cardinality(Entries(pending)) <= MaxPending

=============================================================================
