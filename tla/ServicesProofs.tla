---------------------------- MODULE ServicesProofs ----------------------------
(* Proofs about the services that keep a few rows or counters each and     *)
(* share no state: emoji reactions, accounts, rate limits, the watch       *)
(* history, watchlists; and about all services side by side.                *)
EXTENDS MCServices, MoviesProofs, FiniteSetTheorems, TLAPS

-----------------------------------------------------------------------------
(* Moments, for every set of keys and every bound.                         *)

USE KeysAssumption, BoundsAssumption

\* What is proved of the counters, one action at a time.
MomentsInv == TypeOK /\ Conserved

\* Sums of counters are counters.
LEMMA PlusType ==
  ASSUME NEW f \in Counts, NEW g \in Counts
  PROVE  /\ Plus(f, g) \in Counts
         /\ \A k \in Keys : Plus(f, g)[k] = f[k] + g[k]
BY DEF Counts, Plus

\* A process starts without counts, and every action keeps them conserved.
LEMMA MomentsStart == Init => MomentsInv
BY DEF Init, MomentsInv, TypeOK, Conserved, Counts, None, Underway

LEMMA MomentsSteps == MomentsInv /\ [Next]_vars => MomentsInv'
<1> SUFFICES ASSUME MomentsInv, [Next]_vars
             PROVE  MomentsInv'
  OBVIOUS
<1> USE DEF MomentsInv
<1>1. ASSUME NEW k \in Keys, Record(k)
      PROVE  MomentsInv'
  <2>1. TypeOK'
    BY <1>1 DEF TypeOK, Counts, Record
  <2>2. Conserved'
    <3>1. CASE HasRoom(k)
      <4>1. /\ pending' = [pending EXCEPT ![k] = @ + 1]
            /\ recorded' = [recorded EXCEPT ![k] = @ + 1]
            /\ UNCHANGED <<flushing, batch, table, full, stopped, twice>>
        BY <1>1, <3>1 DEF Record
      <4>2. CASE flushing = "sent"
        BY <4>1, <4>2 DEF TypeOK, Counts, Conserved, Underway, Plus
      <4>3. CASE flushing # "sent"
        BY <4>1, <4>3 DEF TypeOK, Counts, Conserved, Underway
      <4> QED BY <4>2, <4>3
    <3>2. CASE ~HasRoom(k)
      <4>1. /\ full' = [full EXCEPT ![k] = @ + 1]
            /\ recorded' = [recorded EXCEPT ![k] = @ + 1]
            /\ UNCHANGED <<flushing, batch, table, pending, stopped, twice>>
        BY <1>1, <3>2 DEF Record
      <4>2. Underway' = Underway
        BY <4>1 DEF Underway, Plus
      <4>3. Underway \in Counts
        BY PlusType DEF Underway, TypeOK
      <4>4. ASSUME NEW j \in Keys
            PROVE  table'[j] + Underway'[j] + full'[j] + stopped'[j] = recorded'[j] + twice'[j]
        <5>1. /\ table[j] \in Nat /\ Underway[j] \in Nat /\ full[j] \in Nat
              /\ stopped[j] \in Nat /\ recorded[j] \in Nat /\ twice[j] \in Nat
          BY <4>3 DEF TypeOK, Counts
        <5>2. table[j] + Underway[j] + full[j] + stopped[j] = recorded[j] + twice[j]
          BY DEF Conserved
        <5>3. \/ full'[j] = full[j] /\ recorded'[j] = recorded[j]
              \/ full'[j] = full[j] + 1 /\ recorded'[j] = recorded[j] + 1
          BY <4>1 DEF TypeOK, Counts
        <5>4. /\ table'[j] = table[j] /\ Underway'[j] = Underway[j]
              /\ stopped'[j] = stopped[j] /\ twice'[j] = twice[j]
          BY <4>1, <4>2
        <5> QED BY <5>1, <5>2, <5>3, <5>4
      <4> QED BY <4>4 DEF Conserved
    <3> QED BY <3>1, <3>2
  <2> QED BY <2>1, <2>2
<1>2. CASE Flush
  <2>1. TypeOK'
    BY <1>2 DEF TypeOK, Counts, Flush, None, losses
  <2>2. Conserved'
    BY <1>2 DEF TypeOK, Counts, Flush, None, losses, Conserved, Underway, Plus
  <2> QED BY <2>1, <2>2
<1>3. CASE Store
  <2>1. TypeOK'
    BY <1>3, PlusType DEF TypeOK, Store, losses
  <2>2. Conserved'
    BY <1>3 DEF TypeOK, Counts, Store, losses, Conserved, Underway, Plus
  <2> QED BY <2>1, <2>2
<1>4. CASE Flushed
  <2>1. TypeOK'
    BY <1>4 DEF TypeOK, Counts, Flushed, None, losses
  <2>2. Conserved'
    BY <1>4 DEF TypeOK, Counts, Flushed, losses, Conserved, Underway
  <2> QED BY <2>1, <2>2
<1>5. CASE FlushFails
  <2>1. PICK kept \in SUBSET Entries(batch) :
          /\ pending' = [k \in Keys |-> IF k \in kept THEN pending[k] + batch[k] ELSE pending[k]]
          /\ full' = [k \in Keys |-> IF k \in kept THEN full[k] ELSE full[k] + batch[k]]
    BY <1>5 DEF FlushFails
  <2>2. TypeOK'
    <3>1. pending' \in Counts /\ full' \in Counts
      BY <2>1 DEF TypeOK, Counts
    <3>2. twice' \in Counts
      BY <1>5, PlusType DEF FlushFails, TypeOK
    <3> QED BY <1>5, <3>1, <3>2 DEF FlushFails, Fault, TypeOK, Counts, None
  <2>3. ASSUME NEW k \in Keys
        PROVE  table'[k] + Underway'[k] + full'[k] + stopped'[k] = recorded'[k] + twice'[k]
    <3>1. /\ pending[k] \in Nat /\ batch[k] \in Nat /\ full[k] \in Nat /\ twice[k] \in Nat
          /\ table[k] \in Nat /\ stopped[k] \in Nat /\ recorded[k] \in Nat
          /\ pending'[k] \in Nat /\ full'[k] \in Nat
      BY <2>2 DEF TypeOK, Counts
    <3>2. pending'[k] + full'[k] = pending[k] + batch[k] + full[k]
      <4>1. CASE k \in kept
        BY <2>1, <3>1, <4>1
      <4>2. CASE k \notin kept
        BY <2>1, <3>1, <4>2
      <4> QED BY <4>1, <4>2
    <3>3. /\ table'[k] = table[k] /\ recorded'[k] = recorded[k]
          /\ stopped'[k] = stopped[k] /\ Underway'[k] = pending'[k]
      BY <1>5 DEF FlushFails, Underway
    <3>4. table[k] + Underway[k] + full[k] + stopped[k] = recorded[k] + twice[k]
      BY DEF Conserved
    <3>5. CASE flushing = "sent"
      <4>1. Underway[k] = pending[k] + batch[k]
        BY <3>5 DEF Underway, Plus
      <4>2. twice'[k] = twice[k]
        BY <1>5, <3>5 DEF FlushFails
      <4> QED BY <3>1, <3>2, <3>3, <3>4, <4>1, <4>2
    <3>6. CASE flushing = "stored"
      <4>1. Underway[k] = pending[k]
        BY <3>6 DEF Underway
      <4>2. twice'[k] = twice[k] + batch[k]
        BY <1>5, <3>6 DEF FlushFails, Plus
      <4> QED BY <3>1, <3>2, <3>3, <3>4, <4>1, <4>2
    <3> QED BY <1>5, <3>5, <3>6 DEF FlushFails, TypeOK
  <2>4. Conserved'
    BY <2>3 DEF Conserved
  <2> QED BY <2>2, <2>4
<1>6. CASE Shutdown
  <2>1. TypeOK'
    BY <1>6 DEF TypeOK, Counts, Shutdown, Fault, None, losses
  <2>2. Conserved'
    BY <1>6 DEF TypeOK, Counts, Shutdown, None, losses, Conserved, Underway, Plus
  <2> QED BY <2>1, <2>2
<1>7. CASE Exit
  <2>1. TypeOK'
    BY <1>7, PlusType DEF TypeOK, Counts, Exit, Forget, None
  <2>2. Conserved'
    BY <1>7 DEF TypeOK, Counts, Exit, Forget, None, Conserved, Underway, Plus
  <2> QED BY <2>1, <2>2
<1>8. CASE Crash
  <2>1. Underway \in Counts
    BY PlusType DEF Underway, TypeOK
  <2>2. stopped' = Plus(stopped, Underway)
    BY <1>8 DEF Crash, Underway
  <2>3. TypeOK'
    BY <1>8, <2>1, <2>2, PlusType DEF TypeOK, Counts, Crash, Fault, Forget, None
  <2>4. Conserved'
    BY <1>8, <2>1, <2>2 DEF TypeOK, Counts, Crash, Forget, None, Conserved, Underway, Plus
  <2> QED BY <2>3, <2>4
<1>9. CASE UNCHANGED vars
  BY <1>9 DEF TypeOK, Conserved, Underway, Plus, vars, losses
<1> QED BY <1>1, <1>2, <1>3, <1>4, <1>5, <1>6, <1>7, <1>8, <1>9 DEF Next

\* The counters stay natural numbers and the process in a known state.
THEOREM CountersTyped == Spec => []TypeOK
<1>1. MomentsInv => TypeOK
  BY DEF MomentsInv
<1> QED BY <1>1, MomentsStart, MomentsSteps, PTL DEF Spec

\* Every reaction is counted exactly once but for the counts the histories name.
THEOREM ReactionsConserved == Spec => []Conserved
<1>1. MomentsInv => Conserved
  BY DEF MomentsInv
<1> QED BY <1>1, MomentsStart, MomentsSteps, PTL DEF Spec

-----------------------------------------------------------------------------
\* The entries are finitely many, and none remain in an emptied map.
LEMMA EntriesFinite ==
  ASSUME NEW f
  PROVE  IsFiniteSet(Entries(f)) /\ Cardinality(Entries(f)) \in Nat
<1>1. Entries(f) \subseteq Keys
  BY DEF Entries
<1> QED BY <1>1, FS_Subset, FS_CardinalityType

LEMMA NoneEmpty == Cardinality(Entries(None)) = 0
<1>1. Entries(None) = {}
  BY DEF Entries, None
<1> QED BY <1>1, FS_EmptySet

\* Every action respects MAX_PENDING_KEYS, the return of a failed batch included.
LEMMA StepBounded == TypeOK /\ Bounded /\ [Next]_vars => Bounded'
<1> SUFFICES ASSUME TypeOK, Bounded, [Next]_vars
             PROVE  Bounded'
  OBVIOUS
<1>1. ASSUME NEW k \in Keys, Record(k)
      PROVE  Bounded'
  <2>1. CASE HasRoom(k) /\ pending[k] = 0
    <3>1. pending' = [pending EXCEPT ![k] = @ + 1]
      BY <1>1, <2>1 DEF Record
    <3>2. Entries(pending') = Entries(pending) \cup {k}
      BY <2>1, <3>1 DEF Entries, TypeOK, Counts
    <3>3. Cardinality(Entries(pending')) = Cardinality(Entries(pending)) + 1
      <4>1. k \notin Entries(pending)
        BY <2>1 DEF Entries
      <4> QED BY <3>2, <4>1, EntriesFinite, FS_AddElement
    <3>4. Cardinality(Entries(pending)) < MaxPending
      BY <2>1 DEF HasRoom
    <3> QED BY <3>3, <3>4, EntriesFinite DEF Bounded
  <2>2. CASE HasRoom(k) /\ pending[k] # 0
    <3>1. pending' = [pending EXCEPT ![k] = @ + 1]
      BY <1>1, <2>2 DEF Record
    <3>2. Entries(pending') = Entries(pending)
      BY <2>2, <3>1 DEF Entries, TypeOK, Counts
    <3> QED BY <3>2 DEF Bounded
  <2>3. CASE ~HasRoom(k)
    BY <1>1, <2>3 DEF Record, Bounded
  <2> QED BY <2>1, <2>2, <2>3
<1>2. CASE FlushFails
  <2>1. PICK kept \in SUBSET Entries(batch) :
          LET new == kept \ Entries(pending) IN
          /\ Entries(batch) \cap Entries(pending) \subseteq kept
          /\ new # {} => Cardinality(Entries(pending)) + Cardinality(new) <= MaxPending
          /\ pending' = [k \in Keys |-> IF k \in kept THEN pending[k] + batch[k] ELSE pending[k]]
    BY <1>2 DEF FlushFails
  <2> DEFINE new == kept \ Entries(pending)
  <2>2. Entries(pending') = Entries(pending) \cup new
    BY <2>1 DEF Entries, TypeOK, Counts
  <2>3. CASE new = {}
    BY <2>2, <2>3 DEF Bounded
  <2>4. CASE new # {}
    <3>1. IsFiniteSet(new)
      <4>1. new \subseteq Keys
        BY DEF Entries
      <4> QED BY <4>1, FS_Subset
    <3>2. Cardinality(Entries(pending) \cup new)
            = Cardinality(Entries(pending)) + Cardinality(new)
      <4>1. Entries(pending) \cap new = {}
        OBVIOUS
      <4>2. Cardinality(Entries(pending) \cup new)
              = Cardinality(Entries(pending)) + Cardinality(new)
                - Cardinality(Entries(pending) \cap new)
        BY <3>1, EntriesFinite, FS_Union
      <4>3. Cardinality(Entries(pending) \cap new) = 0
        BY <4>1, FS_EmptySet
      <4>4. Cardinality(new) \in Nat
        BY <3>1, FS_CardinalityType
      <4> HIDE DEF new
      <4> QED BY <4>2, <4>3, <4>4, EntriesFinite
    <3>3. Cardinality(Entries(pending)) + Cardinality(new) <= MaxPending
      BY <2>1, <2>4
    <3> HIDE DEF new
    <3> QED BY <2>2, <3>2, <3>3 DEF Bounded
  <2> QED BY <2>3, <2>4
<1>3. ASSUME pending' = None
      PROVE  Bounded'
  BY <1>3, NoneEmpty DEF Bounded
<1>4. ASSUME UNCHANGED pending
      PROVE  Bounded'
  BY <1>4 DEF Bounded
<1>5. CASE Flush \/ Exit \/ Crash
  BY <1>5, <1>3 DEF Flush, Exit, Crash, Forget
<1>6. CASE Store \/ Flushed \/ UNCHANGED vars
  BY <1>6, <1>4 DEF Store, Flushed, vars
<1>7. CASE Shutdown
  BY <1>7, <1>3, <1>4 DEF Shutdown
<1> QED BY <1>1, <1>2, <1>5, <1>6, <1>7 DEF Next

\* Memory holds at most MAX_PENDING_KEYS entries, however long the database fails.
THEOREM MemoryBounded == Spec => []Bounded
<1>1. Init => Bounded
  BY NoneEmpty DEF Init, Bounded
<1> QED BY <1>1, CountersTyped, StepBounded, PTL DEF Spec

-----------------------------------------------------------------------------
(* AccountApproval, for any number of requests and of values of the state  *)
(* parameter.                                                              *)

SignInRequests == [SignIns -> [pc : SignInPcs, by : {"login", "register", "google"}, new : BOOLEAN]]

\* A request that works on the profile does so for a user who exists.
Profiling == {"profile", "rename", "insert", "reread", "force"}
UserKnown == \A r \in SignIns : signIn[r].pc \in Profiling => user

\* A state is spent before the sign-in it lets through goes on.
StatesSpent == \A s \in OAuthStates : oauth[s] # "gone" => exchanges[s] = 0

\* An account told to wait is not approved.
HeldStatus == held => status \in {"pending", "rejected"}

AccountInv == ApprovalTypeOK /\ UserKnown /\ HeldStatus /\ HeldBack
StateInv == ApprovalTypeOK /\ StatesSpent /\ OneSignInPerState

LEMMA ApprovalInitInv == ApprovalInit => AccountInv /\ StateInv
<1> SUFFICES ASSUME ApprovalInit
             PROVE  AccountInv /\ StateInv
  OBVIOUS
<1>1. NoSignIn \in [pc : SignInPcs, by : {"login", "register", "google"}, new : BOOLEAN]
  BY DEF NoSignIn, SignInPcs
<1>2. NoSignIn.pc \notin Profiling
  BY DEF NoSignIn, Profiling
<1>3. ApprovalTypeOK
  BY <1>1 DEF ApprovalInit, ApprovalTypeOK, Statuses
<1>4. UserKnown
  BY <1>2 DEF ApprovalInit, UserKnown
<1>5. HeldStatus /\ HeldBack /\ StatesSpent /\ OneSignInPerState
  BY DEF ApprovalInit, HeldStatus, HeldBack, StatesSpent, OneSignInPerState
<1> QED BY <1>3, <1>4, <1>5 DEF AccountInv, StateInv

\* A request that moves on or ends leaves the others where they are.
LEMMA StepMoves ==
  ASSUME ApprovalTypeOK, NEW r \in SignIns, NEW p \in SignInPcs, Step(r, p)
  PROVE  /\ signIn' \in SignInRequests
         /\ signIn'[r].pc = p
         /\ \A q \in SignIns : q # r => signIn'[q] = signIn[q]
<1>1. signIn \in SignInRequests
  BY DEF ApprovalTypeOK, SignInRequests
<1>2. CASE p = "idle"
  <2>1. NoSignIn \in [pc : SignInPcs, by : {"login", "register", "google"}, new : BOOLEAN]
    BY DEF NoSignIn, SignInPcs
  <2>2. NoSignIn.pc = "idle" /\ signIn' = [signIn EXCEPT ![r] = NoSignIn]
    BY <1>2 DEF NoSignIn, Step, Done
  <2> QED BY <1>1, <1>2, <2>1, <2>2 DEF SignInRequests
<1>3. CASE p # "idle"
  BY <1>1, <1>3 DEF Step, SignInRequests
<1> QED BY <1>2, <1>3

\* So a step of a request keeps the invariant when the account does not
\* contradict it afterwards.
LEMMA StepKeeps ==
  ASSUME AccountInv, NEW r \in SignIns, NEW p \in SignInPcs, Step(r, p), served' = "nobody",
         user => user', p \in Profiling => user', user' \in BOOLEAN, held' \in BOOLEAN,
         status' \in Statuses \cup {"none"}, status' # "none" => user',
         held' => status' \in {"pending", "rejected"},
         token' \in BOOLEAN, socket' \in BOOLEAN, UNCHANGED stateVars
  PROVE  AccountInv'
<1>1. /\ signIn' \in SignInRequests
      /\ signIn'[r].pc = p
      /\ \A q \in SignIns : q # r => signIn'[q] = signIn[q]
  BY StepMoves DEF AccountInv
<1>2. ApprovalTypeOK'
  BY <1>1 DEF AccountInv, ApprovalTypeOK, SignInRequests, stateVars
<1>3. UserKnown'
  BY <1>1 DEF AccountInv, UserKnown
<1>4. HeldStatus' /\ HeldBack'
  BY DEF HeldStatus, HeldBack
<1> QED BY <1>2, <1>3, <1>4 DEF AccountInv

\* What follows ensureProfile: a handler that ends told a pending account to wait.
LEMMA EnsuredKeeps ==
  ASSUME AccountInv, NEW r \in SignIns, NEW s, Ensured(r, s), user,
         UNCHANGED <<user, sessionVars, stateVars>>, served' = "nobody", status' = s, s \in Statuses \cup {"none"},
         held => s \in {"pending", "rejected"}
  PROVE  AccountInv'
<1>1. AfterEnsure(r, s) \in {"force", "issue", "idle"}
  BY DEF AfterEnsure
<1>2. AfterEnsure(r, s) = "idle" => signIn[r].by # "register"
  BY DEF AfterEnsure
<1>3. held' \in BOOLEAN /\ (held' => s \in {"pending", "rejected"})
  BY <1>2 DEF Ensured, AccountInv, ApprovalTypeOK
<1>4. AfterEnsure(r, s) \in SignInPcs /\ Step(r, AfterEnsure(r, s))
  BY <1>1 DEF SignInPcs, Ensured
<1>5. token' \in BOOLEAN /\ socket' \in BOOLEAN
  BY DEF AccountInv, ApprovalTypeOK, sessionVars
<1> QED BY <1>3, <1>4, <1>5, StepKeeps DEF AccountInv, ApprovalTypeOK

\* The actions of one request after its entry.
LEMMA SignInKeeps ==
  ASSUME AccountInv, NEW r \in SignIns, SignInStep(r)
  PROVE  AccountInv'
<1>1. served' = "nobody"
  BY DEF SignInStep
<1>2. /\ ApprovalTypeOK /\ HeldStatus
      /\ signIn[r].pc \in Profiling => user
      /\ held => status # "none" /\ user
  BY DEF AccountInv, UserKnown, HeldStatus, ApprovalTypeOK
<1>3. \A p \in SignInPcs :
          Step(r, p) /\ UNCHANGED <<accountVars, stateVars>> /\ token' \in BOOLEAN
            /\ socket' \in BOOLEAN /\ (p \in Profiling => user) => AccountInv'
  <2> TAKE p \in SignInPcs
  <2> HAVE Step(r, p) /\ UNCHANGED <<accountVars, stateVars>> /\ token' \in BOOLEAN
             /\ socket' \in BOOLEAN /\ (p \in Profiling => user)
  <2> QED BY <1>1, <1>2, StepKeeps DEF accountVars, ApprovalTypeOK, HeldStatus
<1>4. /\ "idle" \in SignInPcs \ Profiling /\ "issue" \in SignInPcs \ Profiling
      /\ "find" \in SignInPcs \ Profiling /\ "create" \in SignInPcs \ Profiling
      /\ "again" \in SignInPcs \ Profiling
      /\ Profiling \subseteq SignInPcs
  BY DEF SignInPcs, Profiling
<1>5. Done(r) => Step(r, "idle")
  BY DEF Step
<1>6. CASE Exchange(r) \/ FindAgain(r) \/ CheckLogin(r) \/ HandlerFails(r) \/ Issue(r)
  <2>1. token' \in BOOLEAN /\ socket' \in BOOLEAN
    BY <1>2, <1>6 DEF Exchange, FindAgain, CheckLogin, HandlerFails, Issue, ApprovalTypeOK, sessionVars
  <2>2. CASE FindAgain(r)
    <3>1. CASE user
      BY <1>3, <1>4, <2>1, <2>2, <3>1 DEF FindAgain, Profiling
    <3>2. CASE ~user
      BY <1>3, <1>4, <1>5, <2>1, <2>2, <3>2 DEF FindAgain
    <3> QED BY <3>1, <3>2
  <2>3. CASE CheckLogin(r)
    BY <1>3, <1>4, <1>5, <2>1, <2>3 DEF CheckLogin
  <2>4. CASE Exchange(r) \/ HandlerFails(r) \/ Issue(r)
    BY <1>3, <1>4, <1>5, <2>1, <2>4 DEF Exchange, HandlerFails, Issue
  <2> QED BY <1>6, <2>2, <2>3, <2>4
<1>7. CASE FindUser(r)
  <2>1. token' \in BOOLEAN /\ socket' \in BOOLEAN /\ UNCHANGED <<accountVars, stateVars>>
    BY <1>2, <1>7 DEF FindUser, ApprovalTypeOK, sessionVars
  <2>2. \/ Step(r, "create") \/ Done(r)
        \/ user /\ Step(r, "profile")
    BY <1>7 DEF FindUser
  <2>3. "profile" \in SignInPcs
    BY DEF SignInPcs
  <2> QED BY <1>3, <1>4, <1>5, <2>1, <2>2, <2>3
<1>8. CASE CreateUser(r)
  <2>1. CASE user
    <3>1. (Step(r, "again") \/ Done(r)) /\ UNCHANGED <<accountVars, sessionVars, stateVars>>
      BY <1>8, <2>1 DEF CreateUser, accountVars
    <3> QED BY <1>2, <1>3, <1>4, <1>5, <3>1 DEF ApprovalTypeOK, sessionVars
  <2>2. CASE ~user
    <3>1. /\ user' = TRUE /\ status' \in {status, "approved"} /\ ~held
          /\ signIn' = [signIn EXCEPT ![r].pc = "profile", ![r].new = TRUE]
          /\ UNCHANGED <<held, sessionVars, stateVars>>
      BY <1>2, <1>8, <2>2 DEF CreateUser
    <3>2. signIn' \in SignInRequests
      BY <1>2, <3>1 DEF ApprovalTypeOK, SignInRequests, SignInPcs
    <3> QED
      BY <1>1, <1>2, <3>1, <3>2 DEF AccountInv, ApprovalTypeOK, UserKnown, HeldStatus, HeldBack,
                                    SignInRequests, Statuses, stateVars, sessionVars
  <2> QED BY <2>1, <2>2
<1>9. CASE FindProfile(r) \/ Rename(r) \/ Reread(r)
  <2>1. user /\ UNCHANGED <<user, status, sessionVars, stateVars>>
    BY <1>2, <1>9 DEF FindProfile, Rename, Reread, At, Profiling
  <2>2. \/ Ensured(r, status)
        \/ (Step(r, "insert") \/ Step(r, "rename")) /\ UNCHANGED held
    BY <1>9 DEF FindProfile, Rename, Reread
  <2>3. CASE Ensured(r, status)
    BY <1>1, <1>2, <2>1, <2>3, EnsuredKeeps DEF ApprovalTypeOK, HeldStatus
  <2>4. CASE (Step(r, "insert") \/ Step(r, "rename")) /\ UNCHANGED held
    <3>1. "insert" \in SignInPcs /\ "rename" \in SignInPcs
      BY DEF SignInPcs
    <3> QED BY <1>2, <1>3, <2>1, <2>4, <3>1 DEF accountVars, ApprovalTypeOK, sessionVars
  <2> QED BY <2>2, <2>3, <2>4
<1>10. CASE InsertProfile(r)
  <2>1. user /\ UNCHANGED <<user, sessionVars, stateVars>>
    BY <1>2, <1>10 DEF InsertProfile, At, Profiling
  <2>2. CASE status = "none"
    <3>1. PICK s \in {"pending", "approved"} : status' = s /\ Ensured(r, s)
      BY <1>10, <2>2 DEF InsertProfile
    <3> QED BY <1>1, <1>2, <2>1, <2>2, <3>1, EnsuredKeeps DEF Statuses
  <2>3. CASE status # "none"
    <3>1. Step(r, "reread") /\ UNCHANGED <<status, held>> /\ "reread" \in SignInPcs
      BY <1>10, <2>3 DEF InsertProfile, SignInPcs
    <3> QED BY <1>2, <1>3, <2>1, <3>1 DEF accountVars, ApprovalTypeOK, sessionVars
  <2> QED BY <2>2, <2>3
<1>11. CASE ForcePending(r)
  <2>1. user /\ status' = "pending" /\ held' = TRUE /\ Step(r, "idle")
        /\ UNCHANGED <<user, sessionVars, stateVars>>
    BY <1>2, <1>5, <1>11 DEF ForcePending, At, Profiling
  <2> QED BY <1>1, <1>2, <1>4, <2>1, StepKeeps DEF ApprovalTypeOK, Statuses, sessionVars
<1> QED BY <1>6, <1>7, <1>8, <1>9, <1>10, <1>11 DEF SignInStep

\* The actions that leave the account alone, or decide about it.
LEMMA AccountStepInv == AccountInv /\ [ApprovalNext]_approvalVars /\ ApprovalTypeOK' => AccountInv'
<1> SUFFICES ASSUME AccountInv, [ApprovalNext]_approvalVars, ApprovalTypeOK'
             PROVE  AccountInv'
  OBVIOUS
<1> USE DEF AccountInv
<1>1. ASSUME NEW r \in SignIns, Register(r)
      PROVE  AccountInv'
  <2>1. \A q \in SignIns : signIn'[q].pc \in Profiling => signIn[q].pc \in Profiling
    BY <1>1 DEF Register, ApprovalTypeOK, NoSignIn, Profiling
  <2> QED
    BY <1>1, <2>1 DEF Register, accountVars, UserKnown, HeldStatus, HeldBack
<1>2. ASSUME NEW r \in SignIns, Login(r)
      PROVE  AccountInv'
  <2>1. \A q \in SignIns : signIn'[q].pc \in Profiling => signIn[q].pc \in Profiling
    BY <1>2 DEF Login, Step, ApprovalTypeOK, Profiling
  <2> QED
    BY <1>2, <2>1 DEF Login, accountVars, UserKnown, HeldStatus, HeldBack
<1>3. ASSUME NEW r \in SignIns, NEW s \in OAuthStates, GoogleCallback(r, s)
      PROVE  AccountInv'
  <2>1. \A q \in SignIns : signIn'[q].pc \in Profiling => signIn[q].pc \in Profiling
    <3>1. CASE UNCHANGED signIn
      BY <3>1
    <3>2. CASE signIn' = [signIn EXCEPT ![r] = [NoSignIn EXCEPT !.pc = "exchange", !.by = "google"]]
      BY <3>2 DEF ApprovalTypeOK, NoSignIn, Profiling
    <3> QED BY <1>3, <3>1, <3>2 DEF GoogleCallback
  <2> QED
    BY <1>3, <2>1 DEF GoogleCallback, accountVars, UserKnown, HeldStatus, HeldBack
<1>4. CASE AuthRestart
  <2>1. \A q \in SignIns : signIn'[q].pc \notin Profiling
    BY <1>4 DEF AuthRestart, NoSignIn, Profiling
  <2> QED
    BY <1>4, <2>1 DEF AuthRestart, accountVars, UserKnown, HeldStatus, HeldBack
<1>5. ASSUME NEW s \in OAuthStates, GoogleStart(s) \/ StateExpires(s)
      PROVE  AccountInv'
  BY <1>5 DEF GoogleStart, StateExpires, accountVars, UserKnown, HeldStatus, HeldBack
<1>6. ASSUME NEW s \in Statuses, Decide(s)
      PROVE  AccountInv'
  BY <1>6 DEF Decide, UserKnown, HeldStatus, HeldBack
<1>7. CASE UseToken
  BY <1>7 DEF UseToken, Admits, Approved, accountVars, UserKnown, HeldStatus, HeldBack
<1>8. CASE TokenExpires \/ SocketConnect \/ SocketMessage \/ SocketCloses \/ UNCHANGED approvalVars
  BY <1>8 DEF TokenExpires, SocketConnect, SocketMessage, SocketCloses, approvalVars, accountVars, UserKnown, HeldStatus, HeldBack
<1> QED
  BY <1>1, <1>2, <1>3, <1>4, <1>5, <1>6, <1>7, <1>8, SignInKeeps DEF ApprovalNext

\* Types, one action at a time; AccountInv says that a request knows the user.
LEMMA ApprovalTypeStep ==
  AccountInv /\ [ApprovalNext]_approvalVars => ApprovalTypeOK'
<1> SUFFICES ASSUME AccountInv, [ApprovalNext]_approvalVars
             PROVE  ApprovalTypeOK'
  OBVIOUS
<1>1. /\ ApprovalTypeOK
      /\ \A by \in {"login", "register", "google"}, pc \in SignInPcs :
            [NoSignIn EXCEPT !.pc = pc, !.by = by]
              \in [pc : SignInPcs, by : {"login", "register", "google"}, new : BOOLEAN]
      /\ "find" \in SignInPcs /\ "exchange" \in SignInPcs /\ "check" \in SignInPcs
  BY DEF AccountInv, NoSignIn, SignInPcs
<1>2. ASSUME NEW r \in SignIns, SignInStep(r)
      PROVE  ApprovalTypeOK'
  BY <1>2, SignInKeeps DEF AccountInv
<1>3. ASSUME NEW r \in SignIns, Register(r)
      PROVE  ApprovalTypeOK'
  BY <1>1, <1>3 DEF Register, ApprovalTypeOK, accountVars, stateVars, sessionVars
<1>4. ASSUME NEW r \in SignIns, Login(r)
      PROVE  ApprovalTypeOK'
  <2>1. signIn' \in SignInRequests
    BY <1>1, <1>4, StepMoves DEF Login
  <2> QED BY <1>1, <1>4, <2>1 DEF Login, SignInRequests, ApprovalTypeOK, accountVars, stateVars, sessionVars
<1>5. ASSUME NEW r \in SignIns, NEW s \in OAuthStates, GoogleCallback(r, s)
      PROVE  ApprovalTypeOK'
  <2>1. oauth' \in [OAuthStates -> {"unknown", "live", "expired", "gone"}]
    BY <1>1, <1>5 DEF GoogleCallback, TakeState, ApprovalTypeOK
  <2>2. exchanges' \in [OAuthStates -> Nat] /\ signIn' \in SignInRequests
    <3>1. CASE oauth[s] = "live"
      <4> DEFINE entered == [NoSignIn EXCEPT !.pc = "exchange", !.by = "google"]
      <4>1. entered \in [pc : SignInPcs, by : {"login", "register", "google"}, new : BOOLEAN]
        BY DEF NoSignIn, SignInPcs
      <4>2. /\ signIn' = [signIn EXCEPT ![r] = entered]
            /\ exchanges' = [exchanges EXCEPT ![s] = @ + 1]
        BY <1>5, <3>1 DEF GoogleCallback
      <4> HIDE DEF entered
      <4>3. signIn' \in SignInRequests
        BY <1>1, <4>1, <4>2 DEF ApprovalTypeOK, SignInRequests
      <4>4. exchanges' \in [OAuthStates -> Nat]
        <5>1. exchanges \in [OAuthStates -> Nat] /\ exchanges' = [exchanges EXCEPT ![s] = @ + 1]
          BY <1>1, <4>2 DEF ApprovalTypeOK
        <5> QED BY ONLY <5>1
      <4> QED BY <4>3, <4>4
    <3>2. CASE oauth[s] # "live"
      BY <1>1, <1>5, <3>2 DEF GoogleCallback, ApprovalTypeOK, SignInRequests
    <3> QED BY <3>1, <3>2
  <2> QED BY <1>1, <1>5, <2>1, <2>2 DEF GoogleCallback, SignInRequests, ApprovalTypeOK, accountVars, sessionVars
<1>6. ASSUME NEW s \in OAuthStates, GoogleStart(s) \/ StateExpires(s)
      PROVE  ApprovalTypeOK'
  BY <1>1, <1>6 DEF GoogleStart, StateExpires, ApprovalTypeOK, accountVars, sessionVars
<1>7. CASE AuthRestart
  <2>1. NoSignIn \in [pc : SignInPcs, by : {"login", "register", "google"}, new : BOOLEAN]
    BY DEF NoSignIn, SignInPcs
  <2> QED BY <1>1, <1>7, <2>1 DEF AuthRestart, ApprovalTypeOK, accountVars, sessionVars
<1>8. CASE \/ UseToken \/ TokenExpires \/ SocketConnect \/ SocketMessage \/ SocketCloses
           \/ UNCHANGED approvalVars
  BY <1>1, <1>8 DEF UseToken, TokenExpires, SocketConnect, SocketMessage, SocketCloses, approvalVars,
                      ApprovalTypeOK, accountVars, stateVars, sessionVars
<1>9. ASSUME NEW s \in Statuses, Decide(s)
      PROVE  ApprovalTypeOK'
  BY <1>1, <1>9 DEF Decide, ApprovalTypeOK, stateVars, sessionVars, Statuses
<1> QED
  BY <1>2, <1>3, <1>4, <1>5, <1>6, <1>7, <1>8, <1>9 DEF ApprovalNext

\* Only a callback that found a state live lets a sign-in through, and spends it.
LEMMA StateStepInv ==
  StateInv /\ ApprovalTypeOK' /\ [ApprovalNext]_approvalVars => StateInv'
<1> SUFFICES ASSUME StateInv, ApprovalTypeOK', [ApprovalNext]_approvalVars
             PROVE  StateInv'
  OBVIOUS
<1> USE DEF StateInv
<1>1. CASE UNCHANGED stateVars
  BY <1>1 DEF stateVars, StatesSpent, OneSignInPerState
<1>2. ASSUME NEW r \in SignIns, NEW s \in OAuthStates, GoogleCallback(r, s)
      PROVE  StateInv'
  BY <1>2 DEF GoogleCallback, TakeState, ApprovalTypeOK, StatesSpent, OneSignInPerState
<1>3. ASSUME NEW s \in OAuthStates, GoogleStart(s) \/ StateExpires(s)
      PROVE  StateInv'
  BY <1>3 DEF GoogleStart, StateExpires, ApprovalTypeOK, StatesSpent, OneSignInPerState
<1>4. CASE AuthRestart
  BY <1>4 DEF AuthRestart, ApprovalTypeOK, StatesSpent, OneSignInPerState
<1>5. ASSUME NEW r \in SignIns, Register(r) \/ Login(r) \/ SignInStep(r)
      PROVE  StateInv'
  BY <1>1, <1>5 DEF Register, Login, SignInStep, Exchange, FindUser, CreateUser, FindAgain,
                    FindProfile, Rename, InsertProfile, Reread, ForcePending, CheckLogin, Issue,
                    HandlerFails
<1>6. CASE \/ UseToken \/ TokenExpires \/ SocketConnect \/ SocketMessage \/ SocketCloses
           \/ UNCHANGED approvalVars \/ \E s \in Statuses : Decide(s)
  BY <1>1, <1>6 DEF UseToken, TokenExpires, SocketConnect, SocketMessage, SocketCloses, approvalVars,
                    Decide, stateVars
<1> QED BY <1>2, <1>3, <1>4, <1>5, <1>6 DEF ApprovalNext

ApprovalInv == AccountInv /\ StateInv

LEMMA ApprovalInvariant == ApprovalSpec => []ApprovalInv
<1>1. ApprovalInv /\ [ApprovalNext]_approvalVars => ApprovalInv'
  BY ApprovalTypeStep, AccountStepInv, StateStepInv DEF ApprovalInv
<1>2. ApprovalInit => ApprovalInv
  BY ApprovalInitInv DEF ApprovalInv
<1> QED BY <1>1, <1>2, PTL DEF ApprovalSpec

\* The account, the requests and the states keep their types; a profile belongs
\* to a user (auth.service.ts, ensureProfile).
THEOREM ApprovalTypes == ApprovalSpec => []ApprovalTypeOK
<1>1. ApprovalInv => ApprovalTypeOK
  BY DEF ApprovalInv, AccountInv
<1> QED BY <1>1, ApprovalInvariant, PTL

\* No REST request is served on an account that was told to wait and that no
\* administrator approved since (auth.service.ts, register and handleGoogleCallback;
\* jwt.strategy.ts, validate).  Sockets are (watch-party.gateway.ts, handleConnection).
THEOREM NoRequestWhileWaiting == ApprovalSpec => []HeldBack
<1>1. ApprovalInv => HeldBack
  BY DEF ApprovalInv, AccountInv
<1> QED BY <1>1, ApprovalInvariant, PTL

\* A state lets one sign-in through, however many callbacks present it
\* (google-oauth.service.ts, exchangeCode).
THEOREM StateUsedOnce == ApprovalSpec => []OneSignInPerState
<1>1. ApprovalInv => OneSignInPerState
  BY DEF ApprovalInv, StateInv
<1> QED BY <1>1, ApprovalInvariant, PTL

-----------------------------------------------------------------------------
(* RateLimit, for every limit and any number of instances and requests.    *)

USE RateLimitAssumption

\* A bucket that is counting has counted what was let through.
BucketsCount ==
    \A i \in Guards :
        local[i].count > 0 /\ ~local[i].lapsed => admitted[i] = local[i].count

\* So has the key, up to the limit.
KeyCounts == key.count > 0 /\ key.count <= LIMIT => admitted[Shared] = key.count

RateInv == RateTypeOK /\ LimitKept /\ BucketsCount /\ KeyCounts

\* Nothing is counted at first.
LEMMA RateInitInv == RateInit => RateInv
BY DEF RateInit, RateInv, RateTypeOK, LimitKept, BucketsCount, KeyCounts, NoBucket, NoKey

\* The instances' own buckets: neither the key nor a request changes.
LEMMA CheckLocalInv ==
  ASSUME RateInv, NEW i \in Guards, CheckLocal(i)
  PROVE  RateInv'
<1> USE DEF RateInv
<1> DEFINE b == local[i]
<1>1. /\ UNCHANGED <<redis, key, call>>
      /\ i # Shared
      /\ b \in [count : 0..LIMIT, lapsed : BOOLEAN]
  BY DEF CheckLocal, RateTypeOK
<1>2. CASE b = NoBucket \/ b.lapsed
  <2>1. /\ local' = [local EXCEPT ![i] = [count |-> 1, lapsed |-> FALSE]]
        /\ admitted' = [admitted EXCEPT ![i] = 1]
    BY <1>2 DEF CheckLocal
  <2> QED
    BY <1>1, <2>1 DEF RateTypeOK, LimitKept, BucketsCount, KeyCounts
<1>3. CASE ~(b = NoBucket \/ b.lapsed) /\ LocallyFull(b)
  BY <1>1, <1>3 DEF CheckLocal, RateTypeOK, LimitKept, BucketsCount, KeyCounts
<1>4. CASE ~(b = NoBucket \/ b.lapsed) /\ ~LocallyFull(b)
  <2>1. /\ local' = [local EXCEPT ![i].count = @ + 1]
        /\ admitted' = [admitted EXCEPT ![i] = @ + 1]
    BY <1>4 DEF CheckLocal
  <2>2. b.count > 0 /\ b.count < LIMIT /\ ~b.lapsed
    <3>1. b = [count |-> b.count, lapsed |-> FALSE] /\ b.count \in 0..LIMIT
      BY <1>1, <1>4
    <3>2. ~b.lapsed /\ b # NoBucket /\ ~(b.count >= LIMIT)
      BY <1>4 DEF LocallyFull
    <3>3. b.count # 0
      BY <3>1, <3>2 DEF NoBucket
    <3> QED BY <3>1, <3>2, <3>3
  <2>3. admitted[i] = b.count
    BY <2>2 DEF BucketsCount
  <2>4. RateTypeOK'
    BY <1>1, <2>1, <2>2 DEF RateTypeOK
  <2>5. LimitKept'
    BY <1>1, <2>1, <2>2, <2>3 DEF RateTypeOK, LimitKept
  <2>6. BucketsCount' /\ KeyCounts'
    BY <1>1, <2>1, <2>3 DEF RateTypeOK, BucketsCount, KeyCounts
  <2> QED BY <2>4, <2>5, <2>6
<1> QED BY <1>2, <1>3, <1>4

\* A command that ends or fails leaves a counter with an expiry or without hope of one.
LEMMA EndOfCallInv ==
  ASSUME RateInv, NEW c \in Calls, Pexpire(c) \/ Pttl(c) \/ CallFails(c)
  PROVE  RateInv'
<1> USE DEF RateInv
<1>0. /\ key \in [count : 0..MaxCalls, expires : BOOLEAN, orphan : BOOLEAN]
      /\ call[c] \in {"idle", "pexpire", "pttl"}
  BY DEF RateTypeOK
<1>1. /\ UNCHANGED <<redis, local, admitted>>
      /\ call' = [call EXCEPT ![c] = "idle"]
      /\ key'.count = key.count
      /\ RateTypeOK'
  <2>1. /\ UNCHANGED <<redis, local, admitted>>
        /\ call' = [call EXCEPT ![c] = "idle"]
    BY DEF Pexpire, Pttl, CallFails
  <2>2. /\ key' \in [count : 0..MaxCalls, expires : BOOLEAN, orphan : BOOLEAN]
        /\ key'.count = key.count
    <3>1. CASE Pexpire(c)
      BY <1>0, <3>1 DEF Pexpire
    <3>2. CASE Pttl(c)
      BY <1>0, <3>2 DEF Pttl
    <3>3. CASE CallFails(c)
      BY <1>0, <3>3 DEF CallFails
    <3> QED BY <3>1, <3>2, <3>3
  <2> QED BY <2>1, <2>2 DEF RateTypeOK
<1>2. BucketsCount' /\ KeyCounts' /\ \A w \in Guards \cup {Shared} : admitted'[w] <= LIMIT
  BY <1>1 DEF BucketsCount, KeyCounts, LimitKept
<1>3. ASSUME key.count > 0
      PROVE  key'.expires \/ key'.orphan \/ \E d \in Calls : call'[d] = "pexpire"
  <2>1. CASE call[c] = "pexpire"
    <3>1. CASE Pexpire(c)
      BY <1>0, <1>3, <3>1 DEF Pexpire
    <3>2. CASE CallFails(c)
      BY <1>0, <1>3, <2>1, <3>2 DEF CallFails
    <3> QED BY <2>1, <3>1, <3>2 DEF Pttl
  <2>2. CASE call[c] # "pexpire"
    <3>1. key' = key
      BY <2>2 DEF Pexpire, Pttl, CallFails
    <3>2. key.expires \/ key.orphan \/ \E d \in Calls : call[d] = "pexpire" /\ d # c
      BY <1>3, <2>2 DEF LimitKept
    <3> QED BY <1>1, <3>1, <3>2 DEF RateTypeOK
  <2> QED BY <2>1, <2>2
<1> QED BY <1>1, <1>2, <1>3 DEF LimitKept

\* The first to count is about to set the expiry; the others find it set.
LEMMA IncrInv ==
  ASSUME RateInv, NEW c \in Calls, Incr(c)
  PROVE  RateInv'
<1> USE DEF RateInv
<1> DEFINE n == key.count + 1
<1>1. /\ UNCHANGED <<redis, local>>
      /\ call[c] = "idle" /\ n \in 1..MaxCalls
      /\ key' = [key EXCEPT !.count = n]
      /\ call' = [call EXCEPT ![c] = IF n = 1 THEN "pexpire"
                                       ELSE IF n > LIMIT THEN "pttl" ELSE "idle"]
      /\ admitted' = [admitted EXCEPT ![Shared] =
            IF n > LIMIT THEN @ ELSE IF n = 1 THEN 1 ELSE @ + 1]
  BY DEF Incr, RateTypeOK
<1>2. RateTypeOK'
  BY <1>1 DEF RateTypeOK
<1>3. BucketsCount' /\ KeyCounts'
  BY <1>1 DEF RateTypeOK, BucketsCount, KeyCounts
<1>4. \A w \in Guards \cup {Shared} : admitted'[w] <= LIMIT
  BY <1>1 DEF RateTypeOK, KeyCounts, LimitKept
<1>5. key'.expires \/ key'.orphan \/ \E d \in Calls : call'[d] = "pexpire"
  <2>1. CASE n = 1
    BY <1>1, <2>1 DEF RateTypeOK
  <2>2. CASE n # 1
    <3>1. key.expires \/ key.orphan \/ \E d \in Calls : call[d] = "pexpire" /\ d # c
      BY <1>1, <2>2 DEF LimitKept, RateTypeOK
    <3> QED BY <1>1, <3>1 DEF RateTypeOK
  <2> QED BY <2>1, <2>2
<1> QED BY <1>2, <1>3, <1>4, <1>5 DEF LimitKept

LEMMA RateStepInv == RateInv /\ [RateNext]_rateVars => RateInv'
<1> SUFFICES ASSUME RateInv, [RateNext]_rateVars
             PROVE  RateInv'
  OBVIOUS
<1>1. ASSUME NEW i \in Guards, NEW b \in [count : 0..LIMIT, lapsed : BOOLEAN],
             b.count = 0 \/ b.lapsed, local' = [local EXCEPT ![i] = b],
             UNCHANGED <<redis, key, call, admitted>>
      PROVE  RateInv'
  <2>1. RateTypeOK'
    BY <1>1 DEF RateInv, RateTypeOK
  <2>2. BucketsCount'
    BY <1>1 DEF RateInv, RateTypeOK, BucketsCount
  <2>3. LimitKept' /\ KeyCounts'
    BY <1>1 DEF RateInv, LimitKept, KeyCounts
  <2> QED BY <2>1, <2>2, <2>3 DEF RateInv
<1>2. ASSUME NEW i \in Guards, PruneLocal(i)
      PROVE  RateInv'
  <2>1. NoBucket \in [count : 0..LIMIT, lapsed : BOOLEAN] /\ NoBucket.count = 0
    BY DEF NoBucket
  <2> QED BY <1>1, <1>2, <2>1 DEF PruneLocal
<1>3. ASSUME NEW i \in Guards, BucketLapses(i)
      PROVE  RateInv'
  <2> DEFINE b == [local[i] EXCEPT !.lapsed = TRUE]
  <2>1. local[i] \in [count : 0..LIMIT, lapsed : BOOLEAN]
    BY DEF RateInv, RateTypeOK
  <2>2. b \in [count : 0..LIMIT, lapsed : BOOLEAN] /\ b.lapsed
    BY <2>1
  <2> HIDE DEF b
  <2>3. local' = [local EXCEPT ![i] = b]
    BY <1>3 DEF BucketLapses, b
  <2> QED BY <1>1, <1>3, <2>2, <2>3 DEF BucketLapses
<1>4. CASE KeyExpires \/ RedisRestart
  <2>1. /\ key' = NoKey
        /\ UNCHANGED <<redis, local, call, admitted>>
    BY <1>4 DEF KeyExpires, RedisRestart
  <2>2. key'.count = 0 /\ key' \in [count : 0..MaxCalls, expires : BOOLEAN, orphan : BOOLEAN]
    BY <2>1 DEF NoKey
  <2> QED BY <2>1, <2>2 DEF RateInv, RateTypeOK, LimitKept, BucketsCount, KeyCounts
<1>5. CASE UNCHANGED rateVars
  BY <1>5 DEF RateInv, rateVars, RateTypeOK, LimitKept, BucketsCount, KeyCounts
<1> QED
  BY <1>2, <1>3, <1>4, <1>5, CheckLocalInv, IncrInv, EndOfCallInv DEF RateNext

\* Buckets, key and requests keep their types; the buckets never count past the
\* limit (rate-limit.guard.ts, checkLocal).
THEOREM RateTypes == RateSpec => []RateTypeOK
<1>1. RateInv => RateTypeOK
  BY DEF RateInv
<1> QED BY <1>1, RateInitInv, RateStepInv, PTL DEF RateSpec

\* At most LIMIT requests of a client pass in one window, and a counter in
\* Redis without an expiry was left by a request that failed between its two
\* commands (rate-limit.guard.ts, checkLocal and checkRedis).
THEOREM LimitHolds == RateSpec => []LimitKept
<1>1. RateInv => LimitKept
  BY DEF RateInv
<1> QED BY <1>1, RateInitInv, RateStepInv, PTL DEF RateSpec

-----------------------------------------------------------------------------
(* WatchHistory, for every duration and any number of reports handled at   *)
(* once.                                                                   *)

USE WatchHistoryAssumption

\* What a report that nobody overtook is about to store goes on from the row.
GoesOn(p, n, e) ==
    /\ n.duration >= e.duration
    /\ n.progress >= e.progress \/ p = 0 \/ n.completed

Fresh ==
    \A r \in Reports :
        Busy(r) /\ r \notin stale => GoesOn(report[r].progress, report[r].next, entry)

HistoryInv == HistoryTypeOK /\ Fresh

\* The greater of two numbers is one of them and less than neither.
LEMMA GreaterOfTwo ==
  ASSUME NEW a \in Int, NEW b \in Int
  PROVE  /\ Greater(a, b) >= a /\ Greater(a, b) >= b
         /\ Greater(a, b) \in {a, b}
BY DEF Greater

\* What a report works out from the row it found.
LEMMA NextGoesOn ==
  ASSUME HistoryTypeOK, NEW item \in Items,
         NEW n, n = [progress |-> NextProgress(item, entry),
                     duration |-> Greater(entry.duration, item.duration),
                     completed |-> Completed(item)]
  PROVE  n \in StoredEntries /\ GoesOn(item.progress, n, entry)
<1>1. item.progress \in 0..End /\ item.duration \in {0, End}
  BY DEF Items
<1>2. /\ entry.duration \in {0, End}
      /\ entry # NoEntry => entry.progress \in 0..End
      /\ entry = NoEntry => entry.progress = -1
  BY DEF HistoryTypeOK, StoredEntries, NoEntry
<1>3. /\ n.progress = NextProgress(item, entry)
      /\ n.duration = Greater(entry.duration, item.duration)
      /\ n.completed = Completed(item)
  OBVIOUS
<1>4. n.duration \in {0, End} /\ n.duration >= entry.duration
  BY <1>1, <1>2, <1>3, GreaterOfTwo
<1>5. Completed(item) \in BOOLEAN
  BY DEF Completed
<1>6. n.progress \in 0..End
  <2>1. CASE item.progress = 0 \/ Completed(item) \/ entry = NoEntry
    BY <1>1, <1>3, <2>1 DEF NextProgress
  <2>2. CASE ~(item.progress = 0 \/ Completed(item) \/ entry = NoEntry)
    BY <1>1, <1>2, <1>3, <2>2, GreaterOfTwo DEF NextProgress
  <2> QED BY <2>1, <2>2
<1>7. n.progress >= entry.progress \/ item.progress = 0 \/ n.completed
  <2>1. CASE entry = NoEntry
    BY <1>2, <1>6, <2>1
  <2>2. CASE item.progress = 0 \/ Completed(item)
    BY <1>3, <2>2
  <2>3. CASE ~(item.progress = 0 \/ Completed(item) \/ entry = NoEntry)
    BY <1>1, <1>2, <1>3, <2>3, GreaterOfTwo DEF NextProgress
  <2> QED BY <2>1, <2>2, <2>3
<1> HIDE DEF StoredEntries
<1>8. n \in StoredEntries
  BY <1>3, <1>4, <1>5, <1>6 DEF StoredEntries
<1> QED BY <1>4, <1>7, <1>8 DEF GoesOn

\* Nobody has reported at first.
LEMMA HistoryInitInv == HistoryInit => HistoryInv
BY DEF HistoryInit, HistoryInv, HistoryTypeOK, Fresh, Busy

\* A report that is not waiting has nothing to store.
LEMMA BusyReport ==
  ASSUME HistoryTypeOK, NEW r \in Reports
  PROVE  Busy(r) <=> report[r] \in [progress : 0..End, next : StoredEntries]
<1>1. NoReport \notin [progress : 0..End, next : StoredEntries]
  BY DEF NoReport
<1> QED BY <1>1 DEF HistoryTypeOK, Busy

LEMMA FindEntryInv ==
  ASSUME HistoryInv, NEW r \in Reports, NEW item \in Items, FindEntry(r, item)
  PROVE  HistoryInv'
<1> DEFINE n == [progress |-> NextProgress(item, entry),
                 duration |-> Greater(entry.duration, item.duration),
                 completed |-> Completed(item)]
           told == [progress |-> item.progress, next |-> n]
<1>1. report' = [report EXCEPT ![r] = told] /\ stale' = stale \ {r} /\ entry' = entry
  BY DEF FindEntry
<1>2. n \in StoredEntries /\ GoesOn(item.progress, n, entry)
  BY NextGoesOn DEF HistoryInv
<1> HIDE DEF n
<1>3. /\ told \in [progress : 0..End, next : StoredEntries]
      /\ told.progress = item.progress /\ told.next = n
  BY <1>2 DEF Items
<1> HIDE DEF told
<1>4. told # NoReport
  BY <1>3 DEF NoReport
<1>5. HistoryTypeOK'
  BY <1>1, <1>3, <1>4 DEF HistoryInv, HistoryTypeOK, Busy
<1>6. Fresh'
  BY <1>1, <1>2, <1>3 DEF HistoryInv, HistoryTypeOK, Fresh, Busy
<1> QED BY <1>5, <1>6 DEF HistoryInv

LEMMA HistoryStepInv == HistoryInv /\ [HistoryNext]_historyVars => HistoryInv'
<1> SUFFICES ASSUME HistoryInv, [HistoryNext]_historyVars
             PROVE  HistoryInv'
  OBVIOUS
<1>1. ASSUME NEW r \in Reports, UpsertEntry(r)
      PROVE  HistoryInv'
  <2>1. report[r].next \in StoredEntries
    BY <1>1, BusyReport DEF UpsertEntry, HistoryInv
  <2>2. HistoryTypeOK'
    BY <1>1, <2>1 DEF UpsertEntry, HistoryInv, HistoryTypeOK, Busy
  <2>3. Fresh'
    BY <1>1 DEF UpsertEntry, HistoryInv, HistoryTypeOK, Fresh, Busy
  <2> QED BY <2>2, <2>3 DEF HistoryInv
<1>2. ASSUME NEW r \in Reports, ReportFails(r)
      PROVE  HistoryInv'
  BY <1>2 DEF ReportFails, HistoryInv, HistoryTypeOK, Fresh, Busy
<1>3. CASE RemoveEntry
  BY <1>3 DEF RemoveEntry, HistoryInv, HistoryTypeOK, Fresh, Busy
<1>4. CASE UNCHANGED historyVars
  BY <1>4 DEF historyVars, HistoryInv, HistoryTypeOK, Fresh, Busy
<1> QED BY <1>1, <1>2, <1>3, <1>4, FindEntryInv DEF HistoryNext

\* The row and what the reports are about to store keep their types
\* (watch-history.repository.ts, upsert).
THEOREM HistoryTypes == HistorySpec => []HistoryTypeOK
<1>1. HistoryInv => HistoryTypeOK
  BY DEF HistoryInv
<1> QED BY <1>1, HistoryInitInv, HistoryStepInv, PTL DEF HistorySpec

\* The stored position moves back only for a report of the first seconds, of a
\* finished episode, or one overtaken between its two statements
\* (watch-history.repository.ts, upsert).
THEOREM PositionKept == HistorySpec => ResumesWhereItWas
<1> DEFINE
      Resumes ==
        entry # NoEntry /\ entry' # NoEntry =>
          /\ entry'.progress < entry.progress =>
                \E r \in Reports : /\ Busy(r) /\ entry' = report[r].next
                                   /\ r \in stale \/ report[r].progress = 0 \/ entry'.completed
          /\ entry'.duration < entry.duration => \E r \in stale : entry' = report[r].next
<1>1. ASSUME HistoryInv, HistoryNext
      PROVE  Resumes
  <2>1. CASE entry' = entry
    <3>1. entry # NoEntry => entry.progress \in Int /\ entry.duration \in Int
      BY <1>1 DEF HistoryInv, HistoryTypeOK, StoredEntries
    <3> QED BY <2>1, <3>1
  <2>2. CASE RemoveEntry
    BY <2>2 DEF RemoveEntry
  <2>3. ASSUME NEW r \in Reports, UpsertEntry(r)
        PROVE  Resumes
    <3>1. Busy(r) /\ entry' = report[r].next /\ entry' \in StoredEntries
      BY <1>1, <2>3, BusyReport DEF UpsertEntry, HistoryInv
    <3>2. /\ entry'.progress \in Int /\ entry'.duration \in Int
          /\ entry.progress \in Int /\ entry.duration \in Int
      BY <1>1, <3>1 DEF HistoryInv, HistoryTypeOK, StoredEntries, NoEntry
    <3>3. r \notin stale => GoesOn(report[r].progress, entry', entry)
      BY <1>1, <3>1 DEF HistoryInv, Fresh
    <3> QED BY <3>1, <3>2, <3>3 DEF GoesOn
  <2> QED BY <1>1, <2>1, <2>2, <2>3 DEF HistoryNext, FindEntry, ReportFails
<1>2. HistoryInv /\ [HistoryNext]_historyVars => [Resumes]_historyVars
  BY <1>1
<1> QED
  BY <1>2, HistoryInitInv, HistoryStepInv, PTL DEF HistorySpec, ResumesWhereItWas

-----------------------------------------------------------------------------
(* Watchlists, for any lists and any number of requests.                   *)

USE WatchlistsAssumption

WatchlistRows == [stored : BOOLEAN, isPublic : BOOLEAN, shareId : 0..MaxLinks]

\* A request between its statements keeps the link it found, if it found one.
Updates == [pc : {"update"}, key : ListKeys, isPublic : BOOLEAN,
             seen : 0..MaxLinks, shareId : 0..MaxLinks]
KeepsLink == \A t \in Toggles : toggle[t] \in Updates /\ toggle[t].seen # NoLink =>
                                   toggle[t].shareId = toggle[t].seen

WatchlistsInv ==
    /\ WatchlistsTypeOK
    /\ toggle \in [Toggles -> Updates \cup {NoToggle}]
    /\ KeepsLink

\* What the statements store is a list without sharing, or a shared one.
LEMMA ListKinds == NoList \in WatchlistRows /\ Stored \in WatchlistRows /\ NoList.shareId = NoLink /\ Stored.stored
BY DEF NoList, Stored, WatchlistRows, NoLink

LEMMA NobodyToggles == NoToggle \notin Updates
<1>1. NoToggle.pc # "update"
  BY DEF NoToggle
<1> QED BY <1>1 DEF Updates

LEMMA WatchlistsInitInv == WatchlistsInit => WatchlistsInv
<1> SUFFICES ASSUME WatchlistsInit
             PROVE  WatchlistsInv
  OBVIOUS
<1>1. /\ list \in [ListKeys -> WatchlistRows] /\ \A k \in ListKeys : list[k] = NoList
      /\ toggle \in [Toggles -> Updates \cup {NoToggle}]
      /\ \A t \in Toggles : toggle[t] = NoToggle
      /\ links \in 0..MaxLinks
  BY ListKinds DEF WatchlistsInit
<1>2. WatchlistsTypeOK
  BY <1>1 DEF WatchlistsTypeOK, WatchlistRows
<1> QED BY <1>1, <1>2, NobodyToggles DEF WatchlistsInv, KeepsLink

\* The second statement changes one list, and keeps it stored.
LEMMA UpdateLists ==
  ASSUME WatchlistsInv, NEW t \in Toggles, UpdateSharing(t)
  PROVE  /\ toggle[t] \in Updates
         /\ list' \in [ListKeys -> WatchlistRows]
         /\ \A k \in ListKeys : \/ list'[k] = list[k]
                                \/ /\ k = toggle[t].key /\ list[k].stored /\ list'[k].stored
                                   /\ toggle[t].shareId # NoLink
                                   /\ list'[k].shareId = toggle[t].shareId
                                \/ /\ k = toggle[t].key /\ list[k].stored /\ list'[k].stored
                                   /\ list'[k].shareId = list[k].shareId
<1> DEFINE q == toggle[t]
           link == IF q.shareId = NoLink THEN list[q.key].shareId ELSE q.shareId
           new == [stored |-> TRUE, isPublic |-> q.isPublic, shareId |-> link]
<1>1. q \in Updates /\ list \in [ListKeys -> WatchlistRows]
  BY DEF UpdateSharing, WatchlistsInv, WatchlistsTypeOK, WatchlistRows
<1>2. q.key \in ListKeys /\ q.isPublic \in BOOLEAN /\ q.shareId \in 0..MaxLinks
  BY <1>1 DEF Updates
<1>3. list[q.key] \in WatchlistRows
  BY <1>1, <1>2
<1>4. /\ new \in WatchlistRows /\ new.stored
      /\ new.shareId = link
  BY <1>2, <1>3 DEF WatchlistRows
<1>5. list' = IF ~list[q.key].stored THEN list ELSE [list EXCEPT ![q.key] = new]
  BY DEF UpdateSharing
<1> HIDE DEF new, q
<1>6. CASE list[q.key].stored
  <2>1. list' = [list EXCEPT ![q.key] = new]
    BY <1>5, <1>6
  <2>2. list' \in [ListKeys -> WatchlistRows]
    BY <1>1, <1>2, <1>4, <2>1
  <2>3. list'[q.key] = new /\ \A k \in ListKeys : k # q.key => list'[k] = list[k]
    BY <1>1, <1>2, <2>1
  <2> QED BY <1>1, <1>2, <1>4, <1>6, <2>2, <2>3 DEF q
<1>7. CASE ~list[q.key].stored
  BY <1>1, <1>5, <1>7 DEF q
<1> QED BY <1>6, <1>7

LEMMA WatchlistsStepInv == WatchlistsInv /\ [WatchlistsNext]_watchlistVars => WatchlistsInv'
<1> SUFFICES ASSUME WatchlistsInv, [WatchlistsNext]_watchlistVars
             PROVE  WatchlistsInv'
  OBVIOUS
<1>1. ASSUME NEW keys \in SUBSET ListKeys, SaveAll(keys)
      PROVE  WatchlistsInv'
  <2>1. \A k \in ListKeys : Saved(k, keys) \in WatchlistRows
                              /\ (~Saved(k, keys).stored => Saved(k, keys) = NoList)
    BY ListKinds DEF Saved, WatchlistsInv, WatchlistsTypeOK, WatchlistRows
  <2>2. WatchlistsTypeOK'
    BY <1>1, <2>1 DEF SaveAll, WatchlistsInv, WatchlistsTypeOK, WatchlistRows
  <2> QED BY <1>1, <2>2 DEF SaveAll, WatchlistsInv, KeepsLink
<1>2. ASSUME NEW t \in Toggles, NEW k \in ListKeys, NEW on \in BOOLEAN, FindList(t, k, on)
      PROVE  WatchlistsInv'
  <2> DEFINE fresh == on /\ list[k].shareId = NoLink
             link == IF fresh THEN FreshLink ELSE list[k].shareId
             found == [pc |-> "update", key |-> k, isPublic |-> on,
                       seen |-> list[k].shareId, shareId |-> link]
  <2>1. list[k].shareId \in 0..MaxLinks /\ links \in 0..MaxLinks
    BY DEF WatchlistsInv, WatchlistsTypeOK
  <2>2. /\ links' \in 0..MaxLinks /\ link \in 0..MaxLinks
        /\ toggle' = [toggle EXCEPT ![t] = found] /\ list' = list
    BY <1>2, <2>1 DEF FindList, FreshLink
  <2>3. /\ found \in Updates /\ found.shareId = link /\ found.seen = list[k].shareId
        /\ found.seen # NoLink => found.shareId = found.seen
    BY <2>1, <2>2 DEF Updates
  <2> HIDE DEF found, link
  <2>4. toggle' \in [Toggles -> Updates \cup {NoToggle}]
    BY <2>2, <2>3 DEF WatchlistsInv
  <2>5. WatchlistsTypeOK'
    BY <2>2, <2>3, <2>4 DEF WatchlistsInv, WatchlistsTypeOK, Updates
  <2>6. KeepsLink'
    BY <2>2, <2>3 DEF WatchlistsInv, KeepsLink
  <2> QED BY <2>4, <2>5, <2>6 DEF WatchlistsInv
<1>3. ASSUME NEW t \in Toggles, toggle' = [toggle EXCEPT ![t] = NoToggle]
      PROVE  /\ toggle' \in [Toggles -> Updates \cup {NoToggle}]
             /\ KeepsLink'
             /\ \A u \in Toggles : toggle'[u] = NoToggle \/ toggle'[u].shareId \in 0..MaxLinks
  BY <1>3, NobodyToggles DEF WatchlistsInv, WatchlistsTypeOK, KeepsLink
<1>4. ASSUME NEW t \in Toggles, UpdateSharing(t)
      PROVE  WatchlistsInv'
  <2>1. \A k \in ListKeys : ~list'[k].stored => list'[k] = NoList
    BY <1>4, UpdateLists DEF WatchlistsInv, WatchlistsTypeOK
  <2>2. WatchlistsTypeOK'
    BY <1>3, <1>4, <2>1, UpdateLists DEF UpdateSharing, WatchlistsInv, WatchlistsTypeOK, WatchlistRows
  <2> QED BY <1>3, <1>4, <2>2 DEF UpdateSharing, WatchlistsInv
<1>5. ASSUME NEW t \in Toggles, ToggleFails(t)
      PROVE  WatchlistsInv'
  BY <1>3, <1>5 DEF ToggleFails, WatchlistsInv, WatchlistsTypeOK
<1>6. CASE UNCHANGED watchlistVars
  BY <1>6 DEF watchlistVars, WatchlistsInv, WatchlistsTypeOK, KeepsLink
<1> QED BY <1>1, <1>2, <1>4, <1>5, <1>6 DEF WatchlistsNext

\* Rows, requests and links keep their types (watchlists.repository.ts).
THEOREM WatchlistTypes == WatchlistsSpec => []WatchlistsTypeOK
<1>1. WatchlistsInv => WatchlistsTypeOK
  BY DEF WatchlistsInv
<1> QED BY <1>1, WatchlistsInitInv, WatchlistsStepInv, PTL DEF WatchlistsSpec

\* A list keeps its link while it is stored, unless a request that found another
\* link stores the one it made up (watchlists.service.ts, setSharing).
THEOREM LinkKept == WatchlistsSpec => LinkStays
<1> DEFINE
      Kept ==
        \A k \in ListKeys :
          list[k].shareId # NoLink /\ list'[k].stored /\ list'[k].shareId # list[k].shareId =>
             \E t \in Toggles : /\ toggle[t] # NoToggle /\ toggle[t].key = k
                                /\ toggle[t].seen # list[k].shareId
                                /\ list'[k].shareId = toggle[t].shareId
<1>1. ASSUME WatchlistsInv, WatchlistsNext
      PROVE  Kept
  <2>1. CASE UNCHANGED list
    BY <2>1
  <2>2. ASSUME NEW keys \in SUBSET ListKeys, SaveAll(keys)
        PROVE  Kept
    <3>1. \A k \in ListKeys : list[k].shareId # NoLink => list[k].stored
      BY <1>1, ListKinds DEF WatchlistsInv, WatchlistsTypeOK
    <3>2. \A k \in ListKeys : list[k].stored => list'[k] \in {NoList, list[k]}
      BY <2>2 DEF SaveAll, Saved
    <3>3. ~NoList.stored
      BY DEF NoList
    <3> QED BY <3>1, <3>2, <3>3
  <2>3. ASSUME NEW t \in Toggles, UpdateSharing(t)
        PROVE  Kept
    <3>1. toggle[t] \in Updates /\ toggle[t] # NoToggle
      BY <1>1, <2>3, UpdateLists, NobodyToggles
    <3>2. toggle[t].seen # NoLink => toggle[t].shareId = toggle[t].seen
      BY <1>1, <3>1 DEF WatchlistsInv, KeepsLink
    <3> QED BY <1>1, <2>3, <3>1, <3>2, UpdateLists
  <2> QED BY <1>1, <2>1, <2>2, <2>3 DEF WatchlistsNext, FindList, ToggleFails
<1>2. WatchlistsInv /\ [WatchlistsNext]_watchlistVars => [Kept]_watchlistVars
  BY <1>1
<1> QED
  BY <1>2, WatchlistsInitInv, WatchlistsStepInv, PTL DEF WatchlistsSpec, LinkStays

-----------------------------------------------------------------------------
(* The services side by side.                                              *)

\* The types of all services hold together: each moves as its own
\* specification says, or not at all.
THEOREM ServicesTypes == MCSpec => []ServicesTypeOK
<1>1. MCInit => /\ SourcesInit /\ CacheInit /\ Init /\ ApprovalInit /\ RateInit
                /\ HistoryInit /\ WatchlistsInit /\ SkipInit
  BY DEF MCInit
<1>2. [MCNext]_mcVars => /\ [SourcesNext]_sourceVars /\ [CacheNext]_cacheVars
                         /\ [Next]_vars /\ [ApprovalNext]_approvalVars
  BY DEF MCNext, mcVars
<1>3. [MCNext]_mcVars => /\ [RateNext]_rateVars /\ [HistoryNext]_historyVars
                         /\ [WatchlistsNext]_watchlistVars /\ [SkipNext]_skipVars
  BY DEF MCNext, mcVars
<1>4. MCSpec => /\ SourcesSpec /\ CacheSpec /\ Spec /\ ApprovalSpec /\ RateSpec
                /\ HistorySpec /\ WatchlistsSpec /\ SkipSpec
  BY <1>1, <1>2, <1>3, PTL DEF MCSpec, SourcesSpec, CacheSpec, Spec, ApprovalSpec, RateSpec,
     HistorySpec, WatchlistsSpec, SkipSpec
<1>5. /\ SourcesTypeOK /\ CacheTypeOK /\ TypeOK /\ ApprovalTypeOK /\ RateTypeOK
      /\ HistoryTypeOK /\ WatchlistsTypeOK /\ SkipTypeOK
      => ServicesTypeOK
  BY DEF ServicesTypeOK
<1> QED
  BY <1>4, <1>5, SourceTypes, CacheTypes, CountersTyped, ApprovalTypes, RateTypes,
     HistoryTypes, WatchlistTypes, SkipTypes, PTL
=============================================================================
