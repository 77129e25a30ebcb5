--------------------------- MODULE RoomMediaProofs ---------------------------
(***************************************************************************)
(* Proofs about what a room plays next.                                    *)
(*                                                                         *)
(* MediaInv says what a task holds at each of its steps.  Follow says that *)
(* as long as nothing crossed, what is on its way to the media key is the  *)
(* row, and that what a task decides on is the row as well, unless         *)
(* somebody is about to publish or the task is a report that will lose.    *)
(***************************************************************************)
EXTENDS MCRooms, RoomControlProofs, SequenceTheorems, WellFoundedInduction, TLAPS

-----------------------------------------------------------------------------
(* Queues of episodes.                                                     *)

\* Min of the community modules is a least element.
LEMMA LeastExists ==
  ASSUME NEW I \in SUBSET Nat, I # {}
  PROVE  Min(I) \in I /\ \A y \in I : Min(I) =< y
<1>1. IsWellFoundedOn(OpToRel(<, Nat), Nat)
  BY NatLessThanWellFounded
<1>2. PICK x \in I : \A y \in I : <<y, x>> \notin OpToRel(<, Nat)
  BY <1>1, WFMin
<1>3. \A y \in I : ~(y < x)
  BY <1>2 DEF OpToRel
<1>4. x \in I /\ \A y \in I : x =< y
  BY <1>3
<1> QED BY <1>4 DEF Min

\* RemoveFirst of the community modules; of the head it is the tail.
LEMMA WithoutOne ==
  ASSUME NEW T, NEW s \in Seq(T), NEW e
  PROVE  /\ RemoveFirst(s, e) \in Seq(T)
         /\ Len(RemoveFirst(s, e)) =< Len(s)
         /\ s = <<>> => RemoveFirst(s, e) = <<>>
         /\ s # <<>> /\ e = Head(s) => RemoveFirst(s, e) = Tail(s)
<1> DEFINE I == {i \in 1..Len(s) : s[i] = e}
           m == SelectInSeq(s, LAMBDA v : v = e)
<1>1. Len(s) \in Nat
  BY LenProperties
<1>2. I # {} => Min(I) \in I /\ \A y \in I : Min(I) =< y
  <2>1. I \in SUBSET Nat
    BY <1>1
  <2> HIDE DEF I
  <2> QED BY <2>1, LeastExists
<1>3. m = IF I # {} THEN Min(I) ELSE 0
  BY DEF SelectInSeq
<1>4. I # {} <=> \E i \in 1..Len(s) : s[i] = e
  OBVIOUS
<1>5. RemoveFirst(s, e) = IF I # {} THEN SubSeq(s, 1, m - 1) \o SubSeq(s, m + 1, Len(s)) ELSE s
  BY DEF RemoveFirst, RemoveAt
<1>6. I # {} => m \in 1..Len(s) /\ s[m] = e /\ \A y \in I : m =< y
  BY <1>2, <1>3
<1> HIDE DEF m
<1>7. ASSUME I # {}
      PROVE  /\ SubSeq(s, 1, m - 1) \in Seq(T) /\ Len(SubSeq(s, 1, m - 1)) = m - 1
             /\ SubSeq(s, m + 1, Len(s)) \in Seq(T) /\ Len(SubSeq(s, m + 1, Len(s))) = Len(s) - m
  <2>1. /\ \A k \in 1..(m - 1) : s[k] \in T
        /\ \A k \in (m + 1)..Len(s) : s[k] \in T
        /\ m - 1 \in Int /\ m + 1 \in Int /\ Len(s) \in Int /\ 1 \in Int
    BY <1>1, <1>6, <1>7, ElementOfSeq
  <2>2. SubSeq(s, 1, m - 1) \in Seq(T) /\ Len(SubSeq(s, 1, m - 1)) = m - 1
    BY <1>6, <1>7, <2>1, SubSeqProperties
  <2>3. SubSeq(s, m + 1, Len(s)) \in Seq(T) /\ Len(SubSeq(s, m + 1, Len(s))) = Len(s) - m
    BY <1>6, <1>7, <1>1, <2>1, SubSeqProperties
  <2> QED BY <2>2, <2>3
<1>8. ASSUME I # {}
      PROVE  RemoveFirst(s, e) \in Seq(T) /\ Len(RemoveFirst(s, e)) = Len(s) - 1
  BY <1>1, <1>5, <1>6, <1>7, <1>8, ConcatProperties
<1>9. ASSUME s # <<>>, e = Head(s)
      PROVE  RemoveFirst(s, e) = Tail(s)
  <2>1. 1 \in I
    BY <1>9, HeadTailProperties, EmptySeq, LenProperties
  <2>2. m = 1
    BY <1>6, <2>1
  <2>3. SubSeq(s, 1, 0) = <<>> /\ SubSeq(s, 2, Len(s)) = Tail(s)
    BY <1>9, TailIsSubSeq, SubSeqEmpty
  <2>4. <<>> \o Tail(s) = Tail(s)
    BY <1>9, HeadTailProperties, ConcatEmptySeq
  <2>5. m - 1 = 0 /\ m + 1 = 2
    BY <2>2
  <2> QED BY <1>5, <2>1, <2>3, <2>4, <2>5
<1>10. s = <<>> => Len(s) = 0
  BY EmptySeq
<1>11. s = <<>> => I = {}
  BY <1>10
<1>12. I = {} => RemoveFirst(s, e) = s
  BY <1>5
<1> HIDE DEF I
<1>13. Len(RemoveFirst(s, e)) =< Len(s) /\ RemoveFirst(s, e) \in Seq(T)
  BY <1>1, <1>8, <1>12
<1> QED BY <1>9, <1>11, <1>12, <1>13

\* Queues are the sequences of episodes within the limit.
LEMMA QueuesAre == \A q : q \in Queues <=> q \in Seq(Episodes) /\ Len(q) =< MAX_QUEUE_LENGTH
<1>1. MAX_QUEUE_LENGTH \in Nat
  BY MediaAssumption
<1>2. ASSUME NEW q \in Queues
      PROVE  q \in Seq(Episodes) /\ Len(q) =< MAX_QUEUE_LENGTH
  <2>1. PICK m \in 0..MAX_QUEUE_LENGTH : q \in [1..m -> Episodes]
    BY DEF Queues, SeqOf
  <2> QED BY <1>1, <2>1
<1>3. ASSUME NEW q \in Seq(Episodes), Len(q) =< MAX_QUEUE_LENGTH
      PROVE  q \in Queues
  <2>1. Len(q) \in 0..MAX_QUEUE_LENGTH /\ q \in [1..Len(q) -> Episodes]
    BY <1>1, <1>3, LenProperties
  <2> QED BY <2>1 DEF Queues, SeqOf
<1> QED BY <1>2, <1>3

-----------------------------------------------------------------------------
(* Types, and what a task holds at each of its steps.                      *)

Copies == {NoCopy} \cup {<<m>> : m \in Medias}
MediaPcs == {"free", "get", "row", "fill", "find", "switch", "publish", "update"}
MediaTasks == [op : {"none", "reader", "auto", "manual", "rest"}, pc : MediaPcs,
               at : MediaInstances \cup {NoEpisode}, item : Episodes \cup {NoEpisode},
               copy : Copies]

\* At these steps a task holds a copy, to decide on or to store.
Holding == {"fill", "find", "switch", "publish", "update"}

MediaSound(t) ==
    /\ t.pc \in Holding <=> t.copy # NoCopy
    /\ t.pc \in {"get", "row", "fill"} => t.op \in {"reader", "auto", "manual"}
    /\ t.pc \in {"find", "switch"} => t.op \in {"auto", "manual"}
    /\ t.op \in {"auto", "manual"} => t.item \in Episodes
    /\ t.pc = "find" => t.op = "auto" /\ t.copy[1].queue = <<>>
    /\ t.pc = "switch" /\ t.op = "auto" /\ t.copy[1].queue = <<>> => t.item < LastEpisode
    /\ t.pc = "update" => t.op = "rest" /\ t.item \in Episodes

MediaInv ==
    /\ mediaRow \in Medias
    /\ mediaKey \in Copies
    /\ mediaTask \in [MediaSlots -> MediaTasks]
    /\ mediaInputs \in 0..MaxMediaInputs
    /\ mediaLapses \subseteq {"crossed", "unpublished"}
    /\ \A k \in MediaSlots : MediaSound(mediaTask[k])

LEMMA CopyKinds ==
  /\ \A m : <<m>> # NoCopy /\ <<m>>[1] = m
  /\ \A m \in Medias : <<m>> \in Copies
  /\ \A c \in Copies : c # NoCopy => c[1] \in Medias /\ c = <<c[1]>>
  /\ NoCopy \in Copies
BY DEF NoCopy, Copies

LEMMA MediaKinds ==
  /\ \A m \in Medias : m.episode \in Episodes /\ m.queue \in Queues /\ m.autoNext \in BOOLEAN
  /\ \A m \in Medias, e \in Episodes : [m EXCEPT !.episode = e] \in Medias
  /\ \A m \in Medias, q \in Queues, b \in BOOLEAN :
       [m EXCEPT !.queue = q, !.autoNext = b] \in Medias
  /\ \A m \in Medias, e \in Episodes, q \in Queues :
       [m EXCEPT !.episode = e, !.queue = q] \in Medias
BY DEF Medias

\* A row within the limit is cached as it is.
LEMMA CachedAsItIs == \A m \in Medias : ToMediaState(m) = m
<1> TAKE m \in Medias
<1>1. m.queue \in Seq(Episodes) /\ Len(m.queue) =< MAX_QUEUE_LENGTH
  BY MediaKinds, QueuesAre
<1>2. Len(m.queue) \in Nat /\ MAX_QUEUE_LENGTH \in Nat
  BY <1>1, LenProperties, MediaAssumption
<1>3. SubSeq(m.queue, 1, Len(m.queue)) = m.queue
  BY <1>1, SubSeqFull
<1>4. ~(Len(m.queue) > MAX_QUEUE_LENGTH)
  BY <1>1, <1>2
<1>5. ToMediaState(m) = [m EXCEPT !.queue = m.queue]
  BY <1>3, <1>4 DEF ToMediaState
<1> QED BY <1>5 DEF Medias

LEMMA QueueKinds ==
  /\ \A q \in Queues : \A e : RemoveFirst(q, e) \in Queues
  /\ \A q \in Queues : q # <<>> => Head(q) \in Episodes
<1>1. ASSUME NEW q \in Queues, NEW e
      PROVE  RemoveFirst(q, e) \in Queues
  <2>1. q \in Seq(Episodes) /\ Len(q) =< MAX_QUEUE_LENGTH
    BY QueuesAre
  <2>2. RemoveFirst(q, e) \in Seq(Episodes) /\ Len(RemoveFirst(q, e)) =< Len(q)
    BY <2>1, WithoutOne
  <2>3. Len(RemoveFirst(q, e)) \in Nat /\ Len(q) \in Nat /\ MAX_QUEUE_LENGTH \in Nat
    BY <2>1, <2>2, LenProperties, MediaAssumption
  <2> QED BY <2>1, <2>2, <2>3, QueuesAre
<1>2. \A q \in Queues : q # <<>> => Head(q) \in Episodes
  BY QueuesAre, HeadTailProperties
<1> QED BY <1>1, <1>2

LEMMA NoTaskSound ==
  /\ NoTask \in MediaTasks /\ MediaSound(NoTask)
  /\ NoTask.pc = "free" /\ NoTask.op = "none" /\ NoTask.copy = NoCopy
BY CopyKinds DEF NoTask, MediaTasks, MediaPcs, MediaSound, Holding

\* Slot k gets a task that is sound.
MediaMoves(k, t) == mediaTask' = [mediaTask EXCEPT ![k] = t] /\ t \in MediaTasks /\ MediaSound(t)

LEMMA MovesInv ==
  ASSUME MediaInv, NEW k \in MediaSlots, NEW t, MediaMoves(k, t), mediaRow' \in Medias,
         mediaKey' \in Copies, mediaInputs' \in 0..MaxMediaInputs,
         mediaLapses' \subseteq {"crossed", "unpublished"}
  PROVE  /\ MediaInv'
         /\ mediaTask'[k] = t
         /\ \A j \in MediaSlots \ {k} : mediaTask'[j] = mediaTask[j]
BY DEF MediaInv, MediaMoves

LEMMA TaskKinds ==
  ASSUME MediaInv, NEW k \in MediaSlots
  PROVE  /\ mediaTask[k] \in MediaTasks /\ MediaSound(mediaTask[k])
         /\ mediaTask[k].copy # NoCopy => /\ mediaTask[k].copy[1] \in Medias
                                          /\ mediaTask[k].copy = <<mediaTask[k].copy[1]>>
         /\ mediaTask[k].item \in Episodes \cup {NoEpisode}
<1>1. mediaTask[k] \in MediaTasks /\ MediaSound(mediaTask[k])
  BY DEF MediaInv
<1>2. mediaTask[k].copy \in Copies /\ mediaTask[k].item \in Episodes \cup {NoEpisode}
  BY <1>1 DEF MediaTasks
<1> QED BY <1>1, <1>2, CopyKinds

\* What a task does with the state it loaded.
LEMMA Loads ==
  ASSUME MediaInv, NEW k \in MediaSlots, mediaTask[k].pc \in {"get", "fill"},
         NEW m \in Medias, LoadedMedia(k, m)
  PROVE  \E t : MediaMoves(k, t) /\ (t = NoTask \/ (t.pc \in {"find", "switch"} /\ t.copy = <<m>>))
<1> DEFINE t0 == mediaTask[k]
<1>1. t0 \in MediaTasks /\ MediaSound(t0)
  BY DEF MediaInv
<1>2. t0.op \in {"reader", "auto", "manual"} /\ (t0.op \in {"auto", "manual"} => t0.item \in Episodes)
  BY <1>1 DEF MediaSound
<1>3. <<m>> \in Copies /\ <<m>> # NoCopy /\ <<m>>[1] = m
  BY CopyKinds
<1>4. MediaDone(k) => MediaMoves(k, NoTask)
  BY NoTaskSound DEF MediaDone, MediaMoves
<1>5. ASSUME NEW pc \in {"find", "switch"},
             mediaTask' = [mediaTask EXCEPT ![k].pc = pc, ![k].copy = <<m>>],
             pc = "find" => t0.op = "auto" /\ m.queue = <<>>,
             pc = "switch" => t0.op \in {"auto", "manual"},
             pc = "switch" /\ t0.op = "auto" => m.queue # <<>>
      PROVE  \E t : MediaMoves(k, t) /\ t.pc \in {"find", "switch"} /\ t.copy = <<m>>
  <2> DEFINE t == [t0 EXCEPT !.pc = pc, !.copy = <<m>>]
  <2>1. mediaTask' = [mediaTask EXCEPT ![k] = t]
    BY <1>5 DEF MediaInv
  <2>2. /\ t \in MediaTasks /\ t.pc = pc /\ t.copy = <<m>> /\ t.op = t0.op /\ t.item = t0.item
    BY <1>1, <1>3 DEF MediaTasks, MediaPcs
  <2> HIDE DEF t
  <2>3. MediaSound(t)
    BY <1>2, <1>3, <1>5, <2>2 DEF MediaSound, Holding
  <2> QED BY <2>1, <2>2, <2>3 DEF MediaMoves
<1>6. CASE t0.op = "reader"
  BY <1>4, <1>6 DEF LoadedMedia
<1>7. CASE t0.op = "auto"
  BY <1>4, <1>5, <1>7 DEF LoadedMedia, Advance
<1>8. CASE t0.op = "manual"
  BY <1>5, <1>8 DEF LoadedMedia
<1> QED BY <1>2, <1>6, <1>7, <1>8

-----------------------------------------------------------------------------
(* The copies of the row, while nothing crossed.                           *)

Publishing(j) == \E k \in MediaSlots \ {j} : mediaTask[k].pc = "publish"

\* A report whose episode is no longer the row's: it will lose.
Behind(t) == t.op = "auto" /\ t.item # mediaRow.episode

KeyHolds ==
    \/ mediaKey = NoCopy
    \/ mediaKey = <<mediaRow>>
    \/ \E k \in MediaSlots : mediaTask[k].pc = "publish"

\* What is read from the row or is on its way to the key is the row; what was
\* read from the key may be older while somebody publishes.
CopyHolds(j, t) ==
    /\ t.pc \in {"fill", "publish", "update"} => t.copy = <<mediaRow>>
    /\ t.pc \in {"find", "switch"} => t.copy = <<mediaRow>> \/ Behind(t) \/ Publishing(j)

Follow == mediaLapses = {} => KeyHolds /\ \A j \in MediaSlots : CopyHolds(j, mediaTask[j])

\* A step that writes nothing but, from the row, the key.
LEMMA QuietFollows ==
  ASSUME MediaInv, Follow, NEW k \in MediaSlots, NEW t, MediaMoves(k, t),
         mediaRow' = mediaRow, mediaKey' = mediaKey \/ mediaKey' = <<mediaRow>>,
         mediaLapses' = mediaLapses,
         mediaTask[k].pc # "publish", t.pc # "publish",
         mediaLapses = {} => CopyHolds(k, t)
  PROVE  Follow'
<1> SUFFICES ASSUME mediaLapses = {}
             PROVE  KeyHolds' /\ \A j \in MediaSlots : CopyHolds(j, mediaTask[j])'
  BY DEF Follow
<1>1. mediaTask'[k] = t /\ \A j \in MediaSlots \ {k} : mediaTask'[j] = mediaTask[j]
  BY DEF MediaMoves, MediaInv
<1>2. \A j \in MediaSlots : mediaTask'[j].pc = "publish" <=> mediaTask[j].pc = "publish"
  BY <1>1
<1>3. \A j \in MediaSlots : Publishing(j)' <=> Publishing(j)
  BY <1>2 DEF Publishing
<1>4. KeyHolds'
  BY <1>2 DEF Follow, KeyHolds
<1>5. \A j \in MediaSlots : CopyHolds(j, mediaTask[j]) => CopyHolds(j, mediaTask[j])'
  BY <1>1, <1>3 DEF CopyHolds, Behind
<1>6. CopyHolds(k, t) => CopyHolds(k, mediaTask[k])'
  BY <1>1, <1>3 DEF CopyHolds, Behind
<1>7. ASSUME NEW j \in MediaSlots
      PROVE  CopyHolds(j, mediaTask[j])'
  BY <1>5 DEF Follow
<1> QED BY <1>4, <1>7

\* A step that writes the row or the key passes by nobody, or by reports that
\* are late.
LEMMA NobodyCrossedMedia ==
  ASSUME MediaInv, NEW k \in MediaSlots, MediaCrossing(k), mediaLapses' = {}
  PROVE  /\ mediaLapses = {}
         /\ \A j \in MediaSlots \ {k} :
              /\ mediaTask[j].pc \in Holding => Late(k, j)
              /\ mediaTask[j].pc # "publish"
              /\ ~Reports(k) => mediaTask[j].pc \notin Holding
<1>1. mediaLapses = {} /\ \A j \in MediaSlots \ {k} : mediaTask[j].copy # NoCopy => Late(k, j)
  BY DEF MediaCrossing
<1>2. \A j \in MediaSlots : mediaTask[j].pc \in Holding => mediaTask[j].copy # NoCopy
  BY DEF MediaInv, MediaSound
<1> QED BY <1>1, <1>2 DEF Late, Holding

LEMMA WriterFollows ==
  ASSUME MediaInv, NEW k \in MediaSlots, NEW t, MediaMoves(k, t), MediaCrossing(k),
         t.pc \in {"free", "publish"},
         mediaLapses' = {} => IF t.pc = "publish" THEN t.copy = <<mediaRow'>>
                              ELSE mediaKey' \in {NoCopy, <<mediaRow'>>}
  PROVE  Follow'
<1> SUFFICES ASSUME mediaLapses' = {}
             PROVE  KeyHolds' /\ \A j \in MediaSlots : CopyHolds(j, mediaTask[j])'
  BY DEF Follow
<1>1. mediaTask'[k] = t /\ \A j \in MediaSlots \ {k} : mediaTask'[j] = mediaTask[j]
  BY DEF MediaMoves, MediaInv
<1>2. KeyHolds'
  BY <1>1 DEF KeyHolds
<1>3. CopyHolds(k, mediaTask[k])'
  BY <1>1 DEF CopyHolds
<1>4. \A j \in MediaSlots \ {k} : CopyHolds(j, mediaTask[j])'
  BY <1>1, NobodyCrossedMedia DEF CopyHolds, Behind, Late, Reports, Holding
<1> QED BY <1>2, <1>3, <1>4

-----------------------------------------------------------------------------
(* The steps.                                                              *)

\* A report that advances the room: what it loaded is the row.
Advanced(k) ==
    Reports(k) /\ mediaLapses' = {}
      => /\ mediaTask[k].copy = <<mediaRow>>
         /\ mediaRow.episode = mediaTask[k].item
         /\ mediaRow' = [mediaRow EXCEPT !.episode = NextItem(mediaTask[k]),
                                         !.queue = RemoveFirst(@, NextItem(mediaTask[k]))]

LEMMA SwitchStep ==
  ASSUME MediaInv, Follow, NEW k \in MediaSlots, SwitchEpisode(k)
  PROVE  MediaInv' /\ Follow' /\ (mediaTask'[k].pc = "publish" => Advanced(k))
<1> DEFINE t0 == mediaTask[k]
<1>1. /\ t0 \in MediaTasks /\ MediaSound(t0) /\ t0.pc = "switch" /\ t0.copy # NoCopy
      /\ t0.copy[1] \in Medias /\ t0.copy = <<t0.copy[1]>>
  BY TaskKinds DEF SwitchEpisode, MediaAt, MediaSound, Holding
<1>2. mediaKey' = mediaKey /\ mediaInputs' = mediaInputs
  BY DEF SwitchEpisode
<1>3. CASE ~ReportWins(k)
  <2>1. MediaDone(k) /\ mediaRow' = mediaRow /\ mediaLapses' = mediaLapses
    BY <1>3 DEF SwitchEpisode
  <2>2. MediaMoves(k, NoTask)
    BY <2>1, NoTaskSound DEF MediaDone, MediaMoves
  <2>3. MediaInv' /\ mediaTask'[k] = NoTask
    BY <1>2, <2>1, <2>2, MovesInv DEF MediaInv
  <2>4. Follow'
    BY <1>1, <1>2, <2>1, <2>2, NoTaskSound, QuietFollows DEF CopyHolds
  <2> QED BY <2>3, <2>4, NoTaskSound
<1>4. CASE ReportWins(k)
  <2> DEFINE e == ItemOf(t0)
             q == RemoveFirst(t0.copy[1].queue, e)
             p == [t0.copy[1] EXCEPT !.episode = e, !.queue = q]
             t == [t0 EXCEPT !.pc = "publish", !.copy = <<p>>]
  <2>1. /\ mediaRow' = [mediaRow EXCEPT !.episode = e, !.queue = q]
        /\ mediaTask' = [mediaTask EXCEPT ![k].pc = "publish", ![k].copy = <<Published(k)>>]
        /\ MediaCrossing(k)
    BY <1>4 DEF SwitchEpisode
  <2>2. Published(k) = p
    BY DEF Published
  <2>3. e \in Episodes
    <3>1. CASE t0.op # "auto"
      BY <1>1, <3>1 DEF ItemOf, MediaSound
    <3>2. CASE t0.op = "auto" /\ t0.copy[1].queue = <<>>
      <4>1. t0.item \in Episodes /\ t0.item < LastEpisode
        BY <1>1, <3>2 DEF MediaSound
      <4> QED BY <3>2, <4>1, MediaAssumption DEF ItemOf, NextItem, Episodes
    <3>3. CASE t0.op = "auto" /\ t0.copy[1].queue # <<>>
      <4>1. Head(t0.copy[1].queue) \in Episodes
        BY <1>1, <3>3, MediaKinds, QueueKinds
      <4> QED BY <3>3, <4>1 DEF ItemOf, NextItem
    <3> QED BY <3>1, <3>2, <3>3
  <2>4. q \in Queues
    BY <1>1, MediaKinds, QueueKinds
  <2> HIDE DEF e, q
  <2>5. p \in Medias /\ mediaRow' \in Medias
    BY <1>1, <2>1, <2>3, <2>4, MediaKinds DEF MediaInv
  <2>6. <<p>> \in Copies /\ <<p>> # NoCopy
    BY <2>5, CopyKinds
  <2>7. mediaTask' = [mediaTask EXCEPT ![k] = t]
    BY <2>1, <2>2 DEF MediaInv
  <2> HIDE DEF p
  <2>8. t \in MediaTasks /\ t.pc = "publish" /\ t.copy = <<p>> /\ t.op = t0.op /\ t.item = t0.item
    BY <1>1, <2>6 DEF MediaTasks, MediaPcs
  <2> HIDE DEF t
  <2>9. MediaSound(t)
    BY <1>1, <2>6, <2>8 DEF MediaSound, Holding
  <2>10. MediaMoves(k, t)
    BY <2>7, <2>8, <2>9 DEF MediaMoves
  <2>11. mediaLapses' \subseteq {"crossed", "unpublished"}
    BY <2>1 DEF MediaCrossing, MediaInv
  <2>12. MediaInv'
    BY <1>2, <2>5, <2>10, <2>11, MovesInv DEF MediaInv
  <2>13. ASSUME mediaLapses' = {}
         PROVE  t0.copy = <<mediaRow>>
    <3>1. /\ mediaLapses = {}
          /\ \A j \in MediaSlots \ {k} : mediaTask[j].pc # "publish"
      BY <2>1, <2>13, NobodyCrossedMedia
    <3>2. t0.copy = <<mediaRow>> \/ Behind(t0) \/ Publishing(k)
      BY <1>1, <3>1 DEF Follow, CopyHolds
    <3> QED BY <1>4, <3>1, <3>2 DEF Publishing, Behind, ReportWins
  <2>14. ASSUME mediaLapses' = {}
         PROVE  p = mediaRow'
    <3>1. t0.copy[1] = mediaRow
      BY <2>13, <2>14, CopyKinds
    <3> QED BY <2>1, <3>1 DEF p
  <2>15. Follow'
    BY <2>1, <2>8, <2>10, <2>14, WriterFollows
  <2>16. Advanced(k)
    <3> SUFFICES ASSUME Reports(k), mediaLapses' = {}
                 PROVE  Advanced(k)
      BY DEF Advanced
    <3>1. t0.copy = <<mediaRow>> /\ t0.copy[1] = mediaRow
      BY <2>13, CopyKinds
    <3>2. mediaRow.episode = t0.item /\ e = NextItem(t0)
      BY <1>4 DEF ReportWins, Reports, ItemOf, e
    <3>3. q = RemoveFirst(mediaRow.queue, NextItem(t0))
      BY <3>1, <3>2 DEF q
    <3>4. mediaRow' = [mediaRow EXCEPT !.episode = NextItem(t0),
                                       !.queue = RemoveFirst(@, NextItem(t0))]
      BY <2>1, <3>2, <3>3
    <3> QED BY <3>1, <3>2, <3>4 DEF Advanced
  <2> QED BY <2>12, <2>15, <2>16
<1> QED BY <1>3, <1>4

\* The other steps keep the invariants and advance no report.
LEMMA LoadStep ==
  ASSUME MediaInv, Follow, NEW k \in MediaSlots,
         GetMedia(k) \/ ReadMediaRow(k) \/ FillMedia(k) \/ FindNextEpisode(k)
  PROVE  MediaInv' /\ Follow' /\ mediaTask'[k].pc # "publish"
<1> DEFINE t0 == mediaTask[k]
<1>1. /\ t0 \in MediaTasks /\ MediaSound(t0)
      /\ t0.copy # NoCopy => t0.copy[1] \in Medias /\ t0.copy = <<t0.copy[1]>>
  BY TaskKinds
<1>2. mediaRow' = mediaRow /\ mediaInputs' = mediaInputs /\ mediaLapses' = mediaLapses
  BY DEF GetMedia, ReadMediaRow, FillMedia, FindNextEpisode
<1>3. ASSUME NEW t, MediaMoves(k, t), mediaKey' \in Copies,
             mediaLapses = {} => mediaKey' = mediaKey \/ mediaKey' = <<mediaRow>>,
             t0.pc # "publish", t.pc # "publish", mediaLapses = {} => CopyHolds(k, t)
      PROVE  MediaInv' /\ Follow' /\ mediaTask'[k].pc # "publish"
  <2>1. MediaInv' /\ mediaTask'[k] = t
    BY <1>2, <1>3, MovesInv DEF MediaInv
  <2>2. Follow'
    <3>1. CASE mediaLapses # {}
      BY <1>2, <3>1 DEF Follow
    <3>2. CASE mediaLapses = {}
      BY <1>2, <1>3, <3>2, QuietFollows
    <3> QED BY <3>1, <3>2
  <2> QED BY <1>3, <2>1, <2>2
<1>4. CASE GetMedia(k)
  <2>1. t0.pc = "get" /\ mediaKey' = mediaKey /\ mediaKey \in Copies
    BY <1>4 DEF GetMedia, MediaAt, MediaInv
  <2>2. CASE mediaKey = NoCopy
    <3> DEFINE t == [t0 EXCEPT !.pc = "row"]
    <3>1. mediaTask' = [mediaTask EXCEPT ![k] = t]
      BY <1>4, <2>2 DEF GetMedia, MediaGoto, MediaInv
    <3>2. t \in MediaTasks /\ t.pc = "row" /\ t.copy = t0.copy /\ t.op = t0.op /\ t.item = t0.item
      BY <1>1 DEF MediaTasks, MediaPcs
    <3> HIDE DEF t
    <3>3. MediaSound(t)
      BY <1>1, <2>1, <3>2 DEF MediaSound, Holding
    <3>4. MediaMoves(k, t)
      BY <3>1, <3>2, <3>3 DEF MediaMoves
    <3> QED BY <1>3, <2>1, <3>2, <3>4 DEF CopyHolds
  <2>3. CASE mediaKey # NoCopy
    <3>1. mediaKey[1] \in Medias /\ mediaKey = <<mediaKey[1]>>
      BY <2>1, <2>3, CopyKinds
    <3>2. LoadedMedia(k, mediaKey[1])
      BY <1>4, <2>3 DEF GetMedia
    <3>3. PICK t : MediaMoves(k, t) /\ (t = NoTask \/ (t.pc \in {"find", "switch"} /\ t.copy = <<mediaKey[1]>>))
      BY <2>1, <3>1, <3>2, Loads
    <3>4. mediaLapses = {} => mediaKey = <<mediaRow>> \/ Publishing(k)
      BY <2>1, <2>3 DEF Follow, KeyHolds, Publishing
    <3>5. mediaLapses = {} => CopyHolds(k, t)
      BY <3>1, <3>3, <3>4, NoTaskSound DEF CopyHolds
    <3> QED BY <1>3, <2>1, <3>3, <3>5, NoTaskSound
  <2> QED BY <2>2, <2>3
<1>5. CASE ReadMediaRow(k)
  <2>1. t0.pc = "row" /\ mediaKey' = mediaKey
    BY <1>5 DEF ReadMediaRow, MediaAt
  <2> DEFINE t == [t0 EXCEPT !.pc = "fill", !.copy = <<mediaRow>>]
  <2>2. ToMediaState(mediaRow) = mediaRow /\ <<mediaRow>> \in Copies /\ <<mediaRow>> # NoCopy
        /\ mediaKey \in Copies
    BY CachedAsItIs, CopyKinds DEF MediaInv
  <2>3. mediaTask' = [mediaTask EXCEPT ![k] = t]
    BY <1>5, <2>2 DEF ReadMediaRow, MediaInv
  <2>4. t \in MediaTasks /\ t.pc = "fill" /\ t.copy = <<mediaRow>> /\ t.op = t0.op /\ t.item = t0.item
    BY <1>1, <2>2 DEF MediaTasks, MediaPcs
  <2> HIDE DEF t
  <2>5. MediaSound(t)
    BY <1>1, <2>1, <2>2, <2>4 DEF MediaSound, Holding
  <2>6. MediaMoves(k, t)
    BY <2>3, <2>4, <2>5 DEF MediaMoves
  <2> QED BY <1>3, <2>1, <2>2, <2>4, <2>6 DEF CopyHolds
<1>6. CASE FillMedia(k)
  <2>1. t0.pc = "fill" /\ mediaKey' = t0.copy /\ LoadedMedia(k, t0.copy[1])
    BY <1>6 DEF FillMedia, MediaAt
  <2>2. t0.copy # NoCopy
    BY <1>1, <2>1 DEF MediaSound, Holding
  <2>3. PICK t : MediaMoves(k, t) /\ (t = NoTask \/ (t.pc \in {"find", "switch"} /\ t.copy = <<t0.copy[1]>>))
    BY <1>1, <2>1, <2>2, Loads
  <2>4. mediaLapses = {} => t0.copy = <<mediaRow>>
    BY <2>1 DEF Follow, CopyHolds
  <2>5. mediaLapses = {} => CopyHolds(k, t)
    BY <1>1, <2>2, <2>3, <2>4, NoTaskSound DEF CopyHolds
  <2>6. mediaKey' \in Copies
    BY <1>1, <2>1 DEF MediaTasks
  <2> QED BY <1>3, <2>1, <2>3, <2>4, <2>5, <2>6, NoTaskSound
<1>7. CASE FindNextEpisode(k)
  <2>1. t0.pc = "find" /\ mediaKey' = mediaKey /\ mediaKey \in Copies
    BY <1>7 DEF FindNextEpisode, MediaAt, MediaInv
  <2>2. CASE MediaDone(k)
    <3>1. MediaMoves(k, NoTask)
      BY <2>2, NoTaskSound DEF MediaDone, MediaMoves
    <3> QED BY <1>3, <2>1, <3>1, NoTaskSound DEF CopyHolds
  <2>3. CASE t0.item < LastEpisode /\ MediaGoto(k, "switch")
    <3> DEFINE t == [t0 EXCEPT !.pc = "switch"]
    <3>1. mediaTask' = [mediaTask EXCEPT ![k] = t]
      BY <2>3 DEF MediaGoto, MediaInv
    <3>2. t \in MediaTasks /\ t.pc = "switch" /\ t.copy = t0.copy /\ t.op = t0.op /\ t.item = t0.item
      BY <1>1 DEF MediaTasks, MediaPcs
    <3> HIDE DEF t
    <3>3. MediaSound(t)
      BY <1>1, <2>1, <2>3, <3>2 DEF MediaSound, Holding
    <3>4. MediaMoves(k, t)
      BY <3>1, <3>2, <3>3 DEF MediaMoves
    <3>5. mediaLapses = {} => CopyHolds(k, t)
      BY <2>1, <3>2 DEF Follow, CopyHolds, Behind
    <3> QED BY <1>3, <2>1, <3>2, <3>4, <3>5
  <2> QED BY <1>7, <2>2, <2>3 DEF FindNextEpisode
<1> QED BY <1>4, <1>5, <1>6, <1>7

LEMMA PublishStep ==
  ASSUME MediaInv, Follow, NEW k \in MediaSlots, PublishMedia(k)
  PROVE  MediaInv' /\ Follow' /\ mediaTask'[k].pc # "publish"
<1>1. /\ mediaTask[k].pc = "publish" /\ mediaKey' = mediaTask[k].copy /\ MediaDone(k)
      /\ mediaRow' = mediaRow /\ mediaInputs' = mediaInputs /\ MediaCrossing(k)
  BY DEF PublishMedia, MediaAt
<1>2. MediaMoves(k, NoTask)
  BY <1>1, NoTaskSound DEF MediaDone, MediaMoves
<1>3. mediaKey' \in Copies
  BY <1>1, TaskKinds DEF MediaTasks
<1>4. mediaLapses' \subseteq {"crossed", "unpublished"}
  BY <1>1 DEF MediaCrossing, MediaInv
<1>5. MediaInv' /\ mediaTask'[k] = NoTask
  BY <1>1, <1>2, <1>3, <1>4, MovesInv DEF MediaInv
<1>6. mediaLapses' = {} => mediaKey' = <<mediaRow'>>
  BY <1>1, NobodyCrossedMedia DEF Follow, CopyHolds
<1>7. Follow'
  BY <1>1, <1>2, <1>6, WriterFollows, NoTaskSound
<1> QED BY <1>5, <1>7, NoTaskSound

LEMMA WriteStep ==
  ASSUME MediaInv, Follow, NEW k \in MediaSlots, WriteEpisode(k)
  PROVE  MediaInv' /\ Follow' /\ mediaTask[k].pc # "switch"
<1> DEFINE t0 == mediaTask[k]
<1>1. /\ t0.pc = "update" /\ mediaKey' = mediaKey /\ mediaInputs' = mediaInputs
      /\ mediaRow' = [mediaRow EXCEPT !.episode = t0.item]
      /\ MediaCrossing(k)
  BY DEF WriteEpisode, MediaAt
<1>2. /\ t0 \in MediaTasks /\ MediaSound(t0) /\ t0.op = "rest" /\ t0.item \in Episodes
      /\ t0.copy # NoCopy
  BY <1>1, TaskKinds DEF MediaSound, Holding
<1>3. mediaRow' \in Medias
  BY <1>1, <1>2, MediaKinds DEF MediaInv
<1>4. mediaLapses' \subseteq {"crossed", "unpublished"}
  BY <1>1 DEF MediaCrossing, MediaInv
<1>5. CASE t0.copy[1].episode # t0.item
  <2> DEFINE t == [t0 EXCEPT !.pc = "publish", !.copy = <<mediaRow'>>]
  <2>1. ToMediaState(mediaRow') = mediaRow' /\ <<mediaRow'>> \in Copies /\ <<mediaRow'>> # NoCopy
    BY <1>3, CachedAsItIs, CopyKinds
  <2>2. mediaTask' = [mediaTask EXCEPT ![k] = t]
    BY <1>5, <2>1 DEF WriteEpisode, MediaInv
  <2>3. t \in MediaTasks /\ t.pc = "publish" /\ t.copy = <<mediaRow'>> /\ t.op = t0.op
        /\ t.item = t0.item
    BY <1>2, <2>1 DEF MediaTasks, MediaPcs
  <2> HIDE DEF t
  <2>4. MediaSound(t)
    BY <1>2, <2>1, <2>3 DEF MediaSound, Holding
  <2>5. MediaMoves(k, t)
    BY <2>2, <2>3, <2>4 DEF MediaMoves
  <2>6. MediaInv'
    BY <1>1, <1>3, <1>4, <2>5, MovesInv DEF MediaInv
  <2>7. Follow'
    BY <1>1, <2>3, <2>5, WriterFollows
  <2> QED BY <1>1, <2>6, <2>7
<1>6. CASE t0.copy[1].episode = t0.item
  <2>1. MediaMoves(k, NoTask)
    BY <1>6, NoTaskSound DEF WriteEpisode, MediaDone, MediaMoves
  <2>2. MediaInv'
    BY <1>1, <1>3, <1>4, <2>1, MovesInv DEF MediaInv
  <2>3. ASSUME mediaLapses' = {}
        PROVE  mediaKey' \in {NoCopy, <<mediaRow'>>}
    <3>1. mediaLapses = {} /\ \A j \in MediaSlots : mediaTask[j].pc # "publish"
      BY <1>1, <2>3, NobodyCrossedMedia
    <3>2. mediaKey \in {NoCopy, <<mediaRow>>} /\ t0.copy = <<mediaRow>>
      BY <1>1, <3>1 DEF Follow, KeyHolds, CopyHolds
    <3>3. mediaRow.episode = t0.item
      BY <1>6, <3>2, CopyKinds
    <3>4. mediaRow' = mediaRow
      BY <1>1, <3>3 DEF MediaInv, Medias
    <3> QED BY <1>1, <3>2, <3>4
  <2>4. Follow'
    BY <1>1, <2>1, <2>3, WriterFollows, NoTaskSound
  <2> QED BY <1>1, <2>2, <2>4
<1> QED BY <1>5, <1>6

LEMMA RequestStep ==
  ASSUME MediaInv, Follow, NEW k \in MediaSlots, RoomCommand(k) \/ MediaRequest(k)
  PROVE  MediaInv' /\ Follow' /\ mediaTask[k].pc # "switch"
<1>1. mediaTask[k] = NoTask
  BY DEF RoomCommand, MediaRequest, EpisodeChange, EpisodeEnded, RoomTask, ReadMedia,
         UpdateEpisode, UpdateQueue, MediaStart
<1>2. mediaInputs' \in 0..MaxMediaInputs
  <2>1. MediaInput
    BY DEF RoomCommand, MediaRequest, EpisodeChange, EpisodeEnded, RoomTask, ReadMedia,
           UpdateEpisode, UpdateQueue
  <2> QED BY <2>1, MediaAssumption DEF MediaInput, MediaInv
<1>3. ASSUME NEW t, MediaMoves(k, t), mediaRow' = mediaRow, mediaKey' = mediaKey,
             mediaLapses' = mediaLapses, t.pc # "publish", CopyHolds(k, t)
      PROVE  MediaInv' /\ Follow'
  <2>1. MediaInv'
    BY <1>2, <1>3, MovesInv DEF MediaInv
  <2>2. Follow'
    BY <1>1, <1>3, QuietFollows, NoTaskSound
  <2> QED BY <2>1, <2>2
<1>4. NoCopy \in Copies
  BY CopyKinds
<1>5. ASSUME NEW i \in MediaInstances, NEW op \in {"manual", "auto"}, NEW e \in Episodes,
             RoomTask(k, i, op, e)
      PROVE  MediaInv' /\ Follow'
  <2> DEFINE t == [NoTask EXCEPT !.op = op, !.pc = "get", !.at = i, !.item = e]
  <2>1. t \in MediaTasks /\ t.op = op /\ t.pc = "get" /\ t.item = e /\ t.copy = NoCopy
    BY NoTaskSound DEF MediaTasks, MediaPcs
  <2>2. mediaTask' = [mediaTask EXCEPT ![k] = t]
    BY <1>5 DEF RoomTask, MediaStart
  <2> HIDE DEF t
  <2>3. MediaMoves(k, t) /\ CopyHolds(k, t)
    BY <2>1, <2>2 DEF MediaMoves, MediaSound, Holding, CopyHolds
  <2> QED BY <1>3, <1>5, <2>1, <2>2, <2>3 DEF RoomTask
<1>6. CASE ReadMedia(k)
  <2> DEFINE t == [NoTask EXCEPT !.op = "reader", !.pc = "row"]
  <2>1. t \in MediaTasks /\ t.op = "reader" /\ t.pc = "row" /\ t.copy = NoCopy
    BY NoTaskSound DEF MediaTasks, MediaPcs
  <2>2. mediaTask' = [mediaTask EXCEPT ![k] = t] /\ UNCHANGED <<mediaRow, mediaKey, mediaLapses>>
    BY <1>6 DEF ReadMedia, MediaStart
  <2> HIDE DEF t
  <2>3. MediaMoves(k, t) /\ CopyHolds(k, t)
    BY <2>1, <2>2 DEF MediaMoves, MediaSound, Holding, CopyHolds
  <2> QED BY <1>1, <1>3, <2>1, <2>2, <2>3, NoTaskSound
<1>7. ASSUME NEW e \in Episodes, UpdateEpisode(k, e)
      PROVE  MediaInv' /\ Follow'
  <2> DEFINE t == [NoTask EXCEPT !.op = "rest", !.pc = "update", !.item = e, !.copy = <<mediaRow>>]
  <2>1. <<mediaRow>> \in Copies /\ <<mediaRow>> # NoCopy
    BY CopyKinds DEF MediaInv
  <2>2. /\ t \in MediaTasks /\ t.op = "rest" /\ t.pc = "update" /\ t.item = e
        /\ t.copy = <<mediaRow>>
    BY <2>1, NoTaskSound DEF MediaTasks, MediaPcs
  <2>3. mediaTask' = [mediaTask EXCEPT ![k] = t] /\ UNCHANGED <<mediaRow, mediaKey, mediaLapses>>
    BY <1>7 DEF UpdateEpisode, MediaStart
  <2> HIDE DEF t
  <2>4. MediaMoves(k, t) /\ CopyHolds(k, t)
    BY <2>1, <2>2, <2>3 DEF MediaMoves, MediaSound, Holding, CopyHolds
  <2> QED BY <1>3, <2>2, <2>3, <2>4
<1>8. ASSUME NEW q \in Queues, UpdateQueue(k, q)
      PROVE  MediaInv' /\ Follow'
  <2> DEFINE t == [NoTask EXCEPT !.op = "rest", !.pc = "publish", !.copy = <<mediaRow'>>]
  <2>1. PICK auto \in BOOLEAN : mediaRow' = [mediaRow EXCEPT !.queue = q, !.autoNext = auto]
    BY <1>8 DEF UpdateQueue
  <2>2. mediaRow' \in Medias /\ mediaKey' = mediaKey /\ MediaCrossing(k)
    BY <1>8, <2>1, MediaKinds DEF UpdateQueue, MediaInv
  <2>3. <<mediaRow'>> \in Copies /\ <<mediaRow'>> # NoCopy /\ ToMediaState(mediaRow') = mediaRow'
    BY <2>2, CopyKinds, CachedAsItIs
  <2>4. t \in MediaTasks /\ t.op = "rest" /\ t.pc = "publish" /\ t.copy = <<mediaRow'>>
    BY <2>3, NoTaskSound DEF MediaTasks, MediaPcs
  <2>5. mediaTask' = [mediaTask EXCEPT ![k] = t]
    BY <1>8, <2>3 DEF UpdateQueue, MediaStart
  <2> HIDE DEF t
  <2>6. MediaMoves(k, t)
    BY <2>3, <2>4, <2>5 DEF MediaMoves, MediaSound, Holding
  <2>7. mediaLapses' \subseteq {"crossed", "unpublished"}
    BY <2>2 DEF MediaCrossing, MediaInv
  <2>8. MediaInv'
    BY <1>2, <2>2, <2>6, <2>7, MovesInv DEF MediaInv
  <2>9. Follow'
    BY <2>2, <2>4, <2>6, WriterFollows
  <2> QED BY <2>8, <2>9
<1> QED BY <1>1, <1>5, <1>6, <1>7, <1>8, NoTaskSound DEF RoomCommand, MediaRequest,
           EpisodeChange, EpisodeEnded

LEMMA FailStep ==
  ASSUME MediaInv, Follow, NEW k \in MediaSlots, MediaFail(k)
  PROVE  MediaInv' /\ Follow' /\ mediaTask'[k].pc # "publish"
<1>1. /\ mediaRow' = mediaRow /\ mediaKey' = mediaKey /\ MediaDone(k)
      /\ mediaLapses' = IF mediaTask[k].pc = "publish" THEN mediaLapses \cup {"unpublished"}
                        ELSE mediaLapses
  BY DEF MediaFail, MediaAt
<1>2. mediaInputs' \in 0..MaxMediaInputs
  BY MediaAssumption DEF MediaFail, MediaInput, MediaInv
<1>3. MediaMoves(k, NoTask)
  BY <1>1, NoTaskSound DEF MediaDone, MediaMoves
<1>4. MediaInv' /\ mediaTask'[k] = NoTask
  BY <1>1, <1>2, <1>3, MovesInv DEF MediaInv
<1>5. Follow'
  <2>1. CASE mediaTask[k].pc = "publish"
    BY <1>1, <2>1 DEF Follow
  <2>2. CASE mediaTask[k].pc # "publish"
    BY <1>1, <1>3, <2>2, QuietFollows, NoTaskSound DEF CopyHolds
  <2> QED BY <2>1, <2>2
<1> QED BY <1>4, <1>5, NoTaskSound

-----------------------------------------------------------------------------
LEMMA MediaInitInv == MediaInit => MediaInv /\ Follow
<1> SUFFICES ASSUME MediaInit PROVE MediaInv /\ Follow
  OBVIOUS
<1>1. mediaRow \in Medias
  <2>1. 1 \in Episodes
    BY MediaAssumption DEF Episodes
  <2> QED BY <2>1 DEF MediaInit, Medias
<1>2. MediaInv
  BY <1>1, CopyKinds, NoTaskSound, MediaAssumption DEF MediaInit, MediaInv
<1>3. Follow
  BY NoTaskSound DEF MediaInit, Follow, KeyHolds, CopyHolds
<1> QED BY <1>2, <1>3

\* Of the steps of a slot only a switch that wins takes it from "switch" to
\* "publish", and no step concerns another slot.
LEMMA MediaStepInv ==
  ASSUME MediaInv, Follow, [MediaNext]_mediaVars
  PROVE  /\ MediaInv' /\ Follow'
         /\ \A k \in MediaSlots :
              mediaTask[k].pc = "switch" /\ mediaTask'[k].pc = "publish" => Advanced(k)
<1>1. CASE UNCHANGED mediaVars
  BY <1>1 DEF MediaInv, Follow, KeyHolds, CopyHolds, Behind, Publishing, mediaVars
<1>2. CASE MediaNext
  <2>1. PICK k \in MediaSlots :
          MediaStep(k) \/ RoomCommand(k) \/ MediaRequest(k) \/ MediaFail(k)
    BY <1>2 DEF MediaNext
  <2>2. /\ MediaInv' /\ Follow'
        /\ mediaTask[k].pc = "switch" /\ mediaTask'[k].pc = "publish" => Advanced(k)
    BY <2>1, SwitchStep, LoadStep, PublishStep, WriteStep, RequestStep, FailStep DEF MediaStep
  <2>3. ASSUME NEW j \in MediaSlots, j # k
        PROVE  mediaTask'[j] = mediaTask[j]
    <3>1. PICK t : mediaTask' = [mediaTask EXCEPT ![k] = t]
      <4>1. CASE MediaDone(k)
        BY <4>1 DEF MediaDone
      <4>2. ASSUME NEW t, MediaStart(k, t)
            PROVE  \E u : mediaTask' = [mediaTask EXCEPT ![k] = u]
        BY <4>2 DEF MediaStart
      <4>3. ASSUME NEW pc, NEW copy, mediaTask' = [mediaTask EXCEPT ![k].pc = pc, ![k].copy = copy]
            PROVE  \E u : mediaTask' = [mediaTask EXCEPT ![k] = u]
        BY <4>3
      <4>4. ASSUME NEW pc, MediaGoto(k, pc)
            PROVE  \E u : mediaTask' = [mediaTask EXCEPT ![k] = u]
        BY <4>4 DEF MediaGoto
      <4>5. ASSUME NEW m, mediaTask[k].pc \in {"get", "fill"}, LoadedMedia(k, m)
            PROVE  \E u : mediaTask' = [mediaTask EXCEPT ![k] = u]
        <5>1. mediaTask[k].op \in {"reader", "auto", "manual"}
          BY <4>5 DEF MediaInv, MediaSound
        <5> QED BY <4>1, <4>3, <4>5, <5>1 DEF LoadedMedia, Advance
      <4>6. CASE MediaStep(k)
        BY <4>1, <4>3, <4>4, <4>5, <4>6 DEF MediaStep, GetMedia, ReadMediaRow, FillMedia,
           FindNextEpisode, SwitchEpisode, PublishMedia, WriteEpisode, MediaAt
      <4>7. CASE RoomCommand(k) \/ MediaRequest(k)
        BY <4>2, <4>7 DEF RoomCommand, MediaRequest, EpisodeChange, EpisodeEnded, RoomTask,
           ReadMedia, UpdateEpisode, UpdateQueue
      <4> QED BY <2>1, <4>1, <4>6, <4>7 DEF MediaFail
    <3> QED BY <2>3, <3>1 DEF MediaInv
  <2> QED BY <2>2, <2>3
<1> QED BY <1>1, <1>2

\* The row, the key and the tasks keep their types, for every limit of the queue
\* and any number of instances; a task about to decide or to store holds the
\* state it does that with.
THEOREM MediaTypes == MediaSpec => []MediaTypeOK
<1>1. MediaInit => MediaInv /\ Follow
  BY MediaInitInv
<1>2. MediaInv /\ Follow /\ [MediaNext]_mediaVars => (MediaInv /\ Follow)'
  BY MediaStepInv
<1>3. MediaInv => MediaTypeOK
  BY DEF MediaInv, MediaTypeOK, MediaTasks, Copies, MediaSound, Holding
<1> QED BY <1>1, <1>2, <1>3, PTL DEF MediaSpec

\* The cached episode and queue are those of the row once nobody is about to
\* store them, unless requests crossed or a publish failed.
THEOREM MediaKeptCurrent == MediaSpec => []MediaFollowsRow
<1>1. MediaInit => MediaInv /\ Follow
  BY MediaInitInv
<1>2. MediaInv /\ Follow /\ [MediaNext]_mediaVars => (MediaInv /\ Follow)'
  BY MediaStepInv
<1>3. Follow => MediaFollowsRow
  BY CopyKinds DEF Follow, KeyHolds, MediaFollowsRow
<1> QED BY <1>1, <1>2, <1>3, PTL DEF MediaSpec

\* However many viewers report the end of an episode on however many instances,
\* the report that wins advances the room by one, from the row as it is.
THEOREM EpisodesInOrder == MediaSpec => AdvancesInOrder
<1> DEFINE A == \A k \in MediaSlots :
                  /\ Reports(k) /\ mediaTask[k].pc = "switch" /\ mediaTask'[k].pc = "publish"
                  /\ mediaLapses' = {}
                  => /\ mediaRow.episode = mediaTask[k].item
                     /\ mediaRow'.episode = IF mediaRow.queue = <<>> THEN mediaRow.episode + 1
                                            ELSE Head(mediaRow.queue)
                     /\ mediaRow'.queue = IF mediaRow.queue = <<>> THEN <<>> ELSE Tail(mediaRow.queue)
<1>1. MediaInit => MediaInv /\ Follow
  BY MediaInitInv
<1>2. MediaInv /\ Follow /\ [MediaNext]_mediaVars => (MediaInv /\ Follow)'
  BY MediaStepInv
<1>3. MediaInv /\ Follow /\ [MediaNext]_mediaVars => A
  <2> SUFFICES ASSUME MediaInv, Follow, [MediaNext]_mediaVars, NEW k \in MediaSlots,
                      Reports(k), mediaTask[k].pc = "switch", mediaTask'[k].pc = "publish",
                      mediaLapses' = {}
               PROVE  /\ mediaRow.episode = mediaTask[k].item
                      /\ mediaRow'.episode = IF mediaRow.queue = <<>> THEN mediaRow.episode + 1
                                             ELSE Head(mediaRow.queue)
                      /\ mediaRow'.queue = IF mediaRow.queue = <<>> THEN <<>>
                                           ELSE Tail(mediaRow.queue)
    OBVIOUS
  <2>1. Advanced(k)
    BY MediaStepInv
  <2>2. /\ mediaTask[k].copy[1] = mediaRow /\ mediaRow.episode = mediaTask[k].item
        /\ mediaRow' = [mediaRow EXCEPT !.episode = NextItem(mediaTask[k]),
                                        !.queue = RemoveFirst(@, NextItem(mediaTask[k]))]
    BY <2>1, CopyKinds DEF Advanced
  <2>3. mediaRow \in Medias /\ mediaRow.queue \in Seq(Episodes)
    BY MediaKinds, QueuesAre DEF MediaInv
  <2>4. /\ mediaRow'.episode = NextItem(mediaTask[k])
        /\ mediaRow'.queue = RemoveFirst(mediaRow.queue, NextItem(mediaTask[k]))
    BY <2>2, <2>3 DEF Medias
  <2>5. NextItem(mediaTask[k]) = IF mediaRow.queue = <<>> THEN mediaRow.episode + 1
                                 ELSE Head(mediaRow.queue)
    BY <2>2 DEF NextItem
  <2>6. RemoveFirst(mediaRow.queue, NextItem(mediaTask[k]))
          = IF mediaRow.queue = <<>> THEN <<>> ELSE Tail(mediaRow.queue)
    BY <2>3, <2>5, WithoutOne
  <2> QED BY <2>2, <2>4, <2>5, <2>6
<1>4. AdvancesInOrder <=> [][A]_mediaVars
  BY DEF AdvancesInOrder
<1> HIDE DEF A
<1> QED BY <1>1, <1>2, <1>3, <1>4, PTL DEF MediaSpec

-----------------------------------------------------------------------------
(* Hosts and media side by side.                                           *)

\* The types of a room's hosts and of its media hold together: each moves as
\* its own specification says, or not at all.
THEOREM RoomsTypes == MCSpec => []RoomsTypeOK
<1>1. MCInit => Init /\ MediaInit
  BY DEF MCInit
<1>2. [MCNext]_mcVars => [Next]_vars /\ [MediaNext]_mediaVars
  BY DEF MCNext, mcVars
<1>3. MCSpec => MediaSpec /\ Init /\ [][Next]_vars
  BY <1>1, <1>2, PTL DEF MCSpec, MediaSpec
<1>4. RoomInv /\ MediaTypeOK => RoomsTypeOK
  BY DEF RoomsTypeOK, RoomInv
<1> QED BY <1>3, <1>4, InitTypes, StepTypes, MediaTypes, PTL
=============================================================================
