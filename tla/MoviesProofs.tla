----------------------------- MODULE MoviesProofs -----------------------------
(* Proofs about the movie sources (MovieSources), the two levels of cache  *)
(* in front of them (MovieCache) and the skip markers of an episode        *)
(* (SkipMarkers), for any number of retries, instances, requests, keys,    *)
(* viewers and marks.                                                      *)
EXTENDS MovieSources, MovieCache, SkipMarkers,
        FiniteSetTheorems, SequenceTheorems, NaturalsInduction, WellFoundedInduction, TLAPS

-----------------------------------------------------------------------------
(* Numbers and sequences.                                                  *)

\* A set of numbers has a least one.
LEMMA LeastOf ==
  ASSUME NEW I \in SUBSET Nat, I # {}
  PROVE  \E x \in I : \A y \in I : x =< y
<1>1. IsWellFoundedOn(OpToRel(<, Nat), Nat)
  BY NatLessThanWellFounded
<1>2. PICK x \in I : \A y \in I : <<y, x>> \notin OpToRel(<, Nat)
  BY <1>1, WFMin
<1>3. \A y \in I : ~(y < x)
  BY <1>2 DEF OpToRel
<1>4. x \in I /\ \A y \in I : x =< y
  BY <1>3
<1> QED BY <1>4

\* A sequence without one of its elements: the others close up.
LEMMA ElementOut ==
  ASSUME NEW T, NEW s \in Seq(T), NEW m \in 1..Len(s)
  PROVE  /\ RemoveAt(s, m) \in Seq(T) /\ Len(RemoveAt(s, m)) = Len(s) - 1
         /\ \A n \in 1..Len(s) - 1 : RemoveAt(s, m)[n] = IF n < m THEN s[n] ELSE s[n + 1]
<1> DEFINE a == SubSeq(s, 1, m - 1)
           b == SubSeq(s, m + 1, Len(s))
<1>1. Len(s) \in Nat
  OBVIOUS
<1>2. /\ \A n \in 1..(m - 1) : s[n] \in T
      /\ \A n \in (m + 1)..Len(s) : s[n] \in T
      /\ m - 1 \in Int /\ m + 1 \in Int /\ Len(s) \in Int /\ 1 \in Int
  BY <1>1, ElementOfSeq
<1>3. a \in Seq(T) /\ Len(a) = m - 1 /\ \A n \in 1..(m - 1) : a[n] = s[n]
  BY <1>2, SubSeqProperties
<1>4. b \in Seq(T) /\ Len(b) = Len(s) - m /\ \A n \in 1..(Len(s) - m) : b[n] = s[n + m]
  <2>1. b \in Seq(T) /\ Len(b) = Len(s) - m
    BY <1>1, <1>2, SubSeqProperties
  <2>2. \A n \in 1..(Len(s) - m) : b[n] = s[m + 1 + n - 1]
    BY <1>1, <1>2, SubSeqProperties
  <2>3. \A n \in 1..(Len(s) - m) : m + 1 + n - 1 = n + m
    BY <1>1
  <2> QED BY <2>1, <2>2, <2>3
<1> HIDE DEF a, b
<1>5. RemoveAt(s, m) = a \o b
  BY DEF RemoveAt, a, b
<1>6. /\ a \o b \in Seq(T) /\ Len(a \o b) = Len(a) + Len(b)
      /\ \A n \in 1..Len(a) + Len(b) : (a \o b)[n] = IF n <= Len(a) THEN a[n] ELSE b[n - Len(a)]
  BY <1>3, <1>4, ConcatProperties
<1>7. Len(a) + Len(b) = Len(s) - 1
  BY <1>1, <1>3, <1>4
<1>8. \A n \in 1..Len(s) - 1 : (a \o b)[n] = IF n < m THEN s[n] ELSE s[n + 1]
  <2> SUFFICES ASSUME NEW n \in 1..Len(s) - 1
               PROVE  (a \o b)[n] = IF n < m THEN s[n] ELSE s[n + 1]
    OBVIOUS
  <2>1. CASE n < m
    BY <1>1, <1>3, <1>6, <1>7, <2>1
  <2>2. CASE ~(n < m)
    <3>1. n - (m - 1) \in 1..(Len(s) - m) /\ ~(n <= m - 1) /\ n - (m - 1) + m = n + 1
      BY <1>1, <2>2
    <3> QED BY <1>3, <1>4, <1>6, <1>7, <2>2, <3>1
  <2> QED BY <2>1, <2>2
<1> QED BY <1>5, <1>6, <1>7, <1>8

-----------------------------------------------------------------------------
(* The sources, for any number of retries.                                 *)

\* What a source can fail with.
Codes == {"BAD_REQUEST", "MISSING_KEYWORD", "INVALID_MOVIE_TYPE", "INVALID_YEAR",
          "INVALID_IMAGE_URL", "MOVIE_NOT_FOUND", "UPSTREAM_ERROR", "UPSTREAM_TIMEOUT", "TypeError"}

\* The sources that are asked before one.
Before(s) == CASE s = "ophim" -> {"kkphim"} [] s = "vsmov" -> {"kkphim", "ophim"} [] OTHER -> {}

\* A source was asked and had nothing to give, or was not asked for a reason.
Passed(s) == Refusal(ask, s) = "none" => last[s] \notin {"none", "data"}

\* The first error is that of the first source, and a fallback has the sources
\* before it behind it.
SearchGoesOn ==
    /\ result = NoResult /\ FirstSource(ask) \in Sources
    /\ primary = "none" => source = FirstSource(ask)
    /\ primary # "none" =>
         /\ HasFallback(ask) /\ source # FirstSource(ask)
         /\ \A s \in Before(source) : Passed(s)
         /\ primary = "MOVIE_NOT_FOUND" => last[FirstSource(ask)] \in Lacking

Results == {NoResult} \cup {Ok(s) : s \in Sources} \cup
           {Error(c) : c \in (Codes \ {"TypeError"}) \cup {"INTERNAL_ERROR"}}

SourcesInv ==
    /\ ask \in Asks /\ attempt \in 0..MAX_RETRIES
    /\ source \in Sources \cup {Unpinned}
    /\ primary \in Codes \cup {"none"}
    /\ last \in [Sources -> Answers \cup {"none"}]
    /\ result \in Results
    /\ source # Unpinned => SearchGoesOn
    /\ source = Unpinned /\ result = NoResult => primary = "none"
    /\ NotFoundEverywhere

LEMMA ThreeSources ==
  /\ Sources = {"kkphim", "ophim", "vsmov"} /\ SOURCE_FALLBACK_ORDER[1] = "kkphim"
  /\ NextSource("kkphim") = "ophim" /\ NextSource("ophim") = "vsmov" /\ NextSource("vsmov") = Unpinned
<1> DEFINE o == SOURCE_FALLBACK_ORDER
<1>1. /\ DOMAIN o = 1..3 /\ Len(o) = 3
      /\ o[1] = "kkphim" /\ o[2] = "ophim" /\ o[3] = "vsmov"
  BY DEF SOURCE_FALLBACK_ORDER
<1>2. 1..3 = {1, 2, 3}
  OBVIOUS
<1> HIDE DEF o
<1>3. Sources = {"kkphim", "ophim", "vsmov"}
  BY <1>1, <1>2 DEF Sources, Range, o
<1>4. /\ (CHOOSE i \in DOMAIN o : o[i] = "kkphim") = 1
      /\ (CHOOSE i \in DOMAIN o : o[i] = "ophim") = 2
      /\ (CHOOSE i \in DOMAIN o : o[i] = "vsmov") = 3
  BY <1>1, <1>2
<1> QED BY <1>1, <1>3, <1>4 DEF NextSource, o

LEMMA ResultsApart ==
  /\ \A c, d : Error(c) = Error(d) => c = d
  /\ \A s, c : Ok(s) # Error(c) /\ Ok(s) # NoResult /\ Error(c) # NoResult
  /\ \A s : Ok(s)[1] = "ok" /\ Ok(s)[2] = s
  /\ \A c : Error(c)[1] = "error" /\ Error(c)[2] = c
<1>1. \A c : Error(c)[1] = "error" /\ Error(c)[2] = c
  BY DEF Error
<1>2. \A s : Ok(s)[1] = "ok" /\ Ok(s)[2] = s
  BY DEF Ok
<1>3. NoResult[1] = "none"
  BY DEF NoResult
<1> QED BY <1>1, <1>2, <1>3

\* Years and images come from one source.
LEMMA FirstSources ==
  ASSUME NEW r \in Asks, r.pin # "unknown"
  PROVE  /\ FirstSource(r) \in Sources
         /\ HasFallback(r) => FirstSource(r) = "kkphim"
BY ThreeSources DEF Asks, FirstSource, HasFallback, Unpinned

LEMMA Refusals ==
  ASSUME NEW r \in Asks, NEW s \in Sources
  PROVE  Refusal(r, s) \in (Codes \ {"MOVIE_NOT_FOUND"}) \cup {"none"}
<1>1. TypeRefusal(s, r.arg) \in (Codes \ {"MOVIE_NOT_FOUND"}) \cup {"none"}
  BY DEF TypeRefusal, Codes
<1>2. YearsRefusal(s) \in (Codes \ {"MOVIE_NOT_FOUND"}) \cup {"none"}
  BY DEF YearsRefusal, Codes
<1>3. r.arg = "bad" /\ r.endpoint # "type" => BadArgument(r.endpoint) \in Codes \ {"MOVIE_NOT_FOUND"}
  BY DEF Asks, BadArgument, Codes
<1> QED BY <1>1, <1>2, <1>3 DEF Refusal

LEMMA Bodies ==
  ASSUME NEW e \in Endpoints, NEW s \in Sources, NEW a \in {"data", "nothing", "odd"}
  PROVE  \/ \E t \in Sources : Normalized(e, s, a) = Ok(t)
         \/ /\ a # "data"
            /\ \E c \in Codes : Normalized(e, s, a) = Error(c)
<1>1. /\ "kkphim" \in Sources /\ (s = "vsmov" => "vsmov" \in Sources)
      /\ "UPSTREAM_ERROR" \in Codes /\ "MOVIE_NOT_FOUND" \in Codes /\ "TypeError" \in Codes
  BY ThreeSources DEF Codes
<1>2. \/ ImageBody(a) = Ok("kkphim")
      \/ a # "data" /\ ImageBody(a) = Error("UPSTREAM_ERROR")
  BY DEF ImageBody
<1>3. \/ MovieDetail(s, a) = Ok(s)
      \/ a # "data" /\ MovieDetail(s, a) = Error("MOVIE_NOT_FOUND")
  BY DEF MovieDetail, VsmovDetail, Detail
<1>4. \/ MovieList(s, a) = Ok(s)
      \/ a # "data" /\ MovieList(s, a) = Error("TypeError")
  BY DEF MovieList, VsmovList, List
<1>5. \/ MetadataList(s, a) = Ok(s)
      \/ a # "data" /\ MetadataList(s, a) = Error("TypeError")
  BY DEF MetadataList, VsmovList, Metadata
<1>6. Normalized(e, s, a) \in {ImageBody(a), MovieDetail(s, a), MovieList(s, a), MetadataList(s, a)}
  BY DEF Normalized
<1> QED BY <1>1, <1>2, <1>3, <1>4, <1>5, <1>6

LEMMA StatusCodes ==
  ASSUME NEW a \in Answers
  PROVE  /\ StatusError(a) \in Codes \cup {"none"}
         /\ StatusError(a) = "none" <=> a \in {"data", "nothing", "odd"}
         /\ StatusError(a) = "MOVIE_NOT_FOUND" => a = "404"
BY DEF Answers, StatusError, Codes

\* A source fails: the next one is asked, or the first error is the answer.
LEMMA FailKeeps ==
  ASSUME SourcesInv, source # Unpinned, NEW code \in Codes, SourceFails(code), UNCHANGED ask,
         last' \in [Sources -> Answers \cup {"none"}],
         \A s \in Sources \ {source} : last'[s] = last[s],
         Refusal(ask, source) = "none" => last'[source] \notin {"none", "data"},
         code = "MOVIE_NOT_FOUND" => last'[source] \in Lacking
  PROVE  SourcesInv'
<1> DEFINE next == NextSource(source)
           goOn == HasFallback(ask) /\ next # Unpinned /\ (primary # "none" \/ Fallbackable(code))
           first == IF primary = "none" THEN code ELSE primary
<1>1. /\ source \in Sources /\ SearchGoesOn /\ ask \in Asks
      /\ attempt' = 0 /\ primary' = first
      /\ source' = IF goOn THEN next ELSE Unpinned
      /\ result' = IF goOn THEN NoResult ELSE Error(Reported(code))
  BY DEF SourcesInv, SourceFails
<1>2. first \in Codes /\ first # "none" /\ primary' \in Codes \cup {"none"} /\ attempt' \in 0..MAX_RETRIES
  BY <1>1, MovieSourcesAssumption DEF SourcesInv, Codes
<1>3. HasFallback(ask) => FirstSource(ask) = "kkphim"
  BY <1>1, ThreeSources DEF HasFallback, FirstSource
<1>4. first = "MOVIE_NOT_FOUND" => last'[FirstSource(ask)] \in Lacking
  BY <1>1 DEF SearchGoesOn
<1>5. HasFallback(ask) => \A s \in Before(source) : Passed(s)'
  <2>1. \A s \in Before(source) : s \in Sources \ {source}
    BY <1>1, ThreeSources DEF Before
  <2>2. CASE primary # "none"
    BY <1>1, <2>1, <2>2 DEF SearchGoesOn, Passed
  <2>3. CASE primary = "none" /\ HasFallback(ask)
    BY <1>1, <1>3, <2>3 DEF SearchGoesOn, Before
  <2> QED BY <2>2, <2>3
<1>51. ASSUME NEW s, s = source PROVE Passed(s)'
  BY <1>51 DEF Passed
<1> HIDE DEF first, next
<1>6. CASE goOn
  <2>1. source' = next /\ result' = NoResult /\ HasFallback(ask) /\ next # Unpinned
    BY <1>1, <1>6
  <2>2. next \in Sources /\ next # "kkphim" /\ Before(next) = Before(source) \cup {source}
    BY <1>1, <2>1, ThreeSources DEF next, Before
  <2>3. \A s \in Before(next) : Passed(s)'
    BY <1>5, <1>51, <2>1, <2>2
  <2>4. SearchGoesOn'
    BY <1>1, <1>2, <1>3, <1>4, <2>1, <2>2, <2>3 DEF SearchGoesOn
  <2>5. NotFoundEverywhere'
    BY <2>1, ResultsApart DEF NotFoundEverywhere
  <2>6. result' \in Results
    BY <2>1 DEF Results
  <2>7. next # Unpinned
    BY <2>1
  <2> QED BY <1>1, <1>2, <2>1, <2>2, <2>4, <2>5, <2>6, <2>7 DEF SourcesInv
<1>7. CASE ~goOn
  <2>1. source' = Unpinned /\ result' = Error(Reported(code))
    BY <1>1, <1>7
  <2>2. /\ Reported(code) \in (Codes \ {"TypeError"}) \cup {"INTERNAL_ERROR"}
        /\ Reported(code) = "MOVIE_NOT_FOUND" => first = "MOVIE_NOT_FOUND"
    BY <1>2 DEF Reported, Codes, first
  <2>3. ASSUME Reported(code) = "MOVIE_NOT_FOUND", HasFallback(ask), NEW s \in Sources
        PROVE  Passed(s)'
    <3>1. first = "MOVIE_NOT_FOUND" /\ next = Unpinned
      BY <1>7, <2>2, <2>3 DEF Fallbackable, first
    <3>2. source = "vsmov"
      BY <1>1, <3>1, ThreeSources DEF next, Unpinned
    <3>3. Sources = Before(source) \cup {source}
      BY <3>2, ThreeSources DEF Before
    <3> QED BY <1>5, <1>51, <2>3, <3>3
  <2>4. NotFoundEverywhere'
    BY <1>4, <2>1, <2>2, <2>3, ResultsApart DEF NotFoundEverywhere, Passed
  <2>5. result' \in Results /\ result' # NoResult
    BY <2>1, <2>2, ResultsApart DEF Results
  <2> QED BY <1>1, <1>2, <2>1, <2>4, <2>5 DEF SourcesInv
<1> QED BY <1>6, <1>7

LEMMA AcceptKeeps ==
  ASSUME SourcesInv, Accept
  PROVE  SourcesInv'
<1>1. /\ source = Unpinned /\ result = NoResult /\ primary = "none" /\ ask \in Asks
      /\ UNCHANGED <<ask, attempt, primary, last>>
  BY DEF Accept, SourcesInv
<1>2. CASE ask.pin = "unknown"
  <2>1. result' = Error("BAD_REQUEST") /\ source' = Unpinned /\ result' # NoResult
    BY <1>1, <1>2, ResultsApart DEF Accept
  <2>2. result' \in Results
    BY <2>1 DEF Results, Codes
  <2>3. NotFoundEverywhere'
    BY <2>1, ResultsApart DEF NotFoundEverywhere
  <2> QED BY <1>1, <2>1, <2>2, <2>3 DEF SourcesInv
<1>3. CASE ask.pin # "unknown"
  <2>1. source' = FirstSource(ask) /\ result' = NoResult /\ FirstSource(ask) \in Sources
    BY <1>1, <1>3, FirstSources DEF Accept
  <2>2. SearchGoesOn' /\ NotFoundEverywhere' /\ result' \in Results
    BY <1>1, <2>1, ResultsApart DEF SearchGoesOn, NotFoundEverywhere, Results
  <2> QED BY <1>1, <2>1, <2>2, ThreeSources DEF SourcesInv, Unpinned
<1> QED BY <1>2, <1>3

LEMMA RefuseKeeps ==
  ASSUME SourcesInv, Refuse
  PROVE  SourcesInv'
<1> DEFINE code == Refusal(ask, source)
<1>1. /\ source \in Sources /\ source # Unpinned /\ ask \in Asks /\ code # "none"
      /\ SourceFails(code) /\ UNCHANGED <<ask, last>>
  BY DEF Refuse, SourcesInv
<1>2. code \in Codes /\ code # "MOVIE_NOT_FOUND"
  BY <1>1, Refusals
<1> QED BY <1>1, <1>2, FailKeeps DEF SourcesInv

LEMMA CallKeeps ==
  ASSUME SourcesInv, NEW a \in Answers, Call(a)
  PROVE  SourcesInv'
<1>1. /\ source \in Sources /\ source # Unpinned /\ ask \in Asks /\ UNCHANGED ask
      /\ Refusal(ask, source) = "none" /\ SearchGoesOn /\ result = NoResult
      /\ last' = [last EXCEPT ![source] = a] /\ last \in [Sources -> Answers \cup {"none"}]
  <2>1. /\ source # Unpinned /\ UNCHANGED ask /\ Refusal(ask, source) = "none"
        /\ last' = [last EXCEPT ![source] = a]
    BY Zenon DEF Call
  <2> QED BY <2>1 DEF SourcesInv, SearchGoesOn
<1>2. /\ last' \in [Sources -> Answers \cup {"none"}] /\ last'[source] = a /\ a # "none"
      /\ \A s \in Sources \ {source} : last'[s] = last[s]
  BY <1>1 DEF Answers
<1>3. CASE StatusError(a) = "none"
  <2> DEFINE body == Normalized(ask.endpoint, source, a)
  <2>1. a \in {"data", "nothing", "odd"} /\ ask.endpoint \in Endpoints
    BY <1>1, <1>3, StatusCodes DEF Asks
  <2>2. \/ \E t \in Sources : body = Ok(t)
        \/ a # "data" /\ \E c \in Codes : body = Error(c)
    BY <1>1, <2>1, Bodies
  <2>3. IF body[1] = "ok"
        THEN result' = body /\ source' = Unpinned /\ attempt' = 0 /\ UNCHANGED primary
        ELSE SourceFails(body[2])
    <3>1. ~MayRetry(a)
      BY <2>1 DEF MayRetry
    <3> QED BY <1>3, <3>1, Zenon DEF Call
  <2> HIDE DEF body
  <2>4. ASSUME NEW t \in Sources, body = Ok(t)
        PROVE  SourcesInv'
    <3>1. result' = Ok(t) /\ source' = Unpinned /\ attempt' = 0 /\ UNCHANGED primary
      BY <2>3, <2>4, ResultsApart
    <3>2. result' \in Results /\ result' # NoResult /\ NotFoundEverywhere'
      BY <3>1, ResultsApart DEF Results, NotFoundEverywhere
    <3>3. primary \in Codes \cup {"none"} /\ attempt' \in 0..MAX_RETRIES
      BY <3>1, MovieSourcesAssumption DEF SourcesInv
    <3> QED BY <1>1, <1>2, <3>1, <3>2, <3>3 DEF SourcesInv
  <2>5. ASSUME NEW c \in Codes, a # "data", body = Error(c)
        PROVE  SourcesInv'
    <3>1. SourceFails(c)
      BY <2>3, <2>5, ResultsApart
    <3>2. a \in Lacking
      BY <2>1, <2>5 DEF Lacking
    <3> QED BY <1>1, <1>2, <2>5, <3>1, <3>2, FailKeeps
  <2> QED BY <2>2, <2>4, <2>5
<1>4. CASE StatusError(a) # "none" /\ MayRetry(a) /\ attempt < MAX_RETRIES
  <2>1. attempt' = attempt + 1 /\ UNCHANGED <<source, primary, result>>
    BY <1>4 DEF Call
  <2>2. attempt' \in 0..MAX_RETRIES
    BY <1>4, <2>1, MovieSourcesAssumption DEF SourcesInv
  <2>3. SearchGoesOn'
    <3>1. primary # "none" => source # FirstSource(ask) /\ source \notin Before(source)
      BY <1>1, ThreeSources DEF SearchGoesOn, Before
    <3>2. primary # "none" => \A s \in Before(source) : s \in Sources \ {source}
      BY <1>1, ThreeSources DEF Before
    <3>3. ASSUME primary # "none", NEW s \in Before(source)
          PROVE  Passed(s)'
      BY <1>1, <1>2, <3>2, <3>3 DEF SearchGoesOn, Passed
    <3>4. primary = "MOVIE_NOT_FOUND" => last'[FirstSource(ask)] \in Lacking
      BY <1>1, <1>2, <3>1 DEF SearchGoesOn
    <3> QED BY <1>1, <2>1, <3>3, <3>4 DEF SearchGoesOn
  <2>4. NotFoundEverywhere'
    BY <1>1, <2>1, ResultsApart DEF NotFoundEverywhere
  <2> QED BY <1>1, <1>2, <2>1, <2>2, <2>3, <2>4 DEF SourcesInv
<1>5. CASE StatusError(a) # "none" /\ ~(MayRetry(a) /\ attempt < MAX_RETRIES)
  <2>1. SourceFails(StatusError(a))
    BY <1>5 DEF Call
  <2>2. StatusError(a) \in Codes /\ a # "data"
    BY <1>5, StatusCodes
  <2>3. StatusError(a) = "MOVIE_NOT_FOUND" => a \in Lacking
    BY StatusCodes DEF Lacking
  <2> QED BY <1>1, <1>2, <2>1, <2>2, <2>3, FailKeeps
<1> QED BY <1>3, <1>4, <1>5

LEMMA SourcesAlways == SourcesSpec => []SourcesInv
<1>1. SourcesInit => SourcesInv
  <2> SUFFICES ASSUME SourcesInit PROVE SourcesInv
    OBVIOUS
  <2>1. result = NoResult /\ result \in Results /\ NotFoundEverywhere
    BY ResultsApart DEF SourcesInit, Results, NotFoundEverywhere
  <2> QED BY <2>1, MovieSourcesAssumption DEF SourcesInit, SourcesInv
<1>2. SourcesInv /\ [SourcesNext]_sourceVars => SourcesInv'
  <2> SUFFICES ASSUME SourcesInv, [SourcesNext]_sourceVars PROVE SourcesInv'
    OBVIOUS
  <2>1. CASE UNCHANGED sourceVars
    BY <2>1 DEF sourceVars, SourcesInv, SearchGoesOn, Passed, NotFoundEverywhere
  <2> QED BY <2>1, AcceptKeeps, RefuseKeeps, CallKeeps DEF SourcesNext
<1> QED BY <1>1, <1>2, PTL DEF SourcesSpec

\* A request is at one source or answered, with an error the API knows; no source is
\* called more often than the retries allow.
THEOREM SourceTypes == SourcesSpec => []SourcesTypeOK
<1>1. SourcesInv => SourcesTypeOK
  BY DEF SourcesInv, SourcesTypeOK, Results, Codes
<1> QED BY <1>1, SourcesAlways, PTL

\* withFallback reports a title as missing only when the first source said that it
\* lacks it and every other source that knows such a request was asked in vain,
\* for any number of retries.
THEOREM MissingEverywhere == SourcesSpec => []NotFoundEverywhere
<1>1. SourcesInv => NotFoundEverywhere
  BY DEF SourcesInv
<1> QED BY <1>1, SourcesAlways, PTL

-----------------------------------------------------------------------------
(* The single flight of the cache.                                         *)

Asked == Contexts \X Pins
Joining == [pc : {"joined"}, at : Servers, asked : Asked, on : Requests]
Loading == [pc : {"get", "load"}, at : Servers, asked : Asked, write : BOOLEAN]

LoadingKinds == loading \in [Servers -> [Asked -> Requests \cup {Nobody}]]

\* A request that works is the load its key has, and the other way round.
WorkIsLoading ==
    \A r \in Requests : Working(r) => loading[request[r].at][request[r].asked] = r
LoadingIsWork ==
    \A i \in Servers, k \in Asked :
        loading[i][k] # Nobody =>
            /\ Working(loading[i][k])
            /\ request[loading[i][k]].at = i
            /\ request[loading[i][k]].asked = k

\* Who joined a load joined the one its key still has.
JoinedIsLoading ==
    \A r \in Requests :
        request[r].pc = "joined" => loading[request[r].at][request[r].asked] = request[r].on

FlightInv ==
    /\ request \in [Requests -> {NoRequest} \cup Joining \cup Loading]
    /\ LoadingKinds /\ WorkIsLoading /\ LoadingIsWork /\ JoinedIsLoading

\* The key of a request is the pair it asked for.
LEMMA KeyPairs ==
  /\ CacheKeys = Asked
  /\ \A c \in Contexts, p \in Pins : CacheKey(c, p) = <<c, p>> /\ <<c, p>> \in Asked
  /\ \A a \in Asked : CacheKey(a[1], a[2]) = a
BY DEF CacheKeys, CacheKey, Asked

\* The three kinds of a request, told apart by where it is.
LEMMA Kinds ==
  ASSUME FlightInv, NEW r \in Requests
  PROVE  /\ request[r].pc = "idle" <=> request[r] = NoRequest
         /\ request[r].pc = "joined" <=> request[r] \in Joining
         /\ Working(r) <=> request[r] \in Loading
         /\ request[r] # NoRequest =>
               /\ request[r].at \in Servers /\ request[r].asked \in Asked
               /\ KeyOf(r) = request[r].asked
<1>1. request[r] = NoRequest \/ request[r] \in Joining \/ request[r] \in Loading
  BY DEF FlightInv
<1>2. NoRequest.pc = "idle"
  BY DEF NoRequest
<1>3. request[r] \in Joining \cup Loading =>
        /\ request[r].at \in Servers /\ request[r].asked \in Asked
        /\ KeyOf(r) = request[r].asked
  BY KeyPairs DEF Joining, Loading, KeyOf
<1> QED BY <1>1, <1>2, <1>3 DEF Joining, Loading, Working

\* Nobody asks at first.
LEMMA FlightInit == CacheInit => FlightInv
<1> SUFFICES ASSUME CacheInit
             PROVE  FlightInv
  OBVIOUS
<1>1. \A r \in Requests : request[r] = NoRequest /\ request[r].pc = "idle"
  BY DEF CacheInit, NoRequest
<1>2. LoadingKinds /\ \A i \in Servers, k \in Asked : loading[i][k] = Nobody
  BY KeyPairs DEF CacheInit, LoadingKinds
<1>3. request \in [Requests -> {NoRequest} \cup Joining \cup Loading]
  BY DEF CacheInit
<1> QED
  BY <1>1, <1>2, <1>3 DEF FlightInv, WorkIsLoading, LoadingIsWork, JoinedIsLoading, Working

\* Changes that leave loads and requests alone.
LEMMA FlightKept ==
  ASSUME FlightInv, UNCHANGED <<request, loading>>
  PROVE  FlightInv'
BY DEF FlightInv, LoadingKinds, WorkIsLoading, LoadingIsWork, JoinedIsLoading, Working

\* A load that settles frees its key and lets go of everybody who joined it.
LEMMA SettleKeeps ==
  ASSUME FlightInv, NEW r \in Requests, Working(r),
         loading' = [loading EXCEPT ![request[r].at][KeyOf(r)] = Nobody],
         request' = [f \in Requests |-> IF f \in Awaiting(r) THEN NoRequest ELSE request[f]]
  PROVE  FlightInv'
<1> DEFINE at == request[r].at
           asked == request[r].asked
<1>1. /\ at \in Servers /\ asked \in Asked /\ loading[at][asked] = r
      /\ loading' = [loading EXCEPT ![at][asked] = Nobody]
  BY Kinds DEF FlightInv, WorkIsLoading, Working, NoRequest
<1>2. /\ loading'[at][asked] = Nobody
      /\ \A i \in Servers, k \in Asked : <<i, k>> # <<at, asked>> => loading'[i][k] = loading[i][k]
  BY <1>1 DEF FlightInv, LoadingKinds
<1>3. LoadingKinds'
  <2> HIDE DEF at, asked
  <2>1. loading \in [Servers -> [Asked -> Requests \cup {Nobody}]]
    BY DEF FlightInv, LoadingKinds
  <2>2. loading' \in [Servers -> [Asked -> Requests \cup {Nobody}]]
    <3> DEFINE row == [loading[at] EXCEPT ![asked] = Nobody]
    <3>1. row \in [Asked -> Requests \cup {Nobody}]
      BY <1>1, <2>1
    <3>2. loading' = [loading EXCEPT ![at] = row]
      BY <1>1
    <3> HIDE DEF row
    <3> QED BY <2>1, <3>1, <3>2
  <2> QED BY <2>2 DEF LoadingKinds
<1>4. request' \in [Requests -> {NoRequest} \cup Joining \cup Loading]
  BY DEF FlightInv
<1>5. \A f \in Requests : request'[f].pc # "idle" => f \notin Awaiting(r) /\ request'[f] = request[f]
  BY DEF NoRequest
<1>6. \A f \in Requests : Working(f)' => /\ Working(f) /\ request'[f] = request[f] /\ f # r
                                         /\ loading[request[f].at][request[f].asked] = f
  BY <1>5 DEF Working, Awaiting, FlightInv, WorkIsLoading
<1>7. \A f \in Requests : request'[f].pc = "joined" =>
          /\ request[f].pc = "joined" /\ request'[f] = request[f] /\ request[f].on # r
          /\ loading[request[f].at][request[f].asked] = request[f].on
  BY <1>5 DEF Awaiting, Followers, FlightInv, JoinedIsLoading
<1>8. \A f \in Requests : request'[f].pc # "idle" =>
          request'[f].at \in Servers /\ request'[f].asked \in Asked
  BY <1>5, Kinds
<1>9. WorkIsLoading'
  <2> SUFFICES ASSUME NEW f \in Requests, Working(f)'
               PROVE  loading'[request'[f].at][request'[f].asked] = f
    BY DEF WorkIsLoading
  <2>1. request'[f].at \in Servers /\ request'[f].asked \in Asked
    BY <1>8 DEF Working
  <2> QED BY <1>1, <1>2, <1>6, <2>1
<1>10. JoinedIsLoading'
  <2> SUFFICES ASSUME NEW f \in Requests, request'[f].pc = "joined"
               PROVE  loading'[request'[f].at][request'[f].asked] = request'[f].on
    BY DEF JoinedIsLoading
  <2>1. request'[f].at \in Servers /\ request'[f].asked \in Asked
    BY <1>8
  <2> QED BY <1>1, <1>2, <1>7, <2>1
<1>11. LoadingIsWork'
  <2> SUFFICES ASSUME NEW i \in Servers, NEW k \in Asked, loading'[i][k] # Nobody
               PROVE  /\ request'[loading'[i][k]].pc \in {"get", "load"}
                      /\ request'[loading'[i][k]].at = i
                      /\ request'[loading'[i][k]].asked = k
    BY DEF LoadingIsWork, Working
  <2> DEFINE f == loading[i][k]
  <2>1. loading'[i][k] = f /\ <<i, k>> # <<at, asked>>
    BY <1>2
  <2>2. f \in Requests /\ Working(f) /\ request[f].at = i /\ request[f].asked = k
    BY <2>1 DEF FlightInv, LoadingIsWork, LoadingKinds
  <2>3. f \notin Awaiting(r)
    BY <2>1, <2>2 DEF Awaiting, Followers, Working
  <2>4. request'[f] = request[f]
    BY <2>2, <2>3
  <2> QED BY <2>1, <2>2, <2>4 DEF Working
<1> QED BY <1>3, <1>4, <1>9, <1>10, <1>11 DEF FlightInv

LEMMA AskKeeps ==
  ASSUME FlightInv, NEW r \in Requests, NEW i \in Servers, NEW c \in Contexts, NEW p \in Pins,
         Ask(r, i, c, p)
  PROVE  FlightInv'
<1> DEFINE k == <<c, p>>
<1>1. /\ request[r] = NoRequest /\ ~Working(r) /\ request[r].pc # "joined"
      /\ k \in Asked /\ CacheKey(c, p) = k
  BY KeyPairs DEF Ask, Working, NoRequest
<1> HIDE DEF k
<1>2. CASE UNCHANGED <<request, loading>>
  BY <1>2, FlightKept
<1>3. ASSUME loading[i][k] # Nobody, UNCHANGED loading,
             request' = [request EXCEPT ![r] =
                           [pc |-> "joined", at |-> i, asked |-> k, on |-> loading[i][k]]]
      PROVE  FlightInv'
  <2> DEFINE joined == [pc |-> "joined", at |-> i, asked |-> k, on |-> loading[i][k]]
  <2>1. joined \in Joining /\ joined.pc = "joined" /\ joined.at = i /\ joined.asked = k
          /\ joined.on = loading[i][k]
    BY <1>1, <1>3 DEF FlightInv, LoadingKinds, Joining
  <2> HIDE DEF joined
  <2>2. /\ request' \in [Requests -> {NoRequest} \cup Joining \cup Loading]
        /\ request'[r] = joined
        /\ \A f \in Requests : f # r => request'[f] = request[f]
    BY <1>3, <2>1 DEF FlightInv, joined
  <2>3. LoadingKinds' /\ WorkIsLoading' /\ JoinedIsLoading'
    BY <1>3, <2>1, <2>2 DEF FlightInv, LoadingKinds, WorkIsLoading, JoinedIsLoading, Working
  <2>4. LoadingIsWork'
    BY <1>1, <1>3, <2>2 DEF FlightInv, LoadingKinds, LoadingIsWork, Working
  <2> QED BY <2>2, <2>3, <2>4 DEF FlightInv
<1>4. ASSUME NEW pc \in {"get", "load"}, loading[i][k] = Nobody,
             loading' = [loading EXCEPT ![i][k] = r],
             request' = [request EXCEPT ![r] =
                           [pc |-> pc, at |-> i, asked |-> k, write |-> pc = "get"]]
      PROVE  FlightInv'
  <2> DEFINE works == [pc |-> pc, at |-> i, asked |-> k, write |-> pc = "get"]
  <2>1. works \in Loading /\ works.pc = pc /\ works.at = i /\ works.asked = k
    BY <1>1, <1>4 DEF Loading
  <2> HIDE DEF works
  <2>2. /\ request' \in [Requests -> {NoRequest} \cup Joining \cup Loading]
        /\ request'[r] = works
        /\ \A f \in Requests : f # r => request'[f] = request[f]
    BY <1>4, <2>1 DEF FlightInv, works
  <2>3. /\ LoadingKinds'
        /\ loading'[i][k] = r
        /\ \A j \in Servers, l \in Asked : <<j, l>> # <<i, k>> => loading'[j][l] = loading[j][l]
    BY <1>1, <1>4 DEF FlightInv, LoadingKinds
  <2>4. \A f \in Requests : Working(f) \/ request[f].pc = "joined" =>
          /\ request[f].at \in Servers /\ request[f].asked \in Asked
          /\ <<request[f].at, request[f].asked>> # <<i, k>>
    <3> SUFFICES ASSUME NEW f \in Requests, Working(f) \/ request[f].pc = "joined"
                 PROVE  /\ request[f].at \in Servers /\ request[f].asked \in Asked
                        /\ loading[request[f].at][request[f].asked] # Nobody
      BY <1>4
    <3>1. request[f] \in Joining => request[f].on \in Requests
      BY DEF Joining
    <3> QED BY <3>1, Kinds, MovieCacheAssumption DEF FlightInv, WorkIsLoading, JoinedIsLoading, Working, NoRequest
  <2>5. WorkIsLoading' /\ JoinedIsLoading'
    <3>1. ASSUME NEW f \in Requests, f # r, Working(f)' \/ request'[f].pc = "joined"
          PROVE  loading'[request'[f].at][request'[f].asked] = loading[request[f].at][request[f].asked]
      BY <2>2, <2>3, <2>4, <3>1 DEF Working
    <3> QED BY <2>1, <2>2, <2>3, <3>1 DEF FlightInv, WorkIsLoading, JoinedIsLoading, Working
  <2>6. LoadingIsWork'
    BY <1>1, <2>1, <2>2, <2>3 DEF FlightInv, LoadingIsWork, LoadingKinds, Working
  <2> QED BY <2>2, <2>3, <2>5, <2>6 DEF FlightInv
<1>5. \/ UNCHANGED <<request, loading>>
      \/ /\ loading[i][k] # Nobody /\ UNCHANGED loading
         /\ request' = [request EXCEPT ![r] =
                           [pc |-> "joined", at |-> i, asked |-> k, on |-> loading[i][k]]]
      \/ /\ loading[i][k] = Nobody
         /\ loading' = [loading EXCEPT ![i][k] = r]
         /\ \E pc \in {"get", "load"} :
               request' = [request EXCEPT ![r] =
                              [pc |-> pc, at |-> i, asked |-> k, write |-> pc = "get"]]
  BY <1>1 DEF Ask, Join, k
<1> QED BY <1>2, <1>3, <1>4, <1>5

\* A request that goes from Redis to the sources stays the load of its key.
LEMMA MissKeeps ==
  ASSUME FlightInv, NEW r \in Requests, request[r].pc = "get", UNCHANGED loading,
         request' = [request EXCEPT ![r].pc = "load"]
  PROVE  FlightInv'
<1>1. request[r] \in Loading
  BY Kinds DEF Working
<1>2. /\ request'[r] \in Loading /\ request'[r].pc = "load"
      /\ request'[r].at = request[r].at /\ request'[r].asked = request[r].asked
      /\ \A f \in Requests : f # r => request'[f] = request[f]
  BY <1>1 DEF FlightInv, Loading
<1>3. request' \in [Requests -> {NoRequest} \cup Joining \cup Loading]
  BY <1>2 DEF FlightInv
<1> QED
  BY <1>2, <1>3 DEF FlightInv, LoadingKinds, WorkIsLoading, LoadingIsWork, JoinedIsLoading, Working

LEMMA RestartKeeps ==
  ASSUME FlightInv, NEW i \in Servers, ServerRestart(i)
  PROVE  FlightInv'
<1>1. /\ loading' = [loading EXCEPT ![i] = [k \in Asked |-> Nobody]]
      /\ request' = [r \in Requests |->
                       IF request[r].pc # "idle" /\ request[r].at = i THEN NoRequest ELSE request[r]]
  BY KeyPairs DEF ServerRestart
<1>2. /\ LoadingKinds'
      /\ \A k \in Asked : loading'[i][k] = Nobody
      /\ \A j \in Servers, k \in Asked : j # i => loading'[j][k] = loading[j][k]
  BY <1>1 DEF FlightInv, LoadingKinds
<1>3. request' \in [Requests -> {NoRequest} \cup Joining \cup Loading]
  BY <1>1 DEF FlightInv
<1>4. \A r \in Requests : request'[r].pc # "idle" =>
         /\ request'[r] = request[r] /\ request[r].at # i
         /\ request[r].at \in Servers /\ request[r].asked \in Asked
  BY <1>1, Kinds DEF NoRequest
<1>5. WorkIsLoading' /\ JoinedIsLoading'
  BY <1>2, <1>4 DEF FlightInv, WorkIsLoading, JoinedIsLoading, Working
<1>6. LoadingIsWork'
  BY <1>1, <1>2 DEF FlightInv, LoadingKinds, LoadingIsWork, Working
<1> QED BY <1>2, <1>3, <1>5, <1>6 DEF FlightInv

LEMMA FlightStep == FlightInv /\ [CacheNext]_cacheVars => FlightInv'
<1> SUFFICES ASSUME FlightInv, [CacheNext]_cacheVars
             PROVE  FlightInv'
  OBVIOUS
<1>1. ASSUME NEW r \in Requests, Get(r) \/ Load(r) \/ LoadFails(r)
      PROVE  FlightInv'
  <2>1. Working(r)
    BY <1>1 DEF Get, Load, LoadFails, Working
  <2>2. \/ request[r].pc = "get" /\ UNCHANGED loading
           /\ request' = [request EXCEPT ![r].pc = "load"]
        \/ /\ loading' = [loading EXCEPT ![request[r].at][KeyOf(r)] = Nobody]
           /\ request' = [f \in Requests |-> IF f \in Awaiting(r) THEN NoRequest ELSE request[f]]
    BY <1>1 DEF Get, Load, LoadFails, Loaded, Settle
  <2> QED BY <2>1, <2>2, SettleKeeps, MissKeeps
<1>2. CASE Minute \/ UNCHANGED cacheVars \/ \E i \in Servers : Set(i)
  BY <1>2, FlightKept DEF Minute, cacheVars, Set
<1> QED BY <1>1, <1>2, AskKeeps, RestartKeeps DEF CacheNext

\* An instance loads a key once at a time, and whoever joined a load waits for
\* one that is still going on (ttl-cache.ts, getOrLoad).
THEOREM OneFlightPerKey == CacheSpec => []LoadsAreShared
<1>1. FlightInv => LoadsAreShared
  <2> SUFFICES ASSUME FlightInv
               PROVE  LoadsAreShared
    OBVIOUS
  <2>1. ASSUME NEW q \in Requests, NEW r \in Requests, Working(q), Working(r),
               request[q].at = request[r].at, request[q].asked = request[r].asked
        PROVE  q = r
    BY <2>1 DEF FlightInv, WorkIsLoading
  <2>2. ASSUME NEW r \in Requests, request[r].pc = "joined"
        PROVE  Working(request[r].on)
    <3>1. /\ request[r].on \in Requests
          /\ request[r].at \in Servers /\ request[r].asked \in Asked
      BY <2>2, Kinds DEF Joining
    <3>2. loading[request[r].at][request[r].asked] = request[r].on
      BY <2>2 DEF FlightInv, JoinedIsLoading
    <3> QED BY <3>1, <3>2, MovieCacheAssumption DEF FlightInv, LoadingIsWork
  <2> QED BY <2>1, <2>2 DEF LoadsAreShared
<1> QED BY <1>1, FlightInit, FlightStep, PTL DEF CacheSpec

-----------------------------------------------------------------------------
(* What the two levels keep.                                               *)

Values == [source : Origins, age : Nat]

\* What a key may be answered with: by the source it names, if it names one.
Backed(k, v) == v \in Values /\ (k[2] # Whatever => v.source = k[2])

\* A live entry is gone from both levels before it is older than Redis lets it be.
MemoryEntries ==
    {e \in [key : Asked, left : 0..L1_MAX_TTL, value : Values] :
        /\ Backed(e.key, e.value)
        /\ e.left > 0 => e.value.age + e.left =< TtlOf(e.key)}
KeyedOnce(s) == \A m, n \in 1..Len(s) : m # n => s[m].key # s[n].key
Memories == {s \in Seq(MemoryEntries) : Len(s) =< L1_MAX_ENTRIES /\ KeyedOnce(s)}

RedisEntries(k) ==
    {e \in [left : 1..TtlOf(k), value : Values] :
        Backed(k, e.value) /\ e.value.age + e.left =< TtlOf(k)}

Writes == {w \in [key : Asked, value : Values] : Backed(w.key, w.value) /\ w.value.age = 0}

MemoryInv == l1 \in [Servers -> Memories]
RedisInv == DOMAIN l2 = Asked /\ \A k \in Asked : l2[k] \in {Missing} \cup RedisEntries(k)
WritingInv == writing \in [Servers -> Seq(Writes)]
AnsweredInv ==
    \A a \in answered :
        /\ a.asked \in Asked
        /\ a.value # Failure => Backed(a.asked, a.value) /\ a.value.age < TtlOf(a.asked)

CacheInv == FlightInv /\ MemoryInv /\ RedisInv /\ WritingInv /\ AnsweredInv

LEMMA Lives ==
  ASSUME NEW k \in Asked
  PROVE  TtlOf(k) \in Nat \ {0} /\ LifeInMemory(k) = 1 /\ L1_MAX_TTL = 1
<1>1. k[1] \in {"list", "search", "detail", "meta"}
  BY MovieCacheAssumption DEF Asked
<1>2. TtlOf(k) \in {2, 3, 10, 60}
  BY <1>1 DEF TtlOf, MOVIE_CACHE_TTL
<1> QED BY <1>2 DEF LifeInMemory, L1_MAX_TTL

KeyOut(s, k) == RemoveFirstMatch(s, LAMBDA e : e.key = k)

\* Where the first match of a test is, and what is left without it.
LEMMA FirstMatchOut ==
  ASSUME NEW T, NEW s \in Seq(T), NEW k
  PROVE  LET r == KeyOut(s, k) IN
         \/ r = s /\ \A n \in 1..Len(s) : s[n].key # k
         \/ \E m \in 1..Len(s) :
              /\ s[m].key = k
              /\ r \in Seq(T) /\ Len(r) = Len(s) - 1
              /\ \A n \in 1..Len(s) - 1 : r[n] = IF n < m THEN s[n] ELSE s[n + 1]
<1> DEFINE I == {i \in 1..Len(s) : s[i].key = k}
           m == SelectInSeq(s, LAMBDA e : e.key = k)
           r == KeyOut(s, k)
<1>0. CASE I = {}
  <2>1. \A n \in 1..Len(s) : s[n].key # k
    BY <1>0
  <2>2. r = s
    BY <2>1 DEF KeyOut, RemoveFirstMatch
  <2> QED BY <2>1, <2>2
<1>1. CASE I # {}
  <2>1. Len(s) \in Nat /\ I \in SUBSET Nat
    OBVIOUS
  <2>2. Min(I) \in I
    <3> HIDE DEF I
    <3> QED BY <1>1, <2>1, LeastOf DEF Min
  <2>3. m \in 1..Len(s) /\ s[m].key = k
    BY <1>1, <2>2 DEF SelectInSeq
  <2>4. r = RemoveAt(s, m)
    BY <2>3 DEF KeyOut, RemoveFirstMatch
  <2> HIDE DEF m, I, r
  <2>5. /\ r \in Seq(T) /\ Len(r) = Len(s) - 1
        /\ \A n \in 1..Len(s) - 1 : r[n] = IF n < m THEN s[n] ELSE s[n + 1]
    BY <2>3, <2>4, ElementOut
  <2>6. \E m_1 \in 1..Len(s) :
              /\ s[m_1].key = k
              /\ r \in Seq(T) /\ Len(r) = Len(s) - 1
              /\ \A n \in 1..Len(s) - 1 : r[n] = IF n < m_1 THEN s[n] ELSE s[n + 1]
    BY <2>3, <2>5
  <2> QED BY <2>6 DEF r
<1> QED BY <1>0, <1>1

\* The entries of an instance without the one of a key.
LEMMA WithoutKey ==
  ASSUME MemoryInv, NEW i \in Servers, NEW k
  PROVE  /\ Without(i, k) \in Memories
         /\ \A n \in 1..Len(Without(i, k)) : Without(i, k)[n].key # k
         /\ (\E n \in 1..Len(l1[i]) : l1[i][n].key = k) => Len(Without(i, k)) + 1 =< L1_MAX_ENTRIES
<1> DEFINE s == l1[i]
           r == KeyOut(s, k)
<1>1. s \in Seq(MemoryEntries) /\ Len(s) \in Nat /\ Len(s) =< L1_MAX_ENTRIES /\ KeyedOnce(s)
  BY DEF MemoryInv, Memories
<1>2. L1_MAX_ENTRIES \in Nat
  BY MovieCacheAssumption
<1>3. Without(i, k) = r
  BY DEF Without, KeyOut
<1>4. \/ r = s /\ \A n \in 1..Len(s) : s[n].key # k
      \/ \E m \in 1..Len(s) :
           /\ s[m].key = k
           /\ r \in Seq(MemoryEntries) /\ Len(r) = Len(s) - 1
           /\ \A n \in 1..Len(s) - 1 : r[n] = IF n < m THEN s[n] ELSE s[n + 1]
  BY <1>1, FirstMatchOut
<1> HIDE DEF s, r
<1>5. CASE r = s /\ \A n \in 1..Len(s) : s[n].key # k
  <2>1. r \in Memories
    BY <1>1, <1>5 DEF Memories
  <2> QED BY <1>3, <1>5, <2>1 DEF s
<1>6. ASSUME NEW m \in 1..Len(s), s[m].key = k,
             r \in Seq(MemoryEntries), Len(r) = Len(s) - 1,
             \A n \in 1..Len(s) - 1 : r[n] = IF n < m THEN s[n] ELSE s[n + 1]
      PROVE  /\ r \in Memories
             /\ \A n \in 1..Len(r) : r[n].key # k
             /\ Len(r) + 1 =< L1_MAX_ENTRIES
  <2> DEFINE at(n) == IF n < m THEN n ELSE n + 1
  <2>0. m \in Nat /\ 1 =< m /\ m =< Len(s)
    BY <1>1
  <2>1. \A n \in 1..Len(r) : at(n) \in 1..Len(s) /\ at(n) # m /\ r[n] = s[at(n)]
    BY <1>1, <1>6, <2>0
  <2>2. \A n, p \in 1..Len(r) : n # p => at(n) # at(p)
    BY <1>1, <1>6, <2>0
  <2> HIDE DEF at
  <2>3. KeyedOnce(r)
    BY <1>1, <2>1, <2>2 DEF KeyedOnce
  <2>4. \A n \in 1..Len(r) : r[n].key # k
    BY <1>1, <1>6, <2>0, <2>1 DEF KeyedOnce
  <2>5. Len(r) =< L1_MAX_ENTRIES /\ Len(r) + 1 =< L1_MAX_ENTRIES
    BY <1>1, <1>2, <1>6
  <2> QED BY <1>6, <2>3, <2>4, <2>5 DEF Memories
<1> QED BY <1>3, <1>4, <1>5, <1>6 DEF s

\* An entry goes last among entries of other keys.
LEMMA EntryAdded ==
  ASSUME NEW s \in Memories, NEW e \in MemoryEntries, \A n \in 1..Len(s) : s[n].key # e.key
  PROVE  /\ Append(s, e) \in Seq(MemoryEntries) /\ Len(Append(s, e)) = Len(s) + 1
         /\ KeyedOnce(Append(s, e))
         /\ Len(s) + 1 =< L1_MAX_ENTRIES => Append(s, e) \in Memories
<1>1. s \in Seq(MemoryEntries) /\ Len(s) \in Nat /\ KeyedOnce(s)
  BY DEF Memories
<1>2. /\ Append(s, e) \in Seq(MemoryEntries) /\ Len(Append(s, e)) = Len(s) + 1
      /\ Append(s, e)[Len(s) + 1] = e
      /\ \A n \in 1..Len(s) : Append(s, e)[n] = s[n]
  BY <1>1, AppendProperties
<1> DEFINE r == Append(s, e)
<1> HIDE DEF r
<1>3. KeyedOnce(r)
  <2> SUFFICES ASSUME NEW m \in 1..Len(r), NEW n \in 1..Len(r), m # n
               PROVE  r[m].key # r[n].key
    BY DEF KeyedOnce
  <2>0. Len(r) = Len(s) + 1 /\ r[Len(s) + 1] = e /\ \A p \in 1..Len(s) : r[p] = s[p]
    BY <1>2 DEF r
  <2>1. (m \in 1..Len(s) \/ m = Len(s) + 1) /\ (n \in 1..Len(s) \/ n = Len(s) + 1)
    BY <1>1, <2>0
  <2> QED BY <1>1, <2>0, <2>1 DEF KeyedOnce
<1> QED BY <1>2, <1>3 DEF Memories, r

\* The oldest entry gone.
LEMMA OldestGone ==
  ASSUME NEW s \in Seq(MemoryEntries), KeyedOnce(s), Len(s) > L1_MAX_ENTRIES, Len(s) - 1 =< L1_MAX_ENTRIES
  PROVE  Tail(s) \in Memories
<1>1. Len(s) \in Nat /\ L1_MAX_ENTRIES \in Nat \ {0}
  BY MovieCacheAssumption
<1>2. s # <<>>
  BY <1>1
<1>3. /\ Tail(s) \in Seq(MemoryEntries) /\ Len(Tail(s)) = Len(s) - 1
      /\ \A n \in 1..Len(Tail(s)) : Tail(s)[n] = s[n + 1]
  BY <1>2, HeadTailProperties
<1> DEFINE r == Tail(s)
<1> HIDE DEF r
<1>4. KeyedOnce(r)
  <2> SUFFICES ASSUME NEW m \in 1..Len(r), NEW n \in 1..Len(r), m # n
               PROVE  r[m].key # r[n].key
    BY DEF KeyedOnce
  <2>1. /\ m + 1 \in 1..Len(s) /\ n + 1 \in 1..Len(s) /\ m + 1 # n + 1
        /\ r[m] = s[m + 1] /\ r[n] = s[n + 1]
    BY <1>1, <1>3 DEF r
  <2> QED BY <2>1 DEF KeyedOnce
<1> QED BY <1>1, <1>3, <1>4 DEF Memories, r

\* What a load or Redis gives is remembered.
LEMMA Remembered ==
  ASSUME MemoryInv, NEW i \in Servers, NEW k \in Asked, NEW v,
         Backed(k, v), v.age < TtlOf(k), Remember(i, k, v)
  PROVE  MemoryInv'
<1> DEFINE e == [key |-> k, left |-> LifeInMemory(k), value |-> v]
           s == Without(i, k)
           all == Append(s, e)
<1>1. /\ s \in Memories /\ \A n \in 1..Len(s) : s[n].key # k
  BY WithoutKey
<1>2. e \in MemoryEntries /\ e.key = k
  <2>1. v \in Values /\ v.age \in Nat
    BY DEF Backed, Values
  <2>2. e.key = k /\ e.left = 1 /\ e.value = v
    BY Lives
  <2>3. e \in [key : Asked, left : 0..L1_MAX_TTL, value : Values]
    BY <2>1, Lives
  <2>4. v.age + 1 =< TtlOf(k)
    BY <2>1, Lives
  <2> QED BY <2>2, <2>3, <2>4 DEF MemoryEntries
<1>3. l1' = [l1 EXCEPT ![i] = IF Len(all) > L1_MAX_ENTRIES THEN Tail(all) ELSE all]
  BY DEF Remember
<1> HIDE DEF e, s
<1>4. /\ all \in Seq(MemoryEntries) /\ Len(all) = Len(s) + 1 /\ KeyedOnce(all)
      /\ Len(s) \in Nat /\ Len(s) =< L1_MAX_ENTRIES /\ L1_MAX_ENTRIES \in Nat
      /\ Len(s) + 1 =< L1_MAX_ENTRIES => all \in Memories
  <2>1. Len(s) \in Nat /\ Len(s) =< L1_MAX_ENTRIES /\ L1_MAX_ENTRIES \in Nat
    BY <1>1, MovieCacheAssumption DEF Memories
  <2> QED BY <1>1, <1>2, <2>1, EntryAdded
<1> HIDE DEF all
<1>5. (IF Len(all) > L1_MAX_ENTRIES THEN Tail(all) ELSE all) \in Memories
  <2>1. CASE Len(all) > L1_MAX_ENTRIES
    <3>1. Len(all) - 1 =< L1_MAX_ENTRIES
      BY <1>4
    <3> QED BY <1>4, <2>1, <3>1, OldestGone
  <2>2. CASE ~(Len(all) > L1_MAX_ENTRIES)
    BY <1>4, <2>2
  <2> QED BY <2>1, <2>2
<1> QED BY <1>3, <1>5 DEF MemoryInv

\* Who awaits a load asked for the same thing.
LEMMA FollowersAsked ==
  ASSUME FlightInv, NEW r \in Requests, Working(r)
  PROVE  /\ request[r].at \in Servers /\ request[r].asked \in Asked /\ KeyOf(r) = request[r].asked
         /\ \A f \in Awaiting(r) : request[f].asked = request[r].asked
<1>1. /\ request[r].at \in Servers /\ request[r].asked \in Asked /\ KeyOf(r) = request[r].asked
  BY Kinds DEF Working, NoRequest
<1>2. ASSUME NEW f \in Followers(r) PROVE request[f].asked = request[r].asked
  <2>1. f \in Requests /\ request[f].pc = "joined" /\ request[f].on = r
    BY DEF Followers
  <2>2. loading[request[f].at][request[f].asked] = r
    BY <2>1 DEF FlightInv, JoinedIsLoading
  <2>3. request[f].at \in Servers /\ request[f].asked \in Asked
    BY <2>1, Kinds DEF NoRequest
  <2> QED BY <2>2, <2>3, MovieCacheAssumption DEF FlightInv, LoadingIsWork
<1> QED BY <1>1, <1>2 DEF Awaiting

LEMMA LoadedKeeps ==
  ASSUME FlightInv, MemoryInv, NEW r \in Requests, Working(r), NEW v,
         Backed(request[r].asked, v), v.age < TtlOf(request[r].asked), Loaded(r, v)
  PROVE  MemoryInv' /\ AnsweredInv'
<1>1. MemoryInv'
  BY FollowersAsked, Remembered DEF Loaded
<1>2. answered' = {Answer(request[f].asked, v) : f \in Awaiting(r)}
  BY DEF Loaded, Settle
<1>3. \A a \in answered' : a.asked = request[r].asked /\ a.value = v
  BY <1>2, FollowersAsked DEF Answer
<1>4. AnsweredInv'
  BY <1>3, FollowersAsked DEF AnsweredInv, TtlOf
<1> QED BY <1>1, <1>4

LEMMA AskCached ==
  ASSUME CacheInv, NEW r \in Requests, NEW i \in Servers, NEW c \in Contexts, NEW p \in Pins,
         Ask(r, i, c, p)
  PROVE  MemoryInv' /\ AnsweredInv'
<1> DEFINE k == <<c, p>>
           s == l1[i]
           hits == {e \in Range(s) : e.key = k}
           e == CHOOSE e \in hits : TRUE
<1>1. k \in Asked /\ CacheKey(c, p) = k
  BY KeyPairs
<1>2. /\ s \in Seq(MemoryEntries) /\ KeyedOnce(s) /\ DOMAIN s = 1..Len(s)
      /\ \A n \in 1..Len(s) : s[n] \in MemoryEntries
  BY DEF CacheInv, MemoryInv, Memories
<1>3. /\ Without(i, k) \in Memories /\ \A n \in 1..Len(Without(i, k)) : Without(i, k)[n].key # k
      /\ (\E n \in 1..Len(s) : s[n].key = k) => Len(Without(i, k)) + 1 =< L1_MAX_ENTRIES
  BY WithoutKey DEF CacheInv
<1>4. CASE \E h \in hits : h.left > 0
  <2>1. /\ answered' = {Answer(k, e.value)}
        /\ l1' = [l1 EXCEPT ![i] = Append(Without(i, k), e)]
    BY <1>1, <1>4 DEF Ask
  <2>2. PICK h \in hits : h.left > 0
    BY <1>4
  <2>3. e \in hits
    BY <2>2
  <2> HIDE DEF e
  <2>4. PICK m \in 1..Len(s), n \in 1..Len(s) : e = s[m] /\ h = s[n]
    BY <1>2, <2>2, <2>3 DEF Range
  <2>5. e.key = k /\ h.key = k
    BY <2>2, <2>3
  <2> HIDE DEF s, hits, k
  <2>6. e = h /\ e \in MemoryEntries
    BY <1>2, <2>4, <2>5 DEF KeyedOnce
  <2>7. Append(Without(i, k), e) \in Memories
    BY <1>3, <2>4, <2>5, <2>6, EntryAdded
  <2>8. Backed(k, e.value) /\ e.value.age < TtlOf(k)
    <3>1. /\ Backed(k, e.value) /\ e.value.age + e.left =< TtlOf(k)
          /\ e.left \in Nat /\ e.left > 0 /\ TtlOf(k) \in Nat
      BY <1>1, <2>2, <2>5, <2>6, Lives DEF MemoryEntries
    <3>2. e.value.age \in Nat
      BY <3>1 DEF Backed, Values
    <3> QED BY <3>1, <3>2
  <2>9. MemoryInv'
    BY <2>1, <2>7 DEF CacheInv, MemoryInv
  <2>10. AnsweredInv'
    BY <1>1, <2>1, <2>8 DEF AnsweredInv, Answer, TtlOf
  <2> QED BY <2>9, <2>10
<1>5. CASE ~\E h \in hits : h.left > 0
  <2>1. answered' = {} /\ l1' = [l1 EXCEPT ![i] = Without(i, k)]
    BY <1>1, <1>5 DEF Ask
  <2> HIDE DEF k
  <2>2. MemoryInv'
    BY <1>3, <2>1 DEF CacheInv, MemoryInv
  <2> QED BY <2>1, <2>2 DEF AnsweredInv
<1> QED BY <1>4, <1>5

\* A source that answers, or Redis.
LEMMA LoadBacked ==
  ASSUME FlightInv, NEW r \in Requests, Working(r), NEW o \in MayAnswer(r)
  PROVE  LET v == Value(o, 0) IN
         /\ Backed(request[r].asked, v) /\ v.age = 0 /\ v.age < TtlOf(request[r].asked)
         /\ [key |-> request[r].asked, value |-> v] \in Writes
<1> DEFINE k == request[r].asked
           v == Value(o, 0)
<1>1. k \in Asked /\ TtlOf(k) \in Nat \ {0}
  BY FollowersAsked, Lives
<1>2. k[2] \in Pins
  BY <1>1 DEF Asked
<1>3. o \in Origins /\ (k[2] # Whatever => o = k[2])
  BY <1>2, MovieCacheAssumption DEF MayAnswer
<1>4. v \in Values /\ v.source = o /\ v.age = 0
  BY <1>3 DEF Value, Values
<1> HIDE DEF k, v
<1>5. Backed(k, v) /\ v.age < TtlOf(k)
  BY <1>1, <1>3, <1>4 DEF Backed
<1>6. [key |-> k, value |-> v] \in Writes
  BY <1>1, <1>4, <1>5 DEF Writes
<1> QED BY <1>4, <1>5, <1>6 DEF k, v

LEMMA GetCached ==
  ASSUME CacheInv, NEW r \in Requests, Get(r)
  PROVE  CacheInv'
<1>1. Working(r) /\ request[r].pc = "get" /\ UNCHANGED <<l2, writing>>
  BY DEF Get, Working
<1>2. FlightInv /\ FlightInv'
  BY FlightStep DEF CacheInv, CacheNext
<1>3. RedisInv' /\ WritingInv'
  BY <1>1 DEF CacheInv, RedisInv, WritingInv
<1>4. CASE l2[KeyOf(r)].left > 0 /\ Loaded(r, l2[KeyOf(r)].value)
  <2> DEFINE k == request[r].asked
             v == l2[k].value
  <2>1. k \in Asked /\ KeyOf(r) = k
    BY <1>1, <1>2, FollowersAsked
  <2>2. l2[k] \in RedisEntries(k)
    BY <1>4, <2>1 DEF CacheInv, RedisInv, Missing
  <2>3. Backed(k, v) /\ v.age < TtlOf(k)
    <3> HIDE DEF k
    <3>1. /\ Backed(k, v) /\ v.age + l2[k].left =< TtlOf(k) /\ l2[k].left \in 1..TtlOf(k)
          /\ TtlOf(k) \in Nat
      BY <2>1, <2>2, Lives DEF RedisEntries
    <3>2. v.age \in Nat
      BY <3>1 DEF Backed, Values
    <3> QED BY <3>1, <3>2
  <2>4. Loaded(r, v)
    BY <1>4, <2>1
  <2> HIDE DEF v
  <2>5. MemoryInv' /\ AnsweredInv'
    BY <1>1, <2>3, <2>4, LoadedKeeps DEF CacheInv
  <2> QED BY <1>2, <1>3, <2>5 DEF CacheInv
<1>5. CASE answered' = {} /\ UNCHANGED <<l1, loading>>
  BY <1>2, <1>3, <1>5 DEF CacheInv, MemoryInv, AnsweredInv
<1> QED BY <1>4, <1>5 DEF Get

LEMMA LoadCached ==
  ASSUME CacheInv, NEW r \in Requests, Load(r)
  PROVE  CacheInv'
<1>1. Working(r) /\ UNCHANGED l2
  BY DEF Load, Working
<1>2. FlightInv /\ FlightInv'
  BY FlightStep DEF CacheInv, CacheNext
<1>3. RedisInv'
  BY <1>1 DEF CacheInv, RedisInv
<1>4. /\ request[r].at \in Servers /\ request[r].asked \in Asked /\ KeyOf(r) = request[r].asked
  BY <1>1, <1>2, FollowersAsked
<1>5. PICK o \in MayAnswer(r) :
         /\ Loaded(r, Value(o, 0))
         /\ writing' = IF request[r].write
                       THEN [writing EXCEPT ![request[r].at] =
                                Append(@, [key |-> KeyOf(r), value |-> Value(o, 0)])]
                       ELSE writing
  BY DEF Load
<1>6. /\ Backed(request[r].asked, Value(o, 0)) /\ Value(o, 0).age < TtlOf(request[r].asked)
      /\ [key |-> request[r].asked, value |-> Value(o, 0)] \in Writes
  BY <1>1, <1>2, LoadBacked
<1>7. MemoryInv' /\ AnsweredInv'
  BY <1>1, <1>2, <1>5, <1>6, LoadedKeeps DEF CacheInv
<1>8. WritingInv'
  <2> DEFINE w == [key |-> request[r].asked, value |-> Value(o, 0)]
  <2>1. w \in Writes
    BY <1>6
  <2>2. writing' \in {writing, [writing EXCEPT ![request[r].at] = Append(@, w)]}
    BY <1>4, <1>5
  <2> HIDE DEF w
  <2>3. writing \in [Servers -> Seq(Writes)]
    BY DEF CacheInv, WritingInv
  <2>4. Append(writing[request[r].at], w) \in Seq(Writes)
    BY <1>4, <2>1, <2>3, AppendProperties
  <2> QED BY <2>2, <2>3, <2>4 DEF WritingInv
<1> QED BY <1>2, <1>3, <1>7, <1>8 DEF CacheInv

LEMMA LoadFailsCached ==
  ASSUME CacheInv, NEW r \in Requests, LoadFails(r)
  PROVE  CacheInv'
<1>1. Working(r) /\ UNCHANGED <<l1, l2, writing>>
      /\ answered' = {Answer(request[f].asked, Failure) : f \in Awaiting(r)}
  BY DEF LoadFails, Working, Settle
<1>2. FlightInv /\ FlightInv'
  BY FlightStep DEF CacheInv, CacheNext
<1>3. \A a \in answered' : a.asked \in Asked /\ a.value = Failure
  BY <1>1, <1>2, FollowersAsked DEF Answer
<1> QED BY <1>1, <1>2, <1>3 DEF CacheInv, MemoryInv, RedisInv, WritingInv, AnsweredInv

LEMMA SetCached ==
  ASSUME CacheInv, NEW i \in Servers, Set(i)
  PROVE  CacheInv'
<1>1. /\ UNCHANGED <<l1, loading, request>> /\ answered' = {} /\ writing[i] # <<>>
      /\ writing' = [writing EXCEPT ![i] = Tail(@)]
  BY DEF Set
<1>2. FlightInv'
  BY FlightStep DEF CacheInv, CacheNext
<1>3. writing[i] \in Seq(Writes)
  BY DEF CacheInv, WritingInv
<1>4. Head(writing[i]) \in Writes /\ Tail(writing[i]) \in Seq(Writes)
  BY <1>1, <1>3, HeadTailProperties
<1>5. WritingInv'
  BY <1>1, <1>4 DEF CacheInv, WritingInv
<1>6. RedisInv'
  <2> DEFINE w == Head(writing[i])
             e == [left |-> TtlOf(w.key), value |-> w.value]
  <2>1. l2' \in {l2, [l2 EXCEPT ![w.key] = e]}
    BY DEF Set
  <2>2. /\ w.key \in Asked /\ Backed(w.key, w.value) /\ w.value.age = 0
        /\ w.value \in Values /\ TtlOf(w.key) \in Nat \ {0}
    BY <1>4, Lives DEF Writes
  <2>3. e \in RedisEntries(w.key)
    <3>1. e.left = TtlOf(w.key) /\ e.value = w.value
      OBVIOUS
    <3>2. e \in [left : 1..TtlOf(w.key), value : Values]
      BY <2>2
    <3>3. e.value.age + e.left =< TtlOf(w.key)
      BY <2>2, <3>1
    <3> QED BY <2>2, <3>1, <3>2, <3>3 DEF RedisEntries
  <2> HIDE DEF w, e
  <2> QED BY <2>1, <2>2, <2>3 DEF CacheInv, RedisInv
<1> QED BY <1>1, <1>2, <1>5, <1>6 DEF CacheInv, MemoryInv, AnsweredInv

\* An entry of memory a minute later.
LEMMA EntryAged ==
  ASSUME NEW e \in MemoryEntries
  PROVE  Aged(e) \in MemoryEntries /\ Aged(e).key = e.key
<1>0. /\ e \in [key : Asked, left : 0..L1_MAX_TTL, value : Values] /\ Backed(e.key, e.value)
      /\ e.left > 0 => e.value.age + e.left =< TtlOf(e.key)
      /\ e.value.age \in Nat /\ e.value.source \in Origins /\ TtlOf(e.key) \in Nat
  BY Lives DEF MemoryEntries, Values
<1>1. CASE e.left = 0
  BY <1>1 DEF Aged
<1>2. CASE e.left # 0
  <2> DEFINE d == [key |-> e.key, left |-> e.left - 1,
                   value |-> [source |-> e.value.source, age |-> e.value.age + 1]]
  <2>1. Aged(e) = d
    BY <1>0, <1>2 DEF Aged, Values
  <2>2. e.left \in Nat /\ e.left > 0 /\ e.left \in 1..L1_MAX_TTL
    BY <1>0, <1>2 DEF L1_MAX_TTL
  <2>3. /\ d.key = e.key /\ d.left = e.left - 1
        /\ d.value.source = e.value.source /\ d.value.age = e.value.age + 1
    OBVIOUS
  <2>4. d.value \in Values
    BY <1>0 DEF Values
  <2>5. d \in [key : Asked, left : 0..L1_MAX_TTL, value : Values]
    BY <1>0, <2>2, <2>4 DEF L1_MAX_TTL
  <2> HIDE DEF d
  <2>6. Backed(d.key, d.value)
    BY <1>0, <2>3, <2>4 DEF Backed
  <2>7. d.value.age + d.left =< TtlOf(d.key)
    BY <1>0, <2>2, <2>3
  <2> QED BY <2>1, <2>3, <2>5, <2>6, <2>7 DEF MemoryEntries
<1> QED BY <1>1, <1>2

\* One of Redis.
LEMMA StoredAged ==
  ASSUME NEW k \in Asked, NEW e \in RedisEntries(k), e.left > 1
  PROVE  Aged(e) \in RedisEntries(k)
<1>0. /\ e \in [left : 1..TtlOf(k), value : Values] /\ Backed(k, e.value)
      /\ e.value.age + e.left =< TtlOf(k)
      /\ e.value.age \in Nat /\ e.value.source \in Origins /\ TtlOf(k) \in Nat /\ e.left \in Nat
  BY Lives DEF RedisEntries, Values
<1> DEFINE d == [left |-> e.left - 1, value |-> [source |-> e.value.source, age |-> e.value.age + 1]]
<1>1. Aged(e) = d
  <2> DEFINE v == [e.value EXCEPT !.age = @ + 1]
  <2>1. e.left # 0 /\ e.value \in [source : Origins, age : Nat]
    BY <1>0 DEF Values
  <2>2. v = d.value
    BY <2>1
  <2>3. Aged(e) = [[e EXCEPT !.left = @ - 1] EXCEPT !.value = v]
    BY <2>1 DEF Aged
  <2> HIDE DEF v
  <2> QED BY <1>0, <2>2, <2>3
<1>3. d.left = e.left - 1 /\ d.value.source = e.value.source /\ d.value.age = e.value.age + 1
  OBVIOUS
<1>4. d.value \in Values
  BY <1>0 DEF Values
<1>5. d \in [left : 1..TtlOf(k), value : Values]
  <2>1. e.left - 1 \in 1..TtlOf(k)
    BY <1>0
  <2> QED BY <1>4, <2>1
<1> HIDE DEF d
<1>6. Backed(k, d.value)
  BY <1>0, <1>3, <1>4 DEF Backed
<1>7. d.value.age + d.left =< TtlOf(k)
  BY <1>0, <1>3
<1> QED BY <1>1, <1>5, <1>6, <1>7 DEF RedisEntries

LEMMA MinuteCached ==
  ASSUME CacheInv, Minute
  PROVE  CacheInv'
<1>1. /\ l1' = [i \in Servers |-> [n \in DOMAIN l1[i] |-> Aged(l1[i][n])]]
      /\ l2' = [k \in CacheKeys |-> IF l2[k].left <= 1 THEN Missing ELSE Aged(l2[k])]
      /\ answered' = {} /\ UNCHANGED <<loading, writing, request>>
  BY DEF Minute
<1>2. FlightInv'
  BY FlightStep DEF CacheInv, CacheNext
<1>3. MemoryInv'
  <2> SUFFICES ASSUME NEW i \in Servers
               PROVE  [n \in DOMAIN l1[i] |-> Aged(l1[i][n])] \in Memories
    BY <1>1 DEF MemoryInv
  <2> DEFINE s == l1[i]
             d == [n \in DOMAIN s |-> Aged(s[n])]
  <2>1. /\ s \in Seq(MemoryEntries) /\ KeyedOnce(s) /\ Len(s) =< L1_MAX_ENTRIES
        /\ Len(s) \in Nat /\ DOMAIN s = 1..Len(s) /\ \A n \in 1..Len(s) : s[n] \in MemoryEntries
    BY DEF CacheInv, MemoryInv, Memories
  <2> HIDE DEF s
  <2>2. \A n \in 1..Len(s) : d[n] \in MemoryEntries /\ d[n].key = s[n].key
    BY <2>1, EntryAged
  <2>3. d \in [1..Len(s) -> MemoryEntries]
    BY <2>1, <2>2
  <2> HIDE DEF d
  <2>4. d \in Seq(MemoryEntries) /\ Len(d) = Len(s)
    BY <2>1, <2>3, SeqDef, LenProperties
  <2>5. KeyedOnce(d)
    BY <2>1, <2>2, <2>4 DEF KeyedOnce
  <2>6. d \in Memories
    BY <2>1, <2>4, <2>5 DEF Memories
  <2> QED BY <2>6 DEF d, s
<1>4. RedisInv'
  <2>1. DOMAIN l2' = Asked
    BY <1>1, KeyPairs
  <2>2. ASSUME NEW k \in Asked PROVE l2'[k] \in {Missing} \cup RedisEntries(k)
    <3>1. l2'[k] = IF l2[k].left <= 1 THEN Missing ELSE Aged(l2[k])
      BY <1>1, KeyPairs
    <3>2. l2[k] = Missing \/ l2[k] \in RedisEntries(k)
      BY DEF CacheInv, RedisInv
    <3>3. l2[k].left = 0 \/ l2[k] \in RedisEntries(k)
      BY <3>2 DEF Missing
    <3>4. CASE ~(l2[k].left <= 1)
      <4>1. l2[k] \in RedisEntries(k)
        BY <3>3, <3>4
      <4>2. l2[k].left \in Nat
        BY <4>1, Lives DEF RedisEntries
      <4>3. l2[k].left > 1
        BY <3>4, <4>2
      <4> QED BY <3>1, <3>4, <4>1, <4>3, StoredAged
    <3> QED BY <3>1, <3>4
  <2> QED BY <2>1, <2>2 DEF RedisInv, RedisEntries, TtlOf, Backed
<1> QED BY <1>1, <1>2, <1>3, <1>4 DEF CacheInv, WritingInv, AnsweredInv

LEMMA RestartCached ==
  ASSUME CacheInv, NEW i \in Servers, ServerRestart(i)
  PROVE  CacheInv'
<1>1. /\ l1' = [l1 EXCEPT ![i] = <<>>] /\ writing' = [writing EXCEPT ![i] = <<>>]
      /\ answered' = {} /\ UNCHANGED l2
  BY DEF ServerRestart
<1>2. FlightInv'
  BY FlightStep DEF CacheInv, CacheNext
<1>3. <<>> \in Memories /\ <<>> \in Seq(Writes)
  BY MovieCacheAssumption DEF Memories, KeyedOnce
<1> QED BY <1>1, <1>2, <1>3 DEF CacheInv, MemoryInv, RedisInv, WritingInv, AnsweredInv

LEMMA CacheStarts == CacheInit => CacheInv
<1> SUFFICES ASSUME CacheInit PROVE CacheInv
  OBVIOUS
<1>1. <<>> \in Memories /\ <<>> \in Seq(Writes)
  BY MovieCacheAssumption DEF Memories, KeyedOnce
<1>2. MemoryInv /\ WritingInv /\ AnsweredInv
  BY <1>1 DEF CacheInit, MemoryInv, WritingInv, AnsweredInv
<1>3. RedisInv
  BY KeyPairs DEF CacheInit, RedisInv
<1> QED BY <1>2, <1>3, FlightInit DEF CacheInv

LEMMA CacheStep == CacheInv /\ [CacheNext]_cacheVars => CacheInv'
<1> SUFFICES ASSUME CacheInv, [CacheNext]_cacheVars PROVE CacheInv'
  OBVIOUS
<1>1. ASSUME NEW r \in Requests, NEW i \in Servers, NEW c \in Contexts, NEW p \in Pins,
             Ask(r, i, c, p)
      PROVE  CacheInv'
  <2>1. UNCHANGED <<l2, writing>>
    BY <1>1 DEF Ask
  <2>2. MemoryInv' /\ AnsweredInv' /\ FlightInv'
    BY <1>1, AskCached, AskKeeps DEF CacheInv
  <2> QED BY <2>1, <2>2 DEF CacheInv, RedisInv, WritingInv
<1>2. CASE UNCHANGED cacheVars
  <2>1. UNCHANGED <<l1, l2, loading, writing, request, answered>>
    BY <1>2 DEF cacheVars
  <2>2. FlightInv'
    BY <2>1, FlightKept DEF CacheInv
  <2> QED BY <2>1, <2>2 DEF CacheInv, MemoryInv, RedisInv, WritingInv, AnsweredInv
<1> QED
  BY <1>1, <1>2, GetCached, LoadCached, LoadFailsCached, SetCached, RestartCached, MinuteCached
  DEF CacheNext

\* Types: memory holds a key once and never more entries than it may, Redis
\* never more of a life than the key has (TtlCache.set; MovieCacheService).
THEOREM CacheTypes == CacheSpec => []CacheTypeOK
<1>1. CacheInv => CacheTypeOK
  <2> SUFFICES ASSUME CacheInv PROVE CacheTypeOK
    OBVIOUS
  <2>1. \A i \in Servers : /\ Len(l1[i]) <= L1_MAX_ENTRIES
                           /\ \A m, n \in DOMAIN l1[i] : m # n => l1[i][m].key # l1[i][n].key
    BY DEF CacheInv, MemoryInv, Memories, KeyedOnce
  <2>2. ASSUME NEW k \in CacheKeys PROVE l2[k].left \in 0..TtlOf(k)
    <3>1. k \in Asked /\ TtlOf(k) \in Nat \ {0}
      BY KeyPairs, Lives
    <3>2. l2[k] = Missing \/ l2[k] \in RedisEntries(k)
      BY <3>1 DEF CacheInv, RedisInv
    <3> QED BY <3>1, <3>2 DEF Missing, RedisEntries
  <2>3. \A r \in Requests : request[r].pc \in {"idle", "get", "load", "joined"}
    BY Kinds DEF CacheInv, FlightInv, Joining, Loading, NoRequest
  <2> QED BY <2>1, <2>2, <2>3 DEF CacheTypeOK
<1> QED BY <1>1, CacheStarts, CacheStep, PTL DEF CacheSpec

\* No client is given an answer older than its life in Redis and a minute of
\* memory together, for any number of instances that read from each other
\* through Redis (MovieCacheService.getOrLoad).
THEOREM AnswersAreFresh == CacheSpec => []FreshEnough
<1>1. CacheInv => FreshEnough
  <2> SUFFICES ASSUME CacheInv, NEW a \in answered, a.value # Failure
               PROVE  a.value.age + 1 < TtlOf(a.asked) + L1_MAX_TTL
    BY DEF FreshEnough
  <2>1. a.asked \in Asked /\ a.value.age < TtlOf(a.asked) /\ a.value.age \in Nat
    BY DEF CacheInv, AnsweredInv, Backed, Values
  <2>2. TtlOf(a.asked) \in Nat /\ L1_MAX_TTL = 1
    BY <2>1, Lives
  <2> QED BY <2>1, <2>2
<1> QED BY <1>1, CacheStarts, CacheStep, PTL DEF CacheSpec

\* Who asked for one source is answered by that source, from memory, from Redis
\* and from the loads of others (the key holds the source).
THEOREM PinnedAnswers == CacheSpec => []PinnedSourceAnswers
<1>1. CacheInv => PinnedSourceAnswers
  BY DEF CacheInv, AnsweredInv, Backed, PinnedSourceAnswers
<1> QED BY <1>1, CacheStarts, CacheStep, PTL DEF CacheSpec

-----------------------------------------------------------------------------
(* The skip markers of an episode.                                         *)

Rows ==
    {m \in [by : Viewers, start : Starts, end : Ends] :
        Length(m.start, m.end) \in SKIP_MIN_LENGTH_SEC..SKIP_MAX_LENGTH_SEC}
OneEach(s) == \A m, n \in 1..Len(s) : m # n => s[m].by # s[n].by
SkipInv == marks \in Seq(Rows) /\ OneEach(marks)

\* The viewer's own mark is gone, the others are there as they were.
LEMMA MarkOut ==
  ASSUME SkipInv, NEW v
  PROVE  LET r == MarksWithout(v) IN
         r \in Seq(Rows) /\ OneEach(r) /\ \A n \in 1..Len(r) : r[n].by # v
<1> DEFINE I == {i \in 1..Len(marks) : marks[i].by = v}
           k == SelectInSeq(marks, LAMBDA m : m.by = v)
           r == MarksWithout(v)
<1>1. Len(marks) \in Nat /\ I \in SUBSET Nat
  BY DEF SkipInv
<1>2. CASE I = {}
  <2>1. \A n \in 1..Len(marks) : marks[n].by # v
    BY <1>2
  <2>2. r = marks
    BY <2>1 DEF MarksWithout, RemoveFirstMatch
  <2> QED BY <2>1, <2>2 DEF SkipInv
<1>3. CASE I # {}
  <2>1. Min(I) \in I
    <3> HIDE DEF I
    <3> QED BY <1>1, <1>3, LeastOf DEF Min
  <2>2. k \in 1..Len(marks) /\ marks[k].by = v
    BY <1>3, <2>1 DEF SelectInSeq
  <2>3. r = RemoveAt(marks, k)
    BY <2>2 DEF MarksWithout, RemoveFirstMatch
  <2> HIDE DEF k, I, r
  <2>4. /\ r \in Seq(Rows) /\ Len(r) = Len(marks) - 1
        /\ \A n \in 1..Len(marks) - 1 : r[n] = IF n < k THEN marks[n] ELSE marks[n + 1]
    BY <2>2, <2>3, ElementOut DEF SkipInv
  <2> DEFINE at(n) == IF n < k THEN n ELSE n + 1
  <2>5. k \in Nat /\ 1 =< k /\ k =< Len(marks)
    BY <1>1, <2>2
  <2>6. \A n \in 1..Len(r) : at(n) \in 1..Len(marks) /\ at(n) # k /\ r[n] = marks[at(n)]
    BY <1>1, <2>4, <2>5
  <2>7. \A n, p \in 1..Len(r) : n # p => at(n) # at(p)
    BY <1>1, <2>4, <2>5
  <2> HIDE DEF at
  <2>8. OneEach(r)
    BY <2>6, <2>7 DEF OneEach, SkipInv
  <2>9. \A n \in 1..Len(r) : r[n].by # v
    BY <2>2, <2>6 DEF OneEach, SkipInv
  <2> QED BY <2>4, <2>8, <2>9 DEF r
<1> QED BY <1>2, <1>3

LEMMA SkipStep == SkipInv /\ [SkipNext]_skipVars => SkipInv'
<1> SUFFICES ASSUME SkipInv, [SkipNext]_skipVars PROVE SkipInv'
  OBVIOUS
<1>1. ASSUME NEW v, marks' = MarksWithout(v) PROVE SkipInv'
  BY <1>1, MarkOut DEF SkipInv, OneEach
<1>2. ASSUME NEW v \in Viewers, NEW start \in Starts, NEW end \in Ends, Mark(v, start, end)
      PROVE  SkipInv'
  <2> DEFINE row == [by |-> v, start |-> start, end |-> end]
             r == MarksWithout(v)
  <2>1. row \in Rows /\ row.by = v
    BY <1>2 DEF Mark, Rows
  <2>2. marks' = <<row>> \o r
    BY <1>2 DEF Mark
  <2>3. r \in Seq(Rows) /\ OneEach(r) /\ \A n \in 1..Len(r) : r[n].by # v
    BY MarkOut
  <2> HIDE DEF row, r
  <2>4. /\ <<row>> \in Seq(Rows) /\ Len(<<row>>) = 1 /\ <<row>>[1] = row
    BY <2>1
  <2>5. /\ marks' \in Seq(Rows) /\ Len(marks') = 1 + Len(r)
        /\ \A n \in 1..1 + Len(r) : marks'[n] = IF n <= 1 THEN <<row>>[n] ELSE r[n - 1]
    BY <2>2, <2>3, <2>4, ConcatProperties
  <2>6. Len(r) \in Nat
    BY <2>3
  <2>7. marks'[1] = row /\ \A n \in 1..Len(marks') : n # 1 => n - 1 \in 1..Len(r) /\ marks'[n] = r[n - 1]
    BY <2>4, <2>5, <2>6
  <2>8. OneEach(marks')
    <3> SUFFICES ASSUME NEW m \in 1..Len(marks'), NEW n \in 1..Len(marks'), m # n
                 PROVE  marks'[m].by # marks'[n].by
      BY DEF OneEach
    <3>1. CASE m = 1
      BY <2>1, <2>3, <2>7, <3>1
    <3>2. CASE n = 1
      BY <2>1, <2>3, <2>7, <3>2
    <3>3. CASE m # 1 /\ n # 1
      <4>1. m - 1 # n - 1 /\ m - 1 \in 1..Len(r) /\ n - 1 \in 1..Len(r)
        BY <2>5, <2>6, <2>7, <3>3
      <4> QED BY <2>3, <2>7, <3>3, <4>1 DEF OneEach
    <3> QED BY <3>1, <3>2, <3>3
  <2> QED BY <2>5, <2>8 DEF SkipInv
<1>3. CASE UNCHANGED skipVars
  BY <1>3 DEF SkipInv, OneEach, skipVars
<1>4. ASSUME NEW v \in Viewers, Unmark(v) PROVE SkipInv'
  BY <1>1, <1>4 DEF Unmark
<1> QED BY <1>2, <1>3, <1>4 DEF SkipNext

LEMMA SkipStart == SkipInit => SkipInv
<1> SUFFICES ASSUME SkipInit PROVE SkipInv
  OBVIOUS
<1>1. marks = <<>> /\ <<>> \in Seq(Rows) /\ Len(<<>>) = 0
  BY DEF SkipInit
<1> QED BY <1>1 DEF SkipInv, OneEach

\* Types: the marks of an episode, one of each viewer (SkipMarkersService).
THEOREM SkipTypes == SkipSpec => []SkipTypeOK
<1>1. SkipInv => SkipTypeOK
  <2> SUFFICES ASSUME SkipInv PROVE SkipTypeOK
    OBVIOUS
  <2>1. DOMAIN marks = 1..Len(marks) /\ \A n \in 1..Len(marks) : marks[n] \in Rows
    BY DEF SkipInv
  <2>2. \A m \in Range(marks) : m \in Rows
    BY <2>1 DEF Range
  <2>3. \A m \in Range(marks) : m.by \in Viewers /\ m.start \in Starts /\ m.end \in Ends
    BY <2>2 DEF Rows
  <2>4. IsInjective([n \in DOMAIN marks |-> marks[n].by])
    BY <2>1 DEF IsInjective, SkipInv, OneEach
  <2> QED BY <2>3, <2>4 DEF SkipTypeOK
<1> QED BY <1>1, SkipStart, SkipStep, PTL DEF SkipSpec

\* The k-th smallest edge of a group whose edges are bounded.
LEMMA RankedEdge ==
  ASSUME NEW group, IsFiniteSet(group), NEW edge, NEW B \in Nat,
         \A m \in group : m[edge] \in Nat /\ m[edge] =< B,
         NEW k \in 1..Cardinality(group)
  PROVE  LET v == Ranked(group, edge, k) IN
         /\ v \in {m[edge] : m \in group}
         /\ Cardinality({m \in group : m[edge] < v}) < k
         /\ Cardinality({m \in group : m[edge] <= v}) >= k
<1> DEFINE Less(u) == {m \in group : m[edge] < u}
           Upto(u) == {m \in group : m[edge] <= u}
           U == {u \in Nat : Cardinality(Upto(u)) >= k}
<1>1. \A u : /\ Cardinality(Less(u)) \in Nat /\ Cardinality(Upto(u)) \in Nat
  BY FS_Subset, FS_CardinalityType
<1>2. k \in Nat /\ k >= 1 /\ Cardinality(group) \in Nat /\ k =< Cardinality(group)
  BY FS_CardinalityType
<1>3. Upto(B) = group
  OBVIOUS
<1>4. U # {} /\ U \in SUBSET Nat
  BY <1>2, <1>3
<1>5. PICK v \in U : \A u \in U : v =< u
  BY <1>4, LeastOf
<1>6. Cardinality(Less(v)) < k
  <2>1. CASE v = 0
    <3>1. Less(v) = {}
      BY <2>1
    <3> HIDE DEF Less
    <3> QED BY <1>2, <3>1, FS_EmptySet
  <2>2. CASE v # 0
    <3>1. v - 1 \in Nat /\ v - 1 \notin U
      BY <1>5, <2>2
    <3>2. Less(v) = Upto(v - 1)
      BY <1>5, <3>1
    <3>3. ~(Cardinality(Upto(v - 1)) >= k)
      BY <3>1
    <3> HIDE DEF Less, Upto
    <3> QED BY <1>1, <1>2, <3>2, <3>3
  <2> QED BY <2>1, <2>2
<1>7. v \in {m[edge] : m \in group}
  <2> SUFFICES ASSUME \A m \in group : m[edge] # v PROVE FALSE
    OBVIOUS
  <2>1. Upto(v) = Less(v)
    BY <1>5
  <2>2. Cardinality(Upto(v)) >= k
    BY <1>5
  <2> HIDE DEF Less, Upto
  <2> QED BY <1>1, <1>2, <1>6, <2>1, <2>2
<1>8. Cardinality(Upto(v)) >= k
  BY <1>5
<1> DEFINE w == Ranked(group, edge, k)
<1>9. /\ w \in {m[edge] : m \in group}
      /\ Cardinality(Less(w)) < k /\ Cardinality(Upto(w)) >= k
  BY <1>6, <1>7, <1>8 DEF Ranked
<1> QED BY <1>9

\* The rows as a set, and a group of them.
LEMMA MarksFinite ==
  ASSUME SkipInv
  PROVE  /\ IsFiniteSet(Range(marks)) /\ \A m \in Range(marks) : m \in Rows
         /\ DOMAIN marks = 1..Len(marks) /\ Len(marks) \in Nat
<1>1. DOMAIN marks = 1..Len(marks) /\ Len(marks) \in Nat /\ \A n \in 1..Len(marks) : marks[n] \in Rows
  BY DEF SkipInv
<1>2. \A m \in Range(marks) : m \in Rows
  BY <1>1 DEF Range
<1>3. IsFiniteSet(1..Len(marks))
  BY <1>1, FS_Interval
<1>4. IsFiniteSet(Range(marks))
  <2>1. marks \in [1..Len(marks) -> Range(marks)] /\ \A t \in Range(marks) : \E n \in 1..Len(marks) : marks[n] = t
    BY <1>1 DEF Range, SkipInv
  <2>2. marks \in Surjection(1..Len(marks), Range(marks))
    BY <2>1 DEF Surjection
  <2> QED BY <1>3, <2>2, FS_Surjection
<1> QED BY <1>1, <1>2, <1>4

\* The group that is chosen is that of one of the marks.
LEMMA BestIsAGroup ==
  ASSUME SkipInv, marks # <<>>
  PROVE  \E anchor \in Range(marks) : Best = Group(anchor)
<1> DEFINE size(n) == Cardinality(Group(marks[n]))
           sizes == {Cardinality(Group(m)) : m \in Range(marks)}
           top == Cardinality(Range(marks))
           rest == {top - size(n) : n \in DOMAIN marks}
<1>1. /\ DOMAIN marks = 1..Len(marks) /\ Len(marks) \in Nat /\ Len(marks) >= 1
      /\ IsFiniteSet(Range(marks)) /\ top \in Nat
  BY MarksFinite, FS_CardinalityType DEF SkipInv
<1>2. \A m : Cardinality(Group(m)) \in Nat /\ Cardinality(Group(m)) =< top
  <2>1. \A m : Group(m) \in SUBSET Range(marks)
    BY DEF Group
  <2> HIDE DEF top
  <2> QED BY <1>1, <2>1, FS_Subset, FS_CardinalityType DEF top
<1>3. \A s \in sizes : \E n \in DOMAIN marks : s = size(n)
  BY DEF Range
<1>4. \A n \in DOMAIN marks : size(n) \in sizes /\ marks[n] \in Range(marks) /\ size(n) \in Nat /\ size(n) =< top
  BY <1>2 DEF Range
<1> HIDE DEF size, sizes, top
<1>5. rest \in SUBSET Nat /\ rest # {}
  BY <1>1, <1>4
<1>6. PICK g \in DOMAIN marks : \A p \in DOMAIN marks : top - size(g) =< top - size(p)
  <2>1. \E x \in rest : \A y \in rest : x =< y
    <3> HIDE DEF rest
    <3> QED BY <1>5, LeastOf
  <2> QED BY <2>1
<1>7. \A p \in DOMAIN marks : size(p) =< size(g)
  BY <1>1, <1>4, <1>6
<1> DEFINE G == {n \in DOMAIN marks : size(n) = size(g)}
<1>8. G \in SUBSET Nat /\ G # {}
  BY <1>1
<1>9. PICK f \in G : \A n \in G : f =< n
  BY <1>8, LeastOf
<1>10. \A s \in sizes : size(f) >= s
  BY <1>3, <1>4, <1>7, <1>9
<1>11. ASSUME NEW p \in 1..(f - 1) PROVE \E s \in sizes : size(p) < s
  <2>1. p \in DOMAIN marks /\ p \notin G
    BY <1>1, <1>9
  <2>2. size(p) < size(g) /\ size(g) \in sizes
    BY <1>4, <1>7, <2>1
  <2> QED BY <2>2
<1> DEFINE first == CHOOSE n \in DOMAIN marks :
                       /\ \A s \in sizes : size(n) >= s
                       /\ \A p \in 1..(n - 1) : \E s \in sizes : size(p) < s
<1>12. first \in DOMAIN marks
  BY <1>9, <1>10, <1>11
<1>13. Best = Group(marks[first])
  BY DEF Best, size, sizes
<1> HIDE DEF first
<1> QED BY <1>4, <1>12, <1>13

\* What a group of marks with one anchor has for a segment.
LEMMA MediansOf ==
  ASSUME NEW group, IsFiniteSet(group), Cardinality(group) >= SKIP_MIN_VOTES,
         NEW anchor \in Rows, \A m \in group : m \in Rows /\ Agree(m, anchor)
  PROVE  LET s == MedianTwice(group, "start")
             e == MedianTwice(group, "end") IN
         /\ s - 2 * anchor.start \in -2 * SKIP_TOLERANCE_SEC..2 * SKIP_TOLERANCE_SEC
         /\ e - 2 * anchor.end \in -2 * SKIP_TOLERANCE_SEC..2 * SKIP_TOLERANCE_SEC
         /\ e - s >= 2 * SKIP_MIN_LENGTH_SEC
         /\ e - s <= 2 * SKIP_MAX_LENGTH_SEC
<1> DEFINE n == Cardinality(group)
           st(k) == Ranked(group, "start", k)
           en(k) == Ranked(group, "end", k)
<1>1. n \in Nat /\ n >= 2
  BY FS_CardinalityType DEF SKIP_MIN_VOTES
<1>2. /\ anchor.start \in Nat /\ anchor.end \in Nat /\ SKIP_MAX_LENGTH_SEC \in Nat
      /\ \A m \in group :
            /\ m.start \in Nat /\ m.start - anchor.start \in -4..4
            /\ m.end \in Nat /\ m.end - anchor.end \in -4..4
            /\ m.end - m.start >= 3 /\ m.end - m.start =< SKIP_MAX_LENGTH_SEC
  <2>1. \A m \in Rows :
           /\ m.start \in Nat /\ m.end \in Nat
           /\ m.end - m.start \in 3..SKIP_MAX_LENGTH_SEC
    BY SkipAssumption DEF Rows, Length, SKIP_MIN_LENGTH_SEC
  <2>2. \A m \in group : m.start - anchor.start \in -4..4 /\ m.end - anchor.end \in -4..4
    BY DEF Agree, Near, SKIP_TOLERANCE_SEC
  <2>3. SKIP_MAX_LENGTH_SEC \in Nat
    BY SkipAssumption
  <2>4. \A m \in group : m.end - m.start >= 3 /\ m.end - m.start =< SKIP_MAX_LENGTH_SEC
    BY <2>1, <2>3
  <2> QED BY <2>1, <2>2, <2>3, <2>4
<1>3. ASSUME NEW k \in 1..n
      PROVE  /\ st(k) \in Nat /\ st(k) - anchor.start \in -4..4
             /\ Cardinality({m \in group : m.start < st(k)}) < k
             /\ Cardinality({m \in group : m.start <= st(k)}) >= k
  <2>1. \A m \in group : m["start"] \in Nat /\ m["start"] =< anchor.start + 4
    BY <1>2
  <2>2. anchor.start + 4 \in Nat
    BY <1>2
  <2>3. /\ st(k) \in {m["start"] : m \in group}
        /\ Cardinality({m \in group : m["start"] < st(k)}) < k
        /\ Cardinality({m \in group : m["start"] <= st(k)}) >= k
    BY <2>1, <2>2, RankedEdge
  <2> HIDE DEF st
  <2>4. PICK m \in group : st(k) = m.start
    BY <2>3
  <2> QED BY <1>2, <2>3, <2>4
<1>4. ASSUME NEW k \in 1..n
      PROVE  /\ en(k) \in Nat /\ en(k) - anchor.end \in -4..4
             /\ Cardinality({m \in group : m.end < en(k)}) < k
             /\ Cardinality({m \in group : m.end <= en(k)}) >= k
  <2>1. \A m \in group : m["end"] \in Nat /\ m["end"] =< anchor.end + 4
    BY <1>2
  <2>2. anchor.end + 4 \in Nat
    BY <1>2
  <2>3. /\ en(k) \in {m["end"] : m \in group}
        /\ Cardinality({m \in group : m["end"] < en(k)}) < k
        /\ Cardinality({m \in group : m["end"] <= en(k)}) >= k
    BY <2>1, <2>2, RankedEdge
  <2> HIDE DEF en
  <2>4. PICK m \in group : en(k) = m.end
    BY <2>3
  <2> QED BY <1>2, <2>3, <2>4
<1> HIDE DEF st, en
\* As many marks begin this early as end that early, and the other way round.
<1>5. ASSUME NEW k \in 1..n
      PROVE  en(k) - st(k) >= 3 /\ en(k) - st(k) =< SKIP_MAX_LENGTH_SEC
  <2> DEFINE S == {m \in group : m.start < st(k)}
             SU == {m \in group : m.start <= st(k)}
             E == {m \in group : m.end < en(k)}
             EU == {m \in group : m.end <= en(k)}
  <2>0. k \in Nat /\ n \in Nat
    BY <1>1
  <2>1. /\ st(k) \in Nat /\ en(k) \in Nat
        /\ Cardinality(S) < k /\ Cardinality(SU) >= k
        /\ Cardinality(E) < k /\ Cardinality(EU) >= k
    BY <1>3, <1>4
  <2>2. /\ S \in SUBSET group /\ SU \in SUBSET group
        /\ E \in SUBSET group /\ EU \in SUBSET group
    OBVIOUS
  <2>3. ASSUME en(k) - st(k) < 3 PROVE EU \subseteq S
    BY <1>2, <2>1, <2>3
  <2>4. ASSUME en(k) - st(k) > SKIP_MAX_LENGTH_SEC PROVE SU \subseteq E
    BY <1>2, <2>1, <2>4
  <2> HIDE DEF S, SU, E, EU
  <2>5. /\ Cardinality(S) \in Nat /\ Cardinality(SU) \in Nat
        /\ Cardinality(E) \in Nat /\ Cardinality(EU) \in Nat
        /\ IsFiniteSet(S) /\ IsFiniteSet(E)
    BY <2>2, FS_Subset, FS_CardinalityType
  <2>6. ~(EU \subseteq S)
    <3> SUFFICES ASSUME EU \subseteq S PROVE FALSE
      OBVIOUS
    <3>1. Cardinality(EU) =< Cardinality(S)
      BY <2>5, FS_Subset
    <3> QED BY <2>0, <2>1, <2>5, <3>1
  <2>7. ~(SU \subseteq E)
    <3> SUFFICES ASSUME SU \subseteq E PROVE FALSE
      OBVIOUS
    <3>1. Cardinality(SU) =< Cardinality(E)
      BY <2>5, FS_Subset
    <3> QED BY <2>0, <2>1, <2>5, <3>1
  <2> QED BY <1>2, <2>1, <2>3, <2>4, <2>6, <2>7
<1> DEFINE a == (n + 1) \div 2
           b == n \div 2 + 1
<1>6. a \in 1..n /\ b \in 1..n
  <2> HIDE DEF n
  <2> QED BY <1>1
<1>7. MedianTwice(group, "start") = st(a) + st(b) /\ MedianTwice(group, "end") = en(a) + en(b)
  BY DEF MedianTwice, st, en
<1> HIDE DEF a, b, n
<1>8. /\ st(a) \in Nat /\ st(a) - anchor.start \in -4..4
      /\ st(b) \in Nat /\ st(b) - anchor.start \in -4..4
      /\ en(a) \in Nat /\ en(a) - anchor.end \in -4..4
      /\ en(b) \in Nat /\ en(b) - anchor.end \in -4..4
      /\ en(a) - st(a) >= 3 /\ en(a) - st(a) =< SKIP_MAX_LENGTH_SEC
      /\ en(b) - st(b) >= 3 /\ en(b) - st(b) =< SKIP_MAX_LENGTH_SEC
  BY <1>3, <1>4, <1>5, <1>6
<1>9. -2 * SKIP_TOLERANCE_SEC = -8 /\ 2 * SKIP_TOLERANCE_SEC = 8 /\ 2 * SKIP_MIN_LENGTH_SEC = 6
  BY DEF SKIP_TOLERANCE_SEC, SKIP_MIN_LENGTH_SEC
<1>10. /\ (st(a) + st(b)) - 2 * anchor.start \in -8..8
       /\ (en(a) + en(b)) - 2 * anchor.end \in -8..8
       /\ (en(a) + en(b)) - (st(a) + st(b)) >= 6
       /\ (en(a) + en(b)) - (st(a) + st(b)) <= 2 * SKIP_MAX_LENGTH_SEC
  BY <1>2, <1>8
<1> QED BY <1>7, <1>9, <1>10

\* The segment that is shown is within the tolerance of the mark of a viewer,
\* counts who agrees with that mark, and is as long as a mark may be, for any
\* number of viewers and marks (skipConsensus).
THEOREM SegmentBacked == SkipSpec => []SegmentIsBacked
<1>1. SkipInv => SegmentIsBacked
  <2> SUFFICES ASSUME SkipInv, Segment # NoSegment
               PROVE  SegmentIsBacked
    BY DEF SegmentIsBacked
  <2>1. ~(Cardinality(Best) < SKIP_MIN_VOTES)
    BY DEF Segment
  <2>2. marks # <<>>
    <3>1. marks = <<>> => Best = {}
      BY DEF Best
    <3> QED BY <2>1, <3>1, FS_EmptySet DEF SKIP_MIN_VOTES
  <2>3. PICK anchor \in Range(marks) : Best = Group(anchor)
    BY <2>2, BestIsAGroup
  <2>4. /\ IsFiniteSet(Best) /\ anchor \in Rows
        /\ \A m \in Best : m \in Rows /\ Agree(m, anchor)
    <3>1. Group(anchor) \in SUBSET Range(marks) /\ \A m \in Group(anchor) : Agree(m, anchor)
      BY DEF Group
    <3>2. IsFiniteSet(Group(anchor))
      BY <3>1, MarksFinite, FS_Subset
    <3> QED BY <2>3, <3>1, <3>2, MarksFinite
  <2>5. Cardinality(Best) >= SKIP_MIN_VOTES
    BY <2>1, <2>4, FS_CardinalityType DEF SKIP_MIN_VOTES
  <2> DEFINE s == MedianTwice(Best, "start")
             e == MedianTwice(Best, "end")
  <2>6. /\ Segment.startTwice = s /\ Segment.endTwice = e /\ Segment.votes = Cardinality(Best)
    BY <2>1 DEF Segment
  <2>7. /\ s - 2 * anchor.start \in -2 * SKIP_TOLERANCE_SEC..2 * SKIP_TOLERANCE_SEC
        /\ e - 2 * anchor.end \in -2 * SKIP_TOLERANCE_SEC..2 * SKIP_TOLERANCE_SEC
        /\ e - s >= 2 * SKIP_MIN_LENGTH_SEC
        /\ e - s <= 2 * SKIP_MAX_LENGTH_SEC
    BY <2>4, <2>5, MediansOf
  <2>8. {m \in Range(marks) : Near(m.start, anchor.start) /\ Near(m.end, anchor.end)} = Best
    BY <2>3 DEF Group, Agree
  <2> HIDE DEF s, e
  <2>9. Cardinality({m \in Range(marks) : Near(m.start, anchor.start) /\ Near(m.end, anchor.end)})
           = Segment.votes
    BY <2>6, <2>8
  <2> QED BY <2>6, <2>7, <2>9 DEF SegmentIsBacked
<1> QED BY <1>1, SkipStart, SkipStep, PTL DEF SkipSpec
=============================================================================
