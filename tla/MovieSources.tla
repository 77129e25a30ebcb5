----------------------------- MODULE MovieSources -----------------------------
(***************************************************************************)
(* One movie request on its way through the sources: the checks of its     *)
(* arguments, the fallback from source to source (movies.service.ts), the  *)
(* retries of the upstream client (upstream-client.service.ts) and what    *)
(* the normalizers make of the answers.                                    *)
(*                                                                         *)
(* An argument is "good", "bad" (refused), or "odd" (a movie type that     *)
(* vsmov does not know).  A source answers one HTTP call with              *)
(*   "data"                    what was asked for;                         *)
(*   "nothing"                 200, and no such movie;                     *)
(*   "odd"                     200 with a body of another shape;           *)
(*   "404", "429", "4xx", "5xx"  that status;                              *)
(*   "network"                 no answer: timeout, refused, reset;         *)
(*   "broken"                  another failure of the call.                *)
(***************************************************************************)
EXTENDS Naturals, SequencesExt

CONSTANT MAX_RETRIES

ASSUME MovieSourcesAssumption == MAX_RETRIES \in Nat

SOURCE_FALLBACK_ORDER == <<"kkphim", "ophim", "vsmov">>
Sources == Range(SOURCE_FALLBACK_ORDER)
Unpinned == "unpinned"     \* no pinned source

Metas == {"genres", "countries", "years"}
Lists == {"new", "type", "search", "genre", "country", "year"}
Singles == {"detail", "image"}
Endpoints == Lists \cup Metas \cup Singles

Asks == {r \in [endpoint : Endpoints, pin : Sources \cup {Unpinned, "unknown"},
                arg : {"good", "odd", "bad"}] :
           /\ r.arg = "odd" => r.endpoint = "type"
           /\ r.arg = "bad" => r.endpoint \in {"type", "search", "year", "image"}
           /\ r.endpoint = "image" => r.pin = Unpinned}

Answers == {"data", "nothing", "odd", "404", "429", "4xx", "5xx", "network", "broken"}

VARIABLES
    ask,       \* the request
    source,    \* the source being asked, Unpinned when none is
    attempt,   \* HTTP calls made to it for this request, less one
    primary,   \* error of the first source, or "none"
    result,    \* the answer to the client, "none" before
    last       \* history: the last answer of each source

sourceVars == <<ask, source, attempt, primary, result, last>>

Ok(s) == <<"ok", s>>
Error(code) == <<"error", code>>
NoResult == <<"none">>

-----------------------------------------------------------------------------
(* What one call comes to.                                                 *)

\* Errors raised before the source is called; the arguments are checked again
\* for each source.
TypeRefusal(s, arg) ==
    CASE arg = "bad" -> "INVALID_MOVIE_TYPE"
      [] arg = "odd" /\ s = "vsmov" -> "BAD_REQUEST"
      [] OTHER -> "none"

YearsRefusal(s) == IF s = "vsmov" THEN "none" ELSE "BAD_REQUEST"

BadArgument(e) ==
    CASE e = "search" -> "MISSING_KEYWORD"
      [] e = "year" -> "INVALID_YEAR"
      [] e = "image" -> "INVALID_IMAGE_URL"

Refusal(r, s) ==
    IF r.endpoint = "type" THEN TypeRefusal(s, r.arg)
    ELSE IF r.endpoint = "years" THEN YearsRefusal(s)
    ELSE IF r.arg = "bad" THEN BadArgument(r.endpoint) ELSE "none"

\* Error of one HTTP call, as toAppError names it in the end; "none" stands for
\* a body.
StatusError(a) ==
    CASE a \in {"data", "nothing", "odd"} -> "none"
      [] a = "404" -> "MOVIE_NOT_FOUND"
      [] a \in {"429", "4xx"} -> "BAD_REQUEST"
      [] a \in {"5xx", "broken"} -> "UPSTREAM_ERROR"
      [] a = "network" -> "UPSTREAM_TIMEOUT"

\* vsmov's mapper takes the shape of lists for granted: the TypeError is no
\* AppError.  The other normalizers read a body without items as an empty list.
VsmovDetail(a) == IF a = "data" THEN Ok("vsmov") ELSE Error("MOVIE_NOT_FOUND")
VsmovList(a) == IF a = "odd" THEN Error("TypeError") ELSE Ok("vsmov")

Detail(s, a) == IF a = "data" THEN Ok(s) ELSE Error("MOVIE_NOT_FOUND")
List(s, a) == Ok(s)
Metadata(s, a) == Ok(s)

\* Content that is no image is not relayed.
ImageBody(a) == IF a = "data" THEN Ok("kkphim") ELSE Error("UPSTREAM_ERROR")

MovieDetail(s, a) == IF s = "vsmov" THEN VsmovDetail(a) ELSE Detail(s, a)
MovieList(s, a) == IF s = "vsmov" THEN VsmovList(a) ELSE List(s, a)
MetadataList(s, a) == IF s = "vsmov" THEN VsmovList(a) ELSE Metadata(s, a)

Normalized(e, s, a) ==
    CASE e = "image" -> ImageBody(a)
      [] e = "detail" -> MovieDetail(s, a)
      [] e \in Metas -> MetadataList(s, a)
      [] OTHER -> MovieList(s, a)

\* A body that cannot be used is not asked for again.
MayRetry(a) == a \in {"5xx", "network"}

Fallbackable(code) ==
    code \in {"UPSTREAM_ERROR", "UPSTREAM_TIMEOUT", "MOVIE_NOT_FOUND", "TypeError"}

-----------------------------------------------------------------------------
(* The request.                                                            *)

\* Years come from vsmov alone, pinned or not; images from the one CDN.
FirstSource(r) ==
    IF r.pin # Unpinned THEN r.pin
    ELSE IF r.endpoint = "years" THEN "vsmov" ELSE SOURCE_FALLBACK_ORDER[1]

HasFallback(r) == r.pin = Unpinned /\ r.endpoint \notin {"years", "image"}

SourcesInit ==
    /\ ask \in Asks
    /\ source = Unpinned
    /\ attempt = 0
    /\ primary = "none"
    /\ result = NoResult
    /\ last = [s \in Sources |-> "none"]

\* resolvePinnedSource refuses what is no source.
Accept ==
    /\ source = Unpinned /\ result = NoResult
    /\ IF ask.pin = "unknown"
       THEN result' = Error("BAD_REQUEST") /\ UNCHANGED source
       ELSE source' = FirstSource(ask) /\ UNCHANGED result
    /\ UNCHANGED <<ask, attempt, primary, last>>

\* Variant: the fallback's own error is what the client gets.
ReportedLast(code) == IF code = "TypeError" THEN "UPSTREAM_ERROR" ELSE code

\* When every source failed the client gets the error of the first one.
Reported(code) ==
    LET first == IF primary = "none" THEN code ELSE primary IN
    IF ~HasFallback(ask) THEN (IF first = "TypeError" THEN "INTERNAL_ERROR" ELSE first)
    ELSE IF first = "TypeError" THEN "UPSTREAM_ERROR" ELSE first

NextSource(s) ==
    LET n == CHOOSE i \in DOMAIN SOURCE_FALLBACK_ORDER : SOURCE_FALLBACK_ORDER[i] = s IN
    IF n < Len(SOURCE_FALLBACK_ORDER) THEN SOURCE_FALLBACK_ORDER[n + 1] ELSE Unpinned

\* withFallback: only the error of the first source can end the search.
SourceFails(code) ==
    LET next == NextSource(source)
        goOn == /\ HasFallback(ask) /\ next # Unpinned
                /\ primary # "none" \/ Fallbackable(code)
    IN
    /\ attempt' = 0
    /\ primary' = IF primary = "none" THEN code ELSE primary
    /\ source' = IF goOn THEN next ELSE Unpinned
    /\ result' = IF goOn THEN NoResult ELSE Error(Reported(code))

Refuse ==
    /\ source # Unpinned
    /\ Refusal(ask, source) # "none"
    /\ SourceFails(Refusal(ask, source))
    /\ UNCHANGED <<ask, last>>

\* One pass of executeWithRetry; the pause before the next one is no state.
Call(a) ==
    /\ source # Unpinned
    /\ Refusal(ask, source) = "none"
    /\ last' = [last EXCEPT ![source] = a]
    /\ CASE StatusError(a) = "none" ->
              LET body == Normalized(ask.endpoint, source, a) IN
              IF body[1] = "ok"
              THEN result' = body /\ source' = Unpinned /\ attempt' = 0 /\ UNCHANGED primary
              ELSE SourceFails(body[2])
         [] MayRetry(a) /\ attempt < MAX_RETRIES ->
              attempt' = attempt + 1 /\ UNCHANGED <<source, primary, result>>
         [] OTHER -> SourceFails(StatusError(a))
    /\ UNCHANGED ask

SourcesNext == Accept \/ Refuse \/ \E a \in Answers : Call(a)

SourcesSpec == SourcesInit /\ [][SourcesNext]_sourceVars

-----------------------------------------------------------------------------
(* Properties.                                                             *)

SourcesTypeOK ==
    /\ ask \in Asks
    /\ source \in Sources \cup {Unpinned}
    /\ attempt \in 0..MAX_RETRIES
    /\ result \in {NoResult} \cup {Ok(s) : s \in Sources} \cup
                  {Error(c) : c \in {"BAD_REQUEST", "MISSING_KEYWORD", "INVALID_MOVIE_TYPE",
                                     "INVALID_YEAR", "INVALID_IMAGE_URL", "MOVIE_NOT_FOUND",
                                     "UPSTREAM_ERROR", "UPSTREAM_TIMEOUT", "INTERNAL_ERROR"}}

Lacking == {"404", "nothing", "odd"}

\* A title is reported as missing only when the first source itself said that
\* it lacks it and, unless a source was pinned, every other source that knows
\* such a request was asked and none delivered: an outage of the first source
\* is never reported as a missing movie (withFallback rethrows the first error).
NotFoundEverywhere ==
    result = Error("MOVIE_NOT_FOUND") =>
        /\ last[FirstSource(ask)] \in Lacking
        /\ HasFallback(ask) => \A s \in Sources :
              Refusal(ask, s) = "none" => last[s] \notin {"none", "data"}
=============================================================================
