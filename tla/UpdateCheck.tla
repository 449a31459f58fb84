----------------------------- MODULE UpdateCheck -----------------------------
(***************************************************************************)
(* utils/update_check.py: run_check, called once in every process by a     *)
(* thread of its own, with the cache file that outlives the process.       *)
(*                                                                         *)
(* A version is the sequence of its numbers, <<>> for none.  GitHub's ETag *)
(* is named by the release it was sent with; an answer may come without    *)
(* one.  A process that dies in the write leaves a cache _load_cache takes *)
(* for an empty one.                                                       *)
(***************************************************************************)
EXTENDS Integers, Sequences, FiniteSets

CONSTANTS Release,  \* what the GitHub page may show: versions, <<>> for none
          Current,  \* __version__
          Hour,     \* _MIN_FETCH_INTERVAL_SEC, in the ticks of `time`
          MaxTime   \* bound: ticks

ASSUME UpdateAssumption ==
    /\ Release \subseteq Seq(Nat) /\ <<>> \in Release /\ Current \in Seq(Nat)
    /\ Hour \in Nat \ {0} /\ MaxTime \in Nat \ {0}

VARIABLES
    time,       \* time.time(), from 1
    release,    \* what GitHub shows as the latest release
    cache,      \* the cache file
    status,     \* _state
    check,      \* where the thread stands
    asked,      \* `now` of the run_check under way
    \* What only the properties read.
    told,       \* the release of GitHub's last answer, with that of the last
                \* answer in the cache where this is an older one
    lastAsk,    \* time of the last request
    outcome,    \* whether that request, when it was over, got into the cache:
                \* the write failed or the process died, or an exception escaped
    parted      \* the tag in the cache came without an ETag, which is older

updateVars == <<time, release, cache, status, check, asked, told, lastAsk, outcome, parted>>

NoCache == [at |-> 0, tag |-> <<>>, etag |-> {}, error |-> FALSE]
Cache == [at : 0 .. MaxTime, tag : Release, etag : SUBSET Release, error : BOOLEAN]

\* _state before run_check, and after a failure or a deferral.
Unknown(error) == [latest |-> <<>>, newer |-> FALSE, ahead |-> FALSE, error |-> error]

UpdateTypeOK ==
    /\ time \in 1 .. MaxTime /\ release \in Release
    /\ cache \in Cache /\ Cardinality(cache.etag) <= 1
    /\ status \in [latest : Release, newer : BOOLEAN, ahead : BOOLEAN, error : BOOLEAN]
    /\ check \in {"off", "waiting", "asking", "done", "broken"}
    /\ asked \in 0 .. MaxTime /\ (asked # 0 <=> check = "asking")
    /\ told \in SUBSET Release /\ lastAsk \in 0 .. MaxTime
    /\ outcome \in {"recorded", "unwritten", "escaped"} /\ parted \in BOOLEAN

\* The first start ever, or one within the hour after a check.
UpdateInit ==
    /\ time = 1 /\ release \in Release
    /\ \/ cache = NoCache /\ told = {} /\ lastAsk = 0
       \/ /\ cache = [at |-> 1, tag |-> release, etag |-> {release}, error |-> FALSE]
          /\ told = {release} /\ lastAsk = 1
    /\ status = Unknown(FALSE) /\ check = "off" /\ asked = 0
    /\ outcome = "recorded" /\ parted = FALSE

-----------------------------------------------------------------------------
(* Versions and _state.                                                    *)

Segment(v, i) == IF i <= Len(v) THEN v[i] ELSE 0

\* _version_gt: missing segments count as zero.
VersionGt(a, b) ==
    \E i \in 1 .. Len(a) :
        /\ a[i] > Segment(b, i)
        /\ \A j \in 1 .. i - 1 : a[j] = Segment(b, j)

\* _apply_release_tag.
Applied(tag) ==
    [latest |-> tag, newer |-> tag # <<>> /\ VersionGt(tag, Current),
     ahead |-> tag # <<>> /\ VersionGt(Current, tag), error |-> FALSE]

-----------------------------------------------------------------------------
(* run_check.                                                              *)

\* Within the hour the cache answers, or nobody does.
Deferred ==
    /\ cache.at # 0 /\ time - cache.at < Hour
    /\ check' = "done"
    /\ status' = IF cache.tag # <<>> THEN Applied(cache.tag) ELSE Unknown(TRUE)
    /\ UNCHANGED <<time, release, cache, asked, told, lastAsk, outcome, parted>>

Request ==
    /\ cache.at = 0 \/ time - cache.at >= Hour
    /\ check' = "asking" /\ asked' = time
    /\ lastAsk' = time
    /\ UNCHANGED <<time, release, cache, status, told, outcome, parted>>

\* The thread has slept for 1.5 s; macOS asks for check_updates only now.
Wake(wanted) ==
    /\ check = "waiting"
    /\ IF wanted
       THEN Deferred \/ Request
       ELSE /\ check' = "off"
            /\ UNCHANGED <<time, release, cache, status, asked, told, lastAsk, outcome, parted>>

\* _save_cache says nothing of a write that fails.
Record(new, answers, apart) ==
    \/ cache' = new /\ outcome' = "recorded" /\ told' = answers /\ parted' = apart
    \/ cache' = cache /\ outcome' = "unwritten" /\ told' = told \cup answers /\ UNCHANGED parted

Done == check' = "done" /\ asked' = 0

\* fetch_latest_release: 304, the release the ETag was sent with.
NotModified ==
    /\ check = "asking" /\ release \in cache.etag
    /\ Done
    /\ status' = Applied(cache.tag)
    /\ Record([cache EXCEPT !.at = asked], {release}, parted)
    /\ UNCHANGED <<time, release, lastAsk>>

NewEtag(sent) == IF sent THEN {release} ELSE cache.etag

\* Mutant: an answer without a release leaves the cached tag.
AnsweredTag(sent) ==
    /\ check = "asking" /\ release \notin cache.etag
    /\ Done
    /\ status' = Applied(release)
    /\ Record([at |-> asked, tag |-> IF release = <<>> THEN cache.tag ELSE release,
               etag |-> NewEtag(sent), error |-> FALSE], {release}, ~sent /\ cache.etag # {})
    /\ UNCHANGED <<time, release, lastAsk>>

\* 200: the release, or an answer without one.  The ETag is replaced only if one
\* was sent, the tag in any case.
Answered(sent) ==
    /\ check = "asking" /\ release \notin cache.etag
    /\ Done
    /\ status' = Applied(release)
    /\ Record([at |-> asked, tag |-> release, etag |-> NewEtag(sent), error |-> FALSE],
              {release}, ~sent /\ cache.etag # {})
    /\ UNCHANGED <<time, release, lastAsk>>

\* Mutant: the time of a failed attempt is not kept.
FailedUntimed ==
    /\ check = "asking" /\ Done
    /\ status' = Unknown(TRUE)
    /\ Record([cache EXCEPT !.error = TRUE], told, parted)
    /\ UNCHANGED <<time, release, lastAsk>>

\* An error of the network, an HTTP error or an answer that is no JSON.
Failed ==
    /\ check = "asking" /\ Done
    /\ status' = Unknown(TRUE)
    /\ Record([cache EXCEPT !.at = asked, !.error = TRUE], told, parted)
    /\ UNCHANGED <<time, release, lastAsk>>

\* An exception run_check does not catch: the answer breaks off or is no object,
\* or its assets are no list of objects, by when its tag is in _state.
Escapes ==
    /\ check = "asking" /\ check' = "broken" /\ asked' = 0
    /\ outcome' = "escaped"
    /\ \/ UNCHANGED <<status, told>>
       \/ /\ release \notin cache.etag
          /\ status' = Applied(release) /\ told' = told \cup {release}
    /\ UNCHANGED <<time, release, cache, lastAsk, parted>>

-----------------------------------------------------------------------------
(* The world, and the process around the thread.                           *)

\* Time passes, and GitHub may show another release by then: a new one, an
\* older one after a deletion, or none.
Ticks ==
    /\ time < MaxTime /\ time' = time + 1
    /\ release' \in Release
    /\ UNCHANGED <<cache, status, check, asked, told, lastAsk, outcome, parted>>

\* maybe_notify_update, _maybe_do_update, _maybe_notify_update_async.
CheckStarts(wanted) ==
    /\ check' = IF wanted THEN "waiting" ELSE "off"
    /\ UNCHANGED <<time, release, cache, status, asked, told, lastAsk, outcome, parted>>

\* The process dies, perhaps in _save_cache.
CheckDies ==
    /\ check' = "off" /\ asked' = 0 /\ status' = Unknown(FALSE)
    /\ cache' \in (IF check = "asking" THEN {cache, NoCache} ELSE {cache})
    /\ outcome' = IF check = "asking" THEN "unwritten" ELSE outcome
    /\ parted' = (parted /\ cache' # NoCache)
    /\ UNCHANGED <<time, release, told, lastAsk>>

-----------------------------------------------------------------------------
(* Properties.                                                             *)

\* At most one request an hour on a machine, whatever restarts, failures and
\* releases there are, unless the last one could not be recorded: the write
\* failed, the process died first, or an exception escaped that run_check does not
\* catch (utils/update_check.py:4, :22, :216).
OneRequestAnHour ==
    [][check' = "asking" /\ check # "asking" =>
          lastAsk = 0 \/ time - lastAsk >= Hour \/ outcome # "recorded"]_updateVars

\* The version the user is shown is the one GitHub named in its last answer,
\* or the last one the cache could take, whether it came with that answer, with
\* a 304 or from the cache; and it is called newer or older than his own just
\* when it is another version.  Two cases are excepted: the cache keeps an ETag
\* older than its tag, which a 304 then speaks of; and an answer that escaped
\* before its tag was read, which leaves _state as it was.
ShownWasTold ==
    check \in {"done", "broken"} /\ ~status.error =>
        /\ \/ status.latest \in told
           \/ parted /\ status.latest = cache.tag
           \/ check = "broken" /\ status = Unknown(FALSE)
        /\ ~(status.newer /\ status.ahead)
        /\ status.newer \/ status.ahead <=>
               /\ status.latest # <<>>
               /\ \E i \in 1 .. Len(status.latest) + Len(Current) :
                      Segment(status.latest, i) # Segment(Current, i)

=============================================================================
