---------------------------- MODULE DesktopProofs ----------------------------
(***************************************************************************)
(* Theorems about Desktop.  The update check asks GitHub at most once an   *)
(* hour, and what it shows is what GitHub said, for any releases, any      *)
(* version of the program and any number of dialogs.  What the user has    *)
(* saved is kept, and the link the application hands out is served, for    *)
(* any number of dialogs, of restarts under way and of proxy settings, and *)
(* on all three systems.                                                   *)
(*                                                                         *)
(* Of the configuration the update check needs only that a check is under  *)
(* way in no process that is not running yet (Idle).                       *)
(***************************************************************************)
EXTENDS Desktop, FiniteSetTheorems, WellFoundedInduction, TLAPS

\* UpdateTypeOK without the one conjunct about a cardinality, which OneEtag implies.
Typed ==
    /\ time \in 1 .. MaxTime /\ release \in Release
    /\ cache \in Cache
    /\ status \in [latest : Release, newer : BOOLEAN, ahead : BOOLEAN, error : BOOLEAN]
    /\ check \in {"off", "waiting", "asking", "done", "broken"}
    /\ asked \in 0 .. MaxTime /\ (asked # 0 <=> check = "asking")
    /\ told \in SUBSET Release /\ lastAsk \in 0 .. MaxTime
    /\ outcome \in {"recorded", "unwritten", "escaped"} /\ parted \in BOOLEAN

OneEtag == cache.etag = {} \/ \E r \in Release : cache.etag = {r}

\* A thread of the check lives in a process whose proxy has been started.
Idle == phase \in {"down", "saving"} => check = "off"

\* What is known of the last request: the thread that makes it has its time, and
\* after it the cache has, unless the time got lost.
Hourly ==
    /\ check = "asking" => asked = lastAsk
    /\ check # "asking" => lastAsk = 0 \/ outcome # "recorded" \/ cache.at = lastAsk

\* What _state may be once run_check is over without an error.
Shown ==
    /\ status = Applied(status.latest)
    /\ \/ status.latest \in told
       \/ parted /\ status.latest = cache.tag
       \/ check = "broken" /\ status = Unknown(FALSE)

\* What is known of the answers: the cache and _state name one GitHub gave, and
\* the ETag is that of the tag beside it, unless it is known to have come earlier.
Told ==
    /\ check \notin {"done", "broken"} => status = Unknown(FALSE)
    /\ check \in {"done", "broken"} /\ ~status.error => Shown
    /\ cache.tag # <<>> => cache.tag \in told \/ parted
    /\ OneEtag
    /\ cache.etag \subseteq {cache.tag} \/ parted

UpdateInv == Typed /\ Idle /\ Hourly /\ Told

-----------------------------------------------------------------------------
(* Versions.                                                               *)

\* A segment that is missing counts as zero, so a segment is always a number.
LEMMA SegmentType ==
    ASSUME NEW v \in Seq(Nat), NEW i \in Nat \ {0}
    PROVE  /\ Segment(v, i) \in Nat
           /\ Segment(v, i) > 0 => i \in 1 .. Len(v)
    BY DEF Segment

\* Where two versions differ there is a first place where they do.
LEMMA FirstDifference ==
    ASSUME NEW a \in Seq(Nat), NEW b \in Seq(Nat), NEW i \in Nat \ {0},
           Segment(a, i) # Segment(b, i)
    PROVE  \E m \in Nat \ {0} :
               /\ Segment(a, m) # Segment(b, m)
               /\ \A j \in 1 .. m - 1 : Segment(a, j) = Segment(b, j)
  <1> DEFINE Places == {n \in Nat \ {0} : Segment(a, n) # Segment(b, n)}
  <1>1. IsWellFoundedOn(OpToRel(<, Nat), Nat)
    BY NatLessThanWellFounded
  <1>2. Places \subseteq Nat /\ Places # {}
    OBVIOUS
  <1> HIDE DEF Places
  <1>3. PICK m \in Places : \A n \in Places : ~(<<n, m>> \in OpToRel(<, Nat))
    BY <1>1, <1>2, WFMin
  <1>4. \A n \in Places : ~(n < m)
    BY <1>2, <1>3 DEF OpToRel
  <1>5. QED
    BY <1>4 DEF Places

\* Of two versions that differ one is the newer.
LEMMA VersionTotal ==
    ASSUME NEW a \in Seq(Nat), NEW b \in Seq(Nat), NEW i \in Nat \ {0},
           Segment(a, i) # Segment(b, i)
    PROVE  VersionGt(a, b) \/ VersionGt(b, a)
  <1>1. PICK m \in Nat \ {0} :
            /\ Segment(a, m) # Segment(b, m)
            /\ \A j \in 1 .. m - 1 : Segment(a, j) = Segment(b, j)
    BY FirstDifference
  <1>2. Segment(a, m) \in Nat /\ Segment(b, m) \in Nat
    BY SegmentType
  <1>3. CASE Segment(a, m) > Segment(b, m)
    <2>1. m \in 1 .. Len(a)
      BY <1>2, <1>3, SegmentType
    <2>2. QED
      BY <1>1, <1>3, <2>1 DEF VersionGt, Segment
  <1>4. CASE Segment(b, m) > Segment(a, m)
    <2>1. m \in 1 .. Len(b)
      BY <1>2, <1>4, SegmentType
    <2>2. QED
      BY <1>1, <1>4, <2>1 DEF VersionGt, Segment
  <1>5. QED
    BY <1>1, <1>2, <1>3, <1>4

\* The newer version differs, at a place both comparisons look at.
LEMMA NewerDiffers ==
    ASSUME NEW a \in Seq(Nat), NEW b \in Seq(Nat), VersionGt(a, b)
    PROVE  \E i \in 1 .. Len(a) : Segment(a, i) # Segment(b, i)
  <1>1. PICK i \in 1 .. Len(a) : a[i] > Segment(b, i)
    BY DEF VersionGt
  <1>2. a[i] \in Nat /\ Segment(b, i) \in Nat /\ Segment(a, i) = a[i]
    BY SegmentType DEF Segment
  <1>3. QED
    BY <1>1, <1>2

\* Two versions are not each newer than the other.
LEMMA VersionAsymmetric ==
    ASSUME NEW a \in Seq(Nat), NEW b \in Seq(Nat), VersionGt(a, b), VersionGt(b, a)
    PROVE  FALSE
  <1>1. PICK i \in 1 .. Len(a) :
            a[i] > Segment(b, i) /\ \A j \in 1 .. i - 1 : a[j] = Segment(b, j)
    BY DEF VersionGt
  <1>2. PICK k \in 1 .. Len(b) :
            b[k] > Segment(a, k) /\ \A j \in 1 .. k - 1 : b[j] = Segment(a, j)
    BY DEF VersionGt
  <1>3. a[i] \in Nat /\ b[k] \in Nat /\ i \in Nat \ {0} /\ k \in Nat \ {0}
    OBVIOUS
  <1>4. CASE i < k
    <2>1. b[i] = Segment(a, i)
      BY <1>2, <1>3, <1>4
    <2>2. Segment(a, i) = a[i] /\ Segment(b, i) = b[i]
      BY <1>4 DEF Segment
    <2>3. QED
      BY <1>1, <1>3, <2>1, <2>2
  <1>5. CASE k < i
    <2>1. a[k] = Segment(b, k)
      BY <1>1, <1>3, <1>5
    <2>2. Segment(a, k) = a[k] /\ Segment(b, k) = b[k]
      BY <1>5 DEF Segment
    <2>3. QED
      BY <1>2, <1>3, <2>1, <2>2
  <1>6. CASE i = k
    <2>1. Segment(a, k) = a[k] /\ Segment(b, i) = b[i] /\ b[i] \in Nat
      BY <1>6 DEF Segment
    <2>2. QED
      BY <1>1, <1>2, <1>3, <1>6, <2>1
  <1>7. QED
    BY <1>3, <1>4, <1>5, <1>6

-----------------------------------------------------------------------------
(* The invariant.                                                          *)

\* _apply_release_tag makes a state of any tag.
LEMMA AppliedType ==
    ASSUME NEW tag \in Release
    PROVE  /\ Applied(tag) \in [latest : Release, newer : BOOLEAN, ahead : BOOLEAN, error : BOOLEAN]
           /\ Applied(tag).latest = tag /\ Applied(tag).error = FALSE
    BY DEF Applied

\* Nor is the state before an answer, or after a failure, anything else.
LEMMA UnknownType ==
    ASSUME NEW error \in BOOLEAN
    PROVE  /\ Unknown(error) \in [latest : Release, newer : BOOLEAN, ahead : BOOLEAN, error : BOOLEAN]
           /\ Unknown(error).error = error
           /\ Unknown(FALSE) = Applied(Unknown(FALSE).latest)
    BY UpdateAssumption DEF Unknown, Applied

Recorded ==
    /\ cache \in Cache /\ told \in SUBSET Release
    /\ outcome \in {"recorded", "unwritten", "escaped"} /\ parted \in BOOLEAN

\* _save_cache, whether it succeeds or not, leaves the time of the request in
\* the cache or is known to have failed.
LEMMA RecordKeeps ==
    ASSUME UpdateInv, NEW new \in Cache, NEW answers \in SUBSET Release,
           NEW apart \in BOOLEAN,
           check = "asking", Done, Record(new, answers, apart), lastAsk' = lastAsk,
           new.at = asked
    PROVE  Recorded' /\ Hourly'
  <1>1. CASE cache' = new /\ outcome' = "recorded" /\ told' = answers /\ parted' = apart
    BY <1>1 DEF UpdateInv, Typed, Hourly, Done, Recorded
  <1>2. CASE cache' = cache /\ outcome' = "unwritten" /\ told' = told \cup answers /\ UNCHANGED parted
    BY <1>2 DEF UpdateInv, Typed, Hourly, Done, Recorded
  <1>3. QED
    BY <1>1, <1>2 DEF Record

LEMMA UpdateInitially == Init => UpdateInv
  <1> SUFFICES ASSUME Init PROVE UpdateInv
    OBVIOUS
  <1>1. /\ time = 1 /\ release \in Release /\ status = Unknown(FALSE)
        /\ check = "off" /\ asked = 0 /\ outcome = "recorded" /\ parted = FALSE
    BY DEF Init, UpdateInit
  <1>2. 1 \in 1 .. MaxTime /\ 0 \in 0 .. MaxTime /\ 1 \in 0 .. MaxTime
    BY UpdateAssumption
  <1>3. status \in [latest : Release, newer : BOOLEAN, ahead : BOOLEAN, error : BOOLEAN]
    BY <1>1, UpdateAssumption DEF Unknown
  <1>4. CASE cache = NoCache /\ told = {} /\ lastAsk = 0
    <2>1. cache \in Cache
      BY <1>2, <1>4, UpdateAssumption DEF NoCache, Cache
    <2>2. Typed
      BY <1>1, <1>2, <1>3, <1>4, <2>1 DEF Typed
    <2>3. Idle /\ Hourly /\ Told
      BY <1>1, <1>4 DEF Idle, Hourly, Told, OneEtag, NoCache
    <2>4. QED
      BY <2>2, <2>3 DEF UpdateInv
  <1>5. CASE /\ cache = [at |-> 1, tag |-> release, etag |-> {release}, error |-> FALSE]
             /\ told = {release} /\ lastAsk = 1
    <2>1. cache \in Cache
      BY <1>1, <1>2, <1>5 DEF Cache
    <2>2. Typed
      BY <1>1, <1>2, <1>3, <1>5, <2>1 DEF Typed
    <2>3. Idle /\ Hourly /\ Told
      BY <1>1, <1>5 DEF Idle, Hourly, Told, OneEtag
    <2>4. QED
      BY <2>2, <2>3 DEF UpdateInv
  <1>6. QED
    BY <1>4, <1>5 DEF Init, UpdateInit

\* The configuration's own steps: no check, and no process that goes back.
LEMMA SettingsSteps ==
    ASSUME UpdateInv, Starts \/ Uses
    PROVE  UpdateInv'
  <1>1. UNCHANGED updateVars
    BY DEF Starts, Uses
  <1>2. Typed' /\ Hourly' /\ Told'
    BY <1>1 DEF UpdateInv, Typed, Hourly, Told, Shown, OneEtag, updateVars
  <1>3. check' = check
    BY <1>1 DEF updateVars
  <1>4. ASSUME Starts PROVE Idle'
    BY <1>3, <1>4 DEF UpdateInv, Idle, Starts, Load, Welcome
  <1>5. ASSUME Uses PROVE Idle'
    <2>1. phase' = phase
      BY <1>5 DEF Uses, TrayStep, DialogStep, Restart, RestartReloaded, Stop, LeftoverEnds,
            StartAgain, Toggle, ToggleEnds, ToggleFails, Open, OpenLoaded, Cancel, Save, SaveAnswers, SaveEnds,
            SaveFails, Adopt, Answer
    <2>2. QED
      BY <1>3, <2>1 DEF UpdateInv, Idle
  <1>6. QED
    BY <1>2, <1>4, <1>5 DEF UpdateInv

LEMMA BootsKeeps ==
    ASSUME UpdateInv, Boots
    PROVE  UpdateInv'
  <1>1. check = "off" /\ check' \in {"off", "waiting"} /\ phase' \notin {"down", "saving"}
    BY DEF UpdateInv, Idle, Boots, Boot, CheckStarts
  <1>2. UNCHANGED <<time, release, cache, status, asked, told, lastAsk, outcome, parted>>
    BY DEF Boots, CheckStarts
  <1>3. QED
    BY <1>1, <1>2 DEF UpdateInv, Typed, Idle, Hourly, Told, OneEtag

\* A death in the request is one whose time may be in no cache.
LEMMA DiesKeeps ==
    ASSUME UpdateInv, Dies
    PROVE  UpdateInv'
  <1>1. /\ check' = "off" /\ asked' = 0 /\ status' = Unknown(FALSE)
        /\ cache' \in (IF check = "asking" THEN {cache, NoCache} ELSE {cache})
        /\ outcome' = IF check = "asking" THEN "unwritten" ELSE outcome
        /\ parted' = (parted /\ cache' # NoCache)
        /\ UNCHANGED <<time, release, told, lastAsk>>
    BY DEF Dies, CheckDies
  <1>2. status' \in [latest : Release, newer : BOOLEAN, ahead : BOOLEAN, error : BOOLEAN]
    BY <1>1, UnknownType
  <1>3. cache' \in Cache
    <2>1. NoCache \in Cache
      BY UpdateAssumption DEF NoCache, Cache
    <2>2. QED
      BY <1>1, <2>1 DEF UpdateInv, Typed
  <1>4. Typed'
    <2>1. 0 \in 0 .. MaxTime
      BY UpdateAssumption
    <2>2. QED
      BY <1>1, <1>2, <1>3, <2>1 DEF UpdateInv, Typed
  <1>5. Idle' /\ Hourly'
    BY <1>1 DEF UpdateInv, Idle, Hourly
  <1>6. Told'
    <2>1. CASE cache' = NoCache
      BY <1>1, <2>1 DEF Told, OneEtag, NoCache
    <2>2. CASE cache' = cache /\ cache' # NoCache
      BY <1>1, <2>2 DEF UpdateInv, Typed, Told, OneEtag
    <2>3. QED
      BY <1>1, <2>1, <2>2
  <1>7. QED
    BY <1>4, <1>5, <1>6 DEF UpdateInv

\* The time of a request is noted when it starts; a check that is deferred shows
\* what the cache had.
LEMMA WakesKeeps ==
    ASSUME UpdateInv, Wakes
    PROVE  UpdateInv'
  <1>1. check = "waiting" /\ UNCHANGED <<time, release, cache, told, outcome, parted, phase>>
    BY DEF Wakes, Wake, Deferred, Request, settingsVars
  <1>2. Idle'
    BY <1>1 DEF UpdateInv, Idle
  <1>3. cache.tag \in Release /\ <<>> \in Release
    BY UpdateAssumption DEF UpdateInv, Typed, Cache
  <1>4. ASSUME Deferred PROVE Typed' /\ Hourly' /\ Told'
    <2>1. check' = "done" /\ UNCHANGED <<asked, lastAsk>>
      BY <1>4 DEF Deferred
    <2>2. \/ cache.tag # <<>> /\ status' = Applied(cache.tag)
          \/ status' = Unknown(TRUE)
      BY <1>4 DEF Deferred
    <2>3. status' \in [latest : Release, newer : BOOLEAN, ahead : BOOLEAN, error : BOOLEAN]
      BY <1>3, <2>2, AppliedType, UnknownType
    <2>4. Typed' /\ Hourly'
      BY <1>1, <2>1, <2>3 DEF UpdateInv, Typed, Hourly
    <2>5. Told'
      <3>1. CASE cache.tag # <<>> /\ status' = Applied(cache.tag)
        BY <1>1, <1>3, <2>1, <3>1, AppliedType DEF UpdateInv, Told, Shown, OneEtag
      <3>2. CASE status' = Unknown(TRUE)
        <4>1. status'.error = TRUE
          BY <3>2, UnknownType
        <4>2. QED
          BY <1>1, <2>1, <4>1 DEF UpdateInv, Told, OneEtag
      <3>3. QED
        BY <2>2, <3>1, <3>2
    <2>6. QED
      BY <2>4, <2>5
  <1>5. ASSUME Request PROVE Typed' /\ Hourly' /\ Told'
    <2>1. check' = "asking" /\ asked' = time /\ lastAsk' = time /\ UNCHANGED status
      BY <1>5 DEF Request
    <2>2. Typed'
      BY <1>1, <2>1, UpdateAssumption DEF UpdateInv, Typed
    <2>3. Hourly'
      BY <1>1, <2>1 DEF UpdateInv, Hourly
    <2>4. Told'
      BY <1>1, <2>1 DEF UpdateInv, Told, OneEtag
    <2>5. QED
      BY <2>2, <2>3, <2>4
  <1>6. ASSUME check' = "off", UNCHANGED <<status, asked, lastAsk>>
        PROVE  Typed' /\ Hourly' /\ Told'
    BY <1>1, <1>6 DEF UpdateInv, Typed, Hourly, Told, OneEtag
  <1>7. QED
    BY <1>2, <1>4, <1>5, <1>6 DEF Wakes, Wake, UpdateInv

\* A request that run_check sees the end of notes its time in the cache, or that
\* this failed.
LEMMA AnswersKeeps ==
    ASSUME UpdateInv, Answers, ~Escapes
    PROVE  UpdateInv'
  <1>1. check = "asking" /\ Done /\ UNCHANGED <<time, release, lastAsk, phase>>
    BY DEF Answers, NotModified, Answered, Failed, settingsVars
  <1>2. Idle'
    BY <1>1 DEF UpdateInv, Idle
  <1>3. /\ cache \in Cache /\ asked \in 0 .. MaxTime /\ told \in SUBSET Release
        /\ release \in Release /\ cache.tag \in Release /\ cache.etag \in SUBSET Release
        /\ parted \in BOOLEAN
    BY DEF UpdateInv, Typed, Cache
  <1>4. check' = "done" /\ asked' = 0 /\ 0 \in 0 .. MaxTime
    BY <1>1, UpdateAssumption DEF Done
  <1>5. ASSUME status' \in [latest : Release, newer : BOOLEAN, ahead : BOOLEAN, error : BOOLEAN],
               Recorded'
        PROVE  Typed'
    BY <1>1, <1>4, <1>5 DEF UpdateInv, Typed, Recorded
  <1>6. ASSUME NotModified PROVE Typed' /\ Hourly' /\ Told'
    <2> DEFINE new == [cache EXCEPT !.at = asked]
    <2>1. /\ release \in cache.etag /\ status' = Applied(cache.tag)
          /\ Record(new, {release}, parted)
      BY <1>6 DEF NotModified
    <2>2. release = cache.tag \/ parted
      BY <2>1 DEF UpdateInv, Told
    <2>3. /\ new \in Cache /\ new.at = asked
          /\ new.tag = cache.tag /\ new.etag = cache.etag
      BY <1>3 DEF Cache
    <2>4. Recorded' /\ Hourly'
      <3> HIDE DEF new
      <3>1. QED
        BY <1>1, <1>3, <2>1, <2>3, RecordKeeps
    <2>5. Typed'
      BY <1>3, <1>5, <2>1, <2>4, AppliedType
    <2>6. /\ release \in told' /\ parted' = parted
          /\ cache'.tag = cache.tag /\ cache'.etag = cache.etag
      BY <2>1, <2>3 DEF Record
    <2>7. status'.latest = cache.tag /\ status' = Applied(status'.latest)
      BY <1>3, <2>1, AppliedType
    <2>8. Told'
      BY <1>4, <2>2, <2>6, <2>7 DEF UpdateInv, Told, Shown, OneEtag
    <2>9. QED
      BY <2>4, <2>5, <2>8
  <1>7. ASSUME NEW sent \in BOOLEAN, Answered(sent) PROVE Typed' /\ Hourly' /\ Told'
    <2> DEFINE apart == ~sent /\ cache.etag # {}
               new == [at |-> asked, tag |-> release, etag |-> NewEtag(sent), error |-> FALSE]
    <2>1. status' = Applied(release) /\ Record(new, {release}, apart)
      BY <1>7 DEF Answered
    <2>2. /\ NewEtag(sent) \in SUBSET Release
          /\ sent => NewEtag(sent) = {release}
          /\ ~sent => NewEtag(sent) = cache.etag
      BY <1>3 DEF NewEtag
    <2>3. /\ new \in Cache /\ new.at = asked
          /\ new.tag = release /\ new.etag = NewEtag(sent)
      BY <1>3, <2>2 DEF Cache
    <2>4. Recorded' /\ Hourly'
      <3>1. apart \in BOOLEAN
        OBVIOUS
      <3> HIDE DEF new, apart
      <3>2. QED
        BY <1>1, <1>3, <2>1, <2>3, <3>1, RecordKeeps
    <2>5. Typed'
      BY <1>3, <1>5, <2>1, <2>4, AppliedType
    <2>6. /\ release \in told'
          /\ \/ cache'.tag = release /\ cache'.etag = NewEtag(sent) /\ parted' = apart
             \/ cache' = cache /\ told' = told \cup {release} /\ parted' = parted
      BY <2>1, <2>3 DEF Record
    <2>7. status'.latest = release /\ status' = Applied(status'.latest)
      BY <1>3, <2>1, AppliedType
    <2>8. Told'
      <3> HIDE DEF new
      <3>1. CASE cache'.tag = release /\ cache'.etag = NewEtag(sent) /\ parted' = apart
        <4>1. OneEtag'
          BY <1>3, <2>2, <3>1 DEF UpdateInv, Told, OneEtag
        <4>2. cache'.etag \subseteq {cache'.tag} \/ parted'
          BY <2>2, <3>1
        <4>3. QED
          BY <1>4, <2>6, <2>7, <3>1, <4>1, <4>2 DEF Told, Shown
      <3>2. CASE cache' = cache /\ told' = told \cup {release} /\ parted' = parted
        BY <1>4, <2>7, <3>2 DEF UpdateInv, Told, Shown, OneEtag
      <3>3. QED
        BY <2>6, <3>1, <3>2
    <2>9. QED
      BY <2>4, <2>5, <2>8
  <1>8. ASSUME Failed PROVE Typed' /\ Hourly' /\ Told'
    <2> DEFINE new == [cache EXCEPT !.at = asked, !.error = TRUE]
    <2>1. status' = Unknown(TRUE) /\ Record(new, told, parted)
      BY <1>8 DEF Failed
    <2>2. /\ new \in Cache /\ new.at = asked
          /\ new.tag = cache.tag /\ new.etag = cache.etag
      BY <1>3 DEF Cache
    <2>3. Recorded' /\ Hourly'
      <3> HIDE DEF new
      <3>1. QED
        BY <1>1, <1>3, <2>1, <2>2, RecordKeeps
    <2>4. Typed' /\ status'.error
      BY <1>5, <2>1, <2>3, UnknownType
    <2>5. /\ told' = told /\ parted' = parted
          /\ cache'.tag = cache.tag /\ cache'.etag = cache.etag
      BY <2>1, <2>2 DEF Record
    <2>6. QED
      BY <1>4, <2>3, <2>4, <2>5 DEF UpdateInv, Told, OneEtag
  <1>9. QED
    BY <1>2, <1>6, <1>7, <1>8 DEF Answers, UpdateInv

\* One that ends in an exception run_check does not catch leaves the cache alone.
LEMMA EscapesKeeps ==
    ASSUME UpdateInv, Answers, Escapes
    PROVE  UpdateInv'
  <1>1. /\ check = "asking" /\ check' = "broken" /\ asked' = 0 /\ outcome' = "escaped"
        /\ UNCHANGED <<time, release, cache, lastAsk, parted, phase>>
    BY DEF Answers, Escapes, settingsVars
  <1>2. \/ UNCHANGED <<status, told>>
        \/ status' = Applied(release) /\ told' = told \cup {release}
    BY DEF Escapes
  <1>3. status = Unknown(FALSE) /\ release \in Release /\ told \in SUBSET Release
    BY <1>1 DEF UpdateInv, Typed, Told
  <1>4. /\ status' \in [latest : Release, newer : BOOLEAN, ahead : BOOLEAN, error : BOOLEAN]
        /\ status' = Applied(status'.latest)
        /\ status' = Unknown(FALSE) \/ status'.latest \in told'
    BY <1>2, <1>3, AppliedType, UnknownType
  <1>5. Typed' /\ Idle' /\ Hourly'
    <2>1. told' \in SUBSET Release
      BY <1>2, <1>3
    <2>2. 0 \in 0 .. MaxTime
      BY UpdateAssumption
    <2>3. Typed'
      BY <1>1, <1>4, <2>1, <2>2 DEF UpdateInv, Typed
    <2>4. Idle' /\ Hourly'
      BY <1>1 DEF UpdateInv, Idle, Hourly
    <2>5. QED
      BY <2>3, <2>4
  <1>6. Told'
    BY <1>1, <1>2, <1>4 DEF UpdateInv, Told, Shown, OneEtag
  <1>7. QED
    BY <1>5, <1>6 DEF UpdateInv

LEMMA WorldKeeps ==
    ASSUME UpdateInv, World
    PROVE  UpdateInv'
  <1>1. /\ time < MaxTime /\ time' = time + 1 /\ release' \in Release
        /\ UNCHANGED <<cache, status, check, asked, told, lastAsk, outcome, parted, phase>>
    BY DEF World, Ticks, settingsVars
  <1>2. Typed'
    BY <1>1, UpdateAssumption DEF UpdateInv, Typed
  <1>3. Idle' /\ Hourly'
    BY <1>1 DEF UpdateInv, Idle, Hourly
  <1>4. Told'
    BY <1>1 DEF UpdateInv, Told, Shown, OneEtag
  <1>5. QED
    BY <1>2, <1>3, <1>4 DEF UpdateInv

LEMMA StutterKeeps ==
    ASSUME UpdateInv, UNCHANGED vars
    PROVE  UpdateInv'
    BY DEF UpdateInv, Typed, Idle, Hourly, Told, Shown, OneEtag, vars, updateVars, settingsVars

LEMMA UpdateInductive == UpdateInv /\ [Next]_vars => UpdateInv'
    BY BootsKeeps, DiesKeeps, WakesKeeps, AnswersKeeps, EscapesKeeps, WorldKeeps,
       SettingsSteps, StutterKeeps DEF Next

-----------------------------------------------------------------------------
(* The theorems.                                                           *)

\* Along every run the cache, the thread and what GitHub said agree.
THEOREM UpdateInvariant == Spec => []UpdateInv
    BY UpdateInitially, UpdateInductive, PTL DEF Spec

\* Every state of the update check is of its type; in particular the cache keeps
\* one ETag.
THEOREM UpdateTypeCorrect == Spec => []UpdateTypeOK
  <1>1. UpdateInv => UpdateTypeOK
    <2> SUFFICES ASSUME UpdateInv PROVE UpdateTypeOK
      OBVIOUS
    <2>1. cache.etag = {} \/ \E r \in Release : cache.etag = {r}
      BY DEF UpdateInv, Told, OneEtag
    <2>2. Cardinality(cache.etag) <= 1
      <3>1. Cardinality({}) = 0 /\ \A r \in Release : Cardinality({r}) = 1
        BY FS_EmptySet, FS_Singleton
      <3>2. QED
        BY <2>1, <3>1
    <2>3. QED
      BY <2>2 DEF UpdateInv, Typed, UpdateTypeOK
  <1>2. QED
    BY <1>1, UpdateInvariant, PTL

\* run_check's thread asks only when the last request on the machine is an hour
\* ago, whatever processes die, requests fail and releases change, unless that
\* request was not recorded: its write failed, the process died before it, or an
\* exception left run_check.
THEOREM HourlyLimit == Spec => OneRequestAnHour
  <1> DEFINE AsksAgain == check' = "asking" /\ check # "asking"
             Late == lastAsk = 0 \/ time - lastAsk >= Hour \/ outcome # "recorded"
             Step == AsksAgain => Late
  <1>1. ASSUME UpdateInv, [Next]_vars PROVE [Step]_updateVars
    <2> SUFFICES ASSUME AsksAgain PROVE Late
      OBVIOUS
    <2>1. Request
      <3>1. CASE UNCHANGED check
        BY <3>1
      <3>2. CASE Starts \/ Uses \/ World
        BY <3>2 DEF Starts, Uses, World, Ticks, updateVars
      <3>3. CASE Boots \/ Dies \/ Answers
        BY <3>3 DEF Boots, CheckStarts, Dies, CheckDies, Answers, NotModified, Answered,
                    Failed, Escapes, Done
      <3>4. CASE Wakes
        BY <3>4 DEF Wakes, Wake, Deferred
      <3>5. QED
        BY <1>1, <3>1, <3>2, <3>3, <3>4 DEF Next, vars, updateVars
    <2>2. cache.at = 0 \/ time - cache.at >= Hour
      BY <2>1 DEF Request
    <2>3. QED
      BY <1>1, <2>2 DEF UpdateInv, Hourly
  <1>2. QED
    BY <1>1, UpdateInvariant, PTL DEF Spec, OneRequestAnHour

\* What _state names is GitHub's last answer, or the last one the cache could
\* take, unless the cache has an ETag older than its tag or the answer escaped
\* unread; and it is called newer or older than the program just when the two
\* versions differ, for versions of any number of segments.
THEOREM ShownIsTold == Spec => []ShownWasTold
  <1>1. ASSUME UpdateInv, check \in {"done", "broken"}, ~status.error
        PROVE  /\ ~(status.newer /\ status.ahead)
               /\ status.newer \/ status.ahead <=>
                      /\ status.latest # <<>>
                      /\ \E i \in 1 .. Len(status.latest) + Len(Current) :
                             Segment(status.latest, i) # Segment(Current, i)
    <2> DEFINE tag == status.latest
    <2>1. status = Applied(tag)
      BY <1>1 DEF UpdateInv, Told, Shown
    <2>2. /\ status.newer <=> tag # <<>> /\ VersionGt(tag, Current)
          /\ status.ahead <=> tag # <<>> /\ VersionGt(Current, tag)
      <3>1. /\ Applied(tag).newer = (tag # <<>> /\ VersionGt(tag, Current))
            /\ Applied(tag).ahead = (tag # <<>> /\ VersionGt(Current, tag))
        BY Zenon DEF Applied
      <3>2. QED
        BY <2>1, <3>1, Zenon
    <2>3. tag \in Seq(Nat) /\ Current \in Seq(Nat)
      BY <1>1, UpdateAssumption DEF UpdateInv, Typed
    <2> HIDE DEF tag
    <2>4. ~(VersionGt(tag, Current) /\ VersionGt(Current, tag))
      BY <2>3, VersionAsymmetric
    <2>5. ASSUME NEW i \in 1 .. Len(tag) + Len(Current), Segment(tag, i) # Segment(Current, i)
          PROVE  VersionGt(tag, Current) \/ VersionGt(Current, tag)
      BY <2>3, <2>5, VersionTotal
    <2>6. ASSUME VersionGt(tag, Current) \/ VersionGt(Current, tag)
          PROVE  \E i \in 1 .. Len(tag) + Len(Current) : Segment(tag, i) # Segment(Current, i)
      <3>1. Len(tag) \in Nat /\ Len(Current) \in Nat
        BY <2>3
      <3>2. PICK i \in (1 .. Len(tag)) \cup (1 .. Len(Current)) : Segment(tag, i) # Segment(Current, i)
        BY <2>3, <2>6, NewerDiffers
      <3>3. QED
        BY <3>1, <3>2
    <2>7. QED
      BY <2>1, <2>2, <2>4, <2>5, <2>6 DEF tag
  <1>2. UpdateInv => ShownWasTold
    BY <1>1 DEF ShownWasTold, UpdateInv, Told, Shown
  <1>3. QED
    BY <1>2, UpdateInvariant, PTL

-----------------------------------------------------------------------------
(* The configuration.                                                      *)

DialogState == [stage : {"closed", "open", "writing", "written", "asking"},
                cfg : Config, new : Valid]

AtMostOne(S, T) == S = {} \/ \E c \in T : S = {c}

\* SettingsTypeOK without cardinalities.
SettingsTyped ==
    /\ mac \in BOOLEAN /\ welcomed \in BOOLEAN /\ leftover \in BOOLEAN
    /\ AtMostOne(file, Config) /\ AtMostOne(toggle, Config) /\ AtMostOne(saved, Config)
    /\ AtMostOne(served, {c.proxy : c \in Valid})
    /\ phase \in {"down", "saving", "first", "tray", "console"}
    /\ config \in Config
    /\ dialog \in [Dialog -> DialogState]
    /\ stopping \in Nat /\ starting \in Nat /\ stopping + starting <= MaxRestarts
    /\ harmed \in BOOLEAN /\ overtaken \in BOOLEAN /\ declined \in BOOLEAN

\* Dialogs, the menu item and restarts are there only with the menu; a proxy runs
\* only once the configuration is saved; off macOS one thread does all saves.
Threads ==
    /\ phase # "tray" => /\ \A d \in Dialog : dialog[d].stage = "closed"
                         /\ toggle = {} /\ stopping = 0 /\ starting = 0
    /\ phase \in {"down", "saving"} => served = {}
    /\ ~mac => toggle = {} /\ \A d, e \in Saving : d = e

\* Unless a save was harmed: before the application runs, the file is the saved
\* one, or being rewritten with it; while one saves, nobody else does, and
\* the file is empty until the write has ended; and otherwise all agree.
Unharmed ==
    /\ phase = "down" /\ saved # {} => file = saved
    /\ phase = "saving" => file = {} /\ (saved # {} => config \in saved)
    /\ \A d \in Saving :
          /\ Saving = {d} /\ toggle = {}
          /\ dialog[d].stage = "writing" => file = {}
          /\ dialog[d].stage = "written" =>
                 file = {dialog[d].new} /\ saved = {dialog[d].new}
    /\ toggle # {} => Saving = {} /\ file = {} /\ toggle = {config}

\* Whatever was harmed, what the file holds after a save is the last save's, so
\* that a dialog that finds its own there has found what was saved.
Kept ==
    /\ ~harmed => Unharmed
    /\ (\E d \in Dialog : dialog[d].stage = "written") => file = {} \/ file = saved
    /\ SettingsKept

\* LinkServed, where restarts that have yet to stop the proxy excuse a link that
\* is not served, and those that have stopped it do not.
LinkKept ==
    served # {} /\ Link \notin served =>
        \/ stopping > 0
        \/ \E d \in Dialog : dialog[d].stage = "asking"
        \/ declined \/ overtaken

SettingsInv == SettingsTyped /\ Threads /\ Kept /\ LinkKept

-----------------------------------------------------------------------------
(* Values.                                                                 *)

LEMMA DefaultValid == Default \in Valid /\ Default \in Config /\ Closed \in DialogState
    BY DEF Default, Valid, Config, Closed, DialogState

LEMMA LoadedConfig ==
    ASSUME AtMostOne(file, Config)
    PROVE  /\ Loaded \subseteq Config
           /\ file # {} => Loaded = file
    BY DefaultValid DEF AtMostOne, Loaded

\* start_proxy with a configuration it refuses starts nothing.
LEMMA StartType ==
    ASSUME NEW c \in Config
    PROVE  AtMostOne({c.proxy} \ {"bad"}, {v.proxy : v \in Valid})
    BY DEF AtMostOne, Valid

LEMMA WrittenType ==
    ASSUME NEW c \in Config, NEW f \in Written(c)
    PROVE  AtMostOne(f, Config) /\ f \in {{}, {c}} /\ (file = {} => f = {c})
    BY DEF Written, AtMostOne

LEMMA SettingsInitially == Init => SettingsInv
  <1> SUFFICES ASSUME Init PROVE SettingsInv
    OBVIOUS
  <1>1. /\ mac \in BOOLEAN /\ welcomed \in BOOLEAN
        /\ file \in {{}} \cup {{c} : c \in Config}
        /\ phase = "down" /\ config = Default /\ served = {} /\ leftover = FALSE
        /\ dialog = [d \in Dialog |-> Closed]
        /\ toggle = {} /\ stopping = 0 /\ starting = 0
        /\ saved = file
        /\ harmed = FALSE /\ overtaken = FALSE /\ declined = FALSE
    BY DEF Init, SettingsInit
  <1>2. AtMostOne(file, Config)
    BY <1>1 DEF AtMostOne
  <1>3. SettingsTyped
    <2>1. AtMostOne(served, {c.proxy : c \in Valid}) /\ AtMostOne(toggle, Config)
      BY <1>1 DEF AtMostOne
    <2>2. dialog \in [Dialog -> DialogState]
      BY <1>1, DefaultValid
    <2>3. stopping \in Nat /\ starting \in Nat /\ stopping + starting <= MaxRestarts
      BY <1>1, SettingsAssumption
    <2>4. QED
      BY <1>1, <1>2, <2>1, <2>2, <2>3, DefaultValid DEF SettingsTyped
  <1>4. \A d \in Dialog : dialog[d].stage = "closed"
    BY <1>1 DEF Closed
  <1>5. Threads /\ Kept /\ LinkKept
    BY <1>1, <1>4 DEF Threads, Kept, Unharmed, SettingsKept, LinkKept, Saving
  <1>6. QED
    BY <1>3, <1>5 DEF SettingsInv

-----------------------------------------------------------------------------
(* What the steps of Settings do, as far as the invariant tells them apart. *)

LEMMA BecomesType ==
    ASSUME SettingsTyped, NEW d \in Dialog, NEW record \in DialogState, Becomes(d, record)
    PROVE  /\ dialog' \in [Dialog -> DialogState]
           /\ dialog'[d] = record
           /\ \A e \in Dialog \ {d} : dialog'[e] = dialog[e]
    BY DEF SettingsTyped, Becomes

LEMMA DialogStateType ==
    ASSUME SettingsTyped, NEW d \in Dialog
    PROVE  /\ dialog[d] \in DialogState
           /\ dialog[d].cfg \in Config /\ dialog[d].new \in Valid /\ dialog[d].new \in Config
           /\ \A stage \in {"closed", "open", "writing", "written", "asking"} :
                 \A cfg \in Config, new \in Valid :
                    /\ [dialog[d] EXCEPT !.stage = stage] \in DialogState
                    /\ [dialog[d] EXCEPT !.stage = stage, !.new = new] \in DialogState
                    /\ [Closed EXCEPT !.stage = stage] \in DialogState
                    /\ [Closed EXCEPT !.stage = stage, !.cfg = cfg] \in DialogState
                    /\ [Closed EXCEPT !.stage = stage, !.new = new] \in DialogState
  <1>1. dialog[d] \in DialogState
    BY DEF SettingsTyped
  <1>2. dialog[d].cfg \in Config /\ dialog[d].new \in Valid /\ dialog[d].new \in Config
    BY <1>1 DEF DialogState, Valid
  <1>3. ASSUME NEW stage \in {"closed", "open", "writing", "written", "asking"},
               NEW cfg \in Config, NEW new \in Valid
        PROVE  /\ [dialog[d] EXCEPT !.stage = stage] \in DialogState
               /\ [dialog[d] EXCEPT !.stage = stage, !.new = new] \in DialogState
    BY <1>1 DEF DialogState
  <1>4. ASSUME NEW stage \in {"closed", "open", "writing", "written", "asking"},
               NEW cfg \in Config, NEW new \in Valid
        PROVE  /\ [Closed EXCEPT !.stage = stage] \in DialogState
               /\ [Closed EXCEPT !.stage = stage, !.cfg = cfg] \in DialogState
               /\ [Closed EXCEPT !.stage = stage, !.new = new] \in DialogState
    BY DefaultValid DEF DialogState, Closed
  <1>5. QED
    BY <1>1, <1>2, <1>3, <1>4

\* The process: Load, Boot, Welcome, Die.
LEMMA LoadKeeps == ASSUME SettingsInv, Load PROVE SettingsInv'
  <1>1. /\ phase = "down" /\ phase' = "saving" /\ config' \in Loaded /\ file' = {}
        /\ UNCHANGED <<mac, welcomed, served, leftover, dialog, toggle, stopping, starting,
                      saved, harmed, overtaken, declined>>
    BY DEF Load, Truncate, controls, ghosts, proxies
  <1>2. config' \in Config /\ (file # {} => config' \in file) /\ AtMostOne(file', Config)
    BY <1>1, LoadedConfig DEF SettingsInv, SettingsTyped, AtMostOne
  <1>3. SettingsTyped'
    BY <1>1, <1>2 DEF SettingsInv, SettingsTyped
  <1>4. Saving = {} /\ Saving' = {}
    BY <1>1 DEF SettingsInv, Threads, Saving
  <1>5. Threads' /\ LinkKept'
    BY <1>1 DEF SettingsInv, Threads, LinkKept, Saving
  <1>6. Kept'
    BY <1>1, <1>2, <1>4 DEF SettingsInv, Kept, Unharmed, SettingsKept, Threads
  <1>7. QED
    BY <1>3, <1>5, <1>6 DEF SettingsInv

LEMMA BootKeeps == ASSUME SettingsInv, Boot PROVE SettingsInv'
  <1>1. /\ phase = "saving" /\ phase' \in {"console", "tray", "first"}
        /\ file' = {config} /\ StartProxy(config)
        /\ UNCHANGED <<mac, welcomed, config, dialog, toggle, stopping, starting, saved, harmed>>
    BY DEF Boot, controls
  <1>2. served = {} /\ config \in Config
    BY <1>1 DEF SettingsInv, SettingsTyped, Threads
  <1>3. /\ served' \in {{}, {config.proxy} \ {"bad"}} /\ overtaken' = FALSE /\ declined' = FALSE
        /\ UNCHANGED leftover
    BY <1>1, <1>2 DEF StartProxy
  <1>4. AtMostOne(served', {c.proxy : c \in Valid}) /\ AtMostOne(file', Config)
    BY <1>1, <1>2, <1>3, StartType DEF AtMostOne
  <1>5. SettingsTyped'
    BY <1>1, <1>3, <1>4 DEF SettingsInv, SettingsTyped
  <1>6. Saving = {} /\ Saving' = {} /\ toggle = {}
    BY <1>1 DEF SettingsInv, Threads, Saving
  <1>7. Threads' /\ LinkKept'
    BY <1>1, <1>3 DEF SettingsInv, Threads, LinkKept, Link, Saving
  <1>8. ~harmed /\ saved # {} => saved = {config}
    BY <1>1 DEF SettingsInv, SettingsTyped, Kept, Unharmed, AtMostOne
  <1>9. Kept'
    <2>1. \A d \in Dialog : dialog'[d].stage = "closed"
      BY <1>1 DEF SettingsInv, Threads
    <2>2. QED
      BY <1>1, <1>6, <1>8, <2>1 DEF SettingsInv, Kept, Unharmed, SettingsKept
  <1>10. QED
    BY <1>5, <1>7, <1>9 DEF SettingsInv

LEMMA WelcomeKeeps == ASSUME SettingsInv, Welcome PROVE SettingsInv'
  <1>1. /\ phase = "first" /\ phase' \in {"first", "tray"} /\ welcomed' = TRUE
        /\ UNCHANGED <<mac, file, config, served, leftover, dialog, toggle, stopping, starting,
                      saved, harmed, overtaken, declined>>
    BY DEF Welcome, controls, ghosts, store, proxies
  <1>2. SettingsTyped'
    BY <1>1 DEF SettingsInv, SettingsTyped
  <1>3. Saving = {} /\ Saving' = {} /\ toggle = {}
    BY <1>1 DEF SettingsInv, Threads, Saving
  <1>4. Threads' /\ LinkKept'
    BY <1>1, <1>3 DEF SettingsInv, Threads, LinkKept, Link
  <1>5. Kept'
    BY <1>1, <1>3 DEF SettingsInv, Kept, Unharmed, SettingsKept, Busy
  <1>6. QED
    BY <1>2, <1>4, <1>5 DEF SettingsInv

LEMMA DieKeeps == ASSUME SettingsInv, Die PROVE SettingsInv'
  <1>1. /\ phase # "down" /\ phase' = "down" /\ harmed' = (harmed \/ file = {})
        /\ config' = Default /\ served' = {} /\ leftover' = FALSE
        /\ dialog' = [d \in Dialog |-> Closed]
        /\ toggle' = {} /\ stopping' = 0 /\ starting' = 0
        /\ overtaken' = FALSE /\ declined' = FALSE
        /\ UNCHANGED <<mac, welcomed, file, saved>>
    BY DEF Die
  <1>2. SettingsTyped'
    <2>1. AtMostOne(served', {c.proxy : c \in Valid}) /\ AtMostOne(toggle', Config)
      BY <1>1 DEF AtMostOne
    <2>2. dialog' \in [Dialog -> DialogState] /\ config' \in Config
      BY <1>1, DefaultValid
    <2>3. stopping' \in Nat /\ starting' \in Nat /\ stopping' + starting' <= MaxRestarts
      BY <1>1, SettingsAssumption
    <2>4. QED
      BY <1>1, <2>1, <2>2, <2>3 DEF SettingsInv, SettingsTyped
  <1>3. \A d \in Dialog : dialog'[d].stage = "closed"
    BY <1>1 DEF Closed
  <1>4. Threads' /\ LinkKept' /\ Saving' = {}
    BY <1>1, <1>3 DEF Threads, LinkKept, Saving
  <1>5. ASSUME ~harmed, file # {}, saved # {} PROVE file = saved
    <2>1. CASE Busy
      BY <1>5, <2>1 DEF SettingsInv, Kept, Unharmed, Busy, Saving
    <2>2. CASE ~Busy
      <3>1. CASE phase = "saving"
        BY <1>5, <3>1 DEF SettingsInv, Kept, Unharmed
      <3>2. CASE phase \in {"first", "tray", "console"}
        BY <1>5, <2>2, <3>2 DEF SettingsInv, Kept, SettingsKept
      <3>3. QED
        BY <1>1, <3>1, <3>2 DEF SettingsInv, SettingsTyped
    <2>3. QED
      BY <2>1, <2>2
  <1>6. Kept'
    BY <1>1, <1>3, <1>4, <1>5 DEF SettingsInv, Kept, Unharmed, SettingsKept
  <1>7. QED
    BY <1>2, <1>4, <1>6 DEF SettingsInv

\* Restarts.
LEMMA RestartKeeps == ASSUME SettingsInv, Restart PROVE SettingsInv'
  <1>1. /\ phase = "tray" /\ stopping + starting < MaxRestarts /\ stopping' = stopping + 1
        /\ UNCHANGED <<mac, welcomed, phase, file, config, served, leftover, dialog, toggle, starting,
                      saved, harmed, overtaken, declined>>
    BY DEF Restart, RestartThread, Room, store, ghosts, proxies
  <1>2. SettingsTyped'
    BY <1>1, SettingsAssumption DEF SettingsInv, SettingsTyped
  <1>3. Threads' /\ Kept'
    BY <1>1 DEF SettingsInv, Threads, Kept, Unharmed, SettingsKept, Saving, Busy
  <1>4. LinkKept'
    BY <1>1 DEF SettingsInv, SettingsTyped, LinkKept, Link
  <1>5. QED
    BY <1>2, <1>3, <1>4 DEF SettingsInv

\* A configuration read again is the one in _config already, or the file is one
\* of which nothing is claimed.
LEMMA RestartReloadedKeeps == ASSUME SettingsInv, RestartReloaded PROVE SettingsInv'
  <1>1. /\ phase = "tray" /\ mac
        /\ stopping + starting < MaxRestarts /\ stopping' = stopping + 1
        /\ config' \in Loaded /\ harmed' = (harmed \/ Busy)
        /\ UNCHANGED <<mac, welcomed, phase, file, served, leftover, dialog, toggle, starting,
                      saved, overtaken, declined>>
    BY DEF RestartReloaded, RestartThread, Room, proxies
  <1>2. config' \in Config /\ (file # {} => config' \in file)
    BY <1>1, LoadedConfig DEF SettingsInv, SettingsTyped
  <1>3. SettingsTyped'
    BY <1>1, <1>2, SettingsAssumption DEF SettingsInv, SettingsTyped
  <1>4. Threads' /\ Saving' = Saving
    BY <1>1 DEF SettingsInv, Threads, Saving
  <1>5. LinkKept'
    BY <1>1 DEF SettingsInv, SettingsTyped, LinkKept
  <1>6. ~harmed' => ~Busy /\ ~harmed
    BY <1>1
  <1>7. Kept'
    BY <1>1, <1>2, <1>4, <1>6 DEF SettingsInv, Kept, Unharmed, SettingsKept, Busy
  <1>8. QED
    BY <1>3, <1>4, <1>5, <1>7 DEF SettingsInv

LEMMA StopKeeps == ASSUME SettingsInv, Stop PROVE SettingsInv'
  <1>1. /\ stopping > 0 /\ stopping' = stopping - 1 /\ starting' = starting + 1
        /\ served' = {} /\ leftover' \in {leftover, leftover \/ served # {}}
        /\ UNCHANGED <<mac, welcomed, phase, file, config, dialog, toggle,
                      saved, harmed, overtaken, declined>>
    BY DEF Stop, store, ghosts
  <1>2. phase = "tray"
    BY <1>1 DEF SettingsInv, Threads
  <1>3. AtMostOne(served', {c.proxy : c \in Valid}) /\ leftover' \in BOOLEAN
    BY <1>1 DEF AtMostOne, SettingsInv, SettingsTyped
  <1>4. SettingsTyped'
    BY <1>1, <1>3, SettingsAssumption DEF SettingsInv, SettingsTyped
  <1>5. Threads' /\ Kept' /\ LinkKept'
    BY <1>1, <1>2 DEF SettingsInv, Threads, Kept, Unharmed, SettingsKept, LinkKept, Saving, Busy
  <1>6. QED
    BY <1>4, <1>5 DEF SettingsInv

\* A proxy that runs already is left as it is; the restart that is to make up
\* for a link that is not its own has not stopped it yet.
LEMMA StartAgainKeeps == ASSUME SettingsInv, StartAgain PROVE SettingsInv'
  <1>1. /\ starting > 0 /\ starting' = starting - 1 /\ StartProxy(config)
        /\ UNCHANGED <<mac, welcomed, phase, file, config, dialog, toggle, stopping,
                      saved, harmed>>
    BY DEF StartAgain, store
  <1>2. phase = "tray" /\ config \in Config
    BY <1>1 DEF SettingsInv, SettingsTyped, Threads
  <1>3. /\ \/ UNCHANGED <<served, overtaken, declined>>
           \/ /\ served' \in {{}, {config.proxy} \ {"bad"}}
              /\ overtaken' = FALSE /\ declined' = FALSE
        /\ UNCHANGED leftover
    BY <1>1 DEF StartProxy
  <1>4. AtMostOne(served', {c.proxy : c \in Valid})
    <2>1. CASE UNCHANGED served
      BY <2>1 DEF SettingsInv, SettingsTyped
    <2>2. CASE served' = {}
      BY <2>2 DEF AtMostOne
    <2>3. CASE served' = {config.proxy} \ {"bad"}
      BY <1>2, <2>3, StartType
    <2>4. QED
      BY <1>3, <2>1, <2>2, <2>3
  <1>5. starting' \in Nat /\ stopping' + starting' <= MaxRestarts
    BY <1>1, SettingsAssumption DEF SettingsInv, SettingsTyped
  <1>6. SettingsTyped'
    BY <1>1, <1>3, <1>4, <1>5 DEF SettingsInv, SettingsTyped
  <1>7. Threads' /\ Kept'
    BY <1>1, <1>2 DEF SettingsInv, Threads, Kept, Unharmed, SettingsKept, Saving, Busy
  <1>8. LinkKept'
    BY <1>1, <1>3 DEF SettingsInv, LinkKept, Link
  <1>9. QED
    BY <1>6, <1>7, <1>8 DEF SettingsInv

LEMMA LeftoverEndsKeeps == ASSUME SettingsInv, LeftoverEnds PROVE SettingsInv'
  <1>1. /\ leftover' = FALSE
        /\ UNCHANGED <<mac, welcomed, phase, file, config, served, dialog, toggle, stopping,
                      starting, saved, harmed, overtaken, declined>>
    BY DEF LeftoverEnds, store, controls, ghosts
  <1>2. SettingsTyped'
    BY <1>1 DEF SettingsInv, SettingsTyped
  <1>3. Threads' /\ Kept' /\ LinkKept'
    BY <1>1 DEF SettingsInv, Threads, Kept, Unharmed, SettingsKept, LinkKept, Link, Saving, Busy
  <1>4. QED
    BY <1>2, <1>3 DEF SettingsInv

\* Dialogs that open or close without a save, or ask, change nothing that is kept.
LEMMA QuietDialog ==
    ASSUME SettingsInv, NEW d \in Dialog, NEW record \in DialogState, Becomes(d, record),
           phase = "tray", dialog[d].stage \in {"closed", "open", "asking"},
           record.stage \in {"closed", "open", "asking"},
           UNCHANGED <<mac, welcomed, phase, file, config, served, leftover, toggle, starting,
                       saved, overtaken>>,
           stopping' \in Nat, stopping' + starting' <= MaxRestarts, declined' \in BOOLEAN,
           harmed' \in BOOLEAN, harmed => harmed',
           dialog[d].stage = "asking" => stopping' > 0 \/ declined',
           stopping' >= stopping, declined => declined'
    PROVE  SettingsInv'
  <1>1. /\ dialog' \in [Dialog -> DialogState] /\ dialog'[d] = record
        /\ \A e \in Dialog \ {d} : dialog'[e] = dialog[e]
    BY BecomesType DEF SettingsInv
  <1>2. SettingsTyped'
    BY <1>1 DEF SettingsInv, SettingsTyped
  <1>3. Saving' = Saving /\ \A e \in Saving : dialog'[e] = dialog[e]
    BY <1>1 DEF Saving
  <1>4. Threads'
    BY <1>3 DEF SettingsInv, Threads
  <1>5. /\ ~harmed' => ~harmed
        /\ \A e \in Dialog : dialog'[e].stage = "written" => dialog[e].stage = "written"
    BY <1>1
  <1>6. Kept'
    BY <1>3, <1>5 DEF SettingsInv, Kept, Unharmed, SettingsKept, Busy
  <1>7. LinkKept'
    <2>1. ASSUME NEW e \in Dialog, dialog[e].stage = "asking"
          PROVE  dialog'[e].stage = "asking" \/ stopping' > 0 \/ declined'
      BY <1>1, <2>1
    <2>2. QED
      BY <2>1 DEF SettingsInv, SettingsTyped, LinkKept, Link
  <1>8. QED
    BY <1>2, <1>4, <1>6, <1>7 DEF SettingsInv

LEMMA OpenKeeps == ASSUME SettingsInv, NEW d \in Dialog, Open(d) PROVE SettingsInv'
  <1> DEFINE record == [Closed EXCEPT !.stage = "open", !.cfg = config]
  <1>1. record \in DialogState /\ record.stage = "open"
    BY DialogStateType DEF SettingsInv, SettingsTyped, Closed
  <1>2. /\ phase = "tray" /\ dialog[d].stage = "closed" /\ Becomes(d, record)
        /\ UNCHANGED <<mac, welcomed, phase, file, config, served, leftover, toggle, stopping, starting,
                      saved, harmed, overtaken, declined>>
    BY DEF Open, store, ghosts, proxies
  <1> HIDE DEF record
  <1>3. QED
    BY <1>1, <1>2, QuietDialog DEF SettingsInv, SettingsTyped

LEMMA OpenLoadedKeeps == ASSUME SettingsInv, NEW d \in Dialog, OpenLoaded(d) PROVE SettingsInv'
  <1>1. PICK c \in Loaded : Becomes(d, [Closed EXCEPT !.stage = "open", !.cfg = c])
    BY DEF OpenLoaded
  <1> DEFINE record == [Closed EXCEPT !.stage = "open", !.cfg = c]
  <1>2. c \in Config
    BY LoadedConfig DEF SettingsInv, SettingsTyped
  <1>3. record \in DialogState /\ record.stage = "open"
    BY <1>2, DialogStateType DEF SettingsInv, Closed
  <1>4. /\ phase = "tray" /\ dialog[d].stage = "closed" /\ harmed' = (harmed \/ Busy)
        /\ UNCHANGED <<mac, welcomed, phase, file, config, served, leftover, toggle, stopping, starting,
                      saved, overtaken, declined>>
    BY DEF OpenLoaded, store, proxies
  <1>5. Becomes(d, record) /\ harmed' \in BOOLEAN /\ (harmed => harmed')
    BY <1>1, <1>4
  <1> HIDE DEF record
  <1>6. QED
    BY <1>3, <1>4, <1>5, QuietDialog DEF SettingsInv, SettingsTyped

LEMMA CancelKeeps == ASSUME SettingsInv, NEW d \in Dialog, Cancel(d) PROVE SettingsInv'
  <1>1. /\ dialog[d].stage = "open" /\ Becomes(d, Closed)
        /\ UNCHANGED <<mac, welcomed, phase, file, config, served, leftover, toggle, stopping, starting,
                      saved, harmed, overtaken, declined>>
    BY DEF Cancel, store, ghosts, proxies
  <1>2. phase = "tray"
    BY <1>1 DEF SettingsInv, Threads
  <1>3. Closed \in DialogState /\ Closed.stage = "closed"
    BY DefaultValid DEF Closed
  <1>4. QED
    BY <1>1, <1>2, <1>3, QuietDialog DEF SettingsInv, SettingsTyped

\* The answer to the question either starts a restart or is a no.
LEMMA AnswerKeeps == ASSUME SettingsInv, NEW d \in Dialog, Answer(d) PROVE SettingsInv'
  <1>1. /\ dialog[d].stage = "asking" /\ Becomes(d, Closed)
        /\ UNCHANGED <<mac, welcomed, phase, file, config, served, leftover, toggle, starting,
                      saved, harmed, overtaken>>
    BY DEF Answer, store, proxies
  <1>2. \/ stopping + starting < MaxRestarts /\ stopping' = stopping + 1 /\ declined' = declined
        \/ declined' = TRUE /\ stopping' = stopping
    BY DEF Answer, RestartThread, Room
  <1>3. phase = "tray"
    BY <1>1 DEF SettingsInv, Threads
  <1>4. Closed \in DialogState /\ Closed.stage = "closed"
    BY DefaultValid DEF Closed
  <1>5. /\ stopping' \in Nat /\ stopping' + starting' <= MaxRestarts /\ stopping' >= stopping
        /\ declined' \in BOOLEAN /\ (declined => declined')
        /\ stopping' > 0 \/ declined'
    <2>1. /\ stopping \in Nat /\ starting \in Nat /\ stopping + starting <= MaxRestarts
          /\ MaxRestarts \in Nat /\ starting' = starting /\ declined \in BOOLEAN
      BY <1>1, SettingsAssumption DEF SettingsInv, SettingsTyped
    <2>2. CASE stopping + starting < MaxRestarts /\ stopping' = stopping + 1 /\ declined' = declined
      BY <2>1, <2>2
    <2>3. CASE declined' = TRUE /\ stopping' = stopping
      BY <2>1, <2>3
    <2>4. QED
      BY <1>2, <2>2, <2>3
  <1>6. QED
    BY <1>1, <1>3, <1>4, <1>5, QuietDialog DEF SettingsInv, SettingsTyped

\* A dialog truncates the file: nobody else does, or the save is crossed.
LEMMA SaveStarts ==
    ASSUME SettingsInv, NEW d \in Dialog, NEW record \in DialogState, Becomes(d, record),
           dialog[d].stage = "open", record.stage = "writing", file' = {},
           UNCHANGED <<mac, welcomed, phase, config, served, leftover, toggle, stopping, starting,
                       saved, overtaken, declined>>,
           harmed' \in BOOLEAN, ~harmed' => ~harmed /\ Saving = {} /\ toggle = {},
           ~mac => Saving = {}
    PROVE  SettingsInv'
  <1>1. /\ dialog' \in [Dialog -> DialogState] /\ dialog'[d] = record
        /\ \A e \in Dialog \ {d} : dialog'[e] = dialog[e]
    BY BecomesType DEF SettingsInv
  <1>2. phase = "tray" /\ AtMostOne(file', Config)
    BY DEF SettingsInv, Threads, AtMostOne
  <1>3. SettingsTyped'
    BY <1>1, <1>2 DEF SettingsInv, SettingsTyped
  <1>4. Saving' = Saving \cup {d}
    BY <1>1 DEF Saving
  <1>5. Threads'
    BY <1>2, <1>4 DEF SettingsInv, Threads
  <1>6. Busy'
    BY <1>4 DEF Busy
  <1>7. Kept'
    BY <1>1, <1>2, <1>4, <1>6 DEF Kept, Unharmed, SettingsKept
  <1>8. LinkKept'
    BY <1>1 DEF SettingsInv, LinkKept, Link
  <1>9. QED
    BY <1>3, <1>5, <1>7, <1>8 DEF SettingsInv

LEMMA SaveKeeps == ASSUME SettingsInv, NEW d \in Dialog, Save(d) PROVE SettingsInv'
  <1>1. PICK new \in Valid : Becomes(d, [dialog[d] EXCEPT !.stage = "writing", !.new = new])
    BY DEF Save
  <1> DEFINE record == [dialog[d] EXCEPT !.stage = "writing", !.new = new]
  <1>2. record \in DialogState
    BY DialogStateType, DefaultValid DEF SettingsInv
  <1>3. record.stage = "writing"
    <2>1. dialog[d] \in DialogState
      BY DEF SettingsInv, SettingsTyped
    <2>2. QED
      BY <2>1 DEF DialogState
  <1>4. /\ ~mac /\ Saving = {} /\ dialog[d].stage = "open" /\ file' = {}
        /\ UNCHANGED <<mac, welcomed, phase, config, served, leftover, toggle, stopping, starting,
                      saved, harmed, overtaken, declined>>
    BY DEF Save, Truncate, ghosts, proxies
  <1>5. toggle = {} /\ harmed \in BOOLEAN
    BY <1>4 DEF SettingsInv, Threads, SettingsTyped
  <1> HIDE DEF record
  <1>6. Becomes(d, record)
    BY <1>1 DEF record
  <1>7. QED
    BY <1>2, <1>3, <1>4, <1>5, <1>6, SaveStarts

LEMMA SaveAnswersKeeps == ASSUME SettingsInv, NEW d \in Dialog, SaveAnswers(d) PROVE SettingsInv'
  <1>1. PICK new \in Valid : Becomes(d, [Closed EXCEPT !.stage = "writing", !.new = new])
    BY DEF SaveAnswers
  <1> DEFINE record == [Closed EXCEPT !.stage = "writing", !.new = new]
  <1>2. record \in DialogState /\ record.stage = "writing"
    BY DialogStateType, DefaultValid DEF SettingsInv, Closed
  <1>3. /\ mac /\ dialog[d].stage = "open" /\ file' = {} /\ harmed' = (harmed \/ Busy)
        /\ UNCHANGED <<mac, welcomed, phase, config, served, leftover, toggle, stopping, starting,
                      saved, overtaken, declined>>
    BY DEF SaveAnswers, Truncate, proxies
  <1>4. harmed' \in BOOLEAN /\ (~harmed' => ~harmed /\ Saving = {} /\ toggle = {})
    BY <1>3 DEF Busy
  <1> HIDE DEF record
  <1>5. Becomes(d, record)
    BY <1>1 DEF record
  <1>6. QED
    BY <1>2, <1>3, <1>4, <1>5, SaveStarts

LEMMA SaveEndsKeeps == ASSUME SettingsInv, NEW d \in Dialog, SaveEnds(d) PROVE SettingsInv'
  <1> DEFINE new == dialog[d].new
             record == [dialog[d] EXCEPT !.stage = "written"]
  <1>1. /\ dialog[d].stage = "writing" /\ file' \in Written(new) /\ saved' = {new}
        /\ Becomes(d, record)
        /\ UNCHANGED <<mac, welcomed, phase, config, served, leftover, toggle, stopping, starting,
                      harmed, overtaken, declined>>
    BY DEF SaveEnds, proxies
  <1>2. record \in DialogState /\ record.stage = "written" /\ record.new = new /\ new \in Config
    <2>1. dialog[d] \in DialogState /\ new \in Config
      BY DialogStateType DEF SettingsInv
    <2>2. QED
      BY <2>1 DEF DialogState
  <1> HIDE DEF record, new
  <1>3. AtMostOne(file', Config) /\ file' \in {{}, {new}} /\ (file = {} => file' = {new})
    BY <1>1, <1>2, WrittenType
  <1>4. /\ dialog' \in [Dialog -> DialogState] /\ dialog'[d] = record
        /\ \A e \in Dialog \ {d} : dialog'[e] = dialog[e]
    BY <1>1, <1>2, BecomesType DEF SettingsInv
  <1>5. SettingsTyped'
    BY <1>1, <1>2, <1>3, <1>4 DEF SettingsInv, SettingsTyped, AtMostOne
  <1>6. phase = "tray" /\ d \in Saving /\ Saving' = Saving
    BY <1>1, <1>2, <1>4 DEF SettingsInv, Threads, Saving
  <1>7. Threads'
    BY <1>1, <1>6 DEF SettingsInv, Threads
  <1>8. ~harmed => Saving = {d} /\ toggle = {} /\ file = {}
    BY <1>1, <1>6 DEF SettingsInv, Kept, Unharmed
  <1>9. Kept'
    BY <1>1, <1>2, <1>3, <1>4, <1>6, <1>8 DEF Kept, Unharmed, SettingsKept, Busy
  <1>10. LinkKept'
    BY <1>1, <1>4 DEF SettingsInv, LinkKept, Link
  <1>11. QED
    BY <1>5, <1>7, <1>9, <1>10 DEF SettingsInv

LEMMA SaveFailsKeeps == ASSUME SettingsInv, NEW d \in Dialog, SaveFails(d) PROVE SettingsInv'
  <1> DEFINE record == IF mac THEN Closed
                       ELSE [Closed EXCEPT !.stage = "open", !.cfg = dialog[d].cfg]
  <1>1. /\ dialog[d].stage = "writing" /\ Becomes(d, record) /\ harmed' = TRUE
        /\ UNCHANGED <<mac, welcomed, phase, file, config, served, leftover, toggle, stopping, starting,
                      saved, overtaken, declined>>
    BY DEF SaveFails, store, proxies
  <1>2. record \in DialogState /\ record.stage \in {"closed", "open"}
    BY DialogStateType, DefaultValid DEF SettingsInv, Closed
  <1> HIDE DEF record
  <1>3. /\ dialog' \in [Dialog -> DialogState] /\ dialog'[d] = record
        /\ \A e \in Dialog \ {d} : dialog'[e] = dialog[e]
    BY <1>1, <1>2, BecomesType DEF SettingsInv
  <1>4. SettingsTyped'
    BY <1>1, <1>3 DEF SettingsInv, SettingsTyped
  <1>5. phase = "tray" /\ Saving' \subseteq Saving
    BY <1>1, <1>2, <1>3 DEF SettingsInv, Threads, Saving
  <1>6. Threads'
    BY <1>1, <1>5 DEF SettingsInv, Threads
  <1>7. Kept'
    BY <1>1, <1>2, <1>3 DEF SettingsInv, Kept, SettingsKept
  <1>8. LinkKept'
    BY <1>1, <1>3 DEF SettingsInv, LinkKept, Link
  <1>9. QED
    BY <1>4, <1>6, <1>7, <1>8 DEF SettingsInv

\* What _config takes over is what the file holds and what was saved last: the
\* file has not been touched since, or it holds the same.
LEMMA AdoptKeeps == ASSUME SettingsInv, NEW d \in Dialog, Adopt(d) PROVE SettingsInv'
  <1> DEFINE new == dialog[d].new
             record == IF ProxyChanged(d) THEN [Closed EXCEPT !.stage = "asking"] ELSE Closed
  <1>1. /\ dialog[d].stage = "written" /\ config' = new /\ Becomes(d, record)
        /\ harmed' = (harmed /\ (Saving # {d} \/ toggle # {} \/ file # {new}))
        /\ overtaken' = (overtaken \/ (~mac /\ dialog[d].cfg # config))
        /\ UNCHANGED <<mac, welcomed, phase, file, served, leftover, toggle, stopping, starting,
                      saved, declined>>
    BY DEF Adopt, proxies
  <1>2. record \in DialogState /\ record.stage \in {"closed", "asking"} /\ new \in Config
    BY DialogStateType, DefaultValid DEF SettingsInv, Closed
  <1>3. ProxyChanged(d) => record.stage = "asking"
    BY DEF Closed
  <1> HIDE DEF record
  <1>4. /\ dialog' \in [Dialog -> DialogState] /\ dialog'[d] = record
        /\ \A e \in Dialog \ {d} : dialog'[e] = dialog[e]
    BY <1>1, <1>2, BecomesType DEF SettingsInv
  <1>5. harmed' \in BOOLEAN /\ overtaken' \in BOOLEAN
    BY <1>1 DEF SettingsInv, SettingsTyped
  <1>6. SettingsTyped'
    BY <1>1, <1>2, <1>4, <1>5 DEF SettingsInv, SettingsTyped
  <1>7. phase = "tray" /\ d \in Saving /\ Saving' = Saving \ {d}
    BY <1>1, <1>2, <1>4 DEF SettingsInv, Threads, Saving
  <1>8. Threads'
    BY <1>1, <1>7 DEF SettingsInv, Threads
  <1>9. ~harmed' => Saving = {d} /\ toggle = {} /\ file = {new} /\ saved = {new}
    <2>1. CASE ~harmed
      BY <1>1, <1>7, <2>1 DEF SettingsInv, Kept, Unharmed
    <2>2. CASE Saving = {d} /\ toggle = {} /\ file = {new}
      BY <1>1, <2>2 DEF SettingsInv, Kept
    <2>3. QED
      BY <1>1, <2>1, <2>2
  <1>10. Kept'
    <2>1. ~harmed' => Unharmed'
      BY <1>1, <1>7, <1>9 DEF Unharmed
    <2>2. SettingsKept'
      BY <1>1, <1>9 DEF SettingsKept
    <2>3. (\E e \in Dialog : dialog'[e].stage = "written") => file' = {} \/ file' = saved'
      BY <1>1 DEF SettingsInv, Kept
    <2>4. QED
      BY <2>1, <2>2, <2>3 DEF Kept
  <1>11. LinkKept'
    <2>1. CASE ProxyChanged(d)
      BY <1>3, <1>4, <2>1 DEF LinkKept
    <2>2. CASE ~ProxyChanged(d) /\ dialog[d].cfg # config
      BY <1>1, <2>2 DEF LinkKept, ProxyChanged
    <2>3. CASE ~ProxyChanged(d) /\ dialog[d].cfg = config
      <3>1. config'.proxy = config.proxy
        BY <1>1, <2>3 DEF ProxyChanged
      <3>2. \A e \in Dialog : dialog[e].stage = "asking" => dialog'[e].stage = "asking"
        BY <1>1, <1>4
      <3>3. overtaken => overtaken'
        BY <1>1
      <3>4. QED
        BY <1>1, <3>1, <3>2, <3>3 DEF SettingsInv, LinkKept, Link
    <2>4. QED
      BY <2>1, <2>2, <2>3
  <1>12. QED
    BY <1>6, <1>8, <1>10, <1>11 DEF SettingsInv

\* The menu item of macOS.
LEMMA ToggleKeeps == ASSUME SettingsInv, Toggle PROVE SettingsInv'
  <1>1. /\ phase = "tray" /\ mac /\ toggle = {}
        /\ config' = [config EXCEPT !.updates = ~@] /\ toggle' = {config'}
        /\ file' = {} /\ harmed' = (harmed \/ Busy)
        /\ UNCHANGED <<mac, welcomed, phase, served, leftover, dialog, stopping, starting,
                      saved, overtaken, declined>>
    BY DEF Toggle, Truncate, proxies
  <1>2. config' \in Config /\ config'.proxy = config.proxy
    BY <1>1 DEF SettingsInv, SettingsTyped, Config
  <1>3. AtMostOne(file', Config) /\ AtMostOne(toggle', Config)
    BY <1>1, <1>2 DEF AtMostOne
  <1>4. SettingsTyped'
    BY <1>1, <1>2, <1>3 DEF SettingsInv, SettingsTyped
  <1>5. Saving' = Saving /\ (~harmed' => ~harmed /\ Saving = {})
    BY <1>1 DEF Saving, Busy
  <1>6. Threads' /\ LinkKept'
    BY <1>1, <1>2, <1>5 DEF SettingsInv, Threads, LinkKept, Link
  <1>7. Busy'
    BY <1>1 DEF Busy
  <1>8. Kept'
    BY <1>1, <1>5, <1>7 DEF Kept, Unharmed, SettingsKept
  <1>9. QED
    BY <1>4, <1>6, <1>8 DEF SettingsInv

LEMMA ToggleEndsKeeps == ASSUME SettingsInv, ToggleEnds PROVE SettingsInv'
  <1>1. PICK c \in toggle : file' \in Written(c)
    BY DEF ToggleEnds
  <1>2. /\ saved' = toggle /\ toggle' = {}
        /\ harmed' = (harmed /\ (Saving # {} \/ {config} # toggle \/ file' # toggle))
        /\ UNCHANGED <<mac, welcomed, phase, config, served, leftover, dialog, stopping, starting,
                      overtaken, declined>>
    BY DEF ToggleEnds, proxies
  <1>3. toggle = {c} /\ c \in Config
    BY DEF SettingsInv, SettingsTyped, AtMostOne
  <1>4. AtMostOne(file', Config) /\ file' \in {{}, {c}} /\ (file = {} => file' = {c})
    BY <1>1, <1>3, WrittenType
  <1>5. AtMostOne(toggle', Config) /\ harmed' \in BOOLEAN
    BY <1>2 DEF AtMostOne, SettingsInv, SettingsTyped
  <1>6. SettingsTyped'
    BY <1>2, <1>4, <1>5 DEF SettingsInv, SettingsTyped
  <1>7. phase = "tray" /\ Saving' = Saving
    BY <1>2, <1>3 DEF SettingsInv, Threads, Saving
  <1>8. Threads' /\ LinkKept'
    BY <1>2, <1>7 DEF SettingsInv, Threads, LinkKept, Link
  <1>9. ~harmed' => Saving = {} /\ {config} = toggle /\ file' = toggle
    <2>1. CASE ~harmed
      BY <1>3, <1>4, <2>1 DEF SettingsInv, Kept, Unharmed
    <2>2. CASE harmed
      BY <1>2, <2>2
    <2>3. QED
      BY <2>1, <2>2
  <1>10. Kept'
    BY <1>2, <1>3, <1>4, <1>7, <1>9 DEF Kept, Unharmed, SettingsKept, Busy
  <1>11. QED
    BY <1>6, <1>8, <1>10 DEF SettingsInv

LEMMA ToggleFailsKeeps == ASSUME SettingsInv, ToggleFails PROVE SettingsInv'
  <1>1. /\ toggle # {} /\ toggle' = {} /\ harmed' = TRUE
        /\ UNCHANGED <<mac, welcomed, phase, file, config, served, leftover, dialog, stopping,
                      starting, saved, overtaken, declined>>
    BY DEF ToggleFails, store, proxies
  <1>2. SettingsTyped'
    BY <1>1 DEF SettingsInv, SettingsTyped, AtMostOne
  <1>3. Threads' /\ Kept' /\ LinkKept'
    BY <1>1 DEF SettingsInv, Threads, Kept, SettingsKept, LinkKept, Link, Saving
  <1>4. QED
    BY <1>2, <1>3 DEF SettingsInv

-----------------------------------------------------------------------------
(* The theorems.                                                           *)

LEMMA SettingsStutter == ASSUME SettingsInv, UNCHANGED settingsVars PROVE SettingsInv'
  <1>1. UNCHANGED <<mac, welcomed, phase, file, config, served, leftover, dialog, toggle, stopping,
                    starting, saved, harmed, overtaken, declined>>
    BY DEF settingsVars, store, controls, ghosts, proxies
  <1>2. SettingsTyped'
    BY <1>1 DEF SettingsInv, SettingsTyped
  <1>3. Threads' /\ Kept' /\ LinkKept'
    BY <1>1 DEF SettingsInv, Threads, Kept, Unharmed, SettingsKept, LinkKept, Link, Saving, Busy
  <1>4. QED
    BY <1>2, <1>3 DEF SettingsInv

LEMMA SettingsInductive == SettingsInv /\ [Next]_vars => SettingsInv'
  <1> SUFFICES ASSUME SettingsInv, [Next]_vars PROVE SettingsInv'
    OBVIOUS
  <1>1. CASE Load \/ Boot \/ Welcome \/ Die
    BY <1>1, LoadKeeps, BootKeeps, WelcomeKeeps, DieKeeps
  <1>2. CASE TrayStep
    BY <1>2, RestartKeeps, RestartReloadedKeeps, StopKeeps, LeftoverEndsKeeps, StartAgainKeeps,
       ToggleKeeps, ToggleEndsKeeps, ToggleFailsKeeps, OpenKeeps, OpenLoadedKeeps, CancelKeeps, SaveKeeps, SaveAnswersKeeps,
       SaveEndsKeeps, SaveFailsKeeps, AdoptKeeps, AnswerKeeps DEF TrayStep, DialogStep
  <1>3. CASE UNCHANGED settingsVars
    BY <1>3, SettingsStutter
  <1>4. Load \/ Boot \/ Welcome \/ Die \/ TrayStep \/ UNCHANGED settingsVars
    BY DEF Next, Boots, Dies, Wakes, Answers, World, Starts, Uses, vars
  <1>5. QED
    BY <1>1, <1>2, <1>3, <1>4

\* Along every run the file, _config, the dialogs and the proxy are as said above.
THEOREM SettingsInvariant == Spec => []SettingsInv
    BY SettingsInitially, SettingsInductive, PTL DEF Spec

\* What was saved last is in the file and in _config, over crashes, restarts and
\* any number of dialogs, but for saves that were cut, failed or crossed.
THEOREM SavedIsKept == Spec => []SettingsKept
    BY SettingsInvariant, PTL DEF SettingsInv, Kept

\* tg_proxy_url hands out the link of the proxy that runs, but for the exceptions
\* LinkServed names, with any number of restarts under way and whatever proxies
\* outlive their stop.
THEOREM LinkIsServed == Spec => []LinkServed
  <1>1. SettingsInv => LinkServed
    BY SettingsAssumption DEF SettingsInv, SettingsTyped, LinkKept, LinkServed
  <1>2. QED
    BY <1>1, SettingsInvariant, PTL

LEMMA OneCardinality ==
    ASSUME NEW S, NEW T, AtMostOne(S, T)
    PROVE  S \subseteq T /\ Cardinality(S) <= 1
  <1>1. CASE S = {}
    <2>1. Cardinality({}) = 0
      BY FS_EmptySet
    <2>2. QED
      BY <1>1, <2>1
  <1>2. CASE \E c \in T : S = {c}
    <2>1. PICK c \in T : S = {c}
      BY <1>2
    <2>2. Cardinality({c}) = 1
      BY FS_Singleton
    <2>3. QED
      BY <2>1, <2>2
  <1>3. QED
    BY <1>1, <1>2 DEF AtMostOne

\* Every state of the application is of its type; in particular nothing is saved,
\* and no restart is under way, where there is no menu.
THEOREM DesktopTypeCorrect == Spec => []TypeOK
  <1>1. SettingsInv => SettingsTypeOK
    <2> SUFFICES ASSUME SettingsInv PROVE SettingsTypeOK
      OBVIOUS
    <2>1. /\ file \subseteq Config /\ Cardinality(file) <= 1
          /\ toggle \subseteq Config /\ Cardinality(toggle) <= 1
          /\ saved \subseteq Config /\ Cardinality(saved) <= 1
          /\ served \subseteq {c.proxy : c \in Valid} /\ Cardinality(served) <= 1
      BY OneCardinality DEF SettingsInv, SettingsTyped
    <2>2. ~mac => Cardinality(Saving) <= 1
      <3>1. ASSUME ~mac PROVE AtMostOne(Saving, Dialog)
        BY <3>1 DEF SettingsInv, Threads, AtMostOne, Saving
      <3>2. QED
        BY <3>1, OneCardinality
    <2>3. stopping \in 0 .. MaxRestarts /\ starting \in 0 .. MaxRestarts
      BY SettingsAssumption DEF SettingsInv, SettingsTyped
    <2>4. phase # "tray" => ~Busy /\ stopping + starting = 0
      BY DEF SettingsInv, Threads, Busy, Saving
    <2>5. {harmed, overtaken, declined} \subseteq BOOLEAN
      BY DEF SettingsInv, SettingsTyped
    <2>6. dialog \in [Dialog -> [stage : {"closed", "open", "writing", "written", "asking"},
                                cfg : Config, new : Valid]]
      BY DEF SettingsInv, SettingsTyped, DialogState
    <2>7. QED
      BY <2>1, <2>2, <2>3, <2>4, <2>5, <2>6 DEF SettingsInv, SettingsTyped, Threads, SettingsTypeOK
  <1>2. Init => scope \in Scope
    BY DEF Init
  <1>3. scope \in Scope /\ [Next]_vars => (scope \in Scope)'
    BY DEF Next, vars
  <1>4. QED
    BY <1>1, <1>2, <1>3, SettingsInvariant, UpdateTypeCorrect, PTL DEF Spec, TypeOK

=============================================================================
