---------------------------- MODULE StarterProofs ----------------------------
(***************************************************************************)
(* What the TLA+ proof system checks of the starter-seed jobs and of the   *)
(* fact inventories they share with whoever asks for one: for any courses, *)
(* clients, handlers, examples, versions, target and number of faults.     *)
(* Then of one run: how its slots are shared out, how far it goes and what *)
(* it says of itself, for any inventory, target and budget; of the         *)
(* candidates of a course's runs, for any proposals of the model; of the   *)
(* checks these pass, for any texts and any marks; and of the chunks all   *)
(* of it is read from, for any documents and any texts of a section.       *)
(*                                                                         *)
(* FactInv ties each caller to the build it awaits; JobInv ties the slot,  *)
(* the set of active courses and the stored status to the jobs.  SlotsInv  *)
(* counts the slots given and bounds them by the counters the code keeps;  *)
(* RunInv ties a run's plan to them, and what it accepted to how far it    *)
(* has come.  CandidateInv says whose embedding is where, and which keys   *)
(* a transaction must know of.  CaseInv says what the checks are asked.    *)
(* ChunkInv says which lines are in sections, and where the next piece is. *)
(***************************************************************************)
EXTENDS SyllabusChunks, StarterJobs, StarterRun, Candidates, ListLemmas, FiniteSetTheorems, WellFoundedInduction, TLAPS

\* A caller that started a build waits for one made from the chunks it read.
AwaitsOwn ==
    \A k \in Clients :
        call[k].at = "waiting" /\ ~call[k].joined => build[call[k].course] = call[k].chunks

FactInv == FactTypeOK /\ NobodyAwaitsNothing /\ AnsweredForOwnChunks /\ AwaitsOwn

\* A handler without a job remembers none; a job is of an indexed course, which
\* owns the slot, and an automatic one is announced.
JobHolds(j) ==
    IF Live(j)
    THEN /\ job[j].course \in Courses /\ index[job[j].course] # 0
         /\ slot = job[j].course
         /\ job[j].op = Automatic => job[j].course \in active
         /\ job[j].at = "queued" => job[j].op = Automatic
    ELSE job[j] = NoJob

JobInv ==
    /\ \A j \in Jobs : JobHolds(j)
    /\ slot # NoCourse => \E j \in Jobs : Live(j)
    /\ \A i, j \in Jobs : Live(i) /\ Live(j) => i = j
    /\ \A c \in active : \E j \in JobsOf(c) : job[j].op = Automatic

Inv == FactInv /\ TypeOK /\ JobInv /\ StatusSettles

---------------------------------------------------------------------------
(* The inventories.                                                        *)

CallStates == {"idle"} \cup Asking \cup Over

CallType == [at : CallStates, course : Courses, chunks : Versions, got : Versions,
             joined : BOOLEAN]

LEMMA ZeroIsAVersion == 0 \in Versions
<1>1. PICK c \in Courses : TRUE
  BY FactInventoryAssumption
<1>2. 0 \in 0 .. MaxVersion[c]
  BY <1>1, FactInventoryAssumption
<1> QED  BY <1>1, <1>2 DEF Versions

\* The next version of a course that may have one.
LEMMA NextVersion ==
    ASSUME NEW c \in Courses, NEW n \in Nat, n < MaxVersion[c]
    PROVE  n + 1 \in Versions /\ n + 1 # 0
<1>1. MaxVersion[c] \in Nat
  BY FactInventoryAssumption
<1>2. n + 1 \in 0 .. MaxVersion[c] /\ n + 1 # 0
  BY <1>1
<1> QED  BY <1>2 DEF Versions

LEMMA VersionsAreNaturals == Versions \subseteq Nat
  BY FactInventoryAssumption DEF Versions

LEMMA NoCallTyped ==
    /\ NoCall \in CallType /\ NoCall.at = "idle"
    /\ Failed \in CallType /\ Failed.at = "failed"
    /\ \A c \in Courses : LET polling == [NoCall EXCEPT !.at = "polling", !.course = c]
                          IN polling \in CallType /\ polling.at = "polling"
<1>1. (CHOOSE c \in Courses : TRUE) \in Courses
  BY FactInventoryAssumption
<1> QED  BY <1>1, ZeroIsAVersion DEF NoCall, Failed, CallType, CallStates, Asking, Over

\* What FactInv says of one call.
CallIsFounded(k) ==
    /\ call[k].at = "waiting" => Building(call[k].course)
    /\ call[k].at = "waiting" /\ ~call[k].joined => build[call[k].course] = call[k].chunks
    /\ call[k].at = "answered" /\ ~call[k].joined => call[k].got = call[k].chunks

LEMMA FactsByCall == FactInv <=> FactTypeOK /\ \A k \in Clients : CallIsFounded(k)
  BY DEF FactInv, NobodyAwaitsNothing, AnsweredForOwnChunks, AwaitsOwn, CallIsFounded

LEMMA FactsByCallNext == FactTypeOK' /\ (\A k \in Clients : CallIsFounded(k)') => FactInv'
  BY DEF FactInv, NobodyAwaitsNothing, AnsweredForOwnChunks, AwaitsOwn, CallIsFounded

\* A call is given up, its answer was read, or it polls: it awaits nothing.
LEMMA Released ==
    ASSUME FactInv, NEW k \in Clients, NEW new \in CallType,
           new.at \notin {"waiting", "answered"},
           call' = [call EXCEPT ![k] = new], UNCHANGED <<index, build, cache>>,
           lastError' \subseteq Courses
    PROVE  FactInv'
<1>1. FactTypeOK'
  BY DEF FactInv, FactTypeOK, CallType, CallStates
<1>2. \A i \in Clients : call'[i] = IF i = k THEN new ELSE call[i]
  BY DEF FactInv, FactTypeOK
<1>3. \A i \in Clients : CallIsFounded(i)'
  BY <1>2, FactsByCall DEF CallIsFounded, Building
<1> QED  BY <1>1, <1>3, FactsByCallNext

\* A course's build starts with the chunks of its index, unless one is running.
LEMMA StartKeeps ==
    ASSUME FactInv, NEW c \in Courses, index[c] # 0, StartBuild(c)
    PROVE  /\ build' \in [Courses -> Versions] /\ lastError' \subseteq Courses
           /\ \A d \in Courses : Building(d) => build'[d] = build[d]
           /\ build'[c] # 0
           /\ ~Building(c) => build'[c] = index[c]
<1>1. index[c] \in Versions /\ build \in [Courses -> Versions] /\ lastError \subseteq Courses
  BY DEF FactInv, FactTypeOK
<1>2. CASE Building(c)
  BY <1>1, <1>2 DEF StartBuild, Building
<1>3. CASE ~Building(c)
  BY <1>1, <1>3 DEF StartBuild, Building
<1> QED  BY <1>2, <1>3

\* Calls that no step touched keep their build.
LEMMA OthersKeep ==
    ASSUME FactInv, NEW i \in Clients, call'[i] = call[i],
           \A d \in Courses : Building(d) => build'[d] = build[d]
    PROVE  CallIsFounded(i)'
<1>1. CallIsFounded(i) /\ call[i].course \in Courses
  BY FactsByCall DEF FactTypeOK
<1> QED  BY <1>1 DEF CallIsFounded, Building

LEMMA LoadKeeps ==
    ASSUME FactInv, NEW k \in Clients, NEW c \in Courses, NEW refresh \in BOOLEAN,
           index[c] # 0, LoadOrBuild(k, c, refresh), UNCHANGED <<index, cache>>
    PROVE  FactInv'
<1> USE DEF Becomes
<1>1. index[c] \in Versions /\ cache[c] \in Versions /\ 0 \in Versions
  BY ZeroIsAVersion DEF FactInv, FactTypeOK
<1>2. call \in [Clients -> CallType]
  BY DEF FactInv, FactTypeOK, CallType, CallStates
<1>3. CASE ~refresh /\ Cached(c) /\ Becomes(k, "answered", c, cache[c], FALSE)
           /\ UNCHANGED <<build, lastError>>
  <2> DEFINE new == [at |-> "answered", course |-> c, chunks |-> index[c],
                     got |-> cache[c], joined |-> FALSE]
  <2>1. new \in CallType /\ new.got = new.chunks
    BY <1>1, <1>3 DEF CallType, CallStates, Over, Cached
  <2>2. call' = [call EXCEPT ![k] = new]
    BY <1>3
  <2>3. call' \in [Clients -> CallType] /\ call'[k] = new
    BY <1>2, <2>1, <2>2
  <2>4. CallIsFounded(k)'
    BY <2>3, <2>1 DEF CallIsFounded
  <2>5. \A i \in Clients : i # k => CallIsFounded(i)'
    BY <1>2, <2>2, <1>3, OthersKeep
  <2>6. FactTypeOK'
    BY <2>3, <1>3 DEF FactInv, FactTypeOK, CallType, CallStates
  <2> QED  BY <2>4, <2>5, <2>6, FactsByCallNext
<1>4. CASE Becomes(k, "waiting", c, 0, Building(c)) /\ StartBuild(c)
  <2> DEFINE new == [at |-> "waiting", course |-> c, chunks |-> index[c],
                     got |-> 0, joined |-> Building(c)]
  <2>1. new \in CallType
    BY <1>1 DEF CallType, CallStates, Asking, Building
  <2>2. call' = [call EXCEPT ![k] = new]
    BY <1>4
  <2>3. call' \in [Clients -> CallType] /\ call'[k] = new
    BY <1>2, <2>1, <2>2
  <2>4. /\ build' \in [Courses -> Versions] /\ lastError' \subseteq Courses
        /\ \A d \in Courses : Building(d) => build'[d] = build[d]
        /\ build'[c] # 0 /\ (~Building(c) => build'[c] = index[c])
    BY <1>4, StartKeeps
  <2>5. CallIsFounded(k)'
    <3>1. /\ call'[k].at = "waiting" /\ call'[k].course = c
          /\ call'[k].chunks = index[c] /\ call'[k].joined = Building(c)
      BY <2>3
    <3>2. CASE Building(c)
      BY <2>4, <3>1, <3>2 DEF CallIsFounded, Building
    <3>3. CASE ~Building(c)
      BY <2>4, <3>1, <3>3 DEF CallIsFounded, Building
    <3> QED  BY <3>2, <3>3
  <2>6. \A i \in Clients : i # k => CallIsFounded(i)'
    BY <1>2, <2>2, <2>4, OthersKeep
  <2>7. FactTypeOK'
    BY <2>3, <2>4 DEF FactInv, FactTypeOK, CallType, CallStates
  <2> QED  BY <2>5, <2>6, <2>7, FactsByCallNext
<1> QED  BY <1>3, <1>4 DEF LoadOrBuild

LEMMA PollKeeps ==
    ASSUME FactInv, NEW k \in Clients, NEW c \in Courses, NEW refresh \in BOOLEAN,
           Poll(k, c, refresh)
    PROVE  FactInv'
<1>1. CASE Cached(c) /\ ~refresh /\ Becomes(k, "answered", c, cache[c], FALSE)
           /\ UNCHANGED <<build, lastError>>
  <2>1. LoadOrBuild(k, c, refresh)
    BY <1>1 DEF LoadOrBuild
  <2> QED  BY <2>1, LoadKeeps DEF Poll
<1>2. CASE call' = [call EXCEPT ![k] = Failed] /\ lastError' = lastError \ {c}
           /\ UNCHANGED build
  <2>1. lastError' \subseteq Courses
    BY <1>2 DEF FactInv, FactTypeOK
  <2> QED  BY <1>2, <2>1, NoCallTyped, Released DEF Poll
<1>3. CASE BecomesPolling(k, c) /\ StartBuild(c)
  <2> DEFINE new == [NoCall EXCEPT !.at = "polling", !.course = c]
  <2>1. new \in CallType /\ new.at = "polling"
    BY NoCallTyped
  <2>2. call' = [call EXCEPT ![k] = new]
    BY <1>3 DEF BecomesPolling
  <2>3. call \in [Clients -> CallType]
    BY DEF FactInv, FactTypeOK, CallType, CallStates
  <2>4. /\ build' \in [Courses -> Versions] /\ lastError' \subseteq Courses
        /\ \A d \in Courses : Building(d) => build'[d] = build[d]
    BY <1>3, StartKeeps DEF Poll
  <2>5. call' \in [Clients -> CallType] /\ call'[k].at = "polling"
    BY <2>1, <2>2, <2>3
  <2>6. CallIsFounded(k)'
    BY <2>5 DEF CallIsFounded
  <2>7. \A i \in Clients : i # k => CallIsFounded(i)'
    BY <2>2, <2>3, <2>4, OthersKeep
  <2>8. FactTypeOK'
    BY <2>4, <2>5 DEF FactInv, FactTypeOK, CallType, CallStates, Poll
  <2> QED  BY <2>6, <2>7, <2>8, FactsByCallNext
<1> QED  BY <1>1, <1>2, <1>3 DEF Poll

\* The end of a build: every caller that waits for it is answered or told.
LEMMA BuildEndKeeps ==
    ASSUME FactInv, NEW c \in Courses, BuildDone(c) \/ BuildFails(c)
    PROVE  FactInv'
<1>1. call \in [Clients -> CallType] /\ build \in [Courses -> Versions]
      /\ cache \in [Courses -> Versions] /\ lastError \subseteq Courses
  BY DEF FactInv, FactTypeOK, CallType, CallStates
<1>2. build' = [build EXCEPT ![c] = 0] /\ index' = index
  BY DEF BuildDone, BuildFails
<1>3. build' \in [Courses -> Versions] /\ \A d \in Courses : d # c => build'[d] = build[d]
  BY <1>1, <1>2, ZeroIsAVersion
<1>4. ASSUME NEW k \in Clients, ~Waiting(k, c), call'[k] = call[k]
      PROVE  CallIsFounded(k)'
  <2>1. CallIsFounded(k) /\ call[k].course \in Courses
    BY <1>1, FactsByCall DEF CallType
  <2>2. call[k].at = "waiting" => build'[call[k].course] = build[call[k].course]
    BY <1>3, <1>4, <2>1 DEF Waiting
  <2> QED  BY <1>4, <2>1, <2>2 DEF CallIsFounded, Building
<1>5. CASE BuildDone(c)
  <2>1. cache' \in [Courses -> Versions] /\ lastError' = lastError
    BY <1>1, <1>5 DEF BuildDone
  <2>2. ASSUME NEW k \in Clients, Waiting(k, c)
        PROVE  /\ [call[k] EXCEPT !.at = "answered", !.got = build[c]] \in CallType
               /\ call'[k] = [call[k] EXCEPT !.at = "answered", !.got = build[c]]
    BY <2>2, <1>1, <1>5 DEF BuildDone, CallType, CallStates, Over
  <2>3. ASSUME NEW k \in Clients, ~Waiting(k, c)
        PROVE  call'[k] = call[k]
    BY <2>3, <1>5 DEF BuildDone
  <2>4. ASSUME NEW k \in Clients, Waiting(k, c)
        PROVE  CallIsFounded(k)'
    <3>1. call[k].course = c /\ (~call[k].joined => build[c] = call[k].chunks)
      BY <2>4, FactsByCall DEF CallIsFounded, Waiting
    <3>2. /\ call'[k].at = "answered" /\ call'[k].got = build[c]
          /\ call'[k].chunks = call[k].chunks /\ call'[k].joined = call[k].joined
      BY <2>2, <2>4, <1>1 DEF CallType
    <3> QED  BY <3>1, <3>2 DEF CallIsFounded
  <2>5. \A k \in Clients : call'[k] \in CallType
    BY <2>2, <2>3, <1>1
  <2>6. call' \in [Clients -> CallType]
    BY <2>5, <1>5 DEF BuildDone
  <2>7. FactTypeOK'
    BY <2>6, <2>1, <1>1, <1>2, <1>3 DEF FactInv, FactTypeOK, CallType, CallStates
  <2> QED  BY <2>3, <2>4, <1>4, <2>7, FactsByCallNext
<1>6. CASE BuildFails(c)
  <2>1. cache' = cache /\ lastError' \subseteq Courses
    BY <1>1, <1>6 DEF BuildFails
  <2>2. \A k \in Clients : call'[k] = IF Waiting(k, c) THEN Failed ELSE call[k]
    BY <1>6 DEF BuildFails
  <2>3. call' \in [Clients -> CallType]
    BY <2>2, <1>1, <1>6, NoCallTyped DEF BuildFails
  <2>4. \A k \in Clients : Waiting(k, c) => CallIsFounded(k)'
    BY <2>2, NoCallTyped DEF CallIsFounded
  <2>5. \A k \in Clients : CallIsFounded(k)'
    BY <2>2, <2>4, <1>4
  <2>6. FactTypeOK'
    BY <2>3, <2>1, <1>1, <1>2, <1>3 DEF FactInv, FactTypeOK, CallType, CallStates
  <2> QED  BY <2>5, <2>6, FactsByCallNext
<1> QED  BY <1>5, <1>6

LEMMA ForgetKeeps ==
    ASSUME FactInv, ForgetBuilds, UNCHANGED <<index, cache>>
    PROVE  FactInv'
<1>1. \A k \in Clients : call'[k] = IF call[k].at = "polling" THEN call[k] ELSE NoCall
  BY DEF ForgetBuilds
<1>2. call' \in [Clients -> CallType]
  BY <1>1, NoCallTyped DEF ForgetBuilds, FactInv, FactTypeOK, CallType, CallStates
<1>3. \A k \in Clients : CallIsFounded(k)'
  BY <1>1, NoCallTyped DEF CallIsFounded
<1>4. FactTypeOK'
  BY <1>2, ZeroIsAVersion DEF ForgetBuilds, FactInv, FactTypeOK, CallType, CallStates
<1> QED  BY <1>3, <1>4, FactsByCallNext

LEMMA VersionKeeps ==
    ASSUME FactInv, NEW c \in Courses, NewVersion(c)
    PROVE  FactInv' /\ index'[c] # 0 /\ \A d \in Courses : index[d] # 0 => index'[d] # 0
<1>1. index[c] \in Nat /\ index \in [Courses -> Versions]
  BY VersionsAreNaturals DEF FactInv, FactTypeOK
<1>2. index[c] + 1 \in Versions /\ index[c] + 1 # 0
  BY <1>1, NextVersion DEF NewVersion
<1>3. index' \in [Courses -> Versions] /\ index'[c] # 0
      /\ \A d \in Courses : index[d] # 0 => index'[d] # 0
  BY <1>1, <1>2 DEF NewVersion
<1>4. FactTypeOK'
  BY <1>3 DEF NewVersion, FactInv, FactTypeOK
<1>5. \A k \in Clients : CallIsFounded(k)'
  BY FactsByCall DEF NewVersion, CallIsFounded, Building
<1> QED  BY <1>3, <1>4, <1>5, FactsByCallNext

LEMMA FactsStay == FactInv /\ UNCHANGED factVars => FactInv'
<1> SUFFICES ASSUME FactInv, UNCHANGED factVars PROVE FactInv'
  OBVIOUS
<1>1. FactTypeOK'
  BY DEF FactInv, FactTypeOK, factVars
<1>2. \A k \in Clients : CallIsFounded(k)'
  BY FactsByCall DEF factVars, CallIsFounded, Building
<1> QED  BY <1>1, <1>2, FactsByCallNext

---------------------------------------------------------------------------
(* The jobs.                                                               *)

Statuses == Pending \cup {"not_started", "ready", "partial", "failed"}

JobType == [at : {"idle", "queued", "prepare", "facts", "generated", "stored"},
            course : Courses \cup {NoCourse}, op : Operations, limit : 0 .. Target,
            seen : SUBSET Examples, made : SUBSET Examples]

StarterTypeOK ==
    /\ slot \in Courses \cup {NoCourse} /\ active \subseteq Courses
    /\ status \in [Courses -> Statuses] /\ seeds \in [Courses -> SUBSET Examples]
    /\ job \in [Jobs -> JobType]
    /\ faults \in 0 .. MaxFaults /\ excused \subseteq Courses

LEMMA TypeByPart == TypeOK <=> FactTypeOK /\ StarterTypeOK
  BY DEF TypeOK, StarterTypeOK, Statuses, JobType

LEMMA TypeByPartNext == TypeOK' <=> FactTypeOK' /\ StarterTypeOK'
  BY DEF TypeOK, StarterTypeOK, Statuses, JobType

LEMMA NoJobTyped == NoJob \in JobType /\ NoJob.at = "idle"
  BY StarterAssumption DEF NoJob, JobType, Operations, Automatic

\* The slot is empty exactly when no job runs.
LEMMA FreeSlot == ASSUME JobInv PROVE slot = NoCourse <=> \A j \in Jobs : ~Live(j)
<1>1. \A j \in Jobs : Live(j) => slot \in Courses
  BY DEF JobInv, JobHolds
<1>2. slot # NoCourse => \E j \in Jobs : Live(j)
  BY DEF JobInv
<1> QED  BY <1>1, <1>2, StarterAssumption

\* Steps that leave the slot and the jobs alone.
LEMMA JobsStay ==
    ASSUME JobInv, UNCHANGED <<slot, active, job>>,
           \A d \in Courses : index[d] # 0 => index'[d] # 0
    PROVE  JobInv'
<1>1. \A j \in Jobs : JobHolds(j)'
  BY DEF JobInv, JobHolds, Live
<1> QED  BY <1>1 DEF JobInv, Live, JobsOf

\* A job goes on to its next stage.
LEMMA JobMovesOn ==
    ASSUME JobInv, StarterTypeOK, NEW j \in Jobs, Live(j), NEW new \in JobType,
           new.at \notin {"idle", "queued"}, new.course = job[j].course,
           new.op = job[j].op, job' = [job EXCEPT ![j] = new],
           UNCHANGED <<slot, active, index>>
    PROVE  JobInv' /\ job' \in [Jobs -> JobType]
<1>1. job \in [Jobs -> JobType]
  BY DEF StarterTypeOK
<1>2. job' \in [Jobs -> JobType] /\ \A i \in Jobs : job'[i] = IF i = j THEN new ELSE job[i]
  BY <1>1
<1>3. \A i \in Jobs : Live(i)' <=> Live(i)
  BY <1>2 DEF Live
<1>4. \A i \in Jobs : JobHolds(i)'
  <2> TAKE i \in Jobs
  <2>1. CASE i = j
    BY <2>1, <1>2, <1>3 DEF JobInv, JobHolds
  <2>2. CASE i # j
    BY <2>2, <1>2, <1>3 DEF JobInv, JobHolds
  <2> QED  BY <2>1, <2>2
<1>5. \A i \in Jobs : job'[i].course = job[i].course /\ job'[i].op = job[i].op
  BY <1>2
<1>6. \A c \in active' : \E i \in JobsOf(c)' : job'[i].op = Automatic
  <2> SUFFICES ASSUME NEW c \in active PROVE \E i \in JobsOf(c)' : job'[i].op = Automatic
    OBVIOUS
  <2>1. PICK i \in Jobs : job[i].course = c /\ job[i].op = Automatic
    BY DEF JobInv, JobsOf
  <2>2. job'[i].course = c /\ job'[i].op = Automatic
    BY <2>1, <1>5
  <2> QED  BY <2>2 DEF JobsOf
<1>7. slot' # NoCourse => \E i \in Jobs : Live(i)'
  BY <1>3 DEF JobInv
<1>8. \A h, i \in Jobs : Live(h)' /\ Live(i)' => h = i
  BY <1>3 DEF JobInv
<1> QED  BY <1>2, <1>4, <1>6, <1>7, <1>8 DEF JobInv

\* An automatic job is always one that runs.
LEMMA ActiveIsLive ==
    ASSUME JobInv, StarterTypeOK, NEW c \in active
    PROVE  \E j \in Jobs : Live(j) /\ job[j].course = c /\ job[j].op = Automatic
<1>1. PICK j \in Jobs : job[j].course = c /\ job[j].op = Automatic
  BY DEF JobInv, JobsOf
<1>2. c # NoCourse
  BY StarterAssumption DEF StarterTypeOK
<1>3. Live(j)
  BY <1>1, <1>2 DEF JobInv, JobHolds, NoJob
<1> QED  BY <1>1, <1>3

\* A job ends, however it went, and gives the slot back.
LEMMA JobEnds ==
    ASSUME JobInv, StarterTypeOK, NEW j \in Jobs, Live(j),
           job' = [job EXCEPT ![j] = NoJob], EndJob(job[j].course),
           active' = IF job[j].op = Automatic THEN active \ {job[j].course} ELSE active
    PROVE  JobInv' /\ job' \in [Jobs -> JobType] /\ slot' = NoCourse /\ active' = {}
<1>1. job' \in [Jobs -> JobType] /\ \A i \in Jobs : job'[i] = IF i = j THEN NoJob ELSE job[i]
  BY NoJobTyped DEF StarterTypeOK
<1>2. \A i \in Jobs : i # j => ~Live(i)
  BY DEF JobInv
<1>3. slot = job[j].course
  BY DEF JobInv, JobHolds
<1>4. slot' = NoCourse
  BY <1>3 DEF EndJob
<1>5. \A c \in active : job[j].op = Automatic /\ c = job[j].course
  BY <1>2, ActiveIsLive
<1>6. active' = {}
  BY <1>5
<1>7. \A i \in Jobs : job'[i] = NoJob
  BY <1>1, <1>2 DEF JobInv, JobHolds
<1>8. \A i \in Jobs : ~Live(i)' /\ JobHolds(i)'
  BY <1>7, NoJobTyped DEF Live, JobHolds
<1> QED  BY <1>1, <1>4, <1>6, <1>8 DEF JobInv

\* A job begins in the free slot.
LEMMA JobBegins ==
    ASSUME JobInv, StarterTypeOK, NEW j \in Jobs, NEW c \in Courses, TryBegin(c),
           NEW op \in Operations, NEW limit \in 0 .. Target,
           NEW before \in SUBSET Examples, Starts(j, c, op, limit, before),
           active' = IF op = Automatic THEN active \cup {c} ELSE active, index'[c] # 0
    PROVE  JobInv' /\ job' \in [Jobs -> JobType] /\ slot' = c /\ active' \subseteq {c}
<1> DEFINE new == [at |-> IF op = Automatic THEN "queued" ELSE "prepare", course |-> c,
                   op |-> op, limit |-> limit, seen |-> before, made |-> {}]
<1>1. new \in JobType /\ new.at # "idle" /\ new.course = c /\ new.op = op
      /\ (new.at = "queued" => op = Automatic)
  BY DEF JobType
<1>2. job' = [job EXCEPT ![j] = new]
  BY DEF Starts
<1> HIDE DEF new
<1>3. job' \in [Jobs -> JobType] /\ \A i \in Jobs : job'[i] = IF i = j THEN new ELSE job[i]
  BY <1>1, <1>2 DEF StarterTypeOK
<1>4. slot' = c /\ \A i \in Jobs : ~Live(i) /\ job[i] = NoJob
  BY FreeSlot DEF TryBegin, JobInv, JobHolds
<1>5. active = {}
  BY <1>4, ActiveIsLive
<1>6. \A i \in Jobs : Live(i)' <=> i = j
  BY <1>1, <1>3, <1>4, NoJobTyped DEF Live
<1>7. JobHolds(j)'
  BY <1>1, <1>3, <1>4, <1>6 DEF JobHolds
<1>8. \A i \in Jobs : i # j => JobHolds(i)'
  BY <1>3, <1>4, <1>6 DEF JobHolds
<1>9. \A d \in active' : d = c /\ op = Automatic
  BY <1>5
<1>10. \A d \in active' : \E i \in JobsOf(d)' : job'[i].op = Automatic
  BY <1>1, <1>3, <1>9 DEF JobsOf
<1> QED  BY <1>3, <1>4, <1>6, <1>7, <1>8, <1>9, <1>10 DEF JobInv

---------------------------------------------------------------------------
(* The stored status.                                                      *)

LEMMA PatchKeeps ==
    ASSUME StarterTypeOK, StatusSettles, NEW c \in Courses, NEW s \in Statuses,
           Patch(c, s), s \in Pending => c \in active', active \ {c} \subseteq active'
    PROVE  /\ StatusSettles' /\ status' \in [Courses -> Statuses]
           /\ faults' \in 0 .. MaxFaults /\ excused' \subseteq Courses
<1>1. /\ status \in [Courses -> Statuses] /\ excused \subseteq Courses
      /\ faults \in 0 .. MaxFaults /\ MaxFaults \in Nat
  BY StarterAssumption DEF StarterTypeOK
<1>2. CASE status' = [status EXCEPT ![c] = s] /\ excused' = excused \ {c} /\ UNCHANGED faults
  <2>1. status' \in [Courses -> Statuses]
        /\ \A d \in Courses : status'[d] = IF d = c THEN s ELSE status[d]
    BY <1>1, <1>2
  <2> QED  BY <1>1, <1>2, <2>1 DEF StatusSettles
<1>3. CASE faults < MaxFaults /\ faults' = faults + 1 /\ excused' = excused \cup {c}
           /\ UNCHANGED status
  <2>1. faults' \in 0 .. MaxFaults
    BY <1>1, <1>3
  <2> QED  BY <1>1, <1>3, <2>1 DEF StatusSettles
<1> QED  BY <1>2, <1>3 DEF Patch

LEMMA ReconcileIsPatch ==
    ASSUME NEW c, NEW made, NEW forced \in BOOLEAN, Reconcile(c, made, forced)
    PROVE  \E s \in {"ready", "partial", "failed"} : Patch(c, s)
<1>1. StatusOf(seeds[c]) \in {"ready", "partial", "failed"}
  BY DEF StatusOf
<1> QED  BY <1>1 DEF Reconcile

\* A status that only other steps write, while courses stay announced.
LEMMA StatusStays ==
    ASSUME StatusSettles, UNCHANGED <<status, excused>>, active \subseteq active'
    PROVE  StatusSettles'
  BY DEF StatusSettles

\* What remains to be typed when a step leaves the status alone.
LEMMA TypeStays ==
    ASSUME StarterTypeOK, UNCHANGED <<status, faults, excused>>,
           slot' \in Courses \cup {NoCourse}, active' \subseteq Courses,
           seeds' \in [Courses -> SUBSET Examples], job' \in [Jobs -> JobType]
    PROVE  StarterTypeOK'
  BY DEF StarterTypeOK

---------------------------------------------------------------------------
(* The invariant.                                                          *)

JobStates == JobInv /\ StarterTypeOK /\ StatusSettles

LEMMA InvByPart == Inv <=> FactInv /\ JobStates
  BY TypeByPart DEF Inv, JobStates, FactInv

LEMMA InvByPartNext == Inv' <=> FactInv' /\ JobStates'
  BY TypeByPartNext DEF Inv, JobStates, FactInv

LEMMA InitInv == Init => Inv
<1> SUFFICES ASSUME Init PROVE Inv
  OBVIOUS
<1>1. FactInv
  BY ZeroIsAVersion, NoCallTyped
  DEF Init, FactInit, FactInv, FactTypeOK, NobodyAwaitsNothing, AnsweredForOwnChunks,
      AwaitsOwn, CallType, CallStates
<1>2. StarterTypeOK /\ StatusSettles
  BY NoJobTyped, StarterAssumption DEF Init, StarterTypeOK, Statuses, StatusSettles, Pending
<1>3. JobInv
  BY NoJobTyped DEF Init, JobInv, JobHolds, Live
<1> QED  BY <1>1, <1>2, <1>3, InvByPart DEF JobStates

\* Steps that change no more than the inventories.
LEMMA OnlyFacts ==
    ASSUME Inv, FactInv', UNCHANGED starterVars,
           \A d \in Courses : index[d] # 0 => index'[d] # 0
    PROVE  Inv'
<1>1. JobInv'
  BY JobsStay, InvByPart DEF JobStates, starterVars
<1>2. StarterTypeOK' /\ StatusSettles'
  BY InvByPart, StatusStays DEF JobStates, starterVars, StarterTypeOK
<1> QED  BY <1>1, <1>2, InvByPartNext DEF JobStates

\* An upload; the first one queues the course's job.
LEMMA UploadKeeps == ASSUME Inv, NEW c \in Courses, Upload(c) PROVE Inv'
<1>1. /\ FactInv' /\ index'[c] # 0 /\ seeds' = seeds
      /\ \A d \in Courses : index[d] # 0 => index'[d] # 0
  BY VersionKeeps, InvByPart DEF Upload
<1>2. JobInv /\ StarterTypeOK /\ StatusSettles
  BY InvByPart DEF JobStates
<1>3. ASSUME NEW j \in Jobs, ~Live(j), Queue(j, c)
      PROVE  Inv'
  <2>1. /\ TryBegin(c) /\ active' = active \cup {c} /\ Patch(c, "queued")
        /\ Starts(j, c, Automatic, Target, {})
    BY <1>3 DEF Queue
  <2>2. Automatic \in Operations /\ Target \in 0 .. Target /\ {} \in SUBSET Examples
    BY StarterAssumption DEF Operations
  <2>3. JobInv' /\ job' \in [Jobs -> JobType] /\ slot' = c /\ active' \subseteq {c}
    BY <1>1, <1>2, <2>1, <2>2, JobBegins
  <2>4. "queued" \in Statuses
    BY DEF Statuses, Pending
  <2>5. /\ StatusSettles' /\ status' \in [Courses -> Statuses]
        /\ faults' \in 0 .. MaxFaults /\ excused' \subseteq Courses
    BY <1>2, <2>1, <2>4, PatchKeeps
  <2>6. StarterTypeOK'
    BY <1>1, <1>2, <2>3, <2>5 DEF StarterTypeOK
  <2> QED  BY <1>1, <2>3, <2>5, <2>6, InvByPartNext DEF JobStates
<1>4. CASE UNCHANGED <<slot, active, status, job, faults, excused>>
  BY <1>1, <1>4, OnlyFacts DEF starterVars
<1> QED  BY <1>3, <1>4 DEF Upload

LEMMA RunAutoKeeps == ASSUME Inv, NEW j \in Jobs, RunAuto(j) PROVE Inv'
<1>1. JobInv /\ StarterTypeOK /\ StatusSettles /\ FactInv
  BY InvByPart DEF JobStates
<1> DEFINE new == [job[j] EXCEPT !.at = "prepare"]
<1>2. job[j] \in JobType
  BY <1>1 DEF StarterTypeOK
<1>3. Live(j) /\ new \in JobType /\ new.at = "prepare"
      /\ new.course = job[j].course /\ new.op = job[j].op
  BY <1>2 DEF RunAuto, Live, JobType
<1>4. job' = [job EXCEPT ![j] = new]
  BY DEF RunAuto
<1> HIDE DEF new
<1>5. UNCHANGED <<slot, active, index>>
  BY DEF RunAuto, factVars
<1>6. JobInv' /\ job' \in [Jobs -> JobType]
  BY <1>1, <1>3, <1>4, <1>5, JobMovesOn
<1>7. job[j].course \in Courses /\ job[j].course \in active
  BY <1>1, <1>3 DEF JobInv, JobHolds, RunAuto
<1>8. Patch(job[j].course, "generating") /\ "generating" \in Statuses
  BY DEF RunAuto, Statuses, Pending
<1>9. /\ StatusSettles' /\ status' \in [Courses -> Statuses]
      /\ faults' \in 0 .. MaxFaults /\ excused' \subseteq Courses
  BY <1>1, <1>5, <1>7, <1>8, PatchKeeps
<1>10. StarterTypeOK'
  BY <1>1, <1>5, <1>6, <1>9 DEF StarterTypeOK, RunAuto
<1>11. FactInv'
  BY <1>1, FactsStay DEF RunAuto
<1> QED  BY <1>6, <1>9, <1>10, <1>11, InvByPartNext DEF JobStates

LEMMA AdminStartsKeeps ==
    ASSUME Inv, NEW j \in Jobs, NEW c \in Courses, AdminStarts(j, c) PROVE Inv'
<1>1. JobInv /\ StarterTypeOK /\ StatusSettles /\ FactInv
  BY InvByPart DEF JobStates
<1>2. seeds[c] \in SUBSET Examples /\ Cardinality(seeds[c]) \in Nat
  BY <1>1, StarterAssumption, FS_Subset, FS_CardinalityType DEF StarterTypeOK
<1>3. \E op \in Operations, limit \in 0 .. Target, before \in SUBSET Examples :
         Starts(j, c, op, limit, before) /\ op # Automatic
  <2>1. PICK op \in Operations \ {Automatic} :
          IF op = "top_up"
          THEN Starts(j, c, op, IF Cardinality(seeds[c]) >= Target THEN 0
                                ELSE Target - Cardinality(seeds[c]), seeds[c])
          ELSE Starts(j, c, op, Target, {})
    BY DEF AdminStarts
  <2>2. Target \in 0 .. Target /\ {} \in SUBSET Examples
    BY StarterAssumption
  <2>3. (IF Cardinality(seeds[c]) >= Target THEN 0 ELSE Target - Cardinality(seeds[c]))
           \in 0 .. Target
    BY <1>2, StarterAssumption
  <2> QED  BY <1>2, <2>1, <2>2, <2>3
<1>4. PICK op \in Operations, limit \in 0 .. Target, before \in SUBSET Examples :
         Starts(j, c, op, limit, before) /\ op # Automatic
  BY <1>3
<1>5. TryBegin(c) /\ UNCHANGED <<factVars, active, status, seeds, faults, excused>>
      /\ index[c] # 0
  BY DEF AdminStarts
<1>6. index'[c] # 0
  BY <1>5 DEF factVars
<1>7. active' = IF op = Automatic THEN active \cup {c} ELSE active
  BY <1>4, <1>5
<1>8. JobInv' /\ job' \in [Jobs -> JobType] /\ slot' = c
  BY <1>1, <1>4, <1>5, <1>6, <1>7, JobBegins
<1>9. StarterTypeOK'
  BY <1>1, <1>5, <1>8 DEF StarterTypeOK
<1>10. StatusSettles'
  BY <1>1, <1>5, StatusStays
<1> QED  BY <1>1, <1>5, <1>8, <1>9, <1>10, FactsStay, InvByPartNext DEF JobStates

\* A job that moves on and leaves the slot and the status alone.
LEMMA MovingKeeps ==
    ASSUME Inv, FactInv', NEW j \in Jobs, Live(j), NEW new \in JobType,
           new.at \notin {"idle", "queued"}, new.course = job[j].course,
           new.op = job[j].op, job' = [job EXCEPT ![j] = new],
           UNCHANGED <<slot, active, status, faults, excused, index>>,
           seeds' \in [Courses -> SUBSET Examples]
    PROVE  Inv'
<1>1. JobInv /\ StarterTypeOK /\ StatusSettles
  BY InvByPart DEF JobStates
<1>2. JobInv' /\ job' \in [Jobs -> JobType]
  BY <1>1, JobMovesOn
<1>3. StarterTypeOK' /\ StatusSettles'
  BY <1>1, <1>2, StatusStays DEF StarterTypeOK
<1> QED  BY <1>2, <1>3, InvByPartNext DEF JobStates

LEMMA PrepareKeeps == ASSUME Inv, NEW j \in Jobs, Prepare(j) PROVE Inv'
<1>1. JobInv /\ StarterTypeOK /\ StatusSettles /\ FactInv
  BY InvByPart DEF JobStates
<1>2. job[j] \in JobType /\ job[j].at = "prepare" /\ Live(j)
  BY <1>1 DEF StarterTypeOK, Prepare, Live
<1>3. job[j].course \in Courses /\ index[job[j].course] # 0
  BY <1>1, <1>2 DEF JobInv, JobHolds
<1>4. \A at \in {"stored", "facts"} : LET new == [job[j] EXCEPT !.at = at] IN
         /\ new \in JobType /\ new.at = at
         /\ new.course = job[j].course /\ new.op = job[j].op
  BY <1>2 DEF JobType
<1>5. /\ UNCHANGED <<slot, active, status, faults, excused, index>>
      /\ seeds' \in [Courses -> SUBSET Examples] /\ cache' = cache
  BY <1>1 DEF Prepare, StarterTypeOK
<1>6. CASE job' = [job EXCEPT ![j].at = "stored"] /\ UNCHANGED <<build, lastError, call>>
  <2>1. job' = [job EXCEPT ![j] = [job[j] EXCEPT !.at = "stored"]]
    BY <1>6
  <2>2. FactInv'
    BY <1>1, <1>5, <1>6, FactsStay DEF factVars
  <2> QED  BY <1>2, <1>4, <1>5, <2>1, <2>2, MovingKeeps
<1>7. ASSUME NEW refresh \in BOOLEAN, LoadOrBuild(j, job[j].course, refresh),
             job' = [job EXCEPT ![j].at = "facts"]
      PROVE  Inv'
  <2>1. job' = [job EXCEPT ![j] = [job[j] EXCEPT !.at = "facts"]]
    BY <1>7
  <2>2. j \in Clients
    BY StarterAssumption
  <2>3. FactInv'
    BY <1>1, <1>3, <1>5, <1>7, <2>2, LoadKeeps
  <2> QED  BY <1>2, <1>4, <1>5, <2>1, <2>3, MovingKeeps
<1> QED  BY <1>6, <1>7 DEF Prepare

LEMMA GenerateKeeps == ASSUME Inv, NEW j \in Jobs, Generate(j) PROVE Inv'
<1>1. StarterTypeOK /\ FactInv /\ job[j] \in JobType /\ Live(j)
  BY InvByPart DEF JobStates, StarterTypeOK, Generate, Live
<1>2. PICK made \in SUBSET (Examples \ job[j].seen) :
         job' = [job EXCEPT ![j].made = made, ![j].at = "generated"]
  BY DEF Generate
<1> DEFINE new == [job[j] EXCEPT !.made = made, !.at = "generated"]
<1>3. new \in JobType /\ new.at = "generated" /\ new.course = job[j].course
      /\ new.op = job[j].op
  BY <1>1, <1>2 DEF JobType
<1>4. job' = [job EXCEPT ![j] = new]
  BY <1>2
<1> HIDE DEF new
<1>5. FactInv'
  <2>1. j \in Clients /\ lastError' \subseteq Courses
    BY <1>1, StarterAssumption DEF Generate, FactInv, FactTypeOK
  <2> QED  BY <1>1, <2>1, NoCallTyped, Released DEF Generate
<1>6. /\ UNCHANGED <<slot, active, status, faults, excused, index>>
      /\ seeds' \in [Courses -> SUBSET Examples]
  BY <1>1 DEF Generate, StarterTypeOK
<1> QED  BY <1>1, <1>3, <1>4, <1>5, <1>6, MovingKeeps

LEMMA PersistKeeps == ASSUME Inv, NEW j \in Jobs, Persist(j) PROVE Inv'
<1>1. StarterTypeOK /\ FactInv /\ job[j] \in JobType /\ Live(j)
  BY InvByPart DEF JobStates, StarterTypeOK, Persist, Live
<1>2. PICK written \in SUBSET (job[j].made \ seeds[job[j].course]) :
         /\ seeds' = [seeds EXCEPT ![job[j].course] = @ \cup written]
         /\ job' = [job EXCEPT ![j].made = written, ![j].at = "stored"]
  BY DEF Persist
<1> DEFINE new == [job[j] EXCEPT !.made = written, !.at = "stored"]
<1>3. job[j].made \subseteq Examples
  BY <1>1 DEF JobType
<1>4. written \subseteq Examples
  BY <1>2, <1>3
<1>5. new \in JobType /\ new.at = "stored" /\ new.course = job[j].course
      /\ new.op = job[j].op
  BY <1>1, <1>4 DEF JobType
<1>6. job' = [job EXCEPT ![j] = new]
  BY <1>2
<1> HIDE DEF new
<1>7. seeds' \in [Courses -> SUBSET Examples]
  BY <1>1, <1>2, <1>4 DEF StarterTypeOK
<1>8. FactInv' /\ UNCHANGED <<slot, active, status, faults, excused, index>>
  BY <1>1, FactsStay DEF Persist, factVars
<1> QED  BY <1>1, <1>5, <1>6, <1>7, <1>8, MovingKeeps

\* A job that ends: what is left is typed, whatever was written of the status.
LEMMA EndingKeeps ==
    ASSUME Inv, FactInv', NEW j \in Jobs, Live(j), job' = [job EXCEPT ![j] = NoJob],
           EndJob(job[j].course), seeds' = seeds,
           active' = IF job[j].op = Automatic THEN active \ {job[j].course} ELSE active,
           \/ job[j].op # Automatic /\ UNCHANGED <<status, faults, excused>>
           \/ \E s \in {"ready", "partial", "failed"} : Patch(job[j].course, s)
    PROVE  Inv'
<1>1. JobInv /\ StarterTypeOK /\ StatusSettles
  BY InvByPart DEF JobStates
<1>2. JobInv' /\ job' \in [Jobs -> JobType] /\ slot' = NoCourse /\ active' = {}
  BY <1>1, JobEnds
<1>3. CASE job[j].op # Automatic /\ UNCHANGED <<status, faults, excused>>
  <2>1. StatusSettles'
    BY <1>1, <1>3, StatusStays
  <2>2. StarterTypeOK'
    BY <1>1, <1>2, <1>3 DEF StarterTypeOK
  <2> QED  BY <1>2, <2>1, <2>2, InvByPartNext DEF JobStates
<1>4. CASE \E s \in {"ready", "partial", "failed"} : Patch(job[j].course, s)
  <2>1. PICK s \in {"ready", "partial", "failed"} : Patch(job[j].course, s)
    BY <1>4
  <2>2. s \in Statuses /\ s \notin Pending
    BY <2>1 DEF Statuses, Pending
  <2>3. job[j].course \in Courses
    BY <1>1 DEF JobInv, JobHolds
  <2>4. active \ {job[j].course} \subseteq active'
    OBVIOUS
  <2>5. /\ StatusSettles' /\ status' \in [Courses -> Statuses]
        /\ faults' \in 0 .. MaxFaults /\ excused' \subseteq Courses
    BY <1>1, <2>1, <2>2, <2>3, <2>4, PatchKeeps
  <2>6. StarterTypeOK'
    BY <1>1, <1>2, <2>5 DEF StarterTypeOK
  <2> QED  BY <1>2, <2>5, <2>6, InvByPartNext DEF JobStates
<1> QED  BY <1>3, <1>4

LEMMA KeepUnsavedKeeps == ASSUME Inv, NEW j \in Jobs, KeepUnsaved(j) PROVE Inv'
<1>1. FactInv' /\ Live(j) /\ job[j].op # Automatic
  BY InvByPart, FactsStay DEF KeepUnsaved, Live
<1> QED  BY <1>1, EndingKeeps DEF KeepUnsaved

LEMMA FinishKeeps == ASSUME Inv, NEW j \in Jobs, Finish(j) PROVE Inv'
<1>1. FactInv' /\ Live(j)
  BY InvByPart, FactsStay DEF Finish, Live
<1>2. \E s \in {"ready", "partial", "failed"} : Patch(job[j].course, s)
  BY ReconcileIsPatch DEF Finish
<1> QED  BY <1>1, <1>2, EndingKeeps DEF Finish

LEMMA FailKeeps == ASSUME Inv, NEW j \in Jobs, Fail(j) PROVE Inv'
<1>1. FactInv /\ Live(j) /\ j \in Clients
  BY InvByPart, StarterAssumption DEF Fail, Live
<1>2. FactInv'
  <2>1. CASE UNCHANGED call
    BY <1>1, <2>1, FactsStay DEF Fail, factVars
  <2>2. CASE call' = [call EXCEPT ![j] = NoCall]
    <3>1. lastError' \subseteq Courses
      BY <1>1 DEF Fail, FactInv, FactTypeOK
    <3> QED  BY <1>1, <2>2, <3>1, NoCallTyped, Released DEF Fail
  <2> QED  BY <2>1, <2>2 DEF Fail
<1>3. CASE job[j].op = Automatic /\ Reconcile(job[j].course, {}, TRUE)
           /\ active' = active \ {job[j].course}
  <2>1. \E s \in {"ready", "partial", "failed"} : Patch(job[j].course, s)
    BY <1>3, ReconcileIsPatch
  <2> QED  BY <1>1, <1>2, <1>3, <2>1, EndingKeeps DEF Fail
<1>4. CASE job[j].op # Automatic /\ UNCHANGED <<active, status, faults, excused>>
  BY <1>1, <1>2, <1>4, EndingKeeps DEF Fail
<1> QED  BY <1>3, <1>4 DEF Fail

LEMMA ChangeSeedsKeeps == ASSUME Inv, NEW c \in Courses, ChangeSeeds(c) PROVE Inv'
<1>1. JobInv /\ StarterTypeOK /\ StatusSettles /\ FactInv
  BY InvByPart DEF JobStates
<1>2. FactInv' /\ JobInv'
  BY <1>1, FactsStay, JobsStay DEF ChangeSeeds, factVars
<1>3. seeds' \in [Courses -> SUBSET Examples]
  BY <1>1 DEF ChangeSeeds, StarterTypeOK
<1>4. StarterTypeOK' /\ StatusSettles'
  BY <1>1, <1>3, StatusStays DEF ChangeSeeds, StarterTypeOK
<1> QED  BY <1>2, <1>4, InvByPartNext DEF JobStates

LEMMA RestartKeeps == ASSUME Inv, Restart PROVE Inv'
<1>1. JobInv /\ StarterTypeOK /\ StatusSettles /\ FactInv
  BY InvByPart DEF JobStates
<1>2. FactInv'
  BY <1>1, ForgetKeeps DEF Restart
<1>3. JobInv'
  BY NoJobTyped DEF Restart, JobInv, JobHolds, Live
<1>4. faults' \in 0 .. MaxFaults
  BY <1>1, StarterAssumption DEF Restart, StarterTypeOK
<1>5. StarterTypeOK'
  BY <1>1, <1>4, NoJobTyped DEF Restart, StarterTypeOK
<1>6. StatusSettles'
  BY DEF Restart, StatusSettles
<1> QED  BY <1>2, <1>3, <1>5, <1>6, InvByPartNext DEF JobStates

LEMMA AskKeeps ==
    ASSUME Inv, NEW k \in Clients, NEW c \in Courses, AskStep(k, c) PROVE Inv'
<1>1. FactInv
  BY InvByPart
<1>2. CASE AskAndWait(k, c)
  <2>1. FactInv'
    BY <1>1, <1>2, LoadKeeps DEF AskAndWait
  <2> QED  BY <1>2, <2>1, OnlyFacts DEF AskStep, AskAndWait
<1>3. ASSUME NEW refresh \in BOOLEAN, Poll(k, c, refresh) PROVE Inv'
  <2>1. FactInv'
    BY <1>1, <1>3, PollKeeps
  <2> QED  BY <1>3, <2>1, OnlyFacts DEF AskStep, Poll
<1> QED  BY <1>2, <1>3 DEF AskStep

LEMMA BuildStepKeeps == ASSUME Inv, NEW c \in Courses, BuildStep(c) PROVE Inv'
<1>1. FactInv' /\ index' = index
  BY BuildEndKeeps, InvByPart DEF BuildStep, BuildDone, BuildFails
<1> QED  BY <1>1, OnlyFacts DEF BuildStep

LEMMA DismissKeeps ==
    ASSUME Inv, NEW k \in Clients, Dismiss(k), UNCHANGED starterVars PROVE Inv'
<1>1. FactInv /\ lastError' \subseteq Courses
  BY InvByPart DEF Dismiss, FactInv, FactTypeOK
<1>2. FactInv'
  BY <1>1, NoCallTyped, Released DEF Dismiss
<1> QED  BY <1>2, OnlyFacts DEF Dismiss

LEMMA NextInv == Inv /\ [Next]_vars => Inv'
<1> SUFFICES ASSUME Inv, [Next]_vars PROVE Inv'
  OBVIOUS
<1>1. ASSUME NEW c \in Courses, Upload(c) \/ BuildStep(c) PROVE Inv'
  BY <1>1, UploadKeeps, BuildStepKeeps
<1>2. ASSUME NEW c \in Open, ChangeSeeds(c) PROVE Inv'
  BY <1>2, ChangeSeedsKeeps, StarterAssumption
<1>3. ASSUME NEW j \in Jobs, JobStep(j) PROVE Inv'
  BY <1>3, RunAutoKeeps, PrepareKeeps, GenerateKeeps, PersistKeeps, KeepUnsavedKeeps,
     FinishKeeps, FailKeeps DEF JobStep
<1>4. ASSUME NEW j \in Jobs, NEW c \in Courses, AdminStarts(j, c) PROVE Inv'
  BY <1>4, AdminStartsKeeps
<1>5. ASSUME NEW k \in Clients, NEW c \in Open, AskStep(k, c) PROVE Inv'
  BY <1>5, AskKeeps, StarterAssumption
<1>6. ASSUME NEW k \in Clients, Dismiss(k), UNCHANGED starterVars PROVE Inv'
  BY <1>6, DismissKeeps
<1>7. CASE Restart
  BY <1>7, RestartKeeps
<1>8. CASE UNCHANGED vars
  <2>1. FactInv'
    BY <1>8, InvByPart, FactsStay DEF vars
  <2> QED  BY <1>8, <2>1, OnlyFacts DEF vars, factVars
<1> QED  BY <1>1, <1>2, <1>3, <1>4, <1>5, <1>6, <1>7, <1>8 DEF Next

LEMMA StarterInvariant == Spec => []Inv
<1> QED  BY InitInv, NextInv, PTL DEF Spec

---------------------------------------------------------------------------
(* The theorems.                                                           *)

\* One starter job runs at a time, the slot and the set of active courses say
\* whose, and no course is left refusing later jobs but by a fault (starter_jobs.py,
\* ollama_coordination.py).
THEOREM StarterIsSafe == Spec => []StarterSafety
<1>1. Inv => StarterSafety
  <2> SUFFICES ASSUME Inv PROVE StarterSafety
    OBVIOUS
  <2>1. JobInv /\ StarterTypeOK
    BY InvByPart DEF JobStates
  <2>2. \A c \in Courses : slot = c => \E j \in JobsOf(c) : Live(j)
    <3> TAKE c \in Courses
    <3> SUFFICES ASSUME slot = c PROVE \E j \in JobsOf(c) : Live(j)
      OBVIOUS
    <3>1. PICK j \in Jobs : Live(j)
      BY <2>1, StarterAssumption DEF JobInv
    <3>2. job[j].course = c
      BY <2>1, <3>1 DEF JobInv, JobHolds
    <3> QED  BY <3>1, <3>2 DEF JobsOf
  <2>3. \A c \in Courses : (\E j \in JobsOf(c) : Live(j)) => slot = c
    BY <2>1 DEF JobInv, JobHolds, JobsOf
  <2>4. SlotIsHeld
    BY <2>1, <2>2, <2>3 DEF SlotIsHeld, JobInv
  <2> QED  BY <2>4 DEF StarterSafety, Inv
<1> QED  BY <1>1, StarterInvariant, PTL

\* An inventory handed out is made from the chunks its caller read, unless it
\* joined a running build (load_or_build_fact_inventory).
THEOREM AnswersAreForOwnChunks == Spec => []AnsweredForOwnChunks
<1>1. Inv => AnsweredForOwnChunks
  BY DEF Inv, FactInv
<1> QED  BY <1>1, StarterInvariant, PTL

\* Nobody awaits a build that is not running (start_fact_inventory_build,
\* _on_build_done).
THEOREM NobodyIsForgotten == Spec => []NobodyAwaitsNothing
<1>1. Inv => NobodyAwaitsNothing
  BY DEF Inv, FactInv
<1> QED  BY <1>1, StarterInvariant, PTL

---------------------------------------------------------------------------
(* One run: the slots it shares out.                                       *)

---------------------------------------------------------------------------
(* The allocation of slots.                                                *)

\* The slots that have been given, by fact and number.
GivenSlots == {s \in FactIds \X (1 .. MaxSlotsPerFact) : s[2] <= slots[s[1]]}

\* The facts that were admitted, by kind and by series.
OfKind(k) == {id \in Admitted : fact[id].kind = k}
OfSeries(s) == {id \in Admitted : s \in fact[id].series}

\* Who has no slot wants none or is held back by a cap.
NobodyWaits == \A id \in candidates : slots[id] = 0 => Wants(id) = 0 \/ Blocked(id)

\* The counters count at least the facts that were admitted.
CapsInv ==
    /\ \A k \in Kinds : Cardinality(OfKind(k)) <= kindCount[k] /\ Cardinality(OfKind(k)) <= KindCap(k)
    /\ \A s \in Series : Cardinality(OfSeries(s)) <= seriesCount[s] /\ Cardinality(OfSeries(s)) <= PerSeries

\* Breadth ends with no room, or with nobody who is held back by nothing.
BreadthInv ==
    \/ pass # "breadth" /\ NobodyWaits
    \/ /\ \A id \in FactIds : slots[id] <= 1
       /\ pass = "breadth" \/ ~Room

SlotsInv == AllocationTypeOK /\ NobodyOverfed /\ CapsInv /\ BreadthInv /\ allocated = Cardinality(GivenSlots)

\* A fact has a rank, and wants at most three slots (compute_desired_slots).
LEMMA WhatAFactWants ==
    ASSUME NEW f \in Facts
    PROVE  Rank(f) \in Int /\ Desired(f) \in 0 .. MaxSlotsPerFact
<1>1. /\ f.usefulness \in Int /\ f.importanceScore \in Int /\ f.ask \in Int /\ f.complexity \in Nat \ {0}
  BY DEF Facts
<1> DEFINE u == f.usefulness  i == f.importanceScore  a == f.ask  c == f.complexity
           sp == ScopePrior(f.scope)  kp == KindPrior(f.kind)
           sum == 35 * u + 25 * i + 20 * a + 250 * Least(4, c - 1) + sp + kp
<1>2. sp \in Int  BY DEF ScopePrior
<1>3. kp \in Int  BY DEF KindPrior
<1>4. Least(4, c - 1) \in Int  BY <1>1 DEF Least
<1> HIDE DEF sp, kp
<1>5. sum \in Int
  <2>1. 35 * u \in Int /\ 25 * i \in Int /\ 20 * a \in Int  BY <1>1
  <2>2. 250 * Least(4, c - 1) \in Int  BY <1>4
  <2> QED  BY <1>2, <1>3, <2>1, <2>2
<1>6. Rank(f) = Most(0, Least(10000, sum))  BY DEF Rank, sp, kp
<1> HIDE DEF sum
<1>7. Rank(f) \in Int  BY <1>5, <1>6 DEF Most, Least
<1>8. Justified(f) \in 1 .. 3
  <2>1. c \div 2 \in Nat  BY <1>1
  <2> QED  BY <1>1, <2>1 DEF Justified, Least, Most, MaxSlotsPerFact
<1>9. Desired(f) \in {0, 1, Justified(f)}
  <2> DEFINE none == \/ IsResource(f) /\ (f.usefulness < 50 \/ f.importance = "low" \/ f.ask < 40)
                     \/ Rank(f) < MinEligibleRank
             one == \/ f.kind \in {"contact", "office_hours", "deadline"} /\ f.complexity <= 1
                    \/ IsResource(f)
  <2>1. Desired(f) = CASE none -> 0 [] OTHER -> IF one THEN 1 ELSE Justified(f)  BY DEF Desired
  <2> HIDE DEF none, one
  <2> QED  BY <2>1
<1> QED  BY <1>7, <1>8, <1>9 DEF MaxSlotsPerFact

\* The caps are numbers, whatever the target.
LEMMA CapsAreNumbers ==
    ASSUME target \in Nat
    PROVE  PerSeries \in Nat /\ \A k : KindCap(k) \in Nat
<1>1. \A p \in Nat : RatioCap(p) \in Nat
  <2> SUFFICES ASSUME NEW p \in Nat PROVE RatioCap(p) \in Nat  OBVIOUS
  <2>1. target * p \in Nat  OBVIOUS
  <2> DEFINE q == target * p
  <2>2. q \div 100 \in Nat
    <3>1. q \in Nat  BY <2>1
    <3> HIDE DEF q
    <3> QED  BY <3>1
  <2>3. RatioCap(p) = IF target = 0 THEN 0 ELSE Most(1, q \div 100)  BY DEF RatioCap
  <2> HIDE DEF q
  <2> QED  BY <2>2, <2>3 DEF Most
<1>2. RatioCap(18) \in Nat /\ RatioCap(22) \in Nat /\ RatioCap(25) \in Nat  BY <1>1
<1> QED  BY <1>2 DEF PerSeries, KindCap, Least

\* What the type of an allocation says of its facts.
LEMMA FactsOfTheRun ==
    ASSUME AllocationTypeOK
    PROVE  /\ target \in Nat /\ allocated \in Nat /\ IsFiniteSet(FactIds) /\ FactIds \subseteq Nat
           /\ \A id \in FactIds :
                /\ fact[id] \in Facts /\ fact[id].kind \in Kinds /\ fact[id].series \subseteq Series
                /\ fact[id].chunk \subseteq Chunks
                /\ slots[id] \in 0 .. 3 /\ Wants(id) \in 0 .. 3 /\ Rank(fact[id]) \in Int
<1>1. target \in Nat /\ allocated \in Nat /\ IsFiniteSet(FactIds) /\ FactIds \subseteq Nat
  BY AllocationAssumption DEF AllocationTypeOK
<1>2. \A id \in FactIds : fact[id] \in Facts /\ slots[id] \in 0 .. 3
  BY AllocationAssumption DEF AllocationTypeOK, MaxSlotsPerFact
<1>3. \A id \in FactIds : Wants(id) \in 0 .. 3 /\ Rank(fact[id]) \in Int
  BY <1>2, WhatAFactWants DEF Wants, MaxSlotsPerFact
<1>4. \A f \in Facts : f.kind \in Kinds /\ f.series \subseteq Series /\ f.chunk \subseteq Chunks
  BY DEF Facts
<1> QED  BY <1>1, <1>2, <1>3, <1>4

\* Before the first slot is given.
LEMMA InitSlots == AllocationInit => SlotsInv
<1> SUFFICES ASSUME AllocationInit PROVE SlotsInv  OBVIOUS
<1>1. AllocationTypeOK  BY DEF AllocationInit, AllocationTypeOK, MaxSlotsPerFact
<1>2. \A id \in FactIds : slots[id] = 0  BY DEF AllocationInit
<1>3. allocated = 0 /\ pass = "breadth"  BY DEF AllocationInit
<1>4. NobodyOverfed
  BY <1>1, <1>2, <1>3, FactsOfTheRun DEF NobodyOverfed
<1>5. Admitted = {} /\ GivenSlots = {}
  <2>1. Admitted = {}  BY <1>2 DEF Admitted
  <2>2. GivenSlots = {}  BY <1>2 DEF GivenSlots
  <2> QED  BY <2>1, <2>2
<1>6. CapsInv
  <2>1. \A k : OfKind(k) = {} /\ OfSeries(k) = {}  BY <1>5 DEF OfKind, OfSeries
  <2>2. PerSeries \in Nat /\ \A k : KindCap(k) \in Nat  BY <1>1, FactsOfTheRun, CapsAreNumbers
  <2>3. (\A k \in Kinds : kindCount[k] \in Nat) /\ (\A s \in Series : seriesCount[s] \in Nat)
    BY <1>1 DEF AllocationTypeOK
  <2> QED  BY <2>1, <2>2, <2>3, FS_EmptySet DEF CapsInv
<1>7. BreadthInv  BY <1>2, <1>3 DEF BreadthInv
<1> QED  BY <1>1, <1>3, <1>4, <1>5, <1>6, <1>7, FS_EmptySet DEF SlotsInv

\* The breadth pass ends for want of room, or with nobody waiting who could be
\* served: NobodyWaits holds from then on.
LEMMA PassEndsKeeps == ASSUME SlotsInv, PassEnds PROVE SlotsInv'
<1>1. /\ target' = target /\ fact' = fact /\ candidates' = candidates /\ slots' = slots
      /\ kindCount' = kindCount /\ seriesCount' = seriesCount /\ chunkCount' = chunkCount
      /\ allocated' = allocated /\ courseWide' = courseWide
      /\ pass \in {"breadth", "depth"} /\ pass' = IF pass = "breadth" THEN "depth" ELSE "allocated"
      /\ ~Room \/ \A id \in candidates : ~Competes(id)
  BY DEF PassEnds
<1>2. AllocationTypeOK'  BY <1>1 DEF SlotsInv, AllocationTypeOK
<1>3. \A id : Wants(id)' = Wants(id) /\ Blocked(id)' = Blocked(id)
  BY <1>1 DEF Wants, Blocked, PerSourceChunk, KindCap, PerSeries, RatioCap
<1>4. NobodyOverfed'  BY <1>1, <1>3 DEF SlotsInv, NobodyOverfed
<1>5. CapsInv'
  BY <1>1 DEF SlotsInv, CapsInv, OfKind, OfSeries, Admitted, KindCap, PerSeries, RatioCap
<1>6. GivenSlots' = GivenSlots  BY <1>1 DEF GivenSlots
<1>7. NobodyWaits' <=> NobodyWaits  BY <1>1, <1>3 DEF NobodyWaits
<1>8. Room' <=> Room  BY <1>1 DEF Room
<1>9. BreadthInv'
  <2>1. CASE NobodyWaits
    <3>1. pass' # "breadth"  BY <1>1
    <3> QED  BY <1>7, <2>1, <3>1 DEF BreadthInv
  <2>2. CASE ~NobodyWaits
    <3>1. (\A id \in FactIds : slots[id] <= 1) /\ (pass = "breadth" \/ ~Room)
      BY <2>2 DEF SlotsInv, BreadthInv
    <3>2. ~Room
      <4> SUFFICES ASSUME Room, pass = "breadth" PROVE FALSE  BY <3>1
      <4>1. \A id \in candidates : ~Competes(id)  BY <1>1
      <4>2. ASSUME NEW id \in candidates, slots[id] = 0 PROVE Wants(id) = 0 \/ Blocked(id)
        <5>1. id \in FactIds  BY DEF SlotsInv, AllocationTypeOK
        <5>2. Wants(id) \in 0 .. 3  BY <5>1, FactsOfTheRun DEF SlotsInv
        <5> QED  BY <4>1, <4>2, <5>2 DEF Competes, Due
      <4> QED  BY <2>2, <4>2 DEF NobodyWaits
    <3> QED  BY <1>1, <1>8, <3>1, <3>2 DEF BreadthInv
  <2> QED  BY <2>1, <2>2
<1> QED  BY <1>1, <1>2, <1>4, <1>5, <1>6, <1>9 DEF SlotsInv

\* A slot more for one fact.  The counters count at least the facts that were
\* admitted, and a fact is admitted only below its caps; later slots only raise
\* counters, so that who was held back stays held back.
LEMMA CommitSlotKeeps == ASSUME SlotsInv, NEW id \in candidates, CommitSlot(id) PROVE SlotsInv'
<1>1. /\ target' = target /\ fact' = fact /\ candidates' = candidates /\ pass' = pass
      /\ slots' = [slots EXCEPT ![id] = @ + 1] /\ allocated' = allocated + 1
      /\ kindCount' = Count(kindCount, {fact[id].kind})
      /\ seriesCount' = Count(seriesCount, fact[id].series)
      /\ chunkCount' = Count(chunkCount, fact[id].chunk)
      /\ courseWide' = courseWide + (IF fact[id].scope = "course_wide" THEN 1 ELSE 0)
      /\ pass \in {"breadth", "depth"} /\ Room /\ Due(id) /\ ~Blocked(id)
  BY DEF CommitSlot, Competes
<1>2. AllocationTypeOK /\ id \in FactIds  BY DEF SlotsInv, AllocationTypeOK
<1>3. /\ \A other \in FactIds : slots[other] \in 0 .. 3 /\ Wants(other) \in 0 .. 3
      /\ fact[id].kind \in Kinds /\ fact[id].series \subseteq Series /\ fact[id].chunk \subseteq Chunks
      /\ IsFiniteSet(FactIds) /\ target \in Nat /\ allocated \in Nat
  BY <1>2, FactsOfTheRun
<1>4. slots[id] < Wants(id) /\ (pass = "breadth" <=> slots[id] = 0)  BY <1>1 DEF Due
<1>5. /\ slots' \in [FactIds -> 0 .. 3] /\ slots'[id] = slots[id] + 1
      /\ \A other \in FactIds : other # id => slots'[other] = slots[other]
  <2>1. slots \in [FactIds -> 0 .. 3]  BY <1>2 DEF AllocationTypeOK, MaxSlotsPerFact
  <2>2. slots[id] + 1 \in 0 .. 3  BY <1>2, <1>3, <1>4
  <2> QED  BY <1>1, <1>2, <2>1, <2>2
<1>6. /\ kindCount' \in [Kinds -> Nat] /\ seriesCount' \in [Series -> Nat] /\ chunkCount' \in [Chunks -> Nat]
      /\ \A k \in Kinds : kindCount'[k] = kindCount[k] + (IF k = fact[id].kind THEN 1 ELSE 0)
      /\ \A s \in Series : seriesCount'[s] = seriesCount[s] + (IF s \in fact[id].series THEN 1 ELSE 0)
      /\ \A c \in Chunks : chunkCount'[c] = chunkCount[c] + (IF c \in fact[id].chunk THEN 1 ELSE 0)
  <2>1. ASSUME NEW D, NEW f \in [D -> Nat], NEW K
        PROVE  Count(f, K) \in [D -> Nat] /\ \A d \in D : Count(f, K)[d] = f[d] + (IF d \in K THEN 1 ELSE 0)
    BY DEF Count
  <2>2. kindCount \in [Kinds -> Nat] /\ seriesCount \in [Series -> Nat] /\ chunkCount \in [Chunks -> Nat]
    BY <1>2 DEF AllocationTypeOK
  <2>3. /\ kindCount' \in [Kinds -> Nat]
        /\ \A k \in Kinds : kindCount'[k] = kindCount[k] + (IF k \in {fact[id].kind} THEN 1 ELSE 0)
    BY <1>1, <2>1, <2>2
  <2>4. /\ seriesCount' \in [Series -> Nat]
        /\ \A s \in Series : seriesCount'[s] = seriesCount[s] + (IF s \in fact[id].series THEN 1 ELSE 0)
    BY <1>1, <2>1, <2>2
  <2>5. /\ chunkCount' \in [Chunks -> Nat]
        /\ \A c \in Chunks : chunkCount'[c] = chunkCount[c] + (IF c \in fact[id].chunk THEN 1 ELSE 0)
    BY <1>1, <2>1, <2>2
  <2> QED  BY <2>3, <2>4, <2>5
<1>7. AllocationTypeOK'
  <2>1. allocated' \in Nat /\ courseWide' \in Nat  BY <1>1, <1>2 DEF AllocationTypeOK
  <2> QED  BY <1>1, <1>2, <1>5, <1>6, <2>1 DEF AllocationTypeOK, MaxSlotsPerFact
<1>8. \A other : Wants(other)' = Wants(other)  BY <1>1 DEF Wants
<1>9. NobodyOverfed'
  <2>1. allocated' <= target'  BY <1>1, <1>3 DEF Room
  <2>2. ASSUME NEW other \in FactIds PROVE slots'[other] <= Wants(other)
    <3>1. slots[other] <= Wants(other)  BY DEF SlotsInv, NobodyOverfed
    <3> QED  BY <1>3, <1>4, <1>5, <3>1
  <2> QED  BY <1>8, <2>1, <2>2 DEF NobodyOverfed
<1>10. Admitted' = Admitted \cup {id} /\ (id \in Admitted <=> slots[id] # 0) /\ Admitted \subseteq FactIds
  BY <1>2, <1>3, <1>5 DEF Admitted
<1>11. CapsInv'
  <2>1. \A k \in Kinds : kindCount[k] \in Nat /\ KindCap(k) \in Nat
    BY <1>2, <1>3, CapsAreNumbers DEF AllocationTypeOK
  <2>2. \A s \in Series : seriesCount[s] \in Nat /\ PerSeries \in Nat
    BY <1>2, <1>3, CapsAreNumbers DEF AllocationTypeOK
  <2>3. \A k : KindCap(k)' = KindCap(k)  BY <1>1 DEF KindCap, RatioCap
  <2>4. PerSeries' = PerSeries  BY <1>1 DEF PerSeries, RatioCap
  <2>5. \A k : IsFiniteSet(OfKind(k)) /\ Cardinality(OfKind(k)) \in Nat
    <3>1. \A k : OfKind(k) \in SUBSET FactIds  BY <1>10 DEF OfKind
    <3> QED  BY <1>3, <3>1, FS_Subset, FS_CardinalityType
  <2>6. \A s : IsFiniteSet(OfSeries(s)) /\ Cardinality(OfSeries(s)) \in Nat
    <3>1. \A s : OfSeries(s) \in SUBSET FactIds  BY <1>10 DEF OfSeries
    <3> QED  BY <1>3, <3>1, FS_Subset, FS_CardinalityType
  <2>7. ASSUME NEW k \in Kinds
        PROVE  Cardinality(OfKind(k)') <= kindCount'[k] /\ Cardinality(OfKind(k)') <= KindCap(k)
    <3>1. Cardinality(OfKind(k)) <= kindCount[k] /\ Cardinality(OfKind(k)) <= KindCap(k)
      BY DEF SlotsInv, CapsInv
    <3>2. CASE k = fact[id].kind /\ slots[id] = 0
      <4>1. OfKind(k)' = OfKind(k) \cup {id}  BY <1>1, <1>10, <3>2 DEF OfKind
      <4>2. Cardinality(OfKind(k)') <= Cardinality(OfKind(k)) + 1
        BY <2>5, <4>1, FS_AddElement
      <4>3. ~(kindCount[k] >= KindCap(k))  BY <1>1, <3>2 DEF Blocked
      <4>4. kindCount'[k] = kindCount[k] + 1  BY <1>6, <3>2
      <4>5. IsFiniteSet(OfKind(k)') /\ Cardinality(OfKind(k)') \in Nat
        BY <2>5, <4>1, FS_AddElement, FS_CardinalityType
      <4> QED  BY <2>1, <2>5, <3>1, <4>2, <4>3, <4>4, <4>5
    <3>3. CASE ~(k = fact[id].kind /\ slots[id] = 0)
      <4>1. OfKind(k)' = OfKind(k)  BY <1>1, <1>10, <3>3 DEF OfKind
      <4>2. kindCount'[k] >= kindCount[k] /\ kindCount'[k] \in Nat  BY <1>6, <2>1
      <4> QED  BY <2>1, <2>5, <3>1, <4>1, <4>2
    <3> QED  BY <3>2, <3>3
  <2>8. ASSUME NEW s \in Series
        PROVE  Cardinality(OfSeries(s)') <= seriesCount'[s] /\ Cardinality(OfSeries(s)') <= PerSeries
    <3>1. Cardinality(OfSeries(s)) <= seriesCount[s] /\ Cardinality(OfSeries(s)) <= PerSeries
      BY DEF SlotsInv, CapsInv
    <3>2. CASE s \in fact[id].series /\ slots[id] = 0
      <4>1. OfSeries(s)' = OfSeries(s) \cup {id}  BY <1>1, <1>10, <3>2 DEF OfSeries
      <4>2. Cardinality(OfSeries(s)') <= Cardinality(OfSeries(s)) + 1
        BY <2>6, <4>1, FS_AddElement
      <4>3. ~(seriesCount[s] >= PerSeries)  BY <1>1, <3>2 DEF Blocked
      <4>4. seriesCount'[s] = seriesCount[s] + 1  BY <1>6, <3>2
      <4>5. IsFiniteSet(OfSeries(s)') /\ Cardinality(OfSeries(s)') \in Nat
        BY <2>6, <4>1, FS_AddElement, FS_CardinalityType
      <4> QED  BY <2>2, <2>6, <3>1, <4>2, <4>3, <4>4, <4>5
    <3>3. CASE ~(s \in fact[id].series /\ slots[id] = 0)
      <4>1. OfSeries(s)' = OfSeries(s)  BY <1>1, <1>10, <3>3 DEF OfSeries
      <4>2. seriesCount'[s] >= seriesCount[s] /\ seriesCount'[s] \in Nat  BY <1>6, <2>2
      <4> QED  BY <2>2, <2>6, <3>1, <4>1, <4>2
    <3> QED  BY <3>2, <3>3
  <2> QED  BY <2>3, <2>4, <2>7, <2>8 DEF CapsInv
<1>12. BreadthInv'
  <2>1. CASE pass = "breadth"
    <3>1. \A other \in FactIds : slots[other] <= 1
      BY <2>1 DEF SlotsInv, BreadthInv
    <3>2. \A other \in FactIds : slots'[other] <= 1  BY <1>4, <1>5, <2>1, <3>1
    <3> QED  BY <1>1, <2>1, <3>2 DEF BreadthInv
  <2>2. CASE pass # "breadth"
    <3>1. NobodyWaits  BY <1>1, <2>2 DEF SlotsInv, BreadthInv
    <3>2. ASSUME NEW other \in candidates, slots'[other] = 0 PROVE (Wants(other) = 0 \/ Blocked(other))'
      <4>1. other # id /\ other \in FactIds /\ slots[other] = 0
        BY <1>2, <1>3, <1>5, <3>2 DEF AllocationTypeOK
      <4>2. Wants(other) = 0 \/ Blocked(other)  BY <3>1, <4>1 DEF NobodyWaits
      <4>3. CASE Blocked(other)
        <5>1. /\ fact[other].kind \in Kinds /\ fact[other].series \subseteq Series
              /\ fact[other].chunk \subseteq Chunks
          BY <1>2, <4>1, FactsOfTheRun
        <5>2. /\ \A k \in Kinds : kindCount[k] \in Nat /\ kindCount'[k] >= kindCount[k]
              /\ \A s \in Series : seriesCount[s] \in Nat /\ seriesCount'[s] >= seriesCount[s]
              /\ \A c \in Chunks : chunkCount[c] \in Nat /\ chunkCount'[c] >= chunkCount[c]
          BY <1>2, <1>6 DEF AllocationTypeOK
        <5>3. /\ PerSourceChunk' = PerSourceChunk /\ PerSeries' = PerSeries
              /\ KindCap(fact[other].kind)' = KindCap(fact[other].kind)
          BY <1>1 DEF PerSourceChunk, PerSeries, KindCap, RatioCap
        <5>4. PerSeries \in Nat /\ KindCap(fact[other].kind) \in Nat  BY <1>3, CapsAreNumbers
        <5>5. PerSourceChunk \in Nat
          <6>1. RatioCap(12) \in Int
            <7>1. target * 12 \in Nat  BY <1>3
            <7>2. \A n \in Nat : n \div 100 \in Nat  OBVIOUS
            <7> QED  BY <7>1, <7>2 DEF RatioCap, Most
          <6> QED  BY <6>1 DEF PerSourceChunk, Most, MaxSlotsPerFact
        <5>6. fact'[other] = fact[other] /\ slots'[other] = 0  BY <1>1, <3>2
        <5>7. CASE \E c \in fact[other].chunk : chunkCount[c] >= PerSourceChunk
          <6>1. PICK c \in fact[other].chunk : chunkCount[c] >= PerSourceChunk  BY <5>7
          <6>2. chunkCount'[c] >= PerSourceChunk
            <7>1. chunkCount[c] \in Nat /\ chunkCount'[c] \in Nat /\ chunkCount'[c] >= chunkCount[c]
              BY <1>6, <5>1, <5>2, <6>1
            <7> QED  BY <5>5, <6>1, <7>1
          <6> QED  BY <5>3, <5>6, <6>2 DEF Blocked
        <5>8. CASE kindCount[fact[other].kind] >= KindCap(fact[other].kind)
          <6>1. kindCount'[fact[other].kind] >= KindCap(fact[other].kind)
            BY <1>6, <5>1, <5>2, <5>4, <5>8
          <6> QED  BY <5>3, <5>6, <6>1 DEF Blocked
        <5>9. CASE \E s \in fact[other].series : seriesCount[s] >= PerSeries
          <6>1. PICK s \in fact[other].series : seriesCount[s] >= PerSeries  BY <5>9
          <6>2. seriesCount'[s] >= PerSeries
            <7>1. seriesCount[s] \in Nat /\ seriesCount'[s] \in Nat /\ seriesCount'[s] >= seriesCount[s]
              BY <1>6, <5>1, <5>2, <6>1
            <7> QED  BY <5>4, <6>1, <7>1
          <6> QED  BY <5>3, <5>6, <6>2 DEF Blocked
        <5> QED  BY <4>3, <5>7, <5>8, <5>9 DEF Blocked
      <4> QED  BY <1>8, <4>2, <4>3
    <3>3. NobodyWaits'  BY <1>1, <3>2 DEF NobodyWaits
    <3> QED  BY <1>1, <2>2, <3>3 DEF BreadthInv
  <2> QED  BY <2>1, <2>2
<1>13. allocated' = Cardinality(GivenSlots')
  <2> DEFINE new == <<id, slots[id] + 1>>
  <2>1. slots[id] \in 0 .. 2  BY <1>2, <1>3, <1>4
  <2>2. new \in FactIds \X (1 .. 3) /\ new \notin GivenSlots
    BY <1>2, <2>1 DEF GivenSlots
  <2>3. GivenSlots' = GivenSlots \cup {new}
    <3>1. ASSUME NEW s \in FactIds \X (1 .. 3)
          PROVE  s[2] <= slots'[s[1]] <=> s[2] <= slots[s[1]] \/ s = new
      <4>1. PICK x \in FactIds, k \in 1 .. 3 : s = <<x, k>>  OBVIOUS
      <4>2. CASE x # id
        BY <1>5, <4>1, <4>2
      <4>3. CASE x = id
        <5>1. k <= slots[id] + 1 <=> k <= slots[id] \/ k = slots[id] + 1  BY <2>1
        <5> QED  BY <1>5, <4>1, <4>3, <5>1
      <4> QED  BY <4>2, <4>3
    <3> QED  BY <2>2, <3>1 DEF GivenSlots, MaxSlotsPerFact
  <2>4. IsFiniteSet(GivenSlots)
    <3>1. IsFiniteSet(FactIds \X (1 .. 3))
      <4>1. 1 \in Int /\ 3 \in Int  OBVIOUS
      <4>2. IsFiniteSet(1 .. 3)  BY <4>1, FS_Interval
      <4> QED  BY <1>3, <4>2, FS_Product
    <3>2. GivenSlots \in SUBSET (FactIds \X (1 .. 3))  BY DEF GivenSlots, MaxSlotsPerFact
    <3> QED  BY <3>1, <3>2, FS_Subset
  <2>5. Cardinality(GivenSlots') = Cardinality(GivenSlots) + 1
    BY <2>2, <2>3, <2>4, FS_AddElement
  <2> QED  BY <1>1, <2>5 DEF SlotsInv
<1> QED  BY <1>7, <1>9, <1>11, <1>12, <1>13 DEF SlotsInv

\* A step of the allocation.
LEMMA SlotsStep == SlotsInv /\ [Allocate]_allocationVars => SlotsInv'
<1> SUFFICES ASSUME SlotsInv, [Allocate]_allocationVars PROVE SlotsInv'  OBVIOUS
<1>1. CASE Allocate
  BY <1>1, PassEndsKeeps, CommitSlotKeeps DEF Allocate
<1>2. CASE UNCHANGED allocationVars
  <2>1. /\ target' = target /\ fact' = fact /\ candidates' = candidates /\ slots' = slots
        /\ kindCount' = kindCount /\ seriesCount' = seriesCount /\ chunkCount' = chunkCount
        /\ allocated' = allocated /\ courseWide' = courseWide /\ pass' = pass
    BY <1>2 DEF allocationVars
  <2>2. AllocationTypeOK'  BY <2>1 DEF SlotsInv, AllocationTypeOK
  <2>3. \A id : Wants(id)' = Wants(id) /\ Blocked(id)' = Blocked(id)
    BY <2>1 DEF Wants, Blocked, PerSourceChunk, KindCap, PerSeries, RatioCap
  <2>4. NobodyOverfed'  BY <2>1, <2>3 DEF SlotsInv, NobodyOverfed
  <2>5. CapsInv'
    BY <2>1 DEF SlotsInv, CapsInv, OfKind, OfSeries, Admitted, KindCap, PerSeries, RatioCap
  <2>6. GivenSlots' = GivenSlots  BY <2>1 DEF GivenSlots
  <2>7. BreadthInv'  BY <2>1, <2>3 DEF SlotsInv, BreadthInv, NobodyWaits, Room
  <2> QED  BY <2>1, <2>2, <2>4, <2>5, <2>6, <2>7 DEF SlotsInv
<1> QED  BY <1>1, <1>2

\* What the invariant says of who got what.
LEMMA SlotsAreFair == SlotsInv => NobodyOverfed /\ NoKindFloods /\ BreadthFirst
<1> SUFFICES ASSUME SlotsInv PROVE NobodyOverfed /\ NoKindFloods /\ BreadthFirst  OBVIOUS
<1>1. NoKindFloods  BY DEF SlotsInv, CapsInv, NoKindFloods, OfKind, OfSeries
<1>2. BreadthFirst
  <2> SUFFICES ASSUME NEW id \in FactIds, slots[id] >= 2
               PROVE  NobodyWaits
    BY DEF BreadthFirst, NobodyWaits
  <2>1. slots[id] \in 0 .. 3  BY FactsOfTheRun DEF SlotsInv
  <2>2. ~(slots[id] <= 1)  BY <2>1
  <2> QED  BY <2>2 DEF SlotsInv, BreadthInv
<1> QED  BY <1>1, <1>2 DEF SlotsInv

---------------------------------------------------------------------------
(* The opportunities of a run.                                             *)

\* What a plan is made of.
Opportunities == [fact : FactIds, width : 0 .. 3]

\* A set of facts can be listed by rank, each fact once.
LEMMA InRankOrder ==
    ASSUME AllocationTypeOK, NEW S \in SUBSET FactIds
    PROVE  LET order == InOrder(S, ByRank) IN
           /\ Cardinality(S) \in Nat /\ order \in [1 .. Cardinality(S) -> S]
           /\ \A i, j \in 1 .. Cardinality(S) : order[i] = order[j] => i = j
           /\ \A x \in S : \E i \in 1 .. Cardinality(S) : order[i] = x
<1> DEFINE R == {p \in S \X S : ByRank(p[1], p[2])}
<1>1. IsFiniteSet(S) /\ Cardinality(S) \in Nat /\ S \subseteq Nat /\ \A x \in S : Rank(fact[x]) \in Int
  BY FactsOfTheRun, FS_Subset, FS_CardinalityType
<1>2. \A x, y \in S : <<x, y>> \in R <=> ByRank(x, y)  OBVIOUS
<1> HIDE DEF R
<1> DEFINE worth(x) == Rank(fact[x])
<1>3. /\ \A x \in S : x \in Nat /\ worth(x) \in Int
      /\ \A x, y \in S : ByRank(x, y) <=> worth(x) > worth(y) \/ (worth(x) = worth(y) /\ x < y)
  BY <1>1 DEF ByRank
<1> HIDE DEF worth
<1>4. /\ \A x \in S : <<x, x>> \notin R
      /\ \A x, y \in S : x = y \/ <<x, y>> \in R \/ <<y, x>> \in R
      /\ \A x, y, z \in S : <<x, y>> \in R /\ <<y, z>> \in R => <<x, z>> \in R
  <2>1. ASSUME NEW x \in S PROVE <<x, x>> \notin R  BY <1>2, <1>3
  <2>2. ASSUME NEW x \in S, NEW y \in S PROVE x = y \/ <<x, y>> \in R \/ <<y, x>> \in R
    <3>1. x \in Nat /\ y \in Nat /\ worth(x) \in Int /\ worth(y) \in Int  BY <1>3
    <3>2. x = y \/ ByRank(x, y) \/ ByRank(y, x)  BY <1>3, <3>1
    <3> QED  BY <1>2, <3>2
  <2>3. ASSUME NEW x \in S, NEW y \in S, NEW z \in S, <<x, y>> \in R, <<y, z>> \in R
        PROVE  <<x, z>> \in R
    <3>1. x \in Nat /\ y \in Nat /\ z \in Nat /\ worth(x) \in Int /\ worth(y) \in Int /\ worth(z) \in Int
      BY <1>3
    <3>2. ByRank(x, y) /\ ByRank(y, z)  BY <1>2, <2>3
    <3>3. ByRank(x, z)  BY <1>3, <3>1, <3>2
    <3> QED  BY <1>2, <3>3
  <2> QED  BY <2>1, <2>2, <2>3
<1>5. PICK e \in [1 .. Cardinality(S) -> S] : Ascending(e, Cardinality(S), R)
  BY <1>1, <1>4, OrderExists
<1>6. \A f \in [1 .. Cardinality(S) -> S] :
        Ascending(f, Cardinality(S), R) <=> \A i, j \in 1 .. Cardinality(S) : i < j => ByRank(f[i], f[j])
  BY <1>2 DEF Ascending
<1> DEFINE order == CHOOSE f \in [1 .. Cardinality(S) -> S] :
                        \A i, j \in 1 .. Cardinality(S) : i < j => ByRank(f[i], f[j])
<1>8. order \in [1 .. Cardinality(S) -> S] /\ Ascending(order, Cardinality(S), R)
  BY <1>5, <1>6
<1> HIDE DEF order
<1>9. /\ \A i, j \in 1 .. Cardinality(S) : order[i] = order[j] => i = j
      /\ \A x \in S : \E i \in 1 .. Cardinality(S) : order[i] = x
  <2>1. PICK Q : Q = R  OBVIOUS
  <2>2. \A x \in S : <<x, x>> \notin Q  BY <1>4, <2>1
  <2>3. PICK f \in [1 .. Cardinality(S) -> S] : f = order /\ Ascending(f, Cardinality(S), Q)
    BY <1>8, <2>1
  <2>4. /\ \A i, j \in 1 .. Cardinality(S) : f[i] = f[j] => i = j
        /\ \A x \in S : \E i \in 1 .. Cardinality(S) : f[i] = x
    <3>1. IsFiniteSet(S)  BY <1>1
    <3>2. Ascending(f, Cardinality(S), Q)  BY <2>3
    <3>3. \A g \in [1 .. Cardinality(S) -> S] : Ascending(g, Cardinality(S), Q) =>
             /\ \A i, j \in 1 .. Cardinality(S) : g[i] = g[j] => i = j
             /\ \A x \in S : \E i \in 1 .. Cardinality(S) : g[i] = x
      BY <2>2, <3>1, AscendingIsOnto
    <3> QED  BY <3>2, <3>3
  <2> QED  BY <2>3, <2>4
<1>10. InOrder(S, ByRank) = order  BY DEF InOrder, order
<1> QED  BY <1>1, <1>8, <1>9, <1>10, Zenon

\* A set of facts can be listed by number.
LEMMA InNumberOrder ==
    ASSUME AllocationTypeOK, NEW S \in SUBSET FactIds
    PROVE  LET order == InOrder(S, LAMBDA a, b : a < b) IN
           Cardinality(S) \in Nat /\ order \in [1 .. Cardinality(S) -> S]
<1> DEFINE R == {p \in S \X S : p[1] < p[2]}
<1>1. IsFiniteSet(S) /\ Cardinality(S) \in Nat /\ \A x \in S : x \in Nat
  BY FactsOfTheRun, FS_Subset, FS_CardinalityType
<1>2. \A x, y \in S : <<x, y>> \in R <=> x < y  OBVIOUS
<1> HIDE DEF R
<1>3. /\ \A x, y \in S : x = y \/ <<x, y>> \in R \/ <<y, x>> \in R
      /\ \A x, y, z \in S : <<x, y>> \in R /\ <<y, z>> \in R => <<x, z>> \in R
  <2>1. ASSUME NEW x \in S, NEW y \in S PROVE x = y \/ <<x, y>> \in R \/ <<y, x>> \in R
    <3>1. x = y \/ x < y \/ y < x  BY <1>1
    <3> QED  BY <1>2, <3>1
  <2>2. ASSUME NEW x \in S, NEW y \in S, NEW z \in S, <<x, y>> \in R, <<y, z>> \in R
        PROVE  <<x, z>> \in R
    <3>1. x < y /\ y < z  BY <1>2, <2>2
    <3>2. x < z  BY <1>1, <3>1
    <3> QED  BY <1>2, <3>2
  <2> QED  BY <2>1, <2>2
<1>4. PICK e \in [1 .. Cardinality(S) -> S] : Ascending(e, Cardinality(S), R)
  BY <1>1, <1>3, OrderExists
<1>5. \A i, j \in 1 .. Cardinality(S) : i < j => e[i] < e[j]
  BY <1>2, <1>4 DEF Ascending
<1> DEFINE order == CHOOSE f \in [1 .. Cardinality(S) -> S] :
                        \A i, j \in 1 .. Cardinality(S) : i < j => f[i] < f[j]
<1>6. order \in [1 .. Cardinality(S) -> S]  BY <1>5
<1>7. InOrder(S, LAMBDA a, b : a < b) = order  BY DEF InOrder
<1> HIDE DEF order
<1> QED  BY <1>1, <1>6, <1>7, Zenon

\* A fact's opportunities.
LEMMA RepeatedIsSeq ==
    ASSUME NEW id \in FactIds, NEW w \in 0 .. 3, NEW n \in Nat
    PROVE  Repeated(Opportunity(id, w), n) \in Seq(Opportunities) /\ Len(Repeated(Opportunity(id, w), n)) = n
<1> DEFINE o == Opportunity(id, w)
<1>1. o \in Opportunities  BY DEF Opportunity, Opportunities
<1> HIDE DEF o
<1>2. Repeated(o, n) \in [1 .. n -> Opportunities]  BY <1>1 DEF Repeated
<1>3. Repeated(o, n) \in Seq(Opportunities) /\ Len(Repeated(o, n)) = n  BY <1>2, SequenceOf
<1> QED  BY <1>3 DEF o

\* Every slot that was given is an opportunity.
LEMMA PrimaryIsAllocated ==
    ASSUME SlotsInv
    PROVE  Primary \in Seq(Opportunities) /\ Len(Primary) = allocated
<1> DEFINE order == InOrder(Admitted, ByRank)
           n == Cardinality(Admitted)
           seqs == [i \in DOMAIN order |-> Repeated(Opportunity(order[i], slots[order[i]]), slots[order[i]])]
           Upto(i) == {s \in GivenSlots : \E j \in 1 .. i : s[1] = order[j]}
           C == [i \in 0 .. n |-> Cardinality(Upto(i))]
<1>1. AllocationTypeOK /\ Admitted \in SUBSET FactIds  BY DEF SlotsInv, Admitted
<1>2. Primary = FlattenSeq(seqs)  BY DEF Primary
<1>3. /\ n \in Nat /\ order \in [1 .. n -> Admitted]
      /\ \A i, j \in 1 .. n : order[i] = order[j] => i = j
      /\ \A x \in Admitted : \E i \in 1 .. n : order[i] = x
  BY <1>1, InRankOrder
<1> HIDE DEF order, n
<1>4. \A i \in 1 .. n : order[i] \in Admitted /\ order[i] \in FactIds /\ slots[order[i]] \in 0 .. 3
  BY <1>1, <1>3, FactsOfTheRun
<1>5. /\ seqs \in [1 .. n -> Seq(Opportunities)]
      /\ \A i \in 1 .. n : Len(seqs[i]) = slots[order[i]]
  <2>1. \A i \in 1 .. n :
          LET r == Repeated(Opportunity(order[i], slots[order[i]]), slots[order[i]])
          IN  r \in Seq(Opportunities) /\ Len(r) = slots[order[i]]
    <3> TAKE i \in 1 .. n
    <3>1. order[i] \in FactIds /\ slots[order[i]] \in 0 .. 3 /\ slots[order[i]] \in Nat  BY <1>4
    <3> QED  BY <3>1, RepeatedIsSeq
  <2>2. DOMAIN order = 1 .. n  BY <1>3
  <2> QED  BY <2>1, <2>2
<1>6. seqs \in Seq(Seq(Opportunities)) /\ Len(seqs) = n
  <2>1. n \in Nat /\ seqs \in [1 .. n -> Seq(Opportunities)]  BY <1>3, <1>5
  <2> HIDE DEF seqs
  <2> QED  BY <2>1, SequenceOf
<1>7. IsFiniteSet(GivenSlots) /\ GivenSlots \subseteq FactIds \X (1 .. 3)
  <2>0. 1 \in Int /\ 3 \in Int  OBVIOUS
  <2>1. IsFiniteSet(1 .. 3)  BY <2>0, FS_Interval
  <2>2. IsFiniteSet(FactIds \X (1 .. 3))  BY <1>1, <2>1, FactsOfTheRun, FS_Product
  <2>3. GivenSlots \in SUBSET (FactIds \X (1 .. 3))  BY DEF GivenSlots, MaxSlotsPerFact
  <2> QED  BY <2>2, <2>3, FS_Subset
<1>8. \A i \in 0 .. n : IsFiniteSet(Upto(i)) /\ Cardinality(Upto(i)) \in Nat
  <2>1. \A i \in 0 .. n : Upto(i) \in SUBSET GivenSlots  OBVIOUS
  <2> HIDE DEF Upto
  <2> QED  BY <1>7, <2>1, FS_Subset, FS_CardinalityType
<1>9. ASSUME NEW i \in 1 .. n PROVE Cardinality(Upto(i)) = Cardinality(Upto(i - 1)) + slots[order[i]]
  <2> DEFINE x == order[i]
             k == slots[order[i]]
             Own == {x} \X (1 .. k)
  <2>1. x \in FactIds /\ k \in 0 .. 3 /\ i - 1 \in 0 .. n  BY <1>3, <1>4
  <2>2. Upto(i) = Upto(i - 1) \cup Own
    <3>1. \A j \in 1 .. i : j = i \/ j \in 1 .. i - 1  BY <1>3
    <3>2. i \in 1 .. i /\ \A j \in 1 .. i - 1 : j \in 1 .. i  BY <1>3
    <3>3. Upto(i) \subseteq Upto(i - 1) \cup Own
      <4> SUFFICES ASSUME NEW s \in GivenSlots, NEW j \in 1 .. i, s[1] = order[j], s \notin Upto(i - 1)
                   PROVE  s \in Own
        OBVIOUS
      <4>1. j = i  BY <3>1
      <4>2. PICK a \in FactIds, b \in 1 .. 3 : s = <<a, b>>  BY <1>7
      <4>3. a = x /\ b <= k  BY <4>1, <4>2 DEF GivenSlots
      <4> QED  BY <2>1, <4>2, <4>3
    <3>4. Upto(i - 1) \subseteq Upto(i)  BY <3>2
    <3>5. Own \subseteq Upto(i)
      <4> SUFFICES ASSUME NEW b \in 1 .. k PROVE <<x, b>> \in Upto(i)  OBVIOUS
      <4>1. <<x, b>> \in GivenSlots  BY <2>1 DEF GivenSlots, MaxSlotsPerFact
      <4> QED  BY <3>2, <4>1
    <3> QED  BY <3>3, <3>4, <3>5
  <2>3. Upto(i - 1) \cap Own = {}
    <3> SUFFICES ASSUME NEW s \in Own, NEW j \in 1 .. i - 1, s[1] = order[j] PROVE FALSE  OBVIOUS
    <3>1. s[1] = order[i]  OBVIOUS
    <3>2. j \in 1 .. n /\ j # i  BY <1>3
    <3> QED  BY <1>3, <3>1, <3>2
  <2>4. IsFiniteSet(Own) /\ Cardinality(Own) = k
    <3>1. IsFiniteSet({x}) /\ Cardinality({x}) = 1  BY FS_Singleton
    <3>2. IsFiniteSet(1 .. k) /\ Cardinality(1 .. k) = k
      <4>1. 1 \in Int /\ k \in Int  BY <2>1
      <4>2. IsFiniteSet(1 .. k) /\ Cardinality(1 .. k) = IF 1 > k THEN 0 ELSE k - 1 + 1
        BY <4>1, FS_Interval
      <4> QED  BY <2>1, <4>2
    <3>3. IsFiniteSet(Own) /\ Cardinality(Own) = Cardinality({x}) * Cardinality(1 .. k)
      BY <3>1, <3>2, FS_Product
    <3> QED  BY <2>1, <3>1, <3>2, <3>3
  <2> HIDE DEF Upto, Own
  <2>5. Cardinality(Upto(i)) = Cardinality(Upto(i - 1)) + Cardinality(Own) - Cardinality({})
    BY <1>8, <2>1, <2>2, <2>3, <2>4, FS_Union
  <2> QED  BY <1>8, <2>1, <2>4, <2>5, FS_EmptySet
<1>10. /\ \A i \in 0 .. n : C[i] \in Nat
       /\ C[0] = 0
       /\ \A i \in 1 .. n : C[i] = C[i - 1] + Len(seqs[i])
  <2>1. \A i \in 0 .. n : C[i] = Cardinality(Upto(i))  OBVIOUS
  <2>2. Upto(0) = {}  OBVIOUS
  <2> HIDE DEF C, Upto, seqs
  <2>3. C[0] = 0
    <3>1. 0 \in 0 .. n  BY <1>3
    <3>2. C[0] = Cardinality({})  BY <2>1, <2>2, <3>1
    <3> QED  BY <3>2, FS_EmptySet
  <2>4. ASSUME NEW i \in 1 .. n PROVE C[i] = C[i - 1] + Len(seqs[i])
    <3>1. i \in 0 .. n /\ i - 1 \in 0 .. n  BY <1>3
    <3> QED  BY <1>5, <1>9, <2>1, <3>1
  <2> QED  BY <1>8, <2>1, <2>3, <2>4
<1>11. Upto(n) = GivenSlots
  <2> SUFFICES ASSUME NEW s \in GivenSlots PROVE \E j \in 1 .. n : s[1] = order[j]  OBVIOUS
  <2>1. PICK a \in FactIds, b \in 1 .. 3 : s = <<a, b>>  BY <1>7
  <2>2. b <= slots[a] /\ slots[a] \in 0 .. 3  BY <1>1, <2>1, FactsOfTheRun DEF GivenSlots
  <2>3. a \in Admitted  BY <2>1, <2>2 DEF Admitted
  <2> QED  BY <1>3, <2>1, <2>3
<1>12. C[n] = allocated
  <2>1. n \in 0 .. n  BY <1>3
  <2>2. C[n] = Cardinality(Upto(n))  BY <2>1
  <2> HIDE DEF C, Upto
  <2> QED  BY <1>11, <2>2 DEF SlotsInv
<1> HIDE DEF seqs, C
<1>13. FlattenSeq(seqs) \in Seq(Opportunities) /\ Len(FlattenSeq(seqs)) = C[n]
  BY <1>6, <1>10, FlattenLength
<1> QED  BY <1>2, <1>12, <1>13

\* The backfill with unused slots keeps to its limit.
LEMMA UnusedIsBounded ==
    ASSUME SlotsInv
    PROVE  BackfillLimit \in Nat /\ Unused \in Seq(Opportunities) /\ Len(Unused) <= BackfillLimit
<1> DEFINE S == {id \in candidates : Wants(id) > slots[id]}
           order == InOrder(S, ByRank)
           n == Cardinality(S)
           seqs == [i \in DOMAIN order |->
                       Repeated(Opportunity(order[i], 1), Wants(order[i]) - slots[order[i]])]
           all == FlattenSeq(seqs)
<1>1. AllocationTypeOK /\ S \in SUBSET FactIds  BY DEF SlotsInv, AllocationTypeOK
<1>2. Unused = SubSeq(all, 1, Least(BackfillLimit, Len(all)))  BY DEF Unused
<1>3. \A id \in S : id \in FactIds /\ Wants(id) - slots[id] \in Nat
  <2> TAKE id \in S
  <2>1. id \in FactIds /\ Wants(id) > slots[id]  BY <1>1
  <2>2. Wants(id) \in 0 .. 3 /\ slots[id] \in 0 .. 3  BY <1>1, <2>1, FactsOfTheRun
  <2> QED  BY <2>1, <2>2
<1>4. n \in Nat /\ order \in [1 .. n -> S]
  <2> HIDE DEF S
  <2> QED  BY <1>1, InRankOrder
<1> HIDE DEF S, n, order
<1>5. seqs \in [1 .. n -> Seq(Opportunities)]
  <2>1. \A i \in 1 .. n : Repeated(Opportunity(order[i], 1), Wants(order[i]) - slots[order[i]]) \in Seq(Opportunities)
    <3> TAKE i \in 1 .. n
    <3>1. order[i] \in FactIds /\ Wants(order[i]) - slots[order[i]] \in Nat  BY <1>3, <1>4
    <3>2. 1 \in 0 .. 3  OBVIOUS
    <3> QED  BY <3>1, <3>2, RepeatedIsSeq
  <2>2. DOMAIN order = 1 .. n  BY <1>4
  <2> QED  BY <2>1, <2>2
<1>6. seqs \in Seq(Seq(Opportunities))
  <2> HIDE DEF seqs
  <2> QED  BY <1>4, <1>5, SequenceOf
<1> HIDE DEF seqs
<1>7. all \in Seq(Opportunities)  BY <1>6, FlattenType
<1> HIDE DEF all
<1>8. BackfillLimit \in Nat  BY <1>1, FactsOfTheRun DEF BackfillLimit, Most
<1>9. PICK m \in Nat : m = Len(all)  BY <1>7
<1>10. PICK k \in Nat : k = Least(BackfillLimit, Len(all)) /\ k <= m /\ k <= BackfillLimit
  BY <1>8, <1>9 DEF Least
<1>11. SubSeq(all, 1, k) \in Seq(Opportunities) /\ Len(SubSeq(all, 1, k)) = k
  BY <1>7, <1>9, <1>10
<1> QED  BY <1>2, <1>8, <1>10, <1>11

\* The backfill with facts that have a seed.
LEMMA CoveredAgainIsSeq ==
    ASSUME SlotsInv, covered \in SUBSET FactIds
    PROVE  CoveredAgain \in Seq(Opportunities)
<1> DEFINE S == covered \ candidates
           order == InOrder(S, LAMBDA a, b : a < b)
           n == Cardinality(S)
           m == Least(Len(order), BackfillLimit - Len(Unused))
           again == [i \in 1 .. m |-> Opportunity(order[i], 1)]
<1>1. AllocationTypeOK /\ S \in SUBSET FactIds  BY DEF SlotsInv
<1>2. CoveredAgain = again  BY DEF CoveredAgain
<1>3. n \in Nat /\ order \in [1 .. n -> S]
  <2> HIDE DEF S
  <2> QED  BY <1>1, InNumberOrder
<1> HIDE DEF S, n, order
<1>4. Len(order) = n  BY <1>3, SequenceOf
<1>5. BackfillLimit \in Nat /\ Len(Unused) \in Nat /\ Len(Unused) <= BackfillLimit
  BY UnusedIsBounded
<1>6. m \in Nat /\ m <= n  BY <1>3, <1>4, <1>5 DEF Least
<1> HIDE DEF m
<1>7. again \in [1 .. m -> Opportunities]
  <2>1. \A i \in 1 .. m : order[i] \in FactIds  BY <1>1, <1>3, <1>6
  <2> QED  BY <2>1 DEF Opportunity, Opportunities
<1> HIDE DEF again
<1> QED  BY <1>2, <1>6, <1>7, SequenceOf

\* The plan has an opportunity for every slot.
LEMMA PlanCoversTheSlots ==
    ASSUME SlotsInv, covered \in SUBSET FactIds
    PROVE  /\ Primary \o Unused \o CoveredAgain \in Seq(Opportunities)
           /\ allocated <= Len(Primary \o Unused \o CoveredAgain)
<1>1. Primary \in Seq(Opportunities) /\ Len(Primary) = allocated  BY PrimaryIsAllocated
<1>2. Unused \in Seq(Opportunities)  BY UnusedIsBounded
<1>3. CoveredAgain \in Seq(Opportunities)  BY CoveredAgainIsSeq
<1>4. \A p, u, c \in Seq(Opportunities) : p \o u \o c \in Seq(Opportunities) /\ Len(p) <= Len(p \o u \o c)
  OBVIOUS
<1> QED  BY <1>1, <1>2, <1>3, <1>4

---------------------------------------------------------------------------
(* The run: its invariant.                                                 *)

\* What the run found, which no step changes.
FoundInv == stored \in Nat /\ target = Most(0, TargetCount - stored) /\ covered \in SUBSET FactIds

ProgressInv ==
    /\ phase \in {"allocate", "generate", "ready", "partial", "failed", "error"}
    /\ todo \in Seq(Opportunities) /\ next \in 1 .. Len(todo) + 1 /\ attempt \in 1 .. Attempts
    /\ failedFacts \in SUBSET FactIds /\ accepted \in 0 .. target /\ scenarios \in 0 .. accepted
    /\ calls \in Nat /\ timeouts \in Nat /\ saved \in Nat /\ refused \in BOOLEAN

\* Before the plan nothing has been tried; after it, every slot that was given
\* is an opportunity.
PlanInv ==
    IF phase = "allocate" THEN next = 1 /\ accepted = 0 /\ attempt = 1 /\ failedFacts = {}
    ELSE target > 0 => allocated <= Len(todo)

\* As long as nothing was refused and every fact has its text, every opportunity
\* that was passed gave a question.
NothingLostInv ==
    ~refused => /\ failedFacts = {}
                /\ (\A id \in FactIds : fact[id].chunk # {}) => accepted = next - 1

OutcomeInv ==
    /\ calls <= Budget \/ calls \in InventoryCalls
    /\ phase = "ready" => stored + saved >= TargetCount
    /\ phase \in {"ready", "partial", "failed"} /\ target > 0 => RunIsOver

RunInv == SlotsInv /\ FoundInv /\ ProgressInv /\ PlanInv /\ NothingLostInv /\ OutcomeInv

\* Before the run.
LEMMA InitRun == RunInit => RunInv
<1> SUFFICES ASSUME RunInit PROVE RunInv  OBVIOUS
<1>1. SlotsInv  BY InitSlots DEF RunInit
<1>2. FoundInv
  <2>1. covered \in SUBSET FactIds  BY DEF RunInit
  <2>2. Cardinality(covered) \in Nat  BY <2>1, AllocationAssumption, FS_Subset, FS_CardinalityType
  <2>3. MaxStored \in Nat  BY RunAssumption
  <2>4. stored \in Nat  BY <2>2, <2>3 DEF RunInit
  <2> QED  BY <2>1, <2>4 DEF RunInit, FoundInv
<1>3. TargetCount \in Nat /\ \A c \in InventoryCalls : c \in Nat  BY RunAssumption
<1>4. target \in Nat  BY <1>2, <1>3 DEF FoundInv, Most
<1>5. ProgressInv
  <2>1. todo \in Seq(Opportunities) /\ Len(todo) = 0  BY EmptySeq DEF RunInit
  <2>2. calls \in Nat  BY <1>3 DEF RunInit
  <2>3. /\ next = 1 /\ attempt = 1 /\ accepted = 0 /\ scenarios = 0 /\ failedFacts = {} /\ timeouts = 0
        /\ saved = 0 /\ phase \in {"allocate", "ready"}
    BY DEF RunInit
  <2>4. next \in 1 .. Len(todo) + 1 /\ accepted \in 0 .. target /\ scenarios \in 0 .. accepted
    BY <1>4, <2>1, <2>3
  <2>6. refused \in BOOLEAN
    <3>1. refused = FALSE  BY DEF RunInit
    <3> QED  BY <3>1, Zenon
  <2>5. /\ phase \in {"allocate", "generate", "ready", "partial", "failed", "error"}
        /\ failedFacts \in SUBSET FactIds /\ timeouts \in Nat /\ saved \in Nat /\ attempt \in 1 .. 2
    BY <2>3
  <2> QED  BY <2>1, <2>2, <2>4, <2>5, <2>6 DEF ProgressInv, Attempts
<1>6. PlanInv  BY <1>4 DEF RunInit, PlanInv
<1>7. NothingLostInv  BY DEF RunInit, NothingLostInv
<1>8. OutcomeInv
  <2>1. target = 0 => stored + saved >= TargetCount
    BY <1>2, <1>3 DEF RunInit, FoundInv, Most
  <2> QED  BY <2>1 DEF RunInit, OutcomeInv
<1> QED  BY <1>1, <1>2, <1>5, <1>6, <1>7, <1>8 DEF RunInv

\* What stays as it is once the slots are allocated.
LEMMA AllocationStays ==
    ASSUME RunInv, UNCHANGED <<allocationVars, found>>
    PROVE  /\ SlotsInv' /\ FoundInv' /\ target' = target /\ fact' = fact /\ allocated' = allocated
           /\ stored' = stored /\ topUp' = topUp
<1>1. target' = target /\ fact' = fact /\ allocated' = allocated  BY DEF allocationVars
<1>2. stored' = stored /\ topUp' = topUp /\ covered' = covered  BY DEF found
<1>3. SlotsInv'  BY SlotsStep DEF RunInv
<1> QED  BY <1>1, <1>2, <1>3 DEF RunInv, FoundInv

\* Where a run is, in numbers.
LEMMA RunNumbers ==
    ASSUME RunInv
    PROVE  /\ target \in Nat /\ TargetCount \in Nat /\ Budget \in Nat /\ stored \in Nat
           /\ allocated \in Nat /\ Len(todo) \in Nat /\ next \in Nat /\ accepted \in Nat
           /\ next \in 1 .. Len(todo) + 1 /\ accepted \in 0 .. target
           /\ (next <= Len(todo) => todo[next].fact \in FactIds)
<1>1. target \in Nat /\ allocated \in Nat  BY FactsOfTheRun DEF RunInv, SlotsInv
<1>2. TargetCount \in Nat /\ Budget \in Nat  BY RunAssumption
<1>3. todo \in Seq(Opportunities) /\ next \in 1 .. Len(todo) + 1 /\ accepted \in 0 .. target
  BY DEF RunInv, ProgressInv
<1>4. PICK n \in Nat : n = Len(todo)  BY <1>3
<1>5. next \in 1 .. n + 1  BY <1>3, <1>4
<1>6. next <= n => todo[next].fact \in FactIds
  <2> SUFFICES ASSUME next <= n PROVE todo[next].fact \in FactIds  OBVIOUS
  <2>1. next \in 1 .. Len(todo)  BY <1>4, <1>5
  <2>2. todo[next] \in Opportunities  BY <1>3, <2>1, ElementOfSeq
  <2> QED  BY <2>2 DEF Opportunities
<1> QED  BY <1>1, <1>2, <1>3, <1>4, <1>5, <1>6 DEF RunInv, FoundInv

\* The plan is made.
LEMMA PlanKeeps == ASSUME RunInv, Plan PROVE RunInv'
<1>1. /\ phase = "allocate" /\ phase' = "generate" /\ saved' = saved
      /\ todo' = Primary \o Unused \o CoveredAgain
      /\ UNCHANGED <<allocationVars, found>>
  BY DEF Plan
<1>2. /\ next' = next /\ attempt' = attempt /\ accepted' = accepted /\ scenarios' = scenarios
      /\ failedFacts' = failedFacts /\ calls' = calls /\ timeouts' = timeouts /\ refused' = refused
  BY DEF Plan, progress
<1>3. /\ SlotsInv' /\ FoundInv' /\ target' = target /\ fact' = fact /\ allocated' = allocated
      /\ stored' = stored
  BY <1>1, AllocationStays
<1>4. todo' \in Seq(Opportunities) /\ allocated <= Len(todo')
  BY <1>1, PlanCoversTheSlots DEF RunInv, FoundInv
<1>5. next = 1  BY <1>1 DEF RunInv, PlanInv
<1>6. Len(todo') \in Nat  BY <1>4
<1>7. next' \in 1 .. Len(todo') + 1  BY <1>2, <1>5, <1>6
<1>8. ProgressInv'  BY <1>1, <1>2, <1>3, <1>4, <1>7 DEF RunInv, ProgressInv
<1>9. PlanInv'  BY <1>1, <1>3, <1>4 DEF PlanInv
<1>10. NothingLostInv'  BY <1>2, <1>3 DEF RunInv, NothingLostInv
<1>11. OutcomeInv'  BY <1>1, <1>2 DEF RunInv, OutcomeInv
<1> QED  BY <1>3, <1>8, <1>9, <1>10, <1>11 DEF RunInv

\* A slot is given, or a pass ends.
LEMMA AllocateKeeps ==
    ASSUME RunInv, phase = "allocate", Allocate, UNCHANGED <<found, phase, todo, progress, saved>>
    PROVE  RunInv'
<1>1. SlotsInv'  BY SlotsStep DEF RunInv
<1>2. target' = target /\ fact' = fact  BY DEF Allocate, PassEnds, CommitSlot
<1>3. /\ next' = next /\ attempt' = attempt /\ accepted' = accepted /\ scenarios' = scenarios
      /\ failedFacts' = failedFacts /\ calls' = calls /\ timeouts' = timeouts /\ refused' = refused
      /\ stored' = stored /\ covered' = covered /\ phase' = "allocate" /\ todo' = todo /\ saved' = saved
  BY DEF progress, found
<1>4. FoundInv'  BY <1>2, <1>3 DEF RunInv, FoundInv
<1>5. ProgressInv'  BY <1>2, <1>3 DEF RunInv, ProgressInv
<1>6. PlanInv'  BY <1>3 DEF RunInv, PlanInv
<1>7. NothingLostInv'  BY <1>2, <1>3 DEF RunInv, NothingLostInv
<1>8. OutcomeInv'  BY <1>3 DEF RunInv, OutcomeInv
<1> QED  BY <1>1, <1>4, <1>5, <1>6, <1>7, <1>8 DEF RunInv

\* One opportunity is tried, or passed over.
LEMMA TurnKeeps ==
    ASSUME RunInv, phase = "generate", ~RunIsOver,
           UNCHANGED <<allocationVars, found, todo, saved>>,
           phase' \in {"generate", "error"},
           \/ next' = next /\ attempt' \in {attempt, attempt + 1} /\ attempt' <= Attempts
           \/ NextOpportunity,
           accepted' \in {accepted, accepted + 1}, scenarios' \in 0 .. accepted',
           failedFacts' \in SUBSET FactIds,
           calls' \in Nat, calls' <= Budget, timeouts' \in Nat, refused' \in BOOLEAN,
           NothingLostInv'
    PROVE  RunInv'
<1>1. /\ SlotsInv' /\ FoundInv' /\ target' = target /\ fact' = fact /\ allocated' = allocated
      /\ stored' = stored
  BY AllocationStays
<1>2. todo' = todo /\ saved' = saved  OBVIOUS
<1>3. PICK n \in Nat, a \in Nat, t \in Nat, i \in Nat : n = Len(todo) /\ a = accepted /\ t = target /\ i = next
  BY RunNumbers
<1>4. a < t /\ i <= n
  <2>1. ~(accepted >= target) /\ ~(next > Len(todo))  BY DEF RunIsOver
  <2> QED  BY <1>3, <2>1
<1>5. accepted' \in 0 .. target'  BY <1>1, <1>3, <1>4
<1>6. next' \in 1 .. Len(todo') + 1
  <2>1. i \in 1 .. n  BY <1>3, <1>4, RunNumbers
  <2>2. next' \in {i, i + 1}  BY <1>3 DEF NextOpportunity
  <2>3. next' \in 1 .. n + 1  BY <2>1, <2>2
  <2> QED  BY <1>2, <1>3, <2>3
<1>7. attempt' \in 1 .. Attempts
  BY DEF RunInv, ProgressInv, NextOpportunity, Attempts
<1>8. ProgressInv'  BY <1>1, <1>2, <1>5, <1>6, <1>7 DEF RunInv, ProgressInv
<1>9. PlanInv'  BY <1>1, <1>2 DEF RunInv, PlanInv
<1>10. OutcomeInv'  BY DEF OutcomeInv
<1> QED  BY <1>1, <1>8, <1>9, <1>10 DEF RunInv

\* What is known when an opportunity is tried.
LEMMA WhenTried ==
    ASSUME RunInv, Tries
    PROVE  /\ phase = "generate" /\ ~RunIsOver /\ todo[next].fact \in FactIds
           /\ calls \in Nat /\ calls < Budget /\ Budget \in Nat /\ timeouts \in Nat /\ accepted \in Nat
           /\ next \in Nat /\ scenarios \in 0 .. accepted /\ refused \in BOOLEAN
           /\ failedFacts \in SUBSET FactIds /\ attempt \in 1 .. Attempts
<1>1. phase = "generate" /\ ~RunIsOver  BY DEF Tries
<1>2. calls < Budget /\ ~(next > Len(todo))  BY <1>1 DEF RunIsOver, HasBudget
<1>3. next <= Len(todo)  BY <1>2, RunNumbers
<1> QED  BY <1>1, <1>2, <1>3, RunNumbers DEF RunInv, ProgressInv

\* An opportunity is passed over: its fact was given up, or has no text.
LEMMA SkipKeeps == ASSUME RunInv, Skip PROVE RunInv'
<1>1. /\ phase = "generate" /\ ~RunIsOver /\ NextOpportunity /\ UNCHANGED <<allocationVars, found, todo, saved>>
      /\ phase' = phase /\ accepted' = accepted /\ scenarios' = scenarios /\ failedFacts' = failedFacts
      /\ calls' = calls /\ timeouts' = timeouts /\ refused' = refused
      /\ (todo[next].fact \in failedFacts \/ fact[todo[next].fact].chunk = {})
  BY DEF Skip
<1>2. ~(calls >= Budget) /\ ~(next > Len(todo))  BY <1>1, RunNumbers DEF RunIsOver, HasBudget, RunInv, ProgressInv
<1>3. todo[next].fact \in FactIds  BY <1>2, RunNumbers
<1>4. fact' = fact  BY <1>1, AllocationStays
<1>5. NothingLostInv'  BY <1>1, <1>3, <1>4 DEF RunInv, NothingLostInv
<1>6. /\ calls \in Nat /\ timeouts \in Nat /\ refused \in BOOLEAN /\ scenarios \in 0 .. accepted
      /\ failedFacts \in SUBSET FactIds /\ Budget \in Nat
  BY RunNumbers DEF RunInv, ProgressInv
<1>7. calls' <= Budget  BY <1>1, <1>2, <1>6
<1> QED  BY <1>1, <1>5, <1>6, <1>7, TurnKeeps

\* A question is accepted; the validation was held to the budget.
LEMMA AcceptKeeps == ASSUME RunInv, Accept PROVE RunInv'
<1>1. /\ Tries /\ MayValidate /\ NextOpportunity /\ UNCHANGED <<allocationVars, found, todo, saved>>
      /\ phase' = phase /\ accepted' = accepted + 1
      /\ scenarios' = scenarios + (IF PrefersScenario(todo[next]) THEN 1 ELSE 0)
      /\ failedFacts' = failedFacts /\ calls' = calls + 2 /\ timeouts' = timeouts /\ refused' = refused
  BY DEF Accept
<1>2. fact' = fact  BY <1>1, AllocationStays
<1>3. next' = next + 1  BY <1>1 DEF NextOpportunity
<1>4. NothingLostInv'
  <2>1. ~refused => failedFacts = {} /\ ((\A id \in FactIds : fact[id].chunk # {}) => accepted = next - 1)
    BY DEF RunInv, NothingLostInv
  <2>2. accepted = next - 1 => accepted + 1 = next' - 1  BY <1>1, <1>3, WhenTried
  <2> QED  BY <1>1, <1>2, <2>1, <2>2 DEF NothingLostInv
<1>5. calls + 1 < Budget  BY <1>1 DEF MayValidate
<1>6. calls' \in Nat /\ calls' <= Budget  BY <1>1, <1>5, WhenTried
<1>7. scenarios' \in 0 .. accepted'  BY <1>1, WhenTried
<1> QED  BY <1>1, <1>4, <1>6, <1>7, WhenTried, TurnKeeps

\* Nothing usable came back.
LEMMA RejectKeeps ==
    ASSUME RunInv, NEW cost \in {1, 2}, NEW late \in {0, 1}, Reject(cost, late)
    PROVE  RunInv'
<1>1. /\ Tries /\ (cost = 2 => MayValidate) /\ UNCHANGED <<allocationVars, found, todo, saved>>
      /\ phase' = phase /\ accepted' = accepted /\ scenarios' = scenarios
      /\ calls' = calls + cost /\ timeouts' = timeouts + late /\ refused' = TRUE
      /\ IF attempt < Attempts /\ calls' < Budget
         THEN attempt' = attempt + 1 /\ next' = next /\ failedFacts' = failedFacts
         ELSE NextOpportunity /\ failedFacts' = failedFacts \cup {todo[next].fact}
  BY DEF Reject
<1>2. NothingLostInv'  BY <1>1 DEF NothingLostInv
<1>3. calls' \in Nat /\ calls' <= Budget
  <2>1. cost = 2 => calls + 1 < Budget  BY <1>1 DEF MayValidate
  <2> QED  BY <1>1, <2>1, WhenTried
<1>4. timeouts' \in Nat /\ failedFacts' \in SUBSET FactIds  BY <1>1, WhenTried
<1>5. \/ next' = next /\ attempt' \in {attempt, attempt + 1} /\ attempt' <= Attempts
      \/ NextOpportunity
  <2>1. attempt \in 1 .. Attempts  BY <1>1, WhenTried
  <2> QED  BY <1>1, <2>1 DEF Attempts
<1> QED  BY <1>1, <1>2, <1>3, <1>4, <1>5, WhenTried, TurnKeeps

\* The call itself failed.
LEMMA HardFailureKeeps == ASSUME RunInv, NEW late \in {0, 1}, HardFailure(late) PROVE RunInv'
<1>1. /\ Tries /\ NextOpportunity /\ UNCHANGED <<allocationVars, found, todo, saved>>
      /\ phase' = phase /\ accepted' = accepted /\ scenarios' = scenarios
      /\ calls' = calls + 1 /\ timeouts' = timeouts + late /\ refused' = TRUE
      /\ failedFacts' = failedFacts \cup {todo[next].fact}
  BY DEF HardFailure
<1>2. NothingLostInv'  BY <1>1 DEF NothingLostInv
<1>3. calls' \in Nat /\ calls' <= Budget  BY <1>1, WhenTried
<1>4. timeouts' \in Nat /\ failedFacts' \in SUBSET FactIds  BY <1>1, WhenTried
<1> QED  BY <1>1, <1>2, <1>3, <1>4, WhenTried, TurnKeeps

\* The run is abandoned.
LEMMA UnavailableKeeps == ASSUME RunInv, Unavailable PROVE RunInv'
<1>1. /\ Tries /\ UNCHANGED <<allocationVars, found, todo, saved>>
      /\ phase' = "error" /\ accepted' = accepted /\ scenarios' = scenarios /\ next' = next
      /\ attempt' = attempt /\ failedFacts' = failedFacts /\ calls' = calls + 1 /\ timeouts' = timeouts
      /\ refused' = refused
  BY DEF Unavailable
<1>2. fact' = fact  BY <1>1, AllocationStays
<1>3. NothingLostInv'  BY <1>1, <1>2 DEF RunInv, NothingLostInv
<1>4. calls' \in Nat /\ calls' <= Budget  BY <1>1, WhenTried
<1>5. attempt' \in {attempt, attempt + 1} /\ attempt' <= Attempts  BY <1>1, WhenTried DEF Attempts
<1> QED  BY <1>1, <1>3, <1>4, <1>5, WhenTried, TurnKeeps

\* The run ends, and what it accepted is saved as far as it can be.
LEMMA FinishRunKeeps == ASSUME RunInv, FinishRun PROVE RunInv'
<1>1. /\ phase = "generate" /\ RunIsOver /\ saved' \in 0 .. accepted /\ todo' = todo
      /\ phase' = (IF accepted = 0 /\ timeouts > 0 /\ stored = 0 THEN "error"
                   ELSE Status(stored + (IF topUp THEN saved' ELSE accepted), stored + saved'))
      /\ UNCHANGED <<allocationVars, found>>
  BY DEF FinishRun
<1>2. /\ next' = next /\ attempt' = attempt /\ accepted' = accepted /\ scenarios' = scenarios
      /\ failedFacts' = failedFacts /\ calls' = calls /\ timeouts' = timeouts /\ refused' = refused
  BY DEF FinishRun, progress
<1>3. /\ SlotsInv' /\ FoundInv' /\ target' = target /\ fact' = fact /\ allocated' = allocated
      /\ stored' = stored
  BY <1>1, AllocationStays
<1>4. phase' \in {"ready", "partial", "failed", "error"} /\ (phase' = "ready" => stored + saved' >= TargetCount)
  BY <1>1 DEF Status
<1>5. saved' \in Nat  BY <1>1, RunNumbers
<1>6. ProgressInv'  BY <1>1, <1>2, <1>3, <1>4, <1>5 DEF RunInv, ProgressInv
<1>7. PlanInv'  BY <1>1, <1>2, <1>3, <1>4 DEF RunInv, PlanInv
<1>8. NothingLostInv'  BY <1>2, <1>3 DEF RunInv, NothingLostInv
<1>9. RunIsOver'  BY <1>1, <1>2, <1>3 DEF RunIsOver, HasBudget
<1>10. OutcomeInv'  BY <1>2, <1>3, <1>4, <1>9 DEF RunInv, OutcomeInv
<1> QED  BY <1>3, <1>6, <1>7, <1>8, <1>10 DEF RunInv

\* Every step of a run keeps the invariant.
LEMMA RunStep == RunInv /\ [RunNext]_runVars => RunInv'
<1> SUFFICES ASSUME RunInv, [RunNext]_runVars PROVE RunInv'  OBVIOUS
<1>1. CASE phase = "allocate" /\ Allocate /\ UNCHANGED <<found, phase, todo, progress, saved>>
  BY <1>1, AllocateKeeps
<1>2. CASE Plan  BY <1>2, PlanKeeps
<1>3. CASE Skip  BY <1>3, SkipKeeps
<1>4. CASE Accept  BY <1>4, AcceptKeeps
<1>5. CASE Unavailable  BY <1>5, UnavailableKeeps
<1>6. CASE FinishRun  BY <1>6, FinishRunKeeps
<1>7. CASE Reject(1, 0)  BY <1>7, RejectKeeps
<1>8. ASSUME NEW late \in {0, 1}, Reject(2, late) PROVE RunInv'  BY <1>8, RejectKeeps
<1>9. ASSUME NEW late \in {0, 1}, HardFailure(late) PROVE RunInv'  BY <1>9, HardFailureKeeps
<1>10. CASE UNCHANGED runVars
  <2>1. /\ UNCHANGED <<allocationVars, found>> /\ phase' = phase /\ todo' = todo /\ saved' = saved
        /\ next' = next /\ attempt' = attempt /\ accepted' = accepted /\ scenarios' = scenarios
        /\ failedFacts' = failedFacts /\ calls' = calls /\ timeouts' = timeouts /\ refused' = refused
    BY <1>10 DEF runVars, progress
  <2>2. SlotsInv' /\ FoundInv' /\ target' = target /\ fact' = fact /\ allocated' = allocated /\ stored' = stored
    BY <2>1, AllocationStays
  <2>3. ProgressInv'  BY <2>1, <2>2 DEF RunInv, ProgressInv
  <2>4. PlanInv'  BY <2>1, <2>2 DEF RunInv, PlanInv
  <2>5. NothingLostInv'  BY <2>1, <2>2 DEF RunInv, NothingLostInv
  <2>6. RunIsOver => RunIsOver'  BY <2>1, <2>2 DEF RunIsOver, HasBudget
  <2>7. OutcomeInv'  BY <2>1, <2>2, <2>6 DEF RunInv, OutcomeInv
  <2> QED  BY <2>2, <2>3, <2>4, <2>5, <2>7 DEF RunInv
<1> QED  BY <1>1, <1>2, <1>3, <1>4, <1>5, <1>6, <1>7, <1>8, <1>9, <1>10 DEF RunNext

\* The invariant implies both properties.
LEMMA RunInvImplies == RunInv => AllocationIsFair /\ RunKeepsItsWord
<1> SUFFICES ASSUME RunInv PROVE AllocationIsFair /\ RunKeepsItsWord  OBVIOUS
<1>1. AllocationIsFair
  <2>1. RunTypeOK  BY RunNumbers DEF RunInv, SlotsInv, ProgressInv, RunTypeOK
  <2>2. NobodyOverfed /\ NoKindFloods /\ BreadthFirst  BY SlotsAreFair DEF RunInv
  <2> QED  BY <2>1, <2>2 DEF AllocationIsFair
<1>2. StaysWithinBounds
  <2>1. accepted > 0 => stored + accepted <= TargetCount
    <3>1. target = Most(0, TargetCount - stored)  BY DEF RunInv, FoundInv
    <3> QED  BY <3>1, RunNumbers DEF Most
  <2> QED  BY <2>1 DEF StaysWithinBounds, RunInv, OutcomeInv
<1>3. StatusIsHonest
  <2>1. phase = "ready" => stored + saved >= TargetCount  BY DEF RunInv, OutcomeInv
  <2>2. ASSUME Ended, phase # "error", target > 0, LimitingFactor = "validation_rejections"
        PROVE  next > Len(todo) /\ (refused \/ \E id \in FactIds : fact[id].chunk = {})
    <3>1. ~(accepted >= target) /\ HasBudget /\ allocated >= target
      <4>1. ~(accepted >= target)
        <5>1. CASE accepted >= target  BY <2>2, <5>1, RunNumbers DEF LimitingFactor
        <5> QED  BY <5>1
      <4> QED  BY <2>2, <4>1, RunNumbers DEF LimitingFactor
    <3>2. RunIsOver  BY <2>2 DEF RunInv, OutcomeInv, Ended
    <3>3. next > Len(todo)  BY <3>1, <3>2 DEF RunIsOver
    <3>4. allocated <= Len(todo)  BY <2>2 DEF RunInv, PlanInv, Ended
    <3>5. ~(accepted = next - 1)  BY <3>1, <3>3, <3>4, RunNumbers
    <3>6. refused \/ \E id \in FactIds : fact[id].chunk = {}
      BY <3>5 DEF RunInv, NothingLostInv
    <3> QED  BY <3>3, <3>6
  <2> QED  BY <2>1, <2>2 DEF StatusIsHonest
<1> QED  BY <1>1, <1>2, <1>3 DEF RunKeepsItsWord

\* No fact is given more slots than it wants, nor all together more than the
\* target; no kind and no series floods the dataset although the depth pass does
\* not look at those caps; and nobody has a second slot while a fact that wants
\* one, and that no cap holds back, has none (allocate_slots).
THEOREM AllocationStaysFair == RunSpec => []AllocationIsFair
<1>1. RunInit => RunInv  BY InitRun
<1>2. RunInv /\ [RunNext]_runVars => RunInv'  BY RunStep
<1>3. RunInv => AllocationIsFair  BY RunInvImplies
<1> QED  BY <1>1, <1>2, <1>3, PTL DEF RunSpec

\* A run never takes a course past its target nor spends more calls than the
\* budget unless the inventory alone did; it is called ready only when the course
\* holds what was asked for; and it blames its candidates only after it has tried
\* every opportunity it had (resolve_starter_run_status, resolve_limiting_factor).
THEOREM RunsKeepTheirWord == RunSpec => []RunKeepsItsWord
<1>1. RunInit => RunInv  BY InitRun
<1>2. RunInv /\ [RunNext]_runVars => RunInv'  BY RunStep
<1>3. RunInv => RunKeepsItsWord  BY RunInvImplies
<1> QED  BY <1>1, <1>2, <1>3, PTL DEF RunSpec

---------------------------------------------------------------------------
(* The candidates of the runs of a course.                                 *)

\* What can be asked, and what it can be about.
Askable == Proposals \cup {Normalized(p) : p \in Proposals}
Topics == {q.topic : q \in Askable}
SavedSeeds == [question : Askable, byRun : BOOLEAN]
\* The keys a run has seen, none included.
Known == seen \cup {NoKey}
Judging == {"cache", "embed", "judge"}

CandidateTypeOK ==
    /\ course \in Seq(SavedSeeds) /\ asked \in Seq(Askable) /\ embeddings \in Seq(Topics)
    /\ base \in 0 .. Len(asked)
    /\ step \in {"rest", "draw", "save"} \cup Judging
    /\ last = {} \/ \E t \in Topics : last = {t}
    /\ saving.left \in Seq(Askable) /\ saving.written \in Seq(SavedSeeds)

\* The cache holds the embeddings of the first questions, in their order.
CacheInv ==
    /\ Len(embeddings) <= Len(asked)
    /\ \A i \in 1 .. Len(embeddings) : embeddings[i] = asked[i].topic

\* Those the run accepted differ from all before them.
AskedInv ==
    /\ \A i \in 1 .. Len(asked) : asked[i].key \in Known
    /\ \A j \in 1 .. Len(asked) : j > base => asked[j].key # NoKey /\ asked[j].chunks = FactChunks
    /\ \A i, j \in 1 .. Len(asked) : i < j /\ j > base =>
        /\ asked[i].key # asked[j].key
        /\ asked[i].topic = asked[j].topic => j \in unchecked

\* What is known of a candidate at each step: an embedding that is kept is its own,
\* compared with those of all the questions before it.
StepInv ==
    /\ step \in Judging => candidate \in Askable /\ candidate.key \notin Known /\ candidate.chunks = FactChunks
    /\ step \in {"cache", "embed"} => asked # <<>>
    /\ asked = <<>> => last = {}
    /\ step = "embed" => Len(embeddings) = Len(asked)
    /\ step = "judge" /\ last # {} =>
        /\ last = {candidate.topic} /\ Len(embeddings) = Len(asked)
        /\ \A i \in 1 .. Len(embeddings) : embeddings[i] # candidate.topic

\* A question a run may save.
Grounded(q) == q.key # NoKey /\ q.chunks = FactChunks

\* The seeds that runs have saved.
CourseInv ==
    /\ \A i \in 1 .. Len(course) : course[i].byRun => Grounded(course[i].question)
    /\ \A i, j \in 1 .. Len(course) :
        i < j /\ course[i].byRun /\ course[j].byRun => course[i].question.key # course[j].question.key

\* The keys of a transaction are those of all it has written, and of all that runs
\* have saved before.
SaveInv ==
    step = "save" =>
        /\ \A i \in 1 .. Len(saving.left) : Grounded(saving.left[i])
        /\ \A i \in 1 .. Len(saving.written) :
            /\ saving.written[i].byRun /\ Grounded(saving.written[i].question)
            /\ saving.written[i].question.key \in saving.keys
        /\ \A i, j \in 1 .. Len(saving.written) :
            i < j => saving.written[i].question.key # saving.written[j].question.key
        /\ \A i \in 1 .. Len(course) : course[i].byRun => course[i].question.key \in saving.keys
        /\ \A i \in 1 .. Len(course), j \in 1 .. Len(saving.written) :
            course[i].byRun => course[i].question.key # saving.written[j].question.key

CandidateInv == CandidateTypeOK /\ CacheInv /\ AskedInv /\ StepInv /\ CourseInv /\ SaveInv

---------------------------------------------------------------------------

\* Normalizing a candidate keeps its wording and gives it the fact's chunks.
LEMMA NormalizedKeeps ==
    ASSUME NEW p \in Proposals
    PROVE  /\ Normalized(p) \in Askable /\ Normalized(p).key = p.key
           /\ Normalized(p).chunks = FactChunks
<1>1. p = [key |-> p.key, topic |-> p.topic, fits |-> p.fits, chunks |-> p.chunks]
  BY CandidatesAssumption
<1> DEFINE k == p.key  t == p.topic  f == p.fits  c == p.chunks
<1>2. p = [key |-> k, topic |-> t, fits |-> f, chunks |-> c]  BY <1>1
<1> HIDE DEF k, t, f, c
<1>3. Normalized(p) = [key |-> k, topic |-> t, fits |-> f, chunks |-> FactChunks]
  BY <1>2 DEF Normalized
<1>4. Normalized(p).key = k /\ Normalized(p).chunks = FactChunks  BY <1>3
<1> QED  BY <1>4 DEF Askable, k

\* The questions of a course.
LEMMA StoredQuestions ==
    ASSUME course \in Seq(SavedSeeds), NEW qs, qs = [i \in DOMAIN course |-> course[i].question]
    PROVE  /\ qs \in Seq(Askable) /\ Len(qs) = Len(course)
           /\ \A i \in 1 .. Len(course) : qs[i] = course[i].question
<1>1. Len(course) \in Nat /\ DOMAIN course = 1 .. Len(course)
      /\ \A i \in 1 .. Len(course) : course[i] \in SavedSeeds
  BY LenProperties, ElementOfSeq
<1>2. \A i \in 1 .. Len(course) : course[i].question \in Askable  BY <1>1 DEF SavedSeeds
<1>3. qs \in [1 .. Len(course) -> Askable]  BY <1>1, <1>2
<1> QED  BY <1>1, <1>3, SequenceOf

\* A question's key is among the keys, or the question has none.
LEMMA KeyIsKnown ==
    ASSUME NEW qs \in Seq(Askable), NEW i \in 1 .. Len(qs)
    PROVE  qs[i].key \in KeysOf(qs) \cup {NoKey}
<1>1. qs[i] \in ToSet(qs)  BY LenProperties DEF ToSet
<1> QED  BY <1>1 DEF KeysOf, Key

\* What the type says of the lists.
LEMMA SeqFacts ==
    ASSUME CandidateTypeOK
    PROVE  /\ Len(asked) \in Nat /\ Len(embeddings) \in Nat /\ Len(course) \in Nat
           /\ Len(saving.left) \in Nat /\ Len(saving.written) \in Nat
           /\ base \in Nat /\ base <= Len(asked)
           /\ \A i \in 1 .. Len(asked) : asked[i] \in Askable
           /\ \A i \in 1 .. Len(course) : course[i] \in SavedSeeds
BY LenProperties, ElementOfSeq DEF CandidateTypeOK

\* Before the first run.
LEMMA InitCandidate == CandidateInit => CandidateInv
<1> SUFFICES ASSUME CandidateInit PROVE CandidateInv  OBVIOUS
<1>1. \A S : <<>> \in Seq(S) /\ Len(<<>>) = 0  BY EmptySeq
<1>2. course = <<>> /\ asked = <<>> /\ base = 0 /\ embeddings = <<>> /\ last = {} /\ step = "rest"
      /\ saving.left = <<>> /\ saving.written = <<>>
  BY DEF CandidateInit, NoTransaction
<1>3. CandidateTypeOK  BY <1>1, <1>2 DEF CandidateTypeOK
<1>4. CacheInv  BY <1>1, <1>2 DEF CacheInv
<1>5. AskedInv  BY <1>1, <1>2 DEF AskedInv
<1>6. StepInv  BY <1>1, <1>2 DEF StepInv, Judging
<1>7. CourseInv  BY <1>1, <1>2 DEF CourseInv
<1>8. SaveInv  BY <1>2 DEF SaveInv
<1> QED  BY <1>3, <1>4, <1>5, <1>6, <1>7, <1>8 DEF CandidateInv

\* A run begins, with the course's questions if it is a top-up.
LEMMA BeginKeeps ==
    ASSUME CandidateInv, NEW again \in BOOLEAN, BeginCandidates(again)
    PROVE  CandidateInv'
<1> DEFINE qs == [i \in DOMAIN course |-> course[i].question]
           held == IF again THEN qs ELSE <<>>
<1>1. course \in Seq(SavedSeeds)  BY DEF CandidateInv, CandidateTypeOK
<1>2. held \in Seq(Askable)
  <2>1. qs \in Seq(Askable)  BY <1>1, StoredQuestions
  <2> HIDE DEF qs
  <2> QED  BY <2>1, EmptySeq
<1>3. /\ asked' = held /\ base' = Len(held) /\ seen' = KeysOf(held)
      /\ embeddings' = <<>> /\ last' = {} /\ unchecked' = {} /\ saving' = NoTransaction
      /\ step' = "draw" /\ course' = course
  BY DEF BeginCandidates
<1> HIDE DEF held
<1>4. Len(held) \in Nat /\ \A S : <<>> \in Seq(S) /\ Len(<<>>) = 0
  BY <1>2, LenProperties, EmptySeq
<1>5. saving'.left = <<>> /\ saving'.written = <<>>  BY <1>3 DEF NoTransaction
<1>6. CandidateTypeOK'  BY <1>1, <1>2, <1>3, <1>4, <1>5 DEF CandidateTypeOK
<1>7. CacheInv'  BY <1>3, <1>4 DEF CacheInv
<1>8. AskedInv'
  <2>1. \A i \in 1 .. Len(held) : held[i].key \in KeysOf(held) \cup {NoKey}
    BY <1>2, KeyIsKnown
  <2> QED  BY <2>1, <1>3, <1>4 DEF AskedInv, Known
<1>9. StepInv'  BY <1>3 DEF StepInv, Judging
<1>10. CourseInv'  BY <1>3 DEF CandidateInv, CourseInv
<1>11. SaveInv'  BY <1>3 DEF SaveInv
<1> QED  BY <1>6, <1>7, <1>8, <1>9, <1>10, <1>11 DEF CandidateInv

\* The model proposes a candidate.
LEMMA DrawKeeps ==
    ASSUME CandidateInv, NEW p \in Proposals, Draw(p)
    PROVE  CandidateInv'
<1>1. /\ Key(p) \notin seen \cup {NoKey} /\ candidate' = Normalized(p)
      /\ step' = IF asked = <<>> THEN "judge" ELSE "cache"
      /\ course' = course /\ asked' = asked /\ base' = base /\ seen' = seen /\ embeddings' = embeddings
      /\ last' = last /\ saving' = saving /\ unchecked' = unchecked
  BY DEF Draw
<1>2. CandidateTypeOK' /\ CacheInv' /\ AskedInv' /\ CourseInv'
  <2>1. CandidateTypeOK'  BY <1>1 DEF CandidateInv, CandidateTypeOK, Judging
  <2>2. CacheInv'  BY <1>1 DEF CandidateInv, CacheInv
  <2>3. AskedInv'  BY <1>1 DEF CandidateInv, AskedInv, Known
  <2>4. CourseInv'  BY <1>1 DEF CandidateInv, CourseInv
  <2> QED  BY <2>1, <2>2, <2>3, <2>4
<1>3. StepInv'
  <2>1. candidate' \in Askable /\ candidate'.key \notin Known' /\ candidate'.chunks = FactChunks
    BY <1>1, NormalizedKeeps DEF Key, Known
  <2>2. asked = <<>> => last = {}  BY DEF CandidateInv, StepInv
  <2> QED  BY <1>1, <2>1, <2>2 DEF StepInv
<1>4. SaveInv'  BY <1>1 DEF SaveInv
<1> QED  BY <1>2, <1>3, <1>4 DEF CandidateInv

\* The embeddings that are missing are asked for, and the cache is forgotten when
\* one cannot be had: it stays as long as the questions it belongs to, or shorter.
LEMMA CacheKeeps ==
    ASSUME CandidateInv, NEW n \in 0 .. MaxAsked, NEW fails \in BOOLEAN, CacheMissing(n, fails)
    PROVE  CandidateInv'
<1> DEFINE new == [i \in 1 .. n |-> Missing[i].topic]
<1>1. /\ step = "cache" /\ last' = {} /\ course' = course /\ asked' = asked /\ base' = base
      /\ seen' = seen /\ candidate' = candidate /\ saving' = saving /\ unchecked' = unchecked
  BY DEF CacheMissing, Forgotten
<1>2. \/ step' = "judge" /\ embeddings' = embeddings
      \/ n <= Len(Missing) /\ embeddings' = embeddings \o new
         /\ step' = IF n = Len(Missing) THEN "embed" ELSE "judge"
  BY DEF CacheMissing
<1>3. step' \in {"judge", "embed"}  BY <1>2
<1>4. asked \in Seq(Askable) /\ embeddings \in Seq(Topics) /\ CacheInv
      /\ Len(asked) \in Nat /\ Len(embeddings) \in Nat
      /\ \A i \in 1 .. Len(asked) : asked[i] \in Askable
  BY SeqFacts DEF CandidateInv, CandidateTypeOK
<1>5. /\ embeddings' \in Seq(Topics) /\ CacheInv' /\ (step' = "embed" => Len(embeddings') = Len(asked'))
  <2>1. CASE step' = "judge" /\ embeddings' = embeddings
    BY <1>1, <1>4, <2>1 DEF CacheInv
  <2>2. CASE n <= Len(Missing) /\ embeddings' = embeddings \o new
             /\ step' = IF n = Len(Missing) THEN "embed" ELSE "judge"
    <3>0. PICK a \in Nat, e \in Nat : a = Len(asked) /\ e = Len(embeddings)  BY <1>4
    <3>1. e <= a  BY <1>4, <3>0 DEF CacheInv
    <3>2. /\ Len(Missing) = a - e
          /\ \A i \in 1 .. a - e : Missing[i] = asked[e + i]
      <4>1. \A i \in e + 1 .. a : asked[i] \in Askable  BY <1>4, <3>0
      <4>2. /\ Len(Missing) = IF e + 1 <= a THEN a - (e + 1) + 1 ELSE 0
            /\ \A i \in 1 .. a - (e + 1) + 1 : Missing[i] = asked[(e + 1) + i - 1]
        BY <4>1, <3>0, SubSeqProperties DEF Missing
      <4>3. Len(Missing) = a - e  BY <3>0, <3>1, <4>2
      <4>4. ASSUME NEW i \in 1 .. a - e PROVE Missing[i] = asked[e + i]
        <5>1. i \in 1 .. a - (e + 1) + 1 /\ (e + 1) + i - 1 = e + i  BY <3>0
        <5> QED  BY <4>2, <5>1
      <4> QED  BY <4>3, <4>4
    <3>3. n \in Nat /\ n <= a - e  BY <2>2, <3>2, CandidatesAssumption
    <3>4. \A i \in 1 .. n : Missing[i] = asked[e + i] /\ asked[e + i] \in Askable
      BY <1>4, <3>0, <3>1, <3>2, <3>3
    <3>5. new \in [1 .. n -> Topics] /\ \A i \in 1 .. n : new[i] = asked[e + i].topic
      BY <3>4 DEF Topics
    <3> HIDE DEF new
    <3>6. new \in Seq(Topics) /\ Len(new) = n  BY <3>3, <3>5, SequenceOf
    <3>7. /\ embeddings' \in Seq(Topics) /\ Len(embeddings') = e + n
          /\ \A i \in 1 .. e + n : embeddings'[i] = IF i <= e THEN embeddings[i] ELSE new[i - e]
      BY <1>4, <2>2, <3>0, <3>6, ConcatProperties
    <3>8. ASSUME NEW i \in 1 .. e + n PROVE embeddings'[i] = asked[i].topic
      <4>1. CASE i <= e
        BY <1>4, <3>0, <3>7, <4>1 DEF CacheInv
      <4>2. CASE i > e
        <5>1. i - e \in 1 .. n /\ e + (i - e) = i /\ ~(i <= e)  BY <3>3, <4>2
        <5> QED  BY <3>5, <3>7, <5>1
      <4> QED  BY <3>3, <4>1, <4>2
    <3>9. e + n <= a  BY <3>3
    <3>10. CacheInv'  BY <1>1, <3>0, <3>7, <3>8, <3>9 DEF CacheInv
    <3>11. step' = "embed" => e + n = a  BY <2>2, <3>2, <3>3
    <3> QED  BY <1>1, <3>0, <3>7, <3>10, <3>11
  <2> QED  BY <1>2, <2>1, <2>2
<1>6. CandidateTypeOK'  BY <1>1, <1>3, <1>5 DEF CandidateInv, CandidateTypeOK, Judging
<1>7. AskedInv'  BY <1>1 DEF CandidateInv, AskedInv, Known
<1>8. StepInv'
  <2>1. candidate \in Askable /\ candidate.key \notin Known /\ candidate.chunks = FactChunks /\ asked # <<>>
    BY <1>1 DEF CandidateInv, StepInv, Judging
  <2> QED  BY <1>1, <1>3, <1>5, <2>1 DEF StepInv, Known
<1>9. CourseInv'  BY <1>1 DEF CandidateInv, CourseInv
<1>10. SaveInv'  BY <1>3 DEF SaveInv
<1> QED  BY <1>5, <1>6, <1>7, <1>8, <1>9, <1>10 DEF CandidateInv

\* The candidate's embedding is compared with all of the cache, or cannot be had.
LEMMA EmbedKeeps ==
    ASSUME CandidateInv, NEW answered \in BOOLEAN, EmbedCandidate(answered)
    PROVE  CandidateInv'
<1>1. /\ step = "embed" /\ last' = (IF answered THEN {candidate.topic} ELSE {})
      /\ step' = (IF answered /\ \E i \in DOMAIN embeddings : embeddings[i] = candidate.topic
                  THEN "draw" ELSE "judge")
      /\ course' = course /\ asked' = asked /\ base' = base /\ seen' = seen /\ embeddings' = embeddings
      /\ candidate' = candidate /\ saving' = saving /\ unchecked' = unchecked
  BY DEF EmbedCandidate, Forgotten
<1>2. step' \in {"draw", "judge"}  BY <1>1
<1>3. /\ candidate \in Askable /\ candidate.key \notin Known /\ candidate.chunks = FactChunks
      /\ asked # <<>> /\ Len(embeddings) = Len(asked)
  BY <1>1 DEF CandidateInv, StepInv, Judging
<1>4. last' = {} \/ \E t \in Topics : last' = {t}  BY <1>1, <1>3 DEF Topics
<1>5. CandidateTypeOK'  BY <1>1, <1>2, <1>4 DEF CandidateInv, CandidateTypeOK, Judging
<1>6. CacheInv'  BY <1>1 DEF CandidateInv, CacheInv
<1>7. AskedInv'  BY <1>1 DEF CandidateInv, AskedInv, Known
<1>8. StepInv'
  <2>1. DOMAIN embeddings = 1 .. Len(embeddings)
    BY LenProperties DEF CandidateInv, CandidateTypeOK
  <2>2. step' = "judge" /\ last' # {} =>
        last' = {candidate.topic} /\ \A i \in 1 .. Len(embeddings) : embeddings[i] # candidate.topic
    BY <1>1, <2>1
  <2> QED  BY <1>1, <1>2, <1>3, <2>2 DEF StepInv, Known
<1>9. CourseInv'  BY <1>1 DEF CandidateInv, CourseInv
<1>10. SaveInv'  BY <1>2 DEF SaveInv
<1> QED  BY <1>5, <1>6, <1>7, <1>8, <1>9, <1>10 DEF CandidateInv

\* The candidate is accepted: its wording is new, and its meaning too unless it was
\* not compared.
LEMMA AcceptedKeeps ==
    ASSUME CandidateInv, Accepted
    PROVE  CandidateInv'
<1> DEFINE new == SetToSeq(last)
<1>1. /\ step = "judge" /\ step' = "draw" /\ seen' = seen \cup {candidate.key}
      /\ asked' = Append(asked, candidate) /\ embeddings' = embeddings \o SetToSeq(last)
      /\ unchecked' = (IF last = {} THEN unchecked \cup {Len(asked')} ELSE unchecked) /\ last' = {}
      /\ course' = course /\ base' = base /\ saving' = saving
  BY DEF Accepted, Key
<1>2. candidate \in Askable /\ candidate.key \notin Known /\ candidate.chunks = FactChunks
  BY <1>1 DEF CandidateInv, StepInv, Judging
<1>3. asked \in Seq(Askable) /\ embeddings \in Seq(Topics)
  BY DEF CandidateInv, CandidateTypeOK
<1>4. PICK a \in Nat, e \in Nat : a = Len(asked) /\ e = Len(embeddings)
  BY <1>3, LenProperties
<1>5. /\ asked' \in Seq(Askable) /\ asked' # <<>> /\ Len(asked') = a + 1
      /\ \A i \in 1 .. a : asked'[i] = asked[i]
      /\ asked'[a + 1] = candidate
  BY <1>1, <1>2, <1>3, <1>4, AppendProperties
<1>6. /\ e <= a /\ \A i \in 1 .. e : embeddings[i] = asked[i].topic
  BY <1>4 DEF CandidateInv, CacheInv
<1>7. \/ last = {} /\ embeddings' = embeddings
      \/ /\ last = {candidate.topic} /\ e = a
         /\ \A i \in 1 .. e : embeddings[i] # candidate.topic
         /\ embeddings' \in Seq(Topics) /\ Len(embeddings') = e + 1
         /\ \A i \in 1 .. e : embeddings'[i] = embeddings[i]
         /\ embeddings'[e + 1] = candidate.topic
  <2>1. CASE last = {}
    BY <1>1, <1>3, <2>1, SetToSeqOfFew, ConcatEmptySeq
  <2>2. CASE last # {}
    <3>1. last = {candidate.topic} /\ e = a /\ \A i \in 1 .. e : embeddings[i] # candidate.topic
      BY <1>1, <1>4, <2>2 DEF CandidateInv, StepInv
    <3>2. PICK t \in Topics : t = candidate.topic  BY <1>2 DEF Topics
    <3>3. /\ SetToSeq({t}) \in Seq(Topics) /\ Len(SetToSeq({t})) = 1 /\ SetToSeq({t})[1] = t
      BY <3>2, SetToSeqOfFew, SeqMonotonic
    <3>4. embeddings' = embeddings \o SetToSeq({t})  BY <1>1, <3>1, <3>2
    <3>5. /\ embeddings' \in Seq(Topics) /\ Len(embeddings') = e + 1
          /\ \A i \in 1 .. e + 1 :
                embeddings'[i] = IF i <= e THEN embeddings[i] ELSE SetToSeq({t})[i - e]
      <4> DEFINE one == SetToSeq({t})
      <4>1. one \in Seq(Topics) /\ Len(one) = 1 /\ embeddings' = embeddings \o one  BY <3>3, <3>4
      <4> HIDE DEF one
      <4>2. /\ embeddings' \in Seq(Topics) /\ Len(embeddings') = e + 1
            /\ \A i \in 1 .. e + 1 : embeddings'[i] = IF i <= e THEN embeddings[i] ELSE one[i - e]
        <5>1. /\ embeddings \o one \in Seq(Topics)
              /\ Len(embeddings \o one) = Len(embeddings) + Len(one)
              /\ \A i \in 1 .. Len(embeddings) + Len(one) :
                    (embeddings \o one)[i] = IF i <= Len(embeddings) THEN embeddings[i]
                                             ELSE one[i - Len(embeddings)]
          BY <1>3, <4>1, ConcatProperties
        <5>2. Len(embeddings) = e /\ Len(one) = 1  BY <1>4, <4>1
        <5> QED  BY <4>1, <5>1, <5>2, Zenon
      <4> QED  BY <4>2 DEF one
    <3>6. \A i \in 1 .. e : embeddings'[i] = embeddings[i]
      <4>1. \A i \in 1 .. e : i \in 1 .. e + 1 /\ i <= e  BY <1>4
      <4> QED  BY <3>5, <4>1
    <3>7. embeddings'[e + 1] = t
      <4>1. e + 1 \in 1 .. e + 1 /\ ~(e + 1 <= e) /\ (e + 1) - e = 1  BY <1>4
      <4> QED  BY <3>3, <3>5, <4>1
    <3> QED  BY <3>1, <3>2, <3>5, <3>6, <3>7
  <2> QED  BY <2>1, <2>2
<1>8. CandidateTypeOK'
  <2>1. embeddings' \in Seq(Topics)  BY <1>3, <1>7
  <2>2. base' \in 0 .. Len(asked')  BY <1>1, <1>4, <1>5 DEF CandidateInv, CandidateTypeOK
  <2> QED  BY <1>1, <1>5, <2>1, <2>2 DEF CandidateInv, CandidateTypeOK, Judging
<1>9. CacheInv'
  <2>1. CASE last = {} /\ embeddings' = embeddings
    BY <1>4, <1>5, <1>6, <2>1 DEF CacheInv
  <2>2. CASE /\ e = a /\ Len(embeddings') = e + 1
             /\ \A i \in 1 .. e : embeddings'[i] = embeddings[i]
             /\ embeddings'[e + 1] = candidate.topic
    BY <1>4, <1>5, <1>6, <2>2 DEF CacheInv
  <2> QED  BY <1>7, <2>1, <2>2
<1>10. AskedInv'
  <2>1. \A i \in 1 .. a : asked[i].key \in Known
    BY <1>4 DEF CandidateInv, AskedInv
  <2>2. /\ \A j \in 1 .. a : j > base => asked[j].key # NoKey /\ asked[j].chunks = FactChunks
        /\ \A i, j \in 1 .. a : i < j /\ j > base =>
             /\ asked[i].key # asked[j].key
             /\ asked[i].topic = asked[j].topic => j \in unchecked
    BY <1>4 DEF CandidateInv, AskedInv
  <2>3. Known' = Known \cup {candidate.key} /\ unchecked \subseteq unchecked'
    BY <1>1 DEF Known
  <2>4. \A i \in 1 .. a + 1 : i = a + 1 \/ i \in 1 .. a  BY <1>4
  <2>5. \A i \in 1 .. a + 1 : asked'[i].key \in Known'
    BY <1>5, <2>1, <2>3, <2>4
  <2>6. \A j \in 1 .. a + 1 : j > base => asked'[j].key # NoKey /\ asked'[j].chunks = FactChunks
    BY <1>2, <1>5, <2>2, <2>4 DEF Known
  <2>7. ASSUME NEW i \in 1 .. a + 1, NEW j \in 1 .. a + 1, i < j, j > base
        PROVE  /\ asked'[i].key # asked'[j].key
               /\ asked'[i].topic = asked'[j].topic => j \in unchecked'
    <3>1. i \in 1 .. a /\ asked'[i] = asked[i]  BY <1>4, <1>5, <2>7
    <3>2. CASE j \in 1 .. a
      BY <1>5, <2>2, <2>3, <2>7, <3>1, <3>2
    <3>3. CASE j = a + 1
      <4>1. asked'[j] = candidate  BY <1>5, <3>3
      <4>2. asked[i].key # candidate.key  BY <1>2, <2>1, <3>1
      <4>3. CASE last = {}
        <5>1. j \in unchecked'  BY <1>1, <1>5, <3>3, <4>3
        <5> QED  BY <3>1, <4>1, <4>2, <5>1
      <4>4. CASE last # {}
        <5>1. e = a /\ \A k \in 1 .. e : embeddings[k] # candidate.topic  BY <1>7, <4>4
        <5>2. asked[i].topic # candidate.topic  BY <1>6, <3>1, <5>1
        <5> QED  BY <3>1, <4>1, <4>2, <5>2
      <4> QED  BY <4>3, <4>4
    <3> QED  BY <2>4, <3>2, <3>3
  <2> QED  BY <1>1, <1>5, <2>5, <2>6, <2>7 DEF AskedInv
<1>11. StepInv'  BY <1>1, <1>5 DEF StepInv, Judging
<1>12. CourseInv'  BY <1>1 DEF CandidateInv, CourseInv
<1>13. SaveInv'  BY <1>1 DEF SaveInv
<1> QED  BY <1>8, <1>9, <1>10, <1>11, <1>12, <1>13 DEF CandidateInv

\* The candidate, or its fact, is given up.
LEMMA LeaveKeeps ==
    ASSUME CandidateInv, Decline \/ GivenUp
    PROVE  CandidateInv'
<1>1. /\ step' \in {"draw", "rest"}
      /\ course' = course /\ asked' = asked /\ base' = base /\ seen' = seen /\ embeddings' = embeddings
      /\ last' = last /\ saving' = saving /\ unchecked' = unchecked
  BY DEF Decline, GivenUp
<1>2. CandidateTypeOK'  BY <1>1 DEF CandidateInv, CandidateTypeOK, Judging
<1>3. CacheInv'  BY <1>1 DEF CandidateInv, CacheInv
<1>4. AskedInv'  BY <1>1 DEF CandidateInv, AskedInv, Known
<1>5. StepInv'  BY <1>1 DEF CandidateInv, StepInv, Judging
<1>6. CourseInv'  BY <1>1 DEF CandidateInv, CourseInv
<1>7. SaveInv'  BY <1>1 DEF SaveInv
<1> QED  BY <1>2, <1>3, <1>4, <1>5, <1>6, <1>7 DEF CandidateInv

\* The transaction reads the keys of the course before it writes.
LEMMA BeginSaveKeeps ==
    ASSUME CandidateInv, BeginSave
    PROVE  CandidateInv'
<1> DEFINE left == SubSeq(asked, base + 1, Len(asked))
           qs == [i \in DOMAIN course |-> course[i].question]
<1>1. /\ step' = "save" /\ saving' = [keys |-> StoredKeys, written |-> <<>>, left |-> left]
      /\ course' = course /\ asked' = asked /\ base' = base /\ seen' = seen /\ embeddings' = embeddings
      /\ last' = last /\ candidate' = candidate /\ unchecked' = unchecked
  BY DEF BeginSave
<1>2. PICK a \in Nat, b \in Nat : a = Len(asked) /\ b = base /\ b <= a
  BY SeqFacts DEF CandidateInv
<1>3. /\ left \in Seq(Askable) /\ Len(left) = a - b
      /\ \A i \in 1 .. a - b : left[i] = asked[b + i]
  <2>1. \A i \in b + 1 .. a : asked[i] \in Askable  BY <1>2, SeqFacts DEF CandidateInv
  <2>2. /\ left \in Seq(Askable) /\ Len(left) = IF b + 1 <= a THEN a - (b + 1) + 1 ELSE 0
        /\ \A i \in 1 .. a - (b + 1) + 1 : left[i] = asked[(b + 1) + i - 1]
    BY <2>1, <1>2, SubSeqProperties
  <2> HIDE DEF left
  <2>3. Len(left) = a - b  BY <1>2, <2>2
  <2>4. ASSUME NEW i \in 1 .. a - b PROVE left[i] = asked[b + i]
    <3>1. i \in 1 .. a - (b + 1) + 1 /\ (b + 1) + i - 1 = b + i  BY <1>2
    <3> QED  BY <2>2, <3>1
  <2> QED  BY <2>2, <2>3, <2>4
<1>4. \A i \in 1 .. Len(course) : course[i].byRun => course[i].question.key \in StoredKeys
  <2>1. course \in Seq(SavedSeeds)  BY DEF CandidateInv, CandidateTypeOK
  <2>2. /\ qs \in Seq(Askable) /\ Len(qs) = Len(course)
        /\ \A i \in 1 .. Len(course) : qs[i] = course[i].question
    BY <2>1, StoredQuestions
  <2>3. StoredKeys = KeysOf(qs)  BY DEF StoredKeys
  <2> HIDE DEF qs
  <2>4. \A i \in 1 .. Len(qs) : qs[i].key \in KeysOf(qs) \cup {NoKey}
    BY <2>2, KeyIsKnown
  <2>5. \A i \in 1 .. Len(course) : course[i].byRun => course[i].question.key # NoKey
    BY DEF CandidateInv, CourseInv, Grounded
  <2> QED  BY <2>2, <2>3, <2>4, <2>5
<1> HIDE DEF left
<1>5. saving'.left = left /\ saving'.written = <<>> /\ saving'.keys = StoredKeys  BY <1>1
<1>6. \A S : <<>> \in Seq(S) /\ Len(<<>>) = 0  BY EmptySeq
<1>7. CandidateTypeOK'
  BY <1>1, <1>3, <1>5, <1>6 DEF CandidateInv, CandidateTypeOK, Judging
<1>8. CacheInv'  BY <1>1 DEF CandidateInv, CacheInv
<1>9. AskedInv'  BY <1>1 DEF CandidateInv, AskedInv, Known
<1>10. StepInv'  BY <1>1 DEF CandidateInv, StepInv, Judging
<1>11. CourseInv'  BY <1>1 DEF CandidateInv, CourseInv
<1>12. SaveInv'
  <2>1. \A i \in 1 .. a - b : Grounded(asked[b + i])
    <3>1. \A i \in 1 .. a - b : b + i \in 1 .. a /\ b + i > b  BY <1>2
    <3> QED  BY <1>2, <3>1 DEF CandidateInv, AskedInv, Grounded
  <2>2. \A i \in 1 .. Len(saving'.left) : Grounded(saving'.left[i])
    BY <1>3, <1>5, <2>1 DEF Grounded
  <2>3. \A i \in 1 .. Len(saving'.written) : FALSE  BY <1>5, <1>6
  <2> QED  BY <1>1, <1>4, <1>5, <2>2, <2>3 DEF SaveInv
<1> QED  BY <1>7, <1>8, <1>9, <1>10, <1>11, <1>12 DEF CandidateInv

\* The next accepted question is written, unless its key is known.
LEMMA SaveNextKeeps ==
    ASSUME CandidateInv, NEW works \in BOOLEAN, SaveNext(works)
    PROVE  CandidateInv'
<1> DEFINE seed == Head(saving.left)
           writes == works /\ Key(seed) \notin saving.keys
           entry == [question |-> seed, byRun |-> TRUE]
<1>1. /\ step = "save" /\ saving.left # <<>>
      /\ saving' = [keys |-> IF writes THEN saving.keys \cup {Key(seed)} ELSE saving.keys,
                    written |-> IF writes THEN Append(saving.written, entry) ELSE saving.written,
                    left |-> Tail(saving.left)]
      /\ course' = course /\ asked' = asked /\ base' = base /\ seen' = seen /\ embeddings' = embeddings
      /\ last' = last /\ candidate' = candidate /\ step' = step /\ unchecked' = unchecked
  BY DEF SaveNext
<1>2. saving.left \in Seq(Askable) /\ saving.written \in Seq(SavedSeeds)
  BY DEF CandidateInv, CandidateTypeOK
<1>3. SaveInv /\ CourseInv  BY DEF CandidateInv
<1>4. PICK m \in Nat, w \in Nat : m = Len(saving.left) /\ w = Len(saving.written)
  BY <1>2, LenProperties
<1>5. /\ saving'.keys = IF writes THEN saving.keys \cup {seed.key} ELSE saving.keys
      /\ saving'.written = IF writes THEN Append(saving.written, entry) ELSE saving.written
      /\ saving'.left = Tail(saving.left)
  BY <1>1 DEF Key
<1>6. /\ seed \in Askable /\ Grounded(seed)
      /\ saving'.left \in Seq(Askable) /\ \A i \in 1 .. Len(saving'.left) : Grounded(saving'.left[i])
  <2>1. /\ seed \in Askable /\ seed = saving.left[1] /\ saving'.left \in Seq(Askable)
        /\ Len(saving'.left) = m - 1
        /\ \A i \in 1 .. m - 1 : saving'.left[i] = saving.left[i + 1]
    BY <1>1, <1>2, <1>4, <1>5, HeadTailProperties
  <2>2. m # 0  BY <1>1, <1>2, <1>4, EmptySeq
  <2>3. \A i \in 1 .. m : Grounded(saving.left[i])  BY <1>1, <1>3, <1>4 DEF SaveInv
  <2>4. 1 \in 1 .. m /\ \A i \in 1 .. m - 1 : i + 1 \in 1 .. m  BY <1>4, <2>2
  <2>5. Grounded(seed)  BY <2>1, <2>3, <2>4
  <2>6. \A i \in 1 .. m - 1 : Grounded(saving'.left[i])
    BY <2>1, <2>3, <2>4 DEF Grounded
  <2> QED  BY <2>1, <2>5, <2>6
<1>7. entry \in SavedSeeds /\ entry.question = seed /\ entry.byRun  BY <1>6 DEF SavedSeeds
<1> HIDE DEF seed, entry
<1>8. \/ ~writes /\ saving'.written = saving.written /\ saving'.keys = saving.keys
      \/ /\ seed.key \notin saving.keys /\ saving'.keys = saving.keys \cup {seed.key}
         /\ saving'.written \in Seq(SavedSeeds) /\ Len(saving'.written) = w + 1
         /\ \A i \in 1 .. w : saving'.written[i] = saving.written[i]
         /\ saving'.written[w + 1] = entry
  <2>1. CASE writes
    BY <1>2, <1>4, <1>5, <1>7, <2>1, AppendProperties DEF Key
  <2>2. CASE ~writes  BY <1>5, <2>2
  <2> QED  BY <2>1, <2>2
<1> HIDE DEF writes
<1>9. saving'.written \in Seq(SavedSeeds)  BY <1>2, <1>8
<1>10. CandidateTypeOK'  BY <1>1, <1>6, <1>9 DEF CandidateInv, CandidateTypeOK, Judging
<1>11. CacheInv'  BY <1>1 DEF CandidateInv, CacheInv
<1>12. AskedInv'  BY <1>1 DEF CandidateInv, AskedInv, Known
<1>13. StepInv'  BY <1>1 DEF CandidateInv, StepInv, Judging
<1>14. CourseInv'  BY <1>1 DEF CandidateInv, CourseInv
<1>15. SaveInv'
  <2>1. CASE saving'.written = saving.written /\ saving'.keys = saving.keys
    <3>1. /\ \A i \in 1 .. w :
                /\ saving.written[i].byRun /\ Grounded(saving.written[i].question)
                /\ saving.written[i].question.key \in saving.keys
          /\ \A i, j \in 1 .. w : i < j => saving.written[i].question.key # saving.written[j].question.key
          /\ \A i \in 1 .. Len(course) : course[i].byRun => course[i].question.key \in saving.keys
          /\ \A i \in 1 .. Len(course), j \in 1 .. w :
                course[i].byRun => course[i].question.key # saving.written[j].question.key
      BY <1>1, <1>3, <1>4 DEF SaveInv
    <3>2. \A i \in 1 .. Len(saving'.left) : Grounded(saving'.left[i])  BY <1>6
    <3>3. Len(saving'.written) = w  BY <1>4, <2>1
    <3>4. \A i \in 1 .. w :
            /\ saving'.written[i].byRun /\ Grounded(saving'.written[i].question)
            /\ saving'.written[i].question.key \in saving'.keys
      BY <2>1, <3>1
    <3>5. \A i, j \in 1 .. w : i < j => saving'.written[i].question.key # saving'.written[j].question.key
      BY <2>1, <3>1
    <3>6. \A i \in 1 .. Len(course), j \in 1 .. w :
            course[i].byRun => course[i].question.key # saving'.written[j].question.key
      BY <2>1, <3>1
    <3>7. \A i \in 1 .. Len(course) : course[i].byRun => course[i].question.key \in saving'.keys
      BY <2>1, <3>1
    <3> QED  BY <1>1, <3>2, <3>3, <3>4, <3>5, <3>6, <3>7 DEF SaveInv, Grounded
  <2>2. CASE /\ seed.key \notin saving.keys /\ saving'.keys = saving.keys \cup {seed.key}
             /\ saving'.written \in Seq(SavedSeeds) /\ Len(saving'.written) = w + 1
             /\ \A i \in 1 .. w : saving'.written[i] = saving.written[i]
             /\ saving'.written[w + 1] = entry
    <3>1. /\ \A i \in 1 .. w :
                /\ saving.written[i].byRun /\ Grounded(saving.written[i].question)
                /\ saving.written[i].question.key \in saving.keys
          /\ \A i, j \in 1 .. w : i < j => saving.written[i].question.key # saving.written[j].question.key
          /\ \A i \in 1 .. Len(course) : course[i].byRun => course[i].question.key \in saving.keys
          /\ \A i \in 1 .. Len(course), j \in 1 .. w :
                course[i].byRun => course[i].question.key # saving.written[j].question.key
      BY <1>1, <1>3, <1>4 DEF SaveInv
    <3>2. \A i \in 1 .. w + 1 : i = w + 1 \/ i \in 1 .. w  BY <1>4
    <3>3. \A i \in 1 .. w + 1 :
            /\ saving'.written[i].byRun /\ Grounded(saving'.written[i].question)
            /\ saving'.written[i].question.key \in saving'.keys
      BY <1>6, <1>7, <2>2, <3>1, <3>2 DEF Grounded
    <3>4. ASSUME NEW i \in 1 .. w + 1, NEW j \in 1 .. w + 1, i < j
          PROVE  saving'.written[i].question.key # saving'.written[j].question.key
      <4>1. i \in 1 .. w /\ saving'.written[i] = saving.written[i]  BY <1>4, <2>2, <3>4
      <4>2. CASE j \in 1 .. w  BY <2>2, <3>1, <3>4, <4>1, <4>2
      <4>3. CASE j = w + 1
        <5>1. saving'.written[j].question = seed  BY <1>7, <2>2, <4>3
        <5> QED  BY <2>2, <3>1, <4>1, <5>1
      <4> QED  BY <3>2, <4>2, <4>3
    <3>5. \A i \in 1 .. Len(course) : course[i].byRun => course[i].question.key \in saving'.keys
      BY <2>2, <3>1
    <3>6. ASSUME NEW i \in 1 .. Len(course), NEW j \in 1 .. w + 1, course[i].byRun
          PROVE  course[i].question.key # saving'.written[j].question.key
      <4>1. CASE j \in 1 .. w  BY <2>2, <3>1, <3>6, <4>1
      <4>2. CASE j = w + 1
        <5>1. saving'.written[j].question = seed  BY <1>7, <2>2, <4>2
        <5> QED  BY <2>2, <3>1, <3>6, <5>1
      <4> QED  BY <3>2, <4>1, <4>2
    <3> QED  BY <1>1, <1>6, <2>2, <3>3, <3>4, <3>5, <3>6 DEF SaveInv, Grounded
  <2> QED  BY <1>8, <2>1, <2>2
<1> QED  BY <1>10, <1>11, <1>12, <1>13, <1>14, <1>15 DEF CandidateInv

\* The transaction commits, or is lost with all it wrote.
LEMMA CommitKeeps ==
    ASSUME CandidateInv, NEW works \in BOOLEAN, CommitSeeds(works)
    PROVE  CandidateInv'
<1>1. /\ step = "save" /\ step' = "rest" /\ saving' = NoTransaction
      /\ course' = (IF works THEN course \o saving.written ELSE course)
      /\ asked' = asked /\ base' = base /\ seen' = seen /\ embeddings' = embeddings
      /\ last' = last /\ candidate' = candidate /\ unchecked' = unchecked
  BY DEF CommitSeeds
<1>2. course \in Seq(SavedSeeds) /\ saving.written \in Seq(SavedSeeds) /\ SaveInv /\ CourseInv
  BY DEF CandidateInv, CandidateTypeOK
<1>3. PICK c \in Nat, w \in Nat : c = Len(course) /\ w = Len(saving.written)
  BY <1>2, LenProperties
<1>4. course' \in Seq(SavedSeeds) /\ CourseInv'
  <2>1. CASE ~works  BY <1>1, <1>2, <2>1 DEF CourseInv
  <2>2. CASE works
    <3>1. /\ course' \in Seq(SavedSeeds) /\ Len(course') = c + w
          /\ \A i \in 1 .. c + w : course'[i] = IF i <= c THEN course[i] ELSE saving.written[i - c]
      BY <1>1, <1>2, <1>3, <2>2, ConcatProperties
    <3>2. \A i \in 1 .. c + w :
            \/ i \in 1 .. c /\ course'[i] = course[i]
            \/ i > c /\ i - c \in 1 .. w /\ course'[i] = saving.written[i - c]
      BY <1>3, <3>1
    <3>3. /\ \A i \in 1 .. w : saving.written[i].byRun /\ Grounded(saving.written[i].question)
          /\ \A i, j \in 1 .. w : i < j => saving.written[i].question.key # saving.written[j].question.key
          /\ \A i \in 1 .. c, j \in 1 .. w :
                course[i].byRun => course[i].question.key # saving.written[j].question.key
      BY <1>1, <1>2, <1>3 DEF SaveInv
    <3>4. /\ \A i \in 1 .. c : course[i].byRun => Grounded(course[i].question)
          /\ \A i, j \in 1 .. c : i < j /\ course[i].byRun /\ course[j].byRun
                => course[i].question.key # course[j].question.key
      BY <1>2, <1>3 DEF CourseInv
    <3>5. \A i \in 1 .. c + w : course'[i].byRun => Grounded(course'[i].question)
      BY <3>2, <3>3, <3>4 DEF Grounded
    <3>6. ASSUME NEW i \in 1 .. c + w, NEW j \in 1 .. c + w, i < j, course'[i].byRun, course'[j].byRun
          PROVE  course'[i].question.key # course'[j].question.key
      <4>1. CASE i \in 1 .. c /\ course'[i] = course[i] /\ j \in 1 .. c /\ course'[j] = course[j]
        BY <3>4, <3>6, <4>1
      <4>2. CASE i \in 1 .. c /\ course'[i] = course[i] /\ j - c \in 1 .. w /\ course'[j] = saving.written[j - c]
        BY <3>3, <3>6, <4>2
      <4>3. CASE i > c /\ i - c \in 1 .. w /\ course'[i] = saving.written[i - c]
        <5>1. j > c /\ i - c < j - c  BY <1>3, <3>6, <4>3
        <5>2. j - c \in 1 .. w /\ course'[j] = saving.written[j - c]
          BY <1>3, <3>2, <5>1
        <5> QED  BY <3>3, <4>3, <5>1, <5>2
      <4> QED  BY <3>2, <4>1, <4>2, <4>3
    <3> QED  BY <3>1, <3>5, <3>6 DEF CourseInv, Grounded
  <2> QED  BY <2>1, <2>2
<1>5. saving'.left = <<>> /\ saving'.written = <<>> /\ \A S : <<>> \in Seq(S)
  BY <1>1, EmptySeq DEF NoTransaction
<1>6. CandidateTypeOK'  BY <1>1, <1>4, <1>5 DEF CandidateInv, CandidateTypeOK
<1>7. CacheInv'  BY <1>1 DEF CandidateInv, CacheInv
<1>8. AskedInv'  BY <1>1 DEF CandidateInv, AskedInv, Known
<1>9. StepInv'  BY <1>1 DEF CandidateInv, StepInv, Judging
<1>10. SaveInv'  BY <1>1 DEF SaveInv
<1> QED  BY <1>4, <1>6, <1>7, <1>8, <1>9, <1>10 DEF CandidateInv

\* Someone adds a question to the course, or deletes one, during a save too: it is
\* no run's question.
LEMMA ChangeKeeps ==
    ASSUME CandidateInv, ChangeCourse
    PROVE  CandidateInv'
<1>1. /\ asked' = asked /\ base' = base /\ seen' = seen /\ embeddings' = embeddings
      /\ last' = last /\ candidate' = candidate /\ step' = step /\ saving' = saving /\ unchecked' = unchecked
  BY DEF ChangeCourse
<1>2. course \in Seq(SavedSeeds) /\ SaveInv /\ CourseInv  BY DEF CandidateInv, CandidateTypeOK
<1>3. PICK c \in Nat : c = Len(course)  BY <1>2, LenProperties
<1>4. \E d \in Nat, k \in 0 .. 1 :
        /\ course' \in Seq(SavedSeeds) /\ Len(course') = d
        /\ \A i \in 1 .. d : course'[i].byRun => i + k \in 1 .. c /\ course'[i] = course[i + k]
  <2>1. ASSUME NEW p \in Proposals, course' = Append(course, [question |-> p, byRun |-> FALSE])
        PROVE  \E d \in Nat, k \in 0 .. 1 :
                 /\ course' \in Seq(SavedSeeds) /\ Len(course') = d
                 /\ \A i \in 1 .. d : course'[i].byRun => i + k \in 1 .. c /\ course'[i] = course[i + k]
    <3> DEFINE entry == [question |-> p, byRun |-> FALSE]
    <3>1. entry \in SavedSeeds /\ ~entry.byRun  BY DEF SavedSeeds, Askable
    <3> HIDE DEF entry
    <3>2. /\ course' \in Seq(SavedSeeds) /\ Len(course') = c + 1
          /\ \A i \in 1 .. c : course'[i] = course[i]
          /\ course'[c + 1] = entry
      BY <1>2, <1>3, <2>1, <3>1, AppendProperties DEF entry
    <3>3. \A i \in 1 .. c + 1 : course'[i].byRun => i + 0 \in 1 .. c /\ course'[i] = course[i + 0]
      BY <1>3, <3>1, <3>2
    <3> QED  BY <1>3, <3>2, <3>3
  <2>2. CASE course # <<>> /\ course' = Tail(course)
    <3>1. /\ course' \in Seq(SavedSeeds) /\ Len(course') = c - 1
          /\ \A i \in 1 .. c - 1 : course'[i] = course[i + 1]
      BY <1>2, <1>3, <2>2, HeadTailProperties
    <3>2. c # 0  BY <1>2, <1>3, <2>2, EmptySeq
    <3>3. c - 1 \in Nat /\ \A i \in 1 .. c - 1 : i + 1 \in 1 .. c  BY <1>3, <3>2
    <3> QED  BY <3>1, <3>3
  <2> QED  BY <2>1, <2>2 DEF ChangeCourse
<1>5. PICK d \in Nat, k \in 0 .. 1 :
        /\ course' \in Seq(SavedSeeds) /\ Len(course') = d
        /\ \A i \in 1 .. d : course'[i].byRun => i + k \in 1 .. c /\ course'[i] = course[i + k]
  BY <1>4
<1>6. CandidateTypeOK'  BY <1>1, <1>5 DEF CandidateInv, CandidateTypeOK
<1>7. CacheInv'  BY <1>1 DEF CandidateInv, CacheInv
<1>8. AskedInv'  BY <1>1 DEF CandidateInv, AskedInv, Known
<1>9. StepInv'  BY <1>1 DEF CandidateInv, StepInv, Judging, Known
<1>10. CourseInv'
  <2>1. /\ \A i \in 1 .. c : course[i].byRun => Grounded(course[i].question)
        /\ \A i, j \in 1 .. c : i < j /\ course[i].byRun /\ course[j].byRun
              => course[i].question.key # course[j].question.key
    BY <1>2, <1>3 DEF CourseInv
  <2>2. \A i \in 1 .. d : course'[i].byRun => Grounded(course'[i].question)
    BY <1>5, <2>1 DEF Grounded
  <2>3. ASSUME NEW i \in 1 .. d, NEW j \in 1 .. d, i < j, course'[i].byRun, course'[j].byRun
        PROVE  course'[i].question.key # course'[j].question.key
    <3>1. i + k < j + k  BY <2>3
    <3> QED  BY <1>5, <2>1, <2>3, <3>1
  <2> QED  BY <1>5, <2>2, <2>3 DEF CourseInv, Grounded
<1>11. SaveInv'  BY <1>1, <1>2, <1>3, <1>5 DEF SaveInv, Grounded
<1> QED  BY <1>6, <1>7, <1>8, <1>9, <1>10, <1>11 DEF CandidateInv

\* Every step keeps the invariant.
LEMMA CandidateStep == CandidateInv /\ [CandidateNext]_candidateVars => CandidateInv'
<1> SUFFICES ASSUME CandidateInv, [CandidateNext]_candidateVars PROVE CandidateInv'  OBVIOUS
<1>1. CASE UNCHANGED candidateVars
  BY <1>1 DEF candidateVars, CandidateInv, CandidateTypeOK, CacheInv, AskedInv, StepInv, CourseInv, SaveInv,
              Known, Judging, Grounded
<1>2. CASE CandidateNext
  BY <1>2, BeginKeeps, DrawKeeps, CacheKeeps, EmbedKeeps, AcceptedKeeps, LeaveKeeps, BeginSaveKeeps,
     SaveNextKeeps, CommitKeeps, ChangeKeeps DEF CandidateNext
<1> QED  BY <1>1, <1>2

\* The invariant implies the property.
LEMMA CandidateInvIsSafe == CandidateInv => CandidateSafety
<1> SUFFICES ASSUME CandidateInv PROVE CandidateSafety  OBVIOUS
<1>1. Cardinality(last) <= 1
  <2>1. CASE last = {}  BY <2>1, FS_EmptySet
  <2>2. CASE \E t \in Topics : last = {t}
    <3>1. PICK t \in Topics : last = {t}  BY <2>2
    <3>2. Cardinality({t}) = 1  BY FS_Singleton
    <3> QED  BY <3>1, <3>2
  <2> QED  BY <2>1, <2>2 DEF CandidateInv, CandidateTypeOK
<1>2. /\ DOMAIN embeddings = 1 .. Len(embeddings) /\ DOMAIN course = 1 .. Len(course)
  BY LenProperties DEF CandidateInv, CandidateTypeOK
<1>3. step \in {"rest", "draw", "cache", "embed", "judge", "save"}
  BY DEF CandidateInv, CandidateTypeOK, Judging
<1>4. Len(embeddings) <= Len(asked) /\ \A i \in DOMAIN embeddings : embeddings[i] = asked[i].topic
  BY <1>2 DEF CandidateInv, CacheInv
<1>5. \A j \in base + 1 .. Len(asked), i \in 1 .. Len(asked) :
        i < j => /\ Key(asked[i]) # Key(asked[j])
                 /\ asked[i].topic = asked[j].topic => j \in unchecked
  <2>1. base \in Nat /\ Len(asked) \in Nat  BY SeqFacts DEF CandidateInv
  <2>2. \A j \in base + 1 .. Len(asked) : j \in 1 .. Len(asked) /\ j > base  BY <2>1
  <2> QED  BY <2>2 DEF CandidateInv, AskedInv, Key
<1>6. /\ \A i, j \in DOMAIN course :
          i < j /\ course[i].byRun /\ course[j].byRun => Key(course[i].question) # Key(course[j].question)
      /\ \A i \in DOMAIN course : course[i].byRun => course[i].question.chunks = FactChunks
  BY <1>2 DEF CandidateInv, CourseInv, Grounded, Key
<1> QED  BY <1>1, <1>3, <1>4, <1>5, <1>6 DEF CandidateSafety

\* No two questions a run accepts have one wording, nor one meaning unless the
\* embeddings could not be had; no two seeds that runs have saved have one wording,
\* and each is grounded in the chunks of its fact (find_semantic_duplicate_question,
\* persist_accepted_seeds).
THEOREM CandidatesAreSafe == CandidateSpec => []CandidateSafety
<1>1. CandidateInit => CandidateInv  BY InitCandidate
<1>2. CandidateInv /\ [CandidateNext]_candidateVars => CandidateInv'  BY CandidateStep
<1>3. CandidateInv => CandidateSafety  BY CandidateInvIsSafe
<1> QED  BY <1>1, <1>2, <1>3, PTL DEF CandidateSpec

---------------------------------------------------------------------------
(* The checks of a candidate.                                              *)

\* What is found by the first of twelve reasons that holds, when the last always does.
LEMMA FirstReason ==
    ASSUME NEW when \in [1 .. 12 -> BOOLEAN], when[12]
    PROVE  LET first == CHOOSE i \in 1 .. 12 : when[i] /\ \A j \in 1 .. i - 1 : ~when[j]
           IN  first \in 1 .. 12 /\ when[first] /\ \A j \in 1 .. first - 1 : ~when[j]
<1> SUFFICES \E i \in 1 .. 12 : when[i] /\ \A j \in 1 .. i - 1 : ~when[j]
  BY Zenon
<1> DEFINE T == 1 .. 12
           R == {p \in T \X T : p[1] > p[2]}
           U == {i \in T : when[i]}
<1>1. IsFiniteSet(T)
  <2>1. 1 \in Int /\ 12 \in Int  OBVIOUS
  <2> QED  BY <2>1, FS_Interval
<1>2. \A x, y \in T : x = y \/ <<x, y>> \in R \/ <<y, x>> \in R  OBVIOUS
<1>3. \A x, y, z \in T : <<x, y>> \in R /\ <<y, z>> \in R => <<x, z>> \in R  OBVIOUS
<1>4. U \in SUBSET T /\ 12 \in U  OBVIOUS
<1> HIDE DEF U, R, T
<1>5. \A V \in SUBSET T : V # {} => \E x \in V : \A y \in V : y = x \/ <<y, x>> \in R
  BY <1>1, <1>2, <1>3, LastExists
<1>6. PICK x \in U : \A y \in U : y = x \/ <<y, x>> \in R
  BY <1>4, <1>5
<1>7. x \in 1 .. 12 /\ when[x]  BY <1>6 DEF U, T
<1>8. \A j \in 1 .. x - 1 : ~when[j]
  <2>1. \A j \in 1 .. x - 1 : j \in 1 .. 12 /\ j # x /\ ~(j > x)  BY <1>7
  <2>2. ASSUME NEW j \in U, j # x PROVE j > x
    <3>1. <<j, x>> \in R  BY <1>6, <2>2
    <3> QED  BY <3>1 DEF R
  <2> QED  BY <2>1, <2>2 DEF U, T
<1> QED  BY <1>7, <1>8

\* The reason to refuse, of the conditions in their order.
Refusal(question, answer, modality, own, bundle) ==
    IF question = {} \/ answer = {} THEN "empty"
    ELSE IF Escalates(question, answer, modality) THEN "escalation"
    ELSE IF "absolute" \in answer \ bundle THEN "absolute"
    ELSE IF Guarantees(answer, bundle) THEN "guarantee"
    ELSE IF Overstates(answer, modality) = "obligation_not_in_evidence" THEN "obligation"
    ELSE IF Overstates(answer, modality) \in {"guarantee_from_conditional", "guarantee_not_in_evidence"}
         THEN "guarantee"
    ELSE IF Overstates(question, modality) = "obligation_not_in_evidence" THEN "obligation"
    ELSE IF DropsCondition(question, answer, own) THEN "condition"
    ELSE IF MissesQualifier(answer, own) THEN "qualifier"
    ELSE IF FlipsWindow(question, answer, own) THEN "window"
    ELSE IF AsksBeyond(question, bundle) THEN "beyond"
    ELSE "none"

LEMMA PrevalidateIs ==
    ASSUME NEW question, NEW answer, NEW statement, NEW quote, NEW source
    PROVE  LET bundle == Bundle(statement, quote, source)
               own == IF QualifierEvidence(statement, quote) = {} THEN bundle ELSE QualifierEvidence(statement, quote)
           IN  Prevalidate(question, answer, statement, quote, source)
                 = Refusal(question, answer, ModalityEvidence(statement, quote, source), own, bundle)
<1> DEFINE bundle == Bundle(statement, quote, source)
           modality == ModalityEvidence(statement, quote, source)
           own == IF QualifierEvidence(statement, quote) = {} THEN bundle ELSE QualifierEvidence(statement, quote)
           w1 == question = {} \/ answer = {}
           w2 == Escalates(question, answer, modality)
           w3 == "absolute" \in answer \ bundle
           w4 == Guarantees(answer, bundle)
           w5 == Overstates(answer, modality) = "obligation_not_in_evidence"
           w6 == Overstates(answer, modality) \in {"guarantee_from_conditional", "guarantee_not_in_evidence"}
           w7 == Overstates(question, modality) = "obligation_not_in_evidence"
           w8 == DropsCondition(question, answer, own)
           w9 == MissesQualifier(answer, own)
           w10 == FlipsWindow(question, answer, own)
           w11 == AsksBeyond(question, bundle)
           reasons == <<[when |-> w1, why |-> "empty"], [when |-> w2, why |-> "escalation"],
                        [when |-> w3, why |-> "absolute"], [when |-> w4, why |-> "guarantee"],
                        [when |-> w5, why |-> "obligation"], [when |-> w6, why |-> "guarantee"],
                        [when |-> w7, why |-> "obligation"], [when |-> w8, why |-> "condition"],
                        [when |-> w9, why |-> "qualifier"], [when |-> w10, why |-> "window"],
                        [when |-> w11, why |-> "beyond"], [when |-> TRUE, why |-> "none"]>>
           first == CHOOSE i \in DOMAIN reasons : reasons[i].when /\ \A j \in 1 .. i - 1 : ~reasons[j].when
           chain == IF w1 THEN "empty" ELSE IF w2 THEN "escalation" ELSE IF w3 THEN "absolute"
                    ELSE IF w4 THEN "guarantee" ELSE IF w5 THEN "obligation" ELSE IF w6 THEN "guarantee"
                    ELSE IF w7 THEN "obligation" ELSE IF w8 THEN "condition" ELSE IF w9 THEN "qualifier"
                    ELSE IF w10 THEN "window" ELSE IF w11 THEN "beyond" ELSE "none"
<1>1. Prevalidate(question, answer, statement, quote, source) = reasons[first].why
  BY Zenon DEF Prevalidate
<1>2. Refusal(question, answer, modality, own, bundle) = chain
  BY Zenon DEF Refusal
<1>13. /\ w1 \in BOOLEAN /\ w2 \in BOOLEAN /\ w3 \in BOOLEAN /\ w4 \in BOOLEAN /\ w5 \in BOOLEAN /\ w6 \in BOOLEAN
      /\ w7 \in BOOLEAN /\ w8 \in BOOLEAN /\ w9 \in BOOLEAN /\ w10 \in BOOLEAN /\ w11 \in BOOLEAN
  <2>1. w1 \in BOOLEAN  OBVIOUS
  <2>2. w2 \in BOOLEAN  BY DEF Escalates
  <2>3. w3 \in BOOLEAN  OBVIOUS
  <2>4. w4 \in BOOLEAN  BY DEF Guarantees
  <2>5. w5 \in BOOLEAN /\ w6 \in BOOLEAN /\ w7 \in BOOLEAN  OBVIOUS
  <2>8. w8 \in BOOLEAN  BY DEF DropsCondition
  <2>9. w9 \in BOOLEAN  BY DEF MissesQualifier
  <2>10. w10 \in BOOLEAN  BY DEF FlipsWindow
  <2>11. w11 \in BOOLEAN  BY DEF AsksBeyond
  <2> HIDE DEF w1, w2, w3, w4, w5, w6, w7, w8, w9, w10, w11
  <2> QED  BY <2>1, <2>2, <2>3, <2>4, <2>5, <2>8, <2>9, <2>10, <2>11
<1> HIDE DEF w1, w2, w3, w4, w5, w6, w7, w8, w9, w10, w11
<1> DEFINE when == [i \in 1 .. 12 |-> reasons[i].when]
<1>3. DOMAIN reasons = 1 .. 12  OBVIOUS
<1>4. /\ reasons[1].when = w1 /\ reasons[2].when = w2 /\ reasons[3].when = w3 /\ reasons[4].when = w4
      /\ reasons[5].when = w5 /\ reasons[6].when = w6 /\ reasons[7].when = w7 /\ reasons[8].when = w8
      /\ reasons[9].when = w9 /\ reasons[10].when = w10 /\ reasons[11].when = w11 /\ reasons[12].when = TRUE
  OBVIOUS
<1>5. /\ reasons[1].why = "empty" /\ reasons[2].why = "escalation" /\ reasons[3].why = "absolute"
      /\ reasons[4].why = "guarantee" /\ reasons[5].why = "obligation" /\ reasons[6].why = "guarantee"
      /\ reasons[7].why = "obligation" /\ reasons[8].why = "condition" /\ reasons[9].why = "qualifier"
      /\ reasons[10].why = "window" /\ reasons[11].why = "beyond" /\ reasons[12].why = "none"
  OBVIOUS
<1> HIDE DEF reasons
<1>6. \A i \in 1 .. 12 : i = 1 \/ i = 2 \/ i = 3 \/ i = 4 \/ i = 5 \/ i = 6 \/ i = 7 \/ i = 8 \/ i = 9 \/ i = 10 \/ i = 11 \/ i = 12
  OBVIOUS
<1>7. \A i \in 1 .. 12 : reasons[i].when \in BOOLEAN
  BY <1>4, <1>6, <1>13, Zenon
<1>8. when \in [1 .. 12 -> BOOLEAN] /\ \A i \in 1 .. 12 : when[i] = reasons[i].when
  BY <1>7, Zenon
<1> HIDE DEF when
<1>9. first = CHOOSE i \in 1 .. 12 : when[i] /\ \A j \in 1 .. i - 1 : ~when[j]
  <2>1. ASSUME NEW i \in 1 .. 12
        PROVE  (reasons[i].when /\ \A j \in 1 .. i - 1 : ~reasons[j].when) <=> (when[i] /\ \A j \in 1 .. i - 1 : ~when[j])
    <3>1. \A j \in 1 .. i - 1 : j \in 1 .. 12  OBVIOUS
    <3> QED  BY <1>8, <3>1, Zenon
  <2> QED  BY <1>3, <2>1, Zenon
<1>10. first \in 1 .. 12 /\ when[first] /\ \A j \in 1 .. first - 1 : ~when[j]
  <2>1. when[12]  BY <1>4, <1>8
  <2> QED  BY <1>8, <1>9, <2>1, FirstReason, Zenon
<1> HIDE DEF first
<1>11. /\ when[1] = w1 /\ when[2] = w2 /\ when[3] = w3 /\ when[4] = w4 /\ when[5] = w5 /\ when[6] = w6
       /\ when[7] = w7 /\ when[8] = w8 /\ when[9] = w9 /\ when[10] = w10 /\ when[11] = w11
  BY <1>4, <1>8
<1>12. reasons[first].why = chain
  BY <1>5, <1>6, <1>10, <1>11
<1> QED  BY <1>1, <1>2, <1>12

\* A duty that the evidence does not state is the first thing refused.
LEMMA ObligationIsSeen ==
    ASSUME NEW statement, NEW evidence, Says(statement, Obligation), ~Says(evidence, Requirement)
    PROVE  Overstates(statement, evidence) = "obligation_not_in_evidence"
BY DEF Overstates

\* The cases: a candidate beside its fact, with or without the sentences beside it,
\* or a rubric.
CaseInv ==
    \/ case \in [statement : Statements \ {{}}, quote : Quotes, question : Questions, answer : Answers,
                 neighbour : Neighbours \cup {{}}]
    \/ case \in [marks : Rubrics, type : {"direct", "scenario"}, question : SUBSET {"short", "schedule"},
                 answer : {{}, {"short"}, {"advice"}}]

LEMMA InitCase == CheckInit => CaseInv
BY DEF CheckInit, CaseInv

LEMMA CaseStep == CaseInv /\ [CheckNext]_case => CaseInv'
<1> SUFFICES ASSUME CaseInv, [CheckNext]_case PROVE CaseInv'  OBVIOUS
<1>1. CASE UNCHANGED case  BY <1>1 DEF CaseInv
<1>2. CASE CheckNext
  <2>1. PICK n \in Neighbours : case' = [case EXCEPT !.neighbour = n]  BY <1>2 DEF CheckNext
  <2>2. "neighbour" \in DOMAIN case  BY <1>2 DEF CheckNext
  <2>3. case \in [statement : Statements \ {{}}, quote : Quotes, question : Questions, answer : Answers,
                  neighbour : Neighbours \cup {{}}]
    BY <2>2 DEF CaseInv
  <2> QED  BY <2>1, <2>3 DEF CaseInv
<1> QED  BY <1>1, <1>2

LEMMA NeighboursAside == CaseInv => NeighboursDoNotDecide
<1> SUFFICES ASSUME CaseInv, "neighbour" \in DOMAIN case PROVE NeighboursDoNotDecide
  BY Zenon DEF NeighboursDoNotDecide
<1> DEFINE q == case.question
           a == case.answer
           s == case.statement
           t == case.quote
           b1 == Bundle(s, t, {})
           b2 == Bundle(s, t, case.neighbour)
           m == ModalityEvidence(s, t, {})
           o == QualifierEvidence(s, t)
           alone == Prevalidate(q, a, s, t, {})
           beside == Prevalidate(q, a, s, t, case.neighbour)
<1>1. s # {}  BY DEF CaseInv
<1>2. ModalityEvidence(s, t, case.neighbour) = m  BY <1>1, Zenon DEF ModalityEvidence
<1>3. o # {}  BY <1>1 DEF QualifierEvidence, Bundle
<1>4. alone = Refusal(q, a, m, o, b1)  BY <1>3, PrevalidateIs, Zenon
<1>5. beside = Refusal(q, a, m, o, b2)  BY <1>2, <1>3, PrevalidateIs, Zenon
<1>6. t # {} => m = t  BY DEF ModalityEvidence
<1> HIDE DEF q, a, s, t, b1, b2, m, o, alone, beside
<1>7. alone \in {"escalation", "obligation"} => beside # "none"
  BY <1>4, <1>5 DEF Refusal
<1>8. beside \in OwnReasons /\ alone \notin OwnReasons => alone \in {"absolute", "guarantee"}
  BY <1>4, <1>5 DEF Refusal, OwnReasons
<1>9. ASSUME beside = "none", Says(q \cup a, Obligation), t # {} PROVE Says(t, Requirement)
  <2>1. Overstates(q, m) # "obligation_not_in_evidence" /\ Overstates(a, m) # "obligation_not_in_evidence"
    BY <1>5, <1>9 DEF Refusal
  <2>2. Says(q, Obligation) \/ Says(a, Obligation)  BY <1>9 DEF Says
  <2>3. Says(m, Requirement)  BY <2>1, <2>2, ObligationIsSeen, Zenon
  <2> QED  BY <1>6, <1>9, <2>3
<1> QED  BY <1>7, <1>8, <1>9, Zenon DEF NeighboursDoNotDecide, q, a, s, t, alone, beside

Marks == [Components -> 0 .. 100]

\* Caps lower marks to themselves, and no further.
LEMMA CapsLower ==
    ASSUME NEW marks \in Marks, NEW caps, \A c \in DOMAIN caps : caps[c] \in 0 .. 100
    PROVE  /\ AtMost(marks, caps) \in Marks
           /\ \A c \in Components : AtMost(marks, caps)[c] <= marks[c]
           /\ \A c \in Components : c \notin DOMAIN caps => AtMost(marks, caps)[c] = marks[c]
           /\ \A c \in Components, low \in 0 .. 100 :
                  low <= marks[c] /\ (c \in DOMAIN caps => low <= caps[c]) => low <= AtMost(marks, caps)[c]
<1>1. \A c \in Components : marks[c] \in 0 .. 100  BY DEF Marks
<1>2. \A c \in Components :
        AtMost(marks, caps)[c] = IF c \in DOMAIN caps /\ caps[c] < marks[c] THEN caps[c] ELSE marks[c]
  BY DEF AtMost
<1>3. \A c \in Components : AtMost(marks, caps)[c] \in 0 .. 100  BY <1>1, <1>2
<1>4. AtMost(marks, caps) \in Marks
  <2>1. AtMost(marks, caps) = [c \in Components |-> AtMost(marks, caps)[c]]  BY DEF AtMost
  <2> QED  BY <1>3, <2>1 DEF Marks
<1> QED  BY <1>1, <1>2, <1>4

\* What a calibration without advice leaves of flawless marks.
FloorOf(c) == IF c = "useful" THEN 88 ELSE IF c = "natural" THEN 92 ELSE IF c = "notTrivial" THEN 78 ELSE 94

\* One cap of the calibration, where it applies.
Lower(marks, caps, when) == IF when THEN AtMost(marks, caps) ELSE marks

LEMMA LowerKeeps ==
    ASSUME NEW marks \in Marks, NEW top \in Marks, NEW caps, NEW when \in BOOLEAN,
           \A c \in DOMAIN caps : caps[c] \in 0 .. 100,
           \A c \in Components : marks[c] <= top[c]
    PROVE  /\ Lower(marks, caps, when) \in Marks
           /\ \A c \in Components : Lower(marks, caps, when)[c] <= top[c]
           /\ (\A c \in Components : FloorOf(c) <= marks[c])
              /\ (\A c \in DOMAIN caps \cap Components : FloorOf(c) <= caps[c])
              => \A c \in Components : FloorOf(c) <= Lower(marks, caps, when)[c]
<1> DEFINE low == AtMost(marks, caps)
<1>1. \A c \in Components : marks[c] \in 0 .. 100 /\ top[c] \in 0 .. 100 /\ FloorOf(c) \in 0 .. 100
  BY DEF Marks, FloorOf
<1>2. CASE when
  <2>0. Lower(marks, caps, when) = low  BY <1>2 DEF Lower
  <2>1. low \in Marks /\ \A c \in Components : low[c] <= marks[c]  BY CapsLower
  <2>2. \A c \in Components : low[c] \in 0 .. 100  BY <2>1 DEF Marks
  <2>3. \A c \in Components, l \in 0 .. 100 :
          l <= marks[c] /\ (c \in DOMAIN caps => l <= caps[c]) => l <= low[c]
    BY CapsLower
  <2> HIDE DEF low
  <2>4. ASSUME NEW c \in Components PROVE low[c] <= top[c]
    <3>1. low[c] \in 0 .. 100 /\ marks[c] \in 0 .. 100 /\ top[c] \in 0 .. 100  BY <1>1, <2>2
    <3>2. low[c] <= marks[c] /\ marks[c] <= top[c]  BY <2>1
    <3>x. PICK x \in Nat : x = low[c]  BY <3>1
    <3>y. PICK y \in Nat : y = marks[c]  BY <3>1
    <3>z. PICK z \in Nat : z = top[c]  BY <3>1
    <3>3. x <= y /\ y <= z  BY <3>2, <3>x, <3>y, <3>z
    <3> QED  BY <3>3, <3>x, <3>z
  <2>5. (\A c \in Components : FloorOf(c) <= marks[c])
        /\ (\A c \in DOMAIN caps \cap Components : FloorOf(c) <= caps[c])
        => \A c \in Components : FloorOf(c) <= low[c]
    BY <1>1, <2>3
  <2> QED  BY <2>0, <2>1, <2>4, <2>5
<1>3. CASE ~when
  <2>1. Lower(marks, caps, when) = marks  BY <1>3 DEF Lower
  <2> QED  BY <2>1
<1> QED  BY <1>2, <1>3

LEMMA CalibratedKeeps ==
    ASSUME NEW marks \in Marks, NEW question, NEW answer, NEW type
    PROVE  LET result == Calibrated(marks, question, answer, type)
           IN  /\ result \in Marks
               /\ \A c \in Components : result[c] <= marks[c]
               /\ (\A c \in Components : marks[c] = 100) /\ "advice" \notin answer
                  => \A c \in Components : FloorOf(c) <= result[c]
<1> DEFINE perfect == [c \in Components |-> IF marks[c] = 100 THEN 94 ELSE marks[c]]
           r1 == Lower(perfect, [natural |-> 92], type = "direct")
           r2 == Lower(r1, [useful |-> 90, clear |-> 95], "short" \in question)
           r3 == Lower(r2, [useful |-> 88], "short" \in answer)
           r4 == Lower(r3, [notTrivial |-> 78], "schedule" \in question)
           r5 == Lower(r4, [grounded |-> 78, correct |-> 78], "advice" \in answer)
           Above(r) == (\A c \in Components : marks[c] = 100) => \A c \in Components : FloorOf(c) <= r[c]
           Below(r) == r \in Marks /\ \A c \in Components : r[c] <= marks[c]
<1>1. Calibrated(marks, question, answer, type) = r5
  BY DEF Calibrated, Lower
<1>2. Below(perfect) /\ Above(perfect)
  <2>1. \A c \in Components : marks[c] \in 0 .. 100 /\ FloorOf(c) <= 94  BY DEF Marks, FloorOf
  <2> QED  BY <2>1 DEF Marks
<1> HIDE DEF perfect
<1>3. Below(r1) /\ Above(r1)
  <2> DEFINE caps == [natural |-> 92]
             when == type = "direct"
  <2>1. DOMAIN caps = {"natural"} /\ caps["natural"] = 92  OBVIOUS
  <2>2. when \in BOOLEAN  OBVIOUS
  <2>3. \A c \in DOMAIN caps : caps[c] \in 0 .. 100  BY <2>1
  <2>4. \A c \in DOMAIN caps \cap Components : FloorOf(c) <= caps[c]  BY <2>1 DEF FloorOf
  <2>5. r1 = Lower(perfect, caps, when)  OBVIOUS
  <2> HIDE DEF caps, when, r1
  <2> QED  BY <1>2, <2>2, <2>3, <2>4, <2>5, LowerKeeps
<1> HIDE DEF r1
<1>4. Below(r2) /\ Above(r2)
  <2> DEFINE caps == [useful |-> 90, clear |-> 95]
             when == "short" \in question
  <2>1. DOMAIN caps = {"useful", "clear"} /\ caps["useful"] = 90 /\ caps["clear"] = 95  OBVIOUS
  <2>2. when \in BOOLEAN  OBVIOUS
  <2>3. \A c \in DOMAIN caps : caps[c] \in 0 .. 100  BY <2>1
  <2>4. \A c \in DOMAIN caps \cap Components : FloorOf(c) <= caps[c]  BY <2>1 DEF FloorOf
  <2>5. r2 = Lower(r1, caps, when)  OBVIOUS
  <2> HIDE DEF caps, when, r2
  <2> QED  BY <1>3, <2>2, <2>3, <2>4, <2>5, LowerKeeps
<1> HIDE DEF r2
<1>5. Below(r3) /\ Above(r3)
  <2> DEFINE caps == [useful |-> 88]
             when == "short" \in answer
  <2>1. DOMAIN caps = {"useful"} /\ caps["useful"] = 88  OBVIOUS
  <2>2. when \in BOOLEAN  OBVIOUS
  <2>3. \A c \in DOMAIN caps : caps[c] \in 0 .. 100  BY <2>1
  <2>4. \A c \in DOMAIN caps \cap Components : FloorOf(c) <= caps[c]  BY <2>1 DEF FloorOf
  <2>5. r3 = Lower(r2, caps, when)  OBVIOUS
  <2> HIDE DEF caps, when, r3
  <2> QED  BY <1>4, <2>2, <2>3, <2>4, <2>5, LowerKeeps
<1> HIDE DEF r3
<1>6. Below(r4) /\ Above(r4)
  <2> DEFINE caps == [notTrivial |-> 78]
             when == "schedule" \in question
  <2>1. DOMAIN caps = {"notTrivial"} /\ caps["notTrivial"] = 78  OBVIOUS
  <2>2. when \in BOOLEAN  OBVIOUS
  <2>3. \A c \in DOMAIN caps : caps[c] \in 0 .. 100  BY <2>1
  <2>4. \A c \in DOMAIN caps \cap Components : FloorOf(c) <= caps[c]  BY <2>1 DEF FloorOf
  <2>5. r4 = Lower(r3, caps, when)  OBVIOUS
  <2> HIDE DEF caps, when, r4
  <2> QED  BY <1>5, <2>2, <2>3, <2>4, <2>5, LowerKeeps
<1> HIDE DEF r4
<1>7. Below(r5) /\ ("advice" \notin answer => Above(r5))
  <2> DEFINE caps == [grounded |-> 78, correct |-> 78]
             when == "advice" \in answer
  <2>1. DOMAIN caps = {"grounded", "correct"} /\ caps["grounded"] = 78 /\ caps["correct"] = 78  OBVIOUS
  <2>2. when \in BOOLEAN  OBVIOUS
  <2>3. \A c \in DOMAIN caps : caps[c] \in 0 .. 100  BY <2>1
  <2>4. r5 = Lower(r4, caps, when)  OBVIOUS
  <2>5. ~when => r5 = r4  BY DEF Lower
  <2> HIDE DEF caps, r5
  <2>6. Below(r5)
    <3> HIDE DEF when
    <3> QED  BY <1>6, <2>2, <2>3, <2>4, LowerKeeps
  <2> QED  BY <1>6, <2>5, <2>6
<1> HIDE DEF r5
<1> QED  BY <1>1, <1>7

\* The score of marks that are nowhere higher is not higher; that of the floor is enough.
LEMMA ScoreGrows ==
    ASSUME NEW marks \in Marks, NEW top \in Marks, \A c \in Components : marks[c] <= top[c]
    PROVE  RubricScore(marks) <= RubricScore(top)
<1>1. \A c \in Components : marks[c] \in Nat /\ top[c] \in Nat  BY DEF Marks
<1>2. \A c \in {"grounded", "correct", "clear", "useful", "natural", "category", "notTrivial"} :
        marks[c] \in Nat /\ top[c] \in Nat /\ marks[c] <= top[c]
  BY <1>1 DEF Components
<1> QED  BY <1>2 DEF RubricScore

LEMMA ScoreIsNumber == ASSUME NEW marks \in Marks PROVE RubricScore(marks) \in Nat
<1>1. \A c \in {"grounded", "correct", "clear", "useful", "natural", "category", "notTrivial"} : marks[c] \in Nat
  BY DEF Marks, Components
<1> QED  BY <1>1 DEF RubricScore

LEMMA FloorIsEnough ==
    ASSUME NEW marks \in Marks, \A c \in Components : FloorOf(c) <= marks[c]
    PROVE  RubricScore(marks) >= 8000 /\ \A c \in Components : marks[c] >= MinMarks[c]
<1>1. \A c \in Components : marks[c] \in Nat  BY DEF Marks
<1>2. /\ marks.grounded \in Nat /\ marks.grounded >= 94 /\ marks.correct \in Nat /\ marks.correct >= 94
      /\ marks.clear \in Nat /\ marks.clear >= 94 /\ marks.useful \in Nat /\ marks.useful >= 88
      /\ marks.natural \in Nat /\ marks.natural >= 92 /\ marks.category \in Nat /\ marks.category >= 94
      /\ marks.notTrivial \in Nat /\ marks.notTrivial >= 78
  BY <1>1 DEF Components, FloorOf
<1>3. RubricScore(marks) >= 8000  BY <1>2 DEF RubricScore
<1>4. \A c \in Components : MinMarks[c] <= FloorOf(c) /\ MinMarks[c] \in Nat /\ FloorOf(c) \in Nat
  BY DEF MinMarks, FloorOf, Components
<1>5. \A c \in Components : marks[c] >= MinMarks[c]  BY <1>1, <1>4
<1> QED  BY <1>3, <1>5

\* High enough in every component and in all.
HighEnough(marks) == RubricScore(marks) >= 8000 /\ \A c \in Components : marks[c] >= MinMarks[c]

LEMMA AcceptsWhen ==
    ASSUME NEW marks, NEW answer
    PROVE  /\ Accepts(marks, FALSE) <=> HighEnough(marks)
           /\ Accepts(marks, Unsupported(FALSE, answer)) <=> "advice" \notin answer /\ HighEnough(marks)
BY DEF Accepts, Unsupported, HighEnough

LEMMA HighEnoughBelow ==
    ASSUME NEW marks \in Marks, NEW top \in Marks, \A c \in Components : marks[c] <= top[c], HighEnough(marks)
    PROVE  HighEnough(top)
<1>1. \A c \in Components : marks[c] \in 0 .. 100 /\ top[c] \in 0 .. 100 /\ MinMarks[c] \in 0 .. 100
  BY DEF Marks, MinMarks
<1>2. RubricScore(marks) <= RubricScore(top) /\ RubricScore(marks) \in Nat /\ RubricScore(top) \in Nat
  BY ScoreGrows, ScoreIsNumber
<1>3. RubricScore(top) >= 8000  BY <1>2 DEF HighEnough
<1>4. ASSUME NEW c \in Components PROVE top[c] >= MinMarks[c]
  <2>x. PICK x \in Nat : x = marks[c]  BY <1>1
  <2>y. PICK y \in Nat : y = top[c]  BY <1>1
  <2>z. PICK z \in Nat : z = MinMarks[c]  BY <1>1
  <2>1. marks[c] >= MinMarks[c] /\ marks[c] <= top[c]  BY DEF HighEnough
  <2> QED  BY <2>1, <2>x, <2>y, <2>z
<1> QED  BY <1>3, <1>4 DEF HighEnough

LEMMA CalibrationLowers == CaseInv => CalibrationOnlyLowers
<1> SUFFICES ASSUME CaseInv, "marks" \in DOMAIN case PROVE CalibrationOnlyLowers
  BY Zenon DEF CalibrationOnlyLowers
<1> DEFINE marks == case.marks
           answer == case.answer
           result == Calibrated(marks, case.question, answer, case.type)
<1>1. marks \in Marks  BY ChecksAssumption DEF CaseInv, Marks
<1>2. /\ result \in Marks
      /\ \A c \in Components : result[c] <= marks[c]
      /\ (\A c \in Components : marks[c] = 100) /\ "advice" \notin answer
         => \A c \in Components : FloorOf(c) <= result[c]
  BY <1>1, CalibratedKeeps
<1> HIDE DEF result, marks, answer
<1>3. WellMarked(result)  BY <1>2 DEF WellMarked, Marks
<1>4. Accepts(result, Unsupported(FALSE, answer)) => Accepts(marks, FALSE)
  BY <1>1, <1>2, AcceptsWhen, HighEnoughBelow
<1>5. (\A c \in Components : marks[c] = 100)
      => (Accepts(result, Unsupported(FALSE, answer)) <=> "advice" \notin answer)
  <2>1. (\A c \in Components : marks[c] = 100) /\ "advice" \notin answer => HighEnough(result)
    BY <1>2, FloorIsEnough DEF HighEnough
  <2> QED  BY <2>1, AcceptsWhen
<1> QED  BY <1>3, <1>4, <1>5, Zenon DEF CalibrationOnlyLowers, result, marks, answer

\* What makes an obligation is the fact's own evidence, whatever stands beside it, and
\* calibration accepts nothing that the model's marks refuse (prevalidate_candidate,
\* calibrate_validation_result).
THEOREM ChecksStayFaithful == CheckSpec => []ChecksAreFaithful
<1>1. CaseInv => ChecksAreFaithful  BY NeighboursAside, CalibrationLowers DEF ChecksAreFaithful
<1> QED  BY InitCase, CaseStep, <1>1, PTL DEF CheckSpec

---------------------------------------------------------------------------
(* The chunks of a syllabus: its sections.                                 *)

Names == STRING \cup {"General"}
Section == [path : Seq(Names), paragraphs : Seq(Nat)]
TextIn(list) == FlattenSeq([i \in DOMAIN list |-> list[i].paragraphs])
Gathered == TextIn(sections) \o paragraphs
ReadBody == {i \in BodyLines : i < line}

SectionsTyped ==
    /\ lines \in Documents /\ line \in 1 .. Len(lines) + 1
    /\ inContents \in BOOLEAN /\ path \in Seq(Names) /\ paragraphs \in Seq(Nat) /\ sections \in Seq(Section)

\* What was read is in the sections and the one under way; the block of contents is
\* open exactly if a line of text would still be hidden by it.
SectionsInv ==
    reading = "sections" =>
        /\ SectionsTyped
        /\ ListsInOrder(Gathered, ReadBody)
        /\ sections # <<>> => TextIn(sections) # <<>>
        /\ inContents <=> \E j \in 1 .. line - 1 :
             /\ lines[j].kind = "contents"
             /\ \A k \in j + 1 .. line - 1 : Entry(lines[k]) \/ lines[k].kind \in {"navigation", "contents", "code"}

\* The text of one more section.
LEMMA TextInMore ==
    ASSUME NEW list \in Seq(Section), NEW r \in Section
    PROVE  /\ TextIn(list) \in Seq(Nat)
           /\ TextIn(Append(list, r)) = TextIn(list) \o r.paragraphs
<1> DEFINE seqs == [i \in DOMAIN list |-> list[i].paragraphs]
           more == [i \in DOMAIN Append(list, r) |-> Append(list, r)[i].paragraphs]
<1>1. Len(list) \in Nat /\ DOMAIN list = 1 .. Len(list) /\ \A i \in 1 .. Len(list) : list[i] \in Section
  BY LenProperties, ElementOfSeq
<1>2. \A i \in 1 .. Len(list) : list[i].paragraphs \in Seq(Nat)  BY <1>1 DEF Section
<1>3. seqs \in [1 .. Len(list) -> Seq(Nat)]  BY <1>1, <1>2
<1>4. seqs \in Seq(Seq(Nat)) /\ Len(seqs) = Len(list)
  <2> HIDE DEF seqs
  <2> QED  BY <1>1, <1>3, SequenceOf
<1>5. r.paragraphs \in Seq(Nat)  BY DEF Section
<1>6. /\ Append(list, r) \in Seq(Section) /\ Len(Append(list, r)) = Len(list) + 1 /\ DOMAIN Append(list, r) = 1 .. Len(list) + 1
      /\ Append(list, r)[Len(list) + 1] = r /\ \A i \in 1 .. Len(list) : Append(list, r)[i] = list[i]
  BY AppendProperties, LenProperties
<1>7. more = Append(seqs, r.paragraphs)
  <2>1. /\ Append(seqs, r.paragraphs) \in Seq(Seq(Nat)) /\ Len(Append(seqs, r.paragraphs)) = Len(list) + 1
        /\ Append(seqs, r.paragraphs)[Len(list) + 1] = r.paragraphs
        /\ \A i \in 1 .. Len(list) : Append(seqs, r.paragraphs)[i] = seqs[i]
    <3> HIDE DEF seqs
    <3> QED  BY <1>4, <1>5, AppendProperties
  <2>2. Append(seqs, r.paragraphs) = [i \in 1 .. Len(list) + 1 |-> Append(seqs, r.paragraphs)[i]]
    <3> DEFINE t == Append(seqs, r.paragraphs)
    <3>1. t \in Seq(Seq(Nat)) /\ Len(t) = Len(list) + 1  BY <2>1
    <3> HIDE DEF t
    <3>2. t \in [1 .. Len(t) -> Seq(Nat)]  BY <3>1, LenProperties
    <3> QED  BY <3>1, <3>2 DEF t
  <2>3. ASSUME NEW i \in 1 .. Len(list) + 1 PROVE Append(list, r)[i].paragraphs = Append(seqs, r.paragraphs)[i]
    <3>1. CASE i = Len(list) + 1  BY <1>6, <2>1, <3>1
    <3>2. CASE i # Len(list) + 1
      <4>1. i \in 1 .. Len(list)  BY <1>1, <3>2
      <4> QED  BY <1>1, <1>6, <2>1, <4>1
    <3> QED  BY <3>1, <3>2
  <2> QED  BY <1>6, <2>2, <2>3
<1> HIDE DEF seqs, more
<1>8. FlattenSeq(seqs) \in Seq(Nat)  BY <1>4, FlattenType
<1>9. FlattenSeq(more) = FlattenSeq(seqs) \o r.paragraphs  BY <1>4, <1>5, <1>7, FlattenAppend
<1> QED  BY <1>8, <1>9 DEF TextIn, seqs, more

LEMMA TextInNone == TextIn(<<>>) = <<>>
<1> DEFINE none == [i \in DOMAIN <<>> |-> <<>>[i].paragraphs]
<1>1. DOMAIN <<>> = 1 .. 0  BY EmptySeq
<1>2. none \in [1 .. 0 -> {}]  BY <1>1
<1> HIDE DEF none
<1>3. none \in Seq({}) /\ Len(none) = 0  BY <1>2, SequenceOf
<1>4. none = <<>>  BY <1>3, EmptySeq
<1> QED  BY <1>4 DEF TextIn, FlattenSeq, none

\* What the next line adds at the end keeps the order.
LEMMA ListsOneMore ==
    ASSUME NEW s \in Seq(Nat), NEW T, ListsInOrder(s, T), NEW n \in Nat, \A t \in T : t < n
    PROVE  ListsInOrder(Append(s, n), T \cup {n})
<1>1. Len(s) \in Nat /\ DOMAIN s = 1 .. Len(s) /\ \A i \in 1 .. Len(s) : s[i] \in Nat  BY LenProperties, ElementOfSeq
<1>2. /\ Append(s, n) \in Seq(Nat) /\ Len(Append(s, n)) = Len(s) + 1 /\ DOMAIN Append(s, n) = 1 .. Len(s) + 1
      /\ Append(s, n)[Len(s) + 1] = n /\ \A i \in 1 .. Len(s) : Append(s, n)[i] = s[i]
  BY AppendProperties, LenProperties
<1>3. ToSet(Append(s, n)) = T \cup {n}
  <2>1. T = {s[i] : i \in 1 .. Len(s)}  BY <1>1 DEF ListsInOrder, ToSet
  <2>2. ToSet(Append(s, n)) = {Append(s, n)[i] : i \in 1 .. Len(s) + 1}  BY <1>2 DEF ToSet
  <2> QED  BY <1>1, <1>2, <2>1, <2>2
<1>4. \A i \in 1 .. Len(s) : s[i] < n
  BY <1>1 DEF ListsInOrder, ToSet
<1>5. ASSUME NEW i \in DOMAIN Append(s, n), NEW j \in DOMAIN Append(s, n), i < j
      PROVE  Append(s, n)[i] < Append(s, n)[j]
  <2>1. i \in 1 .. Len(s)  BY <1>1, <1>2, <1>5
  <2>2. CASE j = Len(s) + 1  BY <1>2, <1>4, <2>1, <2>2
  <2>3. CASE j # Len(s) + 1
    <3>1. j \in 1 .. Len(s)  BY <1>1, <1>2, <2>3
    <3> QED  BY <1>1, <1>2, <1>5, <2>1, <3>1 DEF ListsInOrder
  <2> QED  BY <2>2, <2>3
<1> QED  BY <1>3, <1>5 DEF ListsInOrder

\* What closes a section loses none of its text.
LEMMA FlushedKeeps ==
    ASSUME SectionsTyped, sections # <<>> => TextIn(sections) # <<>>
    PROVE  /\ Flushed \in Seq(Section) /\ TextIn(Flushed) = Gathered /\ Gathered \in Seq(Nat)
           /\ Flushed # <<>> => TextIn(Flushed) # <<>>
           /\ Flushed = <<>> => sections = <<>> /\ paragraphs = <<>>
<1> DEFINE r == [path |-> path, paragraphs |-> paragraphs]
<1>1. r \in Section /\ sections \in Seq(Section) /\ paragraphs \in Seq(Nat)  BY DEF SectionsTyped, Section
<1>2. TextIn(sections) \in Seq(Nat) /\ TextIn(Append(sections, r)) = TextIn(sections) \o r.paragraphs
  BY <1>1, TextInMore
<1>3. CASE paragraphs = <<>>
  <2>1. Flushed = sections  BY <1>3 DEF Flushed
  <2>2. TextIn(sections) \o <<>> = TextIn(sections)  BY <1>2, ConcatEmptySeq
  <2>3. Gathered = TextIn(sections)  BY <1>3, <2>2 DEF Gathered
  <2> QED  BY <1>1, <1>2, <1>3, <2>1, <2>3
<1>4. CASE paragraphs # <<>>
  <2>1. Flushed = Append(sections, r)  BY <1>4 DEF Flushed
  <2>2. TextIn(Flushed) = Gathered  BY <1>2, <2>1 DEF Gathered
  <2>3. Gathered \in Seq(Nat)  BY <1>1, <1>2, ConcatProperties DEF Gathered
  <2>4. Append(sections, r) \in Seq(Section) /\ Len(Append(sections, r)) = Len(sections) + 1 /\ Len(sections) \in Nat
    BY <1>1, AppendProperties, LenProperties
  <2>5. Flushed # <<>>
    <3>1. Len(Flushed) # 0  BY <2>1, <2>4
    <3> QED  BY <3>1, EmptySeq
  <2>6. Gathered # <<>>
    <3>1. Len(Gathered) = Len(TextIn(sections)) + Len(paragraphs) /\ Len(TextIn(sections)) \in Nat /\ Len(paragraphs) \in Nat
      BY <1>1, <1>2, ConcatProperties, LenProperties DEF Gathered
    <3>2. Len(paragraphs) # 0  BY <1>1, <1>4, EmptySeq
    <3>3. Len(Gathered) # 0  BY <3>1, <3>2
    <3> QED  BY <3>3, EmptySeq
  <2> QED  BY <2>1, <2>2, <2>3, <2>4, <2>5, <2>6
<1> QED  BY <1>3, <1>4

Among(l) == Entry(l) \/ l.kind \in {"navigation", "contents", "code"}

\* An open block of contents hides the next line exactly if it is among its lines.
LEMMA HiddenByContents ==
    ASSUME SectionsInv, reading = "sections", line <= Len(lines)
    PROVE  /\ line \in DOMAIN lines /\ line \in Nat
           /\ InContents(line) <=> inContents /\ Among(lines[line])
           /\ (\E j \in 1 .. line : lines[j].kind = "contents" /\ \A k \in j + 1 .. line : Among(lines[k]))
                <=> lines[line].kind = "contents" \/ InContents(line)
<1>1. lines \in Seq([kind : LineKinds, level : Nat \ {0}, name : STRING]) /\ line \in 1 .. Len(lines) + 1
  BY ChunksAssumption DEF SectionsInv, SectionsTyped
<1>2. Len(lines) \in Nat /\ DOMAIN lines = 1 .. Len(lines)  BY <1>1, LenProperties
<1>3. line \in 1 .. Len(lines) /\ line \in Nat \ {0}  BY <1>1, <1>2
<1>4. inContents <=> \E j \in 1 .. line - 1 : lines[j].kind = "contents" /\ \A k \in j + 1 .. line - 1 : Among(lines[k])
  BY DEF SectionsInv, Among
<1>5. \A j \in 1 .. line - 1 : (\A k \in j + 1 .. line : Among(lines[k]))
                                <=> Among(lines[line]) /\ \A k \in j + 1 .. line - 1 : Among(lines[k])
  <2>1. TAKE j \in 1 .. line - 1
  <2>2. line \in j + 1 .. line /\ \A k \in j + 1 .. line - 1 : k \in j + 1 .. line  BY <1>3
  <2>3. \A k \in j + 1 .. line : k = line \/ k \in j + 1 .. line - 1  BY <1>3
  <2> QED  BY <2>2, <2>3
<1>6. InContents(line) <=> \E j \in 1 .. line - 1 : lines[j].kind = "contents" /\ \A k \in j + 1 .. line : Among(lines[k])
  BY DEF InContents, Among
<1>7. InContents(line) <=> inContents /\ Among(lines[line])  BY <1>4, <1>5, <1>6
<1>8. (\E j \in 1 .. line : lines[j].kind = "contents" /\ \A k \in j + 1 .. line : Among(lines[k]))
        <=> lines[line].kind = "contents" \/ InContents(line)
  <2>1. line \in 1 .. line /\ \A k \in line + 1 .. line : FALSE  BY <1>3
  <2>2. \A j \in 1 .. line : j = line \/ j \in 1 .. line - 1  BY <1>3
  <2>3. \A j \in 1 .. line - 1 : j \in 1 .. line  BY <1>3
  <2> QED  BY <1>6, <2>1, <2>2, <2>3
<1> QED  BY <1>2, <1>3, <1>7, <1>8

LEMMA GeneralIsPath == General \in Seq(Names)
<1>1. "General" \in Names  BY DEF Names
<1> QED  BY <1>1, OneOf DEF General

BodyKinds == {"glued", "glued_title", "short", "sentence"}

LEMMA ReadLineKeeps ==
    ASSUME SectionsInv, ReadLine
    PROVE  SectionsInv'
<1> DEFINE l == lines[line]
           skipped == l.kind \in {"navigation", "contents", "code"} \/ Hidden(l)
           glued == l.kind \in {"glued", "glued_title"}
           startsSection == (l.kind = "heading" \/ glued \/ l.kind = "title") /\ title # {l.name}
<1>1. reading = "sections" /\ line <= Len(lines) /\ line' = line + 1 /\ reading' = "sections" /\ lines' = lines
  BY DEF ReadLine
<1>2. SectionsTyped /\ ListsInOrder(Gathered, ReadBody) /\ (sections # <<>> => TextIn(sections) # <<>>)
  BY <1>1 DEF SectionsInv
<1>3. /\ line \in DOMAIN lines /\ line \in Nat
      /\ InContents(line) <=> inContents /\ Among(l)
      /\ (\E j \in 1 .. line : lines[j].kind = "contents" /\ \A k \in j + 1 .. line : Among(lines[k]))
           <=> l.kind = "contents" \/ InContents(line)
  BY <1>1, HiddenByContents
<1>4. l.kind \in LineKinds /\ l.level \in Nat \ {0} /\ l.name \in Names
  <2>1. lines \in Seq([kind : LineKinds, level : Nat \ {0}, name : STRING])  BY <1>2, ChunksAssumption DEF SectionsTyped
  <2>2. l \in [kind : LineKinds, level : Nat \ {0}, name : STRING]
    <3>1. line \in 1 .. Len(lines)  BY <1>3, <2>1, LenProperties
    <3> QED  BY <2>1, <3>1, ElementOfSeq
  <2> QED  BY <2>2 DEF Names
<1>5. line' \in 1 .. Len(lines) + 1 /\ lines' \in Documents
  <2>1. Len(lines) \in Nat  BY <1>2, ChunksAssumption, LenProperties DEF SectionsTyped
  <2> QED  BY <1>1, <1>2, <1>3, <2>1 DEF SectionsTyped
<1>6. BodyLines' = BodyLines  BY <1>1 DEF BodyLines, InContents, Entry
<1>7. line \in BodyLines <=> l.kind \in BodyKinds /\ ~InContents(line)
  BY <1>3 DEF BodyLines, BodyKinds
<1>8. ReadBody' = IF line \in BodyLines THEN ReadBody \cup {line} ELSE ReadBody
  <2>1. \A i \in BodyLines : i \in Nat
    <3>1. \A i \in DOMAIN lines : i \in Nat
      BY <1>2, ChunksAssumption, LenProperties DEF SectionsTyped
    <3> QED  BY <3>1 DEF BodyLines
  <2>2. ReadBody' = {i \in BodyLines : i < line + 1}  BY <1>1, <1>6 DEF ReadBody
  <2>3. \A i \in BodyLines : i < line + 1 <=> i < line \/ i = line  BY <1>3, <2>1
  <2> QED  BY <2>2, <2>3 DEF ReadBody
<1>9. \A i \in ReadBody : i < line  BY DEF ReadBody
<1>10. /\ Flushed \in Seq(Section) /\ TextIn(Flushed) = Gathered /\ Gathered \in Seq(Nat)
       /\ Flushed # <<>> => TextIn(Flushed) # <<>>
  BY <1>2, FlushedKeeps
\* What the step makes of the text gathered so far.
<1>11. ASSUME Gathered' = IF line \in BodyLines THEN Append(Gathered, line) ELSE Gathered
       PROVE  ListsInOrder(Gathered', ReadBody')
  <2>1. CASE line \in BodyLines  BY <1>2, <1>3, <1>8, <1>9, <1>10, <1>11, <2>1, ListsOneMore
  <2>2. CASE line \notin BodyLines  BY <1>2, <1>8, <1>11, <2>2
  <2> QED  BY <2>1, <2>2
<1>12. (\E j \in 1 .. line' - 1 : lines'[j].kind = "contents"
            /\ \A k \in j + 1 .. line' - 1 : Entry(lines'[k]) \/ lines'[k].kind \in {"navigation", "contents", "code"})
         <=> l.kind = "contents" \/ InContents(line)
  <2>1. line' - 1 = line  BY <1>1, <1>3
  <2> QED  BY <1>1, <1>3, <2>1 DEF Among
<1>13. ASSUME Gathered' = IF line \in BodyLines THEN Append(Gathered, line) ELSE Gathered,
              inContents' <=> l.kind = "contents" \/ InContents(line), inContents' \in BOOLEAN,
              path' \in Seq(Names), paragraphs' \in Seq(Nat), sections' \in Seq(Section),
              sections' # <<>> => TextIn(sections') # <<>>
       PROVE  SectionsInv'
  <2>1. ListsInOrder(Gathered', ReadBody')  BY <1>11, <1>13
  <2>2. SectionsTyped'  BY <1>1, <1>5, <1>13 DEF SectionsTyped
  <2>3. (sections # <<>> => TextIn(sections) # <<>>)'  BY <1>13
  <2>4. inContents' <=> \E j \in 1 .. line' - 1 : lines'[j].kind = "contents"
            /\ \A k \in j + 1 .. line' - 1 : Entry(lines'[k]) \/ lines'[k].kind \in {"navigation", "contents", "code"}
    BY <1>12, <1>13
  <2> QED  BY <2>1, <2>2, <2>3, <2>4 DEF SectionsInv
<1>14. paragraphs \in Seq(Nat) /\ path \in Seq(Names) /\ sections \in Seq(Section) /\ inContents \in BOOLEAN
  BY <1>2 DEF SectionsTyped
<1>15. General \in Seq(Names) /\ <<line>> \in Seq(Nat) /\ <<>> \in Seq(Nat)
  <2>2. General \in Seq(Names)  BY GeneralIsPath
  <2>3. <<line>> \in Seq(Nat)  BY <1>3
  <2> QED  BY <2>2, <2>3, EmptySeq
<1>16. Gathered \o <<line>> = Append(Gathered, line) /\ Gathered \o <<>> = Gathered
  BY <1>3, <1>10, ConcatEmptySeq, AppendIsConcat
<1>17. CASE skipped /\ inContents' = (inContents \/ l.kind = "contents") /\ UNCHANGED <<title, seenBody, path, paragraphs, sections>>
  <2>1. line \notin BodyLines
    <3>1. CASE l.kind \in {"navigation", "contents", "code"}  BY <1>7, <3>1 DEF BodyKinds
    <3>2. CASE Hidden(l)  BY <1>3, <1>7, <3>2 DEF Hidden, Among
    <3> QED  BY <1>17, <3>1, <3>2
  <2>2. Gathered' = Gathered  BY <1>17 DEF Gathered
  <2>3. inContents' <=> l.kind = "contents" \/ InContents(line)  BY <1>3, <1>17 DEF Hidden, Among
  <2>4. inContents' \in BOOLEAN  BY <1>14, <1>17
  <2> QED  BY <1>2, <1>13, <1>14, <1>17, <2>1, <2>2, <2>3, <2>4
<1>18. ASSUME ~skipped PROVE ~(l.kind = "contents" \/ InContents(line)) /\ (line \in BodyLines <=> l.kind \in BodyKinds)
  BY <1>3, <1>7, <1>18 DEF Hidden, Among
<1> HIDE DEF l
<1>19. CASE ~skipped /\ inContents' = FALSE /\ glued /\ sections' = Flushed /\ path' \in Seq(Names) /\ paragraphs' = <<line>>
  <2>1. line \in BodyLines  BY <1>18, <1>19 DEF BodyKinds
  <2>2. Gathered' = Append(Gathered, line)  BY <1>10, <1>16, <1>19 DEF Gathered
  <2> QED  BY <1>10, <1>13, <1>15, <1>18, <1>19, <2>1, <2>2
<1>20. CASE ~skipped /\ inContents' = FALSE /\ l.kind \in {"title", "heading"} /\ sections' = Flushed /\ path' \in Seq(Names) /\ paragraphs' = <<>>
  <2>1. line \notin BodyLines  BY <1>18, <1>20 DEF BodyKinds
  <2>2. Gathered' = Gathered  BY <1>10, <1>16, <1>20 DEF Gathered
  <2> QED  BY <1>10, <1>13, <1>15, <1>18, <1>20, <2>1, <2>2
<1>21. CASE ~skipped /\ inContents' = FALSE /\ l.kind \in {"title", "heading"} /\ UNCHANGED <<path, paragraphs, sections>>
  <2>1. line \notin BodyLines  BY <1>18, <1>21 DEF BodyKinds
  <2>2. Gathered' = Gathered  BY <1>21 DEF Gathered
  <2> QED  BY <1>2, <1>13, <1>14, <1>18, <1>21, <2>1, <2>2
<1>22. CASE ~skipped /\ inContents' = FALSE /\ l.kind \in BodyKinds /\ UNCHANGED <<path, sections>> /\ paragraphs' = Append(paragraphs, line)
  <2>1. line \in BodyLines  BY <1>18, <1>22
  <2>2. TextIn(sections) \in Seq(Nat)
    <3>1. [path |-> path, paragraphs |-> paragraphs] \in Section  BY <1>14 DEF Section
    <3> QED  BY <1>14, <3>1, TextInMore
  <2>3. TextIn(sections) \o Append(paragraphs, line) = Append(Gathered, line)
    BY <1>3, <1>14, <2>2 DEF Gathered
  <2>4. Gathered' = Append(Gathered, line)  BY <1>22, <2>3 DEF Gathered
  <2>5. paragraphs' \in Seq(Nat)  BY <1>3, <1>14, <1>22, AppendProperties
  <2> QED  BY <1>2, <1>13, <1>14, <1>18, <1>22, <2>1, <2>4, <2>5
<1>23. Under(l) \in Seq(Names)
  <2>1. CASE l.level = 1  BY <1>4, <2>1 DEF Under
  <2>2. CASE l.level # 1
    <3> DEFINE m == IF l.level - 1 < Len(path) THEN l.level - 1 ELSE Len(path)
    <3>1. m \in Int /\ m <= Len(path) /\ Len(path) \in Nat  BY <1>4, <1>14, LenProperties
    <3>2. Under(l) = SubSeq(path, 1, m) \o <<l.name>>  BY <2>2 DEF Under
    <3> HIDE DEF m
    <3>3. SubSeq(path, 1, m) \in Seq(Names)
      <4>1. \A i \in 1 .. m : path[i] \in Names  BY <1>14, <3>1, ElementOfSeq
      <4> QED  BY <1>14, <3>1, <4>1, SubSeqProperties
    <3>4. <<l.name>> \in Seq(Names)  BY <1>4
    <3> QED  BY <3>2, <3>3, <3>4, ConcatProperties
  <2> QED  BY <2>1, <2>2
<1>24. \/ /\ skipped /\ inContents' = (inContents \/ l.kind = "contents")
          /\ UNCHANGED <<title, seenBody, path, paragraphs, sections>>
       \/ /\ ~skipped /\ IsTitle(l)
          /\ inContents' = FALSE /\ title' = {l.name}
          /\ IF glued THEN seenBody' = TRUE /\ sections' = Flushed /\ path' = General /\ paragraphs' = <<line>>
             ELSE UNCHANGED <<seenBody, path, paragraphs, sections>>
       \/ /\ ~skipped /\ ~IsTitle(l) /\ startsSection
          /\ inContents' = FALSE /\ seenBody' = TRUE
          /\ sections' = Flushed
          /\ path' = Under(l)
          /\ paragraphs' = IF glued THEN <<line>> ELSE <<>>
          /\ UNCHANGED title
       \/ /\ ~skipped /\ ~IsTitle(l) /\ ~startsSection
          /\ inContents' = FALSE /\ seenBody' = TRUE
          /\ paragraphs' = Append(paragraphs, line)
          /\ UNCHANGED <<title, path, sections>>
  BY DEF ReadLine, l
<1>25. CASE ~skipped /\ IsTitle(l) /\ inContents' = FALSE /\ (IF glued THEN sections' = Flushed /\ path' = General /\ paragraphs' = <<line>>
             ELSE UNCHANGED <<path, paragraphs, sections>>)
  <2>1. CASE glued  BY <1>15, <1>19, <1>25, <2>1
  <2>2. CASE ~glued
    <3>1. l.kind \in {"title", "heading"}  BY <1>25, <2>2 DEF IsTitle
    <3> QED  BY <1>21, <1>25, <2>2, <3>1
  <2> QED  BY <2>1, <2>2
<1>26. CASE ~skipped /\ startsSection /\ inContents' = FALSE /\ sections' = Flushed /\ path' = Under(l)
          /\ paragraphs' = IF glued THEN <<line>> ELSE <<>>
  <2>1. CASE glued  BY <1>19, <1>23, <1>26, <2>1
  <2>2. CASE ~glued
    <3>1. l.kind \in {"title", "heading"}  BY <1>26, <2>2
    <3>2. paragraphs' = <<>>  BY <1>26, <2>2
    <3> QED  BY <1>20, <1>23, <1>26, <3>1, <3>2
  <2> QED  BY <2>1, <2>2
<1>27. CASE ~skipped /\ ~IsTitle(l) /\ ~startsSection /\ inContents' = FALSE
          /\ paragraphs' = Append(paragraphs, line) /\ UNCHANGED <<path, sections>>
  <2>1. l.kind \notin {"navigation", "contents", "code"}  BY <1>27
  <2>2. l.kind \notin {"title", "heading"}  BY <1>27 DEF IsTitle
  <2>3. l.kind \in BodyKinds  BY <1>4, <2>1, <2>2 DEF LineKinds, BodyKinds
  <2> QED  BY <1>22, <1>27, <2>3
<1> QED
  <2>1. CASE skipped  BY <1>17, <1>24, <2>1
  <2>2. CASE ~skipped  BY <1>24, <1>25, <1>26, <1>27, <2>2
  <2> QED  BY <2>1, <2>2

\* The end of the text closes the last section.
LEMMA EndOfTextKeeps ==
    ASSUME SectionsInv, EndOfText
    PROVE  SectionsKeepTheText'
<1>1. /\ reading = "sections" /\ line > Len(lines) /\ lines' = lines
      /\ sections' = IF Flushed = <<>> /\ lines # <<>>
                     THEN <<[path |-> General, paragraphs |-> [i \in DOMAIN lines |-> i]]>> ELSE Flushed
  BY DEF EndOfText
<1>2. SectionsTyped /\ ListsInOrder(Gathered, ReadBody) /\ (sections # <<>> => TextIn(sections) # <<>>)
  BY <1>1 DEF SectionsInv
<1>3. /\ TextIn(Flushed) = Gathered /\ Gathered \in Seq(Nat)
      /\ Flushed # <<>> => TextIn(Flushed) # <<>>
      /\ Flushed = <<>> => sections = <<>> /\ paragraphs = <<>>
  BY <1>2, FlushedKeeps
<1>4. Len(lines) \in Nat /\ DOMAIN lines = 1 .. Len(lines) /\ line \in 1 .. Len(lines) + 1
  BY <1>2, ChunksAssumption, LenProperties DEF SectionsTyped
<1>5. ReadBody = BodyLines
  <2>1. \A i \in BodyLines : i \in 1 .. Len(lines)  BY <1>4 DEF BodyLines
  <2>2. \A i \in BodyLines : i < line  BY <1>1, <1>4, <2>1
  <2> QED  BY <2>2 DEF ReadBody
<1>6. BodyLines' = BodyLines  BY <1>1 DEF BodyLines, InContents, Entry
<1>7. ASSUME lines # <<>>
      PROVE  ListsInOrder(TextIn(sections'), IF BodyLines = {} THEN DOMAIN lines ELSE BodyLines)
  <2>1. CASE Flushed = <<>>
    <3> DEFINE all == [i \in DOMAIN lines |-> i]
               r == [path |-> General, paragraphs |-> all]
    <3>1. sections' = <<r>>  BY <1>1, <1>7, <2>1
    <3>2. all \in Seq(Nat) /\ Len(all) = Len(lines)
      <4>1. all \in [1 .. Len(lines) -> Nat]  BY <1>4
      <4> HIDE DEF all
      <4> QED  BY <1>4, <4>1, SequenceOf
    <3>3. r \in Section  BY <3>2, GeneralIsPath DEF Section
    <3> HIDE DEF r
    <3>4. <<>> \in Seq(Section) /\ Append(<<>>, r) = <<r>>  BY <3>3
    <3>5. TextIn(<<r>>) = TextIn(<<>>) \o r.paragraphs  BY <3>3, <3>4, TextInMore
    <3>6. TextIn(<<>>) = <<>>  BY TextInNone
    <3>7. r.paragraphs = all  BY DEF r
    <3>8. TextIn(sections') = all  BY <3>1, <3>2, <3>5, <3>6, <3>7, ConcatEmptySeq
    <3>9. BodyLines = {}
      <4>1. Gathered = TextIn(sections) \o paragraphs /\ sections = <<>> /\ paragraphs = <<>>  BY <1>3, <2>1 DEF Gathered
      <4>2. Gathered = <<>>  BY <3>6, <4>1, ConcatEmptySeq
      <4>3. ToSet(Gathered) = {}  BY <4>2, EmptySeq DEF ToSet
      <4> QED  BY <1>2, <1>5, <4>3 DEF ListsInOrder
    <3>10. ToSet(all) = DOMAIN lines  BY DEF ToSet
    <3>11. \A i, j \in DOMAIN all : i < j => all[i] < all[j]  OBVIOUS
    <3> HIDE DEF all
    <3> QED  BY <3>8, <3>9, <3>10, <3>11 DEF ListsInOrder
  <2>2. CASE Flushed # <<>>
    <3>1. TextIn(sections') = Gathered /\ Gathered # <<>>  BY <1>1, <1>3, <2>2
    <3>2. BodyLines # {}
      <4>1. Len(Gathered) \in Nat /\ DOMAIN Gathered = 1 .. Len(Gathered) /\ Len(Gathered) # 0
        BY <1>3, <3>1, LenProperties, EmptySeq
      <4>2. 1 \in DOMAIN Gathered  BY <4>1
      <4>3. ToSet(Gathered) # {}  BY <4>2 DEF ToSet
      <4> QED  BY <1>2, <1>5, <4>3 DEF ListsInOrder
    <3> QED  BY <1>2, <1>5, <3>1, <3>2
  <2> QED  BY <2>1, <2>2
<1> QED  BY <1>1, <1>6, <1>7 DEF SectionsKeepTheText, TextIn

---------------------------------------------------------------------------
(* The chunks of a syllabus: the pieces of a section.                      *)

Reaches == {p \in Int \X Int : p[1] < p[2]}
Returns == {p \in Int \X Int : p[2] < p[1]}

\* A set of places has a last and a first one.
LEMMA PlacesHaveEnds ==
    ASSUME NEW n \in Nat, NEW places \in SUBSET (1 .. n), places # {}
    PROVE  LastOf(places) \in places /\ FirstOf(places) \in places
<1> DEFINE D == 1 .. n
<1>1. IsFiniteSet(D)  BY FS_Interval
<1>2. \A x, y \in D : (<<x, y>> \in Reaches <=> x < y) /\ (<<x, y>> \in Returns <=> y < x)
  BY DEF Reaches, Returns
<1>3. /\ \A x, y \in D : x = y \/ <<x, y>> \in Reaches \/ <<y, x>> \in Reaches
      /\ \A x, y, z \in D : <<x, y>> \in Reaches /\ <<y, z>> \in Reaches => <<x, z>> \in Reaches
  BY <1>2
<1>4. /\ \A x, y \in D : x = y \/ <<x, y>> \in Returns \/ <<y, x>> \in Returns
      /\ \A x, y, z \in D : <<x, y>> \in Returns /\ <<y, z>> \in Returns => <<x, z>> \in Returns
  BY <1>2
<1>5. PICK greatest \in places : \A y \in places : y = greatest \/ <<y, greatest>> \in Reaches
  <2> HIDE DEF D
  <2>1. \A U \in SUBSET D : U # {} => \E x \in U : \A y \in U : y = x \/ <<y, x>> \in Reaches
    BY <1>1, <1>3, LastExists
  <2>2. places \in SUBSET D  BY DEF D
  <2> QED  BY <2>1, <2>2
<1>6. PICK least \in places : \A y \in places : y = least \/ <<y, least>> \in Returns
  <2> HIDE DEF D
  <2>1. \A U \in SUBSET D : U # {} => \E x \in U : \A y \in U : y = x \/ <<y, x>> \in Returns
    BY <1>1, <1>4, LastExists
  <2>2. places \in SUBSET D  BY DEF D
  <2> QED  BY <2>1, <2>2
<1>7. \A y \in places : y <= greatest
  <2>1. TAKE y \in places
  <2>2. y \in D /\ greatest \in D  OBVIOUS
  <2>3. <<y, greatest>> \in Reaches <=> y < greatest  BY <1>2, <2>2
  <2> QED  BY <1>5, <2>2, <2>3
<1>8. \A y \in places : least <= y
  <2>1. TAKE y \in places
  <2>2. y \in D /\ least \in D  OBVIOUS
  <2>3. <<y, least>> \in Returns <=> least < y  BY <1>2, <2>2
  <2> QED  BY <1>6, <2>2, <2>3
<1> QED  BY <1>7, <1>8 DEF LastOf, FirstOf

\* One more phrase makes what is read longer by its length.
LEMMA CharsGrow ==
    ASSUME text \in Texts, NEW from \in 1 .. Len(text)
    PROVE  /\ Len(text) \in Nat /\ Chars(from, from) = 0
           /\ \A to \in from .. Len(text) + 1 : Chars(from, to) \in Int
           /\ \A to \in from .. Len(text) :
                /\ text[to].length \in 1 .. 600
                /\ Chars(from, to + 1) = Chars(from, to) + text[to].length
<1>1. text \in Seq([length : 1 .. MAX_CHUNK_CHARS - MIN_CHUNK_CHARS, ends : SUBSET {"stop", "para"}, small : BOOLEAN])
  BY ChunksAssumption
<1>2. Len(text) \in Nat /\ DOMAIN text = 1 .. Len(text)  BY <1>1, LenProperties
<1>3. \A i \in 1 .. Len(text) : text[i].length \in 1 .. 600
  <2>1. TAKE i \in 1 .. Len(text)
  <2>2. text[i] \in [length : 1 .. MAX_CHUNK_CHARS - MIN_CHUNK_CHARS, ends : SUBSET {"stop", "para"}, small : BOOLEAN]
    BY <1>1, ElementOfSeq
  <2>3. text[i].length \in 1 .. MAX_CHUNK_CHARS - MIN_CHUNK_CHARS  BY <2>2
  <2> QED  BY <2>3 DEF MAX_CHUNK_CHARS, MIN_CHUNK_CHARS
<1>4. Lengths \in Seq(Int) /\ Len(Lengths) = Len(text) /\ \A i \in 1 .. Len(text) : Lengths[i] = text[i].length
  <2>1. \A i \in 1 .. Len(text) : text[i].length \in Int
    <3>1. 1 .. 600 \subseteq Int  OBVIOUS
    <3> QED  BY <1>3, <3>1, Zenon
  <2>2. Lengths \in [1 .. Len(text) -> Int]  BY <1>2, <2>1 DEF Lengths
  <2>3. \A i \in 1 .. Len(text) : Lengths[i] = text[i].length  BY <1>2 DEF Lengths
  <2> QED  BY <1>2, <2>2, <2>3, SequenceOf
<1>5. ASSUME NEW to \in from .. Len(text) + 1
      PROVE  /\ SubSeq(Lengths, from, to - 1) \in Seq(Int) /\ Len(SubSeq(Lengths, from, to - 1)) = to - from
             /\ \A k \in 1 .. to - from : SubSeq(Lengths, from, to - 1)[k] = Lengths[from + k - 1]
  <2>1. \A k \in from .. to - 1 : Lengths[k] \in Int
    <3>1. \A k \in from .. to - 1 : k \in 1 .. Len(text)  BY <1>2, <1>5
    <3> QED  BY <1>3, <1>4, <3>1
  <2>2. from \in Int /\ to - 1 \in Int /\ (to - 1) - from + 1 = to - from /\ (from > to - 1 => to - from = 0)
    BY <1>2, <1>5
  <2>3. /\ SubSeq(Lengths, from, to - 1) \in Seq(Int)
        /\ Len(SubSeq(Lengths, from, to - 1)) = IF from <= to - 1 THEN (to - 1) - from + 1 ELSE 0
        /\ \A k \in 1 .. (to - 1) - from + 1 : SubSeq(Lengths, from, to - 1)[k] = Lengths[from + k - 1]
    BY <1>4, <2>1, <2>2, SubSeqProperties
  <2> QED  BY <2>2, <2>3
<1>6. \A to \in from .. Len(text) + 1 : Chars(from, to) \in Int
  <2>1. TAKE to \in from .. Len(text) + 1
  <2>2. SubSeq(Lengths, from, to - 1) \in Seq(Int)  BY <1>5
  <2>3. FoldLeft(+, 0, SubSeq(Lengths, from, to - 1)) \in Int
    <3>1. 0 \in Int  OBVIOUS
    <3> QED  BY <2>2, <3>1, SumAppend
  <2> QED  BY <2>3 DEF Chars, Total
<1>7. Chars(from, from) = 0
  <2>1. from \in from .. Len(text) + 1 /\ from - from = 0  BY <1>2
  <2>2. SubSeq(Lengths, from, from - 1) \in Seq(Int) /\ Len(SubSeq(Lengths, from, from - 1)) = 0  BY <1>5, <2>1
  <2> DEFINE e == SubSeq(Lengths, from, from - 1)
  <2> HIDE DEF e
  <2>3. PICK c \in [0 .. Len(e) -> Int] : c[0] = 0 /\ FoldLeft(+, 0, e) = c[Len(e)]  BY <2>2, SumSteps DEF e
  <2>4. FoldLeft(+, 0, e) = 0  BY <2>2, <2>3 DEF e
  <2> QED  BY <2>4 DEF Chars, Total, e
<1>8. ASSUME NEW to \in from .. Len(text) PROVE Chars(from, to + 1) = Chars(from, to) + text[to].length
  <2>1. /\ to \in from .. Len(text) + 1 /\ to + 1 \in from .. Len(text) + 1 /\ to \in 1 .. Len(text)
        /\ (to + 1) - 1 = to /\ (to + 1) - from = (to - from) + 1 /\ to - from \in Nat /\ from + (to - from + 1) - 1 = to
    BY <1>2
  <2> DEFINE a == SubSeq(Lengths, from, to - 1)
             b == SubSeq(Lengths, from, to)
             x == Lengths[to]
  <2>2. a \in Seq(Int) /\ Len(a) = to - from /\ \A k \in 1 .. to - from : a[k] = Lengths[from + k - 1]  BY <1>5, <2>1
  <2>3. b \in Seq(Int) /\ Len(b) = to - from + 1 /\ \A k \in 1 .. to - from + 1 : b[k] = Lengths[from + k - 1]
    <3>1. /\ SubSeq(Lengths, from, (to + 1) - 1) \in Seq(Int) /\ Len(SubSeq(Lengths, from, (to + 1) - 1)) = (to + 1) - from
          /\ \A k \in 1 .. (to + 1) - from : SubSeq(Lengths, from, (to + 1) - 1)[k] = Lengths[from + k - 1]
      BY <1>5, <2>1
    <3> QED  BY <2>1, <3>1
  <2>4. x \in Int /\ x = text[to].length  BY <1>3, <1>4, <2>1
  <2> HIDE DEF a, b, x
  <2>5. b = Append(a, x)
    <3>1. Append(a, x) \in Seq(Int) /\ Len(Append(a, x)) = to - from + 1 /\ Append(a, x)[to - from + 1] = x
          /\ \A k \in 1 .. to - from : Append(a, x)[k] = a[k]
      BY <2>2, <2>4, AppendProperties
    <3>2. ASSUME NEW k \in 1 .. to - from + 1 PROVE b[k] = Append(a, x)[k]
      <4>1. CASE k = to - from + 1  BY <2>1, <2>3, <3>1, <4>1 DEF x
      <4>2. CASE k # to - from + 1
        <5>1. k \in 1 .. to - from  BY <2>1, <3>2, <4>2
        <5> QED  BY <2>2, <2>3, <3>1, <5>1
      <4> QED  BY <4>1, <4>2
    <3>3. \A k \in 1 .. Len(b) : b[k] = Append(a, x)[k]  BY <2>3, <3>2
    <3>4. Len(b) = Len(Append(a, x))  BY <2>3, <3>1
    <3> QED  BY <2>3, <3>1, <3>3, <3>4, SeqEqual
  <2>6. FoldLeft(+, 0, b) = FoldLeft(+, 0, a) + x  BY <2>2, <2>4, <2>5, SumAppend
  <2> QED  BY <2>1, <2>4, <2>6 DEF Chars, Total, a, b
<1> QED  BY <1>2, <1>3, <1>6, <1>7, <1>8

PiecesTyped == text \in Texts /\ rest \in 1 .. Len(text) /\ chunks \in Seq(Nat \X Nat)

\* What remains starts after the last piece did, and leaves a gap only before a
\* word that goes on.
GoesOn ==
    chunks # <<>> =>
        LET piece == chunks[Len(chunks)] IN
        piece[1] < rest /\ (rest > piece[2] => \E p \in piece[1] .. piece[2] : text[p].small)

PiecesInv == reading = "chunks" => lines = <<>> /\ PiecesTyped /\ GoesOn

\* Somewhere between the shortest and the longest piece there is a place to cut.
LEMMA SpaceExists ==
    ASSUME PiecesTyped, Chars(rest, End) > MAX_CHUNK_CHARS
    PROVE  Places(MIN_CHUNK_CHARS, MAX_CHUNK_CHARS, {}) # {}
<1> DEFINE n == Len(text)
           G == {m \in 0 .. n + 1 - rest : Chars(rest, rest + m) < 700}
<1>1. text \in Texts /\ rest \in 1 .. n  BY DEF PiecesTyped
<1>2. /\ n \in Nat /\ Chars(rest, rest) = 0 /\ \A to \in rest .. n + 1 : Chars(rest, to) \in Int
      /\ \A to \in rest .. n : text[to].length \in 1 .. 600 /\ Chars(rest, to + 1) = Chars(rest, to) + text[to].length
  BY <1>1, CharsGrow
<1>3. Chars(rest, n + 1) > 1300  BY DEF End, MAX_CHUNK_CHARS
<1> SUFFICES ASSUME Places(MIN_CHUNK_CHARS, MAX_CHUNK_CHARS, {}) = {} PROVE FALSE
  OBVIOUS
<1>4. \A to \in rest + 1 .. n : ~(Chars(rest, to) \in 700 .. 1300)
  BY DEF Places, MIN_CHUNK_CHARS, MAX_CHUNK_CHARS
<1> HIDE DEF n
<1>5. n + 1 - rest \in Nat /\ rest + 0 = rest /\ 0 \in 0 .. n + 1 - rest  BY <1>1, <1>2
<1>6. 0 \in G  BY <1>2, <1>5
<1>7. ASSUME NEW m \in 0 .. (n + 1 - rest) - 1, m \in G PROVE m + 1 \in G
  <2>1. PICK to \in rest .. n : to = rest + m  BY <1>1, <1>2, <1>7
  <2>2. m + 1 \in 0 .. n + 1 - rest /\ rest + (m + 1) = to + 1 /\ to + 1 \in rest .. n + 1 /\ to \in rest .. n + 1
    BY <1>1, <1>2, <1>7, <2>1
  <2>3. Chars(rest, to) < 700  BY <1>7, <2>1
  <2>4. PICK x \in Int : x = Chars(rest, to)  BY <1>2, <2>2
  <2>5. PICK y \in Int : y = Chars(rest, to + 1)  BY <1>2, <2>2
  <2>6. PICK z \in 1 .. 600 : z = text[to].length  BY <1>2
  <2>7. y = x + z  BY <1>2, <2>4, <2>5, <2>6
  <2>8. y <= 1300  BY <2>3, <2>4, <2>6, <2>7
  <2>9. to # n
    <3>1. to = n => y > 1300  BY <1>3, <2>5
    <3> QED  BY <2>8, <3>1
  <2>10. to + 1 \in rest + 1 .. n
    <3>1. n \in Nat /\ rest \in 1 .. n /\ to \in rest .. n /\ to # n  BY <1>1, <1>2, <2>9
    <3> QED  BY <3>1
  <2>11. ~(y \in 700 .. 1300)  BY <1>4, <2>5, <2>10
  <2>12. y < 700  BY <2>8, <2>11
  <2> QED  BY <2>2, <2>5, <2>12
<1>8. \A m \in 0 .. (n + 1 - rest) - 1 : m \in G => m + 1 \in G  BY <1>7
<1>9. n + 1 - rest \in G
  <2> DEFINE d == n + 1 - rest
  <2>1. d \in Nat /\ \A m \in 0 .. d - 1 : m \in G => m + 1 \in G  BY <1>5, <1>8
  <2>2. d \in 0 .. d  BY <1>5
  <2> HIDE DEF d, G
  <2>3. \A m \in 0 .. d : m \in G  BY <1>6, <2>1, UpTo
  <2> QED  BY <2>2, <2>3 DEF d
<1>10. rest + (n + 1 - rest) = n + 1  BY <1>1, <1>2
<1>11. Chars(rest, n + 1) < 700 /\ n + 1 \in rest .. n + 1
  BY <1>1, <1>2, <1>9, <1>10
<1> QED  BY <1>2, <1>3, <1>11

\* A place so far from the start is not too far.
LEMMA PlacesWithin ==
    ASSUME NEW low \in Int, NEW high \in Int, high <= MAX_CHUNK_CHARS, NEW kind, NEW p \in Places(low, high, kind)
    PROVE  p \in rest + 1 .. Len(text) /\ Chars(rest, p) <= MAX_CHUNK_CHARS
<1>1. p \in rest + 1 .. Len(text) /\ Chars(rest, p) \in low .. high  BY DEF Places
<1>2. PICK x \in low .. high : x = Chars(rest, p)  BY <1>1
<1>3. x <= MAX_CHUNK_CHARS  BY DEF MAX_CHUNK_CHARS
<1> QED  BY <1>1, <1>2, <1>3

\* Where a piece ends.
LEMMA CutIsPlace ==
    ASSUME PiecesTyped, Chars(rest, End) > MAX_CHUNK_CHARS
    PROVE  Cut \in rest + 1 .. Len(text) /\ Chars(rest, Cut) <= MAX_CHUNK_CHARS
<1> DEFINE paras == Places(TARGET_CHUNK_CHARS - 200, MAX_CHUNK_CHARS, {"para"})
           stops == Places(TARGET_CHUNK_CHARS - 120, TARGET_CHUNK_CHARS + 80, {"stop"})
           spaces == Places(MIN_CHUNK_CHARS, MAX_CHUNK_CHARS, {})
           chosen == IF paras # {} THEN paras ELSE IF stops # {} THEN stops ELSE spaces
<1>1. text \in Texts /\ rest \in 1 .. Len(text)  BY DEF PiecesTyped
<1>2. Len(text) \in Nat  BY <1>1, CharsGrow
<1>3. chosen # {}  BY SpaceExists
<1>4. \A p \in chosen : p \in rest + 1 .. Len(text) /\ Chars(rest, p) <= MAX_CHUNK_CHARS
  <2>1. \A p \in paras : p \in rest + 1 .. Len(text) /\ Chars(rest, p) <= MAX_CHUNK_CHARS
    <3>1. TARGET_CHUNK_CHARS - 200 \in Int /\ MAX_CHUNK_CHARS \in Int  BY DEF TARGET_CHUNK_CHARS, MAX_CHUNK_CHARS
    <3> QED  BY <3>1, PlacesWithin
  <2>2. \A p \in stops : p \in rest + 1 .. Len(text) /\ Chars(rest, p) <= MAX_CHUNK_CHARS
    <3>1. TARGET_CHUNK_CHARS - 120 \in Int /\ TARGET_CHUNK_CHARS + 80 \in Int /\ TARGET_CHUNK_CHARS + 80 <= MAX_CHUNK_CHARS
      BY DEF TARGET_CHUNK_CHARS, MAX_CHUNK_CHARS
    <3> QED  BY <3>1, PlacesWithin
  <2>3. \A p \in spaces : p \in rest + 1 .. Len(text) /\ Chars(rest, p) <= MAX_CHUNK_CHARS
    <3>1. MIN_CHUNK_CHARS \in Int /\ MAX_CHUNK_CHARS \in Int  BY DEF MIN_CHUNK_CHARS, MAX_CHUNK_CHARS
    <3> QED  BY <3>1, PlacesWithin
  <2> HIDE DEF paras, stops, spaces
  <2> QED  BY <2>1, <2>2, <2>3
<1>5. Cut = LastOf(chosen)  BY DEF Cut
<1> HIDE DEF chosen
<1>6. chosen \in SUBSET (1 .. Len(text))  BY <1>1, <1>2, <1>4
<1>7. LastOf(chosen) \in chosen  BY <1>2, <1>3, <1>6, PlacesHaveEnds
<1> QED  BY <1>4, <1>5, <1>7

\* The next piece starts after the start of this one, and after its end only if
\* the overlap would begin with a word that goes on.
LEMMA ContinuesLater ==
    ASSUME PiecesTyped, NEW cut \in rest + 1 .. Len(text)
    PROVE  /\ ContinuesAt(cut) \in rest + 1 .. Len(text)
           /\ ContinuesAt(cut) > cut => \E p \in rest .. cut : text[p].small
<1>1. text \in Texts /\ rest \in 1 .. Len(text)  BY DEF PiecesTyped
<1>2. Len(text) \in Nat  BY <1>1, CharsGrow
<1> DEFINE before == {p \in rest + 1 .. cut : Chars(p, cut) >= OVERLAP_CHARS}
           back == BackFrom(cut)
           ends == {p \in back + 1 .. Len(text) : "stop" \in text[p - 1].ends}
<1>3. back \in rest + 1 .. cut
  <2>1. CASE before = {}
    <3>1. back = cut  BY <2>1 DEF BackFrom
    <3> QED  BY <1>1, <1>2, <3>1
  <2>2. CASE before # {}
    <3>1. before \in SUBSET (1 .. Len(text))  BY <1>1, <1>2
    <3>2. \A p \in before : p \in rest + 1 .. cut  OBVIOUS
    <3>3. back = LastOf(before)  BY <2>2 DEF BackFrom
    <3> HIDE DEF before, back
    <3>4. LastOf(before) \in before  BY <1>2, <2>2, <3>1, PlacesHaveEnds
    <3> QED  BY <3>2, <3>3, <3>4
  <2> QED  BY <2>1, <2>2
<1>4. ContinuesAt(cut) = IF ~text[back].small THEN back ELSE IF ends # {} THEN FirstOf(ends) ELSE cut
  BY DEF ContinuesAt
<1> HIDE DEF back
<1>5. ends # {} => FirstOf(ends) \in ends
  <2>1. ends \in SUBSET (1 .. Len(text))  BY <1>1, <1>2, <1>3
  <2> HIDE DEF ends
  <2> QED  BY <1>2, <2>1, PlacesHaveEnds
<1>6. \A p \in ends : p \in rest + 1 .. Len(text)  BY <1>1, <1>2, <1>3
<1>7. back \in rest + 1 .. Len(text) /\ back \in rest .. cut /\ back <= cut  BY <1>1, <1>2, <1>3
<1> HIDE DEF ends
<1>8. CASE ~text[back].small
  <2>1. ContinuesAt(cut) = back  BY <1>4, <1>8
  <2>2. ~(back > cut)  BY <1>1, <1>2, <1>3
  <2> QED  BY <1>7, <2>1, <2>2
<1>9. CASE text[back].small
  <2>1. ContinuesAt(cut) \in rest + 1 .. Len(text)  BY <1>4, <1>5, <1>6, <1>9
  <2> QED  BY <1>7, <1>9, <2>1
<1> QED  BY <1>8, <1>9

LEMMA NoPiecesYet == ASSUME chunks = <<>> PROVE PiecesAdvance
<1>1. Len(chunks) = 0 /\ DOMAIN chunks = {}  BY EmptySeq
<1>2. 1 .. Len(chunks) - 1 = {}  BY <1>1
<1> QED  BY <1>1, <1>2, Zenon DEF PiecesAdvance

LEMMA NoPieces == ASSUME chunks' = <<>> PROVE PiecesAdvance'
<1>1. Len(chunks') = 0 /\ DOMAIN chunks' = {}  BY EmptySeq
<1>2. 1 .. Len(chunks') - 1 = {}  BY <1>1
<1> QED  BY <1>1, <1>2, Zenon DEF PiecesAdvance

LEMMA SamePieces == ASSUME PiecesAdvance, text' = text, chunks' = chunks PROVE PiecesAdvance'
<1>1. Lengths' = Lengths  BY DEF Lengths
<1>2. \A i \in DOMAIN chunks :
        /\ chunks[i][1] < chunks[i][2]
        /\ Total(SubSeq(Lengths, chunks[i][1], chunks[i][2] - 1)) <= MAX_CHUNK_CHARS
  BY DEF PiecesAdvance, Chars
<1>3. (\A i \in DOMAIN chunks : chunks[i][1] < chunks[i][2] /\ Chars(chunks[i][1], chunks[i][2]) <= MAX_CHUNK_CHARS)'
  BY <1>1, <1>2 DEF Chars
<1>4. (\A i \in 1 .. Len(chunks) - 1 :
        /\ chunks[i][1] < chunks[i + 1][1]
        /\ chunks[i + 1][1] > chunks[i][2] => \E p \in chunks[i][1] .. chunks[i][2] : text[p].small)'
  BY DEF PiecesAdvance
<1> QED  BY <1>3, <1>4 DEF PiecesAdvance

\* One more piece of what remains.
LEMMA OneMorePiece ==
    ASSUME PiecesTyped, GoesOn, PiecesAdvance, text' = text,
           NEW to \in rest + 1 .. Len(text) + 1, Chars(rest, to) <= MAX_CHUNK_CHARS,
           chunks' = Append(chunks, <<rest, to>>)
    PROVE  /\ chunks' \in Seq(Nat \X Nat) /\ chunks'[Len(chunks')] = <<rest, to>>
           /\ PiecesAdvance'
<1>1. text \in Texts /\ rest \in 1 .. Len(text) /\ chunks \in Seq(Nat \X Nat)  BY DEF PiecesTyped
<1>2. Len(text) \in Nat  BY <1>1, CharsGrow
<1>3. rest \in Nat /\ to \in Nat /\ rest < to  BY <1>1, <1>2
<1> DEFINE piece == <<rest, to>>
<1>4. piece \in Nat \X Nat /\ piece[1] = rest /\ piece[2] = to  BY <1>3
<1>5. Len(chunks) \in Nat /\ DOMAIN chunks = 1 .. Len(chunks)  BY <1>1, LenProperties
<1> HIDE DEF piece
<1>6. /\ chunks' \in Seq(Nat \X Nat) /\ Len(chunks') = Len(chunks) + 1
      /\ chunks'[Len(chunks) + 1] = piece /\ \A i \in 1 .. Len(chunks) : chunks'[i] = chunks[i]
  BY <1>1, <1>4, AppendProperties DEF piece
<1>7. DOMAIN chunks' = 1 .. Len(chunks) + 1  BY <1>6, LenProperties
<1>8. Lengths' = Lengths  BY DEF Lengths
<1>9. \A i \in DOMAIN chunks' : chunks'[i][1] < chunks'[i][2] /\ Chars(chunks'[i][1], chunks'[i][2]) <= MAX_CHUNK_CHARS
  <2>1. TAKE i \in DOMAIN chunks'
  <2>2. CASE i = Len(chunks) + 1  BY <1>3, <1>4, <1>6, <2>2
  <2>3. CASE i # Len(chunks) + 1
    <3>1. i \in 1 .. Len(chunks)  BY <1>5, <1>7, <2>3
    <3>2. chunks[i][1] < chunks[i][2] /\ Chars(chunks[i][1], chunks[i][2]) <= MAX_CHUNK_CHARS
      BY <1>5, <3>1 DEF PiecesAdvance
    <3> QED  BY <1>6, <3>1, <3>2
  <2> QED  BY <2>2, <2>3
<1>10. ASSUME NEW i \in 1 .. Len(chunks') - 1
       PROVE  /\ chunks'[i][1] < chunks'[i + 1][1]
              /\ chunks'[i + 1][1] > chunks'[i][2] => \E p \in chunks'[i][1] .. chunks'[i][2] : text[p].small
  <2>1. i \in 1 .. Len(chunks) /\ chunks'[i] = chunks[i]  BY <1>5, <1>6
  <2>2. CASE i = Len(chunks)
    <3>1. chunks'[i + 1] = piece  BY <1>6, <2>2
    <3>2. chunks # <<>>  BY <1>5, <2>1, EmptySeq
    <3>3. chunks[i][1] < rest /\ (rest > chunks[i][2] => \E p \in chunks[i][1] .. chunks[i][2] : text[p].small)
      BY <2>2, <3>2 DEF GoesOn
    <3> QED  BY <1>4, <2>1, <3>1, <3>3
  <2>3. CASE i # Len(chunks)
    <3>1. i \in 1 .. Len(chunks) - 1 /\ i + 1 \in 1 .. Len(chunks)
      <4>1. PICK m \in Nat : m = Len(chunks)  BY <1>5
      <4>2. PICK k \in 1 .. m : k = i  BY <2>1, <4>1
      <4>3. k # m  BY <2>3, <4>1, <4>2
      <4>4. k \in 1 .. m - 1 /\ k + 1 \in 1 .. m  BY <4>3
      <4> QED  BY <4>1, <4>2, <4>4
    <3>2. chunks'[i + 1] = chunks[i + 1]  BY <1>6, <3>1
    <3>3. /\ chunks[i][1] < chunks[i + 1][1]
          /\ chunks[i + 1][1] > chunks[i][2] => \E p \in chunks[i][1] .. chunks[i][2] : text[p].small
      BY <3>1 DEF PiecesAdvance
    <3> QED  BY <2>1, <3>2, <3>3
  <2> QED  BY <2>2, <2>3
<1>11. PiecesAdvance'
  <2>1. \A i \in DOMAIN chunks' :
          /\ chunks'[i][1] < chunks'[i][2]
          /\ Total(SubSeq(Lengths', chunks'[i][1], chunks'[i][2] - 1)) <= MAX_CHUNK_CHARS
    BY <1>8, <1>9, Zenon DEF Chars
  <2>2. \A i \in 1 .. Len(chunks') - 1 :
          /\ chunks'[i][1] < chunks'[i + 1][1]
          /\ chunks'[i + 1][1] > chunks'[i][2] => \E p \in chunks'[i][1] .. chunks'[i][2] : text'[p].small
    BY <1>10
  <2>3. (\A i \in DOMAIN chunks : chunks[i][1] < chunks[i][2] /\ Chars(chunks[i][1], chunks[i][2]) <= MAX_CHUNK_CHARS)'
    BY <2>1 DEF Chars
  <2>4. (\A i \in 1 .. Len(chunks) - 1 :
          /\ chunks[i][1] < chunks[i + 1][1]
          /\ chunks[i + 1][1] > chunks[i][2] => \E p \in chunks[i][1] .. chunks[i][2] : text[p].small)'
    BY <2>2
  <2> QED  BY <2>3, <2>4 DEF PiecesAdvance
<1> QED  BY <1>6, <1>11 DEF piece

ChunkInv ==
    /\ SectionsInv /\ PiecesInv
    /\ reading = "sections" => chunks = <<>>
    /\ ChunkSafety

\* A step of the sections leaves the pieces alone, and the other way round.
LEMMA ChunkInvKept ==
    ASSUME ChunkInv, [ChunkNext]_chunkVars
    PROVE  ChunkInv'
<1>1. CASE ReadLine
  <2>1. reading = "sections" /\ reading' = "sections" /\ text' = text /\ chunks' = chunks
    BY <1>1 DEF ReadLine
  <2>2. SectionsInv'  BY <1>1, ReadLineKeeps DEF ChunkInv
  <2>3. PiecesInv' /\ SectionsKeepTheText' /\ chunks' = <<>>
    BY <2>1 DEF PiecesInv, SectionsKeepTheText, ChunkInv
  <2>4. PiecesAdvance'  BY <2>3, NoPieces
  <2> QED  BY <2>2, <2>3, <2>4 DEF ChunkInv, ChunkSafety
<1>2. CASE EndOfText
  <2>1. reading = "sections" /\ reading' = "done" /\ chunks' = chunks
    BY <1>2 DEF EndOfText
  <2>2. SectionsKeepTheText'  BY <1>2, EndOfTextKeeps DEF ChunkInv
  <2>3. PiecesInv' /\ SectionsInv' /\ chunks' = <<>> /\ reading' # "sections"
    BY <2>1 DEF PiecesInv, SectionsInv, ChunkInv
  <2>4. PiecesAdvance'  BY <2>3, NoPieces
  <2> QED  BY <2>2, <2>3, <2>4 DEF ChunkInv, ChunkSafety
<1>3. CASE CutPiece
  <2>1. /\ reading = "chunks" /\ Chars(rest, End) > MAX_CHUNK_CHARS /\ reading' = reading /\ text' = text /\ lines' = lines
        /\ chunks' = Append(chunks, <<rest, Cut>>) /\ rest' = ContinuesAt(Cut)
    BY <1>3 DEF CutPiece, sectionVars
  <2>2. lines = <<>> /\ PiecesTyped /\ GoesOn /\ PiecesAdvance  BY <2>1 DEF ChunkInv, PiecesInv, ChunkSafety
  <2> DEFINE cut == Cut
             onward == ContinuesAt(Cut)
  <2>3. cut \in rest + 1 .. Len(text) /\ Chars(rest, cut) <= MAX_CHUNK_CHARS  BY <2>1, <2>2, CutIsPlace
  <2>4. onward \in rest + 1 .. Len(text) /\ (onward > cut => \E p \in rest .. cut : text[p].small)
    BY <2>2, <2>3, ContinuesLater
  <2>5. chunks' = Append(chunks, <<rest, cut>>) /\ rest' = onward  BY <2>1
  <2> HIDE DEF cut, onward
  <2>6. text \in Texts /\ rest \in 1 .. Len(text) /\ Len(text) \in Nat  BY <2>2, CharsGrow DEF PiecesTyped
  <2>7. cut \in rest + 1 .. Len(text) + 1  BY <2>3, <2>6
  <2>8. chunks' \in Seq(Nat \X Nat) /\ chunks'[Len(chunks')] = <<rest, cut>> /\ PiecesAdvance'
    BY <2>1, <2>2, <2>3, <2>5, <2>7, OneMorePiece
  <2>9. PiecesTyped'  BY <2>1, <2>4, <2>5, <2>6, <2>8 DEF PiecesTyped
  <2>10. GoesOn'
    <3>1. rest < onward  BY <2>4, <2>6
    <3>2. <<rest, cut>>[1] = rest /\ <<rest, cut>>[2] = cut  OBVIOUS
    <3> QED  BY <2>1, <2>4, <2>5, <2>8, <3>1, <3>2 DEF GoesOn
  <2>11. PiecesInv' /\ SectionsInv' /\ SectionsKeepTheText' /\ reading' # "sections"
    BY <2>1, <2>2, <2>9, <2>10 DEF PiecesInv, SectionsInv, SectionsKeepTheText
  <2> QED  BY <2>8, <2>11 DEF ChunkInv, ChunkSafety
<1>4. CASE LastPiece
  <2>1. /\ reading = "chunks" /\ Chars(rest, End) <= MAX_CHUNK_CHARS /\ reading' = "done" /\ text' = text /\ lines' = lines
        /\ chunks' = Append(chunks, <<rest, End>>)
    BY <1>4 DEF LastPiece, sectionVars
  <2>2. lines = <<>> /\ PiecesTyped /\ GoesOn /\ PiecesAdvance  BY <2>1 DEF ChunkInv, PiecesInv, ChunkSafety
  <2>3. text \in Texts /\ rest \in 1 .. Len(text) /\ Len(text) \in Nat  BY <2>2, CharsGrow DEF PiecesTyped
  <2>4. End \in rest + 1 .. Len(text) + 1  BY <2>3 DEF End
  <2>5. PiecesAdvance'  BY <2>1, <2>2, <2>4, OneMorePiece
  <2>6. PiecesInv' /\ SectionsInv' /\ SectionsKeepTheText' /\ reading' # "sections"
    BY <2>1, <2>2 DEF PiecesInv, SectionsInv, SectionsKeepTheText
  <2> QED  BY <2>5, <2>6 DEF ChunkInv, ChunkSafety
<1>5. CASE UNCHANGED chunkVars
  <2>1. UNCHANGED <<reading, lines, line, inContents, path, paragraphs, sections, text, rest, chunks>>
    BY <1>5 DEF chunkVars
  <2>2. SectionsInv'
    BY <2>1 DEF ChunkInv, SectionsInv, SectionsTyped, Gathered, ReadBody, BodyLines, InContents, Entry
  <2>3. PiecesInv'  BY <2>1 DEF ChunkInv, PiecesInv, PiecesTyped, GoesOn
  <2>4. SectionsKeepTheText'
    BY <2>1 DEF ChunkInv, ChunkSafety, SectionsKeepTheText, BodyLines, InContents, Entry
  <2>5. PiecesAdvance'
    <3>1. PiecesAdvance /\ text' = text /\ chunks' = chunks  BY <2>1 DEF ChunkInv, ChunkSafety
    <3> QED  BY <3>1, SamePieces
  <2> QED  BY <2>1, <2>2, <2>3, <2>4, <2>5 DEF ChunkInv, ChunkSafety
<1> QED  BY <1>1, <1>2, <1>3, <1>4, <1>5 DEF ChunkNext

LEMMA ChunkInvInit ==
    ASSUME SectionsInit \/ PiecesInit
    PROVE  ChunkInv
<1>1. CASE SectionsInit
  <2>1. /\ reading = "sections" /\ lines \in Documents /\ line = 1 /\ inContents = FALSE
        /\ path = General /\ paragraphs = <<>> /\ sections = <<>> /\ chunks = <<>>
    BY <1>1 DEF SectionsInit
  <2>2. Len(lines) \in Nat /\ DOMAIN lines = 1 .. Len(lines)  BY <2>1, ChunksAssumption, LenProperties
  <2>3. SectionsTyped
    <3>1. <<>> \in Seq(Nat) /\ <<>> \in Seq(Section) /\ FALSE \in BOOLEAN  BY EmptySeq
    <3>2. 1 \in 1 .. Len(lines) + 1  BY <2>2
    <3> QED  BY <2>1, <3>1, <3>2, GeneralIsPath DEF SectionsTyped
  <2>4. TextIn(sections) = <<>>  BY <2>1, TextInNone
  <2>5. Gathered = <<>>  BY <2>1, <2>4, ConcatEmptySeq DEF Gathered
  <2>6. ReadBody = {}
    <3>1. \A i \in BodyLines : i \in 1 .. Len(lines)  BY <2>2 DEF BodyLines
    <3> QED  BY <2>1, <2>2, <3>1 DEF ReadBody
  <2>7. ListsInOrder(<<>>, {})  BY EmptySeq DEF ListsInOrder, ToSet
  <2>8. SectionsInv  BY <2>1, <2>3, <2>5, <2>6, <2>7 DEF SectionsInv
  <2>9. PiecesInv /\ SectionsKeepTheText  BY <2>1 DEF PiecesInv, SectionsKeepTheText
  <2>10. PiecesAdvance  BY <2>1, NoPiecesYet
  <2> QED  BY <2>1, <2>8, <2>9, <2>10 DEF ChunkInv, ChunkSafety
<1>2. CASE PiecesInit
  <2>1. reading = "chunks" /\ text \in Texts /\ lines = <<>> /\ rest = 1 /\ chunks = <<>>
    BY <1>2 DEF PiecesInit
  <2>2. rest \in 1 .. Len(text)
    <3>1. Len(text) \in Nat  BY <2>1, ChunksAssumption, LenProperties
    <3>2. Len(text) # 0  BY <2>1, ChunksAssumption, EmptySeq
    <3> QED  BY <2>1, <3>1, <3>2
  <2>3. PiecesTyped /\ GoesOn  BY <2>1, <2>2 DEF PiecesTyped, GoesOn
  <2>4. PiecesInv /\ SectionsInv /\ SectionsKeepTheText
    BY <2>1, <2>3 DEF PiecesInv, SectionsInv, SectionsKeepTheText
  <2>5. PiecesAdvance  BY <2>1, NoPiecesYet
  <2> QED  BY <2>1, <2>4, <2>5 DEF ChunkInv, ChunkSafety
<1> QED  BY <1>1, <1>2

\* Whatever the syllabus, however it is divided: its sections keep its text, and
\* cutting them comes to an end with pieces of the allowed length.
THEOREM ChunksKeepTheText == ChunkSpec => []ChunkSafety
<1>1. SectionsInit \/ PiecesInit => ChunkInv  BY ChunkInvInit
<1>2. ChunkInv /\ [ChunkNext]_chunkVars => ChunkInv'  BY ChunkInvKept
<1>3. ChunkInv => ChunkSafety  BY DEF ChunkInv
<1> QED  BY <1>1, <1>2, <1>3, PTL DEF ChunkSpec

=============================================================================
