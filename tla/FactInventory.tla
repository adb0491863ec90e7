--------------------------- MODULE FactInventory ---------------------------
(***************************************************************************)
(* The fact inventory of each course: extracted from its syllabus index by *)
(* a build that takes minutes, kept on disk under the fingerprint of the   *)
(* chunks it was made from, and shared by everybody who asks while it is   *)
(* being built.  A syllabus is known by its version; 0 is none.            *)
(*                                                                         *)
(* The backend is one event loop: what a handler does between two awaits   *)
(* is one step.                                                            *)
(***************************************************************************)
EXTENDS Naturals, FiniteSets

CONSTANTS
    Courses,
    Clients,      \* whoever asks for an inventory
    MaxVersion    \* a bound: syllabus versions of each course

ASSUME FactInventoryAssumption == Courses # {} /\ MaxVersion \in [Courses -> Nat]

VARIABLES
    index,      \* the version of each course's syllabus index
    build,      \* _inflight_builds: the version being extracted, or 0
    cache,      \* the version whose inventory is on disk, or 0
    lastError,  \* the courses in _last_build_errors
    call        \* each client's request for an inventory

factVars == <<index, build, cache, lastError, call>>

Versions == UNION {0 .. MaxVersion[c] : c \in Courses}
NoCall == [at |-> "idle", course |-> CHOOSE c \in Courses : TRUE, chunks |-> 0,
           got |-> 0, joined |-> FALSE]
Asking == {"waiting", "polling"}
Over == {"answered", "failed"}

FactInit ==
    /\ index = [c \in Courses |-> 0]
    /\ build = [c \in Courses |-> 0]
    /\ cache = [c \in Courses |-> 0]
    /\ lastError = {}
    /\ call = [k \in Clients |-> NoCall]

\* Mutant: whatever inventory is on disk is served.
CachedAny(c) == cache[c] # 0

\* _inventory_payload_valid: the fingerprint must be that of the chunks.
Cached(c) == cache[c] = index[c] /\ cache[c] # 0

Building(c) == build[c] # 0

Becomes(k, at, c, got, joined) ==
    call' = [call EXCEPT ![k] = [at |-> at, course |-> c, chunks |-> index[c],
                                 got |-> got, joined |-> joined]]

\* A browser that polls holds no chunks from one request to the next.
BecomesPolling(k, c) == call' = [call EXCEPT ![k] = [NoCall EXCEPT !.at = "polling", !.course = c]]

Failed == [NoCall EXCEPT !.at = "failed"]

\* start_fact_inventory_build: a running build is joined whatever it was
\* started for; a new one forgets the last failure.
StartBuild(c) ==
    IF Building(c) THEN UNCHANGED <<build, lastError>>
    ELSE /\ build' = [build EXCEPT ![c] = index[c]]
         /\ lastError' = lastError \ {c}

\* load_or_build_fact_inventory
LoadOrBuild(k, c, refresh) ==
    \/ /\ ~refresh /\ Cached(c)
       /\ Becomes(k, "answered", c, cache[c], FALSE)
       /\ UNCHANGED <<build, lastError>>
    \/ /\ refresh \/ ~Cached(c)
       /\ Becomes(k, "waiting", c, 0, Building(c))
       /\ StartBuild(c)

\* POST facts/inventory with wait: true.
AskAndWait(k, c) ==
    /\ call[k].at = "idle" /\ index[c] # 0
    /\ \E refresh \in BOOLEAN : LoadOrBuild(k, c, refresh)
    /\ UNCHANGED <<index, cache>>

\* The same with wait: false: 200 from the cache, 202 while it is built, 503
\* once for a build that failed, or a build is started.  Only the first request
\* of a browser may ask for a new build.
Poll(k, c, refresh) ==
    /\ call[k].at = "idle" \/ (call[k].at = "polling" /\ call[k].course = c /\ ~refresh)
    /\ index[c] # 0
    /\ \/ /\ ~refresh /\ Cached(c)
          /\ Becomes(k, "answered", c, cache[c], FALSE)
          /\ UNCHANGED <<build, lastError>>
       \/ /\ refresh \/ ~Cached(c)
          /\ IF ~Building(c) /\ c \in lastError
             THEN /\ call' = [call EXCEPT ![k] = Failed]
                  /\ lastError' = lastError \ {c}
                  /\ UNCHANGED build
             ELSE BecomesPolling(k, c) /\ StartBuild(c)
    /\ UNCHANGED <<index, cache>>

Waiting(k, c) == call[k].at = "waiting" /\ call[k].course = c

\* _build_and_store, then the done callback.
BuildDone(c) ==
    /\ Building(c)
    /\ cache' = [cache EXCEPT ![c] = build[c]]
    /\ call' = [k \in Clients |-> IF Waiting(k, c)
                             THEN [call[k] EXCEPT !.at = "answered", !.got = build[c]]
                             ELSE call[k]]
    /\ build' = [build EXCEPT ![c] = 0]
    /\ UNCHANGED <<index, lastError>>

\* Mutant: the failure reaches only those who poll.
BuildFailsUnheard(c) ==
    /\ Building(c)
    /\ lastError' = lastError \cup {c}
    /\ build' = [build EXCEPT ![c] = 0]
    /\ UNCHANGED <<index, cache, call>>

BuildFails(c) ==
    /\ Building(c)
    /\ call' = [k \in Clients |-> IF Waiting(k, c) THEN Failed ELSE call[k]]
    /\ lastError' = lastError \cup {c}
    /\ build' = [build EXCEPT ![c] = 0]
    /\ UNCHANGED <<index, cache>>

\* The answer is read; the client may ask again.
Dismiss(k) ==
    /\ call[k].at \in Over
    /\ call' = [call EXCEPT ![k] = NoCall]
    /\ UNCHANGED <<index, build, cache, lastError>>

\* A restart drops the builds, their outcomes and whoever waits for one; a
\* browser that polls asks the new process.
ForgetBuilds ==
    /\ build' = [c \in Courses |-> 0]
    /\ lastError' = {}
    /\ call' = [k \in Clients |-> IF call[k].at = "polling" THEN call[k] ELSE NoCall]

FactTypeOK ==
    /\ index \in [Courses -> Versions] /\ build \in [Courses -> Versions]
    /\ cache \in [Courses -> Versions] /\ lastError \subseteq Courses
    /\ call \in [Clients -> [at : {"idle"} \cup Asking \cup Over, course : Courses,
                             chunks : Versions, got : Versions, joined : BOOLEAN]]

\* Nobody awaits a build that is not running: every way a build ends, a restart
\* included, releases the callers that joined it, and a caller that does not
\* await one either has its answer or polls (fact_inventory_cache.py
\* start_fact_inventory_build and _on_build_done).
NobodyAwaitsNothing ==
    \A k \in Clients : call[k].at = "waiting" => Building(call[k].course)

\* An answer is made from the chunks its caller read, unless the caller joined
\* a build that was already running: a syllabus replaced in between never gives
\* a stale answer from the cache or from a build started for the call
\* (fact_inventory_cache.py load_or_build_fact_inventory).
AnsweredForOwnChunks ==
    \A k \in Clients :
        call[k].at = "answered" /\ ~call[k].joined => call[k].got = call[k].chunks

=============================================================================
