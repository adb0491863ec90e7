------------------------------ MODULE Serving ------------------------------
(***************************************************************************)
(* The per-course inference service on the GPU                             *)
(* (training/inference_service/app.py) and the backend's calls of it       *)
(* (backend/app/finetuned_client.py, gpu_generation.py), over the serving  *)
(* tree (AdapterTree) and the session that runs it (ServingSession).       *)
(*                                                                         *)
(* Requests are handled by a pool of threads.  ensure_adapter holds the    *)
(* engine's lock while it loads and evicts; a generation takes the lock    *)
(* again, and holds it from the selection of its adapter to its answer.    *)
(***************************************************************************)
EXTENDS AdapterTree, ServingSession, SequencesExt

CONSTANTS
    Requests,
    MaxLoadedAdapters,
    MaxAsks      \* bound: generations asked for

Nobody == "nobody"

ASSUME EngineAssumption ==
    MaxLoadedAdapters \in Nat \ {0} /\ MaxAsks \in Nat /\ Nobody \notin Requests

VARIABLES
    loaded,    \* the adapters in the model, least recently used first
    selected,  \* the adapter that is switched on, or Base
    lock,      \* the request that holds the engine's lock, or Nobody
    request,   \* per request, what the backend asked and what it has come to
    thread,    \* per request, where the service's handler of it is
    asks       \* generations asked for so far

engineVars == <<loaded, selected, lock, thread>>
callVars == <<request, asks>>
servingVars == <<treeVars, sessionVars, engineVars, callVars>>

Base == <<>>
Keys == Courses \X TreeVersions

Serves == \E j \in Jobs : job[j] = "serving"

\* What the backend asks for: one version of a course's adapter, or the base
\* model.  It always names the version.
Targets == Keys \cup {Base}

Unasked == [outcome |-> "idle"]
Asleep == [stage |-> "idle"]

ServingTypeOK ==
    /\ TreeTypeOK /\ SessionTypeOK
    /\ loaded \in Seq(Keys) /\ Len(loaded) <= MaxLoadedAdapters /\ IsInjective(loaded)
    /\ selected \in Targets
    /\ lock \in Requests \cup {Nobody}
    /\ request \in [Requests ->
            {Unasked} \cup [outcome : {"waiting"}, target : Targets]
            \cup [outcome : {"answered"}, target : Targets, by : Targets]]
    /\ thread \in [Requests ->
            {Asleep} \cup [stage : {"refused"}]
            \cup [stage : {"received", "ensured", "selected"}, key : Targets]
            \cup [stage : {"replied"}, key : Targets, by : Targets]]
    /\ asks \in 0..MaxAsks

ServingInit ==
    /\ TreeInit /\ SessionInit
    /\ loaded = <<>> /\ selected = Base /\ lock = Nobody
    /\ request = [r \in Requests |-> Unasked]
    /\ thread = [r \in Requests |-> Asleep]
    /\ asks = 0

---------------------------------------------------------------------------
(* The backend.                                                            *)

Outcome(r, o) == request' = [request EXCEPT ![r] = o]
Handler(r, t) == thread' = [thread EXCEPT ![r] = t]
Stands(r, stage) == thread[r].stage = stage

\* The caller is told, and may ask again.
Fail(r) == Outcome(r, Unasked)

\* generate_finetuned_response with the activated version, generate_base_on_gpu.
\* Without a service the call fails at once.
AskModel(r, target) ==
    /\ request[r].outcome # "waiting" /\ thread[r] = Asleep
    /\ asks < MaxAsks
    /\ Serves
    /\ target # Base => target[2] = registry[target[1]]
    /\ asks' = asks + 1
    /\ Outcome(r, [outcome |-> "waiting", target |-> target])
    /\ Handler(r, [stage |-> "received", key |-> target])
    /\ UNCHANGED <<loaded, selected, lock>>

\* The backend's timeout; the service goes on.
TimesOut(r) ==
    /\ request[r].outcome = "waiting"
    /\ Fail(r)
    /\ UNCHANGED <<engineVars, asks>>

\* _validate_generate_payload: the course and version the service says it
\* answered for must be the ones asked for.  Nobody waits for an answer after
\* the timeout.
Receives(r) ==
    /\ thread[r].stage \in {"replied", "refused"}
    /\ IF request[r].outcome # "waiting" THEN UNCHANGED request
       ELSE IF Stands(r, "replied") /\ thread[r].key = request[r].target
       THEN Outcome(r, [outcome |-> "answered", target |-> request[r].target,
                        by |-> thread[r].by])
       ELSE Fail(r)
    /\ Handler(r, Asleep)
    /\ UNCHANGED <<loaded, selected, lock, asks>>

---------------------------------------------------------------------------
(* The service.                                                            *)

\* ensure_adapter: a hit moves to the most recent end, a miss is attached there,
\* and the least recently used are evicted down to the bound.
Cached(key) ==
    LET all == Append(RemoveFirst(loaded, key), key)
    IN  SubSeq(all, IF Len(all) > MaxLoadedAdapters THEN Len(all) - MaxLoadedAdapters + 1 ELSE 1,
               Len(all))

Ensure(r) ==
    /\ Stands(r, "received") /\ lock = Nobody
    /\ LET key == thread[r].key
           ready == Handler(r, [stage |-> "ensured", key |-> key])
       IN  \/ key = Base /\ ready /\ UNCHANGED loaded
           \/ key # Base /\ Loadable(key[1], key[2]) /\ ready /\ loaded' = Cached(key)
           \/ /\ key # Base /\ ~Loadable(key[1], key[2])
              /\ Handler(r, [stage |-> "refused"]) /\ UNCHANGED loaded    \* 409
    /\ UNCHANGED <<selected, lock, callVars>>

\* Mutant: the lock is not taken.
SelectUnlocked(r) ==
    /\ Stands(r, "ensured")
    /\ selected' = thread[r].key
    /\ Handler(r, [stage |-> "selected", key |-> thread[r].key])
    /\ UNCHANGED <<loaded, lock, callVars>>

\* generate, under the lock: set_adapter, which raises when the adapter is no
\* longer in the model (500), or disable_adapter.
Select(r) ==
    /\ Stands(r, "ensured") /\ lock = Nobody
    /\ LET key == thread[r].key
       IN  IF key = Base \/ Contains(loaded, key)
           THEN /\ selected' = key /\ lock' = r
                /\ Handler(r, [stage |-> "selected", key |-> key])
           ELSE /\ Handler(r, [stage |-> "refused"])
                /\ UNCHANGED <<selected, lock>>
    /\ UNCHANGED <<loaded, callVars>>

\* The generation itself, which may fail; the lock is released either way.
Decode(r) ==
    /\ Stands(r, "selected")
    /\ \/ Handler(r, [stage |-> "replied", key |-> thread[r].key, by |-> selected])
       \/ Handler(r, [stage |-> "refused"])
    /\ lock' = Nobody
    /\ UNCHANGED <<loaded, selected, callVars>>

\* The job ends, and with it the service: every call in progress is cut off.
GoesDown ==
    /\ Serves /\ SessionStep /\ ~Serves'
    /\ loaded' = <<>> /\ selected' = Base /\ lock' = Nobody
    /\ thread' = [r \in Requests |-> Asleep]
    /\ request' = [r \in Requests |->
            IF request[r].outcome = "waiting" THEN Unasked ELSE request[r]]
    /\ UNCHANGED <<treeVars, asks>>

CallStep(r) ==
    /\ \/ \E target \in Targets : AskModel(r, target)
       \/ TimesOut(r) \/ Receives(r) \/ Ensure(r) \/ Select(r) \/ Decode(r)
    /\ UNCHANGED <<treeVars, sessionVars>>

ServingNext ==
    \/ TreeStep /\ UNCHANGED <<sessionVars, engineVars, callVars>>
    \/ SessionStep /\ (Serves => Serves') /\ UNCHANGED <<treeVars, engineVars, callVars>>
    \/ GoesDown
    \/ \E r \in Requests : CallStep(r)

ServingSpec == ServingInit /\ [][ServingNext]_servingVars

---------------------------------------------------------------------------
\* A student's answer was decoded with the adapter of the course and version
\* asked for, whatever other requests load, select and evict meanwhile, and a
\* base answer with none.
AnswersWithOwnAdapter ==
    \A r \in Requests :
        request[r].outcome = "answered" => request[r].by = request[r].target

\* The state stays well typed and the cache within its bound; the lock is never
\* left behind by a generation that failed or was cut off; wherever a promotion
\* is killed, current.json names a complete adapter; and a session the backend
\* calls live is one that serves.
ServingSafety ==
    /\ ServingTypeOK
    /\ lock # Nobody => Stands(lock, "selected")
    /\ PointerIsLoadable
    /\ LiveSessionServes
=============================================================================
