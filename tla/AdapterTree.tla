---------------------------- MODULE AdapterTree ----------------------------
(***************************************************************************)
(* The cluster's serving tree: per course, one directory per published     *)
(* version and the pointer current.json (training/promote_qlora_adapter.sh)*)
(* and how the inference service reads it                                  *)
(* (training/inference_service/helpers.py).                                *)
(*                                                                         *)
(* An adapter is known by the promotion that copied it.  Promotions may    *)
(* overlap and may be killed between any two commands.                     *)
(***************************************************************************)
EXTENDS Naturals

CONSTANTS
    Courses,
    Promotions,    \* runs of the promote script
    MaxVersions    \* bound: v1 .. vN may be published

Absent == "absent"

ASSUME TreeAssumption == MaxVersions \in Nat \ {0} /\ Absent \notin Promotions

VARIABLES
    tree,       \* the loadable adapter of each course and version, or Absent
    pointer,    \* each course's current.json
    registry,   \* the version the backend's registry has activated, per course
    promotion   \* how far each promotion has come

treeVars == <<tree, pointer, registry, promotion>>

TreeVersions == 1..MaxVersions
NoVersion == 0

NoPointer == [version |-> NoVersion, source |-> Absent]

At(stage, c, v) == [stage |-> stage, course |-> c, version |-> v]
Waiting == [stage |-> "idle"]
Done == [stage |-> "done"]

TreeTypeOK ==
    /\ tree \in [Courses -> [TreeVersions -> Promotions \cup {Absent}]]
    /\ pointer \in [Courses -> {NoPointer} \cup [version : TreeVersions, source : Promotions]]
    /\ registry \in [Courses -> TreeVersions \cup {NoVersion}]
    /\ promotion \in [Promotions ->
            {Waiting, Done}
            \cup [stage : {"staged", "placed", "pointed"}, course : Courses, version : TreeVersions]]

TreeInit ==
    /\ tree = [c \in Courses |-> [v \in TreeVersions |-> Absent]]
    /\ pointer = [c \in Courses |-> NoPointer]
    /\ registry = [c \in Courses |-> NoVersion]
    /\ promotion = [p \in Promotions |-> Waiting]

---------------------------------------------------------------------------
(* What the service reads.                                                 *)

\* adapter_is_loadable: a staged copy is not there until it is moved in place.
Loadable(c, v) == tree[c][v] # Absent

---------------------------------------------------------------------------
(* A promotion, command by command.                                        *)

Advance(p, next) == promotion' = [promotion EXCEPT ![p] = next]
In(p, stage) == promotion[p].stage = stage

\* A version that is published already is refused; otherwise the source is
\* copied to a staging directory and validated there.
StageAdapter(p, c, v) ==
    /\ In(p, "idle")
    /\ Advance(p, IF Loadable(c, v) THEN Done ELSE At("staged", c, v))
    /\ UNCHANGED <<tree, pointer, registry>>

\* mv of the staging directory.  If another promotion has made the version's
\* directory meanwhile, mv moves the staging directory into it, and what is
\* validated next is the other's adapter.
Place(p) ==
    /\ In(p, "staged")
    /\ LET c == promotion[p].course
           v == promotion[p].version
       IN  /\ tree' = IF Loadable(c, v) THEN tree ELSE [tree EXCEPT ![c][v] = p]
           /\ Advance(p, At("placed", c, v))
    /\ UNCHANGED <<pointer, registry>>

\* Mutant: the pointer is moved before the copy is in place.
PointEarly(p) ==
    /\ In(p, "staged")
    /\ LET c == promotion[p].course
           v == promotion[p].version
       IN  /\ pointer' = [pointer EXCEPT ![c] = [version |-> v, source |-> p]]
           /\ Advance(p, At("pointed", c, v))
    /\ UNCHANGED <<tree, registry>>

\* current.json, by a temporary file and a rename.
Point(p) ==
    /\ In(p, "placed")
    /\ LET c == promotion[p].course
           v == promotion[p].version
       IN  /\ pointer' = [pointer EXCEPT ![c] = [version |-> v, source |-> p]]
           /\ Advance(p, At("pointed", c, v))
    /\ UNCHANGED <<tree, registry>>

\* The report, which the backend accepts or refuses.
Report(p) ==
    /\ In(p, "pointed")
    /\ \/ registry' = [registry EXCEPT ![promotion[p].course] = promotion[p].version]
       \/ UNCHANGED registry
    /\ Advance(p, Done)
    /\ UNCHANGED <<tree, pointer>>

\* Killed, aborted, or told to leave the pointer alone (--no-current).
Quit(p) ==
    /\ promotion[p] \notin {Waiting, Done}
    /\ Advance(p, Done)
    /\ UNCHANGED <<tree, pointer, registry>>

\* An administrator activates a version the VM can serve, whatever the
\* cluster's tree holds.
Activate(c, v) ==
    /\ registry[c] # v
    /\ registry' = [registry EXCEPT ![c] = v]
    /\ UNCHANGED <<tree, pointer, promotion>>

TreeStep ==
    \/ \E p \in Promotions :
          \/ \E c \in Courses, v \in TreeVersions : StageAdapter(p, c, v)
          \/ Place(p) \/ Point(p) \/ Report(p) \/ Quit(p)
    \/ \E c \in Courses, v \in TreeVersions : Activate(c, v)

---------------------------------------------------------------------------
\* Wherever a promotion is killed, current.json names a version whose adapter
\* is complete: the copy is in place before the pointer, and stays.
PointerIsLoadable ==
    \A c \in Courses : pointer[c] # NoPointer => Loadable(c, pointer[c].version)
=============================================================================
