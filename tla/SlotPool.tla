------------------------------ MODULE SlotPool ------------------------------
(***************************************************************************)
(* What the generation queue promises its callers, with neither a clock,   *)
(* keys, futures nor an event loop: at most Limit requests hold a slot, a  *)
(* request that cannot have one waits or is turned away, and a slot given  *)
(* back while somebody waits goes to a waiter in the same step.            *)
(***************************************************************************)
EXTENDS Naturals, FiniteSets

CONSTANTS Requests, Limit

VARIABLES fresh, waiters, holders
poolVars == <<fresh, waiters, holders>>

Init ==
    /\ fresh = Requests
    /\ waiters = {}
    /\ holders = {}

\* A newcomer takes a free slot only when nobody waits for it.
Acquire(r) ==
    /\ r \in fresh
    /\ waiters = {} /\ Cardinality(holders) < Limit
    /\ fresh' = fresh \ {r}
    /\ holders' = holders \cup {r}
    /\ UNCHANGED waiters

\* A newcomer waits, or is turned away, only when every slot is taken.
Saturated(r) ==
    /\ r \in fresh
    /\ Cardinality(holders) = Limit
    /\ fresh' = fresh \ {r}
    /\ UNCHANGED holders

Wait(r) == Saturated(r) /\ waiters' = waiters \cup {r}
TurnAway(r) == Saturated(r) /\ UNCHANGED waiters

GiveUp(r) ==
    /\ r \in waiters
    /\ waiters' = waiters \ {r}
    /\ UNCHANGED <<fresh, holders>>

GiveBack(r) ==
    /\ r \in holders
    /\ waiters = {}
    /\ holders' = holders \ {r}
    /\ UNCHANGED <<fresh, waiters>>

HandOver(r, w) ==
    /\ r \in holders /\ w \in waiters
    /\ holders' = (holders \ {r}) \cup {w}
    /\ waiters' = waiters \ {w}
    /\ UNCHANGED fresh

Next ==
    \E r \in Requests :
        \/ Acquire(r) \/ Wait(r) \/ TurnAway(r) \/ GiveUp(r) \/ GiveBack(r)
        \/ \E w \in Requests : HandOver(r, w)

Spec == Init /\ [][Next]_poolVars
=============================================================================
