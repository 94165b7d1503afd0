----------------------------- MODULE DurableState -----------------------------
(***************************************************************************)
(* What the LIVE engine relies on when it saves its state: a save that     *)
(* returns survives any crash, and a start finds the last such state or a  *)
(* newer one whose save had not returned.  Once a file has been damaged a  *)
(* start may find an older state, but then SAFE MODE is on; if nothing     *)
(* could be read it starts empty.                                          *)
(*                                                                         *)
(* A state is its version; 0 is the empty state of a first start.          *)
(***************************************************************************)
EXTENDS Naturals

VARIABLES
  held,      \* version in memory, 0 while the process is down or starts empty
  locked,    \* SAFE MODE was turned on by the start
  stored,    \* last version whose save returned
  pending,   \* versions whose saves have begun since
  damaged    \* some file has been damaged

durable == <<held, locked, stored, pending, damaged>>

DurableInit == held = 0 /\ locked = FALSE /\ stored = 0 /\ pending = {} /\ damaged = FALSE

BeginSave ==
  /\ held' > stored /\ \A v \in pending : held' > v
  /\ pending' = pending \cup {held'}
  /\ UNCHANGED <<locked, stored, damaged>>

EndSave == /\ held \in pending
           /\ stored' = held /\ pending' = {}
           /\ UNCHANGED <<held, locked, damaged>>

Stop == held' = 0 /\ locked' = FALSE /\ UNCHANGED <<stored, pending, damaged>>

Start == /\ \/ held' \in {stored} \cup pending /\ locked' \in BOOLEAN
            \/ damaged /\ held' \in 1..stored /\ locked' = TRUE
            \/ damaged /\ held' = 0 /\ locked' \in BOOLEAN
         /\ UNCHANGED <<stored, pending, damaged>>

Damage == damaged' = TRUE /\ UNCHANGED <<held, locked, stored, pending>>

DurableNext == BeginSave \/ EndSave \/ Stop \/ Start \/ Damage

DurableSpec == DurableInit /\ [][DurableNext]_durable
==============================================================================
