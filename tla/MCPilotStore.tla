---------------------------- MODULE MCPilotStore ----------------------------
(***************************************************************************)
(* Small instances of PilotStore for TLC.                                  *)
(***************************************************************************)
EXTENDS PilotStore, TLC

CONSTANTS p1, a1, a2, r1, r2, f1, f2

\* Profiles that differ in what an instance is about; the durations are
\* seconds.
Doc(id, reject, capacity, lifetime, idle, margin, health) ==
    [id |-> id, active |-> TRUE, reject |-> reject, capacity |-> capacity,
     lifetime |-> TicksPerSecond * lifetime, idle |-> TicksPerSecond * idle,
     margin |-> TicksPerSecond * margin, health |-> TicksPerSecond * health]

\* One profile with room for one task.
OneTask == [f \in Profiles |-> Doc("short", FALSE, 1, 5, 3, 2, 2)]

\* Two versions of a profile: the second one rejects instead of falling
\* back, has room for one task only, and is idle sooner.
Versions == [f \in Profiles |->
               IF f = f1 THEN Doc("short", FALSE, 2, 3, 2, 1, 1)
               ELSE Doc("short", TRUE, 1, 3, 1, 1, 1)]

\* One profile that admits every attempt.
EligibleAll == [f \in Profiles |-> Attempts]

\* Of the two versions only the first one admits a2.
EligiblePart == [f \in Profiles |-> IF f = f1 THEN Attempts ELSE {a1}]

PilotSymmetry == Permutations(Pilots) \cup Permutations(Reservations)
StoreSymmetry == PilotSymmetry \cup Permutations(Attempts)
=============================================================================
