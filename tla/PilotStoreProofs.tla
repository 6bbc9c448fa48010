-------------------------- MODULE PilotStoreProofs --------------------------
(***************************************************************************)
(* Safety of PilotStore for every set of pilots, attempts and profiles.    *)
(*                                                                         *)
(* The inductive invariant PilotInv is the conjunction of the checked      *)
(* invariants: that no reservation is active on a pilot without one in its *)
(* counter is what keeps mark_terminated and _reconcile, which look at the *)
(* counter only, from ending a pilot under a task. Every operation but     *)
(* reserve and release leaves the reservations alone and moves each row of *)
(* the allocations as RowMoves says.                                       *)
(*                                                                         *)
(* The last theorem is about refusals: with times in whole seconds the     *)
(* texts that reserve compares are in the order of the times, so that a    *)
(* pilot that could take the task is a candidate.                          *)
(***************************************************************************)
EXTENDS PilotStore, FiniteSetTheorems, TLAPS

PilotInv ==
    /\ PilotTypeOK
    /\ CapacityHolds
    /\ PlacedOnLivePilot
    /\ OneReservationPerAttempt

\* What an operation other than reserve and release may do to a row.
RowMoves(old, new) ==
    /\ new \in PilotRow
    /\ new.reserved = old.reserved
    /\ old.state # "none" => new.profile = old.profile
    /\ new.state # "none" => new.profile \in Profiles
    /\ old.state \in BeatingStates /\ old.reserved # 0 =>
         new.state \in BeatingStates

\* The states of the pilots move forward or stay.
Forward ==
    \A q \in Pilots :
      pilot'[q].state # pilot[q].state =>
        Stage(pilot[q].state) < Stage(pilot'[q].state)

\* What such an operation does to the table.
TableMoves ==
    /\ pilot' \in [Pilots -> PilotRow]
    /\ \A q \in Pilots : RowMoves(pilot[q], pilot'[q])
    /\ Forward

-----------------------------------------------------------------------------
(* Counting reservations. *)

\* The reservations of a pilot are finite in number.
LEMMA ActiveOnFinite ==
    ASSUME NEW p
    PROVE  /\ IsFiniteSet(ActiveOn(p))
           /\ Cardinality(ActiveOn(p)) \in Nat
           /\ Cardinality(ActiveOn(p)) = 0 <=> ActiveOn(p) = {}
<1>1. ActiveOn(p) \in SUBSET Reservations
  BY DEF ActiveOn
<1>2. IsFiniteSet(ActiveOn(p))
  BY <1>1, FS_Subset, PilotAssumption DEF PilotAssumption
<1> QED
  BY <1>2, FS_CardinalityType, FS_EmptySet

\* The counter of a pilot tells whether tasks sit on it, and a row that does
\* not exist counts none.
LEMMA CounterTells ==
    ASSUME PilotInv, NEW p \in Pilots
    PROVE  /\ pilot[p].reserved \in Nat
           /\ pilot[p].reserved = 0 <=> ActiveOn(p) = {}
           /\ pilot[p].state \notin BeatingStates => pilot[p].reserved = 0
<1>1. pilot[p].reserved = Cardinality(ActiveOn(p))
  BY DEF PilotInv, CapacityHolds
<1>2. pilot[p].state \notin BeatingStates => ActiveOn(p) = {}
  BY DEF PilotInv, PlacedOnLivePilot, ActiveOn
<1> QED
  BY <1>1, <1>2, ActiveOnFinite

-----------------------------------------------------------------------------
(* The reconciled table. *)

\* Times of Recent are natural numbers that lie at most LockWait back.
LEMMA RecentTimes ==
    ASSUME PilotTypeOK, NEW now \in Recent
    PROVE  now \in Nat /\ now <= clock /\ clock <= now + LockWait
BY PilotAssumption DEF PilotAssumption, PilotTypeOK, Recent

\* _reconcile moves every row, and changes no column but the state.
LEMMA ReconciledRow ==
    ASSUME PilotTypeOK, NEW f \in Profiles, NEW now \in Nat, NEW p \in Pilots
    PROVE  LET row == Reconciled(f, now)[p]
               old == pilot[p]
           IN  /\ RowMoves(old, row)
               /\ row.profile = old.profile /\ row.expires = old.expires
               /\ row.state # old.state =>
                    /\ old.state \in BeatingStates
                    /\ row.state \in LeavingStates
                    /\ row.state = "draining" => old.state = "ready"
<1> DEFINE new == ReconciledState(pilot[p], f, now)
<1>1. pilot[p] \in PilotRow
  BY DEF PilotTypeOK
<1>2. pilot[p].state # "none" => pilot[p].profile \in Profiles
  BY DEF PilotTypeOK
<1>3. /\ new \in PilotStates
      /\ new # "none" \/ pilot[p].state = "none"
      /\ new # pilot[p].state =>
           /\ pilot[p].state \in BeatingStates
           /\ new \in LeavingStates
           /\ new = "draining" => pilot[p].state = "ready"
      /\ pilot[p].state \in BeatingStates /\ pilot[p].reserved # 0 =>
           new \in BeatingStates
  BY <1>1 DEF ReconciledState, BeatingStates, LeavingStates, PilotStates, PilotRow
<1>4. \/ Reconciled(f, now)[p] = pilot[p]
      \/ /\ pilot[p].state # "none"
         /\ Reconciled(f, now)[p] = [pilot[p] EXCEPT !.state = new]
  BY DEF Reconciled
<1>5. CASE Reconciled(f, now)[p] = pilot[p]
  BY <1>1, <1>2, <1>5 DEF RowMoves
<1>6. CASE /\ pilot[p].state # "none"
           /\ Reconciled(f, now)[p] = [pilot[p] EXCEPT !.state = new]
  <2> HIDE DEF new
  <2>1. [pilot[p] EXCEPT !.state = new] \in PilotRow
    BY <1>1, <1>3 DEF PilotRow
  <2>2. /\ [pilot[p] EXCEPT !.state = new].state = new
        /\ [pilot[p] EXCEPT !.state = new].profile = pilot[p].profile
        /\ [pilot[p] EXCEPT !.state = new].expires = pilot[p].expires
        /\ [pilot[p] EXCEPT !.state = new].reserved = pilot[p].reserved
    BY <1>1 DEF PilotRow
  <2> QED
    BY <1>2, <1>3, <1>6, <2>1, <2>2 DEF RowMoves
<1> QED
  BY <1>4, <1>5, <1>6

\* A candidate of reserve is a ready pilot of the profile with room, in the
\* stored table as well as in the reconciled one, and not about to expire.
LEMMA CandidateRow ==
    ASSUME PilotTypeOK, NEW f \in Profiles, NEW now \in Nat,
           NEW p \in Candidates(Reconciled(f, now), f, now)
    PROVE  /\ p \in Pilots
           /\ Reconciled(f, now)[p] = pilot[p]
           /\ pilot[p].state = "ready"
           /\ pilot[p].profile = f
           /\ pilot[p].reserved < Policy[f].capacity
           /\ now + Policy[f].margin < pilot[p].expires
<1>1. /\ p \in Pilots
      /\ Reconciled(f, now)[p].state = "ready"
      /\ Reconciled(f, now)[p].profile = f
      /\ HasRoom(Reconciled(f, now)[p])
  BY DEF Candidates
<1>2. pilot[p] \in PilotRow
  BY <1>1 DEF PilotTypeOK
<1>3. /\ pilot[p].profile = f
      /\ pilot[p].state = "ready"
  BY <1>1, ReconciledRow DEF LeavingStates
<1>4. Reconciled(f, now)[p]
        = [pilot[p] EXCEPT !.state = ReconciledState(pilot[p], f, now)]
  BY <1>1, <1>3 DEF Reconciled
<1>5. ReconciledState(pilot[p], f, now) = "ready"
  BY <1>1, <1>2, <1>4 DEF PilotRow
<1>6. Reconciled(f, now)[p] = pilot[p]
  BY <1>2, <1>3, <1>4, <1>5 DEF PilotRow
<1>7. ~Due(pilot[p], f, now)
  BY <1>3, <1>5 DEF ReconciledState, BeatingStates
<1>8. Policy[f].margin \in Nat /\ pilot[p].expires \in Nat
  BY <1>2, PilotAssumption DEF PilotAssumption, PolicyFields, PilotRow
<1>9. now + Policy[f].margin < pilot[p].expires
  BY <1>7, <1>8 DEF Due, Expiring
<1> QED
  BY <1>1, <1>3, <1>6, <1>9 DEF HasRoom

-----------------------------------------------------------------------------
(* Preservation of the invariant. *)

\* A step that leaves the reservations alone, moves the rows and puts no
\* dispatcher on a pilot preserves the invariant.
LEMMA QuietStep ==
    ASSUME PilotInv,
           UNCHANGED reservation,
           TableMoves,
           decision' \in [Attempts -> Answers],
           \A a \in Attempts : decision'[a] = "interactive-hpc-pilot" =>
                                decision[a] = "interactive-hpc-pilot",
           beating' \in [Pilots -> Nat \cup {NoBeat}],
           clock' \in Nat, crashes' \in Nat
    PROVE  PilotInv'
<1> USE DEF TableMoves
<1>1. /\ \A p \in Pilots : ActiveOn(p)' = ActiveOn(p)
      /\ \A a \in Attempts : ActiveOf(a)' = ActiveOf(a)
  BY DEF ActiveOn, ActiveOf
<1>2. PilotTypeOK'
  BY DEF PilotInv, PilotTypeOK, RowMoves
<1>3. CapacityHolds'
  <2> SUFFICES ASSUME NEW p \in Pilots
               PROVE  /\ pilot'[p].reserved = Cardinality(ActiveOn(p)')
                      /\ pilot'[p].state # "none" =>
                           pilot'[p].reserved <= Policy[pilot'[p].profile].capacity
    BY DEF CapacityHolds
  <2>1. pilot'[p].reserved = pilot[p].reserved
    BY DEF RowMoves
  <2>2. pilot'[p].reserved = Cardinality(ActiveOn(p)')
    BY <1>1, <2>1 DEF PilotInv, CapacityHolds
  <2>3. CASE pilot[p].state = "none"
    <3>1. pilot'[p].reserved = 0
      BY <2>1, <2>3, CounterTells DEF BeatingStates
    <3>2. pilot'[p].state # "none" => Policy[pilot'[p].profile].capacity \in Nat
      BY PilotAssumption DEF PilotAssumption, PolicyFields, RowMoves
    <3> QED
      BY <2>2, <3>1, <3>2
  <2>4. CASE pilot[p].state # "none"
    BY <2>1, <2>2, <2>4 DEF RowMoves, PilotInv, CapacityHolds
  <2> QED
    BY <2>3, <2>4
<1>4. PlacedOnLivePilot'
  <2> SUFFICES ASSUME NEW r \in Reservations, reservation[r].state = "active"
               PROVE  pilot'[reservation[r].pilot].state \in BeatingStates
    BY DEF PlacedOnLivePilot
  <2>1. reservation[r].pilot \in Pilots
    BY DEF PilotInv, PilotTypeOK
  <2>2. r \in ActiveOn(reservation[r].pilot)
    BY DEF ActiveOn
  <2>3. /\ pilot[reservation[r].pilot].state \in BeatingStates
        /\ pilot[reservation[r].pilot].reserved # 0
    BY <2>1, <2>2, CounterTells DEF PilotInv, PlacedOnLivePilot
  <2> QED
    BY <2>1, <2>3 DEF RowMoves
<1>5. OneReservationPerAttempt'
  BY <1>1 DEF PilotInv, OneReservationPerAttempt
<1> QED
  BY <1>2, <1>3, <1>4, <1>5 DEF PilotInv

\* Placing and ending a task change the counter and the time of activity.
LEMMA TakenRow ==
    ASSUME NEW row \in PilotRow, NEW now \in Nat
    PROVE  LET new == Taken(row, now)
           IN  /\ new \in PilotRow
               /\ new.reserved = row.reserved + 1
               /\ new.state = row.state /\ new.profile = row.profile
<1>1. /\ Taken(row, now).reserved = row.reserved + 1
      /\ Taken(row, now).state = row.state
      /\ Taken(row, now).profile = row.profile
  BY DEF Taken, PilotRow
<1>2. \A n \in Nat : [row EXCEPT !.reserved = n, !.activity = now] \in PilotRow
  BY DEF PilotRow
<1>3. row.reserved + 1 \in Nat
  BY DEF PilotRow
<1>4. Taken(row, now) \in PilotRow
  BY <1>2, <1>3 DEF Taken
<1> QED
  BY <1>1, <1>4

LEMMA GivenRow ==
    ASSUME NEW row \in PilotRow, NEW now \in Nat, row.reserved # 0
    PROVE  LET new == Given(row, now)
           IN  /\ new \in PilotRow
               /\ new.reserved = row.reserved - 1
               /\ new.state = row.state /\ new.profile = row.profile
<1>1. /\ Given(row, now).reserved = row.reserved - 1
      /\ Given(row, now).state = row.state
      /\ Given(row, now).profile = row.profile
  BY DEF Given, PilotRow
<1>2. \A n \in Nat : [row EXCEPT !.reserved = n, !.activity = now] \in PilotRow
  BY DEF PilotRow
<1>3. row.reserved - 1 \in Nat
  BY DEF PilotRow
<1>4. Given(row, now) \in PilotRow
  BY <1>2, <1>3 DEF Given
<1> QED
  BY <1>1, <1>4

\* reserve counts the reservation that it inserts.
LEMMA ReserveKeepsInv ==
    ASSUME PilotInv, NEW a \in Attempts, NEW f \in Profiles, Reserve(a, f)
    PROVE  PilotInv'
<1>1. PICK now \in Recent :
        LET rows == Reconciled(f, now)
            candidates == Candidates(rows, f, now)
        IN \E p \in candidates, r \in Reservations :
             /\ reservation[r].state = "none"
             /\ pilot' = [rows EXCEPT ![p] = Taken(@, now)]
             /\ reservation' = [reservation EXCEPT ![r] =
                                  [state |-> "active", pilot |-> p,
                                   attempt |-> a]]
  BY DEF Reserve
<1>2. now \in Nat
  BY RecentTimes DEF PilotInv
<1> DEFINE rows == Reconciled(f, now)
<1>3. PICK p \in Candidates(rows, f, now), r \in Reservations :
        /\ reservation[r].state = "none"
        /\ pilot' = [rows EXCEPT ![p] = Taken(@, now)]
        /\ reservation' = [reservation EXCEPT ![r] =
                             [state |-> "active", pilot |-> p, attempt |-> a]]
  BY <1>1
<1>4. /\ PilotTypeOK
      /\ decision' = [decision EXCEPT ![a] = "interactive-hpc-pilot"]
      /\ UNCHANGED <<beating, clock, crashes>>
      /\ ActiveOf(a) = {}
  BY DEF PilotInv, Reserve, MayReserve
<1>5. /\ p \in Pilots
      /\ rows[p] = pilot[p]
      /\ pilot[p].state = "ready"
      /\ pilot[p].profile = f
      /\ pilot[p].reserved < Policy[f].capacity
  BY <1>2, <1>4, CandidateRow
<1>6. \A q \in Pilots : RowMoves(pilot[q], rows[q])
  BY <1>2, <1>4, ReconciledRow
<1>7. rows = [q \in Pilots |-> rows[q]]
  BY DEF Reconciled
<1> HIDE DEF rows
<1>8. pilot[p] \in PilotRow
  BY <1>4, <1>5 DEF PilotTypeOK
<1>9. /\ pilot'[p] = Taken(pilot[p], now)
      /\ \A q \in Pilots \ {p} : pilot'[q] = rows[q]
      /\ pilot' = [q \in Pilots |-> pilot'[q]]
  BY <1>3, <1>5, <1>7
<1>10. /\ pilot'[p] \in PilotRow
       /\ pilot'[p].state = "ready" /\ pilot'[p].profile = f
       /\ pilot'[p].reserved = pilot[p].reserved + 1
  BY <1>2, <1>5, <1>8, <1>9, TakenRow
<1>11. reservation \in [Reservations -> ReservationRow]
  BY <1>4 DEF PilotTypeOK
<1>12. /\ reservation'[r] = [state |-> "active", pilot |-> p, attempt |-> a]
       /\ \A s \in Reservations \ {r} : reservation'[s] = reservation[s]
  BY <1>3, <1>11
<1>13. /\ ActiveOn(p)' = ActiveOn(p) \cup {r} /\ r \notin ActiveOn(p)
       /\ \A q \in Pilots \ {p} : ActiveOn(q)' = ActiveOn(q)
       /\ ActiveOf(a)' = {r}
       /\ \A b \in Attempts \ {a} : ActiveOf(b)' = ActiveOf(b)
  BY <1>3, <1>4, <1>5, <1>12 DEF ActiveOn, ActiveOf
<1>14. PilotTypeOK'
  <2>1. pilot' \in [Pilots -> PilotRow]
    <3>1. \A q \in Pilots : pilot'[q] \in PilotRow
      BY <1>6, <1>9, <1>10 DEF RowMoves
    <3> QED
      BY <1>9, <3>1
  <2>2. reservation' \in [Reservations -> ReservationRow]
    <3>1. [state |-> "active", pilot |-> p, attempt |-> a] \in ReservationRow
      BY <1>5 DEF ReservationRow
    <3> QED
      BY <1>3, <1>11, <3>1
  <2>3. decision' \in [Attempts -> Answers]
    BY <1>4 DEF PilotTypeOK, Answers
  <2>4. \A q \in Pilots : pilot'[q].state # "none" => pilot'[q].profile \in Profiles
    BY <1>6, <1>9, <1>10 DEF RowMoves
  <2>5. \A s \in Reservations :
          reservation'[s].state # "none" =>
            reservation'[s].pilot \in Pilots /\ reservation'[s].attempt \in Attempts
    <3>1. reservation'[r].pilot = p /\ reservation'[r].attempt = a
      BY <1>12
    <3> QED
      BY <1>4, <1>5, <1>12, <3>1 DEF PilotTypeOK
  <2> QED
    BY <1>4, <2>1, <2>2, <2>3, <2>4, <2>5 DEF PilotTypeOK
<1>15. CapacityHolds'
  <2> SUFFICES ASSUME NEW q \in Pilots
               PROVE  /\ pilot'[q].reserved = Cardinality(ActiveOn(q)')
                      /\ pilot'[q].state # "none" =>
                           pilot'[q].reserved <= Policy[pilot'[q].profile].capacity
    BY DEF CapacityHolds
  <2>1. CASE q = p
    <3>1. Cardinality(ActiveOn(p)') = Cardinality(ActiveOn(p)) + 1
      BY <1>13, ActiveOnFinite, FS_AddElement
    <3>2. pilot[p].reserved = Cardinality(ActiveOn(p))
      BY <1>5 DEF PilotInv, CapacityHolds
    <3>3. Policy[f].capacity \in Nat
      BY PilotAssumption DEF PilotAssumption, PolicyFields
    <3>4. pilot'[p].reserved <= Policy[f].capacity
      BY <1>5, <1>10, <3>2, <3>3, ActiveOnFinite
    <3> QED
      BY <1>10, <2>1, <3>1, <3>2, <3>4
  <2>2. CASE q # p
    <3>1. pilot'[q] = rows[q] /\ ActiveOn(q)' = ActiveOn(q)
      BY <1>9, <1>13, <2>2
    <3>2. RowMoves(pilot[q], rows[q])
      BY <1>6
    <3>3. pilot[q].reserved = Cardinality(ActiveOn(q))
      BY DEF PilotInv, CapacityHolds
    <3>4. CASE pilot[q].state = "none"
      <4>1. pilot[q].reserved = 0
        BY <3>4, CounterTells DEF BeatingStates
      <4>2. rows[q].state # "none" => Policy[rows[q].profile].capacity \in Nat
        BY <3>2, PilotAssumption DEF PilotAssumption, PolicyFields, RowMoves
      <4> QED
        BY <3>1, <3>2, <3>3, <4>1, <4>2 DEF RowMoves
    <3>5. CASE pilot[q].state # "none"
      BY <3>1, <3>2, <3>3, <3>5 DEF RowMoves, PilotInv, CapacityHolds
    <3> QED
      BY <3>4, <3>5
  <2> QED
    BY <2>1, <2>2
<1>16. PlacedOnLivePilot'
  <2> SUFFICES ASSUME NEW s \in Reservations, reservation'[s].state = "active"
               PROVE  pilot'[reservation'[s].pilot].state \in BeatingStates
    BY DEF PlacedOnLivePilot
  <2>1. CASE s = r \/ reservation'[s].pilot = p
    BY <1>10, <1>12, <2>1 DEF BeatingStates
  <2>2. CASE s # r /\ reservation'[s].pilot # p
    <3> DEFINE q == reservation[s].pilot
    <3>1. reservation'[s] = reservation[s] /\ q \in Pilots \ {p}
      BY <1>4, <1>12, <2>2 DEF PilotTypeOK
    <3>2. s \in ActiveOn(q)
      BY <3>1 DEF ActiveOn
    <3>3. pilot[q].state \in BeatingStates /\ pilot[q].reserved # 0
      BY <3>1, <3>2, CounterTells DEF PilotInv, PlacedOnLivePilot
    <3> QED
      BY <1>6, <1>9, <3>1, <3>3 DEF RowMoves
  <2> QED
    BY <2>1, <2>2
<1>17. OneReservationPerAttempt'
  <2>1. ASSUME NEW s \in Reservations, NEW t \in Reservations,
               reservation'[s].state = "active", reservation'[t].state = "active",
               reservation'[s].attempt = reservation'[t].attempt
        PROVE  s = t
    <3>1. CASE reservation'[s].attempt = a
      <4>1. s \in ActiveOf(a)' /\ t \in ActiveOf(a)'
        BY <2>1, <3>1 DEF ActiveOf
      <4> QED
        BY <1>13, <4>1
    <3>2. CASE reservation'[s].attempt # a
      BY <1>12, <2>1, <3>2 DEF PilotInv, OneReservationPerAttempt
    <3> QED
      BY <3>1, <3>2
  <2>2. \A b \in Attempts :
          decision'[b] = "interactive-hpc-pilot" => ActiveOf(b)' # {}
    BY <1>4, <1>13 DEF PilotInv, OneReservationPerAttempt, PilotTypeOK
  <2> QED
    BY <2>1, <2>2 DEF OneReservationPerAttempt
<1> QED
  BY <1>14, <1>15, <1>16, <1>17 DEF PilotInv

\* release gives back what it stops counting.
LEMMA ReleaseKeepsInv ==
    ASSUME PilotInv, NEW a \in Attempts, NEW r \in Reservations, Release(a, r)
    PROVE  PilotInv'
<1>1. /\ PilotTypeOK
      /\ reservation[r].state = "active" /\ reservation[r].attempt = a
      /\ reservation' = [reservation EXCEPT ![r].state = "released"]
      /\ decision' = [decision EXCEPT ![a] = "none"]
      /\ UNCHANGED <<beating, clock, crashes>>
  BY DEF PilotInv, Release, ReleasableStates
<1>0. PICK p \in Pilots : p = reservation[r].pilot
  BY <1>1 DEF PilotTypeOK
<1>2. PICK now \in Recent : pilot' = [pilot EXCEPT ![p] = Given(@, now)]
  BY <1>0 DEF Release
<1>3. now \in Nat
  BY <1>1, RecentTimes
<1>4. r \in ActiveOn(p)
  BY <1>1, <1>0 DEF ActiveOn
<1>5. /\ pilot[p] \in PilotRow
      /\ pilot[p].reserved \in Nat \ {0}
      /\ pilot[p].state \in BeatingStates
      /\ pilot[p].reserved = Cardinality(ActiveOn(p))
      /\ pilot[p].reserved <= Policy[pilot[p].profile].capacity
  BY <1>1, <1>4, CounterTells
     DEF PilotInv, PilotTypeOK, CapacityHolds, BeatingStates
<1>6. /\ pilot' \in [Pilots -> PilotRow]
      /\ pilot'[p].state = pilot[p].state
      /\ pilot'[p].profile = pilot[p].profile
      /\ pilot'[p].reserved = pilot[p].reserved - 1
      /\ \A q \in Pilots \ {p} : pilot'[q] = pilot[q]
  <2>1. pilot'[p] = Given(pilot[p], now)
    BY <1>1, <1>2, <1>4 DEF PilotTypeOK
  <2>2. Given(pilot[p], now) \in PilotRow
    BY <1>3, <1>5, GivenRow
  <2>3. pilot' \in [Pilots -> PilotRow]
    BY <1>1, <1>2, <2>2 DEF PilotTypeOK
  <2>4. \A q \in Pilots \ {p} : pilot'[q] = pilot[q]
    BY <1>1, <1>2 DEF PilotTypeOK
  <2> QED
    BY <1>3, <1>5, <2>1, <2>3, <2>4, GivenRow
<1>7. /\ reservation' \in [Reservations -> ReservationRow]
      /\ reservation'[r].state = "released"
      /\ \A s \in Reservations : /\ reservation'[s].pilot = reservation[s].pilot
                                /\ reservation'[s].attempt = reservation[s].attempt
      /\ \A s \in Reservations \ {r} : reservation'[s] = reservation[s]
  BY <1>1 DEF PilotTypeOK, ReservationRow
<1>8. /\ ActiveOn(p)' = ActiveOn(p) \ {r}
      /\ \A q \in Pilots \ {p} : ActiveOn(q)' = ActiveOn(q)
      /\ \A b \in Attempts \ {a} : ActiveOf(b)' = ActiveOf(b)
  <2>1. ActiveOn(p)' = ActiveOn(p) \ {r}
    BY <1>7 DEF ActiveOn
  <2>2. \A q \in Pilots \ {p} : ActiveOn(q)' = ActiveOn(q)
    BY <1>0, <1>7 DEF ActiveOn
  <2>3. \A b \in Attempts \ {a} : ActiveOf(b)' = ActiveOf(b)
    BY <1>1, <1>7 DEF ActiveOf
  <2> QED
    BY <2>1, <2>2, <2>3
<1>9. PilotTypeOK'
  <2>1. \A q \in Pilots : pilot'[q].state # "none" => pilot'[q].profile \in Profiles
    BY <1>1, <1>6 DEF PilotTypeOK
  <2>2. \A s \in Reservations :
          reservation'[s].state # "none" =>
            reservation'[s].pilot \in Pilots /\ reservation'[s].attempt \in Attempts
    BY <1>1, <1>7 DEF PilotTypeOK
  <2>3. decision' \in [Attempts -> Answers]
    BY <1>1 DEF PilotTypeOK, Answers
  <2> QED
    BY <1>1, <1>6, <1>7, <2>1, <2>2, <2>3 DEF PilotTypeOK
<1>10. CapacityHolds'
  <2> SUFFICES ASSUME NEW q \in Pilots
               PROVE  /\ pilot'[q].reserved = Cardinality(ActiveOn(q)')
                      /\ pilot'[q].state # "none" =>
                           pilot'[q].reserved <= Policy[pilot'[q].profile].capacity
    BY DEF CapacityHolds
  <2>1. CASE q = p
    <3>1. Cardinality(ActiveOn(p)') = Cardinality(ActiveOn(p)) - 1
      BY <1>4, <1>8, ActiveOnFinite, FS_RemoveElement
    <3>2. pilot[p].profile \in Profiles
      BY <1>1, <1>4, <1>5 DEF PilotTypeOK, BeatingStates
    <3>3. Policy[pilot[p].profile].capacity \in Nat
      BY <3>2, PilotAssumption DEF PilotAssumption, PolicyFields
    <3> QED
      BY <1>5, <1>6, <2>1, <3>1, <3>3
  <2>2. CASE q # p
    BY <1>6, <1>8, <2>2 DEF PilotInv, CapacityHolds
  <2> QED
    BY <2>1, <2>2
<1>11. PlacedOnLivePilot'
  BY <1>5, <1>6, <1>7, <1>1 DEF PilotInv, PlacedOnLivePilot, PilotTypeOK
<1>12. OneReservationPerAttempt'
  <2>1. \A s, t \in Reservations :
          /\ reservation'[s].state = "active" /\ reservation'[t].state = "active"
          /\ reservation'[s].attempt = reservation'[t].attempt
          => s = t
    BY <1>7 DEF PilotInv, OneReservationPerAttempt
  <2>2. \A b \in Attempts :
          decision'[b] = "interactive-hpc-pilot" => ActiveOf(b)' # {}
    BY <1>1, <1>8 DEF PilotInv, OneReservationPerAttempt, PilotTypeOK
  <2> QED
    BY <2>1, <2>2 DEF OneReservationPerAttempt
<1> QED
  BY <1>9, <1>10, <1>11, <1>12 DEF PilotInv

\* The operations on one pilot change its row only, and only forward.
LEMMA PilotStepMoves ==
    ASSUME PilotInv, NEW p \in Pilots, PilotStep(p)
    PROVE  /\ TableMoves
           /\ beating' \in [Pilots -> Nat \cup {NoBeat}]
           /\ UNCHANGED <<reservation, decision, clock, crashes>>
<1>1. /\ pilot \in [Pilots -> PilotRow]
      /\ beating \in [Pilots -> Nat \cup {NoBeat}]
      /\ \A q \in Pilots : pilot[q].state # "none" => pilot[q].profile \in Profiles
  BY DEF PilotInv, PilotTypeOK
<1>2. \A now \in Recent : now \in Nat
  BY RecentTimes DEF PilotInv
<1>3. ASSUME NEW row, row \in PilotRow, pilot' = [pilot EXCEPT ![p] = row],
             RowMoves(pilot[p], row),
             row.state # pilot[p].state => Stage(pilot[p].state) < Stage(row.state)
      PROVE  TableMoves
  <2>1. pilot'[p] = row /\ \A q \in Pilots \ {p} : pilot'[q] = pilot[q]
    BY <1>1, <1>3
  <2>2. \A q \in Pilots : RowMoves(pilot[q], pilot[q])
    BY <1>1 DEF RowMoves
  <2> QED
    BY <1>1, <1>3, <2>1, <2>2 DEF TableMoves, Forward
<1>4. pilot[p] \in PilotRow
  BY <1>1
<1>5. pilot[p].state \notin BeatingStates => pilot[p].reserved = 0
  BY CounterTells
<1>6. CASE \E f \in Profiles : RequestAllocation(p, f)
  <2>1. PICK f \in Profiles, now \in Recent :
          /\ RequestAllocation(p, f)
          /\ pilot' = [pilot EXCEPT ![p] =
                         [@ EXCEPT !.state = "requested", !.profile = f,
                                   !.expires = now + Policy[f].lifetime,
                                   !.activity = now]]
    BY <1>6 DEF RequestAllocation
  <2> DEFINE end == now + Policy[f].lifetime
             row == [pilot[p] EXCEPT !.state = "requested", !.profile = f,
                                     !.expires = end, !.activity = now]
  <2>2. now \in Nat /\ end \in Nat
    BY <1>2, PilotAssumption DEF PilotAssumption, PolicyFields
  <2> HIDE DEF end
  <2>3. row \in PilotRow
    BY <1>4, <2>2 DEF PilotRow, PilotStates
  <2>4. row.state = "requested" /\ row.profile = f
        /\ row.reserved = pilot[p].reserved
    BY <1>4 DEF PilotRow
  <2>5. pilot[p].state = "none"
    BY <2>1 DEF RequestAllocation
  <2>6. pilot' = [pilot EXCEPT ![p] = row]
    BY <1>1, <2>1 DEF end
  <2> HIDE DEF row
  <2>7. RowMoves(pilot[p], row) /\ Stage(pilot[p].state) < Stage(row.state)
    BY <2>3, <2>4, <2>5 DEF RowMoves, BeatingStates, Stage
  <2> QED
    BY <1>1, <1>3, <2>1, <2>3, <2>6, <2>7 DEF RequestAllocation
<1>7. CASE AssignSchedulerHandle(p)
  <2> DEFINE row == [pilot[p] EXCEPT !.state = "starting"]
  <2>1. row \in PilotRow
    BY <1>4 DEF PilotRow, PilotStates
  <2>2. /\ row.state = "starting" /\ row.profile = pilot[p].profile
        /\ row.reserved = pilot[p].reserved
    BY <1>4 DEF PilotRow
  <2>3. pilot' = [pilot EXCEPT ![p] = row]
    BY <1>1, <1>7 DEF AssignSchedulerHandle
  <2> HIDE DEF row
  <2>4. /\ RowMoves(pilot[p], row)
        /\ row.state # pilot[p].state => Stage(pilot[p].state) < Stage(row.state)
    BY <1>1, <1>7, <2>1, <2>2
       DEF AssignSchedulerHandle, RowMoves, BeatingStates, Stage
  <2> QED
    BY <1>1, <1>3, <1>7, <2>1, <2>3, <2>4 DEF AssignSchedulerHandle
<1>8. CASE MarkReady(p)
  <2>1. PICK now \in Recent :
          pilot' = [pilot EXCEPT ![p] =
                     [@ EXCEPT !.state = "ready", !.readyAt = now,
                               !.heartbeat = now, !.activity = now]]
    BY <1>8 DEF MarkReady
  <2> DEFINE row == [pilot[p] EXCEPT !.state = "ready", !.readyAt = now,
                                     !.heartbeat = now, !.activity = now]
  <2>2. row \in PilotRow
    BY <1>2, <1>4 DEF PilotRow, PilotStates
  <2>3. /\ row.state = "ready" /\ row.profile = pilot[p].profile
        /\ row.reserved = pilot[p].reserved
    BY <1>4 DEF PilotRow
  <2>4. pilot' = [pilot EXCEPT ![p] = row]
    BY <1>1, <2>1
  <2> HIDE DEF row
  <2>5. RowMoves(pilot[p], row) /\ Stage(pilot[p].state) < Stage(row.state)
    BY <1>1, <1>8, <2>2, <2>3 DEF MarkReady, RowMoves, BeatingStates, Stage
  <2> QED
    BY <1>1, <1>3, <1>8, <2>2, <2>4, <2>5 DEF MarkReady
<1>9. CASE CheckHeartbeat(p)
  <2>1. \A q \in Pilots : RowMoves(pilot[q], pilot[q])
    BY <1>1 DEF RowMoves
  <2> QED
    BY <1>1, <1>2, <1>9, <2>1 DEF CheckHeartbeat, TableMoves, Forward
<1>10. CASE WriteHeartbeat(p)
  <2> DEFINE row == Heard(pilot[p], beating[p])
  <2>1. beating[p] \in Nat
    BY <1>1, <1>10 DEF WriteHeartbeat
  <2>2. row \in PilotRow
    BY <1>4, <2>1 DEF Heard, PilotRow
  <2>3. /\ row.state = pilot[p].state /\ row.profile = pilot[p].profile
        /\ row.reserved = pilot[p].reserved
    BY <1>4 DEF Heard, PilotRow
  <2>4. pilot' = [pilot EXCEPT ![p] = row]
    BY <1>1, <1>10 DEF WriteHeartbeat
  <2> HIDE DEF row
  <2>5. RowMoves(pilot[p], row)
    BY <1>1, <2>2, <2>3 DEF RowMoves
  <2> QED
    BY <1>1, <1>3, <1>10, <2>2, <2>3, <2>4, <2>5 DEF WriteHeartbeat
<1>11. CASE Drain(p)
  <2> DEFINE row == [pilot[p] EXCEPT !.state = "draining"]
  <2>1. row \in PilotRow
    BY <1>4 DEF PilotRow, PilotStates
  <2>2. /\ row.state = "draining" /\ row.profile = pilot[p].profile
        /\ row.reserved = pilot[p].reserved
    BY <1>4 DEF PilotRow
  <2>3. pilot' = [pilot EXCEPT ![p] = row]
    BY <1>1, <1>11 DEF Drain
  <2> HIDE DEF row
  <2>4. pilot[p].state \in {"requested", "starting", "ready"}
    BY <1>4, <1>11 DEF Drain, LeavingStates, PilotRow, PilotStates
  <2>5. RowMoves(pilot[p], row) /\ Stage(pilot[p].state) < Stage(row.state)
    BY <1>1, <2>1, <2>2, <2>4 DEF RowMoves, BeatingStates, Stage
  <2> QED
    BY <1>1, <1>3, <1>11, <2>1, <2>3, <2>5 DEF Drain
<1>12. CASE MarkTerminated(p)
  <2> DEFINE row == [pilot[p] EXCEPT !.state = "terminated"]
  <2>1. row \in PilotRow
    BY <1>4 DEF PilotRow, PilotStates
  <2>2. /\ row.state = "terminated" /\ row.profile = pilot[p].profile
        /\ row.reserved = pilot[p].reserved
    BY <1>4 DEF PilotRow
  <2>3. pilot' = [pilot EXCEPT ![p] = row]
    BY <1>1, <1>12 DEF MarkTerminated
  <2> HIDE DEF row
  <2>4. RowMoves(pilot[p], row)
    BY <1>1, <1>12, <2>1, <2>2 DEF MarkTerminated, RowMoves
  <2>5. row.state # pilot[p].state => Stage(pilot[p].state) < Stage(row.state)
    BY <1>4, <2>2 DEF PilotRow, PilotStates, Stage
  <2> QED
    BY <1>1, <1>3, <1>12, <2>1, <2>3, <2>4, <2>5 DEF MarkTerminated
<1> QED
  BY <1>6, <1>7, <1>8, <1>9, <1>10, <1>11, <1>12 DEF PilotStep

\* The reconciled table, and the one that a fallback leaves behind.
LEMMA ReconciledTable ==
    ASSUME PilotInv, NEW f \in Profiles, NEW now \in Recent,
           pilot' = Reconciled(f, now) \/ pilot' = pilot
    PROVE  TableMoves
<1>1. PilotTypeOK /\ now \in Nat
  BY RecentTimes DEF PilotInv
<1>2. CASE pilot' = Reconciled(f, now)
  <2>1. pilot' = [q \in Pilots |-> pilot'[q]]
    BY <1>2 DEF Reconciled
  <2>2. ASSUME NEW q \in Pilots
        PROVE  /\ RowMoves(pilot[q], pilot'[q])
               /\ pilot'[q].state # pilot[q].state =>
                    Stage(pilot[q].state) < Stage(pilot'[q].state)
    <3>1. /\ RowMoves(pilot[q], pilot'[q])
          /\ pilot'[q].state # pilot[q].state =>
               /\ pilot[q].state \in BeatingStates
               /\ pilot'[q].state \in LeavingStates
               /\ pilot'[q].state = "draining" => pilot[q].state = "ready"
      BY <1>1, <1>2, ReconciledRow
    <3> QED
      BY <3>1 DEF BeatingStates, LeavingStates, Stage
  <2>3. \A q \in Pilots : pilot'[q] \in PilotRow
    BY <2>2 DEF RowMoves
  <2> QED
    BY <2>1, <2>2, <2>3 DEF TableMoves, Forward
<1>3. CASE pilot' = pilot
  BY <1>1, <1>3 DEF PilotTypeOK, RowMoves, TableMoves, Forward
<1> QED
  BY <1>2, <1>3

\* reserve and release move every row forward or leave its state.
LEMMA PlacementStages ==
    ASSUME PilotInv, NEW a \in Attempts,
           \/ \E f \in Profiles : Reserve(a, f)
           \/ \E r \in Reservations : Release(a, r)
    PROVE  Forward
<1>1. CASE \E f \in Profiles : Reserve(a, f)
  <2>1. PICK f \in Profiles, now \in Recent :
          \E p \in Candidates(Reconciled(f, now), f, now) :
            pilot' = [Reconciled(f, now) EXCEPT ![p] = Taken(@, now)]
    BY <1>1 DEF Reserve
  <2>2. PICK p \in Candidates(Reconciled(f, now), f, now) :
          pilot' = [Reconciled(f, now) EXCEPT ![p] = Taken(@, now)]
    BY <2>1
  <2>3. PilotTypeOK /\ now \in Nat
    BY RecentTimes DEF PilotInv
  <2>4. p \in Pilots /\ Reconciled(f, now)[p] = pilot[p]
    BY <2>3, CandidateRow
  <2>5. pilot'[p].state = pilot[p].state
    <3>1. pilot'[p] = Taken(pilot[p], now)
      BY <2>2, <2>4 DEF Reconciled
    <3>2. pilot[p] \in PilotRow
      BY <2>3, <2>4 DEF PilotTypeOK
    <3> QED
      BY <2>3, <3>1, <3>2, TakenRow
  <2>6. \A q \in Pilots \ {p} : pilot'[q] = Reconciled(f, now)[q]
    BY <2>2 DEF Reconciled
  <2>7. ASSUME NEW q \in Pilots \ {p}, pilot'[q].state # pilot[q].state
        PROVE  Stage(pilot[q].state) < Stage(pilot'[q].state)
    <3>1. /\ pilot[q].state \in BeatingStates
          /\ pilot'[q].state \in LeavingStates
          /\ pilot'[q].state = "draining" => pilot[q].state = "ready"
      BY <2>3, <2>6, <2>7, ReconciledRow
    <3> QED
      BY <3>1 DEF BeatingStates, LeavingStates, Stage
  <2> QED
    BY <2>5, <2>7 DEF Forward
<1>2. CASE \E r \in Reservations : Release(a, r)
  <2>1. PICK r \in Reservations : Release(a, r)
    BY <1>2
  <2>2. PICK now \in Recent :
          pilot' = [pilot EXCEPT ![reservation[r].pilot] = Given(@, now)]
    BY <2>1 DEF Release
  <2>3. \A q \in Pilots : pilot[q] \in PilotRow
    BY DEF PilotInv, PilotTypeOK
  <2>4. \A q \in Pilots : pilot'[q] = pilot[q] \/ pilot'[q] = Given(pilot[q], now)
    BY <2>2 DEF PilotInv, PilotTypeOK
  <2>5. \A q \in Pilots : Given(pilot[q], now).state = pilot[q].state
    BY <2>3 DEF Given, PilotRow
  <2> QED
    BY <2>4, <2>5 DEF Forward
<1> QED
  BY <1>1, <1>2

\* Every step preserves the invariant and moves every pilot forward.
LEMMA StepKeepsInv ==
    ASSUME PilotInv, [Next]_vars
    PROVE  PilotInv' /\ Forward
<1> USE DEF Answers
<1>1. /\ PilotTypeOK
      /\ pilot \in [Pilots -> PilotRow]
      /\ decision \in [Attempts -> Answers]
      /\ beating \in [Pilots -> Nat \cup {NoBeat}]
      /\ clock \in Nat /\ crashes \in Nat
      /\ UNCHANGED pilot => TableMoves
  BY DEF PilotInv, PilotTypeOK, RowMoves, TableMoves, Forward
<1>2. CASE \E p \in Pilots : PilotStep(p)
  <2>1. PICK p \in Pilots : PilotStep(p)
    BY <1>2
  <2>2. /\ TableMoves
        /\ beating' \in [Pilots -> Nat \cup {NoBeat}]
        /\ UNCHANGED reservation /\ UNCHANGED decision
        /\ UNCHANGED clock /\ UNCHANGED crashes
    BY <2>1, PilotStepMoves
  <2>3. PilotInv'
    BY <1>1, <2>2, QuietStep
  <2> QED
    BY <2>2, <2>3 DEF TableMoves
<1>3. CASE \E f \in Profiles : Reconcile(f)
  <2>1. PICK f \in Profiles, now \in Recent :
          /\ pilot' = Reconciled(f, now)
          /\ UNCHANGED <<reservation, decision, beating, clock, crashes>>
    BY <1>3 DEF Reconcile
  <2>2. TableMoves
    BY <2>1, ReconciledTable
  <2>3. PilotInv'
    BY <1>1, <2>1, <2>2, QuietStep
  <2> QED
    BY <2>2, <2>3 DEF TableMoves
<1>4. CASE Tick
  <2>1. clock' \in Nat /\ UNCHANGED <<pilot, reservation, decision, beating, crashes>>
    BY <1>1, <1>4 DEF Tick
  <2> QED
    BY <1>1, <2>1, QuietStep DEF TableMoves
<1>5. CASE UNCHANGED vars
  <2>1. UNCHANGED <<pilot, reservation, decision, beating, clock, crashes>>
    BY <1>5 DEF vars
  <2> QED
    BY <1>1, <2>1, QuietStep DEF TableMoves
<1>6. ASSUME NEW a \in Attempts, DispatchStep(a)
      PROVE  PilotInv' /\ Forward
  <2>1. ASSUME NEW f \in Profiles, NEW required \in BOOLEAN,
               RefuseIneligible(a, f, required)
        PROVE  PilotInv' /\ Forward
    <3>1. /\ decision' = [decision EXCEPT ![a] = FallbackAnswer(f, required)]
          /\ UNCHANGED <<pilot, reservation, beating, clock, crashes>>
      BY <2>1 DEF RefuseIneligible
    <3>2. FallbackAnswer(f, required) \in {"unavailable", "batch-hpc"}
      BY DEF FallbackAnswer
    <3>3. /\ decision' \in [Attempts -> Answers]
          /\ \A b \in Attempts : decision'[b] = "interactive-hpc-pilot" =>
                                  decision[b] = "interactive-hpc-pilot"
      BY <1>1, <3>1, <3>2
    <3> QED
      BY <1>1, <3>1, <3>3, QuietStep DEF TableMoves
  <2>2. ASSUME NEW f \in Profiles, NEW required \in BOOLEAN,
               FallBack(a, f, required)
        PROVE  PilotInv' /\ Forward
    <3>1. PICK now \in Recent :
            /\ pilot' = Reconciled(f, now) \/ pilot' = pilot
            /\ decision' = [decision EXCEPT ![a] = FallbackAnswer(f, required)]
      BY <2>2 DEF FallBack
    <3>2. UNCHANGED <<reservation, beating, clock, crashes>>
      BY <2>2 DEF FallBack
    <3>3. FallbackAnswer(f, required) \in {"unavailable", "batch-hpc"}
      BY DEF FallbackAnswer
    <3>4. /\ decision' \in [Attempts -> Answers]
          /\ \A b \in Attempts : decision'[b] = "interactive-hpc-pilot" =>
                                  decision[b] = "interactive-hpc-pilot"
      BY <1>1, <3>1, <3>3
    <3>5. TableMoves
      BY <3>1, ReconciledTable
    <3>6. PilotInv'
      BY <1>1, <3>2, <3>4, <3>5, QuietStep
    <3> QED
      BY <3>5, <3>6 DEF TableMoves
  <2>3. CASE \E f \in Profiles : Reserve(a, f)
    BY <2>3, ReserveKeepsInv, PlacementStages
  <2>4. CASE \E r \in Reservations : Release(a, r)
    BY <2>4, ReleaseKeepsInv, PlacementStages
  <2>5. CASE Crash(a)
    <3>1. /\ decision' \in [Attempts -> Answers]
          /\ \A b \in Attempts : decision'[b] = "interactive-hpc-pilot" =>
                                  decision[b] = "interactive-hpc-pilot"
          /\ crashes' \in Nat
          /\ UNCHANGED <<pilot, reservation, beating, clock>>
      BY <1>1, <2>5 DEF Crash
    <3> QED
      BY <1>1, <3>1, QuietStep DEF TableMoves
  <2> QED
    BY <1>6, <2>1, <2>2, <2>3, <2>4, <2>5 DEF DispatchStep
<1> QED
  BY <1>2, <1>3, <1>4, <1>5, <1>6 DEF Next

-----------------------------------------------------------------------------
(* The theorems. *)

\* The empty store satisfies the invariant.
LEMMA InitHolds ==
    ASSUME Init
    PROVE  PilotInv
<1>1. PilotTypeOK
  BY DEF Init, PilotTypeOK, PilotRow, ReservationRow, PilotStates, Answers
<1>2. \A p \in Pilots : ActiveOn(p) = {}
  BY DEF Init, ActiveOn
<1>3. CapacityHolds
  BY <1>2, ActiveOnFinite DEF Init, CapacityHolds
<1>4. PlacedOnLivePilot /\ OneReservationPerAttempt
  BY DEF Init, PlacedOnLivePilot, OneReservationPerAttempt
<1> QED
  BY <1>1, <1>3, <1>4 DEF PilotInv

\* The store is always in a state of PilotInv, however its clients, the
\* clock and the crashes of dispatchers interleave.
THEOREM PilotInvariance == Spec => []PilotInv
<1>1. Init => PilotInv
  BY InitHolds
<1>2. PilotInv /\ [Next]_vars => PilotInv'
  BY StepKeepsInv
<1> QED
  BY <1>1, <1>2, PTL DEF Spec

\* The tables are well typed.
THEOREM PilotTypeCorrect == Spec => []PilotTypeOK
<1>1. PilotInv => PilotTypeOK
  BY DEF PilotInv
<1> QED
  BY <1>1, PilotInvariance, PTL

\* The counter of a pilot is the number of its active reservations and stays
\* within its capacity (reserve, release).
THEOREM CapacityIsKept == Spec => []CapacityHolds
<1>1. PilotInv => CapacityHolds
  BY DEF PilotInv
<1> QED
  BY <1>1, PilotInvariance, PTL

\* No pilot ends under a task (drain, _reconcile, mark_terminated).
THEOREM TasksStayPlaced == Spec => []PlacedOnLivePilot
<1>1. PilotInv => PlacedOnLivePilot
  BY DEF PilotInv
<1> QED
  BY <1>1, PilotInvariance, PTL

\* No attempt holds two reservations, and one that runs on a pilot holds one
\* (pilot_active_attempt_index).
THEOREM AttemptReservesOnce == Spec => []OneReservationPerAttempt
<1>1. PilotInv => OneReservationPerAttempt
  BY DEF PilotInv
<1> QED
  BY <1>1, PilotInvariance, PTL

\* No operation takes a pilot back to an earlier state.
THEOREM PilotsMoveForward == Spec => LifecycleForward
<1>1. PilotInv /\ [Next]_vars =>
        [\A p \in Pilots :
           pilot'[p].state # pilot[p].state =>
             Stage(pilot[p].state) < Stage(pilot'[p].state)]_vars
  BY StepKeepsInv DEF Forward
<1> QED
  BY <1>1, PilotInvariance, PTL DEF Spec, LifecycleForward

\* If no wait for the database is longer than the margin of a profile,
\* reserve places no task on an allocation that has expired.
THEOREM PlacedInTime ==
    ASSUME \A f \in Profiles : LockWait <= Policy[f].margin
    PROVE  Spec => NeverPlacedLate
<1>1. ASSUME PilotInv, Next, NEW r \in Reservations,
             reservation[r].state = "none", reservation'[r].state = "active"
      PROVE  clock < pilot[reservation'[r].pilot].expires
  <2>1. \E a \in Attempts, f \in Profiles : Reserve(a, f)
    <3>1. reservation' # reservation
      BY <1>1
    <3>2. \A a \in Attempts, s \in Reservations : ~Release(a, s)
      <4>1. ASSUME NEW a \in Attempts, NEW s \in Reservations, Release(a, s)
            PROVE  FALSE
        <5>1. /\ reservation[s].state = "active"
              /\ reservation' = [reservation EXCEPT ![s].state = "released"]
          BY <4>1 DEF Release, ReleasableStates
        <5>2. reservation \in [Reservations -> ReservationRow]
          BY <1>1 DEF PilotInv, PilotTypeOK
        <5>3. r # s
          BY <1>1, <5>1
        <5> QED
          BY <1>1, <5>1, <5>2, <5>3
      <4> QED
        BY <4>1
    <3> QED
      BY <1>1, <3>1, <3>2
         DEF Next, PilotStep, DispatchStep, RequestAllocation,
             AssignSchedulerHandle, MarkReady, CheckHeartbeat, WriteHeartbeat,
             Drain, MarkTerminated, RefuseIneligible, FallBack, Crash,
             Reconcile, Tick
  <2>2. PICK a \in Attempts, f \in Profiles : Reserve(a, f)
    BY <2>1
  <2>3. PICK now \in Recent :
          \E p \in Candidates(Reconciled(f, now), f, now), s \in Reservations :
            reservation' = [reservation EXCEPT ![s] =
                              [state |-> "active", pilot |-> p, attempt |-> a]]
    BY <2>2 DEF Reserve
  <2>4. PICK p \in Candidates(Reconciled(f, now), f, now), s \in Reservations :
          reservation' = [reservation EXCEPT ![s] =
                            [state |-> "active", pilot |-> p, attempt |-> a]]
    BY <2>3
  <2>5. PilotTypeOK /\ now \in Nat /\ clock <= now + LockWait
    BY <1>1, RecentTimes DEF PilotInv
  <2>6. reservation'[r].pilot = p
    <3>1. r = s
      BY <1>1, <2>4, <2>5 DEF PilotTypeOK
    <3> QED
      BY <2>4, <2>5, <3>1 DEF PilotTypeOK
  <2>7. p \in Pilots /\ now + Policy[f].margin < pilot[p].expires
    BY <2>5, CandidateRow
  <2>8. /\ clock \in Nat /\ LockWait \in Nat
        /\ Policy[f].margin \in Nat /\ pilot[p].expires \in Nat
    BY <2>5, <2>7, PilotAssumption
       DEF PilotTypeOK, PilotRow, PilotAssumption, PolicyFields
  <2> QED
    BY <2>5, <2>6, <2>7, <2>8
<1>2. PilotInv /\ [Next]_vars =>
        [\A r \in Reservations :
           reservation[r].state = "none" /\ reservation'[r].state = "active" =>
             clock < pilot[reservation'[r].pilot].expires]_vars
  BY <1>1
<1> QED
  BY <1>2, PilotInvariance, PTL DEF Spec, NeverPlacedLate

-----------------------------------------------------------------------------
(* With times of whole seconds, refusals are justified. *)

\* The order of texts is then that of the times.
LEMMA TextOrder ==
    ASSUME TicksPerSecond = 1, NEW t \in Nat
    PROVE  TextRank(t) = t + 1
<1>1. t % TicksPerSecond = 0
  OBVIOUS
<1> QED
  BY <1>1 DEF TextRank

\* A suitable pilot is a candidate.
LEMMA SuitableIsCandidate ==
    ASSUME PilotTypeOK, TicksPerSecond = 1, NEW f \in Profiles, NEW now \in Nat,
           NEW p \in Pilots, Suitable(p, f, now)
    PROVE  p \in Candidates(Reconciled(f, now), f, now)
<1> DEFINE row == Reconciled(f, now)[p]
<1>1. /\ pilot[p] \in PilotRow
      /\ Policy[f].margin \in Nat /\ Policy[f].health \in Nat
  BY PilotAssumption DEF PilotTypeOK, PilotAssumption, PolicyFields
<1>2. row = pilot[p]
  <2>1. ReconciledState(pilot[p], f, now) = pilot[p].state
    BY DEF Suitable, ReconciledState
  <2>2. [pilot[p] EXCEPT !.state = pilot[p].state] = pilot[p]
    BY <1>1 DEF PilotRow
  <2> QED
    BY <2>1, <2>2 DEF Reconciled
<1>3. /\ pilot[p].expires > now + Policy[f].margin
      /\ Policy[f].health <= now => pilot[p].heartbeat >= now - Policy[f].health
  BY <1>1 DEF Suitable, Due, Unhealthy, Expiring, PilotRow
<1>4. /\ pilot[p].expires \in Nat /\ pilot[p].heartbeat \in Nat
      /\ now + Policy[f].margin \in Nat
      /\ Policy[f].health <= now => now - Policy[f].health \in Nat
  BY <1>1 DEF PilotRow
<1>5. TextRank(pilot[p].expires) > TextRank(now + Policy[f].margin)
  BY <1>3, <1>4, TextOrder
<1>6. Policy[f].health <= now =>
        TextRank(pilot[p].heartbeat) >= TextRank(now - Policy[f].health)
  BY <1>3, <1>4, TextOrder
<1>7. HasRoom(pilot[p]) /\ pilot[p].state = "ready" /\ pilot[p].profile = f
  BY DEF Suitable, HasRoom
<1> HIDE DEF row
<1> QED
  BY <1>2, <1>5, <1>6, <1>7 DEF Candidates, row

\* reserve turns an eligible task away only if no pilot of the profile was
\* suitable at the time it read, though _reconcile compares times by value
\* and the query of reserve by text: they agree when no time has a fraction.
THEOREM RefusalsAreJustified ==
    ASSUME TicksPerSecond = 1
    PROVE  Spec => FallbackIsJustified
<1> DEFINE Turned(a) == /\ decision'[a] # decision[a]
                        /\ decision'[a] \in {"batch-hpc", "unavailable"}
           Justified(a) == \E f \in Profiles, now \in Recent :
                             \/ a \notin Eligible[f]
                             \/ \A p \in Pilots : ~Suitable(p, f, now)
<1>1. ASSUME PilotTypeOK, Next, NEW a \in Attempts, Turned(a)
      PROVE  Justified(a)
  <2>1. decision \in [Attempts -> Answers] /\ clock \in Nat
    BY <1>1 DEF PilotTypeOK
  <2>2. clock \in Recent
    BY <2>1, PilotAssumption DEF Recent, PilotAssumption
  <2>3. CASE \E f \in Profiles, required \in BOOLEAN : RefuseIneligible(a, f, required)
    BY <2>2, <2>3 DEF RefuseIneligible
  <2>4. CASE \E f \in Profiles, required \in BOOLEAN : FallBack(a, f, required)
    <3>1. PICK f \in Profiles, now \in Recent : Candidates(Reconciled(f, now), f, now) = {}
      BY <2>4 DEF FallBack
    <3>2. \A p \in Pilots : ~Suitable(p, f, now)
      BY <1>1, <3>1, RecentTimes, SuitableIsCandidate
    <3> QED
      BY <3>2
  <2>5. CASE UNCHANGED decision
    BY <1>1, <2>5
  <2>6. ASSUME NEW b \in Attempts, DispatchStep(b)
        PROVE  \/ decision'[a] = decision[a]
               \/ decision'[a] \in {"interactive-hpc-pilot", "none"}
               \/ \E f \in Profiles, required \in BOOLEAN :
                    RefuseIneligible(a, f, required) \/ FallBack(a, f, required)
    BY <2>1, <2>6 DEF DispatchStep, RefuseIneligible, FallBack, Reserve, Release, Crash
  <2>7. ASSUME NEW p \in Pilots, PilotStep(p) PROVE UNCHANGED decision
    BY <2>7 DEF PilotStep, RequestAllocation, AssignSchedulerHandle, MarkReady,
                CheckHeartbeat, WriteHeartbeat, Drain, MarkTerminated
  <2>8. CASE (\E f \in Profiles : Reconcile(f)) \/ Tick
    BY <2>5, <2>8 DEF Reconcile, Tick
  <2> QED
    BY <1>1, <2>3, <2>4, <2>5, <2>6, <2>7, <2>8 DEF Next
<1>2. PilotTypeOK /\ [Next]_vars
        => [\A a \in Attempts :
              decision'[a] # decision[a] /\ decision'[a] \in {"batch-hpc", "unavailable"}
              => \E f \in Profiles, now \in Recent :
                   \/ a \notin Eligible[f]
                   \/ \A p \in Pilots : ~Suitable(p, f, now)]_vars
  BY <1>1
<1> QED
  BY <1>2, PilotTypeCorrect, PTL DEF Spec, FallbackIsJustified
=============================================================================
