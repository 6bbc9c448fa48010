----------------------------- MODULE PilotStore -----------------------------
(***************************************************************************)
(* The warm-pilot store of src/qhpc_ecosystem/pilot.py: allocations of     *)
(* warm capacity, the reservations that attempts hold on them, and the     *)
(* dispatchers, operators and pilot agents that call it.                   *)
(*                                                                         *)
(* An operation is one BEGIN IMMEDIATE transaction, so one action, with    *)
(* two exceptions that are modelled.  An operation reads the clock before  *)
(* its transaction starts and may then wait for the database: it works     *)
(* with any time of Recent.  heartbeat has no BEGIN: the state it checks   *)
(* may be gone when it writes.  An operation that raises is rolled back:   *)
(* it is not enabled, unless its caller's state changes.                   *)
(*                                                                         *)
(* Abstractions.                                                           *)
(*  - A profile is a document: the id, version, digest and execution       *)
(*    target of a row come from the profile it was requested with.         *)
(*  - A scheduler handle is assigned exactly when a pilot is "starting".   *)
(*  - Times are ticks of 1/TicksPerSecond seconds; the SQL NULL of a time  *)
(*    that is set on the way to "ready" is 0, since it is not read before. *)
(*  - pilot_events is a log that nothing reads back.                       *)
(*                                                                         *)
(* An operator whose comment starts with "Variant" is a version of the one *)
(* after it with a bug that its properties must notice; Next uses none.    *)
(***************************************************************************)
EXTENDS Naturals, FiniteSets

CONSTANTS
    Pilots,         \* pilot ids
    Reservations,   \* reservation ids
    Attempts,       \* attempt ids of the dispatched tasks
    Profiles,       \* pilot profile documents
    Policy,         \* Policy[f]: the fields of profile f that are read here
    Eligible,       \* Eligible[f]: the attempts whose target, operation,
                    \* runtime and resources profile f admits
    NoPilot, NoProfile, NoAttempt, NoBeat,   \* outside the sets they extend
    TicksPerSecond, \* resolution of the clock
    LockWait,       \* longest wait for the database, in ticks
    MaxClock,       \* bound: the clock stops here
    MaxCrashes      \* bound: crashes of dispatchers

\* Durations are those of spec.allocation; margin is
\* drain_before_expiry_seconds and reject the fallback "reject".
PolicyFields == [id : STRING, active : BOOLEAN, reject : BOOLEAN,
                 capacity : Nat, lifetime : Nat, idle : Nat,
                 margin : Nat, health : Nat]

\* Ids are finite in number, profiles have natural durations, a second has
\* at least one tick, and each null is outside the set it extends.
ASSUME PilotAssumption ==
    /\ IsFiniteSet(Reservations)
    /\ Policy \in [Profiles -> PolicyFields]
    /\ Eligible \in [Profiles -> SUBSET Attempts]
    /\ TicksPerSecond \in Nat \ {0}
    /\ LockWait \in Nat /\ MaxClock \in Nat /\ MaxCrashes \in Nat
    /\ NoPilot \notin Pilots /\ NoProfile \notin Profiles
    /\ NoAttempt \notin Attempts /\ NoBeat \notin Nat

VARIABLES
    pilot,          \* table pilot_allocations
    reservation,    \* table pilot_reservations
    decision,       \* decision[a]: the answer the dispatcher of a acts on
    beating,        \* beating[p]: time of a heartbeat checked, not written
    clock,          \* the clock that all processes read
    crashes         \* crashes of dispatchers so far

vars == <<pilot, reservation, decision, beating, clock, crashes>>

\* In the order in which a pilot passes through them.
Stage(state) ==
    CASE state = "none" -> 0
      [] state = "requested" -> 1
      [] state = "starting" -> 2
      [] state = "ready" -> 3
      [] state = "draining" -> 4
      [] state = "termination-requested" -> 5
      [] state = "terminated" -> 6

PilotStates == {"none", "requested", "starting", "ready", "draining",
                "termination-requested", "terminated"}
LeavingStates == {"draining", "termination-requested", "terminated"}
BeatingStates == {"ready", "draining"}
Answers == {"none", "interactive-hpc-pilot", "batch-hpc", "unavailable"}

PilotRow == [state : PilotStates, profile : Profiles \cup {NoProfile},
             reserved : Nat, readyAt : Nat, expires : Nat,
             heartbeat : Nat, activity : Nat]
ReservationRow == [state : {"none", "active", "released"},
                   pilot : Pilots \cup {NoPilot},
                   attempt : Attempts \cup {NoAttempt}]

Init ==
    /\ pilot = [p \in Pilots |->
                  [state |-> "none", profile |-> NoProfile, reserved |-> 0,
                   readyAt |-> 0, expires |-> 0, heartbeat |-> 0,
                   activity |-> 0]]
    /\ reservation = [r \in Reservations |->
                        [state |-> "none", pilot |-> NoPilot,
                         attempt |-> NoAttempt]]
    /\ decision = [a \in Attempts |-> "none"]
    /\ beating = [p \in Pilots |-> NoBeat]
    /\ clock = 0
    /\ crashes = 0

\* Times that an operation which runs now may have read from the clock.
Recent == {t \in 0 .. clock : clock <= t + LockWait}

\* Order of times as SQL compares their text: isoformat leaves out a zero
\* fraction, and "Z" sorts after ".", so a whole second comes last of all
\* the times of that second.
TextRank(t) ==
    LET fraction == t % TicksPerSecond IN
    t - fraction + (IF fraction = 0 THEN TicksPerSecond ELSE fraction)

ActiveOn(p) == {r \in Reservations : reservation[r].state = "active"
                                     /\ reservation[r].pilot = p}
ActiveOf(a) == {r \in Reservations : reservation[r].state = "active"
                                     /\ reservation[r].attempt = a}

-----------------------------------------------------------------------------
(* The way of a pilot to "ready", by operators and the pilot's agent. *)

\* request_allocation: only an active profile; the lifetime starts here.
RequestAllocation(p, f) ==
    /\ pilot[p].state = "none"
    /\ Policy[f].active
    /\ clock + Policy[f].lifetime <= MaxClock
    /\ \E now \in Recent :
         pilot' = [pilot EXCEPT ![p] =
                     [@ EXCEPT !.state = "requested", !.profile = f,
                               !.expires = now + Policy[f].lifetime,
                               !.activity = now]]
    /\ UNCHANGED <<reservation, decision, beating, clock, crashes>>

\* assign_scheduler_handle: again from "starting" it replaces the handle.
AssignSchedulerHandle(p) ==
    /\ pilot[p].state \in {"requested", "starting"}
    /\ pilot' = [pilot EXCEPT ![p].state = "starting"]
    /\ UNCHANGED <<reservation, decision, beating, clock, crashes>>

\* mark_ready
MarkReady(p) ==
    /\ pilot[p].state = "starting"
    /\ \E now \in Recent :
         pilot' = [pilot EXCEPT ![p] =
                     [@ EXCEPT !.state = "ready", !.readyAt = now,
                               !.heartbeat = now, !.activity = now]]
    /\ UNCHANGED <<reservation, decision, beating, clock, crashes>>

\* heartbeat, up to its check of the state (bound: one at a time per pilot).
CheckHeartbeat(p) ==
    /\ beating[p] = NoBeat
    /\ pilot[p].state \in BeatingStates
    /\ \E now \in Recent : beating' = [beating EXCEPT ![p] = now]
    /\ UNCHANGED <<pilot, reservation, decision, clock, crashes>>

\* Variant: a pilot that is heard of is ready.
HeardOf(row, now) == [row EXCEPT !.heartbeat = now, !.state = "ready"]

Heard(row, now) == [row EXCEPT !.heartbeat = now]

\* heartbeat, its UPDATE: whatever the state is by now.
WriteHeartbeat(p) ==
    /\ beating[p] # NoBeat
    /\ pilot' = [pilot EXCEPT ![p] = Heard(@, beating[p])]
    /\ beating' = [beating EXCEPT ![p] = NoBeat]
    /\ UNCHANGED <<reservation, decision, clock, crashes>>

-----------------------------------------------------------------------------
(* Draining and termination. *)

\* drain: a pilot that is not on its way out yet.
Drain(p) ==
    /\ pilot[p].state \notin LeavingStates \cup {"none"}
    /\ pilot' = [pilot EXCEPT ![p].state = "draining"]
    /\ UNCHANGED <<reservation, decision, beating, clock, crashes>>

\* Three reasons for which _reconcile drains a ready pilot under profile f.
Unhealthy(row, f, now) == now > row.heartbeat + Policy[f].health

\* Variant: a pilot may take tasks until it expires.
ExpiringAtExpiry(row, f, now) == row.expires <= now

Expiring(row, f, now) == row.expires <= now + Policy[f].margin

Idle(row, f, now) == row.reserved = 0 /\ now >= row.activity + Policy[f].idle
Due(row, f, now) ==
    Unhealthy(row, f, now) \/ Expiring(row, f, now) \/ Idle(row, f, now)

\* Variant: a draining pilot is terminated under its tasks.
TerminatedWhenDue(row, f, now) ==
    IF row.state = "draining" THEN "termination-requested"
    ELSE IF row.state = "ready" /\ Due(row, f, now) THEN "draining"
    ELSE row.state

\* Variant: only the pass that drains a pilot looks whether it is empty.
TerminatedAtOnce(row, f, now) ==
    IF row.state # "ready" \/ ~Due(row, f, now) THEN row.state
    ELSE IF row.reserved = 0 THEN "termination-requested"
    ELSE "draining"

\* _reconcile for one pilot: drained when due, and terminated when empty.
ReconciledState(row, f, now) ==
    IF \/ row.state \notin BeatingStates
       \/ row.state = "ready" /\ ~Due(row, f, now)
    THEN row.state
    ELSE IF row.reserved = 0 THEN "termination-requested"
    ELSE "draining"

\* _reconcile: every pilot of the profile's id, whatever its version, by the
\* durations of the profile at hand.
Reconciled(f, now) ==
    [p \in Pilots |->
       IF pilot[p].state # "none" /\ Policy[pilot[p].profile].id = Policy[f].id
       THEN [pilot[p] EXCEPT !.state = ReconciledState(pilot[p], f, now)]
       ELSE pilot[p]]

\* reconcile: with any valid profile, active or not.
Reconcile(f) ==
    /\ \E now \in Recent : pilot' = Reconciled(f, now)
    /\ UNCHANGED <<reservation, decision, beating, clock, crashes>>

\* mark_terminated: from any state, but not under a reservation.
MarkTerminated(p) ==
    /\ pilot[p].state # "none"
    /\ pilot[p].reserved = 0
    /\ pilot' = [pilot EXCEPT ![p].state = "terminated"]
    /\ UNCHANGED <<reservation, decision, beating, clock, crashes>>

-----------------------------------------------------------------------------
(* Dispatch. *)

\* A dispatcher asks for an attempt that it has not placed.
Asks(a, f) ==
    /\ decision[a] \in {"none", "unavailable"}
    /\ Policy[f].active

\* Variant: the fallback of the profile is the execution class.
FallbackOfProfile(f, required) ==
    IF required THEN "unavailable"
    ELSE IF Policy[f].reject THEN "reject" ELSE "batch-hpc"

\* _fallback: its answer; "unavailable" is the exception PilotUnavailable.
FallbackAnswer(f, required) ==
    IF required \/ Policy[f].reject THEN "unavailable" ELSE "batch-hpc"

\* Variant: the last unit of capacity is not given away.
HasSpareRoom(row) == row.reserved + 1 < Policy[row.profile].capacity

HasRoom(row) == row.reserved < Policy[row.profile].capacity

\* The pilots that the query of reserve finds in the reconciled table.
Candidates(rows, f, now) ==
    {p \in Pilots :
       /\ rows[p].state = "ready"
       /\ rows[p].profile = f
       /\ HasRoom(rows[p])
       /\ TextRank(rows[p].expires) > TextRank(now + Policy[f].margin)
       /\ Policy[f].health <= now =>
            TextRank(rows[p].heartbeat) >= TextRank(now - Policy[f].health)}

\* reserve for a task that the profile does not admit.
RefuseIneligible(a, f, required) ==
    /\ Asks(a, f)
    /\ a \notin Eligible[f]
    /\ decision' = [decision EXCEPT ![a] = FallbackAnswer(f, required)]
    /\ UNCHANGED <<pilot, reservation, beating, clock, crashes>>

\* reserve without a candidate: batch keeps what was reconciled, and the
\* exception rolls it back.
FallBack(a, f, required) ==
    /\ Asks(a, f)
    /\ a \in Eligible[f]
    /\ \E now \in Recent :
         LET rows == Reconciled(f, now)
             answer == FallbackAnswer(f, required)
         IN /\ Candidates(rows, f, now) = {}
            /\ decision' = [decision EXCEPT ![a] = answer]
            /\ pilot' = IF answer = "batch-hpc" THEN rows ELSE pilot
    /\ UNCHANGED <<reservation, beating, clock, crashes>>

\* Variant: the index pilot_active_attempt_index is missing.
MayReserveAgain(a) == TRUE

\* pilot_active_attempt_index: the INSERT fails for an attempt with an
\* active reservation, which rolls reserve back.
MayReserve(a) == ActiveOf(a) = {}

\* The row of a pilot when one more task is placed on it, and one less.
Taken(row, now) == [row EXCEPT !.reserved = @ + 1, !.activity = now]
Given(row, now) ==
    [row EXCEPT !.reserved = IF @ = 0 THEN 0 ELSE @ - 1, !.activity = now]

\* reserve: the candidate that was ready first.
Reserve(a, f) ==
    /\ Asks(a, f)
    /\ a \in Eligible[f]
    /\ MayReserve(a)
    /\ \E now \in Recent :
         LET rows == Reconciled(f, now)
             candidates == Candidates(rows, f, now)
         IN \E p \in candidates, r \in Reservations :
              /\ \A q \in candidates :
                   TextRank(rows[p].readyAt) <= TextRank(rows[q].readyAt)
              /\ reservation[r].state = "none"
              /\ pilot' = [rows EXCEPT ![p] = Taken(@, now)]
              /\ reservation' = [reservation EXCEPT ![r] =
                                   [state |-> "active", pilot |-> p,
                                    attempt |-> a]]
    /\ decision' = [decision EXCEPT ![a] = "interactive-hpc-pilot"]
    /\ UNCHANGED <<beating, clock, crashes>>

\* Variant: a release that is repeated counts again.
ReleasableTwice == {"active", "released"}

\* A released reservation is left as it is.
ReleasableStates == {"active"}

\* release, by the dispatcher that holds the reservation, once the task has
\* ended; release of a reservation of an earlier try does nothing.
Release(a, r) ==
    /\ decision[a] = "interactive-hpc-pilot"
    /\ reservation[r].attempt = a
    /\ reservation[r].state \in ReleasableStates
    /\ \E now \in Recent :
         pilot' = [pilot EXCEPT ![reservation[r].pilot] = Given(@, now)]
    /\ reservation' = [reservation EXCEPT ![r].state = "released"]
    /\ decision' = [decision EXCEPT ![a] =
                      IF reservation[r].state = "active" THEN "none" ELSE @]
    /\ UNCHANGED <<beating, clock, crashes>>

\* The dispatcher of an attempt dies and forgets the PilotDecision.
Crash(a) ==
    /\ crashes < MaxCrashes
    /\ decision[a] = "interactive-hpc-pilot"
    /\ decision' = [decision EXCEPT ![a] = "none"]
    /\ crashes' = crashes + 1
    /\ UNCHANGED <<pilot, reservation, beating, clock>>

\* The clock of the host.
Tick ==
    /\ clock < MaxClock
    /\ clock' = clock + 1
    /\ UNCHANGED <<pilot, reservation, decision, beating, crashes>>

-----------------------------------------------------------------------------
PilotStep(p) ==
    \/ \E f \in Profiles : RequestAllocation(p, f)
    \/ AssignSchedulerHandle(p)
    \/ MarkReady(p)
    \/ CheckHeartbeat(p)
    \/ WriteHeartbeat(p)
    \/ Drain(p)
    \/ MarkTerminated(p)

DispatchStep(a) ==
    \/ \E f \in Profiles, required \in BOOLEAN :
         RefuseIneligible(a, f, required) \/ FallBack(a, f, required)
    \/ \E f \in Profiles : Reserve(a, f)
    \/ \E r \in Reservations : Release(a, r)
    \/ Crash(a)

Next ==
    \/ \E p \in Pilots : PilotStep(p)
    \/ \E a \in Attempts : DispatchStep(a)
    \/ \E f \in Profiles : Reconcile(f)
    \/ Tick

Spec == Init /\ [][Next]_vars

\* Time passes, somebody runs `pilot reconcile` again and again for every
\* profile, and a dispatcher that lives releases what it has reserved.
\* Nobody has to request, heartbeat, drain or reserve anything.
Fairness ==
    /\ WF_vars(Tick)
    /\ \A f \in Profiles : WF_vars(Reconcile(f))
    /\ \A a \in Attempts : WF_vars(\E r \in Reservations : Release(a, r))

FairSpec == Spec /\ Fairness

-----------------------------------------------------------------------------
(* Properties. *)

\* The tables are well typed; a row that exists has a profile, and a
\* reservation that exists names a pilot and an attempt.
PilotTypeOK ==
    /\ pilot \in [Pilots -> PilotRow]
    /\ reservation \in [Reservations -> ReservationRow]
    /\ decision \in [Attempts -> Answers]
    /\ beating \in [Pilots -> Nat \cup {NoBeat}]
    /\ clock \in Nat /\ crashes \in Nat
    /\ \A p \in Pilots : pilot[p].state # "none" => pilot[p].profile \in Profiles
    /\ \A r \in Reservations :
         reservation[r].state # "none" =>
           /\ reservation[r].pilot \in Pilots
           /\ reservation[r].attempt \in Attempts

\* The counter `reserved`, which reserve and release keep beside the rows of
\* pilot_reservations, is the number of active reservations of the pilot,
\* and never more than the capacity it was requested with.
CapacityHolds ==
    \A p \in Pilots :
      /\ pilot[p].reserved = Cardinality(ActiveOn(p))
      /\ pilot[p].state # "none" =>
           pilot[p].reserved <= Policy[pilot[p].profile].capacity

\* A task never sits on a pilot whose termination was requested: neither
\* drain, _reconcile nor mark_terminated ends a pilot under an active
\* reservation, and reserve takes none on a pilot that is on its way out.
PlacedOnLivePilot ==
    \A r \in Reservations :
      reservation[r].state = "active" =>
        pilot[reservation[r].pilot].state \in BeatingStates

\* An attempt has at most one active reservation, whatever its dispatchers
\* forgot, and the dispatcher that was told "interactive-hpc-pilot" by
\* reserve holds one until it releases it.
OneReservationPerAttempt ==
    /\ \A r, s \in Reservations :
         /\ reservation[r].state = "active" /\ reservation[s].state = "active"
         /\ reservation[r].attempt = reservation[s].attempt
         => r = s
    /\ \A a \in Attempts :
         decision[a] = "interactive-hpc-pilot" => ActiveOf(a) # {}

\* A pilot never goes back in its life: no late heartbeat, reconciliation or
\* second submission revives one that drains or has ended.
LifecycleForward ==
    [][\A p \in Pilots :
         pilot'[p].state # pilot[p].state =>
           Stage(pilot[p].state) < Stage(pilot'[p].state)]_vars

\* reserve never places a task on an allocation that has expired by the time
\* of the placement, although it read the clock before it waited for the
\* database.
NeverPlacedLate ==
    [][\A r \in Reservations :
         reservation[r].state = "none" /\ reservation'[r].state = "active" =>
           clock < pilot[reservation'[r].pilot].expires]_vars

\* A ready pilot of profile f that policy lets take one more task.
Suitable(p, f, now) ==
    /\ pilot[p].state = "ready"
    /\ pilot[p].profile = f
    /\ pilot[p].reserved < Policy[f].capacity
    /\ ~Due(pilot[p], f, now)

\* reserve turns an eligible task away only if no pilot was suitable at the
\* time it read.
FallbackIsJustified ==
    [][\A a \in Attempts :
         decision'[a] # decision[a] /\ decision'[a] \in {"batch-hpc", "unavailable"}
         => \E f \in Profiles, now \in Recent :
              \/ a \notin Eligible[f]
              \/ \A p \in Pilots : ~Suitable(p, f, now)]_vars

\* Every ready pilot is drained and its termination requested in the end, by
\* the reconciliation after its tasks are released.
PilotsRetire ==
    \A p \in Pilots :
      pilot[p].state = "ready" ~>
        pilot[p].state \in {"termination-requested", "terminated"}
=============================================================================
