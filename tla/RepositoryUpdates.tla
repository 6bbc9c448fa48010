------------------------- MODULE RepositoryUpdates -------------------------
(***************************************************************************)
(* Repository updates: the service that compares the pinned revision of    *)
(* each component with its tracked remote ref and prepares a checkout of a *)
(* candidate (src/qhpc_ecosystem/repository_updates.py), and the pages of  *)
(* the workbench that drive it (src/qhpc_ecosystem/workbench/app.js).      *)
(*                                                                         *)
(* The service holds its lock only while it reads or writes its state:     *)
(* remotes are queried and checkouts prepared outside of it, in one thread *)
(* for each request.  An action is a step of such a thread, a callback of  *)
(* a page, or a step of the world around them.                             *)
(*                                                                         *)
(* Abstractions.                                                           *)
(*  - The commits of a tracked ref are numbered in the order of their push.*)
(*  - URLs and tracked refs are fixed by the deployment's configuration.   *)
(*  - The button that refreshes the workbench loads five other resources   *)
(*    before it renders the page; here it renders at once.                 *)
(*                                                                         *)
(* An operator whose comment starts with "Variant" is a version of the one *)
(* after it with a bug that its properties must notice; Next uses none.    *)
(***************************************************************************)
EXTENDS Naturals, FiniteSets

CONSTANTS
    Components,     \* the admitted targets
    Pages,          \* pages of the workbench, in any number of browsers
    NoComponent, NoCheck, NoCandidate, NoCall, NoData,
    MaxRevision,    \* bound: commits of a tracked ref
    MaxFailures,    \* bound: messages lost, git commands failed, restarts
    MaxRequests     \* bound: what users ask for, of all pages

ASSUME UpdatesAssumption ==
    /\ NoComponent \notin Components
    /\ MaxRevision \in Nat \ {0} /\ MaxFailures \in Nat /\ MaxRequests \in Nat

Revisions == 1 .. MaxRevision
None == 0           \* the null of latest_revision and staged_revision
Found == Revisions \cup {None}

VARIABLES
    remote,         \* remote[c]: the commit of the tracked ref
    pin,            \* pin[c]: current_revision of the running service
    checks,         \* the state file: results of checks,
    staged,         \* and prepared candidates
    checkout,       \* checkout[c][r]: the commit in the directory of r
    call,           \* the requests of the pages
    page,           \* state.repositoryUpdates and the view of each page
    failures,       \* failures so far
    requests        \* requests of users so far

vars == <<remote, pin, checks, staged, checkout, call, page, failures, requests>>
store == <<checks, staged, checkout>>
world == <<remote, pin>>

Checks == [base : Revisions, latest : Found]
Candidates == [base : Revisions, candidate : Revisions]
Statuses == {"prepared", "error", "up-to-date", "update-available", "not-checked"}
Items == [current : Revisions, latest : Found, status : Statuses, staged : Found]
Listings == [Components -> Items]

\* A page has at most one load, and one check, stage or discard.
Slots == Pages \X {"load", "work"}

\* found[c] is what the query of c's remote has answered; asked is where
\* the ref was when the request was sent (read by StagedIsFresh only).
Calls ==
    [op : {"list", "check", "stage", "discard"},
     of : Components \cup {NoComponent}, candidate : Found, asked : Found,
     found : UNION {[S -> Found] : S \in SUBSET Components},
     at : {"sent", "fetching", "fetched", "prepared", "answered", "failed"},
     answer : Listings \cup {NoData}]

PageStates ==
    [shown : BOOLEAN, data : Listings \cup {NoData}, loading : BOOLEAN,
     checking : BOOLEAN, staging : Components \cup {NoComponent}]

\* Each null is outside the set it extends.
ASSUME UpdatesNullAssumption ==
    /\ NoCheck \notin Checks /\ NoCandidate \notin Candidates
    /\ NoCall \notin Calls /\ NoData \notin Listings

NothingFound == [c \in {} |-> None]

Request(op, c, candidate) ==
    [op |-> op, of |-> c, candidate |-> candidate,
     asked |-> IF c = NoComponent THEN None ELSE remote[c],
     found |-> NothingFound, at |-> "sent", answer |-> NoData]

\* A service starts with what earlier ones have left: the results of a
\* check, and the checkouts that were prepared and released.
Init ==
    /\ remote \in [Components -> {1, 2} \cap Revisions]
    /\ pin = [c \in Components |-> 1]
    /\ \E known \in SUBSET Components :
         checks = [c \in Components |->
                     IF c \in known THEN [base |-> 1, latest |-> remote[c]]
                     ELSE NoCheck]
    /\ staged = [c \in Components |-> NoCandidate]
    /\ checkout \in {[c \in Components |->
                        [r \in Revisions |-> IF r \in cached[c] THEN r ELSE None]] :
                      cached \in [Components -> SUBSET Revisions]}
    /\ \A c \in Components, r \in Revisions :
         checkout[c][r] # None => pin[c] < r /\ r <= remote[c]
    /\ call = [x \in Slots |-> NoCall]
    /\ page = [p \in Pages |->
                 [shown |-> FALSE, data |-> NoData, loading |-> FALSE,
                  checking |-> FALSE, staging |-> NoComponent]]
    /\ failures = 0 /\ requests = 0

At(x, op, s) == call[x] # NoCall /\ call[x].op = op /\ call[x].at = s

Fail == failures < MaxFailures /\ failures' = failures + 1

-----------------------------------------------------------------------------
(* The service. *)

\* _item: results for another pinned revision are not reported.
Item(c, k, s) ==
    LET check == IF k # NoCheck /\ k.base = pin[c] THEN k.latest ELSE None
        failed == k # NoCheck /\ k.base = pin[c] /\ k.latest = None
        ready == s # NoCandidate /\ s.base = pin[c]
    IN [current |-> pin[c], latest |-> check,
        status |-> IF ready THEN "prepared" ELSE IF failed THEN "error"
                   ELSE IF check = None THEN "not-checked"
                   ELSE IF check = pin[c] THEN "up-to-date"
                   ELSE "update-available",
        staged |-> IF ready THEN s.candidate ELSE None]

Listing(k, s) == [c \in Components |-> Item(c, k[c], s[c])]

To(x, s) == call' = [call EXCEPT ![x].at = s]

\* The answers of stage and discard are not read; those of the others are.
Answer(x, data) ==
    call' = [call EXCEPT ![x].at = "answered", ![x].answer = data,
                         ![x].found = NothingFound]

\* list
List(x) ==
    /\ At(x, "list", "sent")
    /\ Answer(x, Listing(checks, staged))
    /\ UNCHANGED <<world, store, page, failures, requests>>

\* _check_target: git ls-remote for one target.
Query(x) ==
    /\ At(x, "check", "sent") \/ At(x, "stage", "sent")
    /\ \E c \in Components \ DOMAIN call[x].found :
         /\ call[x].op = "stage" => c = call[x].of
         /\ \E r \in {remote[c], None} :
              /\ IF r = None THEN Fail ELSE UNCHANGED failures
              /\ call' = [call EXCEPT ![x].found =
                            [d \in DOMAIN @ \cup {c} |-> IF d = c THEN r ELSE @[d]]]
    /\ UNCHANGED <<world, store, page, requests>>

\* check: the results are written when every query has ended.
WriteChecks(x) ==
    /\ At(x, "check", "sent")
    /\ DOMAIN call[x].found = Components
    /\ checks' = [c \in Components |->
                    [base |-> pin[c], latest |-> call[x].found[c]]]
    /\ Answer(x, Listing(checks', staged))
    /\ UNCHANGED <<world, staged, checkout, page, failures, requests>>

Queried(x) == At(x, "stage", "sent") /\ call[x].of \in DOMAIN call[x].found
Latest(x) == call[x].found[call[x].of]

\* Variant: the candidate is not compared with the remote ref.
ChooseUncompared(x) ==
    /\ Queried(x)
    /\ LET c == call[x].of  r == call[x].candidate IN
       To(x, IF Latest(x) = None \/ r = pin[c] THEN "failed"
             ELSE IF checkout[c][r] = None THEN "fetching"
             ELSE IF checkout[c][r] = r THEN "prepared" ELSE "failed")
    /\ UNCHANGED <<world, store, page, failures, requests>>

\* stage: the candidate must be the tracked revision and not the pinned
\* one.  _prepare_checkout: a directory that exists is verified and reused.
Choose(x) ==
    /\ Queried(x)
    /\ LET c == call[x].of  r == call[x].candidate IN
       To(x, IF Latest(x) = None \/ r # Latest(x) \/ r = pin[c] THEN "failed"
             ELSE IF checkout[c][r] = None THEN "fetching"
             ELSE IF checkout[c][r] = r THEN "prepared" ELSE "failed")
    /\ UNCHANGED <<world, store, page, failures, requests>>

\* Variant: whatever the ref has become is checked out.
FetchAny(x) ==
    /\ At(x, "stage", "fetching")
    /\ call' = [call EXCEPT ![x].found = [c \in {call[x].of} |-> remote[c]],
                            ![x].at = "fetched"]
    /\ UNCHANGED <<world, store, page, failures, requests>>

\* _prepare_checkout: fetches the tracked ref, which must still be at the
\* candidate.
Fetch(x) ==
    /\ At(x, "stage", "fetching")
    /\ \/ To(x, IF remote[call[x].of] = call[x].candidate THEN "fetched" ELSE "failed")
          /\ UNCHANGED failures
       \/ To(x, "failed") /\ Fail
    /\ UNCHANGED <<world, store, page, requests>>

\* _prepare_checkout: os.replace fails on a directory that is not empty.
Place(x) ==
    /\ At(x, "stage", "fetched")
    /\ LET c == call[x].of  r == call[x].candidate IN
       IF checkout[c][r] = None
       THEN To(x, "prepared") /\ checkout' = [checkout EXCEPT ![c][r] = Latest(x)]
       ELSE To(x, "failed") /\ UNCHANGED checkout
    /\ UNCHANGED <<world, checks, staged, page, failures, requests>>

\* stage: writes what it has found and prepared.
WriteStaged(x) ==
    /\ At(x, "stage", "prepared")
    /\ LET c == call[x].of IN
       /\ checks' = [checks EXCEPT ![c] = [base |-> pin[c], latest |-> Latest(x)]]
       /\ staged' = [staged EXCEPT ![c] =
                       [base |-> pin[c], candidate |-> call[x].candidate]]
    /\ Answer(x, NoData)
    /\ UNCHANGED <<world, checkout, page, failures, requests>>

\* discard: the checkout stays.
Discard(x) ==
    /\ At(x, "discard", "sent")
    /\ staged' = [staged EXCEPT ![call[x].of] = NoCandidate]
    /\ Answer(x, NoData)
    /\ UNCHANGED <<world, checks, checkout, page, failures, requests>>

Serve(x) ==
    \/ List(x) \/ Query(x) \/ WriteChecks(x) \/ Choose(x)
    \/ Fetch(x) \/ Place(x) \/ WriteStaged(x) \/ Discard(x)

-----------------------------------------------------------------------------
(* The world: pushes, upgrades, restarts and lost messages. *)

Push(c) ==
    /\ remote[c] < MaxRevision
    /\ remote' = [remote EXCEPT ![c] = @ + 1]
    /\ UNCHANGED <<pin, store, call, page, failures, requests>>

\* What a process that ends leaves of the requests it was serving.
Dropped == [x \in Slots |->
              IF call[x] = NoCall \/ call[x].at = "answered" THEN call[x]
              ELSE [call[x] EXCEPT !.at = "failed"]]

\* The deployment pins the prepared candidate and restarts the service.
Upgrade(c) ==
    /\ staged[c] # NoCandidate /\ staged[c].candidate > pin[c]
    /\ pin' = [pin EXCEPT ![c] = staged[c].candidate]
    /\ call' = Dropped
    /\ UNCHANGED <<remote, store, page, failures, requests>>

Restart ==
    /\ Fail
    /\ call' = Dropped
    /\ UNCHANGED <<world, store, page, requests>>

Lose(x) ==
    /\ Fail
    /\ call[x] # NoCall /\ call[x].at \in {"sent", "answered"}
    /\ call[x].found = NothingFound
    /\ To(x, "failed")
    /\ UNCHANGED <<world, store, page, requests>>

-----------------------------------------------------------------------------
(* The pages. *)

\* renderRepositoryUpdates: a page without data loads it.
Renders(u) == u.shown /\ u.data = NoData /\ ~u.loading
Rendered(u) == [u EXCEPT !.loading = @ \/ Renders(u)]

\* The page p becomes u and is rendered; its work becomes w.
Become(p, u, w) ==
    /\ page' = [page EXCEPT ![p] = Rendered(u)]
    /\ call' = [call EXCEPT ![<<p, "work">>] = w,
                            ![<<p, "load">>] =
                               IF Renders(u) THEN Request("list", NoComponent, None)
                               ELSE @]
    /\ UNCHANGED <<world, store, failures>>

Work(p) == call[<<p, "work">>]
Ask == requests < MaxRequests /\ requests' = requests + 1

\* switchView, and the button that refreshes the workbench.
OpenView(p) ==
    /\ ~page[p].shown
    /\ UNCHANGED requests
    /\ Become(p, [page[p] EXCEPT !.shown = TRUE], Work(p))

LeaveView(p) ==
    /\ page[p].shown
    /\ Ask
    /\ Become(p, [page[p] EXCEPT !.shown = FALSE], Work(p))

Refresh(p) ==
    /\ page[p].shown
    /\ Ask
    /\ Become(p, [page[p] EXCEPT !.data = NoData], Work(p))

\* loadRepositoryUpdates after its await.
Loaded(p) ==
    LET x == <<p, "load">> IN
    /\ At(x, "list", "answered")
    /\ page' = [page EXCEPT ![p].data = call[x].answer, ![p].loading = FALSE]
    /\ call' = [call EXCEPT ![x] = NoCall]
    /\ UNCHANGED <<world, store, failures, requests>>

\* A page that is shown without data loads again at once.
LoadFailed(p) ==
    LET x == <<p, "load">>
        u == [page[p] EXCEPT !.loading = FALSE]
    IN
    /\ At(x, "list", "failed")
    /\ page' = [page EXCEPT ![p] = Rendered(u)]
    /\ call' = [call EXCEPT ![x] =
                  IF Renders(u) THEN Request("list", NoComponent, None) ELSE NoCall]
    /\ UNCHANGED <<world, store, failures, requests>>

\* The buttons of the table are enabled while no work is in flight.
Ready(p) ==
    /\ page[p].shown /\ page[p].data # NoData
    /\ ~page[p].checking /\ page[p].staging = NoComponent

\* checkRepositoryUpdates
Check(p) ==
    /\ Ready(p)
    /\ Ask
    /\ Become(p, [page[p] EXCEPT !.checking = TRUE],
              Request("check", NoComponent, None))

\* stageRepositoryUpdate: the revision that the page shows.
Stage(p) ==
    /\ Ready(p)
    /\ Ask
    /\ \E c \in Components :
         /\ page[p].data[c].status = "update-available"
         /\ Become(p, [page[p] EXCEPT !.staging = c],
                   Request("stage", c, page[p].data[c].latest))

\* discardRepositoryUpdate
Release(p) ==
    /\ Ready(p)
    /\ Ask
    /\ \E c \in Components :
         /\ page[p].data[c].status = "prepared"
         /\ Become(p, [page[p] EXCEPT !.staging = c], Request("discard", c, None))

\* The functions above after their awaits: a stage and a discard list the
\* updates before they end.
WorkAnswered(p) ==
    LET x == <<p, "work">> IN
    /\ call[x] # NoCall /\ call[x].at = "answered"
    /\ UNCHANGED requests
    /\ IF call[x].op \in {"stage", "discard"}
       THEN Become(p, page[p], Request("list", NoComponent, None))
       ELSE Become(p, [page[p] EXCEPT !.data = call[x].answer, !.checking = FALSE,
                                      !.staging = NoComponent], NoCall)

\* Variant: the flags are cleared only when the request succeeds.
WorkForgotten(p) ==
    /\ Work(p) # NoCall /\ Work(p).at = "failed"
    /\ UNCHANGED requests
    /\ Become(p, page[p], NoCall)

WorkFailed(p) ==
    /\ Work(p) # NoCall /\ Work(p).at = "failed"
    /\ UNCHANGED requests
    /\ Become(p, [page[p] EXCEPT !.checking = FALSE, !.staging = NoComponent], NoCall)

User(p) ==
    \/ OpenView(p) \/ LeaveView(p) \/ Refresh(p)
    \/ Check(p) \/ Stage(p) \/ Release(p)

Browser(p) == Loaded(p) \/ LoadFailed(p) \/ WorkAnswered(p) \/ WorkFailed(p)

Next ==
    \/ \E p \in Pages : User(p) \/ Browser(p)
    \/ \E x \in Slots : Serve(x) \/ Lose(x)
    \/ \E c \in Components : Push(c) \/ Upgrade(c)
    \/ Restart

\* A thread of the service runs to its end (git commands have a timeout),
\* and the event loop of a page gets to the answers that are there.
Fairness ==
    /\ \A x \in Slots : WF_vars(Serve(x))
    /\ \A p \in Pages :
         /\ WF_vars(Loaded(p)) /\ WF_vars(LoadFailed(p))
         /\ WF_vars(WorkAnswered(p)) /\ WF_vars(WorkFailed(p))

Spec == Init /\ [][Next]_vars /\ Fairness

-----------------------------------------------------------------------------
(* Properties. *)

\* Types, and the flags that disable a page's buttons are set exactly while
\* what they stand for is in flight (renderRepositoryUpdates).
UpdatesTypeOK ==
    /\ remote \in [Components -> Revisions] /\ pin \in [Components -> Revisions]
    /\ checks \in [Components -> Checks \cup {NoCheck}]
    /\ staged \in [Components -> Candidates \cup {NoCandidate}]
    /\ checkout \in [Components -> [Revisions -> Found]]
    /\ call \in [Slots -> Calls \cup {NoCall}]
    /\ page \in [Pages -> PageStates]
    /\ failures \in 0 .. MaxFailures /\ requests \in 0 .. MaxRequests
    /\ \A p \in Pages :
         /\ page[p].loading = (call[<<p, "load">>] # NoCall)
         /\ (page[p].checking \/ page[p].staging # NoComponent) = (Work(p) # NoCall)
         /\ ~(page[p].checking /\ page[p].staging # NoComponent)

\* "Exact source candidates" (app.js:1234): what the service reports, and
\* what any page shows, as prepared is another commit than the pinned one
\* and has a checkout of exactly that commit, whatever was pushed,
\* discarded and prepared at the same time.
CandidatesAreExact ==
    /\ \A c \in Components :
         staged[c] # NoCandidate =>
           /\ staged[c].candidate # staged[c].base
           /\ checkout[c][staged[c].candidate] = staged[c].candidate
    /\ \A p \in Pages : page[p].data # NoData =>
         \A c \in Components : page[p].data[c].status = "prepared" =>
           LET r == page[p].data[c].staged IN
           r # page[p].data[c].current /\ checkout[c][r] = r

\* However old the check that a page shows, or a checkout that is reused,
\* a candidate is prepared only if the tracked ref was at it after the
\* request was sent: the reader of a stale listing stages nothing stale.
StagedIsFresh ==
    [][\A x \in Slots :
         At(x, "stage", "prepared") /\ At(x, "stage", "answered")'
           => LET c == call[x].of IN
              /\ call[x].asked <= staged'[c].candidate
              /\ staged'[c].candidate <= remote[c]]_vars

\* A page does not wait for ever: its buttons come back, and it shows data
\* again, after any of the failures (the finally blocks of app.js).
PageSettles ==
    \A p \in Pages :
      /\ []<>(~page[p].checking /\ page[p].staging = NoComponent)
      /\ []<>(~page[p].shown \/ page[p].data # NoData)
=============================================================================
