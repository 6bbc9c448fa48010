---------------------- MODULE RepositoryUpdatesProofs ----------------------
(***************************************************************************)
(* Safety of RepositoryUpdates for any number of components, pages and     *)
(* commits.                                                                *)
(*                                                                         *)
(* A directory of the cache holds the commit it is named after or nothing, *)
(* and is never removed: that is why a candidate stays exact while it is   *)
(* discarded and prepared again by several requests at once, and why an    *)
(* old listing may be shown.  A request to stage that is past its          *)
(* comparison has found the candidate at the tracked ref after it was sent.*)
(***************************************************************************)
EXTENDS RepositoryUpdates, TLAPS

\* The directories of the cache.
CacheIsExact ==
    \A c \in Components, r \in Revisions : checkout[c][r] \in {None, r}

\* A listing whose prepared candidates are not pinned and have a checkout
\* in the cache, and whose updates are commits.
Exact(data, cache) ==
    \A c \in Components :
      /\ data[c].status = "prepared" =>
           /\ data[c].staged \in Revisions /\ data[c].staged # data[c].current
           /\ cache[c][data[c].staged] = data[c].staged
      /\ data[c].status = "update-available" => data[c].latest \in Revisions

StagedAreExact ==
    \A c \in Components : staged[c] # NoCandidate =>
      /\ staged[c].candidate # staged[c].base
      /\ checkout[c][staged[c].candidate] = staged[c].candidate

\* What a request r has established when it is at r.at, with the tracked
\* refs now, these pinned revisions and this cache.
Established(r, now, pinned, cache) ==
    /\ r.answer # NoData => Exact(r.answer, cache)
    /\ r.op = "stage" =>
         /\ r.of \in Components /\ r.candidate \in Revisions
         /\ r.asked <= now[r.of] /\ r.asked \in Revisions
         /\ r.of \in DOMAIN r.found =>
              r.found[r.of] = None \/ r.found[r.of] \in r.asked .. now[r.of]
         /\ r.at \in {"fetching", "fetched", "prepared"} =>
              /\ r.of \in DOMAIN r.found /\ r.found[r.of] = r.candidate
              /\ r.candidate # pinned[r.of]
         /\ r.at = "prepared" => cache[r.of][r.candidate] = r.candidate

\* The flags of p and its requests (the last conjuncts of UpdatesTypeOK).
FlagsFit(p) ==
    /\ page[p].loading = (call[<<p, "load">>] # NoCall)
    /\ (page[p].checking \/ page[p].staging # NoComponent) = (Work(p) # NoCall)
    /\ ~(page[p].checking /\ page[p].staging # NoComponent)

Types ==
    /\ remote \in [Components -> Revisions] /\ pin \in [Components -> Revisions]
    /\ checks \in [Components -> Checks \cup {NoCheck}]
    /\ staged \in [Components -> Candidates \cup {NoCandidate}]
    /\ checkout \in [Components -> [Revisions -> Found]]
    /\ call \in [Slots -> Calls \cup {NoCall}]
    /\ page \in [Pages -> PageStates]
    /\ failures \in 0 .. MaxFailures /\ requests \in 0 .. MaxRequests

UpdatesInv ==
    /\ Types
    /\ CacheIsExact
    /\ StagedAreExact
    /\ \A x \in Slots : call[x] # NoCall => Established(call[x], remote, pin, checkout)
    /\ \A p \in Pages : page[p].data # NoData => Exact(page[p].data, checkout)
    /\ \A p \in Pages : FlagsFit(p)

-----------------------------------------------------------------------------
(* What time does not undo. *)

\* The tracked refs move on and the cache only grows.
Later ==
    /\ remote' \in [Components -> Revisions] /\ pin' = pin
    /\ \A c \in Components : remote[c] <= remote'[c]
    /\ \A c \in Components, r \in Revisions :
         checkout[c][r] = r => checkout'[c][r] = r

\* A listing stays exact.
LEMMA ExactLater ==
    ASSUME NEW data, Exact(data, checkout),
           \A c \in Components, r \in Revisions :
             checkout[c][r] = r => checkout'[c][r] = r
    PROVE  Exact(data, checkout')
BY DEF Exact

\* What a request has established stays established.
LEMMA EstablishedLater ==
    ASSUME Types, NEW r, Established(r, remote, pin, checkout), Later
    PROVE  Established(r, remote', pin', checkout')
<1>1. r.answer # NoData => Exact(r.answer, checkout')
  BY ExactLater DEF Established, Later
<1>2. ASSUME r.op = "stage"
      PROVE  /\ r.of \in Components /\ r.candidate \in Revisions
             /\ r.asked <= remote'[r.of] /\ r.asked \in Revisions
             /\ r.of \in DOMAIN r.found =>
                  r.found[r.of] = None \/ r.found[r.of] \in r.asked .. remote'[r.of]
             /\ r.at \in {"fetching", "fetched", "prepared"} =>
                  /\ r.of \in DOMAIN r.found /\ r.found[r.of] = r.candidate
                  /\ r.candidate # pin'[r.of]
             /\ r.at = "prepared" => checkout'[r.of][r.candidate] = r.candidate
  <2>1. /\ r.of \in Components /\ r.candidate \in Revisions
        /\ r.asked <= remote[r.of] /\ r.asked \in Revisions
        /\ r.of \in DOMAIN r.found =>
             r.found[r.of] = None \/ r.found[r.of] \in r.asked .. remote[r.of]
        /\ r.at \in {"fetching", "fetched", "prepared"} =>
             /\ r.of \in DOMAIN r.found /\ r.found[r.of] = r.candidate
             /\ r.candidate # pin[r.of]
        /\ r.at = "prepared" => checkout[r.of][r.candidate] = r.candidate
    BY <1>2 DEF Established
  <2>2. /\ remote[r.of] \in Nat /\ remote'[r.of] \in Nat /\ r.asked \in Nat
        /\ remote[r.of] <= remote'[r.of]
    BY <2>1, UpdatesAssumption DEF Types, Later, Revisions, UpdatesAssumption
  <2>3. r.asked .. remote[r.of] \subseteq r.asked .. remote'[r.of]
    BY <2>2
  <2> QED
    BY <2>1, <2>2, <2>3 DEF Later
<1> QED
  BY <1>1, <1>2 DEF Established

\* What the service lists is exact.
LEMMA ListingIsExact ==
    ASSUME Types, NEW k \in [Components -> Checks \cup {NoCheck}], StagedAreExact
    PROVE  Listing(k, staged) \in Listings /\ Exact(Listing(k, staged), checkout)
<1>1. ASSUME NEW c \in Components
      PROVE  /\ Item(c, k[c], staged[c]) \in Items
             /\ Item(c, k[c], staged[c]).status = "prepared" =>
                  /\ staged[c] # NoCandidate
                  /\ Item(c, k[c], staged[c]).staged = staged[c].candidate
                  /\ Item(c, k[c], staged[c]).current = staged[c].base
             /\ Item(c, k[c], staged[c]).status = "update-available" =>
                  Item(c, k[c], staged[c]).latest \in Revisions
  <2>1. pin[c] \in Revisions /\ pin[c] \in Found
    BY DEF Types, Found
  <2>2. k[c] # NoCheck => k[c].latest \in Found
    BY DEF Checks
  <2>3. staged[c] # NoCandidate => staged[c].candidate \in Found
    BY DEF Types, Candidates, Found
  <2> QED
    BY <2>1, <2>2, <2>3 DEF Item, Items, Statuses, Found
<1>2. Listing(k, staged) \in Listings
  BY <1>1 DEF Listing, Listings
<1>3. \A c \in Components : staged[c] # NoCandidate => staged[c].candidate \in Revisions
  BY DEF Types, Candidates
<1> QED
  BY <1>1, <1>2, <1>3 DEF Exact, Listing, StagedAreExact

-----------------------------------------------------------------------------
(* The steps of the service. *)

\* A step of the service moves the request x on to n.
LEMMA ServiceMoves ==
    ASSUME UpdatesInv, NEW x \in Slots, call[x] # NoCall,
           NEW n \in Calls, Established(n, remote', pin', checkout'), call' = [call EXCEPT ![x] = n],
           Later, UNCHANGED <<page, requests>>, failures' \in 0 .. MaxFailures,
           checks' \in [Components -> Checks \cup {NoCheck}],
           staged' \in [Components -> Candidates \cup {NoCandidate}],
           checkout' \in [Components -> [Revisions -> Found]],
           CacheIsExact', StagedAreExact'
    PROVE  UpdatesInv'
<1>1. Types'
  BY DEF UpdatesInv, Types, Later
<1>2. \A y \in Slots : call'[y] # NoCall
                     => Established(call'[y], remote', pin', checkout')
  <2>1. ASSUME NEW y \in Slots, call[y] # NoCall
        PROVE  Established(call[y], remote', pin', checkout')
    BY <2>1, EstablishedLater DEF UpdatesInv
  <2>2. call'[x] = n /\ \A y \in Slots \ {x} : call'[y] = call[y]
    BY DEF UpdatesInv, Types
  <2> QED
    BY <2>1, <2>2
<1>3. \A p \in Pages : page'[p].data # NoData => Exact(page'[p].data, checkout')
  BY ExactLater DEF UpdatesInv, Later
<1>4. \A p \in Pages : FlagsFit(p)'
  <2>1. \A y \in Slots : (call'[y] # NoCall) = (call[y] # NoCall)
    BY UpdatesNullAssumption DEF UpdatesInv, Types, UpdatesNullAssumption
  <2>2. ASSUME NEW p \in Pages PROVE FlagsFit(p)'
    <3>1. <<p, "load">> \in Slots /\ <<p, "work">> \in Slots
      BY DEF Slots
    <3> QED
      BY <2>1, <3>1 DEF UpdatesInv, FlagsFit, Work
  <2> QED
    BY <2>2
<1> QED
  BY <1>1, <1>2, <1>3, <1>4 DEF UpdatesInv

\* Where x is moved only, and nothing else changes.
LEMMA ServiceOnlyMoves ==
    ASSUME UpdatesInv, NEW x \in Slots, call[x] # NoCall,
           NEW n \in Calls, Established(n, remote, pin, checkout), call' = [call EXCEPT ![x] = n],
           UNCHANGED <<world, store, page, requests>>, failures' \in 0 .. MaxFailures
    PROVE  UpdatesInv'
<1>1. Later /\ Types
  BY UpdatesAssumption
  DEF Later, world, store, UpdatesInv, Types, Revisions, UpdatesAssumption
<1>2. Established(n, remote', pin', checkout')
  BY <1>1, EstablishedLater
<1>3. CacheIsExact' /\ StagedAreExact'
  BY DEF UpdatesInv, CacheIsExact, StagedAreExact, world, store
<1> QED
  BY <1>1, <1>2, <1>3, ServiceMoves DEF UpdatesInv, Types, store

\* A failure of any kind leaves a request with an error.
LEMMA Failing ==
    ASSUME NEW r \in Calls, NEW now, NEW pinned, NEW cache,
           Established(r, now, pinned, cache), NEW later
    PROVE  /\ [r EXCEPT !.at = "failed"] \in Calls
           /\ Established([r EXCEPT !.at = "failed"], now, later, cache)
<1> DEFINE n == [r EXCEPT !.at = "failed"]
<1>1. /\ n \in Calls /\ n.op = r.op /\ n.of = r.of /\ n.candidate = r.candidate
      /\ n.asked = r.asked /\ n.found = r.found /\ n.answer = r.answer /\ n.at = "failed"
  BY DEF Calls
<1> HIDE DEF n
<1>2. Established(n, now, later, cache)
  BY <1>1 DEF Established
<1> QED
  BY <1>1, <1>2 DEF n

\* The request x, at operation op and stage s.
LEMMA CallOf ==
    ASSUME UpdatesInv, NEW x \in Slots, call[x] # NoCall
    PROVE  call[x] \in Calls /\ Established(call[x], remote, pin, checkout)
BY DEF UpdatesInv, Types

\* A request that moves to a stage that needs nothing new.
LEMMA StageOnly ==
    ASSUME UpdatesInv, NEW x \in Slots, call[x] # NoCall,
           NEW s \in {"fetching", "fetched", "prepared", "failed"}, To(x, s),
           s = "failed" \/ call[x].op = "stage",
           s \in {"fetching", "fetched", "prepared"} =>
             /\ call[x].of \in DOMAIN call[x].found /\ Latest(x) = call[x].candidate
             /\ call[x].candidate # pin[call[x].of],
           s = "prepared" => checkout[call[x].of][call[x].candidate] = call[x].candidate,
           UNCHANGED <<world, store, page, requests>>, failures' \in 0 .. MaxFailures
    PROVE  UpdatesInv'
<1> DEFINE n == [call[x] EXCEPT !.at = s]
<1>1. call[x] \in Calls /\ Established(call[x], remote, pin, checkout)
  BY CallOf
<1>2. /\ n \in Calls /\ n.op = call[x].op /\ n.of = call[x].of
      /\ n.candidate = call[x].candidate /\ n.asked = call[x].asked
      /\ n.found = call[x].found /\ n.answer = call[x].answer /\ n.at = s
  BY <1>1 DEF Calls
<1>3. call' = [call EXCEPT ![x] = n]
  BY DEF To
<1> HIDE DEF n
<1>4. Established(n, remote, pin, checkout)
  BY <1>1, <1>2 DEF Established, Latest
<1> QED
  BY <1>2, <1>3, <1>4, ServiceOnlyMoves

\* Every step of the service keeps the invariant.
LEMMA ServeStep ==
    ASSUME UpdatesInv, NEW x \in Slots, Serve(x)
    PROVE  UpdatesInv'
<1> DEFINE r == call[x]
           c == call[x].of
<1>1. call[x] # NoCall
  BY DEF Serve, List, Query, WriteChecks, Choose, Queried, Fetch, Place, WriteStaged,
         Discard, At
<1>2. /\ Types /\ call \in [Slots -> Calls \cup {NoCall}] /\ r \in Calls
      /\ Established(r, remote, pin, checkout)
      /\ failures \in 0 .. MaxFailures /\ CacheIsExact /\ StagedAreExact
  BY <1>1, CallOf DEF UpdatesInv, Types
<1>3. NothingFound \in UNION {[S -> Found] : S \in SUBSET Components}
      /\ DOMAIN NothingFound = {}
  BY DEF NothingFound, Found
<1>4. ASSUME NEW d \in Listings \cup {NoData}, Answer(x, d)
      PROVE  /\ \E n \in Calls :
                  /\ call' = [call EXCEPT ![x] = n] /\ n.answer = d
                  /\ n.op = r.op /\ n.of = r.of /\ n.candidate = r.candidate
                  /\ n.asked = r.asked /\ n.at = "answered" /\ DOMAIN n.found = {}
  <2> DEFINE n == [r EXCEPT !.at = "answered", !.answer = d, !.found = NothingFound]
  <2>1. /\ n \in Calls /\ n.answer = d /\ n.op = r.op /\ n.of = r.of
        /\ n.candidate = r.candidate /\ n.asked = r.asked /\ n.at = "answered"
        /\ n.found = NothingFound
    BY <1>2, <1>3 DEF Calls
  <2>2. call' = [call EXCEPT ![x] = n]
    BY <1>2, <1>4 DEF Answer
  <2> HIDE DEF n
  <2> QED
    BY <1>3, <2>1, <2>2
<1>5. CASE List(x)
  <2>1. Listing(checks, staged) \in Listings /\ Exact(Listing(checks, staged), checkout)
    BY <1>2, ListingIsExact DEF Types
  <2>2. PICK n \in Calls :
          /\ call' = [call EXCEPT ![x] = n] /\ n.answer = Listing(checks, staged)
          /\ n.op = r.op
    BY <1>4, <1>5, <2>1 DEF List
  <2>3. r.op = "list"
    BY <1>5 DEF List, At
  <2>4. Established(n, remote, pin, checkout)
    BY <2>1, <2>2, <2>3 DEF Established
  <2> QED
    BY <1>1, <1>2, <1>5, <2>2, <2>4, ServiceOnlyMoves DEF List
<1>6. CASE Query(x)
  <2>1. PICK e \in Components \ DOMAIN r.found : \E f \in {remote[e], None} :
          /\ r.op = "stage" => e = c
          /\ IF f = None THEN Fail ELSE UNCHANGED failures
          /\ call' = [call EXCEPT ![x].found =
                        [d \in DOMAIN @ \cup {e} |-> IF d = e THEN f ELSE @[d]]]
    BY <1>6 DEF Query
  <2>2. PICK f \in {remote[e], None} :
          /\ IF f = None THEN Fail ELSE UNCHANGED failures
          /\ call' = [call EXCEPT ![x].found =
                        [d \in DOMAIN @ \cup {e} |-> IF d = e THEN f ELSE @[d]]]
    BY <2>1
  <2> DEFINE g == [d \in DOMAIN r.found \cup {e} |-> IF d = e THEN f ELSE r.found[d]]
             n == [r EXCEPT !.found = g]
  <2>3. f \in Found /\ remote[e] \in Nat
    BY <1>2, <2>2, UpdatesAssumption DEF Types, Found, Revisions, UpdatesAssumption
  <2>4. PICK S \in SUBSET Components : r.found \in [S -> Found]
    BY <1>2 DEF Calls
  <2>5. g \in [DOMAIN r.found \cup {e} -> Found]
    BY <2>3, <2>4
  <2>6. g \in UNION {[T -> Found] : T \in SUBSET Components}
    <3>1. DOMAIN r.found \cup {e} \in SUBSET Components
      BY <2>1, <2>4
    <3> QED
      BY <2>5, <3>1
  <2> HIDE DEF g
  <2>7. /\ n \in Calls /\ n.found = g /\ n.op = r.op /\ n.of = r.of
        /\ n.candidate = r.candidate /\ n.asked = r.asked /\ n.at = r.at
        /\ n.answer = r.answer
    BY <1>2, <2>6 DEF Calls
  <2>8. call' = [call EXCEPT ![x] = n]
    BY <1>2, <2>2 DEF g
  <2>9. r.at = "sent"
    BY <1>6 DEF Query, At
  <2> HIDE DEF n
  <2>10. r.op = "stage" => g[c] = f /\ c = e
    BY <2>1 DEF g
  <2>11. Established(n, remote, pin, checkout)
    <3>1. n.answer # NoData => Exact(n.answer, checkout)
      BY <1>2, <2>7 DEF Established
    <3>2. ASSUME r.op = "stage"
          PROVE  /\ c \in Components /\ r.candidate \in Revisions
                 /\ r.asked <= remote[c] /\ r.asked \in Revisions
                 /\ g[c] = None \/ g[c] \in r.asked .. remote[c]
      <4>1. /\ c \in Components /\ r.candidate \in Revisions
            /\ r.asked <= remote[c] /\ r.asked \in Revisions
        BY <1>2, <3>2 DEF Established
      <4>2. r.asked \in Nat
        BY <4>1, UpdatesAssumption DEF Revisions, UpdatesAssumption
      <4> QED
        BY <2>2, <2>3, <2>10, <3>2, <4>1, <4>2
    <3> QED
      BY <2>7, <2>9, <3>1, <3>2 DEF Established
  <2>12. failures' \in 0 .. MaxFailures
    BY <1>2, <2>2, UpdatesAssumption DEF Fail, UpdatesAssumption
  <2> QED
    BY <1>1, <1>6, <2>7, <2>8, <2>11, <2>12, ServiceOnlyMoves DEF Query
<1>7. CASE WriteChecks(x)
  <2>1. /\ At(x, "check", "sent") /\ DOMAIN r.found = Components
        /\ checks' = [d \in Components |-> [base |-> pin[d], latest |-> r.found[d]]]
        /\ Answer(x, Listing(checks', staged))
        /\ UNCHANGED <<world, staged, checkout, page, failures, requests>>
    BY <1>7 DEF WriteChecks
  <2>2. r.found \in [Components -> Found]
    <3>1. PICK S \in SUBSET Components : r.found \in [S -> Found]
      BY <1>2 DEF Calls
    <3> QED
      BY <2>1, <3>1
  <2>3. checks' \in [Components -> Checks \cup {NoCheck}]
    BY <1>2, <2>1, <2>2 DEF Checks, Types
  <2>4. /\ Listing(checks', staged) \in Listings
        /\ Exact(Listing(checks', staged), checkout)
    BY <1>2, <2>3, ListingIsExact
  <2>5. PICK n \in Calls :
          /\ call' = [call EXCEPT ![x] = n] /\ n.answer = Listing(checks', staged)
          /\ n.op = r.op
    <3>1. PICK L \in Listings : L = Listing(checks', staged)
      BY <2>4
    <3>2. Answer(x, L)
      BY <2>1, <3>1
    <3> QED
      BY <1>4, <3>1, <3>2
  <2>6. r.op = "check"
    BY <2>1 DEF At
  <2>7. Later
    BY <1>2, <2>1, UpdatesAssumption
    DEF Later, world, Types, Revisions, UpdatesAssumption
  <2>8. Established(n, remote, pin, checkout)
    BY <2>4, <2>5, <2>6 DEF Established
  <2>9. Established(n, remote', pin', checkout')
    BY <1>2, <2>7, <2>8, EstablishedLater
  <2>10. CacheIsExact' /\ StagedAreExact'
    BY <1>2, <2>1 DEF CacheIsExact, StagedAreExact
  <2> QED
    BY <1>1, <1>2, <2>1, <2>3, <2>5, <2>7, <2>9, <2>10, ServiceMoves DEF Types
<1>8. CASE Choose(x)
  <2>1. r.op = "stage" /\ r.at = "sent" /\ c \in DOMAIN r.found
    BY <1>8 DEF Choose, Queried, At
  <2>2. PICK s \in {"fetching", "prepared", "failed"} :
          /\ To(x, s)
          /\ s # "failed" => Latest(x) = r.candidate /\ r.candidate # pin[c]
          /\ s = "prepared" => checkout[c][r.candidate] = r.candidate
    BY <1>8 DEF Choose
  <2>3. UNCHANGED <<world, store, page, requests>> /\ failures' \in 0 .. MaxFailures
    BY <1>2, <1>8 DEF Choose
  <2> QED
    BY <1>1, <2>1, <2>2, <2>3, StageOnly
<1>9. CASE Fetch(x)
  <2>1. /\ r.op = "stage" /\ r.at = "fetching" /\ c \in DOMAIN r.found
        /\ Latest(x) = r.candidate /\ r.candidate # pin[c]
    BY <1>2, <1>9 DEF Fetch, At, Established, Latest
  <2>2. To(x, "fetched") \/ To(x, "failed")
    BY <1>9 DEF Fetch
  <2>3. UNCHANGED <<world, store, page, requests>> /\ failures' \in 0 .. MaxFailures
    BY <1>2, <1>9, UpdatesAssumption DEF Fetch, Fail, UpdatesAssumption
  <2> QED
    BY <1>1, <2>1, <2>2, <2>3, StageOnly
<1>10. CASE Place(x)
  <2>1. /\ r.op = "stage" /\ r.at = "fetched" /\ c \in DOMAIN r.found
        /\ Latest(x) = r.candidate /\ r.candidate # pin[c]
        /\ c \in Components /\ r.candidate \in Revisions
    BY <1>2, <1>10 DEF Place, At, Established, Latest
  <2>2. CASE checkout[c][r.candidate] # None
    <3>1. To(x, "failed") /\ UNCHANGED <<world, store, page, requests, failures>>
      BY <1>10, <2>2 DEF Place, store
    <3> QED
      BY <1>1, <1>2, <3>1, StageOnly
  <2>3. CASE checkout[c][r.candidate] = None
    <3>1. /\ To(x, "prepared")
          /\ checkout' = [checkout EXCEPT ![c][r.candidate] = r.candidate]
          /\ UNCHANGED <<world, checks, staged, page, failures, requests>>
      BY <1>10, <2>1, <2>3 DEF Place
    <3>2. /\ checkout' \in [Components -> [Revisions -> Found]]
          /\ checkout'[c][r.candidate] = r.candidate
          /\ \A e \in Components, v \in Revisions :
               checkout'[e][v] = IF e = c /\ v = r.candidate THEN r.candidate
                                 ELSE checkout[e][v]
      BY <1>2, <2>1, <3>1 DEF Types, Found
    <3>3. Later
      BY <1>2, <2>3, <3>1, <3>2, UpdatesAssumption
      DEF Later, world, Types, Revisions, None, UpdatesAssumption
    <3>4. CacheIsExact'
      BY <1>2, <3>2 DEF CacheIsExact
    <3>5. StagedAreExact'
      <4>1. \A e \in Components : staged[e] # NoCandidate => staged[e].candidate \in Revisions
        BY <1>2 DEF Types, Candidates
      <4> QED
        BY <1>2, <3>1, <3>3, <4>1 DEF StagedAreExact, Later
    <3> DEFINE n == [r EXCEPT !.at = "prepared"]
    <3>6. /\ n \in Calls /\ n.op = r.op /\ n.of = r.of
          /\ n.candidate = r.candidate /\ n.asked = r.asked
          /\ n.found = r.found /\ n.answer = r.answer /\ n.at = "prepared"
      BY <1>2 DEF Calls
    <3>7. call' = [call EXCEPT ![x] = n]
      BY <3>1 DEF To
    <3> HIDE DEF n
    <3>8. Established(r, remote', pin', checkout')
      BY <1>2, <3>3, EstablishedLater
    <3>9. pin' = pin
      BY <3>1 DEF world
    <3>10. Established(n, remote', pin', checkout')
      BY <2>1, <3>2, <3>6, <3>8, <3>9 DEF Established, Latest
    <3> QED
      BY <1>1, <1>2, <3>1, <3>2, <3>3, <3>4, <3>5, <3>6, <3>7, <3>10, ServiceMoves
      DEF Types
  <2> QED
    BY <2>2, <2>3
<1>11. CASE WriteStaged(x)
  <2>1. /\ r.op = "stage" /\ r.at = "prepared" /\ Latest(x) = r.candidate
        /\ r.candidate # pin[c] /\ checkout[c][r.candidate] = r.candidate
        /\ c \in Components /\ r.candidate \in Revisions
        /\ r.asked <= remote[c] /\ r.asked \in Revisions
    BY <1>2, <1>11 DEF WriteStaged, At, Established, Latest
  <2>2. /\ checks' = [checks EXCEPT ![c] = [base |-> pin[c], latest |-> Latest(x)]]
        /\ staged' = [staged EXCEPT ![c] = [base |-> pin[c], candidate |-> r.candidate]]
        /\ Answer(x, NoData)
        /\ UNCHANGED <<world, checkout, page, failures, requests>>
    BY <1>11 DEF WriteStaged
  <2>3. pin[c] \in Revisions
    BY <1>2, <2>1 DEF Types
  <2>4. checks' \in [Components -> Checks \cup {NoCheck}]
    <3>1. [base |-> pin[c], latest |-> Latest(x)] \in Checks
      BY <2>1, <2>3 DEF Checks, Found
    <3> QED
      BY <1>2, <2>2, <3>1 DEF Types
  <2>5. staged' \in [Components -> Candidates \cup {NoCandidate}]
    <3>1. [base |-> pin[c], candidate |-> r.candidate] \in Candidates
      BY <2>1, <2>3 DEF Candidates
    <3> QED
      BY <1>2, <2>2, <3>1 DEF Types
  <2>6. StagedAreExact' /\ CacheIsExact'
    <3>1. \A e \in Components :
            staged'[e] = IF e = c THEN [base |-> pin[c], candidate |-> r.candidate]
                         ELSE staged[e]
      BY <1>2, <2>1, <2>2 DEF Types
    <3> QED
      BY <1>2, <2>1, <2>2, <3>1 DEF StagedAreExact, CacheIsExact
  <2>7. PICK n \in Calls :
          /\ call' = [call EXCEPT ![x] = n] /\ n.answer = NoData
          /\ n.op = r.op /\ n.of = r.of /\ n.candidate = r.candidate
          /\ n.asked = r.asked /\ n.at = "answered" /\ DOMAIN n.found = {}
    BY <1>4, <2>2
  <2>8. Established(n, remote, pin, checkout)
    BY <2>1, <2>7 DEF Established
  <2>9. Later
    BY <1>2, <2>2, UpdatesAssumption
    DEF Later, world, Types, Revisions, UpdatesAssumption
  <2>10. Established(n, remote', pin', checkout')
    BY <1>2, <2>8, <2>9, EstablishedLater
  <2> QED
    BY <1>1, <1>2, <2>2, <2>4, <2>5, <2>6, <2>7, <2>9, <2>10, ServiceMoves DEF Types
<1>12. CASE Discard(x)
  <2>1. /\ staged' = [staged EXCEPT ![c] = NoCandidate] /\ Answer(x, NoData)
        /\ r.op = "discard"
        /\ UNCHANGED <<world, checks, checkout, page, failures, requests>>
    BY <1>12 DEF Discard, At
  <2>2. /\ staged' \in [Components -> Candidates \cup {NoCandidate}]
        /\ StagedAreExact' /\ CacheIsExact'
    BY <1>2, <2>1 DEF Types, StagedAreExact, CacheIsExact
  <2>3. PICK n \in Calls :
          call' = [call EXCEPT ![x] = n] /\ n.answer = NoData /\ n.op = r.op
    BY <1>4, <2>1
  <2>4. Established(n, remote', pin', checkout')
    BY <2>1, <2>3 DEF Established
  <2>5. Later
    BY <1>2, <2>1, UpdatesAssumption
    DEF Later, world, Types, Revisions, UpdatesAssumption
  <2> QED
    BY <1>1, <1>2, <2>1, <2>2, <2>3, <2>4, <2>5, ServiceMoves DEF Types
<1> QED
  BY <1>5, <1>6, <1>7, <1>8, <1>9, <1>10, <1>11, <1>12 DEF Serve

-----------------------------------------------------------------------------
(* The steps of the world. *)

\* A push keeps what the requests have established.
LEMMA PushStep ==
    ASSUME UpdatesInv, NEW c \in Components, Push(c)
    PROVE  UpdatesInv'
<1>1. /\ remote' \in [Components -> Revisions]
      /\ \A d \in Components : remote[d] <= remote'[d]
      /\ UNCHANGED <<pin, checks, staged, checkout, call, page, failures, requests>>
  <2>1. remote[c] + 1 \in Revisions /\ \A d \in Components : remote[d] \in Nat
    BY UpdatesAssumption DEF Push, UpdatesInv, Types, Revisions, UpdatesAssumption
  <2> QED
    BY <2>1 DEF Push, UpdatesInv, Types, store
<1>2. Later /\ Types
  BY <1>1 DEF Later, UpdatesInv
<1>3. \A x \in Slots : call'[x] # NoCall => Established(call'[x], remote', pin', checkout')
  BY <1>1, <1>2, EstablishedLater DEF UpdatesInv
<1> QED
  BY <1>1, <1>3
  DEF UpdatesInv, Types, CacheIsExact, StagedAreExact, FlagsFit, Work

\* The requests that a process drops fail, whatever it is started with.
LEMMA DropStep ==
    ASSUME UpdatesInv, call' = Dropped, pin' \in [Components -> Revisions],
           UNCHANGED <<remote, store, page, requests>>, failures' \in 0 .. MaxFailures
    PROVE  UpdatesInv'
<1>1. ASSUME NEW x \in Slots, call[x] # NoCall
      PROVE  /\ call'[x] \in Calls
             /\ Established(call'[x], remote, pin', checkout)
  <2>1. call[x] \in Calls /\ Established(call[x], remote, pin, checkout)
    BY <1>1, CallOf
  <2>2. CASE call[x].at = "answered"
    <3>1. call'[x] = call[x]
      BY <2>2 DEF Dropped
    <3> QED
      BY <2>1, <2>2, <3>1 DEF Established
  <2>3. CASE call[x].at # "answered"
    <3>1. call'[x] = [call[x] EXCEPT !.at = "failed"]
      BY <1>1, <2>3 DEF Dropped
    <3> QED
      BY <2>1, <3>1, Failing
  <2> QED
    BY <2>2, <2>3
<1>2. \A x \in Slots : call[x] = NoCall => call'[x] = NoCall
  BY DEF Dropped
<1>3. call' \in [Slots -> Calls \cup {NoCall}]
  BY <1>1, <1>2 DEF Dropped
<1>4. \A x \in Slots : (call'[x] # NoCall) = (call[x] # NoCall)
  BY <1>1, <1>2, UpdatesNullAssumption DEF UpdatesNullAssumption
<1>5. \A p \in Pages : <<p, "load">> \in Slots /\ <<p, "work">> \in Slots
  BY DEF Slots
<1>6. \A p \in Pages : FlagsFit(p)'
  BY <1>4, <1>5 DEF UpdatesInv, FlagsFit, Work
<1> QED
  BY <1>1, <1>2, <1>3, <1>6 DEF UpdatesInv, Types, CacheIsExact, StagedAreExact, store

\* Pushes, upgrades, restarts and losses keep the invariant.
LEMMA WorldStep ==
    ASSUME UpdatesInv,
           (\E c \in Components : Push(c) \/ Upgrade(c)) \/ Restart
             \/ \E x \in Slots : Lose(x)
    PROVE  UpdatesInv'
<1>1. ASSUME NEW c \in Components, Upgrade(c) PROVE UpdatesInv'
  <2>1. pin' \in [Components -> Revisions]
    BY <1>1 DEF Upgrade, UpdatesInv, Types, Candidates
  <2> QED
    BY <1>1, <2>1, DropStep DEF Upgrade, UpdatesInv, Types
<1>2. CASE Restart
  <2>1. pin' \in [Components -> Revisions] /\ failures' \in 0 .. MaxFailures
    BY <1>2, UpdatesAssumption DEF Restart, Fail, UpdatesInv, Types, world, UpdatesAssumption
  <2> QED
    BY <1>2, <2>1, DropStep DEF Restart, world
<1>3. ASSUME NEW x \in Slots, Lose(x) PROVE UpdatesInv'
  <2>1. failures' \in 0 .. MaxFailures
    BY <1>3, UpdatesAssumption DEF Lose, Fail, UpdatesInv, Types, UpdatesAssumption
  <2> QED
    BY <1>3, <2>1, StageOnly DEF Lose
<1> QED
  BY <1>1, <1>2, <1>3, PushStep

-----------------------------------------------------------------------------
(* The steps of the pages. *)

\* Requests of a page are well-formed.
LEMMA RequestTypes ==
    ASSUME UpdatesInv, NEW op \in {"list", "check", "stage", "discard"},
           NEW c \in Components \cup {NoComponent}, NEW r \in Found,
           op = "stage" => c \in Components /\ r \in Revisions
    PROVE  /\ Request(op, c, r) \in Calls /\ Request(op, c, r) # NoCall
           /\ Established(Request(op, c, r), remote, pin, checkout)
<1>1. NothingFound \in UNION {[S -> Found] : S \in SUBSET Components}
      /\ DOMAIN NothingFound = {}
  BY SMTT(30) DEF NothingFound, Found
<1>2. c \in Components => remote[c] \in Revisions /\ remote[c] \in Found
  BY DEF UpdatesInv, Types, Found
<1>3. Request(op, c, r) \in Calls
  BY <1>1, <1>2 DEF Request, Calls, Found
<1>4. Established(Request(op, c, r), remote, pin, checkout)
  <2>1. op = "stage" => c # NoComponent /\ remote[c] <= remote[c]
    BY <1>2, UpdatesAssumption DEF UpdatesAssumption, Revisions
  <2> QED
    BY <1>1, <1>2, <2>1 DEF Request, Established
<1> QED
  BY <1>3, <1>4, UpdatesNullAssumption DEF UpdatesNullAssumption

\* The requests of the pages other than p, or other than x, are left alone.
LEMMA PageMoves ==
    ASSUME UpdatesInv, NEW p \in Pages, NEW u \in PageStates,
           u.data # NoData => Exact(u.data, checkout),
           page' = [page EXCEPT ![p] = u],
           call' \in [Slots -> Calls \cup {NoCall}],
           \A x \in Slots : call'[x] # NoCall =>
             call'[x] = call[x] \/ Established(call'[x], remote, pin, checkout),
           \A q \in Pages \ {p}, s \in {"load", "work"} : call'[<<q, s>>] = call[<<q, s>>],
           u.loading = (call'[<<p, "load">>] # NoCall),
           (u.checking \/ u.staging # NoComponent) = (call'[<<p, "work">>] # NoCall),
           ~(u.checking /\ u.staging # NoComponent),
           UNCHANGED <<world, store, failures>>, requests' \in 0 .. MaxRequests
    PROVE  UpdatesInv'
<1>1. /\ page' \in [Pages -> PageStates] /\ page'[p] = u
      /\ \A q \in Pages \ {p} : page'[q] = page[q]
  BY DEF UpdatesInv, Types
<1>2. Types'
  BY <1>1 DEF UpdatesInv, Types, world, store
<1>3. \A x \in Slots : call'[x] # NoCall => Established(call'[x], remote', pin', checkout')
  BY DEF UpdatesInv, world, store
<1>4. \A q \in Pages : page'[q].data # NoData => Exact(page'[q].data, checkout')
  BY <1>1 DEF UpdatesInv, store
<1>5. \A q \in Pages : FlagsFit(q)'
  <2>1. FlagsFit(p)'
    BY <1>1 DEF FlagsFit, Work
  <2>2. ASSUME NEW q \in Pages \ {p} PROVE FlagsFit(q)'
    BY <1>1, <2>2 DEF UpdatesInv, FlagsFit, Work
  <2> QED
    BY <2>1, <2>2
<1> QED
  BY <1>2, <1>3, <1>4, <1>5 DEF UpdatesInv, CacheIsExact, StagedAreExact, store

\* A page that becomes u, with the work w, and is rendered.
LEMMA BecomeStep ==
    ASSUME UpdatesInv, NEW p \in Pages, NEW u \in PageStates,
           NEW w \in Calls \cup {NoCall},
           u.data # NoData => Exact(u.data, checkout),
           u.loading = page[p].loading,
           w # NoCall => Established(w, remote, pin, checkout),
           (u.checking \/ u.staging # NoComponent) = (w # NoCall),
           ~(u.checking /\ u.staging # NoComponent),
           Become(p, u, w), requests' \in 0 .. MaxRequests
    PROVE  UpdatesInv'
<1> DEFINE v == Rendered(u)
           r == Request("list", NoComponent, None)
           l == IF Renders(u) THEN r ELSE call[<<p, "load">>]
<1>1. /\ <<p, "load">> \in Slots /\ <<p, "work">> \in Slots
      /\ \A q \in Pages, s \in {"load", "work"} : <<q, s>> \in Slots
      /\ \A x \in Slots : x = <<x[1], x[2]>> /\ x[1] \in Pages /\ x[2] \in {"load", "work"}
  BY DEF Slots
<1>2. /\ v \in PageStates /\ v.data = u.data /\ v.checking = u.checking
      /\ v.staging = u.staging /\ v.loading = (u.loading \/ Renders(u))
  BY DEF PageStates, Rendered, Renders
<1>3. r \in Calls /\ r # NoCall /\ Established(r, remote, pin, checkout)
  BY RequestTypes DEF Found
<1>4. call \in [Slots -> Calls \cup {NoCall}]
  BY DEF UpdatesInv, Types
<1> HIDE DEF r
<1>5. /\ call' \in [Slots -> Calls \cup {NoCall}]
      /\ call'[<<p, "work">>] = w /\ call'[<<p, "load">>] = l
      /\ \A x \in Slots \ {<<p, "load">>, <<p, "work">>} : call'[x] = call[x]
  <2>1. call' = [call EXCEPT ![<<p, "work">>] = w,
                             ![<<p, "load">>] = IF Renders(u) THEN r ELSE @]
    BY DEF Become, r
  <2>2. call' = [call EXCEPT ![<<p, "work">>] = w, ![<<p, "load">>] = l]
    BY <1>1, <1>4, <2>1
  <2>3. <<p, "work">> # <<p, "load">> /\ l \in Calls \cup {NoCall}
    BY <1>1, <1>3, <1>4
  <2> HIDE DEF l
  <2> QED
    BY <1>1, <1>4, <2>2, <2>3
<1>6. v.loading = (call'[<<p, "load">>] # NoCall)
  <2>1. u.loading = (call[<<p, "load">>] # NoCall)
    BY DEF UpdatesInv, FlagsFit
  <2>2. CASE Renders(u)
    BY <1>2, <1>3, <1>5, <2>2
  <2>3. CASE ~Renders(u)
    <3>1. call'[<<p, "load">>] = call[<<p, "load">>]
      BY <1>5, <2>3
    <3>2. u.loading \in BOOLEAN
      BY DEF PageStates
    <3> QED
      BY <1>2, <2>1, <2>3, <3>1, <3>2
  <2> QED
    BY <2>2, <2>3
<1>7. \A x \in Slots : call'[x] # NoCall =>
        call'[x] = call[x] \/ Established(call'[x], remote, pin, checkout)
  BY <1>3, <1>5
<1>8. \A q \in Pages \ {p}, s \in {"load", "work"} : call'[<<q, s>>] = call[<<q, s>>]
  BY <1>1, <1>5
<1>9. page' = [page EXCEPT ![p] = v] /\ UNCHANGED <<world, store, failures>>
  BY DEF Become
<1>10. v.data # NoData => Exact(v.data, checkout)
  BY <1>2
<1> HIDE DEF v, l
<1>11. (v.checking \/ v.staging # NoComponent) = (call'[<<p, "work">>] # NoCall)
  BY <1>2, <1>5
<1>12. ~(v.checking /\ v.staging # NoComponent)
  BY <1>2
<1> QED
  BY <1>2, <1>5, <1>6, <1>7, <1>8, <1>9, <1>10, <1>11, <1>12, PageMoves

\* What the state of a page is, and of its requests.
LEMMA PageOf ==
    ASSUME UpdatesInv, NEW p \in Pages
    PROVE  /\ page[p] \in PageStates /\ FlagsFit(p)
           /\ page[p].data # NoData => Exact(page[p].data, checkout)
           /\ <<p, "load">> \in Slots /\ <<p, "work">> \in Slots
           /\ requests \in 0 .. MaxRequests
           /\ Work(p) \in Calls \cup {NoCall}
           /\ Work(p) # NoCall => Established(Work(p), remote, pin, checkout)
BY DEF UpdatesInv, Types, Slots, Work

\* What users do keeps the invariant.
LEMMA UserStep ==
    ASSUME UpdatesInv, NEW p \in Pages, User(p)
    PROVE  UpdatesInv'
<1> DEFINE old == page[p]
<1>1. /\ old \in PageStates /\ FlagsFit(p)
      /\ old.data # NoData => Exact(old.data, checkout)
      /\ requests \in 0 .. MaxRequests /\ Work(p) \in Calls \cup {NoCall}
      /\ Work(p) # NoCall => Established(Work(p), remote, pin, checkout)
  BY PageOf
<1>2. /\ (old.checking \/ old.staging # NoComponent) = (Work(p) # NoCall)
      /\ ~(old.checking /\ old.staging # NoComponent)
  BY <1>1 DEF FlagsFit
<1>3. Ask => requests' \in 0 .. MaxRequests
  BY <1>1, UpdatesAssumption DEF Ask, UpdatesAssumption
<1>4. ASSUME NEW b \in BOOLEAN, requests' \in 0 .. MaxRequests,
             Become(p, [old EXCEPT !.shown = b], Work(p))
      PROVE  UpdatesInv'
  <2> DEFINE u == [old EXCEPT !.shown = b]
  <2>1. /\ u \in PageStates /\ u.data = old.data /\ u.loading = old.loading
        /\ u.checking = old.checking /\ u.staging = old.staging
    BY <1>1 DEF PageStates
  <2> HIDE DEF u
  <2> QED
    BY <1>1, <1>2, <1>4, <2>1, BecomeStep DEF u
<1>5. CASE OpenView(p) \/ LeaveView(p)
  BY <1>1, <1>3, <1>4, <1>5 DEF OpenView, LeaveView
<1>6. CASE Refresh(p)
  <2> DEFINE u == [old EXCEPT !.data = NoData]
  <2>1. /\ u \in PageStates /\ u.data = NoData /\ u.loading = old.loading
        /\ u.checking = old.checking /\ u.staging = old.staging
    BY <1>1 DEF PageStates
  <2>2. Become(p, u, Work(p)) /\ requests' \in 0 .. MaxRequests
    BY <1>3, <1>6 DEF Refresh
  <2> HIDE DEF u
  <2> QED
    BY <1>1, <1>2, <2>1, <2>2, BecomeStep
<1>7. CASE Check(p)
  <2> DEFINE u == [old EXCEPT !.checking = TRUE]
             w == Request("check", NoComponent, None)
  <2>1. /\ u \in PageStates /\ u.data = old.data /\ u.loading = old.loading
        /\ u.checking = TRUE /\ u.staging = NoComponent
    BY <1>1, <1>7 DEF PageStates, Check, Ready
  <2>2. w \in Calls /\ w # NoCall /\ Established(w, remote, pin, checkout)
    BY RequestTypes DEF Found
  <2>3. Become(p, u, w) /\ requests' \in 0 .. MaxRequests
    BY <1>3, <1>7 DEF Check
  <2> HIDE DEF u, w
  <2> QED
    BY <1>1, <2>1, <2>2, <2>3, BecomeStep
<1>8. ASSUME NEW c \in Components, NEW op \in {"stage", "discard"}, NEW r \in Found,
             op = "stage" => r \in Revisions, Ready(p), requests' \in 0 .. MaxRequests,
             Become(p, [old EXCEPT !.staging = c], Request(op, c, r))
      PROVE  UpdatesInv'
  <2> DEFINE u == [old EXCEPT !.staging = c]
             w == Request(op, c, r)
  <2>1. /\ u \in PageStates /\ u.data = old.data /\ u.loading = old.loading
        /\ u.checking = FALSE /\ u.staging = c /\ c # NoComponent
    BY <1>1, <1>8, UpdatesAssumption DEF PageStates, Ready, UpdatesAssumption
  <2>2. w \in Calls /\ w # NoCall /\ Established(w, remote, pin, checkout)
    BY <1>8, RequestTypes
  <2>3. Become(p, u, w)
    BY <1>8
  <2> HIDE DEF u, w
  <2> QED
    BY <1>1, <1>8, <2>1, <2>2, <2>3, BecomeStep
<1>9. CASE Stage(p)
  <2>1. PICK c \in Components :
          /\ old.data[c].status = "update-available"
          /\ Become(p, [old EXCEPT !.staging = c], Request("stage", c, old.data[c].latest))
    BY <1>9 DEF Stage
  <2>2. old.data[c].latest \in Revisions
    BY <1>1, <1>9, <2>1 DEF Stage, Ready, Exact
  <2> QED
    BY <1>3, <1>8, <1>9, <2>1, <2>2 DEF Stage, Found
<1>10. CASE Release(p)
  BY <1>3, <1>8, <1>10 DEF Release, Found
<1> QED
  BY <1>5, <1>6, <1>7, <1>9, <1>10 DEF User

\* The continuations of the pages keep the invariant.
LEMMA BrowserStep ==
    ASSUME UpdatesInv, NEW p \in Pages, Browser(p)
    PROVE  UpdatesInv'
<1> DEFINE old == page[p]
           x == <<p, "load">>
<1>1. /\ old \in PageStates /\ FlagsFit(p)
      /\ old.data # NoData => Exact(old.data, checkout)
      /\ requests \in 0 .. MaxRequests /\ Work(p) \in Calls \cup {NoCall}
      /\ Work(p) # NoCall => Established(Work(p), remote, pin, checkout)
      /\ x \in Slots /\ call \in [Slots -> Calls \cup {NoCall}]
  BY PageOf DEF UpdatesInv, Types
<1>2. /\ old.loading = (call[x] # NoCall)
      /\ (old.checking \/ old.staging # NoComponent) = (call[<<p, "work">>] # NoCall)
      /\ ~(old.checking /\ old.staging # NoComponent)
  BY <1>1 DEF FlagsFit, Work
<1>3. /\ <<p, "work">> # x
      /\ \A q \in Pages \ {p}, s \in {"load", "work"} : <<q, s>> # x /\ <<q, s>> \in Slots
  BY DEF Slots
<1>4. CASE Loaded(p)
  <2> DEFINE u == [old EXCEPT !.data = call[x].answer, !.loading = FALSE]
  <2>1. /\ call[x] \in Calls /\ call[x] # NoCall
        /\ call[x].answer # NoData => Exact(call[x].answer, checkout)
    BY <1>1, <1>4, CallOf DEF Loaded, At, Established
  <2>2. /\ u \in PageStates /\ u.data = call[x].answer /\ u.loading = FALSE
        /\ u.checking = old.checking /\ u.staging = old.staging
    BY <1>1, <2>1 DEF PageStates, Calls
  <2>3. /\ page' = [page EXCEPT ![p] = u] /\ call' = [call EXCEPT ![x] = NoCall]
        /\ UNCHANGED <<world, store, failures>> /\ requests' = requests
    BY <1>1, <1>4 DEF Loaded, UpdatesInv, Types
  <2> HIDE DEF u
  <2>4. /\ call' \in [Slots -> Calls \cup {NoCall}] /\ call'[x] = NoCall
        /\ \A y \in Slots \ {x} : call'[y] = call[y]
    BY <1>1, <2>3
  <2>5. /\ u.loading = (call'[x] # NoCall)
        /\ (u.checking \/ u.staging # NoComponent) = (call'[<<p, "work">>] # NoCall)
        /\ ~(u.checking /\ u.staging # NoComponent)
    <3>1. <<p, "work">> \in Slots
      BY DEF Slots
    <3> QED
      BY <1>2, <1>3, <2>2, <2>4, <3>1
  <2>6. \A y \in Slots : call'[y] # NoCall => call'[y] = call[y]
    BY <2>4
  <2>7. \A q \in Pages \ {p}, s \in {"load", "work"} : call'[<<q, s>>] = call[<<q, s>>]
    BY <1>3, <2>4
  <2> QED
    BY <1>1, <2>1, <2>2, <2>3, <2>4, <2>5, <2>6, <2>7, PageMoves
<1>5. CASE LoadFailed(p)
  <2> DEFINE v == [old EXCEPT !.loading = FALSE]
             u == Rendered(v)
             r == Request("list", NoComponent, None)
             l == IF Renders(v) THEN r ELSE NoCall
  <2>1. /\ u \in PageStates /\ u.data = old.data /\ u.loading = Renders(v)
        /\ u.checking = old.checking /\ u.staging = old.staging
    BY <1>1 DEF PageStates, Rendered, Renders
  <2>2. r \in Calls /\ r # NoCall /\ Established(r, remote, pin, checkout)
    BY RequestTypes DEF Found
  <2>3. /\ page' = [page EXCEPT ![p] = u] /\ call' = [call EXCEPT ![x] = l]
        /\ UNCHANGED <<world, store, failures>> /\ requests' = requests
    BY <1>5 DEF LoadFailed
  <2> HIDE DEF r
  <2>4. /\ call' \in [Slots -> Calls \cup {NoCall}] /\ call'[x] = l
        /\ \A y \in Slots \ {x} : call'[y] = call[y]
    <3>1. l \in Calls \cup {NoCall}
      BY <2>2
    <3> HIDE DEF l
    <3> QED
      BY <1>1, <2>3, <3>1
  <2>5. u.loading = (call'[x] # NoCall)
    <3>1. CASE Renders(v)
      BY <2>1, <2>2, <2>4, <3>1
    <3>2. CASE ~Renders(v)
      <4>1. Renders(v) = FALSE
        BY <3>2 DEF Renders
      <4>2. u.loading = FALSE /\ l = NoCall
        BY <2>1, <3>2, <4>1
      <4> HIDE DEF u, v, l
      <4> QED
        BY <2>4, <4>2
    <3>3. Renders(v) \in BOOLEAN
      BY DEF Renders
    <3> QED
      BY <3>1, <3>2
  <2>6. /\ (u.checking \/ u.staging # NoComponent) = (call'[<<p, "work">>] # NoCall)
        /\ ~(u.checking /\ u.staging # NoComponent)
    <3>1. <<p, "work">> \in Slots
      BY DEF Slots
    <3> HIDE DEF l, u
    <3> QED
      BY <1>2, <1>3, <2>1, <2>4, <3>1
  <2>7. \A y \in Slots : call'[y] # NoCall =>
          call'[y] = call[y] \/ Established(call'[y], remote, pin, checkout)
    BY <2>2, <2>4
  <2>8. \A q \in Pages \ {p}, s \in {"load", "work"} : call'[<<q, s>>] = call[<<q, s>>]
    BY <1>3, <2>4
  <2> HIDE DEF u, l
  <2> QED
    BY <1>1, <2>1, <2>3, <2>4, <2>5, <2>6, <2>7, <2>8, PageMoves
<1>6. CASE WorkAnswered(p)
  <2>1. Work(p) # NoCall /\ Work(p) \in Calls /\ requests' = requests
    BY <1>1, <1>6 DEF WorkAnswered, Work
  <2>2. CASE Work(p).op \in {"stage", "discard"}
    <3> DEFINE w == Request("list", NoComponent, None)
    <3>1. Become(p, old, w)
      BY <1>6, <2>2 DEF WorkAnswered, Work
    <3>2. w \in Calls /\ w # NoCall /\ Established(w, remote, pin, checkout)
      BY RequestTypes DEF Found
    <3>3. (old.checking \/ old.staging # NoComponent) = (w # NoCall)
      BY <1>2, <2>1, <3>2 DEF Work
    <3> HIDE DEF w
    <3> QED
      BY <1>1, <1>2, <2>1, <3>1, <3>2, <3>3, BecomeStep
  <2>3. CASE Work(p).op \notin {"stage", "discard"}
    <3> DEFINE u == [old EXCEPT !.data = Work(p).answer, !.checking = FALSE,
                                !.staging = NoComponent]
    <3>1. Become(p, u, NoCall)
      BY <1>6, <2>3 DEF WorkAnswered, Work
    <3>2. /\ u \in PageStates /\ u.data = Work(p).answer /\ u.loading = old.loading
          /\ u.checking = FALSE /\ u.staging = NoComponent
      BY <1>1, <2>1 DEF PageStates, Calls
    <3>3. u.data # NoData => Exact(u.data, checkout)
      BY <1>1, <2>1, <3>2 DEF Established
    <3> HIDE DEF u
    <3> QED
      BY <1>1, <2>1, <3>1, <3>2, <3>3, BecomeStep
  <2> QED
    BY <2>2, <2>3
<1>7. CASE WorkFailed(p)
  <2> DEFINE u == [old EXCEPT !.checking = FALSE, !.staging = NoComponent]
  <2>1. Become(p, u, NoCall) /\ requests' = requests
    BY <1>7 DEF WorkFailed
  <2>2. /\ u \in PageStates /\ u.data = old.data /\ u.loading = old.loading
        /\ u.checking = FALSE /\ u.staging = NoComponent
    BY <1>1 DEF PageStates
  <2> HIDE DEF u
  <2> QED
    BY <1>1, <2>1, <2>2, BecomeStep
<1> QED
  BY <1>4, <1>5, <1>6, <1>7 DEF Browser

-----------------------------------------------------------------------------
(* The theorems. *)

\* The invariant holds always.
LEMMA UpdatesInduction == Init /\ [][Next]_vars => []UpdatesInv
<1>1. Init => UpdatesInv
  <2> SUFFICES ASSUME Init PROVE UpdatesInv
    OBVIOUS
  <2>1. {1, 2} \cap Revisions \subseteq Revisions /\ 1 \in Revisions
    BY UpdatesAssumption DEF Revisions, UpdatesAssumption
  <2>2. /\ remote \in [Components -> Revisions] /\ pin \in [Components -> Revisions]
        /\ staged \in [Components -> Candidates \cup {NoCandidate}]
        /\ call \in [Slots -> Calls \cup {NoCall}]
        /\ failures \in 0 .. MaxFailures /\ requests \in 0 .. MaxRequests
    BY <2>1, UpdatesAssumption DEF Init, UpdatesAssumption
  <2>3. checks \in [Components -> Checks \cup {NoCheck}]
    <3>1. PICK known \in SUBSET Components :
            checks = [c \in Components |->
                        IF c \in known THEN [base |-> 1, latest |-> remote[c]] ELSE NoCheck]
      BY DEF Init
    <3>2. \A c \in Components : [base |-> 1, latest |-> remote[c]] \in Checks
      BY <2>1, <2>2 DEF Checks, Found
    <3> QED
      BY <3>1, <3>2
  <2>4. checkout \in [Components -> [Revisions -> Found]] /\ CacheIsExact
    <3>1. PICK cached \in [Components -> SUBSET Revisions] :
            checkout = [c \in Components |->
                          [r \in Revisions |-> IF r \in cached[c] THEN r ELSE None]]
      BY DEF Init
    <3> QED
      BY <3>1 DEF CacheIsExact, Found
  <2>5. page \in [Pages -> PageStates]
    BY DEF Init, PageStates
  <2>6. ASSUME NEW p \in Pages PROVE FlagsFit(p) /\ page[p].data = NoData
    <3>1. <<p, "load">> \in Slots /\ <<p, "work">> \in Slots
      BY DEF Slots
    <3> QED
      BY <3>1 DEF Init, FlagsFit, Work
  <2> QED
    BY <2>2, <2>3, <2>4, <2>5, <2>6 DEF Init, UpdatesInv, Types, StagedAreExact
<1>2. UpdatesInv /\ [Next]_vars => UpdatesInv'
  <2> SUFFICES ASSUME UpdatesInv, [Next]_vars PROVE UpdatesInv'
    OBVIOUS
  <2>1. CASE UNCHANGED vars
    BY <2>1 DEF vars, UpdatesInv, Types, CacheIsExact, StagedAreExact, FlagsFit, Work
  <2> QED
    BY <2>1, UserStep, BrowserStep, ServeStep, WorldStep DEF Next
<1> QED
  BY <1>1, <1>2, PTL

\* The state of the service and of the pages keep their types, and the
\* flags that disable a page's buttons are set exactly while a request of
\* theirs is in flight (the finally blocks of app.js).
THEOREM UpdatesTypeCorrect == Spec => []UpdatesTypeOK
<1>1. UpdatesInv => UpdatesTypeOK
  BY DEF UpdatesInv, Types, UpdatesTypeOK, FlagsFit
<1> QED
  BY <1>1, UpdatesInduction, PTL DEF Spec

\* What is prepared, and what any page shows as prepared, however old its
\* listing, has a checkout of exactly the commit that it names (stage and
\* _prepare_checkout).
THEOREM PreparedAreExact == Spec => []CandidatesAreExact
<1>1. UpdatesInv => CandidatesAreExact
  BY DEF UpdatesInv, StagedAreExact, Exact, CandidatesAreExact
<1> QED
  BY <1>1, UpdatesInduction, PTL DEF Spec

\* A candidate is prepared only if the tracked ref was at it after the
\* request was sent, whatever the page that asked was showing (stage).
THEOREM PreparedAreFresh == Spec => StagedIsFresh
<1> DEFINE Fresh(x) ==
             At(x, "stage", "prepared") /\ At(x, "stage", "answered")' =>
               /\ call[x].asked <= staged'[call[x].of].candidate
               /\ staged'[call[x].of].candidate <= remote[call[x].of]
<1>1. ASSUME UpdatesInv, Next, NEW x \in Slots,
             At(x, "stage", "prepared"), At(x, "stage", "answered")'
      PROVE  /\ call[x].asked <= staged'[call[x].of].candidate
             /\ staged'[call[x].of].candidate <= remote[call[x].of]
  <2>1. call'[x] # call[x] /\ call'[x].at = "answered" /\ call'[x].op = "stage"
    BY <1>1 DEF At
  <2>2. /\ call \in [Slots -> Calls \cup {NoCall}] /\ call[x] # NoCall
        /\ call[x].at = "prepared" /\ call[x].op = "stage"
    BY <1>1 DEF At, UpdatesInv, Types
  <2>3. WriteStaged(x)
    <3>1. ASSUME NEW p \in Pages, User(p) \/ Browser(p) PROVE FALSE
      <4>1. \A y \in Slots : call'[y] = call[y] \/ call'[y] = NoCall
                            \/ call'[y].at = "sent"
        <5>1. ASSUME NEW u, NEW w, Become(p, u, w),
                     w = Work(p) \/ w = NoCall \/ w.at = "sent"
              PROVE  \A y \in Slots : call'[y] = call[y] \/ call'[y] = NoCall
                                     \/ call'[y].at = "sent"
          <6>1. Request("list", NoComponent, None).at = "sent"
            BY DEF Request
          <6> QED
            BY <2>2, <5>1, <6>1 DEF Become, Work
        <5>2. \A op, c, r : Request(op, c, r).at = "sent"
          BY DEF Request
        <5>3. CASE User(p)
          <6>1. \E u, w : Become(p, u, w) /\ (w = Work(p) \/ w = NoCall \/ w.at = "sent")
            BY <5>2, <5>3, ZenonT(30) DEF User, OpenView, LeaveView, Refresh, Check, Stage, Release
          <6> QED
            BY <5>1, <6>1
        <5>4. CASE WorkAnswered(p) \/ WorkFailed(p)
          <6>1. \E u, w : Become(p, u, w) /\ (w = Work(p) \/ w = NoCall \/ w.at = "sent")
            BY <5>2, <5>4 DEF WorkAnswered, WorkFailed
          <6> QED
            BY <5>1, <6>1
        <5>5. CASE Loaded(p) \/ LoadFailed(p)
          BY <2>2, <5>2, <5>5 DEF Loaded, LoadFailed
        <5> QED
          BY <3>1, <5>3, <5>4, <5>5 DEF Browser
      <4> QED
        BY <1>1, <2>1, <4>1 DEF At
    <3>2. ASSUME NEW c \in Components, Push(c) \/ Upgrade(c) PROVE FALSE
      <4>1. \A y \in Slots : call'[y] = call[y] \/ call'[y] = [call[y] EXCEPT !.at = "failed"]
        BY <3>2 DEF Push, Upgrade, Dropped
      <4> QED
        BY <2>1, <2>2, <4>1 DEF Calls
    <3>3. ~Restart
      <4>1. ASSUME Restart PROVE call'[x] = [call[x] EXCEPT !.at = "failed"]
        BY <2>2, <4>1 DEF Restart, Dropped
      <4> QED
        BY <2>1, <2>2, <4>1 DEF Calls
    <3>4. \A y \in Slots : ~Lose(y)
      BY <2>1, <2>2 DEF Lose, To, Calls
    <3>5. PICK y \in Slots : Serve(y)
      BY <1>1, <3>1, <3>2, <3>3, <3>4 DEF Next
    <3>6. y = x
      BY <2>1, <2>2, <3>5
      DEF Serve, List, Query, WriteChecks, Choose, Fetch, Place, WriteStaged, Discard,
          Answer, To
    <3> QED
      BY <2>2, <3>5, <3>6
      DEF Serve, List, Query, WriteChecks, Choose, Queried, Fetch, Place, Discard, At
  <2>4. /\ call[x].of \in Components /\ call[x].candidate \in Revisions
        /\ call[x].asked <= remote[call[x].of] /\ call[x].asked \in Revisions
        /\ call[x].candidate \in call[x].asked .. remote[call[x].of]
    <3>1. call[x].candidate # None
      BY <1>1, <2>2, UpdatesAssumption
      DEF UpdatesInv, Established, Revisions, None, UpdatesAssumption
    <3> QED
      BY <1>1, <2>2, <3>1 DEF UpdatesInv, Established
  <2>5. staged'[call[x].of].candidate = call[x].candidate
    BY <1>1, <2>3, <2>4 DEF WriteStaged, UpdatesInv, Types
  <2> QED
    BY <2>4, <2>5, UpdatesAssumption DEF Revisions, UpdatesAssumption
<1>2. UpdatesInv /\ [Next]_vars => [\A x \in Slots : Fresh(x)]_vars
  BY <1>1
<1>3. [][\A x \in Slots : Fresh(x)]_vars => StagedIsFresh
  BY DEF StagedIsFresh
<1> QED
  BY <1>2, <1>3, UpdatesInduction, PTL DEF Spec
=============================================================================
