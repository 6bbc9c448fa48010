------------------------ MODULE WorkflowDraftsProofs ------------------------
(***************************************************************************)
(* Proofs about WorkflowDrafts, for any number of drafts, versions, edits  *)
(* and callers: the types, and that the transactions of interleaved calls  *)
(* implement the registers of DraftService.                                *)
(*                                                                         *)
(* DraftsTypeOK is inductive.  The refinement is the identity on draft and *)
(* version; a step that writes needs from DraftsTypeOK that what the call  *)
(* carries is a content, and that the content a publication inserts has    *)
(* been resolved.                                                          *)
(***************************************************************************)
EXTENDS WorkflowDrafts, TLAPS

\* The call that a step of x leaves is x's alone: the last conjunct of
\* DraftsTypeOK for one caller.
Carries(c) ==
    /\ c.op \in {"create", "update"} => c.content \in Contents
    /\ c.op = "publish" /\ c.at \in {"read", "looked", "answered"}
         => c.content \in Contents
    /\ c.op = "publish" /\ c.at = "looked" => c.content \in Valid
    /\ c.op # "create" \/ c.at \in {"written", "answered"} => c.id \in Drafts

\* A step that changes the call of x to a call that carries what its stage
\* says keeps the types of the calls.
LEMMA CallStep ==
    ASSUME DraftsTypeOK, NEW x \in Callers, NEW c,
           (c \in Calls /\ Carries(c)) \/ c = NoCall,
           call' = [call EXCEPT ![x] = c]
    PROVE  /\ call' \in [Callers -> Calls \cup {NoCall}]
           /\ \A y \in Callers : call'[y] # NoCall => Carries(call'[y])
<1>1. call \in [Callers -> Calls \cup {NoCall}]
  BY DEF DraftsTypeOK
<1>2. \A y \in Callers : call[y] # NoCall => Carries(call[y])
  BY DEF DraftsTypeOK, Carries
<1>3. call'[x] = c /\ \A y \in Callers \ {x} : call'[y] = call[y]
  BY <1>1
<1> QED
  BY <1>1, <1>2, <1>3

\* The call of x moves on, with the operation that it has.
Moves(x) ==
    /\ call[x] # NoCall
    /\ \E r \in Calls : /\ r.op = call[x].op /\ Carries(r)
                        /\ call' = [call EXCEPT ![x] = r]

\* How a call is shown to move on.
LEMMA MoveTo ==
    ASSUME NEW x, call[x] # NoCall, NEW r \in Calls,
           r.op = call[x].op, Carries(r), call' = [call EXCEPT ![x] = r]
    PROVE  Moves(x)
BY DEF Moves

\* The step of x that only moves its call to stage s.
LEMMA StageStep ==
    ASSUME DraftsTypeOK, NEW x \in Callers, call[x] # NoCall, NEW s \in Stages,
           s \in {"current", "checked", "looked", "refused", "answered", "invalid", "written"},
           s = "looked" /\ call[x].op = "publish" => call[x].content \in Valid,
           s = "written" => call[x].op # "create",
           s = "answered" => call[x].op \in {"delete", "validate"},
           To(x, s)
    PROVE  Moves(x)
<1> DEFINE c == [call[x] EXCEPT !.at = s]
<1>1. call[x] \in Calls /\ Carries(call[x])
  BY DEF DraftsTypeOK, Carries
<1>2. c \in Calls
  BY <1>1 DEF Calls
<1>3. c.op = call[x].op /\ c.id = call[x].id /\ c.content = call[x].content /\ c.at = s
  BY <1>1 DEF Calls
<1>4. Carries(c)
  BY <1>1, <1>3 DEF Carries, Valid
<1>5. call' = [call EXCEPT ![x] = c]
  BY DEF To
<1> HIDE DEF c
<1> QED
  BY <1>2, <1>3, <1>4, <1>5 DEF Moves
\* What a row that is stored is.
LEMMA StoredRow ==
    ASSUME DraftsTypeOK, NEW d, Stored(d)
    PROVE  /\ d \in Drafts /\ draft[d] \in Rows
           /\ draft[d].rev \in Nat /\ draft[d].content \in Contents
BY DEF DraftsTypeOK, Stored, Rows

\* A content's version is one of Keys.
LEMMA KeyOfContent ==
    ASSUME NEW w \in Contents
    PROVE  w.key \in Keys
BY DEF Contents

-----------------------------------------------------------------------------
(* Type correctness. *)

\* The types are kept if the calls, the tables and the count are.
LEMMA TypesFromParts ==
    ASSUME call' \in [Callers -> Calls \cup {NoCall}],
           \A y \in Callers : call'[y] # NoCall => Carries(call'[y]),
           draft' \in [Drafts -> Rows \cup {NoDraft, Deleted}],
           version' \in [Keys -> Contents \cup {NoVersion}],
           losses' \in 0 .. MaxLosses
    PROVE  DraftsTypeOK'
BY DEF DraftsTypeOK, Carries

\* A transaction moves its call on and keeps the types of the tables.
LEMMA TransactionMoves ==
    ASSUME DraftsTypeOK, NEW x \in Callers, Transaction(x)
    PROVE  /\ Moves(x)
           /\ draft' \in [Drafts -> Rows \cup {NoDraft, Deleted}]
           /\ version' \in [Keys -> Contents \cup {NoVersion}]
           /\ losses' = losses
<1> DEFINE c == call[x]
<1>1. /\ draft \in [Drafts -> Rows \cup {NoDraft, Deleted}]
      /\ version \in [Keys -> Contents \cup {NoVersion}]
      /\ call \in [Callers -> Calls \cup {NoCall}]
      /\ losses \in 0 .. MaxLosses
      /\ c # NoCall => c \in Calls /\ Carries(c)
  BY DEF DraftsTypeOK, Carries
<1>2. CASE CreateDraft(x)
  <2>1. c # NoCall /\ c.op = "create"
    BY <1>2 DEF CreateDraft, Runs, At
  <2>2. PICK d \in Drafts :
          /\ draft' = [draft EXCEPT ![d] = [rev |-> 1, content |-> c.content]]
          /\ call' = [call EXCEPT ![x].id = d, ![x].rev = 1, ![x].at = "written"]
    BY <1>2 DEF CreateDraft
  <2>3. c.content \in Contents
    BY <1>1, <2>1 DEF Carries
  <2>4. [rev |-> 1, content |-> c.content] \in Rows
    BY <2>3 DEF Rows
  <2>5. draft' \in [Drafts -> Rows \cup {NoDraft, Deleted}]
    BY <1>1, <2>2, <2>4
  <2> DEFINE n == [c EXCEPT !.id = d, !.rev = 1, !.at = "written"]
  <2>6. n \in Calls /\ n.op = "create" /\ n.content = c.content /\ n.id = d
    BY <1>1, <2>1 DEF Calls, Stages
  <2>7. Carries(n)
    BY <2>3, <2>6 DEF Carries
  <2>8. call' = [call EXCEPT ![x] = n]
    BY <1>1, <2>2
  <2> HIDE DEF n
  <2> QED
    BY <1>1, <1>2, <2>1, <2>5, <2>6, <2>7, <2>8, MoveTo DEF CreateDraft
<1>3. CASE ReadForUpdate(x)
  <2>1. c # NoCall
    BY <1>3 DEF ReadForUpdate, Runs, At
  <2>2. To(x, "current") \/ To(x, "refused")
    BY <1>3 DEF ReadForUpdate
  <2> QED
    BY <1>1, <1>3, <2>1, <2>2, StageStep
    DEF ReadForUpdate, Stages, Answers
<1>4. CASE WriteUpdate(x)
  <2>1. c # NoCall /\ c.op = "update"
    BY <1>4 DEF WriteUpdate, Runs, At
  <2>2. [rev |-> c.rev + 1, content |-> c.content] \in Rows
    BY <1>1, <2>1 DEF Carries, Rows, Calls
  <2>3. draft' \in [Drafts -> Rows \cup {NoDraft, Deleted}]
    BY <1>1, <1>4, <2>2 DEF WriteUpdate
  <2>4. To(x, "written") \/ To(x, "refused")
    BY <1>4 DEF WriteUpdate
  <2> QED
    BY <1>1, <1>4, <2>1, <2>3, <2>4, StageStep
    DEF WriteUpdate, Stages, Answers
<1>5. CASE ReadBack(x)
  <2>1. c # NoCall /\ c.op \in {"create", "update"} /\ c.at = "written"
    BY <1>5 DEF ReadBack, Runs, At
  <2>2. CASE Stored(c.id)
    <3> DEFINE n == [c EXCEPT !.rev = draft[c.id].rev,
                              !.content = draft[c.id].content, !.at = "answered"]
    <3>1. draft[c.id].rev \in Nat /\ draft[c.id].content \in Contents /\ c.id \in Drafts
      BY <2>2, StoredRow
    <3>2. /\ n \in Calls /\ n.op = c.op /\ n.content = draft[c.id].content
          /\ n.id = c.id
      BY <1>1, <2>1, <3>1 DEF Calls, Stages, Answers
    <3>3. Carries(n)
      BY <2>1, <3>1, <3>2 DEF Carries
    <3>4. call' = [call EXCEPT ![x] = n]
      BY <1>1, <1>5, <2>2 DEF ReadBack
    <3> HIDE DEF n
    <3> QED
      BY <1>1, <1>5, <2>1, <3>2, <3>3, <3>4, MoveTo DEF ReadBack
  <2>3. CASE ~Stored(c.id)
    <3>1. To(x, "refused")
      BY <1>5, <2>3 DEF ReadBack
    <3> QED
      BY <1>1, <1>5, <2>1, <3>1, StageStep DEF ReadBack, Stages, Answers
  <2> QED
    BY <2>2, <2>3
<1>6. CASE DeleteDraft(x)
  <2>1. c # NoCall /\ c.op = "delete"
    BY <1>6 DEF DeleteDraft, Runs, At
  <2>2. draft' \in [Drafts -> Rows \cup {NoDraft, Deleted}]
    BY <1>1, <1>6 DEF DeleteDraft
  <2>3. To(x, "answered") \/ To(x, "refused")
    BY <1>6 DEF DeleteDraft
  <2> QED
    BY <1>1, <1>6, <2>1, <2>2, <2>3, StageStep
    DEF DeleteDraft, Stages, Answers
<1>7. CASE ValidateDraft(x)
  <2>1. c # NoCall /\ c.op = "validate"
    BY <1>7 DEF ValidateDraft, Runs, At
  <2>2. \E s \in {"refused", "answered", "invalid"} : To(x, s)
    BY <1>7 DEF ValidateDraft
  <2> QED
    BY <1>1, <1>7, <2>1, <2>2, StageStep
    DEF ValidateDraft, Stages, Answers
<1>8. CASE CheckForPublish(x)
  <2>1. c # NoCall
    BY <1>8 DEF CheckForPublish, Runs, At
  <2>2. To(x, "checked") \/ To(x, "refused")
    BY <1>8 DEF CheckForPublish
  <2> QED
    BY <1>1, <1>8, <2>1, <2>2, StageStep
    DEF CheckForPublish, Stages, Answers
<1>9. CASE ReadAgain(x)
  <2>1. c # NoCall /\ c.op = "publish"
    BY <1>9 DEF ReadAgain, Runs, At
  <2>2. CASE Stored(c.id)
    <3> DEFINE n == [c EXCEPT !.content = draft[c.id].content, !.at = "read"]
    <3>1. draft[c.id].content \in Contents
      BY <2>2, StoredRow
    <3>2. /\ n \in Calls /\ n.op = "publish" /\ n.content = draft[c.id].content
          /\ n.id = c.id /\ n.at = "read"
      BY <1>1, <2>1, <3>1 DEF Calls, Stages
    <3>3. Carries(n)
      BY <1>1, <2>1, <3>1, <3>2 DEF Carries
    <3>4. call' = [call EXCEPT ![x] = n]
      BY <1>1, <1>9, <2>2 DEF ReadAgain
    <3> HIDE DEF n
    <3> QED
      BY <1>1, <1>9, <2>1, <3>2, <3>3, <3>4, MoveTo DEF ReadAgain
  <2>3. CASE ~Stored(c.id)
    <3>1. To(x, "refused")
      BY <1>9, <2>3 DEF ReadAgain
    <3> QED
      BY <1>1, <1>9, <2>1, <3>1, StageStep DEF ReadAgain, Stages, Answers
  <2> QED
    BY <2>2, <2>3
<1>10. CASE LookUp(x)
  <2>1. c # NoCall
    BY <1>10 DEF LookUp, Runs, At
  <2>2. (To(x, "looked") /\ c.content \in Valid) \/ To(x, "refused")
    BY <1>10 DEF LookUp
  <2> QED
    BY <1>1, <1>10, <2>1, <2>2, StageStep DEF LookUp, Stages, Answers
<1>11. CASE InsertOrIgnore(x)
  <2>1. c # NoCall /\ c.op = "publish" /\ c.at = "looked"
    BY <1>11 DEF InsertOrIgnore, Runs, At
  <2>2. c.content \in Contents /\ c.content.key \in Keys
    BY <1>1, <2>1, KeyOfContent DEF Carries
  <2> DEFINE k == c.content.key
  <2>3. /\ version' \in [Keys -> Contents \cup {NoVersion}]
        /\ version'[k] \in Contents
    BY <1>1, <1>11, <2>2, NullAssumption DEF InsertOrIgnore, NullAssumption
  <2> DEFINE n == [c EXCEPT !.content = version'[k], !.at = "answered"]
  <2>4. n \in Calls /\ n.op = "publish" /\ n.content = version'[k] /\ n.id = c.id
        /\ n.at = "answered"
    BY <1>1, <2>1, <2>3 DEF Calls, Stages, Answers
  <2>5. Carries(n)
    BY <1>1, <2>1, <2>3, <2>4 DEF Carries
  <2>6. call' = [call EXCEPT ![x] = n]
    <3>1. call' = [call EXCEPT ![x].content = version'[k], ![x].at = "answered"]
      BY <1>11, Zenon DEF InsertOrIgnore
    <3> HIDE DEF k
    <3> QED
      BY <1>1, <3>1
  <2> HIDE DEF n
  <2> QED
    BY <1>1, <1>11, <2>1, <2>3, <2>4, <2>5, <2>6, MoveTo DEF InsertOrIgnore
<1> QED
  BY <1>2, <1>3, <1>4, <1>5, <1>6, <1>7, <1>8, <1>9, <1>10, <1>11
  DEF Transaction
\* A call that moves on keeps the types of the calls.
LEMMA MovesTypes ==
    ASSUME DraftsTypeOK, NEW x \in Callers, Moves(x)
    PROVE  /\ call' \in [Callers -> Calls \cup {NoCall}]
           /\ \A y \in Callers : call'[y] # NoCall => Carries(call'[y])
           /\ call'[x] # NoCall /\ call'[x].op = call[x].op
           /\ \A y \in Callers \ {x} : call'[y] = call[y]
<1>1. PICK r \in Calls : /\ r.op = call[x].op /\ Carries(r)
                         /\ call' = [call EXCEPT ![x] = r]
  BY DEF Moves
<1>2. call'[x] = r /\ r # NoCall /\ \A y \in Callers \ {x} : call'[y] = call[y]
  BY <1>1, NullAssumption DEF DraftsTypeOK, NullAssumption
<1> QED
  BY <1>1, <1>2, CallStep

\* A transaction of a call keeps the types.
LEMMA TransactionTypes ==
    ASSUME DraftsTypeOK, NEW x \in Callers, Transaction(x)
    PROVE  DraftsTypeOK'
BY TransactionMoves, MovesTypes, TypesFromParts DEF DraftsTypeOK

\* A lost message is answered with an error.
LEMMA LossTypes ==
    ASSUME DraftsTypeOK, NEW x \in Callers, Lose(x)
    PROVE  DraftsTypeOK' /\ Moves(x)
<1>1. call[x] # NoCall /\ To(x, "refused")
  BY DEF Lose
<1>2. losses' \in 0 .. MaxLosses
  BY DraftAssumption DEF Lose, DraftsTypeOK, DraftAssumption
<1> QED
  BY <1>1, <1>2, StageStep, MovesTypes, TypesFromParts
  DEF Lose, Stages, Answers, DraftsTypeOK

\* Every step of the service with its clients keeps the types.
LEMMA DraftsStep ==
    ASSUME DraftsTypeOK, [DNext]_dvars
    PROVE  DraftsTypeOK'
<1>1. CASE UNCHANGED dvars
  BY <1>1 DEF dvars, DraftsTypeOK
<1>2. ASSUME NEW x \in Callers, Receive(x) PROVE DraftsTypeOK'
  BY <1>2, CallStep, TypesFromParts DEF Receive, DraftsTypeOK
<1>3. ASSUME NEW x \in Callers, NEW r, Send(x, r) PROVE DraftsTypeOK'
  <2>1. r \in Calls /\ Carries(r)
    BY <1>3 DEF Send, Calls, Carries
  <2> QED
    BY <1>3, <2>1, CallStep, TypesFromParts DEF Send, DraftsTypeOK
<1> QED
  BY <1>1, <1>2, <1>3, TransactionTypes, LossTypes DEF DNext

\* The tables and the calls keep their types, and a call carries what its
\* stage has read (the five operations of engine.py).
THEOREM DraftsTypeCorrect == DSpec => []DraftsTypeOK
<1>1. DInit => DraftsTypeOK
  BY DraftAssumption DEF DInit, DraftsTypeOK, DraftAssumption
<1> QED
  BY <1>1, DraftsStep, PTL DEF DSpec

-----------------------------------------------------------------------------
(* The refinement. *)

\* The initial tables are those of the registers.
LEMMA InitImplements ==
    ASSUME DInit
    PROVE  Service!Init
BY DEF DInit, Service!Init

\* Each transaction is a step of the registers or leaves them alone.
LEMMA TransactionImplements ==
    ASSUME DraftsTypeOK, NEW x \in Callers, Transaction(x)
    PROVE  [Service!Next]_<<draft, version>>
<1> DEFINE c == call[x]
<1>1. /\ draft \in [Drafts -> Rows \cup {NoDraft, Deleted}]
      /\ version \in [Keys -> Contents \cup {NoVersion}]
      /\ c # NoCall => c \in Calls /\ Carries(c)
  BY DEF DraftsTypeOK, Carries
<1>2. CASE CreateDraft(x)
  <2>1. c # NoCall /\ c.op = "create"
    BY <1>2 DEF CreateDraft, Runs, At
  <2>2. c.content \in Contents
    BY <1>1, <2>1 DEF Carries
  <2>3. PICK d \in Drafts :
          /\ draft[d] = NoDraft
          /\ draft' = [draft EXCEPT ![d] = [rev |-> 1, content |-> c.content]]
    BY <1>2 DEF CreateDraft
  <2>4. Service!Create(d, c.content)
    BY <1>2, <2>3 DEF CreateDraft, Service!Create
  <2> QED
    BY <2>2, <2>4 DEF Service!Next
<1>3. CASE WriteUpdate(x)
  <2>1. c # NoCall /\ c.op = "update"
    BY <1>3 DEF WriteUpdate, Runs, At
  <2>2. c.content \in Contents
    BY <1>1, <2>1 DEF Carries
  <2>3. CASE IsCurrent(c.id, c.rev)
    <3>1. c.id \in Drafts /\ Service!Exists(c.id) /\ draft[c.id].rev = c.rev
      BY <2>3 DEF IsCurrent, Stored, Service!Exists
    <3>2. Service!Save(c.id, c.content)
      BY <1>3, <2>3, <3>1 DEF WriteUpdate, Service!Save
    <3> QED
      BY <2>2, <3>1, <3>2 DEF Service!Next
  <2>4. CASE ~IsCurrent(c.id, c.rev)
    BY <1>3, <2>4 DEF WriteUpdate
  <2> QED
    BY <2>3, <2>4
<1>4. CASE DeleteDraft(x)
  <2>1. CASE IsCurrent(c.id, c.rev)
    <3>1. c.id \in Drafts /\ Service!Remove(c.id)
      BY <1>4, <2>1 DEF DeleteDraft, IsCurrent, Stored, Service!Remove, Service!Exists
    <3> QED
      BY <3>1 DEF Service!Next
  <2>2. CASE ~IsCurrent(c.id, c.rev)
    BY <1>4, <2>2 DEF DeleteDraft
  <2> QED
    BY <2>1, <2>2
<1>5. CASE InsertOrIgnore(x)
  <2>1. c # NoCall /\ c.op = "publish" /\ c.at = "looked"
    BY <1>5 DEF InsertOrIgnore, Runs, At
  <2>2. c.content \in Valid /\ c.content \in Contents /\ c.content.key \in Keys
    BY <1>1, <2>1, KeyOfContent DEF Carries
  <2> DEFINE k == c.content.key
  <2>3. CASE version[k] = NoVersion
    <3>1. version' = [version EXCEPT ![k] = c.content] /\ draft' = draft
      BY <1>5, <2>3 DEF InsertOrIgnore
    <3>2. Service!Register(c.content)
      BY <2>2, <2>3, <3>1 DEF Service!Register
    <3> QED
      BY <2>2, <3>2 DEF Service!Next
  <2>4. CASE version[k] # NoVersion
    <3>1. version' = [version EXCEPT ![k] = @] /\ draft' = draft
      BY <1>5, <2>4 DEF InsertOrIgnore
    <3> QED
      BY <1>1, <2>2, <3>1
  <2> QED
    BY <2>3, <2>4
<1> QED
  BY <1>2, <1>3, <1>4, <1>5
  DEF Transaction, ReadForUpdate, ReadBack, ValidateDraft, CheckForPublish,
      ReadAgain, LookUp

\* The tables under any interleaving of the calls of any number of clients
\* are the registers of DraftService (update_workflow_draft, whose UPDATE
\* names the revision, and register_workflow, whose INSERT ignores a row
\* that is there).
THEOREM DraftsImplementService == DSpec => ServiceSpec
<1>1. DraftsTypeOK /\ [DNext]_dvars => [Service!Next]_(Service!svars)
  <2> SUFFICES ASSUME DraftsTypeOK, [DNext]_dvars
               PROVE  [Service!Next]_<<draft, version>>
    BY DEF Service!svars
  <2>1. CASE UNCHANGED dvars
    BY <2>1 DEF dvars
  <2>2. ASSUME NEW x \in Callers, Lose(x) \/ Receive(x) \/ \E r : Send(x, r)
        PROVE  UNCHANGED <<draft, version>>
    BY <2>2 DEF Lose, Receive, Send
  <2> QED
    BY <2>1, <2>2, TransactionImplements DEF DNext
<1> QED
  BY <1>1, InitImplements, DraftsTypeCorrect, PTL DEF DSpec, ServiceSpec, Service!Spec
=============================================================================
