--------------------------- MODULE ComposerProofs ---------------------------
(***************************************************************************)
(* Proofs about Composer, for any number of composers, drafts, versions    *)
(* and edits: the types with the links between the flows of a composer and *)
(* its requests, and that the draft service, driven by these composers,    *)
(* implements the registers of DraftService.  Then, of users who wait for  *)
(* answers and of calls that do not interleave: what is shown as saved is  *)
(* stored, and no save loses an edit that was saved before.                *)
(*                                                                         *)
(* The first inductive invariant, ComposerInv, adds to ComposerTypeOK what *)
(* each request of a composer is for: the answer to "publishing" is a      *)
(* version only because the request was one to publish.  The second one,   *)
(* PatientInv, says what the screens and the calls claim of the drafts.    *)
(***************************************************************************)
EXTENDS Composer, WorkflowDraftsProofs

\* The links between the flows of c and its requests (the last conjuncts of
\* ComposerTypeOK), with the operation of each request.
Linked(c) ==
    /\ Awaiting(c) # {} => Saving(c)
    /\ \A k \in Checks :
         /\ (ui[c].flow[k] \in {"asking", "publishing"}) = (call[<<c, k>>] # NoCall)
         /\ ui[c].flow[k] = "asking" => call[<<c, k>>].op = "validate"
         /\ ui[c].flow[k] = "publishing" => call[<<c, k>>].op = "publish"
    /\ Saving(c) => call[<<c, "save">>].op \in {"create", "update"}
    /\ call[<<c, "delete">>] # NoCall => call[<<c, "delete">>].op = "delete"

ComposerInv ==
    /\ DraftsTypeOK
    /\ ui \in [Composers -> Surfaces]
    /\ \A c \in Composers : Linked(c)

\* The slots of a composer are callers.
LEMMA SlotsAreCallers ==
    /\ \A c \in Composers, s \in Slots : <<c, s>> \in Callers
    /\ \A x \in Callers : x \in Composers \X Slots
    /\ "save" \in Slots /\ "delete" \in Slots /\ Checks \subseteq Slots
    /\ "save" \notin Checks /\ "delete" \notin Checks
BY ComposerAssumption DEF ComposerAssumption, Slots

\* A composer whose flows and requests are left alone stays linked.
LEMMA LinkedFrame ==
    ASSUME NEW c \in Composers, Linked(c),
           ui'[c].flow = ui[c].flow,
           \A s \in Slots : call'[<<c, s>>] = call[<<c, s>>]
    PROVE  Linked(c)'
BY SlotsAreCallers DEF Linked, Awaiting, Saving

\* What Show makes of the composers.
LEMMA ShowTypes ==
    ASSUME ui \in [Composers -> Surfaces], NEW c \in Composers,
           NEW u \in Surfaces, ui' = Show(c, u)
    PROVE  /\ ui' \in [Composers -> Surfaces]
           /\ ui'[c].flow = u.flow
           /\ \A e \in Composers \ {c} : ui'[e] = ui[e]
<1> DEFINE v == IF Open(c) THEN u ELSE [ui[c] EXCEPT !.flow = u.flow]
<1>1. v \in Surfaces /\ v.flow = u.flow
  <2>1. ui[c] \in Surfaces
    OBVIOUS
  <2>2. u.flow \in [Checks -> {"idle", "saving", "asking", "publishing"}]
    BY DEF Surfaces
  <2>3. /\ [ui[c] EXCEPT !.flow = u.flow] \in Surfaces
        /\ [ui[c] EXCEPT !.flow = u.flow].flow = u.flow
    BY <2>1, <2>2 DEF Surfaces
  <2> QED
    BY <2>3
<1>2. ui' = [ui EXCEPT ![c] = v]
  BY DEF Show
<1> HIDE DEF v
<1> QED
  BY <1>1, <1>2

\* The invariant is kept by a step of composer c alone.
LEMMA OneComposer ==
    ASSUME ComposerInv, NEW c \in Composers,
           DraftsTypeOK', ui' \in [Composers -> Surfaces],
           \A e \in Composers \ {c} : ui'[e].flow = ui[e].flow,
           \A e \in Composers \ {c}, s \in Slots : call'[<<e, s>>] = call[<<e, s>>],
           Linked(c)'
    PROVE  ComposerInv'
<1>1. \A e \in Composers \ {c} : Linked(e)'
  BY LinkedFrame DEF ComposerInv
<1> QED
  BY <1>1 DEF ComposerInv

\* One call changes, to one that carries what its stage says.
LEMMA CallOnly ==
    ASSUME DraftsTypeOK, NEW x \in Callers, NEW r,
           (r \in Calls /\ Carries(r)) \/ r = NoCall,
           call' = [call EXCEPT ![x] = r],
           UNCHANGED <<draft, version, losses>>
    PROVE  /\ DraftsTypeOK'
           /\ call'[x] = r
           /\ \A y \in Callers \ {x} : call'[y] = call[y]
BY CallStep, TypesFromParts DEF DraftsTypeOK

\* Nothing but the screen changes.
LEMMA CallsLeft ==
    ASSUME DraftsTypeOK, UNCHANGED <<draft, version, call, losses>>
    PROVE  DraftsTypeOK'
BY DEF DraftsTypeOK

\* The request of a save carries the canvas.
LEMMA SaveRequestCarries ==
    ASSUME NEW u \in Surfaces
    PROVE  /\ SaveRequest(u) \in Calls /\ Carries(SaveRequest(u))
           /\ SaveRequest(u).op \in {"create", "update"}
           /\ SaveRequest(u) # NoCall
<1>1. u.canvas \in Contents
  BY DEF Surfaces
<1>2. u.ref # NoRef => u.ref.id \in Drafts /\ u.ref.rev \in Nat
  BY DEF Surfaces, References
<1> QED
  BY <1>1, <1>2, NullAssumption
  DEF NullAssumption, SaveRequest, Request, Calls, Carries, Operations, Stages

\* A request that names a draft and brings no content.
LEMMA RequestCarries ==
    ASSUME NEW op \in {"validate", "publish", "delete"},
           NEW d \in Drafts, NEW rev \in Nat
    PROVE  /\ Request(op, d, rev, NoContent) \in Calls
           /\ Carries(Request(op, d, rev, NoContent))
           /\ Request(op, d, rev, NoContent).op = op
           /\ Request(op, d, rev, NoContent) # NoCall
BY NullAssumption DEF NullAssumption, Request, Calls, Carries, Operations, Stages

\* The state that a composer has after a reset.
LEMMA ResetTypes ==
    ASSUME NEW u \in Surfaces, NEW w \in Contents, NEW r \in References \cup {NoRef}
    PROVE  Reset(u, w, r) \in Surfaces /\ Reset(u, w, r).flow = u.flow
BY DEF Reset, Surfaces

LEMMA BlankTypes == Blank \in Contents
BY ComposerAssumption DEF ComposerAssumption, Blank, Contents

-----------------------------------------------------------------------------
(* The users' actions. *)

\* The steps of composer c that change its screen only, and no flow of it.
LEMMA ScreenStep ==
    ASSUME ComposerInv, NEW c \in Composers, NEW u \in Surfaces,
           u.flow = ui[c].flow, ui' = [ui EXCEPT ![c] = u],
           UNCHANGED <<draft, version, call>>, losses' \in 0 .. MaxLosses
    PROVE  ComposerInv'
<1>1. DraftsTypeOK'
  BY DEF ComposerInv, DraftsTypeOK
<1>2. ui' \in [Composers -> Surfaces] /\ ui'[c].flow = ui[c].flow
      /\ \A e \in Composers \ {c} : ui'[e] = ui[e]
  BY DEF ComposerInv
<1>3. Linked(c)'
  BY <1>2, LinkedFrame DEF ComposerInv
<1> QED
  BY <1>1, <1>2, <1>3, OneComposer

\* What users do keeps the invariant.
LEMMA UserStep ==
    ASSUME ComposerInv, NEW c \in Composers, User(c)
    PROVE  ComposerInv'
<1>1. /\ DraftsTypeOK /\ ui \in [Composers -> Surfaces] /\ ui[c] \in Surfaces
      /\ Linked(c) /\ losses \in 0 .. MaxLosses
      /\ \A s \in Slots : <<c, s>> \in Callers
  BY SlotsAreCallers DEF ComposerInv, DraftsTypeOK
<1> DEFINE old == ui[c]
<1>2. CASE Mount(c)
  <2> DEFINE rows == [d \in Drafts |-> IF Stored(d) THEN draft[d] ELSE NoDraft]
             u == [old EXCEPT !.page = "open", !.listed = rows]
  <2>1. rows \in [Drafts -> Rows \cup {NoDraft}]
    BY <1>1, StoredRow
  <2>2. u \in Surfaces /\ u.flow = old.flow
    BY <1>1, <2>1 DEF Surfaces
  <2>3. ui' = [ui EXCEPT ![c] = u]
    BY <1>1, <1>2 DEF Mount
  <2> HIDE DEF u
  <2> QED
    BY <1>1, <1>2, <2>2, <2>3, ScreenStep DEF Mount, dvars
<1>3. CASE MountFailed(c)
  <2> DEFINE u == [old EXCEPT !.page = "open", !.save = "error"]
  <2>1. u \in Surfaces /\ u.flow = old.flow
    BY <1>1 DEF Surfaces
  <2>2. ui' = [ui EXCEPT ![c] = u]
    BY <1>1, <1>3 DEF MountFailed
  <2>3. losses' \in 0 .. MaxLosses
    BY <1>1, <1>3, DraftAssumption DEF MountFailed, DraftAssumption
  <2> HIDE DEF u
  <2> QED
    BY <1>3, <2>1, <2>2, <2>3, ScreenStep DEF MountFailed
<1>4. CASE Unmount(c)
  <2> DEFINE u == Unmounted("left", old.flow)
  <2>1. u \in Surfaces /\ u.flow = old.flow
    BY <1>1, BlankTypes DEF Surfaces, Unmounted
  <2>2. ui' = [ui EXCEPT ![c] = u]
    BY <1>4 DEF Unmount
  <2> HIDE DEF u
  <2> QED
    BY <1>1, <1>4, <2>1, <2>2, ScreenStep DEF Unmount, dvars
<1>5. CASE Edit(c)
  <2>1. PICK e \in Edits, k \in Keys :
          ui' = [ui EXCEPT ![c].canvas = [key |-> k, edits |-> @.edits \cup {e}],
                           ![c].published = NoVersion, ![c].save = "dirty",
                           ![c].touched = TRUE]
    BY <1>5 DEF Edit
  <2> DEFINE u == [old EXCEPT !.canvas = [key |-> k, edits |-> @.edits \cup {e}],
                              !.published = NoVersion, !.save = "dirty",
                              !.touched = TRUE]
  <2>2. old.canvas.edits \cup {e} \in SUBSET Edits
    BY <1>1 DEF Surfaces, Contents
  <2>3. u \in Surfaces /\ u.flow = old.flow
    BY <1>1, <2>2 DEF Surfaces, Contents
  <2>4. ui' = [ui EXCEPT ![c] = u]
    BY <1>1, <2>1
  <2> HIDE DEF u
  <2> QED
    BY <1>1, <1>5, <2>3, <2>4, ScreenStep DEF Edit, dvars
<1>6. CASE NewWorkflow(c)
  <2>1. Reset(old, Blank, NoRef) \in Surfaces /\ Reset(old, Blank, NoRef).flow = old.flow
    BY <1>1, BlankTypes, ResetTypes
  <2>2. ui' = [ui EXCEPT ![c] = Reset(old, Blank, NoRef)]
    BY <1>6 DEF NewWorkflow
  <2> QED
    BY <1>1, <1>6, <2>1, <2>2, ScreenStep DEF NewWorkflow, dvars
<1>7. CASE OpenTemplate(c)
  <2>1. PICK k \in Keys, copy \in Keys :
          /\ version[k] # NoVersion
          /\ ui' = [ui EXCEPT ![c] =
                      Reset(@, [version[k] EXCEPT !.key = copy], NoRef)]
    BY <1>7 DEF OpenTemplate
  <2> DEFINE w == [version[k] EXCEPT !.key = copy]
  <2>2. w \in Contents
    BY <1>1, <2>1 DEF DraftsTypeOK, Contents
  <2>3. Reset(old, w, NoRef) \in Surfaces /\ Reset(old, w, NoRef).flow = old.flow
    BY <1>1, <2>2, ResetTypes
  <2>4. ui' = [ui EXCEPT ![c] = Reset(old, w, NoRef)]
    BY <2>1
  <2> HIDE DEF w
  <2> QED
    BY <1>1, <1>7, <2>3, <2>4, ScreenStep DEF OpenTemplate, dvars
<1>8. CASE OpenDraft(c)
  <2>1. PICK d \in Drafts :
          /\ old.listed[d] # NoDraft
          /\ ui' = [ui EXCEPT ![c] =
                      Reset(@, old.listed[d].content,
                            [id |-> d, rev |-> old.listed[d].rev])]
    BY <1>8 DEF OpenDraft
  <2> DEFINE w == old.listed[d].content
             r == [id |-> d, rev |-> old.listed[d].rev]
  <2>2. w \in Contents /\ r \in References
    BY <1>1, <2>1 DEF Surfaces, Rows, References
  <2>3. Reset(old, w, r) \in Surfaces /\ Reset(old, w, r).flow = old.flow
    BY <1>1, <2>2, ResetTypes
  <2>4. ui' = [ui EXCEPT ![c] = Reset(old, w, r)]
    BY <2>1
  <2> HIDE DEF w, r
  <2> QED
    BY <1>1, <1>8, <2>3, <2>4, ScreenStep DEF OpenDraft, dvars
<1>9. CASE Save(c)
  <2> DEFINE x == <<c, "save">>
             u == SaveStarted(old)
  <2>1. u \in Surfaces /\ u.flow = old.flow
    BY <1>1 DEF SaveStarted, Surfaces
  <2>2. /\ ui' = [ui EXCEPT ![c] = u]
        /\ call' = [call EXCEPT ![x] = SaveRequest(old)]
        /\ UNCHANGED <<draft, version, losses>> /\ ~Saving(c)
    BY <1>9 DEF Save
  <2>3. /\ DraftsTypeOK' /\ call'[x] = SaveRequest(old)
        /\ \A y \in Callers \ {x} : call'[y] = call[y]
    BY <1>1, <2>2, SaveRequestCarries, CallOnly, SlotsAreCallers
  <2>4. /\ ui' \in [Composers -> Surfaces] /\ ui'[c].flow = old.flow
        /\ \A e \in Composers \ {c} : ui'[e] = ui[e]
    BY <1>1, <2>1, <2>2
  <2>5. Linked(c)'
    BY <1>1, <2>3, <2>4, SaveRequestCarries, SlotsAreCallers DEF Linked, Awaiting, Saving
  <2> QED
    BY <2>3, <2>4, <2>5, OneComposer, SlotsAreCallers
<1>10. CASE Delete(c)
  <2> DEFINE x == <<c, "delete">>
             r == Request("delete", old.ref.id, old.ref.rev, NoContent)
  <2>1. old.ref.id \in Drafts /\ old.ref.rev \in Nat
    BY <1>1, <1>10 DEF Delete, Surfaces, References
  <2>2. r \in Calls /\ Carries(r) /\ r.op = "delete"
    BY <2>1, RequestCarries
  <2>3. /\ call' = [call EXCEPT ![x] = r]
        /\ UNCHANGED <<draft, version, losses>> /\ ui' = ui
    BY <1>10 DEF Delete
  <2>4. /\ DraftsTypeOK' /\ call'[x] = r
        /\ \A y \in Callers \ {x} : call'[y] = call[y]
    BY <1>1, <2>2, <2>3, CallOnly, SlotsAreCallers
  <2>5. Linked(c)'
    BY <1>1, <2>2, <2>3, <2>4, SlotsAreCallers DEF Linked, Awaiting, Saving
  <2> QED
    BY <1>1, <2>3, <2>4, <2>5, OneComposer, SlotsAreCallers
<1>11. ASSUME NEW k \in Checks, Check(c, k) PROVE ComposerInv'
  <2>1. CASE old.canvas.edits \cap Flawed # {}
    <3> DEFINE u == [old EXCEPT !.save = "error"]
    <3>1. u \in Surfaces /\ u.flow = old.flow
      BY <1>1 DEF Surfaces
    <3>2. ui' = [ui EXCEPT ![c] = u] /\ UNCHANGED <<draft, version, call, losses>>
      BY <1>1, <1>11, <2>1 DEF Check
    <3> HIDE DEF u
    <3> QED
      BY <1>1, <3>1, <3>2, ScreenStep
  <2>2. CASE old.canvas.edits \cap Flawed = {} /\ Saving(c)
    <3> DEFINE u == [old EXCEPT !.flow[k] = "saving"]
    <3>1. u \in Surfaces /\ u.flow = [old.flow EXCEPT ![k] = "saving"]
      BY <1>1 DEF Surfaces
    <3>2. /\ ui' = [ui EXCEPT ![c] = u] /\ UNCHANGED <<draft, version, call, losses>>
          /\ old.flow[k] = "idle"
      BY <1>1, <1>11, <2>2 DEF Check
    <3>3. /\ ui' \in [Composers -> Surfaces]
          /\ ui'[c].flow = [old.flow EXCEPT ![k] = "saving"]
          /\ \A e \in Composers \ {c} : ui'[e] = ui[e]
      BY <1>1, <3>1, <3>2
    <3>4. Linked(c)'
      BY <1>1, <2>2, <3>2, <3>3 DEF Linked, Awaiting, Saving, Surfaces
    <3> HIDE DEF u
    <3> QED
      BY <1>1, <3>2, <3>3, <3>4, CallsLeft, OneComposer
  <2>3. CASE old.canvas.edits \cap Flawed = {} /\ ~Saving(c)
    <3> DEFINE x == <<c, "save">>
               u == [SaveStarted(old) EXCEPT !.flow[k] = "saving"]
    <3>1. u \in Surfaces /\ u.flow = [old.flow EXCEPT ![k] = "saving"]
      BY <1>1 DEF Surfaces, SaveStarted
    <3>2. /\ ui' = [ui EXCEPT ![c] = u]
          /\ call' = [call EXCEPT ![x] = SaveRequest(old)]
          /\ UNCHANGED <<draft, version, losses>> /\ old.flow[k] = "idle"
      BY <1>1, <1>11, <2>3 DEF Check
    <3>3. /\ ui' \in [Composers -> Surfaces]
          /\ ui'[c].flow = [old.flow EXCEPT ![k] = "saving"]
          /\ \A e \in Composers \ {c} : ui'[e] = ui[e]
      BY <1>1, <3>1, <3>2
    <3>4. /\ DraftsTypeOK' /\ call'[x] = SaveRequest(old)
          /\ \A y \in Callers \ {x} : call'[y] = call[y]
      BY <1>1, <3>2, SaveRequestCarries, CallOnly, SlotsAreCallers
    <3>5. Linked(c)'
      BY <1>1, <3>2, <3>3, <3>4, SaveRequestCarries, SlotsAreCallers, SMTT(30)
      DEF Linked, Awaiting, Saving, Surfaces
    <3> HIDE DEF u
    <3> QED
      BY <3>3, <3>4, <3>5, OneComposer, SlotsAreCallers
  <2> QED
    BY <2>1, <2>2, <2>3
<1> QED
  BY <1>2, <1>3, <1>4, <1>5, <1>6, <1>7, <1>8, <1>9, <1>10, <1>11 DEF User

-----------------------------------------------------------------------------
(* The browser's continuations. *)

\* An answered call of one of the slots of c, and its request.
LEMMA AnsweredCall ==
    ASSUME ComposerInv, NEW c \in Composers, NEW s \in Slots, NEW a,
           Answered(<<c, s>>, a)
    PROVE  /\ <<c, s>> \in Callers
           /\ call[<<c, s>>] \in Calls /\ Carries(call[<<c, s>>])
           /\ call[<<c, s>>] # NoCall /\ call[<<c, s>>].at = a
BY SlotsAreCallers DEF ComposerInv, DraftsTypeOK, Carries, Answered

\* The steps that end a call of composer c without a new one, and that
\* leave the flows linked: a save or a deletion that ends.
LEMMA CallEnds ==
    ASSUME ComposerInv, NEW c \in Composers, NEW s \in Slots,
           NEW u \in Surfaces, ui' = Show(c, u),
           call' = [call EXCEPT ![<<c, s>>] = NoCall],
           UNCHANGED <<draft, version, losses>>,
           \/ s = "delete" /\ u.flow = ui[c].flow
           \/ s = "save" /\ u.flow = Flows(c, "idle")
           \/ s \in Checks /\ u.flow = [ui[c].flow EXCEPT ![s] = "idle"]
    PROVE  ComposerInv'
<1>1. /\ DraftsTypeOK /\ ui \in [Composers -> Surfaces] /\ ui[c] \in Surfaces
      /\ Linked(c) /\ <<c, s>> \in Callers
      /\ ui[c].flow \in [Checks -> {"idle", "saving", "asking", "publishing"}]
  BY SlotsAreCallers DEF ComposerInv, Surfaces
<1>2. /\ DraftsTypeOK' /\ call'[<<c, s>>] = NoCall
      /\ \A y \in Callers \ {<<c, s>>} : call'[y] = call[y]
  BY <1>1, CallOnly
<1>3. /\ ui' \in [Composers -> Surfaces] /\ ui'[c].flow = u.flow
      /\ \A e \in Composers \ {c} : ui'[e] = ui[e]
  BY <1>1, ShowTypes
<1>4. Linked(c)'
  <2>1. CASE s = "delete" /\ u.flow = ui[c].flow
    BY <1>1, <1>2, <1>3, <2>1, SlotsAreCallers DEF Linked, Awaiting, Saving
  <2>2. CASE s = "save" /\ u.flow = Flows(c, "idle")
    <3>1. \A k \in Checks : /\ ui'[c].flow[k] # "saving"
                            /\ ui[c].flow[k] # "saving" => ui'[c].flow[k] = ui[c].flow[k]
                            /\ ui[c].flow[k] = "saving" => ui'[c].flow[k] = "idle"
      BY <1>3, <2>2 DEF Flows, Awaiting
    <3>2. /\ \A k \in Checks : call'[<<c, k>>] = call[<<c, k>>]
          /\ call'[<<c, "delete">>] = call[<<c, "delete">>]
          /\ call'[<<c, "save">>] = NoCall
      BY <1>2, <2>2, SlotsAreCallers
    <3>3. \A k \in Checks : (ui'[c].flow[k] \in {"asking", "publishing"})
                             = (ui[c].flow[k] \in {"asking", "publishing"})
      BY <3>1
    <3>4. Awaiting(c)' = {}
      BY <3>1 DEF Awaiting
    <3>5. \A k \in Checks : ui'[c].flow[k] \in {"asking", "publishing"}
                             => ui'[c].flow[k] = ui[c].flow[k]
      BY <3>1
    <3> QED
      BY <1>1, <3>2, <3>3, <3>4, <3>5 DEF Linked, Saving
  <2>3. CASE s \in Checks /\ u.flow = [ui[c].flow EXCEPT ![s] = "idle"]
    <3>1. \A k \in Checks : IF k = s THEN ui'[c].flow[k] = "idle"
                             ELSE ui'[c].flow[k] = ui[c].flow[k]
      BY <1>1, <1>3, <2>3
    <3> QED
      BY <1>1, <1>2, <2>3, <3>1, SlotsAreCallers DEF Linked, Awaiting, Saving
  <2> QED
    BY <2>1, <2>2, <2>3
<1> QED
  BY <1>2, <1>3, <1>4, OneComposer, SlotsAreCallers

\* A flow of c that ends.
LEMMA EndsStep ==
    ASSUME ComposerInv, NEW c \in Composers, NEW k \in Checks,
           NEW m \in {"saved", "error"}, Ends(c, k, m)
    PROVE  ComposerInv'
<1> DEFINE u == [ui[c] EXCEPT !.flow[k] = "idle", !.save = m]
<1>1. ui[c] \in Surfaces
  BY DEF ComposerInv
<1>2. u \in Surfaces /\ u.flow = [ui[c].flow EXCEPT ![k] = "idle"]
  BY <1>1 DEF Surfaces
<1>3. ui' = Show(c, u)
  BY DEF Ends
<1> HIDE DEF u
<1> QED
  BY <1>2, <1>3, CallEnds, SlotsAreCallers DEF Ends

\* A save that is answered keeps the invariant: the flows that await it go
\* on to their validation.
LEMMA SaveDoneStep ==
    ASSUME ComposerInv, NEW c \in Composers, SaveDone(c)
    PROVE  ComposerInv'
<1> DEFINE x == <<c, "save">>
           m == IF ui[c].touched THEN ui[c].save ELSE "saved"
           r == Request("validate", call[x].id, call[x].rev, NoContent)
           u == [ui[c] EXCEPT !.ref = [id |-> call[x].id, rev |-> call[x].rev],
                              !.listed[call[x].id] = Row(call[x]),
                              !.save = m,
                              !.flow = Flows(c, "asking")]
<1>1. /\ DraftsTypeOK /\ ui \in [Composers -> Surfaces] /\ ui[c] \in Surfaces
      /\ Linked(c)
      /\ ui[c].flow \in [Checks -> {"idle", "saving", "asking", "publishing"}]
  BY DEF ComposerInv, Surfaces
<1>2. /\ Answered(x, "answered") /\ ui' = Show(c, u)
      /\ UNCHANGED <<draft, version, losses>>
      /\ call' = [y \in Callers |->
                   IF y = x THEN NoCall
                   ELSE IF y[1] = c /\ y[2] \in Awaiting(c) THEN r ELSE call[y]]
  BY DEF SaveDone
<1>3. /\ x \in Callers /\ call[x] \in Calls /\ Carries(call[x]) /\ call[x] # NoCall
      /\ call[x].at = "answered" /\ call[x].op \in {"create", "update"}
  BY <1>1, <1>2, AnsweredCall, SlotsAreCallers DEF Linked, Saving
<1>4. call[x].id \in Drafts /\ call[x].rev \in Nat /\ call[x].content \in Contents
  BY <1>3 DEF Carries, Calls
<1>5. r \in Calls /\ Carries(r) /\ r.op = "validate" /\ r # NoCall
  BY <1>4, RequestCarries
<1>6. Flows(c, "asking") \in [Checks -> {"idle", "saving", "asking", "publishing"}]
  BY <1>1 DEF Flows
<1>7. u \in Surfaces /\ u.flow = Flows(c, "asking")
  <2>1. Row(call[x]) \in Rows
    BY <1>4 DEF Row, Rows
  <2>2. [id |-> call[x].id, rev |-> call[x].rev] \in References
    BY <1>4 DEF References
  <2>3. m \in {"idle", "dirty", "saving", "saved", "error"}
    BY <1>1 DEF Surfaces
  <2> HIDE DEF m
  <2> QED
    BY <1>1, <1>4, <1>6, <2>1, <2>2, <2>3 DEF Surfaces
<1>8. /\ ui' \in [Composers -> Surfaces] /\ ui'[c].flow = Flows(c, "asking")
      /\ \A e \in Composers \ {c} : ui'[e] = ui[e]
  BY <1>1, <1>2, <1>7, ShowTypes
<1>9. DraftsTypeOK'
  <2>1. call' \in [Callers -> Calls \cup {NoCall}]
    BY <1>1, <1>2, <1>5 DEF DraftsTypeOK
  <2>2. \A y \in Callers : call'[y] # NoCall => Carries(call'[y])
    BY <1>1, <1>2, <1>5 DEF DraftsTypeOK, Carries
  <2> QED
    BY <1>1, <1>2, <2>1, <2>2, TypesFromParts DEF DraftsTypeOK
<1>10. /\ call'[x] = NoCall
       /\ \A k \in Checks : call'[<<c, k>>] = IF k \in Awaiting(c) THEN r
                                              ELSE call[<<c, k>>]
       /\ call'[<<c, "delete">>] = call[<<c, "delete">>]
       /\ \A e \in Composers \ {c}, s \in Slots : call'[<<e, s>>] = call[<<e, s>>]
  BY <1>2, SlotsAreCallers DEF Awaiting
<1>11. Linked(c)'
  <2>1. \A k \in Checks : IF k \in Awaiting(c) THEN ui'[c].flow[k] = "asking"
                          ELSE ui'[c].flow[k] = ui[c].flow[k] /\ ui[c].flow[k] # "saving"
    BY <1>8 DEF Flows, Awaiting
  <2> HIDE DEF r
  <2> QED
    BY <1>1, <1>5, <1>10, <2>1 DEF Linked, Awaiting, Saving
<1> QED
  BY <1>8, <1>9, <1>10, <1>11, OneComposer

\* The continuations keep the invariant.
LEMMA BrowserStep ==
    ASSUME ComposerInv, NEW c \in Composers, Browser(c)
    PROVE  ComposerInv'
<1>1. /\ DraftsTypeOK /\ ui \in [Composers -> Surfaces] /\ ui[c] \in Surfaces
      /\ Linked(c)
      /\ ui[c].flow \in [Checks -> {"idle", "saving", "asking", "publishing"}]
  BY DEF ComposerInv, Surfaces
<1> DEFINE old == ui[c]
<1>2. CASE Autosave(c)
  <2> DEFINE x == <<c, "save">>
             u == SaveStarted(old)
  <2>1. u \in Surfaces /\ u.flow = old.flow
    BY <1>1 DEF SaveStarted, Surfaces
  <2>2. /\ ui' = [ui EXCEPT ![c] = u]
        /\ call' = [call EXCEPT ![x] = SaveRequest(old)]
        /\ UNCHANGED <<draft, version, losses>> /\ ~Saving(c)
    BY <1>2 DEF Autosave
  <2>3. /\ DraftsTypeOK' /\ call'[x] = SaveRequest(old)
        /\ \A y \in Callers \ {x} : call'[y] = call[y]
    BY <1>1, <2>2, SaveRequestCarries, CallOnly, SlotsAreCallers
  <2>4. /\ ui' \in [Composers -> Surfaces] /\ ui'[c].flow = old.flow
        /\ \A e \in Composers \ {c} : ui'[e] = ui[e]
    BY <1>1, <2>1, <2>2
  <2>5. Linked(c)'
    BY <1>1, <2>3, <2>4, SaveRequestCarries, SlotsAreCallers DEF Linked, Awaiting, Saving
  <2> QED
    BY <2>3, <2>4, <2>5, OneComposer, SlotsAreCallers
<1>3. CASE SaveFailed(c)
  <2> DEFINE u == [old EXCEPT !.save = "error", !.flow = Flows(c, "idle")]
  <2>1. Flows(c, "idle") \in [Checks -> {"idle", "saving", "asking", "publishing"}]
    BY <1>1 DEF Flows
  <2>2. u \in Surfaces /\ u.flow = Flows(c, "idle")
    BY <1>1, <2>1 DEF Surfaces
  <2>3. ui' = Show(c, u)
    BY <1>3 DEF SaveFailed
  <2> HIDE DEF u
  <2> QED
    BY <1>3, <2>2, <2>3, CallEnds, SlotsAreCallers DEF SaveFailed
<1>4. CASE Validated(c)
  <2>1. "validate" \in Checks
    BY <1>4, ComposerAssumption DEF Validated, Answered, ComposerAssumption, Slots
  <2> QED
    BY <1>4, <2>1, EndsStep DEF Validated
<1>5. CASE ValidatedToPublish(c)
  <2> DEFINE x == <<c, "publish">>
             r == Request("publish", call[x].id, call[x].rev, NoContent)
  <2>1. CASE Answered(x, "answered") /\ call' = [call EXCEPT ![x] = r]
             /\ ui' = [ui EXCEPT ![c].flow["publish"] = "publishing"]
             /\ UNCHANGED <<draft, version, losses>>
    <3>1. /\ "publish" \in Checks /\ old.flow["publish"] = "asking"
          /\ x \in Callers /\ call[x] \in Calls /\ Carries(call[x])
          /\ call[x].op = "validate"
      BY <1>1, <1>5, <2>1, AnsweredCall, SlotsAreCallers DEF ValidatedToPublish, Linked
    <3>2. r \in Calls /\ Carries(r) /\ r.op = "publish" /\ r # NoCall
      BY <3>1, RequestCarries DEF Carries, Calls
    <3> HIDE DEF r
    <3>3. /\ DraftsTypeOK' /\ call'[x] = r
          /\ \A y \in Callers \ {x} : call'[y] = call[y]
      BY <1>1, <2>1, <3>1, <3>2, CallOnly
    <3> DEFINE u == [old EXCEPT !.flow["publish"] = "publishing"]
    <3>4. u \in Surfaces /\ u.flow = [old.flow EXCEPT !["publish"] = "publishing"]
      BY <1>1 DEF Surfaces
    <3>5. /\ ui' \in [Composers -> Surfaces]
          /\ ui'[c].flow = [old.flow EXCEPT !["publish"] = "publishing"]
          /\ \A e \in Composers \ {c} : ui'[e] = ui[e]
      BY <1>1, <2>1, <3>4
    <3>6. Linked(c)'
      BY <1>1, <3>1, <3>2, <3>3, <3>5, SlotsAreCallers DEF Linked, Awaiting, Saving
    <3> QED
      BY <3>3, <3>5, <3>6, OneComposer, SlotsAreCallers
  <2>2. ASSUME Ends(c, "publish", "error"), "publish" \in Checks PROVE ComposerInv'
    BY <2>2, EndsStep
  <2> QED
    BY <1>5, <2>1, <2>2 DEF ValidatedToPublish
<1>6. CASE Published(c)
  <2> DEFINE x == <<c, "publish">>
             u == [old EXCEPT !.published = call[x].content,
                              !.save = "saved", !.flow["publish"] = "idle"]
  <2>1. CASE Answered(x, "answered") /\ call' = [call EXCEPT ![x] = NoCall]
             /\ ui' = Show(c, u) /\ UNCHANGED <<draft, version, losses>>
    <3>1. /\ "publish" \in Checks /\ old.flow["publish"] = "publishing"
          /\ call[x].content \in Contents
      BY <1>1, <1>6, <2>1, AnsweredCall, SlotsAreCallers
      DEF Published, Linked, Carries
    <3>2. u \in Surfaces /\ u.flow = [old.flow EXCEPT !["publish"] = "idle"]
      BY <1>1, <3>1 DEF Surfaces
    <3> HIDE DEF u
    <3> QED
      BY <2>1, <3>1, <3>2, CallEnds, SlotsAreCallers
  <2>2. ASSUME Ends(c, "publish", "error"), "publish" \in Checks PROVE ComposerInv'
    BY <2>2, EndsStep
  <2> QED
    BY <1>6, <2>1, <2>2 DEF Published
<1>7. CASE DeleteDone(c)
  <2> DEFINE x == <<c, "delete">>
             v == [old EXCEPT !.listed[call[x].id] = NoDraft]
             u == Reset(v, Blank, NoRef)
  <2>1. v \in Surfaces /\ v.flow = old.flow
    BY <1>1 DEF Surfaces
  <2>2. u \in Surfaces /\ u.flow = old.flow
    BY <2>1, ResetTypes, BlankTypes
  <2>3. ui' = Show(c, u)
    BY <1>7 DEF DeleteDone
  <2> HIDE DEF u
  <2> QED
    BY <1>7, <2>2, <2>3, CallEnds, SlotsAreCallers DEF DeleteDone
<1>8. CASE DeleteFailed(c)
  <2> DEFINE u == [old EXCEPT !.save = "error"]
  <2>1. u \in Surfaces /\ u.flow = old.flow
    BY <1>1 DEF Surfaces
  <2>2. ui' = Show(c, u)
    BY <1>8 DEF DeleteFailed
  <2> HIDE DEF u
  <2> QED
    BY <1>8, <2>1, <2>2, CallEnds, SlotsAreCallers DEF DeleteFailed
<1> QED
  BY <1>2, <1>3, <1>4, <1>5, <1>6, <1>7, <1>8, SaveDoneStep DEF Browser

-----------------------------------------------------------------------------
(* The service, and the theorems. *)

\* A transaction, or a loss, keeps the invariant: the call that moves on
\* keeps its operation.
LEMMA ServiceStep ==
    ASSUME ComposerInv, NEW x \in Callers, Server(x) \/ Network(x)
    PROVE  ComposerInv'
<1>1. DraftsTypeOK /\ DraftsTypeOK' /\ Moves(x) /\ ui' = ui
  BY TransactionTypes, TransactionMoves, LossTypes DEF ComposerInv, Server, Network
<1>2. /\ call[x] # NoCall /\ call'[x] # NoCall /\ call'[x].op = call[x].op
      /\ \A y \in Callers \ {x} : call'[y] = call[y]
  BY <1>1, MovesTypes DEF Moves
<1>3. \A y \in Callers : /\ (call'[y] # NoCall) = (call[y] # NoCall)
                         /\ call[y] # NoCall => call'[y].op = call[y].op
  BY <1>2
<1>4. ASSUME NEW c \in Composers PROVE Linked(c)'
  <2>1. Linked(c)
    BY DEF ComposerInv
  <2>2. \A s \in Slots : /\ (call'[<<c, s>>] # NoCall) = (call[<<c, s>>] # NoCall)
                         /\ call[<<c, s>>] # NoCall =>
                              call'[<<c, s>>].op = call[<<c, s>>].op
    BY <1>3, SlotsAreCallers
  <2>3. Awaiting(c)' = Awaiting(c) /\ Saving(c)' = Saving(c)
    BY <1>1, <2>2, SlotsAreCallers DEF Awaiting, Saving
  <2> QED
    BY <1>1, <2>1, <2>2, <2>3, SlotsAreCallers DEF Linked, Saving
<1> QED
  BY <1>1, <1>4 DEF ComposerInv

\* The initial state and every step keep the invariant.
LEMMA ComposerInduction == Spec => []ComposerInv
<1>1. Init => ComposerInv
  <2> SUFFICES ASSUME Init PROVE ComposerInv
    OBVIOUS
  <2>1. DraftsTypeOK
    BY DraftAssumption DEF Init, DInit, DraftsTypeOK, DraftAssumption
  <2> DEFINE idle == [k \in Checks |-> "idle"]
  <2>2. /\ Unmounted("away", idle) \in Surfaces
        /\ Unmounted("away", idle).flow = idle
    BY BlankTypes DEF Unmounted, Surfaces
  <2>3. \A c \in Composers : ui[c] = Unmounted("away", idle)
    BY DEF Init
  <2>4. ui \in [Composers -> Surfaces]
    BY <2>2, <2>3 DEF Init
  <2>5. \A x \in Callers : call[x] = NoCall
    BY DEF Init, DInit
  <2>6. ASSUME NEW c \in Composers PROVE Linked(c)
    <3>1. \A k \in Checks : ui[c].flow[k] = "idle"
      BY <2>2, <2>3
    <3> QED
      BY <2>5, <3>1, SlotsAreCallers DEF Linked, Awaiting, Saving
  <2> QED
    BY <2>1, <2>4, <2>6 DEF ComposerInv
<1>2. ComposerInv /\ [Next]_vars => ComposerInv'
  <2> SUFFICES ASSUME ComposerInv, [Next]_vars PROVE ComposerInv'
    OBVIOUS
  <2>1. CASE UNCHANGED vars
    BY <2>1 DEF vars, ComposerInv, DraftsTypeOK, Linked, Awaiting, Saving
  <2> QED
    BY <2>1, UserStep, BrowserStep, ServiceStep DEF Next
<1> QED
  BY <1>1, <1>2, PTL DEF Spec

\* The screens keep their types, and the browser awaits what it has asked
\* for: the flags of ComposerApp.tsx that disable a button, or wait for a
\* promise, are set exactly while their request is in flight.
THEOREM ComposerTypeCorrect == Spec => []ComposerTypeOK
<1>1. ComposerInv => ComposerTypeOK
  BY DEF ComposerInv, ComposerTypeOK, Linked
<1> QED
  BY <1>1, ComposerInduction, PTL

\* Whatever the composers of any number of browsers do, the draft service
\* is the registers of DraftService to them.
THEOREM ComposersSeeService == Spec => ServiceSpec
<1>1. Init => Service!Init
  BY InitImplements DEF Init
<1>2. ComposerInv /\ [Next]_vars => [Service!Next]_(Service!svars)
  <2> SUFFICES ASSUME ComposerInv, [Next]_vars
               PROVE  [Service!Next]_<<draft, version>>
    BY DEF Service!svars
  <2>1. CASE UNCHANGED vars
    BY <2>1 DEF vars
  <2>2. ASSUME NEW c \in Composers, User(c) PROVE UNCHANGED <<draft, version>>
    BY <2>2 DEF User, Mount, MountFailed, Unmount, Edit, NewWorkflow, OpenTemplate,
                OpenDraft, Save, Delete, Check, dvars
  <2>3. ASSUME NEW c \in Composers, Browser(c) PROVE UNCHANGED <<draft, version>>
    BY <2>3 DEF Browser, Autosave, SaveDone, SaveFailed, Validated,
                ValidatedToPublish, Published, DeleteDone, DeleteFailed, Ends
  <2>4. ASSUME NEW x \in Callers, Network(x) PROVE UNCHANGED <<draft, version>>
    BY <2>4 DEF Network, Lose
  <2> QED
    BY <2>1, <2>2, <2>3, <2>4, TransactionImplements DEF Next, Server, ComposerInv
<1> QED
  BY <1>1, <1>2, ComposerInduction, PTL DEF Spec, ServiceSpec, Service!Spec

-----------------------------------------------------------------------------
(* Patient users and calls that do not interleave: no update is lost.      *)
(*                                                                         *)
(* A composer, a call and a listed row each claim to know a draft at a     *)
(* revision.  No claim is ahead of the draft, and one that is not behind   *)
(* it is true: so the next save from it keeps what was saved before.       *)

\* Claims on the table D of drafts.
Held(D, d) == d \in Drafts /\ D[d] \notin {NoDraft, Deleted}
HeldAt(D, d, rev) == Held(D, d) /\ D[d].rev = rev

Known(D, d, rev) ==
    /\ d \in Drafts
    /\ D[d] # NoDraft
    /\ Held(D, d) => rev <= D[d].rev

\* At revision rev of draft d, w has all edits of the draft, or is it.
Covers(D, d, rev, w) ==
    Known(D, d, rev) /\ (HeldAt(D, d, rev) => D[d].content.edits \subseteq w.edits)
Matches(D, d, rev, w) ==
    Known(D, d, rev) /\ (HeldAt(D, d, rev) => D[d].content = w)

Gone(D, d) == d \in Drafts /\ D[d] = Deleted

\* Transactions of two calls do not interleave.
Alone == \A x, y \in Callers : Between(x) /\ Between(y) => x = y

\* The answer of a save is what was written, and a version that is
\* published is the draft at the revision that was asked for.
SaveFits(D, c) ==
    /\ c.op = "create" /\ c.at = "sent" => c.id = NoId
    /\ c.op = "update" /\ c.at \in {"sent", "current"}
         => Covers(D, c.id, c.rev, c.content)
    /\ c.op \in {"create", "update"} /\ c.at = "written" =>
         /\ Held(D, c.id) /\ D[c.id].content = c.content
         /\ c.op = "update" => D[c.id].rev = c.rev + 1
    /\ c.op \in {"create", "update"} /\ c.at = "answered"
         => Matches(D, c.id, c.rev, c.content)

CheckFits(D, V, c) ==
    /\ c.op = "delete" /\ c.at = "answered" => Gone(D, c.id)
    /\ c.op = "publish" /\ c.at \in {"checked", "read", "looked"}
         => HeldAt(D, c.id, c.rev)
    /\ c.op = "publish" /\ c.at \in {"read", "looked"}
         => D[c.id].content = c.content
    /\ c.op = "publish" /\ c.at = "looked"
         => V[c.content.key] \in {NoVersion, c.content}
    /\ c.op = "publish" /\ c.at = "answered"
         => V[c.content.key] = c.content

Fits(x) == call[x] # NoCall => 
    SaveFits(draft, call[x]) /\ CheckFits(draft, version, call[x])

Past(c, k) == ui[c].flow[k] \in {"asking", "publishing"}

\* What composer c shows.
ScreenFits(c) ==
    LET u == ui[c] IN
    /\ u.ref # NoRef => Covers(draft, u.ref.id, u.ref.rev, u.canvas)
    /\ u.ref # NoRef /\ u.save = "saved" => Matches(draft, u.ref.id, u.ref.rev, u.canvas)
    /\ u.published # NoVersion
         => u.published = u.canvas /\ version[u.canvas.key] = u.canvas
    /\ \A d \in Drafts : u.listed[d] # NoDraft
         => Matches(draft, d, u.listed[d].rev, u.listed[d].content)

\* The save of c is of what its canvas was; if that has been edited since,
\* it is not shown as saved and not about to be.
SaveOfCanvas(c) ==
    LET u == ui[c]
        s == call[<<c, "save">>]
    IN
    \/ s = NoCall
    \/ Gone(draft, s.id)
    \/ /\ s.content.edits \subseteq u.canvas.edits
       /\ ~u.touched => s.content = u.canvas
       /\ u.touched => u.save # "saved" /\ ~Checking(c)

\* A flow past its save is about the canvas.
FlowOfCanvas(c, k) ==
    LET u == ui[c]
        f == call[<<c, k>>]
    IN
    Past(c, k) =>
      /\ Matches(draft, f.id, f.rev, u.canvas)
      /\ u.ref # NoRef => Matches(draft, u.ref.id, u.ref.rev, u.canvas)
      /\ f.op = "publish" /\ f.at \in {"read", "looked", "answered"}
           => f.content = u.canvas

\* A deletion that may still be done is of the draft that is open, and one
\* that was done leaves no save of it to be answered.
DeleteOfOpened(c) ==
    LET u == ui[c]
        s == call[<<c, "save">>]
        e == call[<<c, "delete">>]
    IN
    e # NoCall /\ e.at # "refused" =>
      /\ u.ref # NoRef /\ u.ref.id = e.id /\ e.rev <= u.ref.rev
      /\ s # NoCall =>
           /\ s.op = "update" /\ s.id = e.id /\ e.rev <= s.rev
           /\ s.at = "answered" => e.rev < s.rev
           /\ e.at = "answered" => s.at \notin {"written", "answered"}
      /\ \A k \in Checks : Past(c, k) =>
           /\ call[<<c, k>>].id = e.id /\ e.rev < call[<<c, k>>].rev
           /\ e.at # "answered"

\* A composer that is not open has nothing on its screen, and one that was
\* never opened has sent nothing.
Closed(c) ==
    /\ ui[c].ref = NoRef /\ ui[c].published = NoVersion
    /\ ui[c].listed = [d \in Drafts |-> NoDraft]
    /\ ui[c].page = "away" => \A s \in Slots : call[<<c, s>>] = NoCall

CanvasFits(c) ==
    IF Open(c)
    THEN /\ ScreenFits(c) /\ SaveOfCanvas(c) /\ DeleteOfOpened(c)
         /\ \A k \in Checks : FlowOfCanvas(c, k)
    ELSE Closed(c)

PatientInv ==
    /\ ComposerInv
    /\ Alone
    /\ \A x \in Callers : Fits(x)
    /\ \A c \in Composers : CanvasFits(c)

-----------------------------------------------------------------------------
(* What a transaction does to the tables and to its call. *)

\* The call of x moves to stage s and is otherwise the same.
Turns(x, s) ==
    /\ call'[x] # NoCall /\ call'[x].at = s
    /\ call'[x].op = call[x].op /\ call'[x].id = call[x].id
    /\ call'[x].rev = call[x].rev /\ call'[x].content = call[x].content

LEMMA ToTurns ==
    ASSUME DraftsTypeOK, NEW x \in Callers, call[x] # NoCall,
           NEW s \in Stages, To(x, s)
    PROVE  Turns(x, s) /\ \A y \in Callers \ {x} : call'[y] = call[y]
<1>1. call \in [Callers -> Calls \cup {NoCall}] /\ call[x] \in Calls
  BY DEF DraftsTypeOK
<1> DEFINE n == [call[x] EXCEPT !.at = s]
<1>2. /\ n \in Calls /\ n.at = s /\ n.op = call[x].op /\ n.id = call[x].id
      /\ n.rev = call[x].rev /\ n.content = call[x].content
  BY <1>1 DEF Calls
<1>3. call' = [call EXCEPT ![x] = n]
  BY DEF To
<1> HIDE DEF n
<1> QED
  BY <1>1, <1>2, <1>3, NullAssumption DEF Turns, NullAssumption

\* A row is left alone, created, deleted, or written at its revision by an
\* update that names it.
RowSteps(x, d) ==
    \/ draft'[d] = draft[d]
    \/ draft[d] = NoDraft /\ draft'[d] # NoDraft
    \/ Stored(d) /\ draft'[d] = Deleted
    \/ /\ At(x, "update", "current") /\ call[x].id = d
       /\ IsCurrent(d, call[x].rev)
       /\ draft'[d] = [rev |-> draft[d].rev + 1, content |-> call[x].content]
       /\ draft'[d] \in Rows

LEMMA RowsStep ==
    ASSUME DraftsTypeOK, NEW x \in Callers, Transaction(x), NEW d \in Drafts
    PROVE  RowSteps(x, d)
<1>1. draft \in [Drafts -> Rows \cup {NoDraft, Deleted}]
  BY DEF DraftsTypeOK
<1>2. call[x] # NoCall => call[x] \in Calls /\ Carries(call[x])
  BY DEF DraftsTypeOK, Carries
<1>3. CASE CreateDraft(x)
  <2>1. PICK e \in Drafts :
          /\ draft[e] = NoDraft
          /\ draft' = [draft EXCEPT ![e] = [rev |-> 1, content |-> call[x].content]]
    BY <1>3 DEF CreateDraft
  <2>2. [rev |-> 1, content |-> call[x].content] \in Rows
    BY <1>2, <1>3 DEF CreateDraft, Runs, At, Carries, Rows
  <2> QED
    BY <1>1, <2>1, <2>2, NullAssumption DEF RowSteps, NullAssumption
<1>4. CASE WriteUpdate(x) /\ IsCurrent(call[x].id, call[x].rev)
  <2>1. At(x, "update", "current")
    BY <1>4 DEF WriteUpdate, Runs
  <2>2. draft' = [draft EXCEPT ![call[x].id] = [rev |-> call[x].rev + 1,
                                                content |-> call[x].content]]
    BY <1>4 DEF WriteUpdate
  <2>3. [rev |-> call[x].rev + 1, content |-> call[x].content] \in Rows
    BY <1>2, <2>1 DEF At, Carries, Calls, Rows
  <2>4. call[x].rev = draft[call[x].id].rev
    BY <1>4 DEF IsCurrent
  <2> QED
    BY <1>1, <1>4, <2>1, <2>2, <2>3, <2>4 DEF RowSteps
<1>5. CASE DeleteDraft(x) /\ IsCurrent(call[x].id, call[x].rev)
  BY <1>1, <1>5 DEF DeleteDraft, RowSteps, IsCurrent
<1>6. CASE draft' = draft
  BY <1>6 DEF RowSteps
<1> QED
  BY <1>3, <1>4, <1>5, <1>6
  DEF Transaction, ReadForUpdate, WriteUpdate, ReadBack, DeleteDraft,
      ValidateDraft, CheckForPublish, ReadAgain, LookUp, InsertOrIgnore

\* What is claimed of a draft stays true.
LEMMA ClaimsKept ==
    ASSUME DraftsTypeOK, NEW x \in Callers, Transaction(x)
    PROVE  /\ \A d \in Drafts, rev \in Nat :
                /\ Known(draft, d, rev) => Known(draft', d, rev)
                /\ \A w : Covers(draft, d, rev, w) => Covers(draft', d, rev, w)
                /\ \A w : Matches(draft, d, rev, w) => Matches(draft', d, rev, w)
           /\ \A d : Gone(draft, d) => Gone(draft', d)
<1> SUFFICES ASSUME NEW d \in Drafts, NEW rev \in Nat, NEW w
             PROVE  /\ Known(draft, d, rev) => Known(draft', d, rev)
                    /\ Covers(draft, d, rev, w) => Covers(draft', d, rev, w)
                    /\ Matches(draft, d, rev, w) => Matches(draft', d, rev, w)
                    /\ Gone(draft, d) => Gone(draft', d)
  BY DEF Gone
<1>1. RowSteps(x, d)
  BY RowsStep
<1>2. draft[d] \in Rows \cup {NoDraft, Deleted}
  BY DEF DraftsTypeOK
<1>3. Deleted # NoDraft /\ Deleted \notin Rows /\ NoDraft \notin Rows
  BY NullAssumption DEF NullAssumption
<1>4. CASE draft'[d] = draft[d]
  BY <1>4 DEF Known, Covers, Matches, Gone, HeldAt, Held
<1>5. CASE draft[d] = NoDraft /\ draft'[d] # NoDraft
  BY <1>3, <1>5 DEF Known, Covers, Matches, Gone
<1>6. CASE Stored(d) /\ draft'[d] = Deleted
  BY <1>3, <1>6 DEF Known, Covers, Matches, Gone, HeldAt, Held, Stored
<1>7. CASE Stored(d) /\ draft'[d] \in Rows /\ draft'[d].rev = draft[d].rev + 1
  <2>1. draft[d].rev \in Nat
    BY <1>7, StoredRow
  <2>2. Held(draft, d) /\ Held(draft', d) /\ ~Gone(draft, d) /\ draft'[d] # NoDraft
    BY <1>3, <1>7 DEF Stored, Held, Gone
  <2>3. Known(draft, d, rev) => rev <= draft'[d].rev /\ rev # draft'[d].rev
    BY <1>7, <2>1, <2>2 DEF Known
  <2> QED
    BY <2>2, <2>3 DEF Known, Covers, Matches, HeldAt
<1> QED
  BY <1>1, <1>4, <1>5, <1>6, <1>7 DEF RowSteps, IsCurrent

\* A registered version stays.
LEMMA VersionsKept ==
    ASSUME DraftsTypeOK, NEW x \in Callers, Transaction(x), NEW k \in Keys,
           version[k] # NoVersion
    PROVE  version'[k] = version[k]
<1>1. CASE InsertOrIgnore(x)
  BY <1>1 DEF InsertOrIgnore, DraftsTypeOK
<1>2. CASE version' = version
  BY <1>2
<1> QED
  BY <1>1, <1>2
  DEF Transaction, CreateDraft, ReadForUpdate, WriteUpdate, ReadBack, DeleteDraft,
      ValidateDraft, CheckForPublish, ReadAgain, LookUp, InsertOrIgnore

-----------------------------------------------------------------------------
(* What a transaction leaves of the calls. *)

\* Of the call that moves, and how: what its claims and the claims of its
\* composer depend on.
CallSteps(x) ==
    LET o == call[x]
        n == call'[x]
    IN
    /\ o # NoCall /\ n # NoCall /\ n.op = o.op
    /\ n.at \in Stages \ {"sent"} /\ o.at \notin Answers
    /\ \A y \in Callers \ {x} : call'[y] = call[y]
    /\ OneCallAtATime => \A y \in Callers \ {x} : ~Between(y)
    /\ o.op # "create" => n.id = o.id
    /\ ~(o.op \in {"create", "update"} /\ o.at = "written") /\ o.op # "create"
         => n.rev = o.rev

LEMMA CallMoves ==
    ASSUME DraftsTypeOK, NEW x \in Callers, Transaction(x)
    PROVE  CallSteps(x)
<1>1. call \in [Callers -> Calls \cup {NoCall}]
  BY DEF DraftsTypeOK
<1>2. /\ Moves(x) /\ call'[x] # NoCall /\ call'[x].op = call[x].op
      /\ call[x] # NoCall /\ \A y \in Callers \ {x} : call'[y] = call[y]
  BY TransactionMoves, MovesTypes DEF Moves
<1>3. call[x] \in Calls
  BY <1>1, <1>2
<1> DEFINE Rest == /\ call'[x].at \in Stages \ {"sent"}
                   /\ call[x].op # "create" => call'[x].id = call[x].id
                   /\ ~(call[x].op \in {"create", "update"} /\ call[x].at = "written")
                        /\ call[x].op # "create" => call'[x].rev = call[x].rev
<1>4. CreateDraft(x) => Rest
  BY <1>1, <1>3 DEF CreateDraft, Runs, At, Calls, Stages, Answers
<1>5. ASSUME ReadBack(x) PROVE Rest
  <2>1. CASE Stored(call[x].id)
    <3>1. call' = [call EXCEPT ![x].rev = draft[call[x].id].rev,
                               ![x].content = draft[call[x].id].content,
                               ![x].at = "answered"]
      BY <1>5, <2>1 DEF ReadBack
    <3>2. call'[x].at = "answered" /\ call'[x].id = call[x].id
      BY <1>1, <1>3, <3>1 DEF Calls
    <3> QED
      BY <1>5, <3>2 DEF ReadBack, Runs, At, Stages, Answers
  <2>2. CASE To(x, "refused")
    BY <1>2, <1>5, <2>2, ToTurns DEF ReadBack, Runs, At, Turns, Stages, Answers
  <2> QED
    BY <1>5, <2>1, <2>2 DEF ReadBack
<1>6. ASSUME ReadAgain(x) PROVE Rest
  <2>1. CASE Stored(call[x].id)
    <3>1. call' = [call EXCEPT ![x].content = draft[call[x].id].content,
                               ![x].at = "read"]
      BY <1>6, <2>1 DEF ReadAgain
    <3>2. /\ call'[x].at = "read" /\ call'[x].id = call[x].id
          /\ call'[x].rev = call[x].rev
      BY <1>1, <1>3, <3>1 DEF Calls
    <3> QED
      BY <1>6, <3>2 DEF ReadAgain, Runs, At, Stages, Answers
  <2>2. CASE To(x, "refused")
    BY <1>2, <1>6, <2>2, ToTurns DEF ReadAgain, Runs, At, Turns, Stages, Answers
  <2> QED
    BY <1>6, <2>1, <2>2 DEF ReadAgain
<1>7. ASSUME InsertOrIgnore(x) PROVE Rest
  <2>1. call' = [call EXCEPT ![x].content = version'[call[x].content.key],
                             ![x].at = "answered"]
    BY <1>7 DEF InsertOrIgnore
  <2>2. /\ call'[x].at = "answered" /\ call'[x].id = call[x].id
        /\ call'[x].rev = call[x].rev
    BY <1>1, <1>3, <2>1 DEF Calls
  <2> QED
    BY <1>7, <2>2 DEF InsertOrIgnore, Runs, At, Stages, Answers
<1>8. (\E s \in Stages \ {"sent"} : To(x, s)) => Rest
  BY <1>2, ToTurns DEF Turns
<1>9. Rest
  BY <1>4, <1>5, <1>6, <1>7, <1>8
  DEF Transaction, ReadForUpdate, WriteUpdate, DeleteDraft, ValidateDraft,
      CheckForPublish, LookUp, Stages, Answers
<1>10. /\ call[x].at \notin Answers
       /\ OneCallAtATime => \A y \in Callers \ {x} : ~Between(y)
  BY DEF Transaction, CreateDraft, ReadForUpdate, WriteUpdate, ReadBack, DeleteDraft,
         ValidateDraft, CheckForPublish, ReadAgain, LookUp, InsertOrIgnore,
         Runs, At, Answers
<1> QED
  BY <1>2, <1>9, <1>10 DEF CallSteps

\* The transactions of a save: its content stays, and its revision is the
\* one it has written.
LEMMA SaveMoves ==
    ASSUME DraftsTypeOK, NEW x \in Callers, Transaction(x), SaveFits(draft, call[x]),
           call[x].op \in {"create", "update"}
    PROVE  /\ SaveFits(draft', call'[x])
           /\ call'[x].content = call[x].content
           /\ call[x].op = "create" => /\ call[x].at = "sent" => call[x].id = NoId
                                       /\ call[x].at # "sent" => call'[x].id = call[x].id
           /\ call[x].op = "update" =>
                \/ call'[x].at # "answered" /\ call'[x].rev = call[x].rev
                \/ /\ call[x].at = "written" /\ call'[x].at = "answered"
                   /\ call'[x].rev = call[x].rev + 1
           /\ call'[x].at = "written" /\ call[x].op = "update"
                => HeldAt(draft, call[x].id, call[x].rev)
<1> DEFINE o == call[x]
           n == call'[x]
<1>1. /\ call \in [Callers -> Calls \cup {NoCall}]
      /\ draft \in [Drafts -> Rows \cup {NoDraft, Deleted}]
      /\ o # NoCall /\ o \in Calls /\ Carries(o)
  BY CallMoves DEF CallSteps, DraftsTypeOK, Carries
<1>2. n.op = o.op /\ n # NoCall
  BY CallMoves DEF CallSteps
<1>3. CASE CreateDraft(x)
  <2>1. PICK d \in Drafts :
          /\ draft[d] = NoDraft
          /\ draft' = [draft EXCEPT ![d] = [rev |-> 1, content |-> o.content]]
          /\ call' = [call EXCEPT ![x].id = d, ![x].rev = 1, ![x].at = "written"]
    BY <1>3 DEF CreateDraft
  <2>2. n.id = d /\ n.at = "written" /\ n.content = o.content
    BY <1>1, <2>1 DEF Calls
  <2>3. o.op = "create" /\ o.at = "sent"
    BY <1>3 DEF CreateDraft, Runs, At
  <2>4. [rev |-> 1, content |-> o.content] \in Rows
    BY <1>1, <2>3 DEF Carries, Rows
  <2>5. draft'[d] = [rev |-> 1, content |-> o.content]
    BY <1>1, <2>1
  <2>6. Held(draft', d) /\ draft'[d].content = o.content
    BY <2>4, <2>5, NullAssumption DEF Held, NullAssumption
  <2> QED
    BY <1>2, <2>2, <2>3, <2>6 DEF SaveFits
<1>4. CASE ReadForUpdate(x)
  <2>1. PICK s \in {"current", "refused"} : To(x, s)
    BY <1>4 DEF ReadForUpdate
  <2>2. Turns(x, s)
    BY <1>1, <2>1, ToTurns DEF Stages, Answers
  <2>3. Covers(draft, o.id, o.rev, o.content)
    BY <1>4 DEF ReadForUpdate, Runs, At, SaveFits
  <2>4. Covers(draft', o.id, o.rev, o.content)
    BY <1>1, <2>3, ClaimsKept DEF Covers, Known, Calls
  <2>5. o.op = "update"
    BY <1>4 DEF ReadForUpdate, Runs, At
  <2> QED
    BY <1>2, <2>1, <2>2, <2>4, <2>5 DEF SaveFits, Turns
<1>5. CASE WriteUpdate(x)
  <2>1. o.op = "update" /\ o.at = "current"
    BY <1>5 DEF WriteUpdate, Runs, At
  <2>2. CASE HeldAt(draft, o.id, o.rev)
    <3>1. /\ To(x, "written")
          /\ draft' = [draft EXCEPT ![o.id] = [rev |-> o.rev + 1, content |-> o.content]]
      BY <1>5, <2>2 DEF WriteUpdate, IsCurrent, Stored, HeldAt, Held
    <3>2. Turns(x, "written")
      BY <1>1, <3>1, ToTurns DEF Stages
    <3>3. [rev |-> o.rev + 1, content |-> o.content] \in Rows
      BY <1>1, <2>1 DEF Carries, Calls, Rows
    <3>4. draft'[o.id] = [rev |-> o.rev + 1, content |-> o.content] /\ o.id \in Drafts
      BY <1>1, <2>2, <3>1 DEF HeldAt, Held
    <3>5. /\ Held(draft', o.id) /\ draft'[o.id].content = o.content
          /\ draft'[o.id].rev = o.rev + 1
      BY <3>3, <3>4, NullAssumption DEF Held, NullAssumption
    <3> QED
      BY <1>2, <2>1, <2>2, <3>2, <3>5 DEF SaveFits, Turns
  <2>3. CASE ~HeldAt(draft, o.id, o.rev)
    <3>1. Turns(x, "refused")
      BY <1>1, <1>5, <2>3, ToTurns
      DEF WriteUpdate, Stages, Answers, IsCurrent, Stored, HeldAt, Held
    <3> QED
      BY <1>2, <2>1, <3>1 DEF SaveFits, Turns
  <2> QED
    BY <2>2, <2>3
<1>6. CASE ReadBack(x)
  <2>1. o.at = "written" /\ Held(draft, o.id) /\ draft[o.id].content = o.content
    BY <1>6 DEF ReadBack, Runs, At, SaveFits
  <2>2. o.op = "update" => draft[o.id].rev = o.rev + 1
    BY <2>1 DEF SaveFits
  <2>3. call' = [call EXCEPT ![x].rev = draft[o.id].rev,
                             ![x].content = draft[o.id].content,
                             ![x].at = "answered"]
    BY <1>6, <2>1 DEF ReadBack, Stored, Held
  <2>4. /\ n.rev = draft[o.id].rev /\ n.content = draft[o.id].content
        /\ n.at = "answered" /\ n.id = o.id
    BY <1>1, <2>3 DEF Calls
  <2>5. draft' = draft
    BY <1>6 DEF ReadBack
  <2>6. draft[o.id] \in Rows /\ draft[o.id].rev \in Nat /\ o.id \in Drafts
    BY <2>1, StoredRow DEF Stored, Held
  <2>7. Matches(draft', n.id, n.rev, n.content)
    BY <2>4, <2>5, <2>6, <2>1 DEF Matches, Known, HeldAt, Held
  <2> QED
    BY <1>2, <2>1, <2>2, <2>4, <2>7 DEF SaveFits
<1> QED
  BY <1>3, <1>4, <1>5, <1>6
  DEF Transaction, DeleteDraft, ValidateDraft, CheckForPublish, ReadAgain, LookUp,
      InsertOrIgnore, Runs, At

\* The transactions of a deletion, of a validation and of a publication
\* when no other call is between two of its own.
LEMMA CheckMoves ==
    ASSUME DraftsTypeOK, NEW x \in Callers, Transaction(x),
           CheckFits(draft, version, call[x]),
           call[x].op \in {"delete", "validate", "publish"}
    PROVE  /\ CheckFits(draft', version', call'[x])
           /\ call[x].op = "delete" /\ call'[x].at = "answered"
                => HeldAt(draft, call[x].id, call[x].rev)
           /\ call'[x].op = "publish" /\ call'[x].at \in {"looked", "answered"}
                => call'[x].content = call[x].content /\ call[x].at \in {"read", "looked"}
           /\ call'[x].op = "publish" /\ call'[x].at = "read"
                => HeldAt(draft, call[x].id, call[x].rev)
                   /\ draft[call[x].id].content = call'[x].content
<1> DEFINE o == call[x]
           n == call'[x]
<1>1. /\ call \in [Callers -> Calls \cup {NoCall}]
      /\ draft \in [Drafts -> Rows \cup {NoDraft, Deleted}]
      /\ version \in [Keys -> Contents \cup {NoVersion}]
      /\ o # NoCall /\ o \in Calls /\ Carries(o)
  BY CallMoves DEF CallSteps, DraftsTypeOK, Carries
<1>2. n.op = o.op /\ n # NoCall
  BY CallMoves DEF CallSteps
<1>3. CASE DeleteDraft(x)
  <2>1. o.op = "delete" /\ o.at = "sent"
    BY <1>3 DEF DeleteDraft, Runs, At
  <2>2. CASE HeldAt(draft, o.id, o.rev)
    <3>1. draft' = [draft EXCEPT ![o.id] = Deleted] /\ To(x, "answered")
      BY <1>3, <2>2 DEF DeleteDraft, IsCurrent, Stored, HeldAt, Held
    <3>2. Turns(x, "answered")
      BY <1>1, <3>1, ToTurns DEF Stages, Answers
    <3>3. Gone(draft', o.id)
      BY <1>1, <2>2, <3>1 DEF Gone, HeldAt, Held
    <3> QED
      BY <2>1, <2>2, <3>2, <3>3 DEF CheckFits, Turns
  <2>3. CASE ~HeldAt(draft, o.id, o.rev)
    <3>1. Turns(x, "refused")
      BY <1>1, <1>3, <2>3, ToTurns
      DEF DeleteDraft, Stages, Answers, IsCurrent, Stored, HeldAt, Held
    <3> QED
      BY <2>1, <3>1 DEF CheckFits, Turns
  <2> QED
    BY <2>2, <2>3
<1>4. CASE ValidateDraft(x)
  <2>1. PICK s \in {"refused", "answered", "invalid"} : To(x, s)
    BY <1>4 DEF ValidateDraft
  <2>2. Turns(x, s)
    BY <1>1, <2>1, ToTurns DEF Stages, Answers
  <2> QED
    BY <1>4, <2>2 DEF ValidateDraft, Runs, At, CheckFits, Turns
<1>5. CASE CheckForPublish(x)
  <2>1. o.op = "publish" /\ o.at = "sent" /\ draft' = draft
    BY <1>5 DEF CheckForPublish, Runs, At
  <2>2. CASE HeldAt(draft, o.id, o.rev) /\ To(x, "checked")
    <3>1. Turns(x, "checked")
      BY <1>1, <2>2, ToTurns DEF Stages
    <3> QED
      BY <2>1, <2>2, <3>1 DEF CheckFits, Turns
  <2>3. CASE To(x, "refused")
    <3>1. Turns(x, "refused")
      BY <1>1, <2>3, ToTurns DEF Stages, Answers
    <3> QED
      BY <2>1, <3>1 DEF CheckFits, Turns
  <2> QED
    BY <1>5, <2>2, <2>3 DEF CheckForPublish, IsCurrent, Stored, HeldAt, Held
<1>6. CASE ReadAgain(x)
  <2>1. /\ o.op = "publish" /\ o.at = "checked" /\ draft' = draft
        /\ HeldAt(draft, o.id, o.rev)
    BY <1>6 DEF ReadAgain, Runs, At, CheckFits
  <2>2. call' = [call EXCEPT ![x].content = draft[o.id].content, ![x].at = "read"]
    BY <1>6, <2>1 DEF ReadAgain, Stored, HeldAt, Held
  <2>3. /\ n.at = "read" /\ n.content = draft[o.id].content /\ n.id = o.id
        /\ n.rev = o.rev
    BY <1>1, <2>2 DEF Calls
  <2> QED
    BY <1>2, <2>1, <2>3 DEF CheckFits
<1>7. CASE LookUp(x)
  <2>1. /\ o.op = "publish" /\ o.at = "read" /\ draft' = draft /\ version' = version
        /\ HeldAt(draft, o.id, o.rev) /\ draft[o.id].content = o.content
    BY <1>7 DEF LookUp, Runs, At, CheckFits
  <2>2. CASE To(x, "looked") /\ version[o.content.key] \in {NoVersion, o.content}
    <3>1. Turns(x, "looked")
      BY <1>1, <2>2, ToTurns DEF Stages
    <3> QED
      BY <2>1, <2>2, <3>1 DEF CheckFits, Turns
  <2>3. CASE To(x, "refused")
    <3>1. Turns(x, "refused")
      BY <1>1, <2>3, ToTurns DEF Stages, Answers
    <3> QED
      BY <2>1, <3>1 DEF CheckFits, Turns
  <2> QED
    BY <1>7, <2>2, <2>3 DEF LookUp
<1>8. CASE InsertOrIgnore(x)
  <2>1. /\ o.op = "publish" /\ o.at = "looked" /\ draft' = draft
        /\ version[o.content.key] \in {NoVersion, o.content}
    BY <1>8 DEF InsertOrIgnore, Runs, At, CheckFits
  <2>2. o.content \in Contents /\ o.content.key \in Keys
    BY <1>1, <2>1, KeyOfContent DEF Carries
  <2>3. version' = [version EXCEPT ![o.content.key] =
                      IF @ = NoVersion THEN o.content ELSE @]
    BY <1>8 DEF InsertOrIgnore
  <2>4. version'[o.content.key] = o.content
    BY <1>1, <2>1, <2>2, <2>3
  <2>5. call' = [call EXCEPT ![x].content = version'[o.content.key],
                             ![x].at = "answered"]
    BY <1>8 DEF InsertOrIgnore
  <2>6. n.at = "answered" /\ n.content = o.content
    BY <1>1, <2>4, <2>5 DEF Calls
  <2> QED
    BY <1>2, <2>1, <2>4, <2>6 DEF CheckFits
<1> QED
  BY <1>3, <1>4, <1>5, <1>6, <1>7, <1>8
  DEF Transaction, CreateDraft, ReadForUpdate, WriteUpdate, ReadBack, Runs, At

\* The calls that a transaction of another one leaves alone.
LEMMA OthersFit ==
    ASSUME DraftsTypeOK, NEW x \in Callers, Transaction(x), OneCallAtATime,
           NEW y \in Callers \ {x}, Fits(y)
    PROVE  Fits(y)'
<1> SUFFICES ASSUME call[y] # NoCall
             PROVE  /\ SaveFits(draft', call[y])
                    /\ CheckFits(draft', version', call[y])
  BY CallMoves DEF Fits, CallSteps
<1> DEFINE o == call[y]
<1>1. /\ o \in Calls /\ Carries(o)
      /\ SaveFits(draft, o) /\ CheckFits(draft, version, o)
  BY DEF Fits, DraftsTypeOK, Carries
<1>2. o.at \in {"sent"} \cup Answers
  BY CallMoves DEF CallSteps, Between
<1>3. SaveFits(draft', o)
  <2>1. o.op = "update" \/ o.at = "answered" => o.id \in Drafts /\ o.rev \in Nat
    BY <1>1 DEF Carries, Calls
  <2> QED
    BY <1>1, <1>2, <2>1, ClaimsKept DEF SaveFits, Answers
<1>4. CheckFits(draft', version', o)
  <2>1. o.op = "publish" /\ o.at = "answered" =>
          o.content \in Contents /\ o.content.key \in Keys /\ o.content # NoVersion
    BY <1>1, KeyOfContent, NullAssumption DEF Carries, NullAssumption
  <2> QED
    BY <1>1, <1>2, <2>1, ClaimsKept, VersionsKept DEF CheckFits, Answers
<1> QED
  BY <1>3, <1>4

\* The calls after a transaction.
LEMMA CallsFit ==
    ASSUME DraftsTypeOK, NEW x \in Callers, Transaction(x), OneCallAtATime,
           \A y \in Callers : Fits(y)
    PROVE  Alone' /\ \A y \in Callers : Fits(y)'
<1>1. Fits(x)'
  <2>1. /\ call[x] # NoCall /\ call'[x].op = call[x].op /\ call[x] \in Calls
        /\ call'[x].at # "sent"
    BY CallMoves DEF CallSteps, DraftsTypeOK
  <2>2. SaveFits(draft, call[x]) /\ CheckFits(draft, version, call[x])
    BY <2>1 DEF Fits
  <2>3. CASE call[x].op \in {"create", "update"}
    BY <2>1, <2>2, <2>3, SaveMoves DEF Fits, CheckFits
  <2>4. CASE call[x].op \in {"delete", "validate", "publish"}
    BY <2>1, <2>2, <2>4, CheckMoves DEF Fits, SaveFits
  <2> QED
    BY <2>1, <2>3, <2>4 DEF Calls, Operations
<1>2. Alone'
  BY CallMoves DEF CallSteps, Alone, Between
<1> QED
  BY <1>1, <1>2, OthersFit

\* A lost message leaves a call that claims nothing.
LEMMA LossFits ==
    ASSUME DraftsTypeOK, NEW x \in Callers, Lose(x), Alone,
           \A y \in Callers : Fits(y)
    PROVE  /\ Alone' /\ \A y \in Callers : Fits(y)'
           /\ Turns(x, "refused") /\ \A y \in Callers \ {x} : call'[y] = call[y]
           /\ UNCHANGED <<draft, version>>
<1>1. /\ Turns(x, "refused") /\ \A y \in Callers \ {x} : call'[y] = call[y]
      /\ UNCHANGED <<draft, version>>
  BY ToTurns DEF Lose, Stages, Answers
<1>2. Fits(x)'
  BY <1>1 DEF Fits, Turns, SaveFits, CheckFits
<1>3. \A y \in Callers \ {x} : Fits(y)'
  BY <1>1 DEF Fits
<1>4. \A y \in Callers : Between(y)' => Between(y)
  BY <1>1 DEF Between, Turns, Answers
<1> QED
  BY <1>1, <1>2, <1>3, <1>4 DEF Alone

-----------------------------------------------------------------------------
(* What composers show while the service works. *)

\* The parts of what an open composer shows.
LEMMA SurfaceTypes ==
    ASSUME ComposerInv, NEW c \in Composers
    PROVE  /\ ui[c] \in Surfaces
           /\ ui[c].ref # NoRef => ui[c].ref.id \in Drafts /\ ui[c].ref.rev \in Nat
           /\ ui[c].canvas \in Contents /\ ui[c].canvas.key \in Keys
           /\ ui[c].canvas \notin {NoVersion, NoContent}
           /\ \A d \in Drafts : ui[c].listed[d] # NoDraft =>
                /\ ui[c].listed[d] \in Rows
                /\ ui[c].listed[d].rev \in Nat
                /\ ui[c].listed[d].content \in Contents
<1>1. ui[c] \in Surfaces
  BY DEF ComposerInv
<1>2. ui[c].ref # NoRef => ui[c].ref.id \in Drafts /\ ui[c].ref.rev \in Nat
  BY <1>1 DEF Surfaces, References
<1>3. ui[c].canvas \in Contents
  BY <1>1 DEF Surfaces
<1>4. \A d \in Drafts : ui[c].listed[d] \in Rows \cup {NoDraft}
  BY <1>1 DEF Surfaces
<1> QED
  BY <1>1, <1>2, <1>3, <1>4, KeyOfContent, NullAssumption DEF Rows, NullAssumption

\* The call of a slot.
LEMMA SlotCall ==
    ASSUME ComposerInv, NEW c \in Composers, NEW s \in Slots,
           call[<<c, s>>] # NoCall
    PROVE  /\ <<c, s>> \in Callers
           /\ call[<<c, s>>] \in Calls /\ Carries(call[<<c, s>>])
           /\ call[<<c, s>>].rev \in Nat
BY SlotsAreCallers DEF ComposerInv, DraftsTypeOK, Carries, Calls

LEMMA ScreenKept ==
    ASSUME ComposerInv, NEW x \in Callers, Transaction(x), ui' = ui,
           NEW c \in Composers, ScreenFits(c)
    PROVE  ScreenFits(c)'
<1>1. DraftsTypeOK
  BY DEF ComposerInv
<1>2. ui[c].published # NoVersion =>
        version'[ui[c].canvas.key] = version[ui[c].canvas.key]
  BY <1>1, SurfaceTypes, VersionsKept DEF ScreenFits
<1>3. ui[c].ref # NoRef =>
        Covers(draft', ui[c].ref.id, ui[c].ref.rev, ui[c].canvas)
  BY <1>1, SurfaceTypes, ClaimsKept DEF ScreenFits
<1>4. ui[c].ref # NoRef /\ ui[c].save = "saved" =>
        Matches(draft', ui[c].ref.id, ui[c].ref.rev, ui[c].canvas)
  BY <1>1, SurfaceTypes, ClaimsKept DEF ScreenFits
<1>5. \A d \in Drafts : ui[c].listed[d] # NoDraft =>
        Matches(draft', d, ui[c].listed[d].rev, ui[c].listed[d].content)
  BY <1>1, SurfaceTypes, ClaimsKept DEF ScreenFits
<1> QED
  BY <1>2, <1>3, <1>4, <1>5 DEF ScreenFits

LEMMA SaveOfCanvasKept ==
    ASSUME ComposerInv, NEW x \in Callers, Transaction(x), ui' = ui,
           \A y \in Callers : Fits(y),
           NEW c \in Composers, SaveOfCanvas(c)
    PROVE  SaveOfCanvas(c)'
<1> DEFINE z == <<c, "save">>
<1>1. DraftsTypeOK /\ z \in Callers /\ Linked(c)
  BY SlotsAreCallers DEF ComposerInv
<1>2. Checking(c)' = Checking(c)
  BY DEF Checking
<1>3. CASE x # z
  BY <1>1, <1>2, <1>3, CallMoves, ClaimsKept DEF CallSteps, SaveOfCanvas
<1>4. CASE x = z
  <2>1. /\ call[z] # NoCall /\ call[z].op \in {"create", "update"}
        /\ SaveFits(draft, call[z]) /\ call'[z] # NoCall
        /\ call[z].op = "update" => call'[z].id = call[z].id
    BY <1>1, <1>4, CallMoves DEF CallSteps, Linked, Saving, Fits
  <2>2. /\ call'[z].content = call[z].content
        /\ call[z].op = "create" => /\ call[z].at = "sent" => call[z].id = NoId
                                    /\ call[z].at # "sent" => call'[z].id = call[z].id
    BY <1>1, <1>4, <2>1, SaveMoves
  <2>3. Gone(draft, call[z].id) => Gone(draft', call'[z].id)
    BY <1>1, <2>1, <2>2, ClaimsKept, DraftAssumption DEF Gone, DraftAssumption
  <2> QED
    BY <1>2, <2>1, <2>2, <2>3 DEF SaveOfCanvas
<1> QED
  BY <1>3, <1>4

LEMMA FlowOfCanvasKept ==
    ASSUME ComposerInv, NEW x \in Callers, Transaction(x), ui' = ui,
           \A y \in Callers : Fits(y),
           NEW c \in Composers, NEW k \in Checks, FlowOfCanvas(c, k)
    PROVE  FlowOfCanvas(c, k)'
<1> DEFINE z == <<c, k>>
           u == ui[c]
<1> SUFFICES ASSUME Past(c, k)
             PROVE  /\ Matches(draft', call'[z].id, call'[z].rev, u.canvas)
                    /\ u.ref # NoRef =>
                         Matches(draft', u.ref.id, u.ref.rev, u.canvas)
                    /\ call'[z].op = "publish"
                       /\ call'[z].at \in {"read", "looked", "answered"}
                         => call'[z].content = u.canvas
  BY DEF FlowOfCanvas, Past
<1>1. DraftsTypeOK /\ z \in Callers /\ Linked(c)
  BY SlotsAreCallers DEF ComposerInv
<1>2. call[z] # NoCall /\ call[z].op \in {"validate", "publish"}
  BY <1>1 DEF Linked, Past
<1>3. call[z].id \in Drafts /\ call[z].rev \in Nat
  BY <1>1, <1>2 DEF DraftsTypeOK, Calls
<1>4. /\ Matches(draft, call[z].id, call[z].rev, u.canvas)
      /\ u.ref # NoRef => Matches(draft, u.ref.id, u.ref.rev, u.canvas)
      /\ call[z].op = "publish" /\ call[z].at \in {"read", "looked", "answered"}
           => call[z].content = u.canvas
  BY DEF FlowOfCanvas
<1>5. u.ref # NoRef => Matches(draft', u.ref.id, u.ref.rev, u.canvas)
  BY <1>1, <1>4, SurfaceTypes, ClaimsKept
<1>6. Matches(draft', call[z].id, call[z].rev, u.canvas)
  BY <1>1, <1>3, <1>4, ClaimsKept
<1>7. CASE x # z
  BY <1>1, <1>4, <1>5, <1>6, <1>7, CallMoves DEF CallSteps
<1>8. CASE x = z
  <2>1. call'[z].id = call[z].id /\ call'[z].rev = call[z].rev
        /\ call'[z].op = call[z].op
    BY <1>1, <1>2, <1>8, CallMoves DEF CallSteps
  <2>2. CheckFits(draft, version, call[z])
    BY <1>1, <1>2 DEF Fits
  <2>3. /\ call'[z].op = "publish" /\ call'[z].at \in {"looked", "answered"}
             => call'[z].content = call[z].content /\ call[z].at \in {"read", "looked"}
        /\ call'[z].op = "publish" /\ call'[z].at = "read"
             => HeldAt(draft, call[z].id, call[z].rev)
                /\ draft[call[z].id].content = call'[z].content
    BY <1>1, <1>2, <1>8, <2>2, CheckMoves
  <2>4. HeldAt(draft, call[z].id, call[z].rev)
          => draft[call[z].id].content = u.canvas
    BY <1>4 DEF Matches
  <2> QED
    BY <1>4, <1>5, <1>6, <2>1, <2>3, <2>4
<1> QED
  BY <1>7, <1>8

LEMMA DeleteOfOpenedKept ==
    ASSUME ComposerInv, NEW x \in Callers, Transaction(x), ui' = ui,
           \A y \in Callers : Fits(y), Alone, OneCallAtATime,
           NEW c \in Composers, DeleteOfOpened(c),
           \A k \in Checks : FlowOfCanvas(c, k)
    PROVE  DeleteOfOpened(c)'
<1> DEFINE y == <<c, "save">>
           z == <<c, "delete">>
           u == ui[c]
<1>1. /\ DraftsTypeOK /\ y \in Callers /\ z \in Callers /\ Linked(c) /\ y # z
      /\ \A k \in Checks : <<c, k>> \in Callers /\ <<c, k>> # y /\ <<c, k>> # z
  BY SlotsAreCallers DEF ComposerInv
<1>2. CallSteps(x)
  BY <1>1, CallMoves
<1>3. \A k \in Checks : Past(c, k) =>
        /\ call[<<c, k>>] # NoCall /\ call[<<c, k>>].op \in {"validate", "publish"}
  BY DEF Linked, ComposerInv, Past
<1>4. \A k \in Checks : Past(c, k) =>
        /\ call'[<<c, k>>].id = call[<<c, k>>].id
        /\ call'[<<c, k>>].rev = call[<<c, k>>].rev
  BY <1>1, <1>2, <1>3 DEF CallSteps
<1>5. \A k \in Checks : Past(c, k)' = Past(c, k)
  BY DEF Past
<1> SUFFICES ASSUME call'[z] # NoCall, call'[z].at # "refused"
             PROVE  /\ u.ref # NoRef /\ u.ref.id = call'[z].id
                    /\ call'[z].rev <= u.ref.rev
                    /\ call'[y] # NoCall =>
                         /\ call'[y].op = "update" /\ call'[y].id = call'[z].id
                         /\ call'[z].rev <= call'[y].rev
                         /\ call'[y].at = "answered" => call'[z].rev < call'[y].rev
                         /\ call'[z].at = "answered"
                              => call'[y].at \notin {"written", "answered"}
                    /\ \A k \in Checks : Past(c, k) =>
                         /\ call'[<<c, k>>].id = call'[z].id
                         /\ call'[z].rev < call'[<<c, k>>].rev
                         /\ call'[z].at # "answered"
  BY <1>5 DEF DeleteOfOpened
<1>6. /\ call[z] # NoCall /\ call[z].at # "refused" /\ call[z].op = "delete"
      /\ call'[z].id = call[z].id /\ call'[z].rev = call[z].rev
      /\ call'[z].op = call[z].op
  BY <1>1, <1>2 DEF CallSteps, Linked, Answers
<1>7. /\ u.ref # NoRef /\ u.ref.id = call[z].id /\ call[z].rev <= u.ref.rev
      /\ call[y] # NoCall =>
           /\ call[y].op = "update" /\ call[y].id = call[z].id
           /\ call[z].rev <= call[y].rev
           /\ call[y].at = "answered" => call[z].rev < call[y].rev
           /\ call[z].at = "answered" => call[y].at \notin {"written", "answered"}
      /\ \A k \in Checks : Past(c, k) =>
           /\ call[<<c, k>>].id = call[z].id
           /\ call[z].rev < call[<<c, k>>].rev
           /\ call[z].at # "answered"
  BY <1>6 DEF DeleteOfOpened
<1>8. call[z].rev \in Nat /\ call[z].id \in Drafts
      /\ (call[y] # NoCall => call[y].rev \in Nat)
      /\ \A k \in Checks : Past(c, k) => call[<<c, k>>].rev \in Nat
  BY <1>1, <1>3, <1>6 DEF DraftsTypeOK, Calls
<1>9. CASE x = z
  <2>1. /\ call'[y] = call[y]
        /\ OneCallAtATime => ~Between(y)
    BY <1>1, <1>2, <1>9 DEF CallSteps
  <2>2. CheckFits(draft, version, call[z])
    BY <1>1, <1>6 DEF Fits
  <2>3. CASE call'[z].at = "answered"
    <3>1. HeldAt(draft, call[z].id, call[z].rev)
      BY <1>1, <1>6, <1>9, <2>2, <2>3, CheckMoves
    <3>2. ASSUME NEW r \in Nat, Known(draft, call[z].id, r) PROVE r <= call[z].rev
      BY <3>1, <3>2 DEF Known, HeldAt
    <3>3. ASSUME call[y] # NoCall PROVE call[y].at \notin {"written", "answered"}
      <4>1. call[y].at # "written"
        BY <2>1, <3>3 DEF Between, Answers
      <4>2. call[y].at = "answered" => Known(draft, call[y].id, call[y].rev)
        BY <1>1, <1>7, <3>3 DEF Fits, SaveFits, Matches
      <4> QED
        BY <1>7, <1>8, <3>2, <3>3, <4>1, <4>2
    <3>4. \A k \in Checks : ~Past(c, k)
      <4> SUFFICES ASSUME NEW k \in Checks, Past(c, k) PROVE FALSE
        OBVIOUS
      <4>1. Known(draft, call[<<c, k>>].id, call[<<c, k>>].rev)
        BY DEF FlowOfCanvas, Matches
      <4> QED
        BY <1>7, <1>8, <3>2, <4>1
    <3> QED
      BY <1>6, <1>7, <2>1, <3>3, <3>4
  <2>4. CASE call'[z].at # "answered"
    BY <1>4, <1>6, <1>7, <2>1, <2>4, <1>2, <1>9 DEF CallSteps, Answers
  <2> QED
    BY <2>3, <2>4
<1>10. CASE x = y
  <2>1. call'[z] = call[z] /\ call[y] # NoCall
    BY <1>1, <1>2, <1>10 DEF CallSteps
  <2>2. /\ call[y].op = "update" /\ SaveFits(draft, call[y])
        /\ call'[y].op = "update" /\ call'[y].id = call[y].id
        /\ call[y].at \notin Answers
    BY <1>1, <1>2, <1>7, <1>10, <2>1 DEF Fits, CallSteps
  <2>3. /\ \/ call'[y].at # "answered" /\ call'[y].rev = call[y].rev
           \/ /\ call[y].at = "written" /\ call'[y].at = "answered"
              /\ call'[y].rev = call[y].rev + 1
        /\ call'[y].at = "written" => HeldAt(draft, call[y].id, call[y].rev)
    BY <1>1, <1>10, <2>2, SaveMoves
  <2>5. call[z].at = "answered" => call'[y].at \notin {"written", "answered"}
    <3> SUFFICES ASSUME call[z].at = "answered"
                 PROVE  call'[y].at \notin {"written", "answered"}
      OBVIOUS
    <3>1. Gone(draft, call[y].id)
      BY <1>1, <1>6, <1>7, <2>1 DEF Fits, CheckFits
    <3>2. call'[y].at # "written"
      BY <2>3, <3>1 DEF Gone, HeldAt, Held
    <3>3. call[y].at # "written"
      BY <1>7, <2>1
    <3> QED
      BY <3>2, <3>3, <2>3
  <2> QED
    BY <1>4, <1>6, <1>7, <1>8, <2>1, <2>2, <2>3, <2>5
<1>11. CASE x # y /\ x # z
  BY <1>1, <1>2, <1>4, <1>7, <1>11 DEF CallSteps
<1> QED
  BY <1>9, <1>10, <1>11

\* A lost message leaves what composers show.
LEMMA CanvasAfterLoss ==
    ASSUME ComposerInv, NEW x \in Callers, Lose(x), ui' = ui, Alone,
           \A y \in Callers : Fits(y), NEW c \in Composers, CanvasFits(c)
    PROVE  CanvasFits(c)'
<1>1. /\ Turns(x, "refused") /\ \A y \in Callers \ {x} : call'[y] = call[y]
      /\ UNCHANGED <<draft, version>> /\ call[x] # NoCall
  BY LossFits DEF ComposerInv, Lose
<1>2. \A s \in Slots : LET o == call[<<c, s>>]
                           n == call'[<<c, s>>]
                       IN  \/ n = o
                           \/ /\ o # NoCall /\ n # NoCall /\ n.at = "refused"
                              /\ n.op = o.op /\ n.id = o.id /\ n.rev = o.rev
                              /\ n.content = o.content
  BY <1>1, SlotsAreCallers DEF Turns
<1>3. CASE ~Open(c)
  BY <1>1, <1>2, <1>3, SlotsAreCallers DEF CanvasFits, Open, Closed
<1>4. CASE Open(c)
  <2>1. ScreenFits(c) /\ SaveOfCanvas(c) /\ DeleteOfOpened(c)
        /\ \A k \in Checks : FlowOfCanvas(c, k)
    BY <1>4 DEF CanvasFits
  <2>2. ScreenFits(c)'
    BY <1>1, <2>1 DEF ScreenFits
  <2>3. SaveOfCanvas(c)'
    <3>1. Checking(c)' = Checking(c) /\ "save" \in Slots
      BY SlotsAreCallers DEF Checking
    <3> QED
      BY <1>1, <1>2, <2>1, <3>1 DEF SaveOfCanvas
  <2>4. DeleteOfOpened(c)'
    <3>1. /\ "save" \in Slots /\ "delete" \in Slots /\ Checks \subseteq Slots
          /\ \A k \in Checks : Past(c, k)' = Past(c, k)
          /\ \A k \in Checks : Past(c, k) => call[<<c, k>>] # NoCall
      BY SlotsAreCallers DEF Past, ComposerInv, Linked
    <3> QED
      BY <1>2, <2>1, <3>1 DEF DeleteOfOpened
  <2>5. ASSUME NEW k \in Checks PROVE FlowOfCanvas(c, k)'
    <3>1. FlowOfCanvas(c, k) /\ k \in Slots /\ Past(c, k)' = Past(c, k)
      BY <2>1, SlotsAreCallers DEF Past
    <3> QED
      BY <1>1, <1>2, <3>1 DEF FlowOfCanvas
  <2> QED
    BY <1>4, <2>2, <2>3, <2>4, <2>5 DEF CanvasFits, Open
<1> QED
  BY <1>3, <1>4

\* The service keeps the invariant.
LEMMA ServerFits ==
    ASSUME PatientInv, OneCallAtATime, NEW x \in Callers, Server(x) \/ Network(x)
    PROVE  PatientInv'
<1>1. ComposerInv' /\ ui' = ui /\ DraftsTypeOK
  BY ServiceStep DEF PatientInv, Server, Network, ComposerInv
<1>2. CASE Server(x)
  <2>1. Transaction(x)
    BY <1>2 DEF Server
  <2>2. Alone' /\ \A y \in Callers : Fits(y)'
    BY <1>1, <2>1, CallsFit DEF PatientInv
  <2>3. ASSUME NEW c \in Composers, ~Open(c) PROVE CanvasFits(c)'
    <3>1. call[x] # NoCall /\ \A y \in Callers \ {x} : call'[y] = call[y]
      BY <1>1, <2>1, CallMoves DEF CallSteps
    <3>2. CanvasFits(c)
      BY DEF PatientInv
    <3> QED
      BY <1>1, <2>3, <3>1, <3>2, SlotsAreCallers DEF CanvasFits, Open, Closed
  <2>4. ASSUME NEW c \in Composers, Open(c) PROVE CanvasFits(c)'
    <3>1. ScreenFits(c) /\ SaveOfCanvas(c) /\ DeleteOfOpened(c)
          /\ \A k \in Checks : FlowOfCanvas(c, k)
      BY <2>4 DEF PatientInv, CanvasFits
    <3>2. ScreenFits(c)' /\ SaveOfCanvas(c)' /\ DeleteOfOpened(c)'
          /\ \A k \in Checks : FlowOfCanvas(c, k)'
      BY <1>1, <2>1, <3>1, ScreenKept, SaveOfCanvasKept, DeleteOfOpenedKept,
         FlowOfCanvasKept DEF PatientInv
    <3> QED
      BY <1>1, <2>4, <3>2 DEF CanvasFits, Open
  <2> QED
    BY <1>1, <2>2, <2>3, <2>4 DEF PatientInv
<1>3. CASE Network(x)
  <2>1. Lose(x)
    BY <1>3 DEF Network
  <2> QED
    BY <1>1, <2>1, LossFits, CanvasAfterLoss DEF PatientInv
<1> QED
  BY <1>2, <1>3

-----------------------------------------------------------------------------
(* What composers do. *)

\* A step of composer c: its calls stay, end or are new requests that fit.
LEMMA StepFits ==
    ASSUME PatientInv, ComposerInv', NEW c \in Composers,
           UNCHANGED <<draft, version>>,
           \A e \in Composers \ {c} : ui'[e] = ui[e],
           \A e \in Composers \ {c}, s \in Slots : call'[<<e, s>>] = call[<<e, s>>],
           \A s \in Slots :
              \/ call'[<<c, s>>] \in {call[<<c, s>>], NoCall}
              \/ call'[<<c, s>>].at = "sent" /\ SaveFits(draft, call'[<<c, s>>]),
           CanvasFits(c)'
    PROVE  PatientInv'
<1>1. \A e \in Composers \ {c} : CanvasFits(e)'
  <2> SUFFICES ASSUME NEW e \in Composers \ {c} PROVE CanvasFits(e)'
    OBVIOUS
  <2>1. /\ CanvasFits(e) /\ ui'[e] = ui[e] /\ UNCHANGED <<draft, version>>
        /\ \A s \in Slots : call'[<<e, s>>] = call[<<e, s>>]
        /\ Checks \subseteq Slots /\ "save" \in Slots /\ "delete" \in Slots
    BY SlotsAreCallers DEF PatientInv
  <2>2. /\ call'[<<e, "save">>] = call[<<e, "save">>]
        /\ call'[<<e, "delete">>] = call[<<e, "delete">>]
        /\ \A k \in Checks : call'[<<e, k>>] = call[<<e, k>>]
        /\ \A k \in Checks : Past(e, k)' = Past(e, k)
        /\ Checking(e)' = Checking(e) /\ Open(e)' = Open(e)
    BY <2>1 DEF Past, Checking, Open
  <2>3. Closed(e) => Closed(e)'
    BY <2>1 DEF Closed
  <2>4. ScreenFits(e) => ScreenFits(e)'
    BY <2>1 DEF ScreenFits
  <2>5. SaveOfCanvas(e) => SaveOfCanvas(e)'
    BY <2>1, <2>2 DEF SaveOfCanvas
  <2>6. DeleteOfOpened(e) => DeleteOfOpened(e)'
    BY <2>1, <2>2 DEF DeleteOfOpened
  <2>7. \A k \in Checks : FlowOfCanvas(e, k) => FlowOfCanvas(e, k)'
    BY <2>1, <2>2 DEF FlowOfCanvas
  <2> QED
    BY <2>1, <2>2, <2>3, <2>4, <2>5, <2>6, <2>7 DEF CanvasFits
<1>2. \A y \in Callers : \/ call'[y] \in {call[y], NoCall}
                         \/ call'[y].at = "sent" /\ SaveFits(draft, call'[y])
  BY SlotsAreCallers
<1>3. \A y \in Callers : Fits(y)'
  BY <1>2 DEF PatientInv, Fits, CheckFits
<1>4. \A y \in Callers : Between(y)' => Between(y)
  BY <1>2 DEF Between
<1> QED
  BY <1>1, <1>3, <1>4 DEF PatientInv, Alone

\* The request of a save fits the canvas that it was made from.
LEMMA SaveRequestFits ==
    ASSUME ComposerInv, NEW c \in Composers, ScreenFits(c)
    PROVE  LET r == SaveRequest(ui[c]) IN
           /\ r # NoCall /\ r.at = "sent" /\ r.content = ui[c].canvas
           /\ SaveFits(draft, r)
           /\ ui[c].ref # NoRef => /\ r.op = "update" /\ r.id = ui[c].ref.id
                                   /\ r.rev = ui[c].ref.rev
<1>1. SaveRequest(ui[c]) # NoCall
  BY SurfaceTypes, SaveRequestCarries
<1> QED
  BY <1>1 DEF SaveRequest, Request, SaveFits, ScreenFits

\* Only the screen of an open composer changes.
LEMMA OpenKept ==
    ASSUME ComposerInv, NEW c \in Composers, NEW u, ui' = Show(c, u)
    PROVE  /\ \A e \in Composers \ {c} : ui'[e] = ui[e]
           /\ Open(c) => ui'[c] = u
           /\ ~Open(c) => ui'[c] = [ui[c] EXCEPT !.flow = u.flow]
BY DEF ComposerInv, Show

\* Another save of the open document begins, by a button, the timer or a
\* flow k, which then awaits it.
SaveBegins(c, flow) ==
    /\ Open(c) /\ ~Saving(c)
    /\ ui' = [ui EXCEPT ![c] = [SaveStarted(@) EXCEPT !.flow = flow]]
    /\ call' = [call EXCEPT ![<<c, "save">>] = SaveRequest(ui[c])]
    /\ UNCHANGED <<draft, version>>
    /\ flow \in [Checks -> {"idle", "saving", "asking", "publishing"}]
    /\ \A k \in Checks : flow[k] = ui[c].flow[k] \/ flow[k] = "saving"

LEMMA SaveBeginsFits ==
    ASSUME PatientInv, ComposerInv', NEW c \in Composers, NEW flow,
           SaveBegins(c, flow)
    PROVE  PatientInv'
<1> DEFINE u == ui[c]
           y == <<c, "save">>
           r == SaveRequest(u)
<1>1. /\ ComposerInv /\ u \in Surfaces /\ y \in Callers
      /\ ui \in [Composers -> Surfaces] /\ call \in [Callers -> Calls \cup {NoCall}]
      /\ ScreenFits(c) /\ SaveOfCanvas(c) /\ DeleteOfOpened(c)
      /\ \A k \in Checks : FlowOfCanvas(c, k)
  BY SlotsAreCallers DEF PatientInv, CanvasFits, ComposerInv, DraftsTypeOK, SaveBegins
<1>2. /\ call'[y] = r /\ call[y] = NoCall
      /\ \A x \in Callers \ {y} : call'[x] = call[x]
      /\ UNCHANGED <<draft, version>> /\ Open(c)
  BY <1>1 DEF SaveBegins, Saving
<1>3. /\ ui'[c] = [SaveStarted(u) EXCEPT !.flow = flow]
      /\ \A e \in Composers \ {c} : ui'[e] = ui[e]
  BY <1>1 DEF SaveBegins
<1>4. /\ ui'[c].ref = u.ref /\ ui'[c].canvas = u.canvas /\ ui'[c].listed = u.listed
      /\ ui'[c].published = u.published /\ ui'[c].page = u.page
      /\ ui'[c].save = "saving" /\ ui'[c].touched = FALSE /\ ui'[c].flow = flow
  BY <1>1, <1>3 DEF SaveStarted, Surfaces
<1>5. /\ r # NoCall /\ r.at = "sent" /\ r.content = u.canvas /\ SaveFits(draft, r)
      /\ u.ref # NoRef => r.op = "update" /\ r.id = u.ref.id /\ r.rev = u.ref.rev
  BY <1>1, SaveRequestFits
<1>6. \A k \in Checks : Past(c, k)' => Past(c, k)
  BY <1>4 DEF Past, SaveBegins
<1>7. \A s \in Slots \ {"save"} : call'[<<c, s>>] = call[<<c, s>>]
  BY <1>2, SlotsAreCallers
<1> HIDE DEF r
<1>8. CanvasFits(c)'
  <2>1. ScreenFits(c)'
    BY <1>1, <1>2, <1>4 DEF ScreenFits
  <2>2. SaveOfCanvas(c)'
    BY <1>2, <1>4, <1>5 DEF SaveOfCanvas
  <2>3. DeleteOfOpened(c)'
    BY <1>1, <1>2, <1>4, <1>5, <1>6, <1>7, SlotsAreCallers DEF DeleteOfOpened
  <2>4. \A k \in Checks : FlowOfCanvas(c, k)'
    BY <1>1, <1>2, <1>4, <1>6, <1>7, SlotsAreCallers DEF FlowOfCanvas
  <2> QED
    BY <1>2, <1>4, <2>1, <2>2, <2>3, <2>4 DEF CanvasFits, Open
<1> QED
  BY <1>1, <1>2, <1>3, <1>5, <1>7, <1>8, StepFits, SlotsAreCallers

\* Another document is opened, while composer c waits for nothing.
LEMMA ResetFits ==
    ASSUME PatientInv, ComposerInv', NEW c \in Composers, Open(c), ~Busy(c),
           NEW w, NEW ref,
           ui' = [ui EXCEPT ![c] = Reset(@, w, ref)],
           UNCHANGED <<draft, version, call>>,
           ref # NoRef => Matches(draft, ref.id, ref.rev, w)
    PROVE  PatientInv'
<1> DEFINE u == ui[c]
<1>1. /\ u \in Surfaces /\ ui \in [Composers -> Surfaces] /\ ScreenFits(c)
  BY DEF PatientInv, CanvasFits, ComposerInv
<1>2. ui'[c] = Reset(u, w, ref) /\ \A e \in Composers \ {c} : ui'[e] = ui[e]
  BY <1>1
<1>3. /\ ui'[c].ref = ref /\ ui'[c].canvas = w /\ ui'[c].listed = u.listed
      /\ ui'[c].published = NoVersion /\ ui'[c].page = u.page
      /\ ui'[c].flow = u.flow
  BY <1>1, <1>2 DEF Reset, Surfaces
<1>4. /\ \A s \in Slots : call'[<<c, s>>] = NoCall
      /\ \A k \in Checks : ~Past(c, k)'
  BY <1>3 DEF Busy, Checking, Past
<1>5. Matches(draft, ref.id, ref.rev, w) => Covers(draft, ref.id, ref.rev, w)
  BY DEF Matches, Covers
<1>6. CanvasFits(c)'
  <2>1. ScreenFits(c)'
    BY <1>1, <1>3, <1>5 DEF ScreenFits
  <2>2. SaveOfCanvas(c)' /\ DeleteOfOpened(c)' /\ \A k \in Checks : FlowOfCanvas(c, k)'
    BY <1>4, SlotsAreCallers DEF SaveOfCanvas, DeleteOfOpened, FlowOfCanvas
  <2> QED
    BY <1>3, <2>1, <2>2 DEF CanvasFits, Open
<1> QED
  BY <1>2, <1>6, StepFits

\* What users do keeps the invariant.
LEMMA UserFits ==
    ASSUME PatientInv, PatientUser, NEW c \in Composers, User(c)
    PROVE  PatientInv'
<1> DEFINE u == ui[c]
<1>1. /\ ComposerInv /\ ComposerInv' /\ u \in Surfaces /\ CanvasFits(c)
      /\ ui \in [Composers -> Surfaces] /\ call \in [Callers -> Calls \cup {NoCall}]
      /\ draft \in [Drafts -> Rows \cup {NoDraft, Deleted}] /\ Linked(c)
  BY UserStep DEF PatientInv, ComposerInv, DraftsTypeOK
<1>2. CASE Mount(c) \/ MountFailed(c)
  <2>1. PICK rows, m : /\ ui' = [ui EXCEPT ![c] = [@ EXCEPT !.page = "open",
                                                   !.listed = rows, !.save = m]]
                       /\ \A d \in Drafts :
                            rows[d] # NoDraft => Stored(d) /\ rows[d] = draft[d]
    <3>1. CASE Mount(c)
      <4> DEFINE rows == [d \in Drafts |-> IF Stored(d) THEN draft[d] ELSE NoDraft]
      <4>1. ui' = [ui EXCEPT ![c] = [@ EXCEPT !.page = "open", !.listed = rows,
                                              !.save = ui[c].save]]
        BY <1>1, <3>1 DEF Mount, Surfaces
      <4>2. \A d \in Drafts : rows[d] # NoDraft => Stored(d) /\ rows[d] = draft[d]
        OBVIOUS
      <4> HIDE DEF rows
      <4> QED
        BY <4>1, <4>2
    <3>2. CASE MountFailed(c)
      <4>1. u.listed = [d \in Drafts |-> NoDraft]
        BY <1>1, <3>2 DEF MountFailed, CanvasFits, Open, Closed
      <4>2. ui' = [ui EXCEPT ![c] = [@ EXCEPT !.page = "open", !.listed = u.listed,
                                              !.save = "error"]]
        BY <1>1, <3>2 DEF MountFailed, Surfaces
      <4> QED
        BY <4>1, <4>2
    <3> QED
      BY <1>2, <3>1, <3>2
  <2>2. /\ u.page = "away" /\ UNCHANGED <<draft, version, call>>
        /\ ui'[c] = [u EXCEPT !.page = "open", !.listed = rows, !.save = m]
        /\ \A e \in Composers \ {c} : ui'[e] = ui[e]
    BY <1>1, <1>2, <2>1 DEF Mount, MountFailed, dvars
  <2>3. /\ ui'[c].page = "open" /\ ui'[c].ref = u.ref /\ ui'[c].listed = rows
        /\ ui'[c].published = u.published /\ ui'[c].flow = u.flow
    BY <1>1, <2>2 DEF Surfaces
  <2>4. /\ u.ref = NoRef /\ u.published = NoVersion
        /\ \A s \in Slots : call[<<c, s>>] = NoCall
    BY <1>1, <2>2 DEF CanvasFits, Open, Closed
  <2>5. \A k \in Checks : ~Past(c, k)'
    BY <1>1, <2>3, <2>4, SlotsAreCallers DEF Linked, Past
  <2>6. ScreenFits(c)'
    <3>1. ASSUME NEW d \in Drafts, rows[d] # NoDraft
          PROVE  Matches(draft, d, rows[d].rev, rows[d].content)
      <4>1. Stored(d) /\ rows[d] = draft[d] /\ draft[d].rev \in Nat
        BY <1>1, <2>1, <3>1, StoredRow DEF ComposerInv
      <4> QED
        BY <4>1 DEF Matches, Known, HeldAt, Held, Stored
    <3> QED
      BY <2>2, <2>3, <2>4, <3>1 DEF ScreenFits
  <2>7. CanvasFits(c)'
    BY <2>2, <2>3, <2>4, <2>5, <2>6, SlotsAreCallers
    DEF CanvasFits, Open, SaveOfCanvas, DeleteOfOpened, FlowOfCanvas
  <2> QED
    BY <1>1, <2>2, <2>7, StepFits
<1>3. CASE Unmount(c)
  <2>1. /\ ui'[c] = Unmounted("left", u.flow) /\ \A e \in Composers \ {c} : ui'[e] = ui[e]
        /\ UNCHANGED <<draft, version, call>>
    BY <1>1, <1>3 DEF Unmount, dvars
  <2>2. CanvasFits(c)'
    BY <2>1 DEF CanvasFits, Open, Closed, Unmounted
  <2> QED
    BY <1>1, <2>1, <2>2, StepFits
<1>4. CASE Edit(c)
  <2>1. PICK e \in Edits, k \in Keys :
          ui' = [ui EXCEPT ![c].canvas = [key |-> k, edits |-> @.edits \cup {e}],
                           ![c].published = NoVersion, ![c].save = "dirty",
                           ![c].touched = TRUE]
    BY <1>4 DEF Edit
  <2> DEFINE w == [key |-> k, edits |-> u.canvas.edits \cup {e}]
  <2>2. /\ ui'[c] = [u EXCEPT !.canvas = w, !.published = NoVersion,
                              !.save = "dirty", !.touched = TRUE]
        /\ \A o \in Composers \ {c} : ui'[o] = ui[o]
        /\ UNCHANGED <<draft, version, call>> /\ Open(c) /\ ~Checking(c)
    BY <1>1, <1>4, <2>1 DEF Edit, MayEdit, dvars
  <2>3. w.edits = u.canvas.edits \cup {e}
    OBVIOUS
  <2> HIDE DEF w
  <2>4. /\ ui'[c].page = u.page /\ ui'[c].ref = u.ref /\ ui'[c].listed = u.listed
        /\ ui'[c].flow = u.flow /\ ui'[c].canvas = w /\ ui'[c].published = NoVersion
        /\ ui'[c].save = "dirty" /\ ui'[c].touched
    BY <1>1, <2>2 DEF Surfaces
  <2>5. ScreenFits(c) /\ SaveOfCanvas(c) /\ DeleteOfOpened(c)
    BY <1>1, <2>2 DEF CanvasFits
  <2>6. (\A k2 \in Checks : ~Past(c, k2)' /\ ~Past(c, k2)) /\ ~Checking(c)'
    BY <2>2, <2>4 DEF Checking, Past
  <2>7. ScreenFits(c)'
    <3>1. u.ref # NoRef => Covers(draft, u.ref.id, u.ref.rev, w)
      BY <2>3, <2>5 DEF ScreenFits, Covers
    <3> QED
      BY <2>2, <2>4, <2>5, <3>1 DEF ScreenFits
  <2>8. SaveOfCanvas(c)'
    BY <2>2, <2>3, <2>4, <2>5, <2>6 DEF SaveOfCanvas
  <2>9. DeleteOfOpened(c)'
    BY <2>2, <2>4, <2>5, <2>6 DEF DeleteOfOpened
  <2>10. \A k2 \in Checks : FlowOfCanvas(c, k2)'
    BY <2>6 DEF FlowOfCanvas
  <2>11. CanvasFits(c)'
    BY <2>2, <2>4, <2>7, <2>8, <2>9, <2>10 DEF CanvasFits, Open
  <2> QED
    BY <1>1, <2>2, <2>11, StepFits
<1>5. CASE NewWorkflow(c)
  BY <1>1, <1>5, ResetFits DEF NewWorkflow, Switches, dvars
<1>6. CASE OpenTemplate(c)
  <2>1. PICK w : ui' = [ui EXCEPT ![c] = Reset(@, w, NoRef)]
    BY <1>6 DEF OpenTemplate
  <2> QED
    BY <1>1, <1>6, <2>1, ResetFits DEF OpenTemplate, Switches, dvars
<1>7. CASE OpenDraft(c)
  <2>1. PICK d \in Drafts :
          /\ u.listed[d] # NoDraft
          /\ ui' = [ui EXCEPT ![c] =
                      Reset(@, u.listed[d].content,
                            [id |-> d, rev |-> u.listed[d].rev])]
    BY <1>7 DEF OpenDraft
  <2>2. Matches(draft, d, u.listed[d].rev, u.listed[d].content)
    BY <1>1, <1>7, <2>1 DEF CanvasFits, ScreenFits, OpenDraft, Switches
  <2> DEFINE ref == [id |-> d, rev |-> u.listed[d].rev]
  <2>3. Matches(draft, ref.id, ref.rev, u.listed[d].content)
    BY <2>2
  <2> HIDE DEF ref
  <2> QED
    BY <1>1, <1>7, <2>1, <2>3, ResetFits DEF OpenDraft, Switches, dvars, ref
<1>8. CASE Save(c)
  <2>1. SaveStarted(u) = [SaveStarted(u) EXCEPT !.flow = u.flow]
        /\ u.flow \in [Checks -> {"idle", "saving", "asking", "publishing"}]
    BY <1>1 DEF SaveStarted, Surfaces
  <2>2. SaveBegins(c, u.flow)
    BY <1>1, <1>8, <2>1 DEF Save, SaveBegins
  <2> QED
    BY <1>1, <2>2, SaveBeginsFits
<1>9. CASE Delete(c)
  <2> DEFINE z == <<c, "delete">>
             r == Request("delete", u.ref.id, u.ref.rev, NoContent)
  <2>1. /\ Open(c) /\ ~Busy(c) /\ u.ref # NoRef /\ UNCHANGED <<draft, version, ui>>
        /\ call' = [call EXCEPT ![z] = r]
    BY <1>9 DEF Delete, Switches
  <2>2. /\ r.at = "sent" /\ r.op = "delete" /\ r.id = u.ref.id /\ r.rev = u.ref.rev
        /\ SaveFits(draft, r)
    BY DEF Request, SaveFits
  <2> HIDE DEF r
  <2>3. /\ z \in Callers /\ call'[z] = r
        /\ \A s \in Slots \ {"delete"} : call'[<<c, s>>] = NoCall
        /\ \A x \in Callers \ {z} : call'[x] = call[x]
        /\ \A k \in Checks : ~Past(c, k) /\ ~Past(c, k)'
    BY <1>1, <2>1, SlotsAreCallers DEF Busy, Checking, Past
  <2>4. u.ref.rev <= u.ref.rev
    BY <1>1, <2>1, SurfaceTypes
  <2>5. CanvasFits(c)'
    <3>1. ScreenFits(c)'
      BY <1>1, <2>1 DEF CanvasFits, ScreenFits
    <3>2. SaveOfCanvas(c)' /\ \A k \in Checks : FlowOfCanvas(c, k)'
      BY <2>3, SlotsAreCallers DEF SaveOfCanvas, FlowOfCanvas
    <3>3. DeleteOfOpened(c)'
      BY <2>1, <2>2, <2>3, <2>4, SlotsAreCallers DEF DeleteOfOpened
    <3> QED
      BY <2>1, <3>1, <3>2, <3>3 DEF CanvasFits, Open
  <2> QED
    BY <1>1, <2>1, <2>2, <2>3, <2>5, StepFits, SlotsAreCallers
<1>10. ASSUME NEW k \in Checks, Check(c, k) PROVE PatientInv'
  <2>1. /\ Open(c) /\ ~(Saving(c) /\ u.touched) /\ u.flow[k] = "idle"
        /\ UNCHANGED <<draft, version>>
        /\ ScreenFits(c) /\ SaveOfCanvas(c) /\ DeleteOfOpened(c)
        /\ \A j \in Checks : FlowOfCanvas(c, j)
    BY <1>1, <1>10 DEF Check, MayCheck, CanvasFits
  <2>2. CASE u.canvas.edits \cap Flawed = {} /\ ~Saving(c)
    <3> DEFINE flow == [u.flow EXCEPT ![k] = "saving"]
    <3>1. /\ flow \in [Checks -> {"idle", "saving", "asking", "publishing"}]
          /\ \A j \in Checks : flow[j] = u.flow[j] \/ flow[j] = "saving"
          /\ [SaveStarted(u) EXCEPT !.flow[k] = "saving"]
               = [SaveStarted(u) EXCEPT !.flow = flow]
      BY <1>1 DEF SaveStarted, Surfaces
    <3>2. /\ ui' = [ui EXCEPT ![c] = [SaveStarted(@) EXCEPT !.flow[k] = "saving"]]
          /\ call' = [call EXCEPT ![<<c, "save">>] = SaveRequest(ui[c])]
      BY <1>10, <2>2 DEF Check
    <3> HIDE DEF flow
    <3>3. SaveBegins(c, flow)
      BY <1>1, <2>1, <2>2, <3>1, <3>2 DEF SaveBegins
    <3> QED
      BY <1>1, <3>3, SaveBeginsFits
  <2>3. CASE ~(u.canvas.edits \cap Flawed = {} /\ ~Saving(c))
    <3>1. PICK m, flow :
            /\ ui'[c] = [u EXCEPT !.save = m, !.flow = flow]
            /\ \/ m = "error" /\ flow = u.flow
               \/ m = u.save /\ Saving(c)
            /\ \A j \in Checks : flow[j] = u.flow[j] \/ flow[j] = "saving"
            /\ \A e \in Composers \ {c} : ui'[e] = ui[e]
            /\ call' = call
      <4>1. CASE u.canvas.edits \cap Flawed # {}
        <5>1. /\ ui' = [ui EXCEPT ![c] = [u EXCEPT !.save = "error"]]
              /\ call' = call
          BY <1>1, <1>10, <4>1 DEF Check
        <5>2. [u EXCEPT !.save = "error"] = [u EXCEPT !.save = "error", !.flow = u.flow]
          BY <1>1 DEF Surfaces
        <5>3. ui'[c] = [u EXCEPT !.save = "error", !.flow = u.flow]
          BY <1>1, <5>1, <5>2
        <5>4. \A e \in Composers \ {c} : ui'[e] = ui[e]
          BY <1>1, <5>1
        <5> QED
          BY <5>1, <5>3, <5>4
      <4>2. CASE u.canvas.edits \cap Flawed = {} /\ Saving(c)
        <5> DEFINE flow == [u.flow EXCEPT ![k] = "saving"]
        <5>1. /\ ui' = [ui EXCEPT ![c] = [u EXCEPT !.flow[k] = "saving"]]
              /\ call' = call
          BY <1>1, <1>10, <4>2 DEF Check
        <5>2. [u EXCEPT !.flow[k] = "saving"] = [u EXCEPT !.save = u.save, !.flow = flow]
          BY <1>1 DEF Surfaces
        <5>3. ui'[c] = [u EXCEPT !.save = u.save, !.flow = flow]
          BY <1>1, <5>1, <5>2
        <5>4. \A e \in Composers \ {c} : ui'[e] = ui[e]
          BY <1>1, <5>1
        <5>5. \A j \in Checks : flow[j] = u.flow[j] \/ flow[j] = "saving"
          BY <1>1 DEF Surfaces
        <5> HIDE DEF flow
        <5> QED
          BY <4>2, <5>1, <5>3, <5>4, <5>5
      <4> QED
        BY <2>3, <4>1, <4>2
    <3>2. /\ ui'[c].page = u.page /\ ui'[c].ref = u.ref /\ ui'[c].listed = u.listed
          /\ ui'[c].canvas = u.canvas /\ ui'[c].published = u.published
          /\ ui'[c].save = m /\ ui'[c].flow = flow /\ ui'[c].touched = u.touched
      BY <1>1, <3>1 DEF Surfaces
    <3>3. \A j \in Checks : Past(c, j)' => Past(c, j)
      BY <3>1, <3>2 DEF Past
    <3>4. ScreenFits(c)'
      BY <2>1, <3>1, <3>2 DEF ScreenFits
    <3>5. SaveOfCanvas(c)'
      <4>1. flow = u.flow => Checking(c)' = Checking(c)
        BY <3>1, <3>2 DEF Checking
      <4>2. Saving(c) => ~u.touched
        BY <2>1
      <4> QED
        BY <2>1, <3>1, <3>2, <4>1, <4>2 DEF SaveOfCanvas, Saving
    <3>6. DeleteOfOpened(c)'
      BY <2>1, <3>1, <3>2, <3>3 DEF DeleteOfOpened
    <3>7. \A j \in Checks : FlowOfCanvas(c, j)'
      BY <2>1, <3>1, <3>2, <3>3 DEF FlowOfCanvas
    <3>8. CanvasFits(c)'
      BY <2>1, <3>2, <3>4, <3>5, <3>6, <3>7 DEF CanvasFits, Open
    <3> QED
      BY <1>1, <2>1, <3>1, <3>8, StepFits
  <2> QED
    BY <2>2, <2>3
<1> QED
  BY <1>2, <1>3, <1>4, <1>5, <1>6, <1>7, <1>8, <1>9, <1>10 DEF User

\* The composers that are not open any more.
LEMMA ClosedFits ==
    ASSUME PatientInv, NEW c \in Composers, ~Open(c),
           NEW s \in Slots, call[<<c, s>>] # NoCall,
           NEW f, ui'[c] = [ui[c] EXCEPT !.flow = f]
    PROVE  CanvasFits(c)'
<1>1. ui[c] \in Surfaces /\ CanvasFits(c)
  BY DEF PatientInv, ComposerInv
<1>2. /\ ui'[c].page = ui[c].page /\ ui'[c].ref = ui[c].ref
      /\ ui'[c].published = ui[c].published /\ ui'[c].listed = ui[c].listed
  BY <1>1 DEF Surfaces
<1> QED
  BY <1>1, <1>2 DEF CanvasFits, Open, Closed

\* A request of c has ended, and with it some of its flows; what is now
\* shown as saved or published is what a flow has found to be stored.
LEMMA EndFits ==
    ASSUME PatientInv, ComposerInv', NEW c \in Composers, NEW s \in Slots,
           call[<<c, s>>] # NoCall, NEW m, NEW f, NEW pub,
           ui' = Show(c, [ui[c] EXCEPT !.published = pub, !.save = m, !.flow = f]),
           call' = [call EXCEPT ![<<c, s>>] = NoCall], UNCHANGED <<draft, version>>,
           \A k \in Checks : f[k] \in {ui[c].flow[k], "idle"},
           Open(c) => \/ m = "error"
                      \/ m = "saved" /\ \E k \in Checks : Past(c, k),
           Open(c) => \/ pub = ui[c].published
                      \/ pub = ui[c].canvas /\ version[ui[c].canvas.key] = ui[c].canvas
    PROVE  PatientInv'
<1> DEFINE u == ui[c]
           v == [u EXCEPT !.published = pub, !.save = m, !.flow = f]
<1>1. /\ u \in Surfaces /\ CanvasFits(c) /\ ComposerInv /\ Linked(c)'
      /\ call \in [Callers -> Calls \cup {NoCall}]
  BY DEF PatientInv, ComposerInv, DraftsTypeOK
<1>2. /\ v.page = u.page /\ v.ref = u.ref /\ v.canvas = u.canvas /\ v.save = m
      /\ v.listed = u.listed /\ v.touched = u.touched /\ v.flow = f
      /\ v.published = pub
  BY <1>1 DEF Surfaces
<1>3. ui' = Show(c, v)
  OBVIOUS
<1> HIDE DEF v
<1>4. /\ \A e \in Composers \ {c} : ui'[e] = ui[e]
      /\ Open(c) => ui'[c] = v
      /\ ~Open(c) => ui'[c] = [u EXCEPT !.flow = f]
  BY <1>1, <1>2, <1>3, OpenKept
<1>5. /\ call'[<<c, s>>] = NoCall
      /\ \A j \in Slots \ {s} : call'[<<c, j>>] = call[<<c, j>>]
      /\ \A e \in Composers \ {c}, j \in Slots : call'[<<e, j>>] = call[<<e, j>>]
  BY <1>1, SlotsAreCallers
<1>6. CASE ~Open(c)
  <2>1. CanvasFits(c)'
    BY <1>4, <1>6, ClosedFits
  <2> QED
    BY <1>4, <1>5, <2>1, StepFits
<1>7. CASE Open(c)
  <2>1. /\ ScreenFits(c) /\ SaveOfCanvas(c) /\ DeleteOfOpened(c) /\ ui'[c] = v
        /\ \A k \in Checks : FlowOfCanvas(c, k)
    BY <1>1, <1>4, <1>7 DEF CanvasFits
  <2>2. \A k \in Checks : Past(c, k)' => /\ Past(c, k) /\ k \in Slots /\ k # s
                                         /\ call'[<<c, k>>] = call[<<c, k>>]
    <3>1. ASSUME NEW k \in Checks, Past(c, k)' PROVE Past(c, k) /\ k # s /\ k \in Slots
      <4>1. f[k] \in {"asking", "publishing"}
        BY <1>2, <2>1, <3>1 DEF Past
      <4>2. call'[<<c, k>>] # NoCall
        BY <1>1, <3>1 DEF Linked, Past
      <4> QED
        BY <1>5, <4>1, <4>2, SlotsAreCallers DEF Past
    <3> QED
      BY <1>5, <3>1
  <2>3. u.touched /\ ~Checking(c) => ~Checking(c)'
    BY <1>2, <2>1 DEF Checking
  <2>4. m = "error" \/ (m = "saved" /\ Checking(c))
    BY <1>7 DEF Checking, Past
  <2>5. ScreenFits(c)'
    <3>1. u.ref # NoRef /\ m = "saved" => Matches(draft, u.ref.id, u.ref.rev, u.canvas)
      BY <1>7, <2>1 DEF FlowOfCanvas
    <3> QED
      BY <1>2, <1>7, <2>1, <3>1 DEF ScreenFits
  <2>6. SaveOfCanvas(c)'
    BY <1>2, <1>5, <2>1, <2>3, <2>4, SlotsAreCallers DEF SaveOfCanvas
  <2>7. DeleteOfOpened(c)'
    <3>1. /\ call'[<<c, "save">>] \in {call[<<c, "save">>], NoCall}
          /\ call'[<<c, "delete">>] \in {call[<<c, "delete">>], NoCall}
      BY <1>5, SlotsAreCallers
    <3> QED
      BY <1>2, <2>1, <2>2, <3>1 DEF DeleteOfOpened
  <2>8. \A k \in Checks : FlowOfCanvas(c, k)'
    BY <1>2, <2>1, <2>2 DEF FlowOfCanvas
  <2>9. CanvasFits(c)'
    BY <1>2, <1>7, <2>1, <2>5, <2>6, <2>7, <2>8 DEF CanvasFits, Open
  <2> QED
    BY <1>4, <1>5, <2>9, StepFits
<1> QED
  BY <1>6, <1>7

\* The draft that is answered to a save becomes the current one.
LEMMA SaveDoneFits ==
    ASSUME PatientInv, ComposerInv', NEW c \in Composers, SaveDone(c)
    PROVE  PatientInv'
<1> DEFINE y == <<c, "save">>
           z == <<c, "delete">>
           u == ui[c]
           o == call[y]
           m == IF u.touched THEN u.save ELSE "saved"
           ref == [id |-> o.id, rev |-> o.rev]
           r == Request("validate", o.id, o.rev, NoContent)
           v == [u EXCEPT !.ref = ref, !.listed[o.id] = Row(o),
                          !.save = m, !.flow = Flows(c, "asking")]
<1>1. /\ ComposerInv /\ u \in Surfaces /\ Linked(c) /\ CanvasFits(c)
      /\ \A x \in Callers : Fits(x)
  BY DEF PatientInv, ComposerInv
<1>2. /\ Answered(y, "answered") /\ ui' = Show(c, v) /\ UNCHANGED <<draft, version>>
      /\ call' = [x \in Callers |->
                   IF x = y THEN NoCall
                   ELSE IF x[1] = c /\ x[2] \in Awaiting(c) THEN r ELSE call[x]]
  BY DEF SaveDone
<1>3. /\ y \in Callers /\ o \in Calls /\ Carries(o) /\ o # NoCall
      /\ o.at = "answered" /\ o.op \in {"create", "update"}
  BY <1>1, <1>2, AnsweredCall, SlotsAreCallers DEF Linked, Saving
<1>4. /\ o.id \in Drafts /\ o.rev \in Nat
      /\ Matches(draft, o.id, o.rev, o.content)
  BY <1>1, <1>3 DEF Carries, Calls, Fits, SaveFits
<1>5. /\ r.at = "sent" /\ r.op = "validate" /\ r.id = o.id /\ r.rev = o.rev
      /\ SaveFits(draft, r)
  BY DEF Request, SaveFits
<1>6. /\ call'[y] = NoCall
      /\ \A k \in Checks : call'[<<c, k>>] = IF k \in Awaiting(c) THEN r
                                             ELSE call[<<c, k>>]
      /\ call'[z] = call[z]
      /\ \A e \in Composers \ {c}, s \in Slots : call'[<<e, s>>] = call[<<e, s>>]
  BY <1>2, SlotsAreCallers DEF Awaiting
<1> HIDE DEF r
<1>7. \A s \in Slots : \/ call'[<<c, s>>] \in {call[<<c, s>>], NoCall}
                       \/ call'[<<c, s>>].at = "sent" /\ SaveFits(draft, call'[<<c, s>>])
  BY <1>5, <1>6, SlotsAreCallers DEF Slots
<1>8. /\ v.page = u.page /\ v.ref = ref /\ v.canvas = u.canvas /\ v.save = m
      /\ v.listed = [u.listed EXCEPT ![o.id] = Row(o)] /\ v.touched = u.touched
      /\ v.flow = Flows(c, "asking") /\ v.published = u.published
  BY <1>1 DEF Surfaces
<1> HIDE DEF v
<1>9. /\ \A e \in Composers \ {c} : ui'[e] = ui[e]
      /\ Open(c) => ui'[c] = v
      /\ ~Open(c) => ui'[c] = [u EXCEPT !.flow = Flows(c, "asking")]
  BY <1>1, <1>2, <1>8, OpenKept
<1>10. CASE ~Open(c)
  <2>1. CanvasFits(c)'
    BY <1>3, <1>9, <1>10, ClosedFits, SlotsAreCallers
  <2> QED
    BY <1>2, <1>6, <1>7, <1>9, <2>1, StepFits
<1>11. CASE Open(c)
  <2>1. /\ ScreenFits(c) /\ SaveOfCanvas(c) /\ DeleteOfOpened(c) /\ ui'[c] = v
        /\ \A k \in Checks : FlowOfCanvas(c, k)
    BY <1>1, <1>9, <1>11 DEF CanvasFits
  <2>2. ref.id = o.id /\ ref.rev = o.rev /\ ref # NoRef
    BY <1>4, NoRefAssumption DEF NoRefAssumption, References
  <2> HIDE DEF ref, m
  <2>3. \/ Gone(draft, o.id)
        \/ /\ o.content.edits \subseteq u.canvas.edits
           /\ ~u.touched => o.content = u.canvas
           /\ u.touched => u.save # "saved" /\ ~Checking(c)
    BY <1>3, <2>1 DEF SaveOfCanvas
  <2>4. Covers(draft, o.id, o.rev, u.canvas)
    BY <1>4, <2>3 DEF Covers, Matches, Gone, HeldAt, Held
  <2>5. m = "saved" \/ Checking(c) => Matches(draft, o.id, o.rev, u.canvas)
    BY <1>4, <2>3 DEF Matches, Gone, HeldAt, Held, m
  <2>6. \A k \in Checks : Past(c, k)' <=> k \in Awaiting(c) \/ Past(c, k)
    BY <1>8, <2>1 DEF Past, Flows, Awaiting
  <2>7. \A k \in Checks : Past(c, k)' => Checking(c)
    BY <2>6 DEF Checking, Past, Awaiting
  <2>8. ScreenFits(c)'
    <3>1. \A d \in Drafts : ui'[c].listed[d] # NoDraft
            => Matches(draft, d, ui'[c].listed[d].rev, ui'[c].listed[d].content)
      <4>1. \A d \in Drafts : ui'[c].listed[d] = IF d = o.id THEN Row(o) ELSE u.listed[d]
        BY <1>1, <1>8, <2>1 DEF Surfaces
      <4>2. Row(o).rev = o.rev /\ Row(o).content = o.content
        BY DEF Row
      <4> QED
        BY <1>4, <2>1, <4>1, <4>2 DEF ScreenFits
    <3> QED
      BY <1>2, <1>8, <2>1, <2>2, <2>4, <2>5, <3>1 DEF ScreenFits
  <2>9. SaveOfCanvas(c)'
    BY <1>6 DEF SaveOfCanvas
  <2>10. DeleteOfOpened(c)'
    <3> SUFFICES ASSUME call[z] # NoCall, call[z].at # "refused"
                 PROVE  /\ o.id = call[z].id /\ call[z].rev <= o.rev
                        /\ \A k \in Checks : Past(c, k)' =>
                             /\ call'[<<c, k>>].id = call[z].id
                             /\ call[z].rev < call'[<<c, k>>].rev
                             /\ call[z].at # "answered"
      BY <1>6, <1>8, <2>1, <2>2 DEF DeleteOfOpened
    <3>1. /\ o.id = call[z].id /\ call[z].rev < o.rev /\ call[z].at # "answered"
          /\ \A k \in Checks : Past(c, k) =>
               /\ call[<<c, k>>].id = call[z].id
               /\ call[z].rev < call[<<c, k>>].rev
      BY <1>3, <2>1 DEF DeleteOfOpened
    <3>2. call[z].rev \in Nat
      BY <1>1, SlotCall, SlotsAreCallers
    <3> QED
      BY <1>4, <1>5, <1>6, <2>6, <3>1, <3>2
  <2>11. ASSUME NEW k \in Checks PROVE FlowOfCanvas(c, k)'
    <3> SUFFICES ASSUME Past(c, k)' PROVE FlowOfCanvas(c, k)'
      BY DEF FlowOfCanvas
    <3>1. Matches(draft, o.id, o.rev, u.canvas)
      BY <2>5, <2>7
    <3>2. CASE k \in Awaiting(c)
      BY <1>2, <1>5, <1>6, <1>8, <2>1, <2>2, <3>1, <3>2 DEF FlowOfCanvas
    <3>3. CASE k \notin Awaiting(c)
      <4>1. Past(c, k)
        BY <2>6, <3>3
      <4> QED
        BY <1>2, <1>6, <1>8, <2>1, <2>2, <3>1, <3>3, <4>1 DEF FlowOfCanvas
    <3> QED
      BY <3>2, <3>3
  <2>12. CanvasFits(c)'
    BY <1>8, <1>11, <2>1, <2>8, <2>9, <2>10, <2>11 DEF CanvasFits, Open
  <2> QED
    BY <1>2, <1>6, <1>7, <1>9, <2>12, StepFits
<1> QED
  BY <1>10, <1>11

\* The draft that was deleted is not open any more, and no save of it will
\* be answered.
LEMMA DeleteDoneFits ==
    ASSUME PatientInv, ComposerInv', NEW c \in Composers, DeleteDone(c)
    PROVE  PatientInv'
<1> DEFINE y == <<c, "save">>
           z == <<c, "delete">>
           u == ui[c]
           old == [u EXCEPT !.listed[call[z].id] = NoDraft]
           v == Reset(old, Blank, NoRef)
<1>1. /\ ComposerInv /\ u \in Surfaces /\ Linked(c) /\ CanvasFits(c)
      /\ call \in [Callers -> Calls \cup {NoCall}]
      /\ \A x \in Callers : Fits(x)
  BY DEF PatientInv, ComposerInv, DraftsTypeOK
<1>2. /\ Answered(z, "answered") /\ ui' = Show(c, v) /\ UNCHANGED <<draft, version>>
      /\ call' = [call EXCEPT ![z] = NoCall]
  BY DEF DeleteDone
<1>3. /\ z \in Callers /\ call[z] # NoCall /\ call[z].at = "answered"
      /\ Gone(draft, call[z].id)
  BY <1>1, <1>2, AnsweredCall, SlotsAreCallers DEF Linked, Fits, CheckFits
<1>4. /\ call'[z] = NoCall /\ call'[y] = call[y]
      /\ \A k \in Checks : call'[<<c, k>>] = call[<<c, k>>]
      /\ \A s \in Slots : call'[<<c, s>>] \in {call[<<c, s>>], NoCall}
      /\ \A e \in Composers \ {c}, s \in Slots : call'[<<e, s>>] = call[<<e, s>>]
  BY <1>1, <1>2, <1>3, SlotsAreCallers
<1>5. /\ old \in Surfaces /\ old.flow = u.flow /\ old.page = u.page
      /\ old.listed = [u.listed EXCEPT ![call[z].id] = NoDraft]
  BY <1>1 DEF Surfaces
<1> HIDE DEF old
<1>6. /\ v.page = u.page /\ v.ref = NoRef /\ v.listed = old.listed
      /\ v.flow = u.flow /\ v.published = NoVersion
  BY <1>5 DEF Reset, Surfaces
<1> HIDE DEF v
<1>7. /\ \A e \in Composers \ {c} : ui'[e] = ui[e]
      /\ Open(c) => ui'[c] = v
      /\ ~Open(c) => ui'[c] = [u EXCEPT !.flow = u.flow]
  BY <1>1, <1>2, <1>6, OpenKept
<1>8. CASE ~Open(c)
  <2>1. CanvasFits(c)'
    BY <1>3, <1>7, <1>8, ClosedFits, SlotsAreCallers
  <2> QED
    BY <1>2, <1>4, <1>7, <2>1, StepFits
<1>9. CASE Open(c)
  <2>1. ScreenFits(c) /\ DeleteOfOpened(c) /\ ui'[c] = v
    BY <1>1, <1>7, <1>9 DEF CanvasFits
  <2>2. /\ call[y] # NoCall => call[y].id = call[z].id
        /\ \A k \in Checks : ~Past(c, k)
    BY <1>3, <2>1 DEF DeleteOfOpened
  <2>3. ScreenFits(c)'
    <3>1. \A d \in Drafts : ui'[c].listed[d] \in {u.listed[d], NoDraft}
      BY <1>1, <1>5, <1>6, <2>1 DEF Surfaces
    <3> QED
      BY <1>2, <1>6, <2>1, <3>1 DEF ScreenFits
  <2>4. SaveOfCanvas(c)'
    BY <1>2, <1>3, <1>4, <2>2 DEF SaveOfCanvas
  <2>5. DeleteOfOpened(c)'
    BY <1>4 DEF DeleteOfOpened
  <2>6. \A k \in Checks : FlowOfCanvas(c, k)'
    BY <1>6, <2>1, <2>2 DEF FlowOfCanvas, Past
  <2>7. CanvasFits(c)'
    BY <1>6, <1>9, <2>1, <2>3, <2>4, <2>5, <2>6 DEF CanvasFits, Open
  <2> QED
    BY <1>2, <1>4, <1>7, <2>7, StepFits
<1> QED
  BY <1>8, <1>9

\* The draft that was found valid is asked to be published.
LEMMA AsksToPublishFits ==
    ASSUME PatientInv, ComposerInv', NEW c \in Composers,
           "publish" \in Checks, ui[c].flow["publish"] = "asking",
           Answered(<<c, "publish">>, "answered"),
           call' = [call EXCEPT ![<<c, "publish">>] =
                      Request("publish", @.id, @.rev, NoContent)],
           ui' = [ui EXCEPT ![c].flow["publish"] = "publishing"],
           UNCHANGED <<draft, version>>
    PROVE  PatientInv'
<1> DEFINE x == <<c, "publish">>
           u == ui[c]
           r == Request("publish", call[x].id, call[x].rev, NoContent)
           f == [u.flow EXCEPT !["publish"] = "publishing"]
<1>1. /\ ComposerInv /\ u \in Surfaces /\ CanvasFits(c) /\ x \in Callers
      /\ call \in [Callers -> Calls \cup {NoCall}] /\ call[x] # NoCall
      /\ ui \in [Composers -> Surfaces]
  BY SlotsAreCallers DEF PatientInv, ComposerInv, DraftsTypeOK, Answered
<1>2. /\ r.at = "sent" /\ r.id = call[x].id /\ r.rev = call[x].rev
      /\ SaveFits(draft, r)
  BY DEF Request, SaveFits
<1>3. call' = [call EXCEPT ![x] = r]
  OBVIOUS
<1> HIDE DEF r
<1>4. call'[x] = r /\ \A w \in Callers \ {x} : call'[w] = call[w]
  BY <1>1, <1>3
<1>5. /\ \A s \in Slots \ {"publish"} : call'[<<c, s>>] = call[<<c, s>>]
      /\ \A e \in Composers \ {c}, s \in Slots : call'[<<e, s>>] = call[<<e, s>>]
  BY <1>4, SlotsAreCallers
<1>6. ui'[c] = [u EXCEPT !.flow = f] /\ \A e \in Composers \ {c} : ui'[e] = ui[e]
  BY <1>1
<1>7. \A k \in Checks : f[k] = IF k = "publish" THEN "publishing" ELSE u.flow[k]
  BY <1>1 DEF Surfaces
<1> HIDE DEF f
<1>8. /\ ui'[c].page = u.page /\ ui'[c].ref = u.ref /\ ui'[c].canvas = u.canvas
      /\ ui'[c].save = u.save /\ ui'[c].listed = u.listed
      /\ ui'[c].touched = u.touched /\ ui'[c].published = u.published
      /\ ui'[c].flow = f
  BY <1>1, <1>6 DEF Surfaces
<1>9. \A k \in Checks : Past(c, k)' = Past(c, k)
  BY <1>7, <1>8 DEF Past
<1>10. Checking(c)' /\ Checking(c)
  BY <1>7, <1>8 DEF Checking
<1>11. CASE ~Open(c)
  BY <1>1, <1>2, <1>4, <1>5, <1>6, <1>11, ClosedFits, StepFits, SlotsAreCallers,
     SMTT(30)
<1>12. CASE Open(c)
  <2>1. /\ ScreenFits(c) /\ SaveOfCanvas(c) /\ DeleteOfOpened(c)
        /\ \A k \in Checks : FlowOfCanvas(c, k)
    BY <1>1, <1>12 DEF CanvasFits
  <2>2. /\ call'[<<c, "save">>] = call[<<c, "save">>]
        /\ call'[<<c, "delete">>] = call[<<c, "delete">>]
        /\ \A k \in Checks : /\ call'[<<c, k>>].id = call[<<c, k>>].id
                             /\ call'[<<c, k>>].rev = call[<<c, k>>].rev
                             /\ k # "publish" => call'[<<c, k>>] = call[<<c, k>>]
    BY <1>2, <1>4, <1>5, SlotsAreCallers, ComposerAssumption DEF ComposerAssumption
  <2>3. ScreenFits(c)'
    BY <1>8, <2>1 DEF ScreenFits
  <2>4. SaveOfCanvas(c)'
    BY <1>8, <1>10, <2>1, <2>2 DEF SaveOfCanvas
  <2>5. DeleteOfOpened(c)'
    BY <1>8, <1>9, <2>1, <2>2 DEF DeleteOfOpened
  <2>6. \A k \in Checks : FlowOfCanvas(c, k)'
    BY <1>2, <1>4, <1>8, <1>9, <2>1, <2>2 DEF FlowOfCanvas
  <2>7. CanvasFits(c)'
    BY <1>8, <1>12, <2>3, <2>4, <2>5, <2>6 DEF CanvasFits, Open
  <2> QED
    BY <1>1, <1>2, <1>4, <1>5, <1>6, <2>7, StepFits, SlotsAreCallers
<1> QED
  BY <1>11, <1>12

\* The continuations keep the invariant.
LEMMA BrowserFits ==
    ASSUME PatientInv, NEW c \in Composers, Browser(c)
    PROVE  PatientInv'
<1> DEFINE u == ui[c]
<1>1. /\ ComposerInv /\ ComposerInv' /\ u \in Surfaces /\ CanvasFits(c) /\ Linked(c)
      /\ \A x \in Callers : Fits(x)
      /\ u.flow \in [Checks -> {"idle", "saving", "asking", "publishing"}]
  BY BrowserStep DEF PatientInv, ComposerInv, Surfaces
<1>2. u = [u EXCEPT !.published = u.published]
  BY <1>1 DEF Surfaces
<1>3. ASSUME NEW k \in Checks, NEW m, Ends(c, k, m), call[<<c, k>>] # NoCall,
             m \in {"saved", "error"}
      PROVE  PatientInv'
  <2> DEFINE f == [u.flow EXCEPT ![k] = "idle"]
  <2>1. [u EXCEPT !.flow[k] = "idle", !.save = m]
          = [u EXCEPT !.published = u.published, !.save = m, !.flow = f]
    BY <1>1 DEF Surfaces
  <2>2. \A j \in Checks : f[j] \in {u.flow[j], "idle"}
    BY <1>1
  <2>3. Past(c, k)
    BY <1>1, <1>3 DEF Linked, Past
  <2>4. /\ ui' = Show(c, [u EXCEPT !.flow[k] = "idle", !.save = m])
        /\ call' = [call EXCEPT ![<<c, k>>] = NoCall] /\ UNCHANGED <<draft, version>>
    BY <1>3 DEF Ends
  <2>5. ui' = Show(c, [u EXCEPT !.published = u.published, !.save = m, !.flow = f])
    BY <2>1, <2>4
  <2> HIDE DEF f
  <2> QED
    BY <1>1, <1>3, <2>2, <2>3, <2>4, <2>5, EndFits, SlotsAreCallers
<1>4. CASE Autosave(c)
  <2>1. SaveStarted(u) = [SaveStarted(u) EXCEPT !.flow = u.flow]
    BY <1>1 DEF SaveStarted, Surfaces
  <2>2. SaveBegins(c, u.flow)
    BY <1>1, <1>4, <2>1 DEF Autosave, SaveBegins
  <2> QED
    BY <1>1, <2>2, SaveBeginsFits
<1>5. CASE SaveDone(c)
  BY <1>1, <1>5, SaveDoneFits
<1>6. CASE SaveFailed(c)
  <2> DEFINE f == Flows(c, "idle")
  <2>1. [u EXCEPT !.save = "error", !.flow = f]
          = [u EXCEPT !.published = u.published, !.save = "error", !.flow = f]
    BY <1>1 DEF Surfaces
  <2>2. \A j \in Checks : f[j] \in {u.flow[j], "idle"}
    BY DEF Flows
  <2>3. /\ ui' = Show(c, [u EXCEPT !.save = "error", !.flow = f])
        /\ call' = [call EXCEPT ![<<c, "save">>] = NoCall]
        /\ UNCHANGED <<draft, version>> /\ call[<<c, "save">>] # NoCall
    BY <1>6 DEF SaveFailed, Answered
  <2>4. ui' = Show(c, [u EXCEPT !.published = u.published, !.save = "error", !.flow = f])
    BY <2>1, <2>3
  <2> HIDE DEF f
  <2> QED
    BY <1>1, <2>2, <2>3, <2>4, EndFits, SlotsAreCallers
<1>7. CASE Validated(c)
  <2>1. "validate" \in Checks
    BY <1>7, ComposerAssumption DEF Validated, Answered, ComposerAssumption, Slots
  <2> QED
    BY <1>3, <1>7, <2>1 DEF Validated, Answered
<1>8. CASE ValidatedToPublish(c)
  <2>1. /\ "publish" \in Checks /\ u.flow["publish"] = "asking"
        /\ call[<<c, "publish">>] # NoCall
    BY <1>8 DEF ValidatedToPublish, Answered
  <2>2. CASE Ends(c, "publish", "error")
    BY <1>3, <2>1, <2>2
  <2>3. CASE ~Ends(c, "publish", "error")
    BY <1>1, <1>8, <2>1, <2>3, AsksToPublishFits DEF ValidatedToPublish
  <2> QED
    BY <2>2, <2>3
<1>9. CASE Published(c)
  <2> DEFINE x == <<c, "publish">>
             f == [u.flow EXCEPT !["publish"] = "idle"]
  <2>1. /\ "publish" \in Checks /\ u.flow["publish"] = "publishing"
        /\ call[x] # NoCall
    BY <1>9 DEF Published, Answered
  <2>2. CASE Ends(c, "publish", "error")
    BY <1>3, <2>1, <2>2
  <2>3. CASE ~Ends(c, "publish", "error")
    <3>1. /\ Answered(x, "answered") /\ call' = [call EXCEPT ![x] = NoCall]
          /\ ui' = Show(c, [u EXCEPT !.published = call[x].content,
                                     !.save = "saved", !.flow["publish"] = "idle"])
          /\ UNCHANGED <<draft, version>>
      BY <1>9, <2>3 DEF Published
    <3>2. [u EXCEPT !.published = call[x].content, !.save = "saved",
                    !.flow["publish"] = "idle"]
            = [u EXCEPT !.published = call[x].content, !.save = "saved", !.flow = f]
      BY <1>1 DEF Surfaces
    <3>3. ui' = Show(c, [u EXCEPT !.published = call[x].content, !.save = "saved",
                                  !.flow = f])
      BY <3>1, <3>2
    <3>4. \A j \in Checks : f[j] \in {u.flow[j], "idle"}
      BY <1>1
    <3>5. /\ x \in Callers /\ call[x].op = "publish" /\ call[x].at = "answered"
          /\ Past(c, "publish")
      BY <1>1, <2>1, <3>1 DEF Answered, Linked, Past
    <3>6. version[call[x].content.key] = call[x].content
      BY <1>1, <2>1, <3>5 DEF Fits, CheckFits
    <3>7. Open(c) => call[x].content = u.canvas
      BY <1>1, <2>1, <3>5 DEF CanvasFits, FlowOfCanvas
    <3>8. Open(c) => /\ call[x].content = u.canvas
                     /\ version[u.canvas.key] = u.canvas
      BY <3>6, <3>7
    <3>9. (\E k \in Checks : Past(c, k)) /\ "publish" \in Slots
      BY <2>1, <3>5, SlotsAreCallers
    <3> DEFINE pub == call[x].content
    <3>11. Open(c) => pub = u.canvas /\ version[u.canvas.key] = u.canvas
      BY <3>8
    <3>10. ui' = Show(c, [u EXCEPT !.published = pub, !.save = "saved", !.flow = f])
      BY <3>3
    <3>12. /\ call' = [call EXCEPT ![<<c, "publish">>] = NoCall]
           /\ UNCHANGED <<draft, version>> /\ call[<<c, "publish">>] # NoCall
      BY <2>1, <3>1
    <3> HIDE DEF f, pub
    <3>13. ASSUME NEW s \in Slots, s = "publish" PROVE PatientInv'
      <4>1. call' = [call EXCEPT ![<<c, s>>] = NoCall] /\ call[<<c, s>>] # NoCall
        BY <3>12, <3>13
      <4>2. Open(c) => \/ "saved" = "error"
                       \/ "saved" = "saved" /\ \E k \in Checks : Past(c, k)
        BY <3>9
      <4>3. Open(c) => \/ pub = ui[c].published
                       \/ pub = ui[c].canvas /\ version[ui[c].canvas.key] = ui[c].canvas
        BY <3>11
      <4>4. ComposerInv'
        BY <1>1
      <4> QED
        BY <3>4, <3>10, <3>12, <4>1, <4>2, <4>3, <4>4, EndFits
    <3> QED
      BY <3>9, <3>13
  <2> QED
    BY <2>2, <2>3
<1>10. CASE DeleteDone(c)
  BY <1>1, <1>10, DeleteDoneFits
<1>11. CASE DeleteFailed(c)
  <2>1. [u EXCEPT !.save = "error"]
          = [u EXCEPT !.published = u.published, !.save = "error", !.flow = u.flow]
    BY <1>1 DEF Surfaces
  <2>2. /\ ui' = Show(c, [u EXCEPT !.save = "error"])
        /\ call' = [call EXCEPT ![<<c, "delete">>] = NoCall]
        /\ UNCHANGED <<draft, version>> /\ call[<<c, "delete">>] # NoCall
    BY <1>11 DEF DeleteFailed, Answered
  <2>3. ui' = Show(c, [u EXCEPT !.published = u.published, !.save = "error",
                                !.flow = u.flow])
    BY <2>1, <2>2
  <2> QED
    BY <1>1, <2>2, <2>3, EndFits, SlotsAreCallers
<1> QED
  BY <1>4, <1>5, <1>6, <1>7, <1>8, <1>9, <1>10, <1>11 DEF Browser

\* From Init, where no composer is open and nothing was sent, every step of
\* a user, of a browser and of the service keeps PatientInv: saveNow,
\* resetDocument, validateDraft, publishDraft and deleteDraft
\* (ComposerApp.tsx) never put a canvas beside a revision that it was not
\* made from.
THEOREM PatientInvariance ==
    ASSUME PatientUser, OneCallAtATime
    PROVE  Spec => []PatientInv
<1>1. Init /\ ComposerInv => PatientInv
  <2> SUFFICES ASSUME Init, ComposerInv PROVE PatientInv
    OBVIOUS
  <2>1. \A x \in Callers : call[x] = NoCall
    BY DEF Init, DInit
  <2>2. ASSUME NEW c \in Composers PROVE CanvasFits(c)
    <3>1. ui[c] = Unmounted("away", [k \in Checks |-> "idle"])
      BY DEF Init
    <3>2. /\ ui[c].page = "away" /\ ui[c].ref = NoRef /\ ui[c].published = NoVersion
          /\ ui[c].listed = [d \in Drafts |-> NoDraft]
      BY <3>1 DEF Unmounted
    <3>3. \A s \in Slots : call[<<c, s>>] = NoCall
      BY <2>1, SlotsAreCallers
    <3> QED
      BY <3>2, <3>3 DEF CanvasFits, Open, Closed
  <2> QED
    BY <2>1, <2>2 DEF PatientInv, Alone, Between, Fits
<1>2. PatientInv /\ [Next]_vars => PatientInv'
  <2> SUFFICES ASSUME PatientInv, [Next]_vars PROVE PatientInv'
    OBVIOUS
  <2>1. CASE UNCHANGED vars
    <3>1. /\ draft' = draft /\ version' = version /\ call' = call
          /\ losses' = losses /\ ui' = ui
      BY <2>1 DEF vars
    <3>2. ComposerInv'
      BY <3>1 DEF PatientInv, ComposerInv, DraftsTypeOK, Linked, Awaiting, Saving
    <3>3. Alone' /\ \A x \in Callers : Fits(x)'
      BY <3>1 DEF PatientInv, Alone, Between, Fits
    <3>4. ASSUME NEW c \in Composers PROVE CanvasFits(c)'
      <4>1. (Open(c)' <=> Open(c)) /\ (Closed(c)' <=> Closed(c))
        BY <3>1 DEF Open, Closed
      <4>2. ScreenFits(c)' <=> ScreenFits(c)
        BY <3>1 DEF ScreenFits
      <4>3. SaveOfCanvas(c)' <=> SaveOfCanvas(c)
        BY <3>1 DEF SaveOfCanvas, Checking
      <4>4. DeleteOfOpened(c)' <=> DeleteOfOpened(c)
        BY <3>1 DEF DeleteOfOpened, Past
      <4>5. \A k \in Checks : FlowOfCanvas(c, k)' <=> FlowOfCanvas(c, k)
        BY <3>1 DEF FlowOfCanvas, Past
      <4> QED
        BY <4>1, <4>2, <4>3, <4>4, <4>5 DEF PatientInv, CanvasFits
    <3> QED
      BY <3>2, <3>3, <3>4 DEF PatientInv
  <2> QED
    BY <2>1, UserFits, BrowserFits, ServerFits DEF Next
<1> QED
  BY <1>1, <1>2, ComposerInduction, PTL DEF Spec

\* What a composer shows as saved, at the revision that the service has, is
\* what the service has, and what it shows as published is registered: the
\* awaits of saveNow, validateDraft and publishDraft (ComposerApp.tsx) end
\* with the truth when users wait for them and the service runs one call at
\* a time.
THEOREM ShownStaysStored ==
    ASSUME PatientUser, OneCallAtATime
    PROVE  Spec => []ShownIsStored
<1>1. PatientInv => ShownIsStored
  <2> SUFFICES ASSUME PatientInv, NEW c \in Composers, Open(c)
               PROVE  /\ (/\ ui[c].save = "saved" /\ ui[c].ref # NoRef
                          /\ IsCurrent(ui[c].ref.id, ui[c].ref.rev))
                           => draft[ui[c].ref.id].content = ui[c].canvas
                      /\ ui[c].published # NoVersion
                           => /\ ui[c].published = ui[c].canvas
                              /\ version[ui[c].canvas.key] = ui[c].canvas
    BY DEF ShownIsStored
  <2>1. ScreenFits(c)
    BY DEF PatientInv, CanvasFits
  <2>2. \A d, rev : IsCurrent(d, rev) => HeldAt(draft, d, rev)
    BY DEF IsCurrent, Stored, HeldAt, Held
  <2>3. ASSUME ui[c].save = "saved", ui[c].ref # NoRef,
               IsCurrent(ui[c].ref.id, ui[c].ref.rev)
        PROVE  draft[ui[c].ref.id].content = ui[c].canvas
    <3>1. Matches(draft, ui[c].ref.id, ui[c].ref.rev, ui[c].canvas)
      BY <2>1, <2>3 DEF ScreenFits
    <3> QED
      BY <2>2, <2>3, <3>1 DEF Matches
  <2>4. ui[c].published # NoVersion
          => ui[c].published = ui[c].canvas /\ version[ui[c].canvas.key] = ui[c].canvas
    BY <2>1 DEF ScreenFits
  <2> QED
    BY <2>3, <2>4
<1> QED
  BY <1>1, PatientInvariance, PTL

\* No save removes an edit that was saved before (docs/contracts.md:37):
\* update_workflow_draft refuses a revision that is stale, and no composer
\* holds the revision of a content that its own canvas was not made from.
THEOREM NoUpdateIsLost ==
    ASSUME PatientUser, OneCallAtATime
    PROVE  Spec => NoLostUpdate
<1>1. ASSUME PatientInv, [Next]_vars
      PROVE  [\A d \in Drafts : Stored(d) /\ Stored(d)'
                => draft[d].content.edits \subseteq draft'[d].content.edits]_draft
  <2>1. CASE UNCHANGED vars
    BY <2>1, SMTT(30) DEF vars
  <2>2. ASSUME NEW c \in Composers, User(c) PROVE UNCHANGED draft
    BY <2>2 DEF User, Mount, MountFailed, Unmount, Edit, NewWorkflow, OpenTemplate,
                OpenDraft, Save, Delete, Check, dvars
  <2>3. ASSUME NEW c \in Composers, Browser(c) PROVE UNCHANGED draft
    BY <2>3 DEF Browser, Autosave, SaveDone, SaveFailed, Validated,
                ValidatedToPublish, Published, DeleteDone, DeleteFailed, Ends
  <2>4. ASSUME NEW x \in Callers, Network(x) PROVE UNCHANGED draft
    BY <2>4 DEF Network, Lose
  <2>5. ASSUME NEW x \in Callers, Server(x), NEW d \in Drafts, Stored(d), Stored(d)'
        PROVE  draft[d].content.edits \subseteq draft'[d].content.edits
    <3>1. RowSteps(x, d)
      BY <2>5, <1>1, RowsStep DEF Server, PatientInv, ComposerInv
    <3>2. CASE draft'[d] = draft[d]
      BY <3>2
    <3>3. CASE /\ At(x, "update", "current") /\ call[x].id = d
               /\ IsCurrent(d, call[x].rev)
               /\ draft'[d] = [rev |-> draft[d].rev + 1, content |-> call[x].content]
      <4>1. Covers(draft, d, call[x].rev, call[x].content)
        BY <1>1, <3>3 DEF PatientInv, Fits, SaveFits, At
      <4>2. HeldAt(draft, d, call[x].rev)
        BY <3>3 DEF IsCurrent, Stored, HeldAt, Held
      <4> QED
        BY <3>3, <4>1, <4>2 DEF Covers
    <3> QED
      BY <2>5, <3>1, <3>2, <3>3 DEF RowSteps, Stored
  <2> QED
    BY <1>1, <2>1, <2>2, <2>3, <2>4, <2>5 DEF Next
<1>2. PatientInv /\ [Next]_vars
        => [\A d \in Drafts : Stored(d) /\ Stored(d)'
              => draft[d].content.edits \subseteq draft'[d].content.edits]_draft
  BY <1>1
<1> QED
  BY <1>2, PatientInvariance, PTL DEF Spec, NoLostUpdate
=============================================================================
