------------------------------ MODULE Composer ------------------------------
(***************************************************************************)
(* The workflow composer of the workbench                                  *)
(* (workbench/frontend/src/ComposerApp.tsx) on top of the draft service:   *)
(* how it saves, autosaves, validates, publishes, deletes and switches     *)
(* documents while requests are in flight.  An action is one callback of   *)
(* the browser: a click, a timer, or the continuation of an await.         *)
(*                                                                         *)
(* A composer is one mount of the component.  Unmounting it drops its      *)
(* state from the screen and nothing else: its promises go on, and so do   *)
(* the requests that follow them.                                          *)
(*                                                                         *)
(* Abstractions.                                                           *)
(*  - An edit, of the graph, the metadata or the layout, adds a mark of    *)
(*    its own, so that a content tells which edits it was made with; undo  *)
(*    is an edit (ComposerGraph has the graph and its history).            *)
(*  - The edits of Flawed leave an issue that validateCanvas reports.      *)
(*  - The 1400 ms of the autosave timer are any delay.                     *)
(*  - One validation and one publication at a time for each composer: the  *)
(*    button of the second one is not disabled, and a second click on it   *)
(*    while the first one waits is left out.                               *)
(*                                                                         *)
(* An operator whose comment starts with "Variant" is a version of the one *)
(* after it with a bug that its properties must notice; Next uses none.    *)
(***************************************************************************)
EXTENDS WorkflowDrafts

CONSTANTS
    Composers,      \* mounts of the composer, in any number of browsers
    BlankKey,       \* the id and version of createEmptyWorkflow
    Flawed,         \* the edits that leave an issue on the canvas
    NoRef,          \* the null of ref
    Checks,         \* the flows that users start, of "validate" and "publish"
    PatientUser,    \* does the user wait for answers (see Switches, Edits)?
    MaxSaves        \* bound: users ask for saves below this revision

Slots == {"save", "delete"} \cup Checks

ASSUME ComposerAssumption ==
    /\ Checks \subseteq {"validate", "publish"}
    /\ Callers = Composers \X Slots
    /\ BlankKey \in Keys /\ Flawed \subseteq Edits
    /\ PatientUser \in BOOLEAN
    /\ MaxSaves \in Nat

VARIABLES
    ui              \* ui[c]: the React state and the refs of composer c

vars == <<draft, version, call, losses, ui>>

\* ref is draft and draftRef, save is saveState, listed is drafts, touched
\* tells that changeVersion has moved since the snapshot of the last save,
\* and flow[k] is how far validateDraft or publishDraft is.
References == [id : Drafts, rev : Nat]
Surfaces ==
    [page : {"away", "open", "left"}, canvas : Contents,
     ref : References \cup {NoRef},
     save : {"idle", "dirty", "saving", "saved", "error"},
     published : Contents \cup {NoVersion},
     listed : [Drafts -> Rows \cup {NoDraft}],
     touched : BOOLEAN,
     flow : [Checks -> {"idle", "saving", "asking", "publishing"}]]

ASSUME NoRefAssumption == NoRef \notin References

\* createEmptyWorkflow
Blank == [key |-> BlankKey, edits |-> {}]

Unmounted(page, flow) ==
    [page |-> page, canvas |-> Blank, ref |-> NoRef, save |-> "idle",
     published |-> NoVersion, listed |-> [d \in Drafts |-> NoDraft],
     touched |-> FALSE, flow |-> flow]

Init ==
    /\ DInit
    /\ ui = [c \in Composers |->
               Unmounted("away", [k \in Checks |-> "idle"])]

Open(c) == ui[c].page = "open"

\* The state of c becomes u; without a component only the flows are left.
Show(c, u) == [ui EXCEPT ![c] = IF Open(c) THEN u ELSE [@ EXCEPT !.flow = u.flow]]

Saving(c) == call[<<c, "save">>] # NoCall
Checking(c) == \E k \in Checks : ui[c].flow[k] # "idle"
Busy(c) == Checking(c) \/ \E s \in Slots : call[<<c, s>>] # NoCall
Answered(x, s) == x \in Callers /\ call[x] # NoCall /\ call[x].at = s

\* What a patient user waits with.
Switches(c) == Open(c) /\ (PatientUser => ~Busy(c))
MayEdit(c) == Open(c) /\ (PatientUser => ~Checking(c))
MayCheck(c) == Open(c) /\ (PatientUser => ~(Saving(c) /\ ui[c].touched))

-----------------------------------------------------------------------------
(* Mounting, editing and switching documents. *)

\* The first effect of ComposerSurface; drafts are listed once for a mount.
Mount(c) ==
    /\ ui[c].page = "away"
    /\ ui' = [ui EXCEPT ![c].page = "open",
                        ![c].listed = [d \in Drafts |->
                                         IF Stored(d) THEN draft[d] ELSE NoDraft]]
    /\ UNCHANGED dvars

\* One of the three requests of the effect fails.
MountFailed(c) ==
    /\ ui[c].page = "away"
    /\ losses < MaxLosses
    /\ losses' = losses + 1
    /\ ui' = [ui EXCEPT ![c].page = "open", ![c].save = "error"]
    /\ UNCHANGED <<draft, version, call>>

\* The workbench leaves the compose view; the flows go on.
Unmount(c) ==
    /\ Open(c)
    /\ ui' = [ui EXCEPT ![c] = Unmounted("left", @.flow)]
    /\ UNCHANGED dvars

\* The mark e is on nothing yet.
Fresh(e) ==
    /\ \A c \in Composers : e \notin ui[c].canvas.edits
    /\ \A d \in Drafts : Stored(d) => e \notin draft[d].content.edits
    /\ \A k \in Keys : version[k] # NoVersion => e \notin version[k].edits
    /\ \A x \in Callers : call[x] # NoCall /\ call[x].content # NoContent
                            => e \notin call[x].content.edits

\* markChanged, with an edit of the graph or of the metadata.
Edit(c) ==
    /\ MayEdit(c)
    /\ \E e \in Edits, k \in Keys :
         /\ Fresh(e)
         /\ ui' = [ui EXCEPT ![c].canvas = [key |-> k, edits |-> @.edits \cup {e}],
                             ![c].published = NoVersion, ![c].save = "dirty",
                             ![c].touched = TRUE]
    /\ UNCHANGED dvars

\* resetDocument, as it leaves the state of a composer.
Reset(u, w, r) ==
    [u EXCEPT !.canvas = w, !.ref = r, !.published = NoVersion,
              !.save = IF r = NoRef THEN "idle" ELSE "saved", !.touched = TRUE]

NewWorkflow(c) ==
    /\ Switches(c)
    /\ ui' = [ui EXCEPT ![c] = Reset(@, Blank, NoRef)]
    /\ UNCHANGED dvars

\* openTemplate: a copy of a registered version under an id of its own.
OpenTemplate(c) ==
    /\ Switches(c)
    /\ \E k \in Keys : \E copy \in Keys \ {k} :
         /\ version[k] # NoVersion
         /\ ui' = [ui EXCEPT ![c] =
                     Reset(@, [version[k] EXCEPT !.key = copy], NoRef)]
    /\ UNCHANGED dvars

\* openDraft: the row that was listed, whatever became of the draft since.
OpenDraft(c) ==
    /\ Switches(c)
    /\ \E d \in Drafts :
         LET row == ui[c].listed[d] IN
         /\ row # NoDraft
         /\ ui' = [ui EXCEPT ![c] =
                     Reset(@, row.content, [id |-> d, rev |-> row.rev])]
    /\ UNCHANGED dvars

-----------------------------------------------------------------------------
(* Saving. *)

\* saveNow from its first line to the await, in a composer of state u.
SaveStarted(u) == [u EXCEPT !.save = "saving", !.touched = FALSE]
SaveRequest(u) ==
    IF u.ref = NoRef THEN Request("create", NoId, 0, u.canvas)
    ELSE Request("update", u.ref.id, u.ref.rev, u.canvas)

\* The bounds: users ask for saves up to a revision, and for new drafts
\* while there are ids for them.
Unused == {d \in Drafts : draft[d] = NoDraft}
Creating == {x \in Callers : At(x, "create", "sent")}
MaySave(u) ==
    IF u.ref = NoRef THEN Cardinality(Creating) < Cardinality(Unused)
    ELSE u.ref.rev < MaxSaves

\* saveNow by its button; while a save is in flight it is only joined.
Save(c) ==
    /\ Open(c) /\ ui[c].save # "saving" /\ ~Saving(c)
    /\ MaySave(ui[c])
    /\ call' = [call EXCEPT ![<<c, "save">>] = SaveRequest(ui[c])]
    /\ ui' = [ui EXCEPT ![c] = SaveStarted(@)]
    /\ UNCHANGED <<draft, version, losses>>

\* The timer of a draft with unsaved changes.
Autosave(c) ==
    /\ Open(c) /\ ui[c].ref # NoRef /\ ui[c].save = "dirty" /\ ~Saving(c)
    /\ call' = [call EXCEPT ![<<c, "save">>] = SaveRequest(ui[c])]
    /\ ui' = [ui EXCEPT ![c] = SaveStarted(@)]
    /\ UNCHANGED <<draft, version, losses>>

\* The flows that await the save, and the answered row of a call.
Awaiting(c) == {k \in Checks : ui[c].flow[k] = "saving"}
Row(r) == [rev |-> r.rev, content |-> r.content]
Flows(c, s) == [k \in Checks |-> IF k \in Awaiting(c) THEN s ELSE ui[c].flow[k]]

\* Variant: the save state is "saved" whatever was edited since.
SaveDoneEagerly(c) ==
    LET x == <<c, "save">> IN
    /\ Answered(x, "answered")
    /\ ui' = Show(c, [ui[c] EXCEPT !.ref = [id |-> call[x].id, rev |-> call[x].rev],
                                   !.listed[call[x].id] = Row(call[x]),
                                   !.save = "saved",
                                   !.flow = Flows(c, "asking")])
    /\ call' = [y \in Callers |->
                  IF y = x THEN NoCall
                  ELSE IF y[1] = c /\ y[2] \in Awaiting(c)
                  THEN Request("validate", call[x].id, call[x].rev, NoContent)
                  ELSE call[y]]
    /\ UNCHANGED <<draft, version, losses>>

\* saveNow after its await: what it has saved is the current draft, and is
\* "saved" only if nothing changed since the snapshot.  The flows that
\* await it go on to their validation.
SaveDone(c) ==
    LET x == <<c, "save">> IN
    /\ Answered(x, "answered")
    /\ ui' = Show(c, [ui[c] EXCEPT !.ref = [id |-> call[x].id, rev |-> call[x].rev],
                                   !.listed[call[x].id] = Row(call[x]),
                                   !.save = IF ui[c].touched THEN @ ELSE "saved",
                                   !.flow = Flows(c, "asking")])
    /\ call' = [y \in Callers |->
                  IF y = x THEN NoCall
                  ELSE IF y[1] = c /\ y[2] \in Awaiting(c)
                  THEN Request("validate", call[x].id, call[x].rev, NoContent)
                  ELSE call[y]]
    /\ UNCHANGED <<draft, version, losses>>

\* Variant: the flows that await the save are not told.
SaveFailedSilently(c) ==
    /\ Answered(<<c, "save">>, "refused")
    /\ call' = [call EXCEPT ![<<c, "save">>] = NoCall]
    /\ ui' = Show(c, [ui[c] EXCEPT !.save = "error"])
    /\ UNCHANGED <<draft, version, losses>>

\* Variant: after a conflict the next save names the current revision.
SaveFailedRebased(c) ==
    /\ Answered(<<c, "save">>, "refused")
    /\ call' = [call EXCEPT ![<<c, "save">>] = NoCall]
    /\ LET d == call[<<c, "save">>].id IN
       ui' = Show(c, [ui[c] EXCEPT
                        !.save = "error", !.flow = Flows(c, "idle"),
                        !.ref = IF Stored(d) THEN [id |-> d, rev |-> draft[d].rev]
                                ELSE @])
    /\ UNCHANGED <<draft, version, losses>>

\* saveNow after an await that fails; the flows fail with it.
SaveFailed(c) ==
    /\ Answered(<<c, "save">>, "refused")
    /\ call' = [call EXCEPT ![<<c, "save">>] = NoCall]
    /\ ui' = Show(c, [ui[c] EXCEPT !.save = "error", !.flow = Flows(c, "idle")])
    /\ UNCHANGED <<draft, version, losses>>

-----------------------------------------------------------------------------
(* Validating and publishing: both save first. *)

\* validateDraft and publishDraft up to the first await.  "Validate" is
\* disabled while the state is "saving"; the inspector's "Publish" is not.
Check(c, k) ==
    /\ MayCheck(c)
    /\ ui[c].flow[k] = "idle"
    /\ k = "validate" => ui[c].save # "saving"
    /\ IF ui[c].canvas.edits \cap Flawed # {}
       THEN /\ ui' = [ui EXCEPT ![c].save = "error"]
            /\ UNCHANGED call
       ELSE IF Saving(c)
       THEN /\ ui' = [ui EXCEPT ![c].flow[k] = "saving"]
            /\ UNCHANGED call
       ELSE /\ MaySave(ui[c])
            /\ ui' = [ui EXCEPT ![c] = [SaveStarted(@) EXCEPT !.flow[k] = "saving"]]
            /\ call' = [call EXCEPT ![<<c, "save">>] = SaveRequest(ui[c])]
    /\ UNCHANGED <<draft, version, losses>>

\* The flow k of c ends; its composer shows s.
Ends(c, k, s) ==
    /\ call' = [call EXCEPT ![<<c, k>>] = NoCall]
    /\ ui' = Show(c, [ui[c] EXCEPT !.flow[k] = "idle", !.save = s])
    /\ UNCHANGED <<draft, version, losses>>

\* The validation that validateDraft awaits.
Validated(c) ==
    \/ /\ Answered(<<c, "validate">>, "answered")
       /\ Ends(c, "validate", "saved")
    \/ /\ \E s \in {"invalid", "refused"} : Answered(<<c, "validate">>, s)
       /\ Ends(c, "validate", "error")

\* The validation that publishDraft awaits; if valid, it asks to publish
\* the revision that was saved.
ValidatedToPublish(c) ==
    LET x == <<c, "publish">> IN
    /\ "publish" \in Checks /\ ui[c].flow["publish"] = "asking"
    /\ \/ /\ Answered(x, "answered")
          /\ call' = [call EXCEPT ![x] =
                        Request("publish", @.id, @.rev, NoContent)]
          /\ ui' = [ui EXCEPT ![c].flow["publish"] = "publishing"]
          /\ UNCHANGED <<draft, version, losses>>
       \/ /\ \E s \in {"invalid", "refused"} : Answered(x, s)
          /\ Ends(c, "publish", "error")

\* The publication that publishDraft awaits.
Published(c) ==
    LET x == <<c, "publish">> IN
    /\ "publish" \in Checks /\ ui[c].flow["publish"] = "publishing"
    /\ \/ /\ Answered(x, "answered")
          /\ call' = [call EXCEPT ![x] = NoCall]
          /\ ui' = Show(c, [ui[c] EXCEPT !.published = call[x].content,
                                         !.save = "saved", !.flow["publish"] = "idle"])
          /\ UNCHANGED <<draft, version, losses>>
       \/ /\ Answered(x, "refused")
          /\ Ends(c, "publish", "error")

-----------------------------------------------------------------------------
(* Deleting the draft that is open. *)

Delete(c) ==
    LET x == <<c, "delete">> IN
    /\ Switches(c) /\ ui[c].ref # NoRef /\ call[x] = NoCall
    /\ call' = [call EXCEPT ![x] =
                  Request("delete", ui[c].ref.id, ui[c].ref.rev, NoContent)]
    /\ UNCHANGED <<draft, version, losses, ui>>

\* The answer opens a new workflow, whatever is open by now.
DeleteDone(c) ==
    LET x == <<c, "delete">> IN
    /\ Answered(x, "answered")
    /\ call' = [call EXCEPT ![x] = NoCall]
    /\ ui' = Show(c, Reset([ui[c] EXCEPT !.listed[call[x].id] = NoDraft],
                           Blank, NoRef))
    /\ UNCHANGED <<draft, version, losses>>

DeleteFailed(c) ==
    /\ Answered(<<c, "delete">>, "refused")
    /\ call' = [call EXCEPT ![<<c, "delete">>] = NoCall]
    /\ ui' = Show(c, [ui[c] EXCEPT !.save = "error"])
    /\ UNCHANGED <<draft, version, losses>>

-----------------------------------------------------------------------------
(* The specification. *)

User(c) ==
    \/ Mount(c) \/ MountFailed(c) \/ Unmount(c)
    \/ Edit(c) \/ NewWorkflow(c) \/ OpenTemplate(c) \/ OpenDraft(c)
    \/ Save(c) \/ Delete(c) \/ \E k \in Checks : Check(c, k)

Browser(c) ==
    \/ Autosave(c) \/ SaveDone(c) \/ SaveFailed(c)
    \/ Validated(c) \/ ValidatedToPublish(c) \/ Published(c)
    \/ DeleteDone(c) \/ DeleteFailed(c)

Server(x) == Transaction(x) /\ UNCHANGED ui
Network(x) == Lose(x) /\ UNCHANGED ui

Next ==
    \/ \E c \in Composers : User(c) \/ Browser(c)
    \/ \E x \in Callers : Server(x) \/ Network(x)

Spec == Init /\ [][Next]_vars

\* A thread of the server runs its call to the end, and the event loop of a
\* browser gets to a timer that has expired and to an answer that is there.
Fairness ==
    /\ \A x \in Callers : WF_vars(Server(x))
    /\ \A c \in Composers :
         /\ WF_vars(Autosave(c))
         /\ WF_vars(SaveDone(c)) /\ WF_vars(SaveFailed(c))
         /\ WF_vars(Validated(c)) /\ WF_vars(ValidatedToPublish(c))
         /\ WF_vars(Published(c))
         /\ WF_vars(DeleteDone(c)) /\ WF_vars(DeleteFailed(c))

FairSpec == Spec /\ Fairness

-----------------------------------------------------------------------------
(* Properties. *)

\* Types, and what the browser awaits is what it has asked for: a flow that
\* awaits a save has one, and its other requests are its own stage's.
ComposerTypeOK ==
    /\ DraftsTypeOK
    /\ ui \in [Composers -> Surfaces]
    /\ \A c \in Composers :
         /\ Awaiting(c) # {} => Saving(c)
         /\ \A k \in Checks :
              (ui[c].flow[k] \in {"asking", "publishing"}) = (call[<<c, k>>] # NoCall)
         /\ Saving(c) => call[<<c, "save">>].op \in {"create", "update"}

\* A document that is shown as saved, at the revision that the service
\* has, is the document that the service has; and a document that is shown
\* as published is what is registered under its version (saveNow,
\* validateDraft and publishDraft set "saved" and published after awaits).
ShownIsStored ==
    \A c \in Composers : Open(c) =>
      LET u == ui[c] IN
      /\ u.save = "saved" /\ u.ref # NoRef /\ IsCurrent(u.ref.id, u.ref.rev)
           => draft[u.ref.id].content = u.canvas
      /\ u.published # NoVersion
           => u.published = u.canvas /\ version[u.canvas.key] = u.canvas

\* docs/contracts.md:37, "a stale revision is rejected instead of silently
\* overwriting newer state": no save removes an edit that was saved before.
NoLostUpdate ==
    [][\A d \in Drafts : Stored(d) /\ Stored(d)'
         => draft[d].content.edits \subseteq draft'[d].content.edits]_draft

\* README.md:220, "revisioned draft autosave": the changes of a draft do
\* not stay unsaved, and no flow waits for ever.
Settles ==
    \A c \in Composers :
      /\ (ui[c].save = "saving" \/ (ui[c].save = "dirty" /\ ui[c].ref # NoRef))
           ~> (~Open(c) \/ ui[c].save \in {"idle", "saved", "error"})
      /\ \A k \in Checks : []<>(ui[c].flow[k] = "idle")
=============================================================================
