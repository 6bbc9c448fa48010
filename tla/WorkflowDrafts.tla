--------------------------- MODULE WorkflowDrafts ---------------------------
(***************************************************************************)
(* Workflow drafts and published versions (src/qhpc_ecosystem/engine.py)   *)
(* under concurrent calls of the HTTP API, whose server runs each request  *)
(* in a thread of its own (api.py, ThreadingHTTPServer).                   *)
(*                                                                         *)
(* A caller has at most one call.  A call is a sequence of database        *)
(* transactions and an action is one of them, so that the transactions of  *)
(* different calls interleave.  The message of a call, or its answer, may  *)
(* be lost: the caller sees an error in both cases.                        *)
(*                                                                         *)
(* Abstractions.                                                           *)
(*  - A content stands for the workflow and the layout of a draft: the     *)
(*    version it names and the set of the edits it was made with.  It      *)
(*    resolves unless it has an edit of Invalid; its digest is itself.     *)
(*  - Draft ids are random, so that the id of a new draft is unused.       *)
(*  - Names, owners, times and the registry's digest are left out.         *)
(*  - The first SELECT of a call that is refused is left out when the      *)
(*    later statement refuses the same callers.                            *)
(*                                                                         *)
(* An operator whose comment starts with "Variant" is a version of the one *)
(* after it with a bug that its properties must notice; Next uses none.    *)
(***************************************************************************)
EXTENDS Naturals, FiniteSets

CONSTANTS
    Drafts,         \* draft ids
    Keys,           \* versions: pairs of metadata id and version
    Edits,          \* the edits that users make
    Invalid,        \* the edits that the server's resolution rejects
    Callers,        \* what waits for an answer of the API
    NoDraft, Deleted, NoVersion, NoContent, NoCall, NoId,
    OneCallAtATime, \* do the transactions of two calls never interleave?
    MaxRevision,    \* bound: no write beyond this revision
    MaxLosses       \* bound: messages lost

ASSUME DraftAssumption ==
    /\ Invalid \subseteq Edits
    /\ NoId \notin Drafts
    /\ OneCallAtATime \in BOOLEAN
    /\ MaxRevision \in Nat /\ MaxLosses \in Nat

Contents == [key : Keys, edits : SUBSET Edits]
Valid == {w \in Contents : w.edits \cap Invalid = {}}
Rows == [rev : Nat, content : Contents]

VARIABLES
    draft,          \* table workflow_drafts
    version,        \* table workflow_versions
    call,           \* call[x]: the call of x and how far it is
    losses          \* messages lost so far

dvars == <<draft, version, call, losses>>

Operations == {"create", "update", "delete", "validate", "publish"}

\* "sent" and the stages after it are the server's; the last three are
\* answers, "invalid" that of a validation with issues.
Answers == {"answered", "invalid", "refused"}
Stages == {"sent", "current", "written", "checked", "read", "looked"} \cup Answers

Calls == [op : Operations, id : Drafts \cup {NoId}, rev : Nat,
          content : Contents \cup {NoContent}, at : Stages]

\* Each null is outside the set it extends.
ASSUME NullAssumption ==
    /\ NoDraft \notin Rows /\ Deleted \notin Rows /\ NoDraft # Deleted
    /\ NoVersion \notin Contents /\ NoContent \notin Contents
    /\ NoCall \notin Calls

DInit ==
    /\ draft = [d \in Drafts |-> NoDraft]
    /\ version = [k \in Keys |-> NoVersion]
    /\ call = [x \in Callers |-> NoCall]
    /\ losses = 0

Stored(d) == d \in Drafts /\ draft[d] \notin {NoDraft, Deleted}
IsCurrent(d, rev) == Stored(d) /\ draft[d].rev = rev

\* x's call is one of operation op at stage s, and its next transaction runs.
At(x, op, s) == call[x] # NoCall /\ call[x].op = op /\ call[x].at = s
Between(x) == call[x] # NoCall /\ call[x].at \notin {"sent"} \cup Answers
Runs(x, op, s) == /\ At(x, op, s)
                  /\ OneCallAtATime => \A y \in Callers \ {x} : ~Between(y)

To(x, s) == call' = [call EXCEPT ![x].at = s]

-----------------------------------------------------------------------------
(* The transactions of the five operations. *)

\* create_workflow_draft
CreateDraft(x) ==
    /\ Runs(x, "create", "sent")
    /\ \E d \in Drafts :
         /\ draft[d] = NoDraft
         /\ draft' = [draft EXCEPT ![d] = [rev |-> 1, content |-> call[x].content]]
         /\ call' = [call EXCEPT ![x].id = d, ![x].rev = 1, ![x].at = "written"]
    /\ UNCHANGED <<version, losses>>

\* update_workflow_draft, up to the comparison with the row it has read.
ReadForUpdate(x) ==
    /\ Runs(x, "update", "sent")
    /\ To(x, IF IsCurrent(call[x].id, call[x].rev) THEN "current" ELSE "refused")
    /\ UNCHANGED <<draft, version, losses>>

\* Variant: UPDATE ... WHERE id=?, without the revision.
WriteUnguarded(x) ==
    /\ Runs(x, "update", "current")
    /\ LET c == call[x] IN
       IF Stored(c.id)
       THEN /\ draft' = [draft EXCEPT ![c.id] = [rev |-> c.rev + 1, content |-> c.content]]
            /\ To(x, "written")
       ELSE To(x, "refused") /\ UNCHANGED draft
    /\ UNCHANGED <<version, losses>>

\* update_workflow_draft: UPDATE ... WHERE id=? AND revision=?.
WriteUpdate(x) ==
    /\ Runs(x, "update", "current")
    /\ LET c == call[x] IN
       IF IsCurrent(c.id, c.rev)
       THEN /\ draft' = [draft EXCEPT ![c.id] = [rev |-> c.rev + 1, content |-> c.content]]
            /\ To(x, "written")
       ELSE To(x, "refused") /\ UNCHANGED draft
    /\ UNCHANGED <<version, losses>>

\* return self.get_workflow_draft(draft_id): the answer of a create or an
\* update is what the row holds by then.
ReadBack(x) ==
    /\ \E op \in {"create", "update"} : Runs(x, op, "written")
    /\ LET d == call[x].id IN
       IF Stored(d)
       THEN call' = [call EXCEPT ![x].rev = draft[d].rev,
                                 ![x].content = draft[d].content,
                                 ![x].at = "answered"]
       ELSE To(x, "refused")
    /\ UNCHANGED <<draft, version, losses>>

\* delete_workflow_draft
DeleteDraft(x) ==
    /\ Runs(x, "delete", "sent")
    /\ IF IsCurrent(call[x].id, call[x].rev)
       THEN draft' = [draft EXCEPT ![call[x].id] = Deleted] /\ To(x, "answered")
       ELSE To(x, "refused") /\ UNCHANGED draft
    /\ UNCHANGED <<version, losses>>

\* validate_workflow_draft
ValidateDraft(x) ==
    /\ Runs(x, "validate", "sent")
    /\ LET c == call[x] IN
       To(x, IF ~IsCurrent(c.id, c.rev) THEN "refused"
             ELSE IF draft[c.id].content \in Valid THEN "answered" ELSE "invalid")
    /\ UNCHANGED <<draft, version, losses>>

\* publish_workflow_draft: its own validation of the draft.
CheckForPublish(x) ==
    /\ Runs(x, "publish", "sent")
    /\ LET c == call[x] IN
       To(x, IF IsCurrent(c.id, c.rev) /\ draft[c.id].content \in Valid
             THEN "checked" ELSE "refused")
    /\ UNCHANGED <<draft, version, losses>>

\* publish_workflow_draft: the draft is read again, at any revision.
ReadAgain(x) ==
    /\ Runs(x, "publish", "checked")
    /\ LET d == call[x].id IN
       IF Stored(d)
       THEN call' = [call EXCEPT ![x].content = draft[d].content, ![x].at = "read"]
       ELSE To(x, "refused")
    /\ UNCHANGED <<draft, version, losses>>

\* register_workflow: resolves, and compares with the registered digest.
LookUp(x) ==
    /\ Runs(x, "publish", "read")
    /\ LET w == call[x].content IN
       To(x, IF w \in Valid /\ version[w.key] \in {NoVersion, w}
             THEN "looked" ELSE "refused")
    /\ UNCHANGED <<draft, version, losses>>

\* register_workflow: INSERT OR IGNORE, and get_workflow, which answers
\* with the version that is registered.
InsertOrIgnore(x) ==
    /\ Runs(x, "publish", "looked")
    /\ LET k == call[x].content.key IN
       /\ version' = [version EXCEPT ![k] =
                        IF @ = NoVersion THEN call[x].content ELSE @]
       /\ call' = [call EXCEPT ![x].content = version'[k], ![x].at = "answered"]
    /\ UNCHANGED <<draft, losses>>

Transaction(x) ==
    \/ CreateDraft(x) \/ ReadForUpdate(x) \/ WriteUpdate(x) \/ ReadBack(x)
    \/ DeleteDraft(x) \/ ValidateDraft(x)
    \/ CheckForPublish(x) \/ ReadAgain(x) \/ LookUp(x) \/ InsertOrIgnore(x)

-----------------------------------------------------------------------------
(* Callers and the network. *)

Request(op, d, rev, w) ==
    [op |-> op, id |-> d, rev |-> rev, content |-> w, at |-> "sent"]

\* A client of the API sends any request that its revision bound admits.
Send(x, r) ==
    /\ call[x] = NoCall
    /\ r \in Calls /\ r.at = "sent" /\ r.rev < MaxRevision
    /\ (r.op = "create") = (r.id = NoId) /\ (r.op = "create") = (r.rev = 0)
    /\ (r.op \in {"create", "update"}) = (r.content # NoContent)
    /\ call' = [call EXCEPT ![x] = r]
    /\ UNCHANGED <<draft, version, losses>>

\* The request, or the answer to it, is lost.
Lose(x) ==
    /\ losses < MaxLosses
    /\ call[x] # NoCall
    /\ call[x].at \in {"sent", "answered", "invalid"}
    /\ To(x, "refused")
    /\ losses' = losses + 1
    /\ UNCHANGED <<draft, version>>

Receive(x) ==
    /\ call[x] # NoCall
    /\ call[x].at \in Answers
    /\ call' = [call EXCEPT ![x] = NoCall]
    /\ UNCHANGED <<draft, version, losses>>

DNext == \E x \in Callers :
            \/ Transaction(x) \/ Lose(x) \/ Receive(x)
            \/ \E op \in Operations, d \in Drafts \cup {NoId},
                  rev \in 0 .. MaxRevision,
                  w \in Contents \cup {NoContent} :
                     Send(x, Request(op, d, rev, w))

DSpec == DInit /\ [][DNext]_dvars

-----------------------------------------------------------------------------
(* Properties. *)

\* Types, and a call has the id and the content that its stage has read.
DraftsTypeOK ==
    /\ draft \in [Drafts -> Rows \cup {NoDraft, Deleted}]
    /\ version \in [Keys -> Contents \cup {NoVersion}]
    /\ call \in [Callers -> Calls \cup {NoCall}]
    /\ losses \in 0 .. MaxLosses
    /\ \A x \in Callers : call[x] # NoCall =>
         LET c == call[x] IN
         /\ c.op \in {"create", "update"} => c.content \in Contents
         /\ c.op = "publish" /\ c.at \in {"read", "looked", "answered"}
              => c.content \in Contents
         /\ c.op = "publish" /\ c.at = "looked" => c.content \in Valid
         /\ c.op # "create" \/ c.at \in {"written", "answered"} => c.id \in Drafts

\* Whatever the calls of any number of clients interleave with, the tables
\* are registers: of all the updates that name one revision of a draft one
\* is written, deleted drafts do not come back, and a registered version
\* is valid and never replaced (update_workflow_draft, register_workflow).
Service == INSTANCE DraftService WITH Key <- [w \in Contents |-> w.key]
ServiceSpec == Service!Spec
=============================================================================
