---------------------------- MODULE UndoTimeline ----------------------------
(***************************************************************************)
(* What undo and redo promise the user of an editor: the versions of the   *)
(* document lie on a line and one of them is shown.  An edit drops what    *)
(* lies after the version that is shown and appends its result; undo and   *)
(* redo only move along the line.  An editor that remembers Limit versions *)
(* may drop the oldest ones on an edit.                                    *)
(***************************************************************************)
EXTENDS Naturals, Sequences

CONSTANT Limit
VARIABLES versions, shown

tvars == <<versions, shown>>

Start(v) == versions = <<v>> /\ shown = 1

Edit(v) ==
    /\ versions' = Append(SubSeq(versions, 1, shown), v)
    /\ shown' = shown + 1

\* An edit by which the oldest version is forgotten.
EditAndForget(v) ==
    /\ shown > Limit
    /\ versions' = Append(SubSeq(versions, 2, shown), v)
    /\ UNCHANGED shown

Undo == shown > 1 /\ shown' = shown - 1 /\ UNCHANGED versions
Redo == shown < Len(versions) /\ shown' = shown + 1 /\ UNCHANGED versions

\* Another document is opened.
Restart(v) == versions' = <<v>> /\ shown' = 1

\* v of an edit is the last version of the line after it.
Next ==
    \/ \E v \in {versions'[Len(versions')]} : Edit(v) \/ EditAndForget(v) \/ Restart(v)
    \/ Undo \/ Redo

Spec == Start(versions[1]) /\ [][Next]_tvars
=============================================================================
