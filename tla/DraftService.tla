---------------------------- MODULE DraftService ----------------------------
(***************************************************************************)
(* What the workflow tables of src/qhpc_ecosystem/engine.py promise their  *)
(* clients.  A draft is a register with a revision: every save replaces    *)
(* the whole content of one revision and produces the next, and the id of  *)
(* a deleted draft is never used again.  A workflow version is a register  *)
(* that is written once, with valid content that bears its own key.        *)
(***************************************************************************)
EXTENDS Naturals

CONSTANTS
    Drafts,         \* draft ids
    Keys,           \* workflow versions: pairs of an id and a version
    Contents,       \* workflow definitions
    Key,            \* Key[w]: the metadata id and version of content w
    Valid,          \* the contents that resolve
    NoDraft, Deleted, NoVersion

VARIABLES draft, version

svars == <<draft, version>>

Exists(d) == draft[d] \notin {NoDraft, Deleted}

Init ==
    /\ draft = [d \in Drafts |-> NoDraft]
    /\ version = [k \in Keys |-> NoVersion]

Create(d, w) ==
    /\ draft[d] = NoDraft
    /\ draft' = [draft EXCEPT ![d] = [rev |-> 1, content |-> w]]
    /\ UNCHANGED version

Save(d, w) ==
    /\ Exists(d)
    /\ draft' = [draft EXCEPT ![d] = [rev |-> draft[d].rev + 1, content |-> w]]
    /\ UNCHANGED version

Remove(d) ==
    /\ Exists(d)
    /\ draft' = [draft EXCEPT ![d] = Deleted]
    /\ UNCHANGED version

Register(w) ==
    /\ w \in Valid
    /\ version[Key[w]] = NoVersion
    /\ version' = [version EXCEPT ![Key[w]] = w]
    /\ UNCHANGED draft

Next ==
    \/ \E d \in Drafts :
          \/ Remove(d)
          \/ \E w \in Contents : Create(d, w) \/ Save(d, w)
    \/ \E w \in Contents : Register(w)

Spec == Init /\ [][Next]_svars
=============================================================================
