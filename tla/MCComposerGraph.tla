-------------------------- MODULE MCComposerGraph --------------------------
(***************************************************************************)
(* Small instances of ComposerGraph: an operation that makes an artifact   *)
(* of type T and one that turns it into another and reports on it.         *)
(***************************************************************************)
EXTENDS ComposerGraph

MCInputs ==
    [make |-> <<>>,
     turn |-> [i |-> [type |-> "T", required |-> TRUE],
               j |-> [type |-> "R", required |-> FALSE]]]
MCOutputs ==
    [make |-> [o |-> "T"],
     turn |-> [o |-> "T", r |-> "R"]]

\* createEmptyWorkflow
Empty == [nodes |-> {}, edges |-> {}, inputs |-> {}, outputs |-> {}]

OpNode(o, k) == [id |-> <<"operation", o, k>>, op |-> o, parameters |-> 0, place |-> 0]

\* Two turns one after the other, between a workflow input and an output.
Chain ==
    LET a == OpNode("turn", 1)
        b == OpNode("turn", 2)
    IN [nodes |-> {a, b},
        edges |-> {[from |-> EndpointOf(a.id, "o"), to |-> EndpointOf(b.id, "i")]},
        inputs |-> {[name |-> [id |-> <<"input", "i", 1>>, type |-> "T", place |-> 0],
                     to |-> EndpointOf(a.id, "i")]},
        outputs |-> {[name |-> [id |-> <<"output", "o", 1>>, type |-> "T", place |-> 0],
                      from |-> EndpointOf(b.id, "o")]}]

MCDocuments == {Empty, Chain}
=============================================================================
