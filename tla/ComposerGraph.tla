--------------------------- MODULE ComposerGraph ---------------------------
(***************************************************************************)
(* The canvas of the composer (workbench/frontend/src/graph.ts and the     *)
(* edits of ComposerApp.tsx): operations and workflow boundaries, the      *)
(* connections between their ports, undo and redo, and the conversion      *)
(* between the canvas and the workflow that is saved, which the server     *)
(* resolves (src/qhpc_ecosystem/contract.py and workflow.py).              *)
(*                                                                         *)
(* Abstractions.                                                           *)
(*  - The id of a node is its kind, its base name and the suffix that      *)
(*    makes it unique, 1 for none.                                         *)
(*  - Nodes and connections are sets: their order is not told apart.  Of   *)
(*    several connections of one workflow input the workflow keeps one;    *)
(*    which one is left open.                                              *)
(*  - All parameters of a node are one value, and so is its position,      *)
(*    which the layout of a draft keeps by the id of the node.             *)
(*  - One pointer: while a node is dragged nothing else is clicked.        *)
(*                                                                         *)
(* An operator whose comment starts with "Variant" is a version of the one *)
(* after it with a bug that its properties must notice; Next uses none.    *)
(***************************************************************************)
EXTENDS Naturals, Sequences, FiniteSets, SequencesExt

CONSTANTS
    Ops,            \* operations of the registry
    Inputs,         \* Inputs[o]: its input ports, [port -> [type, required]]
    Outputs,        \* Outputs[o]: its output ports, [port -> type]
    Names,          \* ids that users rename a node to
    Documents,      \* workflows that can be opened besides the saved one
    NoGraph,        \* the null of dragStart
    HistoryLimit,   \* steps that replaceGraph remembers: 80 in the code
    MaxSuffix,      \* bound: copies of a name
    MaxEdits        \* bound: edits, undos and redos of one document

VARIABLES
    graph,          \* nodes and edges
    history,        \* the graphs that undo returns to, the newest last
    future,         \* the graphs that redo returns to, the nearest last
    dragStart,      \* the graph when the drag that goes on began
    edits           \* edits, undos and redos since the document was opened

vars == <<graph, history, future, dragStart, edits>>

Numbers == 1 .. MaxSuffix
Kind(id) == id[1]
OpNodes(g) == {n \in g.nodes : Kind(n.id) = "operation"}
Boundaries(g, kind) == {n \in g.nodes : Kind(n.id) = kind}
Node(g, id) == CHOOSE n \in g.nodes : n.id = id
Has(g, id) == \E n \in g.nodes : n.id = id

\* A connection leaves a port of one node and enters a port of another; the
\* only port of a boundary is named like it, here "it".
EndpointOf(id, port) == [node |-> id, port |-> port]

\* artifactTypeForHandle: the types a port of a node has, none or one.
SourceType(n, port) ==
    IF Kind(n.id) = "operation"
    THEN {Outputs[n.op][p] : p \in {port} \cap DOMAIN Outputs[n.op]}
    ELSE {n.type}
TargetType(n, port) ==
    IF Kind(n.id) = "operation"
    THEN {Inputs[n.op][p].type : p \in {port} \cap DOMAIN Inputs[n.op]}
    ELSE {n.type}

Internal(e) == Kind(e.from.node) = "operation" /\ Kind(e.to.node) = "operation"

\* operationPathExists: b is in every set with a that internal connections
\* do not leave.
PathExists(a, b, es) ==
    \A S \in SUBSET ({a, b} \cup {e.from.node : e \in es} \cup {e.to.node : e \in es}) :
      (a \in S /\ \A e \in es : Internal(e) /\ e.from.node \in S => e.to.node \in S)
        => b \in S

\* validateConnection, among the connections others.
ValidConnection(e, g, others) ==
    /\ Has(g, e.from.node) /\ Has(g, e.to.node) /\ e.from.node # e.to.node
    /\ LET s == Node(g, e.from.node)
           t == Node(g, e.to.node)
       IN /\ <<Kind(s.id), Kind(t.id)>> \in
                {<<"operation", "operation">>, <<"input", "operation">>,
                 <<"operation", "output">>}
          /\ SourceType(s, e.from.port) # {}
          /\ SourceType(s, e.from.port) = TargetType(t, e.to.port)
    /\ \A o \in others : o.to # e.to
    /\ Internal(e) => ~PathExists(e.to.node, e.from.node, others)

\* Variant: a boundary without a connection is no issue.
NoOperationIssues(g) ==
    /\ OpNodes(g) # {}
    /\ \A n \in OpNodes(g) : \A p \in DOMAIN Inputs[n.op] :
         Inputs[n.op][p].required
           => \E e \in g.edges : e.to = EndpointOf(n.id, p)
    /\ \A e \in g.edges : ValidConnection(e, g, g.edges \ {e})

\* validateCanvas finds nothing: there is an operation, required inputs and
\* boundaries are connected, and each connection is valid among the others.
NoIssues(g) ==
    /\ OpNodes(g) # {}
    /\ \A n \in OpNodes(g) : \A p \in DOMAIN Inputs[n.op] :
         Inputs[n.op][p].required
           => \E e \in g.edges : e.to = EndpointOf(n.id, p)
    /\ \A n \in Boundaries(g, "input") : \E e \in g.edges : e.from.node = n.id
    /\ \A n \in Boundaries(g, "output") : \E e \in g.edges : e.to.node = n.id
    /\ \A e \in g.edges : ValidConnection(e, g, g.edges \ {e})

-----------------------------------------------------------------------------
(* The workflow that is saved, and the server's view of it. *)

\* canvasToWorkflow: a workflow input is kept by its name with one of its
\* connections; a boundary without a connection is not kept.
ToWorkflow(g) ==
    [nodes |-> OpNodes(g),
     edges |-> {e \in g.edges : Internal(e)},
     inputs |-> {[name |-> n, to |-> (CHOOSE e \in g.edges : e.from.node = n.id).to] :
                   n \in {m \in Boundaries(g, "input") :
                            \E e \in g.edges : e.from.node = m.id}},
     outputs |-> {[name |-> n, from |-> (CHOOSE e \in g.edges : e.to.node = n.id).from] :
                    n \in {m \in Boundaries(g, "output") :
                             \E e \in g.edges : e.to.node = m.id}}]

\* workflowToCanvas
ToCanvas(w) ==
    [nodes |-> w.nodes \cup {i.name : i \in w.inputs} \cup {o.name : o \in w.outputs},
     edges |-> w.edges
               \cup {[from |-> EndpointOf(i.name.id, "it"), to |-> i.to] : i \in w.inputs}
               \cup {[from |-> o.from, to |-> EndpointOf(o.name.id, "it")] :
                       o \in w.outputs}]

\* Connections into a port, of both kinds.
Incoming(w, to) == Cardinality({e \in w.edges : e.to = to})
                   + Cardinality({i \in w.inputs : i.to = to})

\* _validate_workflow and resolve_workflow raise nothing.
Resolves(w) ==
    LET ids == {n.id : n \in w.nodes}
        OpOf(id) == (CHOOSE n \in w.nodes : n.id = id).op
    IN
    /\ w.nodes # {} /\ Cardinality(ids) = Cardinality(w.nodes)
    /\ \A e \in w.edges :
         /\ {e.from.node, e.to.node} \subseteq ids /\ e.from.node # e.to.node
         /\ e.from.port \in DOMAIN Outputs[OpOf(e.from.node)]
         /\ e.to.port \in DOMAIN Inputs[OpOf(e.to.node)]
         /\ Outputs[OpOf(e.from.node)][e.from.port]
              = Inputs[OpOf(e.to.node)][e.to.port].type
         /\ Cardinality({o \in w.edges : o.to = e.to}) = 1
    /\ \A S \in SUBSET ids : S # {} =>
         \E id \in S : \A e \in w.edges : e.to.node = id => e.from.node \notin S
    /\ \A i \in w.inputs :
         /\ i.to.node \in ids /\ i.to.port \in DOMAIN Inputs[OpOf(i.to.node)]
         /\ Inputs[OpOf(i.to.node)][i.to.port].type = i.name.type
    /\ \A o \in w.outputs :
         /\ o.from.node \in ids /\ o.from.port \in DOMAIN Outputs[OpOf(o.from.node)]
         /\ Outputs[OpOf(o.from.node)][o.from.port] = o.name.type
    /\ \A n \in w.nodes : \A p \in DOMAIN Inputs[n.op] :
         Inputs[n.op][p].required => Incoming(w, EndpointOf(n.id, p)) > 0

-----------------------------------------------------------------------------
(* Edits. *)

Init ==
    /\ graph \in {ToCanvas(w) : w \in Documents}
    /\ history = <<>> /\ future = <<>>
    /\ dragStart = NoGraph
    /\ edits = 0

\* No drag is on, and the bound admits an edit.
MayEdit == dragStart = NoGraph /\ edits < MaxEdits

\* Variant: what was undone can still be redone after an edit.
CommitKeepingFuture(g) ==
    /\ graph' = g
    /\ history' = LET h == Append(history, graph) IN
                  IF Len(h) > HistoryLimit THEN Tail(h) ELSE h
    /\ edits' = edits + 1
    /\ UNCHANGED <<future, dragStart>>

\* replaceGraph
Commit(g) ==
    /\ graph' = g
    /\ history' = LET h == Append(history, graph) IN
                  IF Len(h) > HistoryLimit THEN Tail(h) ELSE h
    /\ future' = <<>>
    /\ edits' = edits + 1
    /\ UNCHANGED dragStart

\* updateOperationNode and renameNode, which do not limit the history.
CommitUnlimited(g) ==
    /\ graph' = g
    /\ history' = Append(history, graph)
    /\ future' = <<>>
    /\ edits' = edits + 1
    /\ UNCHANGED dragStart

\* uniqueNodeId and uniqueBoundaryName: the first suffix that is free.
UniqueId(kind, base, g) ==
    LET free == {k \in Numbers : ~Has(g, <<kind, base, k>>)} IN
    <<kind, base, CHOOSE k \in free : \A m \in free : k <= m>>

HasFreeId(kind, base, g) == \E k \in Numbers : ~Has(g, <<kind, base, k>>)

\* addOperation, createOperationCanvasNode
AddOperation(o) ==
    /\ MayEdit /\ HasFreeId("operation", o, graph)
    /\ Commit([graph EXCEPT !.nodes = @ \cup
                 {[id |-> UniqueId("operation", o, graph), op |-> o,
                   parameters |-> 0, place |-> 0]}])

\* onConnect, connectionEdge; an invalid connection changes no graph.
Ports(g) == {EndpointOf(n.id, p) : n \in OpNodes(g),
                                   p \in UNION {DOMAIN Inputs[o] \cup DOMAIN Outputs[o] :
                                                  o \in Ops}}
            \cup {EndpointOf(n.id, "it") : n \in g.nodes \ OpNodes(g)}

Connect ==
    /\ MayEdit
    /\ \E s, t \in Ports(graph) :
         LET e == [from |-> s, to |-> t] IN
         /\ ValidConnection(e, graph, graph.edges)
         /\ Commit([graph EXCEPT !.edges = @ \cup {e}])

\* deleteSelection of a node takes its connections with it.
DeleteNode ==
    /\ MayEdit
    /\ \E n \in graph.nodes :
         Commit([nodes |-> graph.nodes \ {n},
                 edges |-> {e \in graph.edges : n.id \notin {e.from.node, e.to.node}}])

DeleteEdge ==
    /\ MayEdit
    /\ \E e \in graph.edges : Commit([graph EXCEPT !.edges = @ \ {e}])

\* updateOperationNode
SetParameter ==
    /\ MayEdit
    /\ \E n \in OpNodes(graph) :
         CommitUnlimited([graph EXCEPT !.nodes =
           (@ \ {n}) \cup {[n EXCEPT !.parameters = 1 - @]}])

\* Variant: connections into the node keep its old id.
RenamedHalf(g, old, new) ==
    [nodes |-> {IF n.id = old THEN [n EXCEPT !.id = new] ELSE n : n \in g.nodes},
     edges |-> {[e EXCEPT !.from.node = IF @ = old THEN new ELSE @] : e \in g.edges}]

\* renameNode: the node and both ends of its connections.
Renamed(g, old, new) ==
    [nodes |-> {IF n.id = old THEN [n EXCEPT !.id = new] ELSE n : n \in g.nodes},
     edges |-> {[e EXCEPT !.from.node = IF @ = old THEN new ELSE @,
                          !.to.node = IF @ = old THEN new ELSE @] : e \in g.edges}]

\* The id that is proposed may be one that is taken, which is refused.
Rename ==
    /\ MayEdit
    /\ \E n \in OpNodes(graph), name \in Names :
         LET new == <<"operation", name, 1>> IN
         ~Has(graph, new) /\ CommitUnlimited(Renamed(graph, n.id, new))

\* exposePort and createBoundaryForPort, of a port without a boundary.
ExposeInput ==
    /\ MayEdit
    /\ \E n \in OpNodes(graph) : \E p \in DOMAIN Inputs[n.op] :
         LET id == UniqueId("input", p, graph) IN
         /\ HasFreeId("input", p, graph)
         /\ \A e \in graph.edges : e.to # EndpointOf(n.id, p)
         /\ Commit([nodes |-> graph.nodes \cup
                       {[id |-> id, type |-> Inputs[n.op][p].type, place |-> 0]},
                    edges |-> graph.edges \cup
                       {[from |-> EndpointOf(id, "it"), to |-> EndpointOf(n.id, p)]}])

ExposeOutput ==
    /\ MayEdit
    /\ \E n \in OpNodes(graph) : \E p \in DOMAIN Outputs[n.op] :
         LET id == UniqueId("output", p, graph) IN
         /\ HasFreeId("output", p, graph)
         /\ \A e \in graph.edges : e.from = EndpointOf(n.id, p)
                                     => Kind(e.to.node) # "output"
         /\ Commit([nodes |-> graph.nodes \cup
                       {[id |-> id, type |-> Outputs[n.op][p], place |-> 0]},
                    edges |-> graph.edges \cup
                       {[from |-> EndpointOf(n.id, p), to |-> EndpointOf(id, "it")]}])

-----------------------------------------------------------------------------
(* Dragging, undo and redo, and opening a document. *)

\* onNodeDragStart
DragStart ==
    /\ MayEdit
    /\ graph.nodes # {}
    /\ dragStart' = graph
    /\ UNCHANGED <<graph, history, future, edits>>

\* onNodesChange while a node is dragged.
Drag ==
    /\ dragStart # NoGraph
    /\ \E n \in graph.nodes :
         graph' = [graph EXCEPT !.nodes = (@ \ {n}) \cup {[n EXCEPT !.place = 1 - @]}]
    /\ UNCHANGED <<history, future, dragStart, edits>>

\* onNodeDragStop
DragStop ==
    /\ dragStart # NoGraph
    /\ history' = Append(history, dragStart)
    /\ future' = <<>>
    /\ dragStart' = NoGraph
    /\ edits' = edits + 1
    /\ UNCHANGED graph

Undo ==
    /\ MayEdit /\ history # <<>>
    /\ graph' = Last(history)
    /\ history' = Front(history)
    /\ future' = Append(future, graph)
    /\ edits' = edits + 1
    /\ UNCHANGED dragStart

Redo ==
    /\ MayEdit /\ future # <<>>
    /\ graph' = Last(future)
    /\ future' = Front(future)
    /\ history' = Append(history, graph)
    /\ edits' = edits + 1
    /\ UNCHANGED dragStart

\* resetDocument with the workflow that was saved, or with another one.
OpenDocument ==
    /\ dragStart = NoGraph
    /\ \E w \in Documents \cup {ToWorkflow(graph)} : graph' = ToCanvas(w)
    /\ history' = <<>> /\ future' = <<>>
    /\ UNCHANGED <<dragStart, edits>>

Next ==
    \/ \E o \in Ops : AddOperation(o)
    \/ Connect \/ DeleteNode \/ DeleteEdge \/ SetParameter \/ Rename
    \/ ExposeInput \/ ExposeOutput
    \/ DragStart \/ Drag \/ DragStop \/ Undo \/ Redo \/ OpenDocument

Spec == Init /\ [][Next]_vars

-----------------------------------------------------------------------------
(* Properties. *)

\* Whatever is edited, undone and reopened: ids are unique, connections end
\* at ports that exist and have one type, each input has at most one
\* connection and the operations have no cycle, so that every issue of the
\* canvas is one of something missing (validateConnection guards onConnect
\* only; renaming, exposing, undoing and opening do not call it).
GraphOK ==
    /\ \A m, n \in graph.nodes : m.id = n.id => m = n
    /\ \A e \in graph.edges : ValidConnection(e, graph, graph.edges \ {e})

\* No workflow input feeds two ports.
NoFanOut(g) ==
    \A e, f \in g.edges : e.from.node = f.from.node /\ Kind(e.from.node) = "input"
                            => e = f

\* A canvas without local issues, whose workflow inputs each feed one port,
\* is saved as a workflow that the server resolves and that opens as the
\* same canvas (validateCanvas, canvasToWorkflow and workflowToCanvas
\* against resolve_workflow; graph.test.ts:28 round-trips examples).
CanvasIsSaved ==
    NoIssues(graph) /\ NoFanOut(graph)
      => Resolves(ToWorkflow(graph)) /\ ToCanvas(ToWorkflow(graph)) = graph

\* Undo and redo walk the versions that the user has seen, in both
\* directions and whatever mix of edits, drags and renamings made them; a
\* drag is one version, however many positions it passes.
Timeline == INSTANCE UndoTimeline WITH
    Limit <- HistoryLimit,
    versions <- history \o <<IF dragStart = NoGraph THEN graph ELSE dragStart>>
                  \o Reverse(future),
    shown <- Len(history) + 1
TimelineSpec == Timeline!Spec
=============================================================================
