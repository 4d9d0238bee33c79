---------------------------- MODULE CanvasEditor ----------------------------
(***************************************************************************)
(* The workflow canvas of home.js: the program under design, what is       *)
(* selected, the arrow tool, an arrow being dragged, and the requests      *)
(* whose answers replace the program while the author goes on editing.     *)
(*                                                                         *)
(* renderPhaseEditor draws the program and binds the handlers of its nodes *)
(* and of the inspector to the program object it drew.  "shown" is that    *)
(* object.  It is designProgram itself except after the answer to a save,  *)
(* which replaces designProgram and draws it only after the library has    *)
(* been loaded again ("detached"): until then those handlers change an     *)
(* object nobody reads any more, while the toolbar and the keyboard change *)
(* the new one.                                                            *)
(*                                                                         *)
(* Indexes start at 1 and 0 stands for no selection.  A phase id is a word *)
(* and what was put behind it, 1 for "copy" and the counters 2, 3, ...:    *)
(* [word |-> "work", suffix |-> <<1, 2>>] is work-copy-2.                  *)
(***************************************************************************)
EXTENDS PhaseProgram

CONSTANTS
  Templates,  \* programs of the catalogue and of the library
  Kinds,      \* kinds of phase the author adds
  MaxNodes,   \* bound: nodes on the canvas
  MaxChanges  \* bound: edits of the program's structure and requests sent

Names == [word : STRING, suffix : Seq(Nat)]

ASSUME EditorAssumption ==
  /\ MaxNodes \in Nat /\ MaxChanges \in Nat
  /\ \A kind \in Kinds : kind \in STRING
  /\ \A p \in Templates : p \in ProgramsOver(Names) /\ Accepted(p)

VARIABLES         \* program is designProgram
  shown,          \* the program drawn last, which the handlers hold
  detached,       \* shown is no longer the object designProgram
  selectedPhase,  \* selectedPhaseIndex
  selectedEdge,   \* selectedEdgeIndex
  armed,          \* arrowTool is on
  arrowSource,    \* arrowTool.sourceId: at most one id
  draft,          \* connectionDraft: at most one [source, live]; live: on designProgram
  adapting,       \* the program sent to /api/workflows/adapt: at most one
  saving,         \* the program sent to /api/workflows: at most one
  listing,        \* saveDesign waits for loadWorkflows
  changes,        \* bound: structural edits and requests so far
  stray           \* history: an arrow was drawn from or to a node that is gone

vars == <<program, shown, detached, selectedPhase, selectedEdge, armed, arrowSource, draft,
          adapting, saving, listing, changes, stray>>
toolVars == <<armed, arrowSource, draft>>
requestVars == <<adapting, saving, listing>>

HasEdge(p, source, target) == Contains(p.edges, [from |-> source, to |-> target])
WithEdge(p, source, target) == [p EXCEPT !.edges = Append(@, [from |-> source, to |-> target])]
Works(p) == {i \in DOMAIN p.phases : p.phases[i].kind = "work"}

Init ==
  /\ program \in Templates
  /\ shown = program
  /\ detached = FALSE
  /\ selectedPhase = 1 /\ selectedEdge = 0
  /\ armed = FALSE /\ arrowSource = {} /\ draft = {}
  /\ adapting = {} /\ saving = {} /\ listing = FALSE
  /\ changes = 0
  /\ stray = FALSE

-----------------------------------------------------------------------------
(* Drawing                                                                 *)

Clamp(index, p) == IF index > Len(p.phases) THEN Len(p.phases) ELSE index

\* designProgram is next, and renderPhaseEditor draws it.
Draw(next, phase, edge) ==
  /\ program' = next
  /\ shown' = next
  /\ detached' = FALSE
  /\ selectedPhase' = Clamp(phase, next)
  /\ selectedEdge' = edge

\* A handler of the drawn program changes the object it holds to next.
DrawHeld(next, phase, edge) == Draw(IF detached THEN program ELSE next, phase, edge)

Change == changes < MaxChanges /\ changes' = changes + 1

\* designProgram is another object: an arrow being dragged belongs to the old one.
Replace == draft' = {[d EXCEPT !.live = FALSE] : d \in draft}

\* What the inspector shows.
EdgeInspected == selectedEdge \in DOMAIN shown.edges
PhaseInspected == ~EdgeInspected /\ selectedPhase # 0

WithSuffix(id, n) == [id EXCEPT !.suffix = Append(@, n)]

\* The stem, or the first of stem-2, stem-3 ... that is free.  The stem is not,
\* so that as many counters as there are nodes are enough.
uniquePhaseId(stem, p) ==
  IF stem \notin Ids(p) THEN stem
  ELSE WithSuffix(stem, Min({n \in 2..(Len(p.phases) + 1) : WithSuffix(stem, n) \notin Ids(p)}))

-----------------------------------------------------------------------------
(* Selecting, and the arrow tool                                           *)

\* A click on a node without the arrow tool.
SelectNode ==
  /\ ~armed
  /\ \E i \in DOMAIN shown.phases \cap DOMAIN program.phases : Draw(program, i, 0)
  /\ UNCHANGED <<toolVars, requestVars, changes, stray>>

\* Only arrows between two nodes are drawn.
SelectEdge ==
  /\ \E i \in DOMAIN shown.edges :
       /\ {shown.edges[i].from, shown.edges[i].to} \subseteq Ids(shown)
       /\ Draw(program, 0, i)
  /\ UNCHANGED <<toolVars, requestVars, changes, stray>>

Deselect ==
  /\ Draw(program, 0, 0)
  /\ UNCHANGED <<toolVars, requestVars, changes, stray>>

\* setView: the canvas is shown again.
ShowCreate ==
  /\ Draw(program, selectedPhase, selectedEdge)
  /\ UNCHANGED <<toolVars, requestVars, changes, stray>>

\* setArrowTool
ToggleArrowTool ==
  /\ armed' = ~armed
  /\ arrowSource' = {}
  /\ UNCHANGED <<program, shown, detached, selectedPhase, selectedEdge, draft, requestVars,
                 changes, stray>>

Escape ==
  /\ armed
  /\ armed' = FALSE
  /\ arrowSource' = {}
  /\ Draw(program, selectedPhase, selectedEdge)
  /\ UNCHANGED <<draft, requestVars, changes, stray>>

ChooseSource ==
  /\ armed /\ arrowSource = {}
  /\ \E i \in DOMAIN shown.phases \cap DOMAIN program.phases :
       /\ arrowSource' = {program.phases[i].id}
       /\ Draw(program, i, 0)
  /\ UNCHANGED <<armed, draft, requestVars, changes, stray>>

\* Mutant of Connectable: loops are let through.
ConnectableLoop(p, source, target) == source # target /\ ~HasEdge(p, source, target)
Connectable(p, source, target) ==
  /\ source # target
  /\ ~HasEdge(p, source, target)
  /\ ~wouldCreateCycle(p, source, target)

\* The arrow is added, or a notice says why not.
ChooseTarget ==
  /\ armed
  /\ \E source \in arrowSource : \E i \in DOMAIN shown.phases \cap DOMAIN program.phases :
       LET target == program.phases[i].id IN
       IF Connectable(program, source, target)
         THEN /\ Change
              /\ Draw(WithEdge(program, source, target), i, 0)
              /\ stray' = (stray \/ source \notin Ids(program))
         ELSE Draw(program, i, 0) /\ UNCHANGED <<changes, stray>>
  /\ armed' = FALSE
  /\ arrowSource' = {}
  /\ UNCHANGED <<draft, requestVars>>

\* beginConnection: the drag holds the program under design.
BeginConnection ==
  /\ draft = {}
  /\ \E i \in DOMAIN shown.phases : draft' = {[source |-> shown.phases[i].id, live |-> TRUE]}
  /\ UNCHANGED <<program, shown, detached, selectedPhase, selectedEdge, armed, arrowSource,
                 requestVars, changes, stray>>

\* The drag ends on the port of a drawn node, or elsewhere.
EndConnection ==
  /\ \E d \in draft :
       \/ /\ Draw(program, selectedPhase, selectedEdge)
          /\ UNCHANGED <<changes, stray>>
       \/ \E target \in Ids(shown) :
            /\ d.live /\ Connectable(program, d.source, target)
            /\ Change
            /\ Draw(WithEdge(program, d.source, target), selectedPhase, selectedEdge)
            /\ stray' = (stray \/ ~({d.source, target} \subseteq Ids(program)))
  /\ draft' = {}
  /\ UNCHANGED <<armed, arrowSource, requestVars>>

-----------------------------------------------------------------------------
(* Changing the program                                                    *)

\* "Add arrow" in the inspector of the selected node.
ConnectByInspector ==
  /\ PhaseInspected
  /\ Change
  /\ \E target \in Ids(shown) :
       LET source == shown.phases[selectedPhase].id IN
       /\ Connectable(shown, source, target)
       /\ DrawHeld(WithEdge(shown, source, target), selectedPhase, selectedEdge)
  /\ UNCHANGED <<toolVars, requestVars, stray>>

\* The copy is linked from its original.  Nothing looks at the limit here.
Duplicate ==
  /\ PhaseInspected
  /\ Len(shown.phases) < MaxNodes
  /\ Change
  /\ LET source == shown.phases[selectedPhase]
         id == uniquePhaseId(WithSuffix(source.id, 1), shown)
         next == [shown EXCEPT !.phases = Append(@, [source EXCEPT !.id = id])]
     IN  DrawHeld(WithEdge(next, source.id, id), Len(next.phases), 0)
  /\ UNCHANGED <<toolVars, requestVars, stray>>

\* The arrows of the list that are in the set.
Keep(kept, e, set) == IF e \in set THEN Append(kept, e) ELSE kept
Only(edges, set) == FoldLeft(LAMBDA kept, e : Keep(kept, e, set), <<>>, edges)
Into(p, id) == {e \in ToSet(p.edges) : e.to = id}
OutOf(p, id) == {e \in ToSet(p.edges) : e.from = id}
Apart(p, id) == ToSet(p.edges) \ (Into(p, id) \cup OutOf(p, id))

\* Mutant of Bridge: the arrows through the removed node are dropped.
BridgeNothing(p, id) == Only(p.edges, Apart(p, id))

Join(edges, source, target) ==
  IF source = target \/ Contains(edges, [from |-> source, to |-> target]) THEN edges
  ELSE Append(edges, [from |-> source, to |-> target])
JoinAll(edges, source, targets) == FoldLeft(LAMBDA es, t : Join(es, source, t.to), edges, targets)

\* The arrows once the node id is removed: its sources lead to its targets.
Bridge(p, id) ==
  FoldLeft(LAMBDA es, s : JoinAll(es, s.from, Only(p.edges, OutOf(p, id))),
           Only(p.edges, Apart(p, id)), Only(p.edges, Into(p, id)))

Deletable(p, i) == Len(p.phases) > 1 /\ Works(p) # {i}

DeletePhase ==
  /\ PhaseInspected
  /\ Deletable(shown, selectedPhase)
  /\ Change
  /\ LET id == shown.phases[selectedPhase].id
         next == [phases |-> RemoveAt(shown.phases, selectedPhase), edges |-> Bridge(shown, id)]
     IN  DrawHeld(next, Clamp(selectedPhase, next), 0)
  /\ UNCHANGED <<toolVars, requestVars, stray>>

\* "Delete arrow" in the inspector.
DeleteEdge ==
  /\ EdgeInspected
  /\ Change
  /\ DrawHeld([shown EXCEPT !.edges = RemoveAt(@, selectedEdge)], selectedPhase, 0)
  /\ UNCHANGED <<toolVars, requestVars, stray>>

\* The Delete key takes the arrow with that index out of designProgram.
DeleteKey ==
  /\ selectedEdge # 0
  /\ Change
  /\ Draw(IF selectedEdge \in DOMAIN program.edges
            THEN [program EXCEPT !.edges = RemoveAt(@, selectedEdge)] ELSE program,
          selectedPhase, 0)
  /\ UNCHANGED <<toolVars, requestVars, stray>>

\* addPhase links the new node from the selected one, or from the last.
AddPhase ==
  /\ Len(program.phases) < PhaseLimit
  /\ Len(program.phases) < MaxNodes
  /\ Change
  /\ \E kind \in Kinds :
       LET selected == IF selectedPhase \in DOMAIN program.phases
                         THEN selectedPhase ELSE Len(program.phases)
           id == uniquePhaseId([word |-> kind, suffix |-> <<>>], program)
           next == [program EXCEPT !.phases = Append(@, [id |-> id, kind |-> kind])]
       IN  Draw(WithEdge(next, program.phases[selected].id, id), Len(next.phases), 0)
  /\ UNCHANGED <<toolVars, requestVars, stray>>

-----------------------------------------------------------------------------
(* Replacing the program                                                   *)

\* loadGraphTemplate.  The arrow tool keeps its source.
LoadTemplate ==
  /\ \E p \in Templates : Draw(p, 1, 0)
  /\ Replace
  /\ stray' = FALSE
  /\ UNCHANGED <<armed, arrowSource, requestVars, changes>>

\* applyWorkflow keeps the index of the selected arrow.
ApplyWorkflow ==
  /\ \E p \in Templates : Draw(p, 1, selectedEdge)
  /\ Replace
  /\ stray' = FALSE
  /\ UNCHANGED <<armed, arrowSource, requestVars, changes>>

\* adaptWithCodex
SendAdapt ==
  /\ adapting = {}
  /\ Change
  /\ adapting' = {program}
  /\ UNCHANGED <<program, shown, detached, selectedPhase, selectedEdge, toolVars, saving,
                 listing, stray>>

\* The adapted program has the phases and arrows of the one that was sent.
AdaptAnswered ==
  /\ \E p \in adapting : Accepted(p) /\ Draw(p, selectedPhase, selectedEdge)
  /\ adapting' = {}
  /\ Replace
  /\ stray' = FALSE
  /\ UNCHANGED <<armed, arrowSource, saving, listing, changes>>

AdaptFailed ==
  /\ adapting # {}
  /\ adapting' = {}
  /\ UNCHANGED <<program, shown, detached, selectedPhase, selectedEdge, toolVars, saving,
                 listing, changes, stray>>

\* saveDesign
SendSave ==
  /\ saving = {} /\ ~listing
  /\ Change
  /\ saving' = {program}
  /\ UNCHANGED <<program, shown, detached, selectedPhase, selectedEdge, toolVars, adapting,
                 listing, stray>>

SaveAnswered ==
  /\ \E p \in saving : Accepted(p) /\ program' = p
  /\ saving' = {}
  /\ listing' = TRUE
  /\ detached' = TRUE
  /\ Replace
  /\ stray' = FALSE
  /\ UNCHANGED <<shown, selectedPhase, selectedEdge, armed, arrowSource, adapting, changes>>

SaveFailed ==
  /\ saving # {}
  /\ saving' = {}
  /\ UNCHANGED <<program, shown, detached, selectedPhase, selectedEdge, toolVars, adapting,
                 listing, changes, stray>>

SaveListed ==
  /\ listing
  /\ listing' = FALSE
  /\ Draw(program, selectedPhase, selectedEdge)
  /\ UNCHANGED <<toolVars, adapting, saving, changes, stray>>

Next ==
  \/ SelectNode \/ SelectEdge \/ Deselect \/ ShowCreate
  \/ ToggleArrowTool \/ Escape \/ ChooseSource \/ ChooseTarget
  \/ BeginConnection \/ EndConnection
  \/ ConnectByInspector \/ Duplicate \/ DeletePhase \/ DeleteEdge \/ DeleteKey \/ AddPhase
  \/ LoadTemplate \/ ApplyWorkflow
  \/ SendAdapt \/ AdaptAnswered \/ AdaptFailed
  \/ SendSave \/ SaveAnswered \/ SaveFailed \/ SaveListed

Spec == Init /\ [][Next]_vars

-----------------------------------------------------------------------------
(* Properties                                                              *)

\* The canvas state is well formed, and the selected node is one that is drawn.
TypeOK ==
  /\ {program, shown} \cup adapting \cup saving \subseteq ProgramsOver(Names)
  /\ selectedPhase \in 0..Len(shown.phases)
  /\ selectedEdge \in Nat
  /\ {detached, armed, listing, stray} \subseteq BOOLEAN
  /\ Cardinality(arrowSource) <= 1 /\ Cardinality(draft) <= 1
  /\ Cardinality(adapting) <= 1 /\ Cardinality(saving) <= 1
  /\ changes \in 0..MaxChanges

\* Node ids stay distinct, whatever is added, copied, deleted and added again:
\* arrows name nodes by id.
IdsUnique == Unique(IdsOf(program))

\* There is always a Codex turn to run, also when the handlers delete from an
\* object that was replaced meanwhile.
WorkRemains == Works(program) # {}

\* As long as no arrow was drawn from or to a node that is gone, every arrow joins
\* two nodes, none is repeated and there is no loop: the checks at each way of
\* drawing one, and the arrows put in place of a deleted node, keep it so.
CleanUnlessStray ==
  ~stray =>
    /\ KnownEdges(program)
    /\ Unique(program.edges)
    /\ Len(DependencyOrder(program)) = Len(program.phases)

\* What the server needs of a program holds after any sequence of edits, copies,
\* deletions and answers that come late.
ProgramStaysSound == TypeOK /\ IdsUnique /\ WorkRemains /\ CleanUnlessStray

\* Deleting a node keeps every dependency between the others, direct or not,
\* and adds none.
DeletionKeepsDependencies ==
  [][DeletePhase => \A a, b \in Ids(program) \cap Ids(program') :
       b \in Reached(program, a) <=> b \in Reached(program', a)]_vars

-----------------------------------------------------------------------------
(* Statements of the page that the code does not meet                      *)

\* "That arrow would create a loop": the page refuses arrows that close one.
NoLoops == KnownEdges(program) => Len(DependencyOrder(program)) = Len(program.phases)

\* "A workflow can contain at most sixteen nodes."
WithinLimit == Len(program.phases) <= PhaseLimit
=============================================================================
