----------------------------- MODULE PhaseOrder -----------------------------
(***************************************************************************)
(* The graph of a phase program: what the server accepts and in which      *)
(* order it runs the phases (phase_program.py), and what the page accepts, *)
(* shows and draws of the same program (canvas-model.js).  The two are     *)
(* written separately and must agree.                                      *)
(*                                                                         *)
(* A program is [phases |-> sequence of [id, kind],                        *)
(*               edges  |-> sequence of [from, to]].                       *)
(* Names, goals and canvas positions do not bear on acceptance or order.   *)
(* Ids are compared and nothing else; ProgramsOver says of what they are.  *)
(***************************************************************************)
EXTENDS Naturals, Sequences, FiniteSets, SequencesExt

CONSTANTS
  PhaseLimit,  \* max_length of PhaseProgram.phases
  EdgeLimit    \* max_length of PhaseProgram.edges

ASSUME LimitsAssumption == PhaseLimit \in Nat \ {0} /\ EdgeLimit \in Nat

ProgramsOver(names) ==
  [phases : Seq([id : names, kind : STRING]), edges : Seq([from : names, to : names])]

IdsOf(p) == [i \in DOMAIN p.phases |-> p.phases[i].id]
Ids(p) == ToSet(IdsOf(p))
Position(p, id) == CHOOSE i \in DOMAIN p.phases : p.phases[i].id = id
KindOf(p, id) == p.phases[Position(p, id)].kind
Unique(s) == Cardinality(ToSet(s)) = Len(s)

Incoming(p, id) == Cardinality({i \in DOMAIN p.edges : p.edges[i].to = id})
Outgoing(p, id) == {p.edges[i].to : i \in {j \in DOMAIN p.edges : p.edges[j].from = id}}
Starts(p) == {id \in Ids(p) : Incoming(p, id) = 0}
KnownEdges(p) == \A i \in DOMAIN p.edges : {p.edges[i].from, p.edges[i].to} \subseteq Ids(p)
NoSelfEdge(p) == \A i \in DOMAIN p.edges : p.edges[i].from # p.edges[i].to

-----------------------------------------------------------------------------
(* Both programs run the same loop: of the phases whose dependencies are   *)
(* done, the first in list order comes next.  "ready" is sorted before     *)
(* every removal and its keys are distinct, so a set stands for it.  A     *)
(* phase becomes ready when its last incoming arrow is taken away.         *)

\* Mutant of Take: the last phase of the list comes next.
TakeLast(p, s) ==
  LET current == CHOOSE id \in s.ready : \A other \in s.ready : Position(p, id) >= Position(p, other)
      left == [id \in DOMAIN s.incoming |-> s.incoming[id]
                 - Cardinality({i \in DOMAIN p.edges : p.edges[i] = [from |-> current, to |-> id]})]
  IN  [incoming |-> left,
       ready |-> (s.ready \ {current}) \cup {id \in Outgoing(p, current) : left[id] = 0},
       ordered |-> Append(s.ordered, current)]

Take(p, s) ==
  LET current == CHOOSE id \in s.ready : \A other \in s.ready : Position(p, id) <= Position(p, other)
      left == [id \in DOMAIN s.incoming |-> s.incoming[id]
                 - Cardinality({i \in DOMAIN p.edges : p.edges[i] = [from |-> current, to |-> id]})]
  IN  [incoming |-> left,
       ready |-> (s.ready \ {current}) \cup {id \in Outgoing(p, current) : left[id] = 0},
       ordered |-> Append(s.ordered, current)]

OrderStart(p) ==
  [incoming |-> [id \in Ids(p) |-> Incoming(p, id)], ready |-> Starts(p), ordered |-> <<>>]

Round(p, s) == IF s.ready = {} THEN s ELSE Take(p, s)

\* The loop takes a phase at most once, so it ends within as many rounds as
\* there are phases.
DependencyOrder(p) ==
  FoldLeft(LAMBDA s, phase : Round(p, s), OrderStart(p), p.phases).ordered

-----------------------------------------------------------------------------
(* The server                                                              *)

ordered_phases(p) == IF p.edges = <<>> THEN IdsOf(p) ELSE DependencyOrder(p)

\* Mutant of Orderable: several starting nodes are let through.
OrderableManyStarts(p) ==
  \/ p.edges = <<>>
  \/ /\ Unique(p.edges)
     /\ KnownEdges(p)
     /\ NoSelfEdge(p)
     /\ Len(DependencyOrder(p)) = Len(p.phases)

\* ordered_phases raises no ValueError.
Orderable(p) ==
  \/ p.edges = <<>>
  \/ /\ Unique(p.edges)
     /\ KnownEdges(p)
     /\ NoSelfEdge(p)
     /\ Cardinality(Starts(p)) = 1
     /\ Len(DependencyOrder(p)) = Len(p.phases)

FieldLimits(p) == Len(p.phases) \in 1..PhaseLimit /\ Len(p.edges) <= EdgeLimit

\* PhaseProgram with its field limits and validate_program.
Accepted(p) ==
  /\ FieldLimits(p)
  /\ Unique(IdsOf(p))
  /\ \E i \in DOMAIN p.phases : p.phases[i].kind = "work"
  /\ Orderable(p)
  /\ LET order == ordered_phases(p)
     IN  /\ KindOf(p, Head(order)) = "work"
         /\ \A i \in 1..(Len(order) - 1) :
              ~(KindOf(p, order[i]) = "checkpoint" /\ KindOf(p, order[i + 1]) = "checkpoint")

\* The edges of compile_phase_program: the arrows, or else the list order,
\* between the nodes "task" and "output".
CompiledEdges(p) ==
  IF p.edges # <<>>
    THEN {<<p.edges[i].from, p.edges[i].to>> : i \in DOMAIN p.edges}
           \cup {<<"task", id>> : id \in Starts(p)}
           \cup {<<id, "output">> : id \in {d \in Ids(p) : Outgoing(p, d) = {}}}
    ELSE LET path == <<"task">> \o ordered_phases(p) \o <<"output">>
         IN  {<<path[i], path[i + 1]>> : i \in 1..(Len(path) - 1)}

-----------------------------------------------------------------------------
(* The page                                                                *)

\* An arrow with a missing end makes the list order the answer.
clientTopologicalOrder(p) ==
  IF p.edges = <<>> \/ ~KnownEdges(p) THEN IdsOf(p) ELSE DependencyOrder(p)

\* Mutant of orderedClientPhases: the steps are shown in list order.
ListedPhases(p) == IdsOf(p)

orderedClientPhases(p) ==
  IF Len(clientTopologicalOrder(p)) = Len(p.phases) THEN clientTopologicalOrder(p) ELSE IdsOf(p)

\* graphProblem returns a complaint.
graphProblem(p) ==
  \/ ~KnownEdges(p)
  \/ ~NoSelfEdge(p)
  \/ ~Unique(p.edges)
  \/ Len(p.phases) > 1 /\ p.edges = <<>>
  \/ Cardinality(Starts(p)) # 1
  \/ Len(clientTopologicalOrder(p)) # Len(p.phases)
  \/ \E id \in Starts(p) : KindOf(p, id) # "work"

\* One arrow further.  Arrows out of a missing node are not followed.
Further(p, ids) == ids \cup UNION {Outgoing(p, id) : id \in ids \cap Ids(p)}

\* Where the arrows lead from target: wouldCreateCycle's search.
Reached(p, target) == FoldLeft(LAMBDA ids, phase : Further(p, ids), {target}, p.phases)

wouldCreateCycle(p, source, target) == source \in Reached(p, target)

\* layoutRunGraph draws the arrows, or else the list order.
DrawnEdges(p) ==
  IF p.edges # <<>> THEN {<<p.edges[i].from, p.edges[i].to>> : i \in DOMAIN p.edges}
  ELSE {<<p.phases[i].id, p.phases[i + 1].id>> : i \in 1..(Len(p.phases) - 1)}

Level(levels, parents) == IF parents = {} THEN 0 ELSE Max({levels[id] : id \in parents}) + 1

Parents(p, id) == {edge[1] : edge \in {e \in DrawnEdges(p) : e[2] = id}}
Place(p, levels, id) == [levels EXCEPT ![id] = Level(levels, Parents(p, id))]

\* levelById of layoutRunGraph, filled in the order the page shows.
Levels(p) ==
  FoldLeft(LAMBDA levels, id : Place(p, levels, id), [id \in Ids(p) |-> 0],
           orderedClientPhases(p))
=============================================================================
