---------------------------- MODULE PhaseProgram ----------------------------
(***************************************************************************)
(* What must be true of any phase program that server and page are given:  *)
(* the order they compute is the one the author may expect, what is        *)
(* refused is what has no such order, and what is shown is what is run.    *)
(***************************************************************************)
EXTENDS PhaseOrder

VARIABLE program  \* the phase program at hand

-----------------------------------------------------------------------------
(* The reference: orders of the phases that respect every arrow, found by  *)
(* trying them all, and the earliest of them in list order.                *)

Permuted == [n \in 1..PhaseLimit |-> {f \in [1..n -> 1..n] : Unique(f)}]

OrdersOf(p) ==
  {f \in Permuted[Len(p.phases)] :
     \A i \in DOMAIN p.edges : \E s, t \in DOMAIN f :
       /\ p.phases[f[s]].id = p.edges[i].from
       /\ p.phases[f[t]].id = p.edges[i].to
       /\ s < t}

Earlier(f, g) == \E i \in DOMAIN f : f[i] < g[i] /\ \A j \in 1..(i - 1) : f[j] = g[j]

\* Where the pairs lead from start: what no set that holds start and follows
\* every pair can leave out.
LedTo(pairs, start) ==
  LET nodes == {start} \cup {e[2] : e \in pairs}
      Closed == {s \in SUBSET nodes : start \in s /\ \A e \in pairs : e[1] \in s => e[2] \in s}
  IN  {n \in nodes : \A s \in Closed : n \in s}

-----------------------------------------------------------------------------
(* Properties                                                              *)

\* ordered_phases runs the phases in the "stable dependency order" it
\* promises: of all the orders that respect the arrows, the one that keeps
\* the author's list order longest.
StableOrder ==
  Accepted(program) /\ program.edges # <<>> =>
    LET f == [i \in DOMAIN program.phases |-> Position(program, ordered_phases(program)[i])]
    IN  f \in OrdersOf(program) /\ \A g \in OrdersOf(program) : ~Earlier(g, f)

\* ordered_phases rejects a graph with arrows exactly when it repeats an
\* arrow, has none of the orders above, or leaves a phase that the starting
\* node does not lead to: counting starting nodes and ordered phases is
\* enough to find loops and loose parts.
RejectsLoopsAndLooseParts ==
  FieldLimits(program) /\ Unique(IdsOf(program)) /\ program.edges # <<>> =>
    (Orderable(program) <=>
       /\ Unique(program.edges)
       /\ OrdersOf(program) # {}
       /\ \E start \in Ids(program) :
            Ids(program) \subseteq LedTo(DrawnEdges(program), start))

\* The page never refuses a drawn program that the server accepts, and the
\* steps it shows for the run are in the order in which the server runs them.
PageAgrees ==
  Accepted(program) /\ (program.edges # <<>> \/ Len(program.phases) = 1) =>
    ~graphProblem(program) /\ orderedClientPhases(program) = ordered_phases(program)

\* In the graph compile_phase_program returns, every phase lies on a path
\* from the task to the output.
CompiledIsConnected ==
  Accepted(program) =>
    \A id \in Ids(program) :
      /\ id \in LedTo(CompiledEdges(program), "task")
      /\ "output" \in LedTo(CompiledEdges(program), id)

\* layoutRunGraph draws every arrow of a receipt's program from a level to a
\* later one.
ArrowsPointForward ==
  Accepted(program) => \A e \in DrawnEdges(program) : Levels(program)[e[1]] < Levels(program)[e[2]]

\* What is shown of a program, as a list of steps, as a compiled graph and as
\* the drawing of a run, agrees with what the server accepts and executes.
ShownAsRun == PageAgrees /\ CompiledIsConnected /\ ArrowsPointForward

-----------------------------------------------------------------------------
(* Statements of the repository that the code does not meet                *)

\* PhaseProgram's docstring: programs without edges "retain their original
\* left-to-right list order"; the page should then run what the server runs.
ListProgramsStillRun == Accepted(program) => ~graphProblem(program)

\* renderPhaseEditor says "executable" and "Ready to run" of a program that
\* graphProblem does not complain about.
ReadyMeansAccepted ==
  Unique(IdsOf(program)) /\ ~graphProblem(program) => Accepted(program)
=============================================================================
