---------------------------- MODULE MCPhaseOrder ----------------------------
(***************************************************************************)
(* Every small program a client may send: up to four phases, and arrows    *)
(* added one at a time, repeated ones, loops, arrows to itself and arrows  *)
(* to a node that is not there included.  The order in which the arrows    *)
(* are listed does not matter, so they are added in one fixed order.       *)
(***************************************************************************)
EXTENDS PhaseProgram

CONSTANT MaxArrows  \* bound: arrows added to a program

Names == <<"a", "b", "c", "d">>
Ends == Append(Names, "gone")
Arrows == [from : ToSet(Ends), to : ToSet(Names)]
NumberOf(name) == CHOOSE i \in DOMAIN Ends : Ends[i] = name
ArrowNumber(e) == Len(Ends) * NumberOf(e.from) + NumberOf(e.to)

\* The phase lists: distinct ids, and two phases with the same id.
IdLists == {SubSeq(Names, 1, n) : n \in 1..4} \cup {<<"a", "a">>}

Init ==
  \E ids \in IdLists : \E kinds \in [DOMAIN ids -> {"work", "checkpoint"}] :
    program = [phases |-> [i \in DOMAIN ids |-> [id |-> ids[i], kind |-> kinds[i]]],
               edges |-> <<>>]

Draw ==
  /\ Len(program.edges) < MaxArrows
  /\ \E e \in Arrows :
       /\ e.to \in Ids(program)
       /\ e.from \in Ids(program) \cup {"gone"}
       /\ program.edges # <<>> => ArrowNumber(Last(program.edges)) <= ArrowNumber(e)
       /\ program' = [program EXCEPT !.edges = Append(@, e)]

Spec == Init /\ [][Draw]_program
=============================================================================
