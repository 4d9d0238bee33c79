--------------------------- MODULE MCCanvasEditor ---------------------------
(***************************************************************************)
(* Small instances of CanvasEditor.  The templates have a chain and a      *)
(* single node; with one more node every way of drawing, copying, deleting *)
(* and adding again meets every other.                                     *)
(***************************************************************************)
EXTENDS CanvasEditor

Id(word) == [word |-> word, suffix |-> <<>>]
Node(word, kind) == [id |-> Id(word), kind |-> kind]
Arrow(source, target) == [from |-> Id(source), to |-> Id(target)]

Chain ==
  [phases |-> << Node("work", "work"), Node("checkpoint", "checkpoint"), Node("end", "work") >>,
   edges |-> << Arrow("work", "checkpoint"), Arrow("checkpoint", "end") >>]
Blank == [phases |-> << Node("work", "work") >>, edges |-> <<>>]

MCTemplates == {Chain, Blank}
=============================================================================
