------------------------- MODULE CanvasEditorProofs -------------------------
(***************************************************************************)
(* Phase programs and the canvas, for any number of phases, arrows and     *)
(* edits.  First the algorithms: what the loops of phase_program.py,       *)
(* canvas-model.js and home.js compute for every program.  Then the        *)
(* canvas: an inductive invariant over its handlers, which rests on what   *)
(* the algorithms were shown to compute.                                   *)
(***************************************************************************)
EXTENDS CanvasEditor, SequenceTheorems, FiniteSetTheorems, WellFoundedInduction, TLAPS

-----------------------------------------------------------------------------
(* Induction, and what a fold computes.                                    *)
(*                                                                         *)
(* The provers cannot instantiate the induction rules of the library, which*)
(* take an operator.  A set of numbers that has no least element is empty: *)
(* that much they can use, and it gives induction for membership in a set. *)
(* FoldLeft is CHOOSE of a recursive function over sets of indices: that   *)
(* such a function exists is shown first (FoldExists), then that its values*)
(* along 1..k are those of a loop (FoldRun).                               *)

\* A set of naturals that is not empty has a least element.
LEMMA Least == ASSUME NEW T, T \subseteq Nat, T # {} PROVE \E x \in T : \A y \in T : x <= y
<1> DEFINE R == OpToRel(<, Nat)
<1>1. IsWellFoundedOn(R, Nat)
  BY NatLessThanWellFounded
<1>2. PICK x \in T : \A y \in T : ~(<<y, x>> \in R)
  <2> HIDE DEF R
  <2> QED BY <1>1, WFMin
<1>3. R = {ss \in Nat \X Nat : ss[1] < ss[2]}
  BY DEF OpToRel
<1> HIDE DEF R
<1>4. ASSUME NEW y \in T, y < x PROVE <<y, x>> \in R
  <2>1. <<y, x>> \in Nat \X Nat OBVIOUS
  <2>2. <<y, x>>[1] < <<y, x>>[2] BY <1>4
  <2> QED BY <1>3, <2>1, <2>2
<1>5. ASSUME NEW y \in T PROVE x <= y
  <2>1. ~(y < x) BY <1>2, <1>4
  <2>2. x \in Nat /\ y \in Nat OBVIOUS
  <2> QED BY <2>1, <2>2
<1> QED BY <1>5

\* A set that holds 0 and with every natural the next holds them all.
LEMMA SetInduction == ASSUME NEW S, 0 \in S, \A n \in Nat : n \in S => n + 1 \in S PROVE Nat \subseteq S
<1> SUFFICES ASSUME ~(Nat \subseteq S) PROVE FALSE OBVIOUS
<1> DEFINE T == Nat \ S
<1>1. PICK x \in T : \A y \in T : x <= y
  <2>1. T \subseteq Nat /\ T # {} OBVIOUS
  <2> HIDE DEF T
  <2> QED BY <2>1, Least
<1>2. x # 0 /\ x - 1 \in Nat OBVIOUS
<1>3. x - 1 \in S BY <1>1, <1>2
<1> QED BY <1>2, <1>3

\* Max of the library is the largest member.
LEMMA MaxOf ==
  ASSUME NEW n \in Nat, NEW s \in SUBSET (1..n), s # {}
  PROVE  Max(s) \in s /\ \A y \in s : Max(s) >= y
<1> DEFINE T == {n - x : x \in s}
<1>1. T \subseteq Nat /\ T # {}
  <2>1. ASSUME NEW x \in s PROVE n - x \in Nat OBVIOUS
  <2> QED BY <2>1
<1>2. PICK t \in T : \A u \in T : t <= u
  <2> HIDE DEF T
  <2> QED BY <1>1, Least
<1>3. PICK x \in s : t = n - x
  OBVIOUS
<1>4. \A y \in s : x >= y
  <2> TAKE y \in s
  <2>1. n - y \in T OBVIOUS
  <2>2. n - x <= n - y BY <1>2, <1>3, <2>1
  <2> QED BY <2>2
<1> QED BY <1>4 DEF Max

\* The largest index of a set that holds its upper bound.
LEMMA MaxIs ==
  ASSUME NEW k \in Nat, NEW s \in SUBSET (1..k), k \in s
  PROVE  Max(s) = k
<1>1. s # {} OBVIOUS
<1>2. Max(s) \in s /\ Max(s) >= k
  BY <1>1, MaxOf
<1>3. Max(s) \in 1..k BY <1>2
<1> QED BY <1>2, <1>3

\* A loop of n steps from base, step k being G[k], within V.
Steps(V, base, n, G) == n \in Nat /\ base \in V /\ G \in [1..n -> [V -> V]]

\* it is the iteration of a fold over 1..n with the step G.
Folds(it, base, n, G) ==
  \A s \in SUBSET (1..n) : it[s] = IF s = {} THEN base ELSE G[Max(s)][it[s \ {Max(s)}]]

\* The function that FoldLeft chooses exists.
LEMMA FoldExists ==
  ASSUME NEW V, NEW base, NEW n, NEW G, Steps(V, base, n, G)
  PROVE  \E it \in [SUBSET (1..n) -> V] : Folds(it, base, n, G)
<1> DEFINE Good(m, it) == \A s \in SUBSET (1..m) :
             it[s] = IF s = {} THEN base ELSE G[Max(s)][it[s \ {Max(s)}]]
           Has(m) == \E it \in [SUBSET (1..m) -> V] : Good(m, it)
           P == {m \in Nat : m <= n => Has(m)}
<1> USE DEF Steps
<1>1. 0 \in P
  <2> DEFINE i0 == [s \in SUBSET (1..0) |-> base]
  <2>1. i0 \in [SUBSET (1..0) -> V] OBVIOUS
  <2>2. Good(0, i0)
    <3>1. 1..0 = {} OBVIOUS
    <3> QED BY <3>1
  <2> QED BY <2>1, <2>2
<1>2. ASSUME NEW m \in Nat, m \in P PROVE m + 1 \in P
  <2> SUFFICES ASSUME m + 1 <= n PROVE Has(m + 1)
    <3> HIDE DEF Has
    <3> QED OBVIOUS
  <2>0. Has(m)
    <3> HIDE DEF Has
    <3> QED BY <1>2
  <2>1. PICK f \in [SUBSET (1..m) -> V] : Good(m, f)
    BY <2>0
  <2> DEFINE g == [s \in SUBSET (1..(m+1)) |-> IF m + 1 \in s THEN G[m + 1][f[s \ {m + 1}]] ELSE f[s]]
  <2>2. ASSUME NEW s \in SUBSET (1..(m+1)) PROVE s \ {m + 1} \in SUBSET (1..m)
    OBVIOUS
  <2>3. g \in [SUBSET (1..(m+1)) -> V]
    <3> SUFFICES ASSUME NEW s \in SUBSET (1..(m+1)) PROVE g[s] \in V
      OBVIOUS
    <3>1. m + 1 \in 1..n OBVIOUS
    <3>2. f[s \ {m + 1}] \in V BY <2>2
    <3>3. CASE m + 1 \in s BY <3>1, <3>2, <3>3
    <3>4. CASE m + 1 \notin s
      <4>1. s \ {m + 1} = s BY <3>4
      <4> QED BY <3>2, <3>4, <4>1
    <3> QED BY <3>3, <3>4
  <2>4. ASSUME NEW s \in SUBSET (1..(m+1))
        PROVE g[s] = IF s = {} THEN base ELSE G[Max(s)][g[s \ {Max(s)}]]
    <3>1. CASE m + 1 \in s
      <4>1. Max(s) = m + 1 BY <3>1, MaxIs
      <4>2. g[s \ {m + 1}] = f[s \ {m + 1}] BY <2>2
      <4> QED BY <3>1, <4>1, <4>2
    <3>2. CASE m + 1 \notin s
      <4>1. s \in SUBSET (1..m) BY <3>2
      <4>2. g[s] = f[s] BY <3>2
      <4>3. CASE s = {} BY <2>1, <4>1, <4>2, <4>3
      <4>4. CASE s # {}
        <5>1. Max(s) \in s BY <4>1, <4>4, MaxOf
        <5>2. g[s \ {Max(s)}] = f[s \ {Max(s)}] BY <3>2, <4>1
        <5> QED BY <2>1, <4>1, <4>2, <4>4, <5>1, <5>2
      <4> QED BY <4>3, <4>4
    <3> QED BY <3>1, <3>2
  <2> HIDE DEF g
  <2>5. Good(m + 1, g) BY <2>4
  <2> QED BY <2>3, <2>5
<1>3. n \in P
  <2> HIDE DEF P
  <2> QED BY <1>1, <1>2, SetInduction
<1>4. Has(n)
  <2> HIDE DEF Has
  <2> QED BY <1>3
<1>5. PICK it \in [SUBSET (1..n) -> V] : Good(n, it)
  BY <1>4
<1>6. Folds(it, base, n, G)
  BY <1>5 DEF Folds
<1> QED BY <1>6

-----------------------------------------------------------------------------
(* Programs, ids and arrows                                                *)

\* No element is repeated exactly when no two indices have the same one.
LEMMA UniqueInjective ==
  ASSUME NEW S, NEW s \in Seq(S)
  PROVE  /\ IsFiniteSet(ToSet(s)) /\ Cardinality(ToSet(s)) <= Len(s)
         /\ Unique(s) <=> \A i, j \in 1..Len(s) : s[i] = s[j] => i = j
<1>1. Len(s) \in Nat /\ DOMAIN s = 1..Len(s)
  BY LenProperties
<1>2. s \in Surjection(1..Len(s), ToSet(s))
  BY <1>1 DEF Surjection, ToSet
<1>3. IsFiniteSet(1..Len(s)) /\ Cardinality(1..Len(s)) = Len(s)
  BY <1>1, FS_Interval
<1>4. /\ IsFiniteSet(ToSet(s))
      /\ Cardinality(ToSet(s)) <= Cardinality(1..Len(s))
      /\ Cardinality(ToSet(s)) = Cardinality(1..Len(s)) <=> s \in Injection(1..Len(s), ToSet(s))
  BY <1>2, <1>3, FS_Surjection
<1>5. s \in Injection(1..Len(s), ToSet(s)) <=> \A i, j \in 1..Len(s) : s[i] = s[j] => i = j
  BY <1>1, <1>2 DEF Injection, Surjection, IsInjective
<1> QED BY <1>3, <1>4, <1>5 DEF Unique

\* The parts of a program have their types.
LEMMA ProgramFacts ==
  ASSUME NEW I, NEW p \in ProgramsOver(I)
  PROVE  /\ p.phases \in Seq([id : I, kind : STRING]) /\ p.edges \in Seq([from : I, to : I])
         /\ Len(p.phases) \in Nat /\ Len(p.edges) \in Nat
         /\ DOMAIN p.phases = 1..Len(p.phases) /\ DOMAIN p.edges = 1..Len(p.edges)
         /\ \A i \in DOMAIN p.phases : p.phases[i] \in [id : I, kind : STRING]
         /\ \A i \in DOMAIN p.edges : p.edges[i] \in [from : I, to : I]
<1>1. p.phases \in Seq([id : I, kind : STRING]) /\ p.edges \in Seq([from : I, to : I])
  BY DEF ProgramsOver
<1> QED BY <1>1, LenProperties, ElementOfSeq

\* The ids of a program are those of its phases, and finitely many.
LEMMA IdFacts ==
  ASSUME NEW I, NEW p \in ProgramsOver(I)
  PROVE  /\ IdsOf(p) \in Seq(I) /\ Len(IdsOf(p)) = Len(p.phases)
         /\ Ids(p) = {p.phases[i].id : i \in DOMAIN p.phases}
         /\ Ids(p) \subseteq I
         /\ IsFiniteSet(Ids(p)) /\ Cardinality(Ids(p)) <= Len(p.phases)
         /\ Cardinality(Ids(p)) \in Nat
<1>1. /\ Len(p.phases) \in Nat /\ DOMAIN p.phases = 1..Len(p.phases)
      /\ \A i \in DOMAIN p.phases : p.phases[i].id \in I
  BY ProgramFacts
<1>2. IdsOf(p) \in Seq(I) /\ Len(IdsOf(p)) = Len(p.phases)
  BY <1>1 DEF IdsOf
<1>3. Ids(p) = {p.phases[i].id : i \in DOMAIN p.phases}
  BY <1>1 DEF Ids, IdsOf, ToSet
<1>4. IsFiniteSet(Ids(p)) /\ Cardinality(Ids(p)) <= Len(p.phases)
  BY <1>2, UniqueInjective DEF Ids
<1> QED BY <1>1, <1>2, <1>3, <1>4, FS_CardinalityType

\* validate_program's test of the ids, read as one about phases.
LEMMA UniqueIds ==
  ASSUME NEW I, NEW p \in ProgramsOver(I)
  PROVE  /\ Unique(IdsOf(p)) <=>
              \A i, j \in DOMAIN p.phases : p.phases[i].id = p.phases[j].id => i = j
         /\ Unique(IdsOf(p)) <=> Cardinality(Ids(p)) = Len(p.phases)
<1>1. IdsOf(p) \in Seq(I) /\ Len(IdsOf(p)) = Len(p.phases)
  BY IdFacts
<1>2. DOMAIN p.phases = 1..Len(p.phases)
  BY ProgramFacts
<1>3. Unique(IdsOf(p)) <=> \A i, j \in 1..Len(IdsOf(p)) : IdsOf(p)[i] = IdsOf(p)[j] => i = j
  BY <1>1, UniqueInjective
<1>4. \A i \in DOMAIN p.phases : IdsOf(p)[i] = p.phases[i].id
  BY DEF IdsOf
<1> QED BY <1>1, <1>2, <1>3, <1>4 DEF Unique, Ids

\* The position of an id is that of a phase that has it.
LEMMA PositionFacts ==
  ASSUME NEW I, NEW p \in ProgramsOver(I), NEW id \in Ids(p)
  PROVE  /\ Position(p, id) \in 1..Len(p.phases) /\ p.phases[Position(p, id)].id = id
         /\ Position(p, id) \in Nat
<1>1. DOMAIN p.phases = 1..Len(p.phases) /\ Len(p.phases) \in Nat
  BY ProgramFacts
<1>2. \E i \in DOMAIN p.phases : p.phases[i].id = id
  BY IdFacts
<1> QED BY <1>1, <1>2 DEF Position

\* The test for repeated arrows, read as one about indices.
LEMMA EdgeUnique ==
  ASSUME NEW I, NEW p \in ProgramsOver(I)
  PROVE  Unique(p.edges) <=> \A i, j \in DOMAIN p.edges : p.edges[i] = p.edges[j] => i = j
<1>1. p.edges \in Seq([from : I, to : I]) /\ DOMAIN p.edges = 1..Len(p.edges)
  BY ProgramFacts
<1> QED BY <1>1, UniqueInjective

\* Induction up to a bound.
LEMMA UpTo ==
  ASSUME NEW n \in Nat, NEW S, 0 \in S, \A k \in 1..n : k - 1 \in S => k \in S
  PROVE  0..n \subseteq S
<1> DEFINE P == {k \in Nat : k <= n => k \in S}
<1>1. 0 \in P
  OBVIOUS
<1>2. ASSUME NEW k \in Nat, k \in P PROVE k + 1 \in P
  <2> SUFFICES ASSUME k + 1 <= n PROVE k + 1 \in S
    OBVIOUS
  <2>1. k \in S /\ k + 1 \in 1..n /\ (k + 1) - 1 = k
    BY <1>2
  <2> QED BY <2>1
<1>3. Nat \subseteq P
  <2> HIDE DEF P
  <2> QED BY <1>1, <1>2, SetInduction
<1> QED BY <1>3

\* r is the run of a loop that starts with base and takes n steps.
Runs(r, base, n, G) == r[0] = base /\ \A k \in 1..n : r[k] = G[k][r[k - 1]]

\* it behaves as a fold as long as its values stay in V.
FoldsIn(V, it, base, n, G) ==
  /\ Steps(V, base, n, G)
  /\ it[{}] = base
  /\ \A s \in SUBSET (1..n) :
       s # {} /\ it[s \ {Max(s)}] \in V => it[s] = G[Max(s)][it[s \ {Max(s)}]]

\* A fold whose steps stay in V is the last state of a loop.
LEMMA FoldRun ==
  ASSUME NEW V, NEW it, NEW base, NEW n, NEW G, FoldsIn(V, it, base, n, G)
  PROVE  \E r \in [0..n -> V] : Runs(r, base, n, G) /\ it[1..n] = r[n]
<1> DEFINE r == [k \in 0..n |-> it[1..k]]
           S == {k \in 0..n : it[1..k] \in V}
<1>0. n \in Nat /\ base \in V /\ G \in [1..n -> [V -> V]]
  BY DEF FoldsIn, Steps
<1> USE <1>0
<1>1. 1..0 = {}
  OBVIOUS
<1>2. ASSUME NEW k \in 1..n, it[1..(k - 1)] \in V
      PROVE  it[1..k] = G[k][it[1..(k - 1)]] /\ it[1..k] \in V
  <2>1. Max(1..k) = k
    <3>1. k \in Nat /\ k \in 1..k OBVIOUS
    <3> QED BY <3>1, MaxIs
  <2>2. (1..k) \ {k} = 1..(k - 1) OBVIOUS
  <2>4. k \in 1..k OBVIOUS
  <2>5. 1..k \in SUBSET (1..n) OBVIOUS
  <2>3. it[1..k] = G[k][it[1..(k - 1)]]
    BY <1>2, <2>1, <2>2, <2>4, <2>5 DEF FoldsIn
  <2> QED BY <1>2, <2>3
<1>3. 0..n \subseteq S
  <2>1. 0 \in S
    BY <1>1 DEF FoldsIn
  <2>2. ASSUME NEW k \in 1..n, k - 1 \in S PROVE k \in S
    BY <1>2, <2>2
  <2> HIDE DEF S
  <2> QED BY <2>1, <2>2, UpTo
<1>4. r \in [0..n -> V]
  BY <1>3
<1>5. ASSUME NEW k \in 1..n PROVE r[k] = G[k][r[k - 1]]
  <2>1. k \in 0..n /\ k - 1 \in 0..n OBVIOUS
  <2>2. it[1..(k - 1)] \in V BY <1>3, <2>1
  <2> QED BY <1>2, <2>1, <2>2
<1>6. r[0] = base /\ r[n] = it[1..n]
  BY <1>1 DEF FoldsIn
<1> HIDE DEF r
<1> QED BY <1>4, <1>5, <1>6 DEF Runs

-----------------------------------------------------------------------------
(* Where arrows lead: the search of wouldCreateCycle                       *)

\* The set holds what the arrows out of its known members lead to.
Follows(p, set) == \A i \in DOMAIN p.edges : p.edges[i].from \in set \cap Ids(p) => p.edges[i].to \in set

\* One round of the search adds what the arrows lead to.
LEMMA FurtherIn ==
  ASSUME NEW I, NEW p \in ProgramsOver(I), NEW set \in SUBSET I
  PROVE  /\ Further(p, set) = set \cup {p.edges[i].to : i \in {j \in DOMAIN p.edges :
                                           p.edges[j].from \in set \cap Ids(p)}}
         /\ Further(p, set) \in SUBSET I
<1>1. \A i \in DOMAIN p.edges : p.edges[i].to \in I
  BY ProgramFacts
<1>2. Further(p, set) = set \cup {p.edges[i].to : i \in {j \in DOMAIN p.edges :
                                     p.edges[j].from \in set \cap Ids(p)}}
  BY DEF Further, Outgoing
<1> QED BY <1>1, <1>2

\* The search of wouldCreateCycle, round by round.
LEMMA ReachedRun ==
  ASSUME NEW I, NEW p \in ProgramsOver(I), NEW t \in I
  PROVE  \E r \in [0..Len(p.phases) -> SUBSET I] :
           /\ r[0] = {t}
           /\ \A k \in 1..Len(p.phases) : r[k] = Further(p, r[k - 1])
           /\ Reached(p, t) = r[Len(p.phases)]
<1> DEFINE n == Len(p.phases)
           V == SUBSET I
           G == [k \in 1..n |-> [v \in V |-> Further(p, v)]]
           F(it) == [s \in SUBSET (1..n) |-> IF s = {} THEN {t} ELSE Further(p, it[s \ {Max(s)}])]
           it == CHOOSE it : it = F(it)
<1>1. n \in Nat /\ DOMAIN p.phases = 1..n
  BY ProgramFacts
<1>2. \A v \in V : Further(p, v) \in V
  BY FurtherIn
<1>3. G \in [1..n -> [V -> V]] /\ {t} \in V
  BY <1>2
<1>4. \A k \in 1..n, v \in V : G[k][v] = Further(p, v)
  OBVIOUS
<1>5. Reached(p, t) = it[1..n]
  BY <1>1 DEF Reached, FoldLeft, MapThenFoldSet
<1> HIDE DEF n, V, G
<1>6. \E f : f = F(f)
  <2>1. PICK f \in [SUBSET (1..n) -> V] : Folds(f, {t}, n, G)
    <3>1. Steps(V, {t}, n, G) BY <1>1, <1>3 DEF Steps
    <3> QED BY <3>1, FoldExists
  <2>2. ASSUME NEW s \in SUBSET (1..n) PROVE f[s] = IF s = {} THEN {t} ELSE Further(p, f[s \ {Max(s)}])
    <3>1. f[s] = IF s = {} THEN {t} ELSE G[Max(s)][f[s \ {Max(s)}]]
      BY <2>1 DEF Folds
    <3>2. CASE s # {}
      <4>1. Max(s) \in 1..n
        BY <1>1, <3>2, MaxOf
      <4> QED BY <1>4, <3>1, <3>2, <4>1
    <3> QED BY <3>1, <3>2
  <2>3. f = F(f)
    BY <2>2
  <2> QED BY <2>3
<1>7. it = F(it)
  BY <1>6
<1> HIDE DEF it
<1>8. it[{}] = {t}
  BY <1>7
<1>9. ASSUME NEW s \in SUBSET (1..n), s # {}, it[s \ {Max(s)}] \in V
      PROVE  it[s] = G[Max(s)][it[s \ {Max(s)}]]
  <2>1. it[s] = Further(p, it[s \ {Max(s)}])
    BY <1>7, <1>9
  <2>2. Max(s) \in 1..n
    BY <1>1, <1>9, MaxOf
  <2> QED BY <1>4, <1>9, <2>1, <2>2
<1>10. PICK r \in [0..n -> V] : Runs(r, {t}, n, G) /\ it[1..n] = r[n]
  <2>1. Steps(V, {t}, n, G)
    BY <1>1, <1>3 DEF Steps
  <2>2. FoldsIn(V, it, {t}, n, G)
    BY <1>8, <1>9, <2>1 DEF FoldsIn
  <2> QED BY <2>2, FoldRun
<1>11. ASSUME NEW k \in 1..n PROVE r[k] = Further(p, r[k - 1])
  <2>1. k - 1 \in 0..n BY <1>1
  <2> QED BY <1>4, <1>10, <2>1 DEF Runs
<1>12. r[0] = {t}
  BY <1>10 DEF Runs
<1> QED BY <1>5, <1>10, <1>11, <1>12 DEF n, V

\* The search finds what the arrows lead to and nothing else: as many rounds
\* as there are phases are enough, whatever the arrows.
LEMMA ReachedFacts ==
  ASSUME NEW I, NEW p \in ProgramsOver(I), NEW t \in I
  PROVE  /\ t \in Reached(p, t) /\ Reached(p, t) \subseteq I
         /\ Follows(p, Reached(p, t))
         /\ \A set : t \in set /\ Follows(p, set) => Reached(p, t) \subseteq set
<1> DEFINE n == Len(p.phases)
<1>1. PICK r \in [0..n -> SUBSET I] :
           /\ r[0] = {t}
           /\ \A k \in 1..n : r[k] = Further(p, r[k - 1])
           /\ Reached(p, t) = r[n]
  BY ReachedRun
<1>2. n \in Nat
  BY ProgramFacts
<1> HIDE DEF n
<1>3. ASSUME NEW k \in 1..n PROVE k - 1 \in 0..n /\ k \in 0..n
  BY <1>2
<1>4. ASSUME NEW k \in 1..n
      PROVE  r[k] = r[k - 1] \cup {p.edges[i].to : i \in {j \in DOMAIN p.edges :
                                      p.edges[j].from \in r[k - 1] \cap Ids(p)}}
  <2>1. r[k - 1] \in SUBSET I BY <1>3
  <2> QED BY <1>1, <2>1, FurtherIn
<1>5. t \in r[n]
  <2> DEFINE S == {k \in 0..n : t \in r[k]}
  <2>1. 0 \in S BY <1>1, <1>2
  <2>2. ASSUME NEW k \in 1..n, k - 1 \in S PROVE k \in S
    BY <1>3, <1>4, <2>2
  <2>3. 0..n \subseteq S
    <3> HIDE DEF S
    <3> QED BY <1>2, <2>1, <2>2, UpTo
  <2>4. n \in 0..n BY <1>2
  <2> QED BY <2>3, <2>4
<1>6. ASSUME NEW set, t \in set, Follows(p, set) PROVE r[n] \subseteq set
  <2> DEFINE S == {k \in 0..n : r[k] \subseteq set}
  <2>1. 0 \in S BY <1>1, <1>2, <1>6
  <2>2. ASSUME NEW k \in 1..n, k - 1 \in S PROVE k \in S
    <3>1. r[k - 1] \subseteq set BY <2>2
    <3>2. r[k] \subseteq set BY <1>4, <1>6, <3>1 DEF Follows
    <3> QED BY <1>3, <3>2
  <2>3. 0..n \subseteq S
    <3> HIDE DEF S
    <3> QED BY <1>2, <2>1, <2>2, UpTo
  <2>4. n \in 0..n BY <1>2
  <2> QED BY <2>3, <2>4
<1>7. Follows(p, r[n])
  <2>1. CASE t \notin Ids(p)
    <3>1. Follows(p, {t})
      BY <2>1 DEF Follows
    <3>2. r[n] = {t}
      BY <1>5, <1>6, <3>1
    <3> QED BY <3>1, <3>2
  <2>2. CASE t \in Ids(p)
    <3>0. IsFiniteSet(Ids(p)) /\ Cardinality(Ids(p)) <= n /\ Cardinality(Ids(p)) \in Nat
      BY IdFacts DEF n
    <3> DEFINE Known(k) == r[k] \cap Ids(p)
               S == {k \in 0..n : Follows(p, r[k]) \/ Cardinality(Known(k)) >= k + 1}
    <3>1. ASSUME NEW k \in 0..n PROVE IsFiniteSet(Known(k)) /\ Cardinality(Known(k)) \in Nat
                                      /\ Cardinality(Known(k)) <= n
      <4>1. Known(k) \in SUBSET Ids(p) OBVIOUS
      <4> HIDE DEF Known
      <4>2. IsFiniteSet(Known(k)) /\ Cardinality(Known(k)) <= Cardinality(Ids(p))
        BY <3>0, <4>1, FS_Subset
      <4>3. Cardinality(Known(k)) \in Nat BY <4>2, FS_CardinalityType
      <4> QED BY <1>2, <3>0, <4>2, <4>3
    <3>2. 0 \in S
      <4>1. Known(0) = {t} BY <1>1, <2>2
      <4>2. Cardinality({t}) = 1 BY FS_Singleton
      <4>3. Cardinality(Known(0)) = 1
        <5> HIDE DEF Known
        <5> QED BY <4>1, <4>2, Zenon
      <4>5. Cardinality(Known(0)) >= 0 + 1
        <5> HIDE DEF Known
        <5> QED BY <4>3
      <4>4. 0 \in 0..n BY <1>2
      <4> HIDE DEF Known
      <4> QED BY <4>4, <4>5
    <3>3. ASSUME NEW k \in 1..n, k - 1 \in S PROVE k \in S
      <4>0. k \in 0..n /\ k - 1 \in 0..n BY <1>3
      <4>1. CASE Follows(p, r[k - 1])
        <5>1. r[k] = r[k - 1]
          <6>1. \A i \in DOMAIN p.edges :
                  p.edges[i].from \in r[k - 1] \cap Ids(p) => p.edges[i].to \in r[k - 1]
            BY <4>1 DEF Follows
          <6> DEFINE new == {p.edges[i].to : i \in {j \in DOMAIN p.edges :
                                      p.edges[j].from \in r[k - 1] \cap Ids(p)}}
          <6>2. new \subseteq r[k - 1]
            BY <6>1
          <6>3. r[k] = r[k - 1] \cup new
            BY <1>4
          <6> HIDE DEF new
          <6> QED BY <6>2, <6>3
        <5> QED BY <4>0, <4>1, <5>1
      <4>2. CASE Known(k) = Known(k - 1)
        <5>1. Follows(p, r[k]) BY <1>4, <4>2 DEF Follows
        <5> QED BY <4>0, <5>1
      <4>3. CASE Known(k) # Known(k - 1) /\ ~Follows(p, r[k - 1])
        <5>1. Cardinality(Known(k - 1)) >= (k - 1) + 1
          BY <3>3, <4>3
        <5>2. Known(k - 1) \in SUBSET Known(k)
          BY <1>4
        <5> HIDE DEF Known
        <5>3. /\ Cardinality(Known(k - 1)) <= Cardinality(Known(k))
              /\ Cardinality(Known(k)) # Cardinality(Known(k - 1))
          BY <3>1, <4>0, <4>3, <5>2, FS_Subset
        <5>4. Cardinality(Known(k - 1)) \in Nat /\ Cardinality(Known(k)) \in Nat
          BY <3>1, <4>0
        <5>5. Cardinality(Known(k)) >= k + 1
          BY <5>1, <5>3, <5>4
        <5> QED BY <4>0, <5>5
      <4> QED BY <4>1, <4>2, <4>3
    <3>4. n \in S
      <4>1. 0..n \subseteq S
        <5> HIDE DEF S
        <5> QED BY <1>2, <3>2, <3>3, UpTo
      <4>2. n \in 0..n BY <1>2
      <4> QED BY <4>1, <4>2
    <3>5. Follows(p, r[n]) \/ Cardinality(Known(n)) >= n + 1
      BY <3>4
    <3>6. n \in 0..n BY <1>2
    <3> HIDE DEF Known
    <3> QED BY <1>2, <3>1, <3>5, <3>6
  <2> QED BY <2>1, <2>2
<1>8. r[n] \subseteq I
  <2>1. n \in 0..n BY <1>2
  <2> QED BY <2>1
<1> QED BY <1>1, <1>5, <1>6, <1>7, <1>8

-----------------------------------------------------------------------------
(* The loop of ordered_phases and clientTopologicalOrder.                  *)
(*                                                                         *)
(* What a round of the loop keeps: a phase is taken once, after everything *)
(* it waits for, and never while an earlier one could be taken; the counters*)
(* count the arrows it still waits for.                                    *)

\* The arrows into id that do not come from the set.
Waiting(p, set, id) == {i \in DOMAIN p.edges : p.edges[i].to = id /\ p.edges[i].from \notin set}

\* What the sequence holds before its k-th element.
Before(o, k) == {o[j] : j \in 1..(k - 1)}

\* No element of the sequence is repeated.
Injective(o) == \A i, j \in 1..Len(o) : o[i] = o[j] => i = j

\* No phase of the order waits for one that is not before it.
Sorted(p, o) == \A k \in 1..Len(o) : Waiting(p, Before(o, k), o[k]) = {}

\* Each phase of the order is the first in the list that could be taken.
Stable(p, o) == \A k \in 1..Len(o), id \in Ids(p) :
  id \notin Before(o, k) /\ Waiting(p, Before(o, k), id) = {} => Position(p, o[k]) <= Position(p, id)

\* The counters of the loop count the arrows that are not yet taken away.
Counted(p, s) == \A id \in Ids(p) : s.incoming[id] = Cardinality(Waiting(p, ToSet(s.ordered), id))

\* The phases that could be taken after those of o.
Ready(p, o) == {id \in Ids(p) \ ToSet(o) : Waiting(p, ToSet(o), id) = {}}

\* The states the loop can be in: its invariant.
OrderStates(p) ==
  {s \in [incoming : [Ids(p) -> Nat], ready : SUBSET Ids(p), ordered : Seq(Ids(p))] :
     /\ Injective(s.ordered) /\ Sorted(p, s.ordered) /\ Stable(p, s.ordered)
     /\ Counted(p, s) /\ s.ready = Ready(p, s.ordered)}

\* The arrows a phase waits for can be counted.
LEMMA WaitingFinite ==
  ASSUME NEW I, NEW p \in ProgramsOver(I), NEW set, NEW id
  PROVE  /\ IsFiniteSet(Waiting(p, set, id)) /\ Cardinality(Waiting(p, set, id)) \in Nat
         /\ Cardinality(Waiting(p, set, id)) = 0 <=> Waiting(p, set, id) = {}
<1>1. DOMAIN p.edges = 1..Len(p.edges) /\ Len(p.edges) \in Nat
  BY ProgramFacts
<1>2. IsFiniteSet(DOMAIN p.edges)
  <2>1. 1 \in Int /\ Len(p.edges) \in Int
    BY <1>1
  <2>2. IsFiniteSet(1..Len(p.edges))
    BY <2>1, FS_Interval
  <2> QED BY <1>1, <2>2
<1>3. Waiting(p, set, id) \in SUBSET DOMAIN p.edges
  BY DEF Waiting
<1>4. IsFiniteSet(Waiting(p, set, id))
  BY <1>2, <1>3, FS_Subset
<1> QED BY <1>4, FS_CardinalityType, FS_EmptySet

\* The loop starts in such a state.
LEMMA OrderStarts ==
  ASSUME NEW I, NEW p \in ProgramsOver(I)
  PROVE  OrderStart(p) \in OrderStates(p)
<1> DEFINE s == OrderStart(p)
<1>1. ToSet(<<>>) = {}
  BY DEF ToSet
<1>2. \A id : Incoming(p, id) = Cardinality(Waiting(p, {}, id))
  BY DEF Incoming, Waiting
<1>3. s.incoming = [id \in Ids(p) |-> Incoming(p, id)] /\ s.ready = Starts(p) /\ s.ordered = <<>>
  BY DEF OrderStart
<1>4. s.ready = Ready(p, <<>>)
  <2>1. \A id : Incoming(p, id) = 0 <=> Waiting(p, {}, id) = {}
    BY <1>2, WaitingFinite
  <2>2. Starts(p) = {id \in Ids(p) : Waiting(p, {}, id) = {}}
    BY <2>1 DEF Starts
  <2>3. Ready(p, <<>>) = {id \in Ids(p) : Waiting(p, {}, id) = {}}
    BY <1>1 DEF Ready
  <2> QED BY <1>3, <2>2, <2>3
<1>5. Counted(p, s)
  BY <1>1, <1>2, <1>3 DEF Counted
<1>6. Injective(<<>>) /\ Sorted(p, <<>>) /\ Stable(p, <<>>)
  BY DEF Injective, Sorted, Stable
<1>7. s \in [incoming : [Ids(p) -> Nat], ready : SUBSET Ids(p), ordered : Seq(Ids(p))]
  <2>1. \A id : Incoming(p, id) \in Nat
    BY <1>2, WaitingFinite
  <2>2. [id \in Ids(p) |-> Incoming(p, id)] \in [Ids(p) -> Nat]
    BY <2>1
  <2>3. Starts(p) \in SUBSET Ids(p)
    BY DEF Starts
  <2> QED BY <2>2, <2>3 DEF OrderStart
<1> HIDE DEF s
<1>8. Injective(s.ordered) /\ Sorted(p, s.ordered) /\ Stable(p, s.ordered)
  BY <1>3, <1>6
<1>9. s.ready = Ready(p, s.ordered)
  BY <1>3, <1>4
<1>10. s \in OrderStates(p)
  BY <1>5, <1>7, <1>8, <1>9 DEF OrderStates
<1> QED BY <1>10 DEF s

\* An element more at the end of a sequence.
LEMMA AppendOrder ==
  ASSUME NEW S, NEW o \in Seq(S), NEW c \in S
  PROVE  LET a == Append(o, c) IN
         /\ a \in Seq(S) /\ Len(a) = Len(o) + 1 /\ Len(o) \in Nat
         /\ \A k \in 1..Len(o) : a[k] = o[k] /\ Before(a, k) = Before(o, k)
         /\ a[Len(o) + 1] = c /\ Before(a, Len(o) + 1) = ToSet(o)
         /\ ToSet(a) = ToSet(o) \cup {c}
<1> DEFINE a == Append(o, c)
<1>1. a \in Seq(S) /\ Len(a) = Len(o) + 1 /\ Len(o) \in Nat
  OBVIOUS
<1>2. \A k \in 1..Len(o) : a[k] = o[k]
  OBVIOUS
<1>3. a[Len(o) + 1] = c
  OBVIOUS
<1>4. DOMAIN o = 1..Len(o) /\ DOMAIN a = 1..(Len(o) + 1)
  OBVIOUS
<1> HIDE DEF a
<1>5. ASSUME NEW k \in 1..Len(o) PROVE Before(a, k) = Before(o, k)
  <2>1. \A j \in 1..(k - 1) : a[j] = o[j]
    BY <1>1, <1>2
  <2> QED BY <2>1 DEF Before
<1>6. Before(a, Len(o) + 1) = ToSet(o)
  <2>1. 1..((Len(o) + 1) - 1) = 1..Len(o)
    BY <1>1
  <2> QED BY <1>2, <1>4, <2>1 DEF Before, ToSet
<1>7. ToSet(a) = ToSet(o) \cup {c}
  <2>1. 1..(Len(o) + 1) = 1..Len(o) \cup {Len(o) + 1}
    BY <1>1
  <2> QED BY <1>2, <1>3, <1>4, <2>1 DEF ToSet
<1> QED BY <1>1, <1>2, <1>3, <1>5, <1>6, <1>7 DEF a

\* The choice of the next phase picks the first of the list that is ready.
LEMMA Chosen ==
  ASSUME NEW I, NEW p \in ProgramsOver(I), NEW ready \in SUBSET Ids(p), ready # {}
  PROVE  LET c == CHOOSE id \in ready : \A other \in ready : Position(p, id) <= Position(p, other)
         IN  c \in ready /\ \A other \in ready : Position(p, c) <= Position(p, other)
<1> DEFINE T == {Position(p, id) : id \in ready}
<1>1. T \subseteq Nat /\ T # {}
  BY PositionFacts
<1>2. PICK x \in T : \A y \in T : x <= y
  <2> HIDE DEF T
  <2> QED BY <1>1, Least
<1>3. \E id \in ready : \A other \in ready : Position(p, id) <= Position(p, other)
  BY <1>2
<1> QED BY <1>3

\* A round of the loop keeps its invariant.
LEMMA TakeState ==
  ASSUME NEW I, NEW p \in ProgramsOver(I), KnownEdges(p),
         NEW s \in OrderStates(p), s.ready # {}
  PROVE  Take(p, s) \in OrderStates(p) /\ Len(Take(p, s).ordered) = Len(s.ordered) + 1
<1> DEFINE o == s.ordered
           c == CHOOSE id \in s.ready : \A other \in s.ready : Position(p, id) <= Position(p, other)
           left == [id \in DOMAIN s.incoming |-> s.incoming[id]
                 - Cardinality({i \in DOMAIN p.edges : p.edges[i] = [from |-> c, to |-> id]})]
           a == Append(o, c)
           ready == (s.ready \ {c}) \cup {id \in Outgoing(p, c) : left[id] = 0}
           t == Take(p, s)
<1>1. t = [incoming |-> left, ready |-> ready, ordered |-> a]
  BY DEF Take
<1>2. /\ s.incoming \in [Ids(p) -> Nat] /\ s.ready \in SUBSET Ids(p) /\ o \in Seq(Ids(p))
      /\ Injective(o) /\ Sorted(p, o) /\ Stable(p, o) /\ Counted(p, s) /\ s.ready = Ready(p, o)
  BY DEF OrderStates
<1>3. c \in s.ready /\ \A other \in s.ready : Position(p, c) <= Position(p, other)
  BY <1>2, Chosen
<1> HIDE DEF c
<1>4. c \in Ids(p) /\ c \notin ToSet(o) /\ Waiting(p, ToSet(o), c) = {}
  BY <1>2, <1>3 DEF Ready
<1>5. /\ a \in Seq(Ids(p)) /\ Len(a) = Len(o) + 1 /\ Len(o) \in Nat
      /\ \A k \in 1..Len(o) : a[k] = o[k] /\ Before(a, k) = Before(o, k)
      /\ a[Len(o) + 1] = c /\ Before(a, Len(o) + 1) = ToSet(o)
      /\ ToSet(a) = ToSet(o) \cup {c}
  <2> HIDE DEF o
  <2> QED BY <1>2, <1>4, AppendOrder
<1>6. DOMAIN o = 1..Len(o)
  BY <1>2, LenProperties
<1> HIDE DEF a
<1>7. \A k \in 1..Len(a) : k \in 1..Len(o) \/ k = Len(o) + 1
  BY <1>5
<1>8. Injective(a)
  <2>1. \A k \in 1..Len(o) : o[k] \in ToSet(o)
    BY <1>6 DEF ToSet
  <2>2. \A k \in 1..Len(o) : a[k] # c
    BY <1>4, <1>5, <2>1
  <2> QED BY <1>2, <1>5, <1>7, <2>2 DEF Injective
<1>9. Sorted(p, a)
  BY <1>2, <1>4, <1>5, <1>7 DEF Sorted
<1>10. Stable(p, a)
  <2> SUFFICES ASSUME NEW k \in 1..Len(a), NEW id \in Ids(p),
                      id \notin Before(a, k), Waiting(p, Before(a, k), id) = {}
               PROVE  Position(p, a[k]) <= Position(p, id)
    BY DEF Stable
  <2>1. CASE k \in 1..Len(o)
    BY <1>2, <1>5, <2>1 DEF Stable
  <2>2. CASE k = Len(o) + 1
    <3>1. id \in s.ready
      BY <1>2, <1>5, <2>2 DEF Ready
    <3> QED BY <1>3, <1>5, <2>2, <3>1
  <2> QED BY <1>7, <2>1, <2>2
<1>11. ASSUME NEW id \in Ids(p)
       PROVE  left[id] = Cardinality(Waiting(p, ToSet(a), id)) /\ left[id] \in Nat
  <2> DEFINE D == {i \in DOMAIN p.edges : p.edges[i] = [from |-> c, to |-> id]}
             W == Waiting(p, ToSet(a), id)
  <2>1. \A i \in DOMAIN p.edges : p.edges[i] = [from |-> c, to |-> id] <=>
                                    p.edges[i].from = c /\ p.edges[i].to = id
    <3> TAKE i \in DOMAIN p.edges
    <3>1. p.edges[i] \in [from : I, to : I] BY ProgramFacts
    <3>2. p.edges[i] = [from |-> p.edges[i].from, to |-> p.edges[i].to] BY <3>1
    <3> QED BY <3>2
  <2>2. Waiting(p, ToSet(o), id) = W \cup D /\ W \cap D = {}
    BY <1>4, <1>5, <2>1 DEF Waiting
  <2>3. IsFiniteSet(W) /\ Cardinality(W) \in Nat
    BY WaitingFinite
  <2>4. IsFiniteSet(D)
    <3>1. IsFiniteSet(Waiting(p, ToSet(o), id)) BY WaitingFinite
    <3>2. D \in SUBSET Waiting(p, ToSet(o), id) BY <2>2
    <3> QED BY <3>1, <3>2, FS_Subset
  <2>5. left[id] = s.incoming[id] - Cardinality(D)
    BY <1>2
  <2>6. s.incoming[id] = Cardinality(Waiting(p, ToSet(o), id))
    BY <1>2 DEF Counted
  <2> HIDE DEF D, W, left
  <2>7. Cardinality(W \cup D) = Cardinality(W) + Cardinality(D) - Cardinality(W \cap D)
    BY <2>3, <2>4, FS_Union
  <2>8. Cardinality(W \cap D) = 0
    BY <2>2, FS_EmptySet
  <2>9. Cardinality(D) \in Nat
    BY <2>4, FS_CardinalityType
  <2>10. left[id] = Cardinality(W)
    BY <2>2, <2>3, <2>5, <2>6, <2>7, <2>8, <2>9
  <2> QED BY <2>3, <2>10 DEF W
<1>12. left \in [Ids(p) -> Nat]
  <2>1. left = [id \in Ids(p) |-> left[id]]
    BY <1>2
  <2> HIDE DEF left
  <2> QED BY <1>11, <2>1
<1>13. Outgoing(p, c) \subseteq Ids(p)
  BY DEF Outgoing, KnownEdges
<1> HIDE DEF left
<1>14. ready = Ready(p, a)
  <2>1. ASSUME NEW id \in Ids(p) PROVE left[id] = 0 <=> Waiting(p, ToSet(a), id) = {}
    BY <1>11, WaitingFinite
  <2>2. ASSUME NEW id \in ready PROVE id \in Ready(p, a)
    <3>1. CASE id \in s.ready \ {c}
      <4>1. id \in Ids(p) /\ id \notin ToSet(a) BY <1>2, <1>5, <3>1 DEF Ready
      <4>2. Waiting(p, ToSet(a), id) = {} BY <1>2, <1>5, <3>1 DEF Ready, Waiting
      <4> QED BY <4>1, <4>2 DEF Ready
    <3>2. CASE id \in Outgoing(p, c) /\ left[id] = 0
      <4>1. id \in Ids(p) BY <1>13, <3>2
      <4>2. PICK i \in DOMAIN p.edges : p.edges[i].from = c /\ p.edges[i].to = id
        BY <3>2 DEF Outgoing
      <4>3. id # c BY <1>4, <4>2 DEF Waiting
      <4>4. id \notin ToSet(o)
        <5> SUFFICES ASSUME id \in ToSet(o) PROVE FALSE OBVIOUS
        <5>1. PICK k \in 1..Len(o) : o[k] = id BY <1>6 DEF ToSet
        <5>2. i \notin Waiting(p, Before(o, k), o[k]) BY <1>2, <5>1 DEF Sorted
        <5>3. c \in Before(o, k) BY <4>2, <5>1, <5>2 DEF Waiting
        <5>4. Before(o, k) \subseteq ToSet(o)
          <6>1. \A j \in 1..(k - 1) : j \in 1..Len(o) BY <1>5, <5>1
          <6>2. ToSet(o) = {o[j] : j \in 1..Len(o)} BY <1>6 DEF ToSet
          <6> QED BY <6>1, <6>2 DEF Before
        <5> QED BY <1>4, <5>3, <5>4
      <4> QED BY <1>5, <2>1, <3>2, <4>1, <4>3, <4>4 DEF Ready
    <3> QED BY <2>2, <3>1, <3>2
  <2>3. ASSUME NEW id \in Ready(p, a) PROVE id \in ready
    <3>1. id \in Ids(p) /\ id \notin ToSet(o) /\ id # c /\ left[id] = 0 /\ Waiting(p, ToSet(a), id) = {}
      BY <1>5, <2>1, <2>3 DEF Ready
    <3>2. CASE \E i \in DOMAIN p.edges : p.edges[i].from = c /\ p.edges[i].to = id
      <4>1. id \in Outgoing(p, c) BY <3>2 DEF Outgoing
      <4> QED BY <3>1, <4>1
    <3>3. CASE ~\E i \in DOMAIN p.edges : p.edges[i].from = c /\ p.edges[i].to = id
      <4>1. Waiting(p, ToSet(o), id) = {} BY <1>5, <3>1, <3>3 DEF Waiting
      <4>2. id \in s.ready BY <1>2, <3>1, <4>1 DEF Ready
      <4> QED BY <3>1, <4>2
    <3> QED BY <3>2, <3>3
  <2> HIDE DEF ready
  <2> QED BY <2>2, <2>3
<1>15. ready \in SUBSET Ids(p)
  BY <1>14 DEF Ready
<1> HIDE DEF ready, t
<1>16. t.incoming = left /\ t.ready = ready /\ t.ordered = a
  BY <1>1
<1>17. Counted(p, t)
  BY <1>11, <1>16 DEF Counted
<1>18. t \in [incoming : [Ids(p) -> Nat], ready : SUBSET Ids(p), ordered : Seq(Ids(p))]
  BY <1>1, <1>5, <1>12, <1>15
<1>19. t \in OrderStates(p)
  BY <1>8, <1>9, <1>10, <1>14, <1>16, <1>17, <1>18 DEF OrderStates
<1> QED BY <1>5, <1>16, <1>19 DEF t

\* The order is what the loop has taken after as many rounds as there are phases.
LEMMA OrderRun ==
  ASSUME NEW I, NEW p \in ProgramsOver(I), KnownEdges(p)
  PROVE  \E r \in [0..Len(p.phases) -> OrderStates(p)] :
           /\ r[0] = OrderStart(p)
           /\ \A k \in 1..Len(p.phases) : r[k] = Round(p, r[k - 1])
           /\ DependencyOrder(p) = r[Len(p.phases)].ordered
<1> DEFINE n == Len(p.phases)
           V == OrderStates(p)
           G == [k \in 1..n |-> [v \in V |-> Round(p, v)]]
           F(it) == [s \in SUBSET (1..n) |-> IF s = {} THEN OrderStart(p) ELSE Round(p, it[s \ {Max(s)}])]
           it == CHOOSE it : it = F(it)
<1>1. n \in Nat /\ DOMAIN p.phases = 1..n
  BY ProgramFacts
<1>2. \A v \in V : Round(p, v) \in V
  BY TakeState DEF Round
<1>3. G \in [1..n -> [V -> V]] /\ OrderStart(p) \in V
  BY <1>2, OrderStarts
<1>4. \A k \in 1..n, v \in V : G[k][v] = Round(p, v)
  OBVIOUS
<1>5. DependencyOrder(p) = it[1..n].ordered
  BY <1>1 DEF DependencyOrder, FoldLeft, MapThenFoldSet
<1> HIDE DEF n, V, G
<1>6. \E f : f = F(f)
  <2>1. PICK f \in [SUBSET (1..n) -> V] : Folds(f, OrderStart(p), n, G)
    <3>1. Steps(V, OrderStart(p), n, G) BY <1>1, <1>3 DEF Steps
    <3> QED BY <3>1, FoldExists
  <2>2. ASSUME NEW s \in SUBSET (1..n)
        PROVE  f[s] = IF s = {} THEN OrderStart(p) ELSE Round(p, f[s \ {Max(s)}])
    <3>1. f[s] = IF s = {} THEN OrderStart(p) ELSE G[Max(s)][f[s \ {Max(s)}]]
      BY <2>1 DEF Folds
    <3>2. CASE s # {}
      <4>1. Max(s) \in 1..n
        BY <1>1, <3>2, MaxOf
      <4> QED BY <1>4, <3>1, <3>2, <4>1
    <3> QED BY <3>1, <3>2
  <2>3. f = F(f)
    BY <2>2
  <2> QED BY <2>3
<1>7. it = F(it)
  BY <1>6
<1> HIDE DEF it
<1>8. it[{}] = OrderStart(p)
  BY <1>7
<1>9. ASSUME NEW s \in SUBSET (1..n), s # {}, it[s \ {Max(s)}] \in V
      PROVE  it[s] = G[Max(s)][it[s \ {Max(s)}]]
  <2>1. it[s] = Round(p, it[s \ {Max(s)}])
    BY <1>7, <1>9
  <2>2. Max(s) \in 1..n
    BY <1>1, <1>9, MaxOf
  <2> QED BY <1>4, <1>9, <2>1, <2>2
<1>10. PICK r \in [0..n -> V] : Runs(r, OrderStart(p), n, G) /\ it[1..n] = r[n]
  <2>1. Steps(V, OrderStart(p), n, G)
    BY <1>1, <1>3 DEF Steps
  <2>2. FoldsIn(V, it, OrderStart(p), n, G)
    BY <1>8, <1>9, <2>1 DEF FoldsIn
  <2> QED BY <2>2, FoldRun
<1>11. ASSUME NEW k \in 1..n PROVE r[k] = Round(p, r[k - 1])
  <2>1. k - 1 \in 0..n BY <1>1
  <2> QED BY <1>4, <1>10, <2>1 DEF Runs
<1>12. r[0] = OrderStart(p)
  BY <1>10 DEF Runs
<1> QED BY <1>5, <1>10, <1>11, <1>12 DEF n, V

\* A sequence without repetition is as long as the set exactly when it covers it.
LEMMA SequenceCovers ==
  ASSUME NEW S, IsFiniteSet(S), NEW o \in Seq(S), Injective(o)
  PROVE  /\ Len(o) <= Cardinality(S) /\ Cardinality(S) \in Nat
         /\ Len(o) = Cardinality(S) <=> ToSet(o) = S
<1>1. Len(o) \in Nat /\ o \in [1..Len(o) -> S] /\ DOMAIN o = 1..Len(o)
  BY LenProperties
<1>2. IsFiniteSet(1..Len(o)) /\ Cardinality(1..Len(o)) = Len(o)
  BY <1>1, FS_Interval
<1>3. o \in Injection(1..Len(o), S)
  BY <1>1 DEF Injection, IsInjective, Injective
<1>4. /\ Cardinality(1..Len(o)) <= Cardinality(S)
      /\ Cardinality(1..Len(o)) = Cardinality(S) <=> o \in Surjection(1..Len(o), S)
  BY <1>3, FS_Injection
<1>5. o \in Surjection(1..Len(o), S) <=> ToSet(o) = S
  BY <1>1 DEF Surjection, ToSet
<1> QED BY <1>2, <1>4, <1>5, FS_CardinalityType

\* What the loop returns: no phase twice, each after those it waits for and in
\* the author's order otherwise, and all but those that wait for one left out.
LEMMA OrderFacts ==
  ASSUME NEW I, NEW p \in ProgramsOver(I), KnownEdges(p)
  PROVE  LET o == DependencyOrder(p) IN
         /\ o \in Seq(Ids(p)) /\ Injective(o) /\ Sorted(p, o) /\ Stable(p, o)
         /\ \A id \in Ids(p) \ ToSet(o) : Waiting(p, ToSet(o), id) # {}
<1> DEFINE n == Len(p.phases)
<1>1. PICK r \in [0..n -> OrderStates(p)] :
           /\ r[0] = OrderStart(p)
           /\ \A k \in 1..n : r[k] = Round(p, r[k - 1])
           /\ DependencyOrder(p) = r[n].ordered
  BY OrderRun
<1>2. n \in Nat
  BY ProgramFacts
<1>0. IsFiniteSet(Ids(p)) /\ Cardinality(Ids(p)) <= n /\ Cardinality(Ids(p)) \in Nat
  BY IdFacts
<1> HIDE DEF n
<1> DEFINE Done(k) == r[k].ready = {} \/ Len(r[k].ordered) = k
           S == {k \in 0..n : Done(k)}
<1>3. 0 \in S
  <2>1. r[0].ordered = <<>> BY <1>1 DEF OrderStart
  <2> QED BY <1>2, <2>1
<1>4. ASSUME NEW k \in 1..n, k - 1 \in S PROVE k \in S
  <2>1. k - 1 \in 0..n /\ k \in 0..n BY <1>2
  <2>2. r[k] = Round(p, r[k - 1]) /\ r[k - 1] \in OrderStates(p) BY <1>1, <2>1
  <2>3. CASE r[k - 1].ready = {}
    BY <2>1, <2>2, <2>3 DEF Round
  <2>4. CASE r[k - 1].ready # {}
    <3>1. r[k] = Take(p, r[k - 1]) BY <2>2, <2>4 DEF Round
    <3>2. Len(r[k].ordered) = Len(r[k - 1].ordered) + 1 BY <2>2, <2>4, <3>1, TakeState
    <3>3. Len(r[k - 1].ordered) = k - 1 BY <1>4, <2>4
    <3>4. Len(r[k].ordered) = k BY <3>2, <3>3
    <3> QED BY <2>1, <3>4
  <2> QED BY <2>3, <2>4
<1>5. Done(n)
  <2>1. 0..n \subseteq S
    <3> HIDE DEF S
    <3> QED BY <1>2, <1>3, <1>4, UpTo
  <2>2. n \in 0..n BY <1>2
  <2> HIDE DEF Done
  <2> QED BY <2>1, <2>2
<1>6. r[n] \in OrderStates(p)
  <2>1. n \in 0..n BY <1>2
  <2> QED BY <2>1
<1>7. /\ r[n].ordered \in Seq(Ids(p)) /\ Injective(r[n].ordered)
      /\ Sorted(p, r[n].ordered) /\ Stable(p, r[n].ordered)
      /\ r[n].ready = Ready(p, r[n].ordered)
  BY <1>6 DEF OrderStates
<1>8. r[n].ready = {}
  <2>1. CASE Len(r[n].ordered) = n
    <3>1. Len(r[n].ordered) <= Cardinality(Ids(p))
      BY <1>0, <1>7, SequenceCovers
    <3>2. Len(r[n].ordered) = Cardinality(Ids(p))
      BY <1>0, <1>2, <2>1, <3>1
    <3>3. ToSet(r[n].ordered) = Ids(p)
      BY <1>0, <1>7, <3>2, SequenceCovers
    <3> QED BY <1>7, <3>3 DEF Ready
  <2> QED BY <1>5, <2>1
<1> QED BY <1>1, <1>7, <1>8 DEF Ready

\* Every set of phases has one that no arrow enters from within the set.
Acyclic(p) == \A U \in SUBSET Ids(p) : U # {} =>
  \E u \in U : \A i \in DOMAIN p.edges : p.edges[i].to = u => p.edges[i].from \notin U

\* Counting the ordered phases finds loops: all are ordered exactly when there
\* is none.
LEMMA OrderedIffAcyclic ==
  ASSUME NEW I, NEW p \in ProgramsOver(I), KnownEdges(p), Unique(IdsOf(p))
  PROVE  /\ Len(DependencyOrder(p)) = Len(p.phases) <=> Acyclic(p)
         /\ Acyclic(p) => ToSet(DependencyOrder(p)) = Ids(p)
<1> DEFINE o == DependencyOrder(p)
<1>1. /\ o \in Seq(Ids(p)) /\ Injective(o) /\ Sorted(p, o)
      /\ \A id \in Ids(p) \ ToSet(o) : Waiting(p, ToSet(o), id) # {}
  BY OrderFacts
<1>2. Len(o) \in Nat /\ DOMAIN o = 1..Len(o)
  BY <1>1, LenProperties
<1>3. IsFiniteSet(Ids(p)) /\ Cardinality(Ids(p)) = Len(p.phases)
  BY IdFacts, UniqueIds
<1> HIDE DEF o
<1>4. Len(o) = Len(p.phases) <=> ToSet(o) = Ids(p)
  BY <1>1, <1>3, SequenceCovers
<1>5. ASSUME Acyclic(p) PROVE ToSet(o) = Ids(p)
  <2> DEFINE U == Ids(p) \ ToSet(o)
  <2>1. ToSet(o) \subseteq Ids(p)
    BY <1>1, <1>2, ElementOfSeq DEF ToSet
  <2>2. CASE U # {}
    <3>1. PICK u \in U : \A i \in DOMAIN p.edges : p.edges[i].to = u => p.edges[i].from \notin U
      BY <1>5, <2>2 DEF Acyclic
    <3>2. PICK i \in DOMAIN p.edges : p.edges[i].to = u /\ p.edges[i].from \notin ToSet(o)
      BY <1>1 DEF Waiting
    <3>3. p.edges[i].from \in Ids(p)
      BY DEF KnownEdges
    <3> QED BY <3>1, <3>2, <3>3
  <2> QED BY <2>1, <2>2
<1>6. ASSUME ToSet(o) = Ids(p) PROVE Acyclic(p)
  <2> SUFFICES ASSUME NEW U \in SUBSET Ids(p), U # {}
               PROVE  \E u \in U : \A i \in DOMAIN p.edges : p.edges[i].to = u => p.edges[i].from \notin U
    BY DEF Acyclic
  <2> DEFINE T == {k \in 1..Len(o) : o[k] \in U}
  <2>1. T \subseteq Nat /\ T # {}
    BY <1>2, <1>6 DEF ToSet
  <2>2. PICK k \in T : \A j \in T : k <= j
    <3> HIDE DEF T
    <3> QED BY <2>1, Least
  <2>3. ASSUME NEW i \in DOMAIN p.edges, p.edges[i].to = o[k] PROVE p.edges[i].from \notin U
    <3>1. i \notin Waiting(p, Before(o, k), o[k])
      BY <1>1 DEF Sorted
    <3>2. PICK j \in 1..(k - 1) : o[j] = p.edges[i].from
      BY <2>3, <3>1 DEF Waiting, Before
    <3>3. j \in 1..Len(o) /\ ~(k <= j)
      BY <1>2
    <3> QED BY <2>2, <3>2, <3>3
  <2> QED BY <2>3
<1> QED BY <1>4, <1>5, <1>6 DEF o

-----------------------------------------------------------------------------
(* The order is the stable one                                             *)

\* The reference's permutations.
LEMMA PermutedFacts ==
  ASSUME NEW n \in 1..PhaseLimit
  PROVE  Permuted[n] = {f \in [1..n -> 1..n] : Injective(f)}
<1>1. n \in Nat
  BY LimitsAssumption
<1>2. ASSUME NEW f \in [1..n -> 1..n] PROVE Unique(f) <=> Injective(f)
  <2>1. f \in Seq(1..n) /\ Len(f) = n
    BY <1>1
  <2> QED BY <2>1, UniqueInjective DEF Injective
<1>3. Permuted[n] = {f \in [1..n -> 1..n] : Unique(f)}
  BY DEF Permuted
<1> QED BY <1>2, <1>3

\* What an order of the reference is.
LEMMA GivenOrder ==
  ASSUME NEW I, NEW p \in ProgramsOver(I), Unique(IdsOf(p)), FieldLimits(p), NEW g \in OrdersOf(p)
  PROVE  /\ g \in [1..Len(p.phases) -> 1..Len(p.phases)]
         /\ \A i, j \in 1..Len(p.phases) : g[i] = g[j] => i = j
         /\ \A i \in DOMAIN p.edges : \E s, t \in 1..Len(p.phases) :
              p.phases[g[s]].id = p.edges[i].from /\ p.phases[g[t]].id = p.edges[i].to /\ s < t
<1> DEFINE n == Len(p.phases)
<1>1. n \in 1..PhaseLimit /\ n \in Nat
  BY LimitsAssumption DEF FieldLimits
<1>2. g \in Permuted[n] /\ \A i \in DOMAIN p.edges : \E s, t \in DOMAIN g :
              p.phases[g[s]].id = p.edges[i].from /\ p.phases[g[t]].id = p.edges[i].to /\ s < t
  BY DEF OrdersOf
<1> HIDE DEF n
<1>3. g \in [1..n -> 1..n] /\ Injective(g)
  BY <1>1, <1>2, PermutedFacts
<1>4. DOMAIN g = 1..n /\ Len(g) = n
  BY <1>1, <1>3
<1> QED BY <1>2, <1>3, <1>4 DEF Injective, n

\* Of the orders that respect the arrows, the loop computes the first.
LEMMA OrderPositions ==
  ASSUME NEW I, NEW p \in ProgramsOver(I), Unique(IdsOf(p)), KnownEdges(p), FieldLimits(p), Acyclic(p)
  PROVE  LET f == [i \in DOMAIN p.phases |-> Position(p, DependencyOrder(p)[i])]
         IN  f \in OrdersOf(p) /\ \A g \in OrdersOf(p) : ~Earlier(g, f)
<1> DEFINE n == Len(p.phases)
           o == DependencyOrder(p)
           f == [i \in DOMAIN p.phases |-> Position(p, o[i])]
<1>1. n \in 1..PhaseLimit /\ n \in Nat /\ DOMAIN p.phases = 1..n
  BY LimitsAssumption, ProgramFacts DEF FieldLimits
<1>2. o \in Seq(Ids(p)) /\ Injective(o) /\ Sorted(p, o) /\ Stable(p, o)
  BY OrderFacts
<1>3. Len(o) = n /\ ToSet(o) = Ids(p)
  BY OrderedIffAcyclic
<1>4. DOMAIN o = 1..n /\ \A i \in 1..n : o[i] \in Ids(p)
  BY <1>2, <1>3, LenProperties, ElementOfSeq
<1> HIDE DEF o
<1>5. \A i \in 1..n : f[i] \in 1..n /\ p.phases[f[i]].id = o[i] /\ f[i] = Position(p, o[i])
  BY <1>1, <1>4, PositionFacts
<1>6. f \in [1..n -> 1..n]
  BY <1>1, <1>5
<1> HIDE DEF f, n
<1>7. Injective(f)
  <2>1. Len(f) = n BY <1>1, <1>6
  <2> QED BY <1>2, <1>3, <1>5, <2>1 DEF Injective
<1>8. ASSUME NEW i \in DOMAIN p.edges
      PROVE  \E s, t \in 1..n : p.phases[f[s]].id = p.edges[i].from /\ p.phases[f[t]].id = p.edges[i].to /\ s < t
  <2>1. p.edges[i].to \in Ids(p)
    BY DEF KnownEdges
  <2>2. PICK t \in 1..n : o[t] = p.edges[i].to
    BY <1>3, <1>4, <2>1 DEF ToSet
  <2>3. i \notin Waiting(p, Before(o, t), o[t])
    BY <1>2, <1>3 DEF Sorted
  <2>4. PICK s \in 1..(t - 1) : o[s] = p.edges[i].from
    BY <2>2, <2>3 DEF Waiting, Before
  <2>5. s \in 1..n /\ s < t
    BY <1>1
  <2> QED BY <1>5, <2>2, <2>4, <2>5
<1>9. f \in OrdersOf(p)
  <2>1. f \in Permuted[n]
    BY <1>1, <1>6, <1>7, PermutedFacts
  <2>2. DOMAIN f = 1..n
    BY <1>6
  <2> QED BY <1>8, <2>1, <2>2 DEF OrdersOf, n
<1>10. ASSUME NEW g \in OrdersOf(p), Earlier(g, f) PROVE FALSE
  <2>1. /\ g \in [1..n -> 1..n]
        /\ \A i, j \in 1..n : g[i] = g[j] => i = j
        /\ \A i \in DOMAIN p.edges : \E s, t \in 1..n :
              p.phases[g[s]].id = p.edges[i].from /\ p.phases[g[t]].id = p.edges[i].to /\ s < t
    BY GivenOrder DEF n
  <2>2. PICK i \in 1..n : g[i] < f[i] /\ \A j \in 1..(i - 1) : g[j] = f[j]
    BY <1>10, <2>1 DEF Earlier
  <2> DEFINE id == p.phases[g[i]].id
  <2>3. \A j, k \in 1..n : p.phases[j].id = p.phases[k].id => j = k
    BY <1>1, UniqueIds
  <2>4. id \in Ids(p) /\ Position(p, id) = g[i]
    <3>1. g[i] \in 1..n BY <2>1
    <3>2. id \in Ids(p) BY <1>1, <3>1, IdFacts
    <3>3. Position(p, id) \in 1..n /\ p.phases[Position(p, id)].id = id
      BY <3>2, PositionFacts DEF n
    <3> QED BY <2>3, <3>1, <3>2, <3>3
  <2>5. \A j \in 1..(i - 1) : j \in 1..n /\ j # i
    BY <1>1
  <2>6. id \notin Before(o, i)
    <3> SUFFICES ASSUME NEW j \in 1..(i - 1), o[j] = id PROVE FALSE
      BY DEF Before
    <3>1. f[j] = g[i] BY <1>5, <2>4, <2>5
    <3>2. g[j] = g[i] BY <2>2, <3>1
    <3> QED BY <2>1, <2>5, <3>2
  <2>7. Waiting(p, Before(o, i), id) = {}
    <3> SUFFICES ASSUME NEW e \in DOMAIN p.edges, p.edges[e].to = id PROVE p.edges[e].from \in Before(o, i)
      BY DEF Waiting
    <3>1. PICK s, t \in 1..n :
              p.phases[g[s]].id = p.edges[e].from /\ p.phases[g[t]].id = p.edges[e].to /\ s < t
      BY <2>1
    <3>2. g[t] \in 1..n /\ g[i] \in 1..n BY <2>1
    <3>3. g[t] = g[i] BY <2>3, <3>1, <3>2
    <3>4. t = i BY <2>1, <3>3
    <3>5. s \in 1..(i - 1) BY <3>1, <3>4
    <3>6. g[s] = f[s] BY <2>2, <3>5
    <3>7. p.edges[e].from = o[s] BY <1>5, <3>1, <3>6
    <3> QED BY <3>5, <3>7 DEF Before
  <2>8. Position(p, o[i]) <= g[i]
    BY <1>2, <1>3, <2>4, <2>6, <2>7 DEF Stable
  <2>9. f[i] <= g[i] BY <1>5, <2>8
  <2> QED BY <1>6, <2>1, <2>2, <2>9
<1> QED BY <1>9, <1>10 DEF f, o

\* A program without arrows has nothing to complain about.
LEMMA NoEdges ==
  ASSUME NEW I, NEW p \in ProgramsOver(I), p.edges = <<>>
  PROVE  KnownEdges(p) /\ Unique(p.edges) /\ Acyclic(p) /\ NoSelfEdge(p) /\ Starts(p) = Ids(p)
<1>1. DOMAIN p.edges = {}
  OBVIOUS
<1>2. KnownEdges(p) /\ Acyclic(p) /\ NoSelfEdge(p)
  BY <1>1 DEF KnownEdges, Acyclic, NoSelfEdge
<1>3. Unique(p.edges)
  BY <1>1, EdgeUnique
<1>4. \A id : Incoming(p, id) = 0
  <2>1. \A id : {i \in DOMAIN p.edges : p.edges[i].to = id} = {}
    BY <1>1
  <2> QED BY <2>1, FS_EmptySet DEF Incoming
<1> QED BY <1>2, <1>3, <1>4 DEF Starts

\* What an accepted program has.
LEMMA AcceptedClean ==
  ASSUME NEW I, NEW p \in ProgramsOver(I), Accepted(p)
  PROVE  /\ FieldLimits(p) /\ Unique(IdsOf(p)) /\ Works(p) # {}
         /\ KnownEdges(p) /\ NoSelfEdge(p) /\ Unique(p.edges) /\ Acyclic(p)
<1>1. FieldLimits(p) /\ Unique(IdsOf(p)) /\ Orderable(p)
  BY DEF Accepted
<1>2. Works(p) # {}
  BY DEF Accepted, Works
<1>3. CASE p.edges = <<>>
  BY <1>1, <1>2, <1>3, NoEdges
<1>4. CASE p.edges # <<>>
  <2>1. Unique(p.edges) /\ KnownEdges(p) /\ NoSelfEdge(p) /\ Len(DependencyOrder(p)) = Len(p.phases)
    BY <1>1, <1>4 DEF Orderable
  <2> QED BY <1>1, <1>2, <2>1, OrderedIffAcyclic
<1> QED BY <1>3, <1>4

\* ordered_phases returns, for every accepted program with arrows, the order
\* that keeps the author's list order longest among all the orders that respect
\* the arrows: the "stable dependency order" its docstring promises.
THEOREM ServerOrderIsStable ==
  ASSUME NEW I, program \in ProgramsOver(I)
  PROVE  StableOrder
<1> SUFFICES ASSUME Accepted(program), program.edges # <<>>
             PROVE  LET f == [i \in DOMAIN program.phases |-> Position(program, ordered_phases(program)[i])]
                    IN  f \in OrdersOf(program) /\ \A g \in OrdersOf(program) : ~Earlier(g, f)
  BY DEF StableOrder
<1>1. ordered_phases(program) = DependencyOrder(program)
  BY DEF ordered_phases
<1> QED BY <1>1, AcceptedClean, OrderPositions

-----------------------------------------------------------------------------
(* What is rejected                                                        *)

\* Starting nodes are the phases without an arrow into them.
LEMMA StartFacts ==
  ASSUME NEW I, NEW p \in ProgramsOver(I)
  PROVE  /\ Starts(p) = {id \in Ids(p) : \A i \in DOMAIN p.edges : p.edges[i].to # id}
         /\ IsFiniteSet(Starts(p))
<1>1. \A id : Incoming(p, id) = Cardinality(Waiting(p, {}, id))
  BY DEF Incoming, Waiting
<1>2. \A id : Incoming(p, id) = 0 <=> Waiting(p, {}, id) = {}
  BY <1>1, WaitingFinite
<1>3. \A id : Waiting(p, {}, id) = {} <=> \A i \in DOMAIN p.edges : p.edges[i].to # id
  BY DEF Waiting
<1>4. Starts(p) = {id \in Ids(p) : \A i \in DOMAIN p.edges : p.edges[i].to # id}
  BY <1>2, <1>3 DEF Starts
<1>5. Starts(p) \in SUBSET Ids(p) /\ IsFiniteSet(Ids(p))
  BY <1>4, IdFacts
<1>6. IsFiniteSet(Starts(p))
  BY <1>5, FS_Subset
<1> QED BY <1>4, <1>6

\* Without a loop, every phase is led to from a starting node.
LEMMA StartLeads ==
  ASSUME NEW I, NEW p \in ProgramsOver(I), KnownEdges(p), Acyclic(p),
         NEW set, Starts(p) \subseteq set,
         \A i \in DOMAIN p.edges : p.edges[i].from \in set => p.edges[i].to \in set
  PROVE  Ids(p) \subseteq set
<1> DEFINE U == Ids(p) \ set
<1> SUFFICES ASSUME U # {} PROVE FALSE
  OBVIOUS
<1>1. PICK u \in U : \A i \in DOMAIN p.edges : p.edges[i].to = u => p.edges[i].from \notin U
  BY DEF Acyclic
<1>2. u \notin Starts(p)
  OBVIOUS
<1>3. PICK i \in DOMAIN p.edges : p.edges[i].to = u
  BY <1>2, StartFacts
<1>4. p.edges[i].from \in Ids(p)
  BY DEF KnownEdges
<1> QED BY <1>1, <1>3, <1>4

\* The set follows every pair.
Leads(pairs, set) == \A e \in pairs : e[1] \in set => e[2] \in set

\* The phases led to, as a set closed under the pairs would have them.
LEMMA LedToAll ==
  ASSUME NEW pairs, NEW start, NEW x, x = start \/ \E e \in pairs : e[2] = x,
         \A set : start \in set /\ Leads(pairs, set) => x \in set
  PROVE  x \in LedTo(pairs, start)
BY DEF LedTo, Leads

\* What is led to lies in every closed set that holds the start.
LEMMA LedToWithin ==
  ASSUME NEW pairs, NEW start, NEW set, start \in set, Leads(pairs, set)
  PROVE  LedTo(pairs, start) \subseteq set
<1> DEFINE nodes == {start} \cup {e[2] : e \in pairs}
           s == set \cap nodes
<1>1. s \in SUBSET nodes /\ start \in s /\ \A e \in pairs : e[1] \in s => e[2] \in s
  BY DEF Leads
<1> QED BY <1>1 DEF LedTo

\* The drawn pairs follow the arrows.
LEMMA DrawnLeads ==
  ASSUME NEW I, NEW p \in ProgramsOver(I), p.edges # <<>>, NEW set
  PROVE  Leads(DrawnEdges(p), set) <=>
           \A i \in DOMAIN p.edges : p.edges[i].from \in set => p.edges[i].to \in set
<1>1. DrawnEdges(p) = {<<p.edges[i].from, p.edges[i].to>> : i \in DOMAIN p.edges}
  BY DEF DrawnEdges
<1>2. ASSUME Leads(DrawnEdges(p), set), NEW i \in DOMAIN p.edges, p.edges[i].from \in set
      PROVE  p.edges[i].to \in set
  <2> DEFINE e == <<p.edges[i].from, p.edges[i].to>>
  <2>1. e \in DrawnEdges(p) /\ e[1] = p.edges[i].from /\ e[2] = p.edges[i].to
    BY <1>1
  <2> QED BY <1>2, <2>1 DEF Leads
<1>3. ASSUME \A i \in DOMAIN p.edges : p.edges[i].from \in set => p.edges[i].to \in set
      PROVE  Leads(DrawnEdges(p), set)
  BY <1>1, <1>3 DEF Leads
<1> QED BY <1>2, <1>3

\* An order of the reference leaves no loop.
LEMMA OrderedMeans ==
  ASSUME NEW I, NEW p \in ProgramsOver(I), Unique(IdsOf(p)), FieldLimits(p), OrdersOf(p) # {}
  PROVE  KnownEdges(p) /\ NoSelfEdge(p) /\ Acyclic(p)
<1> DEFINE n == Len(p.phases)
<1>1. PICK g : g \in OrdersOf(p)
  OBVIOUS
<1>2. /\ g \in [1..n -> 1..n]
      /\ \A i, j \in 1..n : g[i] = g[j] => i = j
      /\ \A i \in DOMAIN p.edges : \E s, t \in 1..n :
              p.phases[g[s]].id = p.edges[i].from /\ p.phases[g[t]].id = p.edges[i].to /\ s < t
  BY <1>1, GivenOrder
<1>3. n \in Nat /\ DOMAIN p.phases = 1..n
  BY ProgramFacts
<1>4. \A j, k \in 1..n : p.phases[j].id = p.phases[k].id => j = k
  BY <1>3, UniqueIds
<1>5. Ids(p) = {p.phases[i].id : i \in 1..n}
  BY <1>3, IdFacts
<1> HIDE DEF n
<1>6. \A s, t \in 1..n : p.phases[g[s]].id = p.phases[g[t]].id => s = t
  BY <1>2, <1>4
<1>7. KnownEdges(p)
  BY <1>2, <1>5 DEF KnownEdges
<1>8. NoSelfEdge(p)
  <2> SUFFICES ASSUME NEW i \in DOMAIN p.edges, p.edges[i].from = p.edges[i].to PROVE FALSE
    BY DEF NoSelfEdge
  <2>1. PICK s, t \in 1..n :
              p.phases[g[s]].id = p.edges[i].from /\ p.phases[g[t]].id = p.edges[i].to /\ s < t
    BY <1>2
  <2>2. s = t BY <1>6, <2>1
  <2> QED BY <2>1, <2>2
<1>9. Acyclic(p)
  <2> SUFFICES ASSUME NEW U \in SUBSET Ids(p), U # {}
               PROVE  \E u \in U : \A i \in DOMAIN p.edges : p.edges[i].to = u => p.edges[i].from \notin U
    BY DEF Acyclic
  <2> DEFINE T == {s \in 1..n : p.phases[g[s]].id \in U}
  <2>1. T \subseteq Nat /\ T # {}
    <3>1. PICK u \in U : TRUE OBVIOUS
    <3>2. PICK j \in 1..n : p.phases[j].id = u BY <1>5
    <3>6. IsFiniteSet(1..n)
      BY <1>3, FS_Interval
    <3>3. g \in Injection(1..n, 1..n)
      BY <1>2 DEF Injection, IsInjective
    <3>4. g \in Surjection(1..n, 1..n)
      BY <3>3, <3>6, FS_Injection
    <3>5. PICK s \in 1..n : g[s] = j
      BY <3>4 DEF Surjection
    <3> QED BY <3>2, <3>5
  <2>2. PICK k \in T : \A j \in T : k <= j
    <3> HIDE DEF T
    <3> QED BY <2>1, Least
  <2>3. ASSUME NEW i \in DOMAIN p.edges, p.edges[i].to = p.phases[g[k]].id PROVE p.edges[i].from \notin U
    <3>1. PICK s, t \in 1..n :
              p.phases[g[s]].id = p.edges[i].from /\ p.phases[g[t]].id = p.edges[i].to /\ s < t
      BY <1>2
    <3>2. t = k BY <1>6, <2>3, <3>1
    <3>3. ~(k <= s) BY <3>1, <3>2
    <3> QED BY <2>2, <3>1, <3>3
  <2> QED BY <2>3
<1> QED BY <1>7, <1>8, <1>9

\* ordered_phases raises for a program with arrows exactly when an arrow is
\* repeated, the arrows have no order, or no node leads to all the others: its
\* counts of starting nodes and of ordered phases miss no loop and no loose part,
\* and reject nothing else.
THEOREM ServerRejectsLoopsAndLooseParts ==
  ASSUME NEW I, program \in ProgramsOver(I)
  PROVE  RejectsLoopsAndLooseParts
<1> DEFINE p == program
<1> SUFFICES ASSUME FieldLimits(p), Unique(IdsOf(p)), p.edges # <<>>
             PROVE  Orderable(p) <=>
                      /\ Unique(p.edges)
                      /\ OrdersOf(p) # {}
                      /\ \E start \in Ids(p) : Ids(p) \subseteq LedTo(DrawnEdges(p), start)
  BY DEF RejectsLoopsAndLooseParts
<1> HIDE DEF p
<1>0. p \in ProgramsOver(I)
  BY DEF p
<1>1. ASSUME Orderable(p)
      PROVE  /\ Unique(p.edges)
             /\ OrdersOf(p) # {}
             /\ \E start \in Ids(p) : Ids(p) \subseteq LedTo(DrawnEdges(p), start)
  <2>1. /\ Unique(p.edges) /\ KnownEdges(p) /\ Cardinality(Starts(p)) = 1
        /\ Len(DependencyOrder(p)) = Len(p.phases)
    BY <1>1 DEF Orderable
  <2>2. Acyclic(p)
    BY <1>0, <2>1, OrderedIffAcyclic
  <2>3. OrdersOf(p) # {}
    BY <1>0, <2>1, <2>2, OrderPositions
  <2>4. PICK start : Starts(p) = {start}
    BY <1>0, <2>1, StartFacts, FS_Singleton
  <2>5. start \in Ids(p)
    BY <2>4 DEF Starts
  <2>6. ASSUME NEW x \in Ids(p) PROVE x \in LedTo(DrawnEdges(p), start)
    <3>1. x = start \/ \E e \in DrawnEdges(p) : e[2] = x
      <4>1. CASE x \notin Starts(p)
        <5>1. PICK i \in DOMAIN p.edges : p.edges[i].to = x BY <1>0, <4>1, StartFacts
        <5>2. <<p.edges[i].from, x>> \in DrawnEdges(p) BY <5>1 DEF DrawnEdges
        <5>3. <<p.edges[i].from, x>>[2] = x OBVIOUS
        <5> QED BY <5>2, <5>3
      <4> QED BY <2>4, <4>1
    <3>2. ASSUME NEW set, start \in set, Leads(DrawnEdges(p), set) PROVE x \in set
      <4>1. \A i \in DOMAIN p.edges : p.edges[i].from \in set => p.edges[i].to \in set
        BY <1>0, <3>2, DrawnLeads
      <4> QED BY <1>0, <2>1, <2>2, <2>4, <3>2, <4>1, StartLeads
    <3> QED BY <3>1, <3>2, LedToAll
  <2> QED BY <2>1, <2>3, <2>5, <2>6
<1>2. ASSUME Unique(p.edges), OrdersOf(p) # {},
             NEW start \in Ids(p), Ids(p) \subseteq LedTo(DrawnEdges(p), start)
      PROVE  Orderable(p)
  <2>1. KnownEdges(p) /\ NoSelfEdge(p) /\ Acyclic(p)
    BY <1>0, <1>2, OrderedMeans
  <2>2. Len(DependencyOrder(p)) = Len(p.phases)
    BY <1>0, <2>1, OrderedIffAcyclic
  <2>3. ASSUME NEW x \in Starts(p), x # start PROVE FALSE
    <3> DEFINE set == (Ids(p) \cup {start}) \ {x}
    <3>1. \A i \in DOMAIN p.edges : p.edges[i].from \in set => p.edges[i].to \in set
      BY <1>0, <2>1, StartFacts DEF KnownEdges
    <3>2. Leads(DrawnEdges(p), set) /\ start \in set
      BY <1>0, <2>3, <3>1, DrawnLeads
    <3>3. x \in LedTo(DrawnEdges(p), start)
      BY <1>2 DEF Starts
    <3> QED BY <3>2, <3>3, LedToWithin
  <2>4. Starts(p) # {}
    <3>1. PICK u \in Ids(p) : \A i \in DOMAIN p.edges : p.edges[i].to = u => p.edges[i].from \notin Ids(p)
      BY <2>1 DEF Acyclic
    <3>2. u \in Starts(p)
      BY <1>0, <2>1, <3>1, StartFacts DEF KnownEdges
    <3> QED BY <3>2
  <2>5. Starts(p) = {start}
    BY <2>3, <2>4
  <2>6. Cardinality(Starts(p)) = 1
    BY <2>5, FS_Singleton
  <2> QED BY <1>2, <2>1, <2>2, <2>6 DEF Orderable
<1> QED BY <1>1, <1>2

-----------------------------------------------------------------------------
(* What the page shows is what is run                                      *)

\* The order in which the server runs an accepted program: every phase once.
LEMMA RunOrder ==
  ASSUME NEW I, NEW p \in ProgramsOver(I), Accepted(p)
  PROVE  LET o == ordered_phases(p)
             n == Len(p.phases)
         IN  /\ o \in Seq(Ids(p)) /\ Injective(o) /\ ToSet(o) = Ids(p) /\ Len(o) = n /\ n \in Nat \ {0}
             /\ orderedClientPhases(p) = o
             /\ KindOf(p, o[1]) = "work"
             /\ p.edges # <<>> => Starts(p) = {o[1]}
             /\ \A e \in DrawnEdges(p) : \E j, k \in 1..n : j < k /\ e = <<o[j], o[k]>>
<1> DEFINE o == ordered_phases(p)
           n == Len(p.phases)
<1>1. /\ FieldLimits(p) /\ Unique(IdsOf(p)) /\ KnownEdges(p) /\ NoSelfEdge(p)
      /\ Unique(p.edges) /\ Acyclic(p)
  BY AcceptedClean
<1>2. n \in Nat \ {0} /\ DOMAIN p.phases = 1..n
  BY <1>1, LimitsAssumption, ProgramFacts DEF FieldLimits
<1>3. KindOf(p, Head(o)) = "work"
  BY DEF Accepted
<1>4. CASE p.edges = <<>>
  <2>1. o = IdsOf(p) /\ orderedClientPhases(p) = o
    BY <1>4 DEF ordered_phases, orderedClientPhases, clientTopologicalOrder
  <2>2. Len(o) = n /\ ToSet(o) = Ids(p) /\ \A i \in 1..n : o[i] = p.phases[i].id
    <3>1. Len(o) = n BY <2>1, IdFacts
    <3>2. ToSet(o) = Ids(p) BY <2>1 DEF Ids
    <3>3. \A i \in 1..n : o[i] = p.phases[i].id BY <1>2, <2>1 DEF IdsOf
    <3> QED BY <3>1, <3>2, <3>3
  <2>3. o = [i \in 1..n |-> p.phases[i].id]
    BY <1>2, <2>1 DEF IdsOf
  <2>4. \A i \in 1..n : p.phases[i].id \in Ids(p)
    BY <1>2, IdFacts
  <2>5. o \in Seq(Ids(p))
    BY <1>2, <2>3, <2>4
  <2>6. Injective(o)
    BY <1>1, <1>2, <2>2, UniqueIds DEF Injective
  <2>7. KindOf(p, o[1]) = "work"
    BY <1>2, <1>3, <2>2, <2>5
  <2>8. ASSUME NEW e \in DrawnEdges(p) PROVE \E j, k \in 1..n : j < k /\ e = <<o[j], o[k]>>
    <3>1. PICK i \in 1..(n - 1) : e = <<p.phases[i].id, p.phases[i + 1].id>>
      BY <1>4, <2>8 DEF DrawnEdges
    <3>2. i \in 1..n /\ i + 1 \in 1..n /\ i < i + 1
      BY <1>2
    <3> QED BY <2>2, <3>1, <3>2
  <2> QED BY <1>2, <1>4, <2>1, <2>2, <2>5, <2>6, <2>7, <2>8
<1>5. CASE p.edges # <<>>
  <2>1. Orderable(p) /\ Len(DependencyOrder(p)) = n /\ Cardinality(Starts(p)) = 1
    BY <1>5 DEF Accepted, Orderable
  <2>2. o = DependencyOrder(p) /\ orderedClientPhases(p) = o
    BY <1>1, <1>5, <2>1 DEF ordered_phases, orderedClientPhases, clientTopologicalOrder
  <2>3. o \in Seq(Ids(p)) /\ Injective(o) /\ Sorted(p, o) /\ Len(o) = n
    BY <1>1, <2>1, <2>2, OrderFacts
  <2>4. ToSet(o) = Ids(p)
    BY <1>1, <2>2, OrderedIffAcyclic
  <2>5. KindOf(p, o[1]) = "work" /\ DOMAIN o = 1..n
    BY <1>2, <1>3, <2>3
  <2> HIDE DEF o, n
  <2>6. \A k \in 1..n, i \in DOMAIN p.edges : p.edges[i].to = o[k] =>
          \E j \in 1..(k - 1) : o[j] = p.edges[i].from
    BY <2>3 DEF Sorted, Waiting, Before
  <2>7. o[1] \in Starts(p)
    <3>1. 1 \in 1..n /\ 1..(1 - 1) = {} BY <1>2
    <3>2. \A i \in DOMAIN p.edges : p.edges[i].to # o[1] BY <2>6, <3>1
    <3>3. o[1] \in Ids(p) BY <2>4, <2>5, <3>1 DEF ToSet
    <3> QED BY <3>2, <3>3, StartFacts
  <2>8. Starts(p) = {o[1]}
    BY <2>1, <2>7, StartFacts, FS_Singleton
  <2>9. ASSUME NEW e \in DrawnEdges(p) PROVE \E j, k \in 1..n : j < k /\ e = <<o[j], o[k]>>
    <3>1. PICK i \in DOMAIN p.edges : e = <<p.edges[i].from, p.edges[i].to>>
      BY <1>5, <2>9 DEF DrawnEdges
    <3>2. PICK k \in 1..n : o[k] = p.edges[i].to
      BY <1>1, <2>4, <2>5 DEF KnownEdges, ToSet
    <3>3. PICK j \in 1..(k - 1) : o[j] = p.edges[i].from
      BY <2>6, <3>2
    <3>4. j \in 1..n /\ j < k
      BY <1>2
    <3> QED BY <3>1, <3>2, <3>3, <3>4
  <2> QED BY <1>2, <2>2, <2>3, <2>4, <2>5, <2>8, <2>9 DEF o, n
<1> QED BY <1>4, <1>5

\* graphProblem accepts what the server accepts, and the steps are in its order.
LEMMA PageAgreesAlways ==
  ASSUME NEW I, program \in ProgramsOver(I)
  PROVE  PageAgrees
<1> DEFINE p == program
<1> SUFFICES ASSUME Accepted(p), p.edges # <<>> \/ Len(p.phases) = 1
             PROVE  ~graphProblem(p) /\ orderedClientPhases(p) = ordered_phases(p)
  BY DEF PageAgrees
<1>0. p \in ProgramsOver(I)
  OBVIOUS
<1> HIDE DEF p
<1> DEFINE o == ordered_phases(p)
<1>1. KnownEdges(p) /\ NoSelfEdge(p) /\ Unique(p.edges) /\ Unique(IdsOf(p)) /\ Acyclic(p)
  BY <1>0, AcceptedClean
<1>2. /\ ToSet(o) = Ids(p) /\ Len(o) = Len(p.phases) /\ o \in Seq(Ids(p))
      /\ orderedClientPhases(p) = o /\ KindOf(p, o[1]) = "work"
      /\ p.edges # <<>> => Starts(p) = {o[1]}
  BY <1>0, RunOrder
<1> HIDE DEF o
<1>3. Starts(p) = {o[1]}
  <2>1. CASE p.edges = <<>>
    <3>1. Starts(p) = Ids(p) BY <1>0, <2>1, NoEdges
    <3>2. Len(o) = 1 /\ DOMAIN o = {1} BY <1>2, <2>1
    <3>3. Ids(p) = {o[1]} BY <1>2, <3>2 DEF ToSet
    <3> QED BY <3>1, <3>3
  <2> QED BY <1>2, <2>1
<1>4. Cardinality(Starts(p)) = 1
  BY <1>3, FS_Singleton
<1>5. Len(clientTopologicalOrder(p)) = Len(p.phases)
  <2>1. CASE p.edges = <<>>
    BY <1>0, <2>1, IdFacts DEF clientTopologicalOrder
  <2>2. CASE p.edges # <<>>
    BY <1>0, <1>1, <2>2, OrderedIffAcyclic DEF clientTopologicalOrder
  <2> QED BY <2>1, <2>2
<1>6. ~(Len(p.phases) > 1 /\ p.edges = <<>>)
  <2>1. CASE p.edges # <<>> BY <2>1
  <2>2. CASE Len(p.phases) = 1
    <3>1. ~(Len(p.phases) > 1) BY <2>2
    <3> QED BY <3>1
  <2> QED BY <2>1, <2>2
<1>7. \A id \in Starts(p) : KindOf(p, id) = "work"
  BY <1>2, <1>3
<1>8. ~graphProblem(p)
  BY <1>1, <1>4, <1>5, <1>6, <1>7 DEF graphProblem
<1> QED BY <1>2, <1>8 DEF o

\* compile_phase_program leaves no phase off the paths from task to output.
LEMMA CompiledAlways ==
  ASSUME NEW I, program \in ProgramsOver(I)
  PROVE  CompiledIsConnected
<1> DEFINE p == program
<1> SUFFICES ASSUME Accepted(p), NEW id \in Ids(p)
             PROVE  id \in LedTo(CompiledEdges(p), "task") /\ "output" \in LedTo(CompiledEdges(p), id)
  BY DEF CompiledIsConnected
<1>0. p \in ProgramsOver(I)
  OBVIOUS
<1> HIDE DEF p
<1> DEFINE o == ordered_phases(p)
           n == Len(p.phases)
           C == CompiledEdges(p)
<1>1. KnownEdges(p) /\ Unique(IdsOf(p)) /\ Acyclic(p)
  BY <1>0, AcceptedClean
<1>2. /\ o \in Seq(Ids(p)) /\ ToSet(o) = Ids(p) /\ Len(o) = n /\ n \in Nat \ {0}
      /\ p.edges # <<>> => Starts(p) = {o[1]}
      /\ \A e \in DrawnEdges(p) : \E j, k \in 1..n : j < k /\ e = <<o[j], o[k]>>
      /\ Injective(o)
  BY <1>0, RunOrder
<1>3. DOMAIN o = 1..n
  BY <1>2, LenProperties
<1> HIDE DEF o, n
\* Every phase but the first has a phase before it, and every phase leads on.
<1>4. <<"task", o[1]>> \in C
  <2>1. CASE p.edges # <<>>
    BY <1>2, <2>1 DEF CompiledEdges
  <2>2. CASE p.edges = <<>>
    <3> DEFINE path == <<"task">> \o o \o <<"output">>
    <3>1. C = {<<path[i], path[i + 1]>> : i \in 1..(Len(path) - 1)}
      BY <2>2 DEF CompiledEdges, o
    <3>2. Len(path) = n + 2 /\ path[1] = "task" /\ path[2] = o[1]
      BY <1>2, <1>3
    <3> HIDE DEF path
    <3>3. 1 \in 1..(Len(path) - 1) /\ 1 + 1 = 2 BY <1>2, <3>2
    <3>4. <<path[1], path[1 + 1]>> \in C BY <3>1, <3>3
    <3> QED BY <3>2, <3>3, <3>4
  <2> QED BY <2>1, <2>2
<1>5. ASSUME NEW set, o[1] \in set, Leads(C, set) PROVE Ids(p) \subseteq set
  <2>1. CASE p.edges # <<>>
    <3>1. \A i \in DOMAIN p.edges : <<p.edges[i].from, p.edges[i].to>> \in C
      BY <2>1 DEF CompiledEdges
    <3>2. \A i \in DOMAIN p.edges : p.edges[i].from \in set => p.edges[i].to \in set
      <4> TAKE i \in DOMAIN p.edges
      <4> DEFINE e == <<p.edges[i].from, p.edges[i].to>>
      <4>1. e \in C /\ e[1] = p.edges[i].from /\ e[2] = p.edges[i].to BY <3>1
      <4> QED BY <1>5, <4>1 DEF Leads
    <3> QED BY <1>0, <1>1, <1>2, <1>5, <2>1, <3>2, StartLeads
  <2>2. CASE p.edges = <<>>
    <3> DEFINE path == <<"task">> \o o \o <<"output">>
               S == {k \in 0..(n - 1) : o[k + 1] \in set}
    <3>1. C = {<<path[i], path[i + 1]>> : i \in 1..(Len(path) - 1)}
      BY <2>2 DEF CompiledEdges, o
    <3>2. Len(path) = n + 2 /\ \A k \in 1..n : path[k + 1] = o[k]
      BY <1>2, <1>3
    <3> HIDE DEF path
    <3>3. ASSUME NEW k \in 1..(n - 1), k - 1 \in S PROVE k \in S
      <4>1. k \in 1..n /\ k + 1 \in 1..n /\ k + 1 \in 1..(Len(path) - 1) /\ (k - 1) + 1 = k
        BY <1>2, <3>2
      <4> DEFINE e == <<path[k + 1], path[(k + 1) + 1]>>
      <4>2. e \in C BY <3>1, <4>1
      <4>3. e[1] = o[k] /\ e[2] = o[k + 1] BY <3>2, <4>1
      <4>4. o[k] \in set BY <3>3, <4>1
      <4> HIDE DEF e
      <4>5. o[k + 1] \in set BY <1>5, <4>2, <4>3, <4>4 DEF Leads
      <4>6. k \in 0..(n - 1) BY <1>2
      <4> QED BY <4>5, <4>6
    <3>4. 0..(n - 1) \subseteq S
      <4>1. 0 \in S /\ n - 1 \in Nat BY <1>2, <1>5
      <4> HIDE DEF S
      <4> QED BY <3>3, <4>1, UpTo
    <3>5. ASSUME NEW k \in 1..n PROVE o[k] \in set
      <4>1. k - 1 \in 0..(n - 1) /\ (k - 1) + 1 = k BY <1>2
      <4> QED BY <3>4, <4>1
    <3> QED BY <1>2, <1>3, <3>5 DEF ToSet
  <2> QED BY <2>1, <2>2
<1>6. ASSUME NEW k \in 1..n
      PROVE  <<o[k], "output">> \in C \/ \E j \in 1..n : k < j /\ <<o[k], o[j]>> \in C
  <2>0. o[k] \in Ids(p)
    BY <1>2, <1>3 DEF ToSet
  <2>1. CASE p.edges # <<>> /\ Outgoing(p, o[k]) = {}
    BY <2>0, <2>1 DEF CompiledEdges
  <2>2. CASE p.edges # <<>> /\ Outgoing(p, o[k]) # {}
    <3>1. PICK i \in DOMAIN p.edges : p.edges[i].from = o[k]
      BY <2>2 DEF Outgoing
    <3> DEFINE e == <<p.edges[i].from, p.edges[i].to>>
    <3>2. e \in C /\ e \in DrawnEdges(p)
      BY <2>2 DEF CompiledEdges, DrawnEdges
    <3>3. PICK j, m \in 1..n : j < m /\ e = <<o[j], o[m]>>
      BY <1>2, <3>2
    <3>4. o[j] = o[k] BY <3>1, <3>3
    <3>5. j = k BY <1>2, <3>4 DEF Injective
    <3> QED BY <3>2, <3>3, <3>5
  <2>3. CASE p.edges = <<>>
    <3> DEFINE path == <<"task">> \o o \o <<"output">>
    <3>1. C = {<<path[i], path[i + 1]>> : i \in 1..(Len(path) - 1)}
      BY <2>3 DEF CompiledEdges, o
    <3>2. Len(path) = n + 2 /\ (\A i \in 1..n : path[i + 1] = o[i]) /\ path[n + 2] = "output"
      BY <1>2, <1>3
    <3> HIDE DEF path
    <3>3. k + 1 \in 1..(Len(path) - 1) /\ (k + 1) + 1 = k + 2 BY <1>2, <3>2
    <3>4. <<path[k + 1], path[(k + 1) + 1]>> \in C BY <3>1, <3>3
    <3>5. CASE k = n BY <3>2, <3>3, <3>4, <3>5
    <3>6. CASE k # n
      <4>1. k + 1 \in 1..n /\ k < k + 1 BY <1>2, <3>6
      <4> QED BY <3>2, <3>4, <4>1
    <3> QED BY <3>5, <3>6
  <2> QED BY <2>1, <2>2, <2>3
<1>7. id \in LedTo(C, "task")
  <2>1. ASSUME NEW set, "task" \in set, Leads(C, set) PROVE id \in set
    <3> DEFINE e == <<"task", o[1]>>
    <3>1. e[1] = "task" /\ e[2] = o[1] OBVIOUS
    <3>2. o[1] \in set BY <1>4, <2>1, <3>1 DEF Leads
    <3> QED BY <1>5, <2>1, <3>2
  <2>2. \E e \in C : e[2] = id
    <3> DEFINE set == {e[2] : e \in C}
    <3> DEFINE first == <<"task", o[1]>>
    <3>1. first[2] = o[1] OBVIOUS
    <3>2. o[1] \in set BY <1>4, <3>1
    <3>3. Leads(C, set) BY DEF Leads
    <3>4. id \in set
      <4> HIDE DEF set
      <4> QED BY <1>5, <3>2, <3>3
    <3> QED BY <3>4
  <2> QED BY <2>1, <2>2, LedToAll
<1>8. ASSUME NEW set, id \in set, Leads(C, set) PROVE "output" \in set /\ \E e \in C : e[2] = "output"
  <2> DEFINE T == {k \in 1..n : o[k] \in set}
  <2>1. PICK i \in 1..n : o[i] = id
    BY <1>2, <1>3 DEF ToSet
  <2>2. T \in SUBSET (1..n) /\ T # {} /\ n \in Nat
    BY <1>2, <1>8, <2>1
  <2>3. Max(T) \in T /\ \A y \in T : Max(T) >= y
    <3> HIDE DEF T
    <3> QED BY <2>2, MaxOf
  <2> DEFINE k == Max(T)
  <2>4. k \in 1..n /\ o[k] \in set
    BY <2>3
  <2> HIDE DEF k
  <2>5. ASSUME NEW j \in 1..n, k < j, <<o[k], o[j]>> \in C PROVE FALSE
    <3> DEFINE e == <<o[k], o[j]>>
    <3>1. e \in C /\ e[1] = o[k] /\ e[2] = o[j] BY <2>5
    <3>2. o[j] \in set BY <1>8, <2>4, <3>1 DEF Leads
    <3>3. k >= j BY <2>3, <3>2 DEF k
    <3> QED BY <2>4, <2>5, <3>3
  <2> DEFINE e == <<o[k], "output">>
  <2>6. e \in C /\ e[1] = o[k] /\ e[2] = "output"
    BY <1>6, <2>4, <2>5
  <2> HIDE DEF e
  <2> QED BY <1>8, <2>4, <2>6 DEF Leads
<1>9. "output" \in LedTo(C, id)
  <2> DEFINE all == Ids(p) \cup {e[2] : e \in C}
  <2>1. Leads(C, all) /\ id \in all
    BY DEF Leads
  <2>2. \E e \in C : e[2] = "output"
    <3> HIDE DEF all
    <3> QED BY <1>8, <2>1
  <2> QED BY <1>8, <2>2, LedToAll
<1> QED BY <1>7, <1>9

-----------------------------------------------------------------------------
(* The drawing of a run                                                    *)

\* Max of a finite set of naturals.
LEMMA FiniteMax ==
  ASSUME NEW S, IsFiniteSet(S), S \subseteq Nat, S # {}
  PROVE  Max(S) \in S /\ \A y \in S : Max(S) >= y
<1> DEFINE Has(T) == \E m \in T : \A y \in T : m >= y
           Good(k) == \A T \in SUBSET S : Cardinality(T) = k /\ T # {} => Has(T)
           P == {k \in Nat : Good(k)}
<1>1. \A T \in SUBSET S : IsFiniteSet(T) /\ Cardinality(T) \in Nat
  BY FS_Subset, FS_CardinalityType
<1>2. 0 \in P
  <2>1. Good(0)
    <3> HIDE DEF Has
    <3> QED BY <1>1, FS_EmptySet
  <2> HIDE DEF Good
  <2> QED BY <2>1
<1>3. ASSUME NEW k \in Nat, k \in P PROVE k + 1 \in P
  <2>0. Good(k)
    <3> HIDE DEF Good
    <3> QED BY <1>3
  <2>1. ASSUME NEW T \in SUBSET S, Cardinality(T) = k + 1, T # {} PROVE Has(T)
    <3>1. PICK x \in T : TRUE BY <2>1
    <3> DEFINE R == T \ {x}
    <3>2. Cardinality(R) = k
      BY <1>1, <2>1, FS_RemoveElement
    <3>3. CASE R = {}
      <4>1. \A y \in T : y = x BY <3>3
      <4>2. x \in Nat OBVIOUS
      <4> QED BY <4>1, <4>2
    <3>4. CASE R # {}
      <4>1. Has(R)
        <5>1. R \in SUBSET S OBVIOUS
        <5> HIDE DEF Has, R
        <5> QED BY <2>0, <3>2, <3>4, <5>1
      <4>2. PICK m \in R : \A y \in R : m >= y BY <4>1
      <4>3. x \in Nat /\ m \in Nat /\ T \subseteq Nat OBVIOUS
      <4>4. CASE m >= x
        <5>1. \A y \in T : m >= y BY <4>2, <4>4
        <5> QED BY <5>1
      <4>5. CASE ~(m >= x)
        <5>1. \A y \in T : x >= y BY <4>2, <4>3, <4>5
        <5> QED BY <5>1
      <4> QED BY <4>4, <4>5
    <3> QED BY <3>3, <3>4
  <2>2. Good(k + 1)
    <3> HIDE DEF Has
    <3> QED BY <2>1
  <2> HIDE DEF Good
  <2> QED BY <2>2
<1>4. Cardinality(S) \in P
  <2>1. Cardinality(S) \in Nat BY FS_CardinalityType
  <2> HIDE DEF P
  <2> QED BY <1>2, <1>3, <2>1, SetInduction
<1>5. Good(Cardinality(S))
  <2> HIDE DEF Good
  <2> QED BY <1>4
<1>6. Has(S)
  <2> HIDE DEF Has
  <2> QED BY <1>5
<1> QED BY <1>6 DEF Max

\* A level is above the levels of the parents.
LEMMA LevelFacts ==
  ASSUME NEW S, NEW levels \in [S -> Nat], NEW parents \in SUBSET S, IsFiniteSet(parents)
  PROVE  Level(levels, parents) \in Nat /\ \A id \in parents : levels[id] < Level(levels, parents)
<1>1. CASE parents = {}
  BY <1>1 DEF Level
<1>2. CASE parents # {}
  <2> DEFINE T == {levels[id] : id \in parents}
             f == [id \in parents |-> levels[id]]
  <2>1. T \subseteq Nat /\ T # {}
    BY <1>2
  <2>2. IsFiniteSet(T)
    <3>1. f \in Surjection(parents, T)
      BY DEF Surjection
    <3> QED BY <3>1, FS_Surjection
  <2>3. Level(levels, parents) = Max(T) + 1
    BY <1>2 DEF Level
  <2>4. \A id \in parents : levels[id] \in T
    OBVIOUS
  <2> HIDE DEF T
  <2>5. Max(T) \in T /\ \A y \in T : Max(T) >= y
    BY <2>1, <2>2, FiniteMax
  <2>6. Max(T) \in Nat
    BY <2>1, <2>5
  <2>7. ASSUME NEW id \in parents PROVE levels[id] < Max(T) + 1
    <3>1. levels[id] \in Nat /\ Max(T) >= levels[id] BY <2>4, <2>5
    <3> QED BY <2>6, <3>1
  <2> QED BY <2>3, <2>6, <2>7
<1> QED BY <1>1, <1>2

\* The parents are what the drawn arrows come from, and come earlier.
LEMMA ParentFacts ==
  ASSUME NEW I, NEW p \in ProgramsOver(I), Accepted(p), NEW id
  PROVE  Parents(p, id) \in SUBSET Ids(p) /\ IsFiniteSet(Parents(p, id))
<1> DEFINE o == ordered_phases(p)
           n == Len(p.phases)
<1>1. /\ o \in Seq(Ids(p)) /\ Len(o) = n /\ n \in Nat
      /\ \A e \in DrawnEdges(p) : \E j, k \in 1..n : j < k /\ e = <<o[j], o[k]>>
  BY RunOrder
<1>2. \A j \in 1..n : o[j] \in Ids(p)
  BY <1>1, ElementOfSeq
<1> HIDE DEF o, n
<1>3. ASSUME NEW x \in Parents(p, id) PROVE x \in Ids(p)
  <2>1. PICK e \in DrawnEdges(p) : x = e[1] BY DEF Parents
  <2>2. PICK j, k \in 1..n : e = <<o[j], o[k]>> BY <1>1
  <2> QED BY <1>2, <2>1, <2>2
<1>4. Parents(p, id) \in SUBSET Ids(p) /\ IsFiniteSet(Ids(p))
  BY <1>3, IdFacts
<1> QED BY <1>4, FS_Subset

\* layoutRunGraph's loop over the steps.
LEMMA LevelsRun ==
  ASSUME NEW I, NEW p \in ProgramsOver(I), Accepted(p)
  PROVE  LET o == ordered_phases(p)
             n == Len(p.phases)
         IN  \E r \in [0..n -> [Ids(p) -> Nat]] :
               /\ \A k \in 1..n : r[k] = Place(p, r[k - 1], o[k])
               /\ Levels(p) = r[n]
<1> DEFINE n == Len(p.phases)
           o == ordered_phases(p)
           V == [Ids(p) -> Nat]
           base == [id \in Ids(p) |-> 0]
           G == [k \in 1..n |-> [v \in V |-> Place(p, v, o[k])]]
           F(it) == [s \in SUBSET (1..n) |-> IF s = {} THEN base ELSE Place(p, it[s \ {Max(s)}], o[Max(s)])]
           it == CHOOSE it : it = F(it)
<1>1. /\ o \in Seq(Ids(p)) /\ Len(o) = n /\ n \in Nat /\ DOMAIN o = 1..n
      /\ orderedClientPhases(p) = o
  BY RunOrder
<1>2. ASSUME NEW v \in V, NEW k \in 1..n PROVE Place(p, v, o[k]) \in V
  <2>1. Level(v, Parents(p, o[k])) \in Nat
    BY ParentFacts, LevelFacts
  <2> QED BY <2>1 DEF Place
<1>3. G \in [1..n -> [V -> V]] /\ base \in V
  BY <1>2
<1>4. \A k \in 1..n, v \in V : G[k][v] = Place(p, v, o[k])
  OBVIOUS
<1> HIDE DEF o
<1>5. Levels(p) = it[1..n]
  <2>1. Levels(p) = FoldLeft(LAMBDA levels, id : Place(p, levels, id), base, o)
    BY <1>1 DEF Levels
  <2> QED BY <1>1, <2>1 DEF FoldLeft, MapThenFoldSet
<1> HIDE DEF n, V, G, base
<1>6. \E f : f = F(f)
  <2>1. PICK f \in [SUBSET (1..n) -> V] : Folds(f, base, n, G)
    <3>1. Steps(V, base, n, G) BY <1>1, <1>3 DEF Steps
    <3> QED BY <3>1, FoldExists
  <2>2. ASSUME NEW s \in SUBSET (1..n)
        PROVE  f[s] = IF s = {} THEN base ELSE Place(p, f[s \ {Max(s)}], o[Max(s)])
    <3>1. f[s] = IF s = {} THEN base ELSE G[Max(s)][f[s \ {Max(s)}]]
      BY <2>1 DEF Folds
    <3>2. CASE s # {}
      <4>1. Max(s) \in 1..n
        BY <1>1, <3>2, MaxOf
      <4> QED BY <1>4, <3>1, <3>2, <4>1
    <3> QED BY <3>1, <3>2
  <2>3. f = F(f)
    BY <2>2
  <2> QED BY <2>3
<1>7. it = F(it)
  BY <1>6
<1> HIDE DEF it
<1>8. it[{}] = base
  BY <1>7
<1>9. ASSUME NEW s \in SUBSET (1..n), s # {}, it[s \ {Max(s)}] \in V
      PROVE  it[s] = G[Max(s)][it[s \ {Max(s)}]]
  <2>1. it[s] = Place(p, it[s \ {Max(s)}], o[Max(s)])
    BY <1>7, <1>9
  <2>2. Max(s) \in 1..n
    BY <1>1, <1>9, MaxOf
  <2> QED BY <1>4, <1>9, <2>1, <2>2
<1>10. PICK r \in [0..n -> V] : Runs(r, base, n, G) /\ it[1..n] = r[n]
  <2>1. Steps(V, base, n, G)
    BY <1>1, <1>3 DEF Steps
  <2>2. FoldsIn(V, it, base, n, G)
    BY <1>8, <1>9, <2>1 DEF FoldsIn
  <2> QED BY <2>2, FoldRun
<1>11. ASSUME NEW k \in 1..n PROVE r[k] = Place(p, r[k - 1], o[k])
  <2>1. k - 1 \in 0..n BY <1>1
  <2> QED BY <1>4, <1>10, <2>1 DEF Runs
<1> QED BY <1>5, <1>10, <1>11 DEF n, V, o

\* Every arrow is drawn from a level to a later one.
LEMMA ArrowsAlwaysForward ==
  ASSUME NEW I, program \in ProgramsOver(I)
  PROVE  ArrowsPointForward
<1> DEFINE p == program
<1> SUFFICES ASSUME Accepted(p), NEW e \in DrawnEdges(p)
             PROVE  Levels(p)[e[1]] < Levels(p)[e[2]]
  BY DEF ArrowsPointForward
<1>0. p \in ProgramsOver(I)
  OBVIOUS
<1> HIDE DEF p
<1> DEFINE o == ordered_phases(p)
           n == Len(p.phases)
<1>1. /\ o \in Seq(Ids(p)) /\ Len(o) = n /\ n \in Nat /\ Injective(o)
      /\ \A d \in DrawnEdges(p) : \E j, k \in 1..n : j < k /\ d = <<o[j], o[k]>>
  BY <1>0, RunOrder
<1>2. \A j \in 1..n : o[j] \in Ids(p)
  BY <1>1, ElementOfSeq
<1>3. PICK r \in [0..n -> [Ids(p) -> Nat]] :
               /\ \A k \in 1..n : r[k] = Place(p, r[k - 1], o[k])
               /\ Levels(p) = r[n]
  BY <1>0, LevelsRun
<1> HIDE DEF o, n
<1>4. PICK j, k \in 1..n : j < k /\ e = <<o[j], o[k]>>
  BY <1>1
\* What a step has placed no later step moves.
<1>5. ASSUME NEW m \in 1..n PROVE \A i \in m..n : r[i][o[m]] = r[m][o[m]]
  <2> DEFINE S == {x \in 0..(n - m) : r[x + m][o[m]] = r[m][o[m]]}
  <2>1. 0 \in S /\ n - m \in Nat
    BY <1>1
  <2>2. ASSUME NEW x \in 1..(n - m), x - 1 \in S PROVE x \in S
    <3>1. x + m \in 1..n /\ (x + m) - 1 = (x - 1) + m /\ (x - 1) + m \in 0..n /\ x + m # m
      BY <1>1
    <3>2. r[x + m] = Place(p, r[(x - 1) + m], o[x + m]) BY <1>3, <3>1
    <3>3. o[x + m] # o[m] BY <1>1, <3>1 DEF Injective
    <3>4. r[(x - 1) + m] \in [Ids(p) -> Nat] BY <3>1
    <3>5. r[x + m][o[m]] = r[(x - 1) + m][o[m]] BY <1>2, <3>2, <3>3, <3>4 DEF Place
    <3>6. x \in 0..(n - m) BY <1>1
    <3> QED BY <2>2, <3>5, <3>6
  <2>3. 0..(n - m) \subseteq S
    <3> HIDE DEF S
    <3> QED BY <2>1, <2>2, UpTo
  <2> TAKE i \in m..n
  <2>4. i - m \in 0..(n - m) /\ (i - m) + m = i BY <1>1
  <2> QED BY <2>3, <2>4
<1>6. k - 1 \in 0..n /\ k - 1 \in j..n /\ n \in j..n /\ n \in k..n
  BY <1>1, <1>4
<1>7. r[k - 1] \in [Ids(p) -> Nat]
  BY <1>6
<1>8. r[k][o[k]] = Level(r[k - 1], Parents(p, o[k]))
  BY <1>2, <1>3, <1>7 DEF Place
<1>9. o[j] \in Parents(p, o[k])
  BY <1>4 DEF Parents
<1>10. r[k - 1][o[j]] < r[k][o[k]]
  BY <1>0, <1>7, <1>8, <1>9, ParentFacts, LevelFacts
<1>11. r[n][o[j]] = r[k - 1][o[j]] /\ r[n][o[k]] = r[k][o[k]]
  BY <1>5, <1>6
<1>12. e[1] = o[j] /\ e[2] = o[k]
  BY <1>4
<1> QED BY <1>3, <1>10, <1>11, <1>12

\* For every program: graphProblem and orderedClientPhases agree with the server
\* on what it accepts, compile_phase_program connects every phase to the task
\* and the output, and layoutRunGraph draws every arrow forward.
THEOREM ProgramIsShownAsRun ==
  ASSUME NEW I, program \in ProgramsOver(I)
  PROVE  ShownAsRun
BY PageAgreesAlways, CompiledAlways, ArrowsAlwaysForward DEF ShownAsRun

-----------------------------------------------------------------------------
(* The arrows left when a node is deleted                                  *)

\* Filtering a list of arrows, arrow by arrow.
LEMMA OnlyRun ==
  ASSUME NEW E, NEW edges \in Seq(E), NEW set
  PROVE  \E r \in [0..Len(edges) -> Seq(E)] :
           /\ r[0] = <<>>
           /\ \A k \in 1..Len(edges) : r[k] = Keep(r[k - 1], edges[k], set)
           /\ Only(edges, set) = r[Len(edges)]
<1> DEFINE n == Len(edges)
           V == Seq(E)
           G == [k \in 1..n |-> [v \in V |-> Keep(v, edges[k], set)]]
           F(it) == [s \in SUBSET (1..n) |->
                       IF s = {} THEN <<>> ELSE Keep(it[s \ {Max(s)}], edges[Max(s)], set)]
           it == CHOOSE it : it = F(it)
<1>1. n \in Nat /\ DOMAIN edges = 1..n
  BY LenProperties
<1>2. \A k \in 1..n, v \in V : Keep(v, edges[k], set) \in V
  BY <1>1, ElementOfSeq, AppendProperties DEF Keep
<1>3. G \in [1..n -> [V -> V]] /\ <<>> \in V
  BY <1>2, EmptySeq
<1>4. \A k \in 1..n, v \in V : G[k][v] = Keep(v, edges[k], set)
  OBVIOUS
<1>5. Only(edges, set) = it[1..n]
  BY <1>1 DEF Only, FoldLeft, MapThenFoldSet
<1> HIDE DEF n, V, G
<1>6. \E f : f = F(f)
  <2>1. PICK f \in [SUBSET (1..n) -> V] : Folds(f, <<>>, n, G)
    <3>1. Steps(V, <<>>, n, G) BY <1>1, <1>3 DEF Steps
    <3> QED BY <3>1, FoldExists
  <2>2. ASSUME NEW s \in SUBSET (1..n)
        PROVE  f[s] = IF s = {} THEN <<>> ELSE Keep(f[s \ {Max(s)}], edges[Max(s)], set)
    <3>1. f[s] = IF s = {} THEN <<>> ELSE G[Max(s)][f[s \ {Max(s)}]]
      BY <2>1 DEF Folds
    <3>2. CASE s # {}
      <4>1. Max(s) \in 1..n
        BY <1>1, <3>2, MaxOf
      <4> QED BY <1>4, <3>1, <3>2, <4>1
    <3> QED BY <3>1, <3>2
  <2>3. f = F(f)
    BY <2>2
  <2> QED BY <2>3
<1>7. it = F(it)
  BY <1>6
<1> HIDE DEF it
<1>8. it[{}] = <<>>
  BY <1>7
<1>9. ASSUME NEW s \in SUBSET (1..n), s # {}, it[s \ {Max(s)}] \in V
      PROVE  it[s] = G[Max(s)][it[s \ {Max(s)}]]
  <2>1. it[s] = Keep(it[s \ {Max(s)}], edges[Max(s)], set)
    BY <1>7, <1>9
  <2>2. Max(s) \in 1..n
    BY <1>1, <1>9, MaxOf
  <2> QED BY <1>4, <1>9, <2>1, <2>2
<1>10. PICK r \in [0..n -> V] : Runs(r, <<>>, n, G) /\ it[1..n] = r[n]
  <2>1. Steps(V, <<>>, n, G)
    BY <1>1, <1>3 DEF Steps
  <2>2. FoldsIn(V, it, <<>>, n, G)
    BY <1>8, <1>9, <2>1 DEF FoldsIn
  <2> QED BY <2>2, FoldRun
<1>11. ASSUME NEW k \in 1..n PROVE r[k] = Keep(r[k - 1], edges[k], set)
  <2>1. k - 1 \in 0..n BY <1>1
  <2> QED BY <1>4, <1>10, <2>1 DEF Runs
<1>12. r[0] = <<>>
  BY <1>10 DEF Runs
<1> QED BY <1>5, <1>10, <1>11, <1>12 DEF n, V

\* A new element at the end repeats none.
LEMMA AppendFresh ==
  ASSUME NEW S, NEW o \in Seq(S), NEW c \in S, Injective(o), c \notin ToSet(o)
  PROVE  Injective(Append(o, c))
<1> DEFINE a == Append(o, c)
<1>1. /\ Len(a) = Len(o) + 1 /\ Len(o) \in Nat /\ a[Len(o) + 1] = c
      /\ \A k \in 1..Len(o) : a[k] = o[k]
  BY AppendOrder
<1>2. \A k \in 1..Len(o) : o[k] \in ToSet(o)
  BY LenProperties DEF ToSet
<1>3. \A k \in 1..Len(a) : k \in 1..Len(o) \/ k = Len(o) + 1
  BY <1>1
<1> HIDE DEF a
<1>4. \A k \in 1..Len(o) : a[k] # c
  BY <1>1, <1>2
<1>5. Injective(a)
  BY <1>1, <1>3, <1>4 DEF Injective
<1> QED BY <1>5 DEF a

\* Filtering keeps the arrows of the set, and repeats none.
LEMMA OnlyFacts ==
  ASSUME NEW E, NEW edges \in Seq(E), NEW set
  PROVE  /\ Only(edges, set) \in Seq(E)
         /\ ToSet(Only(edges, set)) = ToSet(edges) \cap set
         /\ Injective(edges) => Injective(Only(edges, set))
<1> DEFINE n == Len(edges)
<1>1. PICK r \in [0..n -> Seq(E)] :
           /\ r[0] = <<>>
           /\ \A k \in 1..n : r[k] = Keep(r[k - 1], edges[k], set)
           /\ Only(edges, set) = r[n]
  BY OnlyRun
<1>2. n \in Nat /\ DOMAIN edges = 1..n /\ \A k \in 1..n : edges[k] \in E
  BY LenProperties, ElementOfSeq
<1> DEFINE First(k) == {edges[j] : j \in 1..k} \cap set
           Good(k) == ToSet(r[k]) = First(k) /\ (Injective(edges) => Injective(r[k]))
           S == {k \in 0..n : Good(k)}
<1> HIDE DEF n
<1>3. 0 \in S
  <2>1. ToSet(<<>>) = {} /\ Injective(<<>>) BY DEF ToSet, Injective
  <2>2. First(0) = {} OBVIOUS
  <2>3. Good(0) BY <1>1, <2>1, <2>2
  <2>4. 0 \in 0..n BY <1>2
  <2> HIDE DEF Good
  <2> QED BY <2>3, <2>4
<1>4. ASSUME NEW k \in 1..n, k - 1 \in S PROVE k \in S
  <2>1. k \in 0..n /\ k - 1 \in 0..n BY <1>2
  <2>2. r[k] = Keep(r[k - 1], edges[k], set) /\ r[k - 1] \in Seq(E) /\ edges[k] \in E
    BY <1>1, <1>2, <2>1
  <2>3. Good(k - 1)
    <3> HIDE DEF Good
    <3> QED BY <1>4
  <2>4. First(k) = First(k - 1) \cup ({edges[k]} \cap set)
    <3>1. 1..k = 1..(k - 1) \cup {k} BY <1>2
    <3> QED BY <3>1
  <2>5. CASE edges[k] \in set
    <3>1. r[k] = Append(r[k - 1], edges[k]) BY <2>2, <2>5 DEF Keep
    <3>2. ToSet(r[k]) = ToSet(r[k - 1]) \cup {edges[k]} BY <2>2, <3>1, AppendOrder
    <3>3. ToSet(r[k]) = First(k) BY <2>3, <2>4, <2>5, <3>2
    <3>4. ASSUME Injective(edges) PROVE Injective(r[k])
      <4>1. edges[k] \notin ToSet(r[k - 1])
        <5>1. \A j \in 1..(k - 1) : j \in 1..n /\ j # k BY <1>2
        <5>2. k \in 1..n OBVIOUS
        <5>3. \A j \in 1..(k - 1) : edges[j] # edges[k] BY <3>4, <5>1, <5>2 DEF Injective, n
        <5> QED BY <2>3, <5>3
      <4> QED BY <2>2, <2>3, <3>1, <3>4, <4>1, AppendFresh
    <3>5. Good(k) BY <3>3, <3>4
    <3> HIDE DEF Good
    <3> QED BY <2>1, <3>5
  <2>6. CASE edges[k] \notin set
    <3>1. r[k] = r[k - 1] BY <2>2, <2>6 DEF Keep
    <3>2. First(k) = First(k - 1) BY <2>4, <2>6
    <3>3. Good(k) BY <2>3, <3>1, <3>2
    <3> HIDE DEF Good
    <3> QED BY <2>1, <3>3
  <2> QED BY <2>5, <2>6
<1>5. Good(n)
  <2>1. 0..n \subseteq S
    <3> HIDE DEF S
    <3> QED BY <1>2, <1>3, <1>4, UpTo
  <2>2. n \in 0..n BY <1>2
  <2> HIDE DEF Good
  <2> QED BY <2>1, <2>2
<1>6. First(n) = ToSet(edges) \cap set
  BY <1>2 DEF ToSet
<1>7. r[n] \in Seq(E)
  <2>1. n \in 0..n BY <1>2
  <2> QED BY <2>1
<1> QED BY <1>1, <1>5, <1>6, <1>7

\* Arrows between names of I.
ArrowsOver(I) == [from : I, to : I]

\* The arrow from s to t.
Link(s, t) == [from |-> s, to |-> t]

\* An arrow is its two ends.
LEMMA ArrowFacts ==
  ASSUME NEW I
  PROVE  /\ \A a \in ArrowsOver(I) : a.from \in I /\ a.to \in I /\ a = Link(a.from, a.to)
         /\ \A s, t \in I : Link(s, t) \in ArrowsOver(I)
         /\ \A p \in ProgramsOver(I) : p.edges \in Seq(ArrowsOver(I))
         /\ \A s, t : Link(s, t).from = s /\ Link(s, t).to = t
         /\ \A s, t, u, v : Link(s, t) = Link(u, v) <=> s = u /\ t = v
BY DEF ArrowsOver, ProgramsOver, Link

\* Join adds one arrow, unless it would be a loop or a repetition.
LEMMA JoinFacts ==
  ASSUME NEW I, NEW edges \in Seq(ArrowsOver(I)), NEW source \in I, NEW target \in I
  PROVE  /\ Join(edges, source, target) \in Seq(ArrowsOver(I))
         /\ \A x : x \in ToSet(Join(edges, source, target)) <=>
              x \in ToSet(edges) \/ (source # target /\ x = Link(source, target))
         /\ Injective(edges) => Injective(Join(edges, source, target))
<1> DEFINE arrow == Link(source, target)
<1>1. arrow \in ArrowsOver(I)
  BY ArrowFacts
<1>2. Contains(edges, arrow) <=> arrow \in ToSet(edges)
  BY LenProperties DEF Contains, ToSet
<1>3. Join(edges, source, target) =
        IF source = target \/ arrow \in ToSet(edges) THEN edges ELSE Append(edges, arrow)
  BY <1>2 DEF Join, Link
<1> HIDE DEF arrow
<1>4. CASE source = target \/ arrow \in ToSet(edges)
  <2>1. Join(edges, source, target) = edges
    BY <1>3, <1>4
  <2>2. \A x : x \in ToSet(edges) <=> x \in ToSet(edges) \/ (source # target /\ x = arrow)
    BY <1>4
  <2> QED BY <2>1, <2>2, Zenon DEF arrow
<1>5. CASE ~(source = target \/ arrow \in ToSet(edges))
  <2>1. Join(edges, source, target) = Append(edges, arrow) BY <1>3, <1>5
  <2>2. Append(edges, arrow) \in Seq(ArrowsOver(I)) BY <1>1, AppendProperties
  <2>3. ToSet(Append(edges, arrow)) = ToSet(edges) \cup {arrow} BY <1>1, AppendOrder
  <2>4. Injective(edges) => Injective(Append(edges, arrow)) BY <1>1, <1>5, AppendFresh
  <2>5. \A x : x \in ToSet(Append(edges, arrow)) <=> x \in ToSet(edges) \/ (source # target /\ x = arrow)
    BY <1>5, <2>3
  <2> QED BY <2>1, <2>2, <2>4, <2>5, Zenon DEF arrow
<1> QED BY <1>4, <1>5

\* Joining a source to several targets, target by target.
LEMMA JoinAllRun ==
  ASSUME NEW I, NEW edges \in Seq(ArrowsOver(I)), NEW source \in I,
         NEW targets \in Seq(ArrowsOver(I))
  PROVE  \E r \in [0..Len(targets) -> Seq(ArrowsOver(I))] :
           /\ r[0] = edges
           /\ \A k \in 1..Len(targets) : r[k] = Join(r[k - 1], source, targets[k].to)
           /\ JoinAll(edges, source, targets) = r[Len(targets)]
<1> DEFINE n == Len(targets)
           V == Seq(ArrowsOver(I))
           G == [k \in 1..n |-> [v \in V |-> Join(v, source, targets[k].to)]]
           F(it) == [s \in SUBSET (1..n) |->
                       IF s = {} THEN edges ELSE Join(it[s \ {Max(s)}], source, targets[Max(s)].to)]
           it == CHOOSE it : it = F(it)
<1>1. n \in Nat /\ DOMAIN targets = 1..n
  BY LenProperties
<1>2. \A k \in 1..n, v \in V : Join(v, source, targets[k].to) \in V
  <2> TAKE k \in 1..n, v \in V
  <2>1. targets[k] \in ArrowsOver(I) BY ElementOfSeq
  <2>2. targets[k].to \in I BY <2>1, ArrowFacts
  <2> QED BY <2>2, JoinFacts
<1>3. G \in [1..n -> [V -> V]] /\ edges \in V
  BY <1>2
<1>4. \A k \in 1..n, v \in V : G[k][v] = Join(v, source, targets[k].to)
  OBVIOUS
<1>5. JoinAll(edges, source, targets) = it[1..n]
  BY <1>1 DEF JoinAll, FoldLeft, MapThenFoldSet
<1> HIDE DEF n, V, G
<1>6. \E f : f = F(f)
  <2>1. PICK f \in [SUBSET (1..n) -> V] : Folds(f, edges, n, G)
    <3>1. Steps(V, edges, n, G) BY <1>1, <1>3 DEF Steps
    <3> QED BY <3>1, FoldExists
  <2>2. ASSUME NEW s \in SUBSET (1..n)
        PROVE  f[s] = IF s = {} THEN edges ELSE Join(f[s \ {Max(s)}], source, targets[Max(s)].to)
    <3>1. f[s] = IF s = {} THEN edges ELSE G[Max(s)][f[s \ {Max(s)}]]
      BY <2>1 DEF Folds
    <3>2. CASE s # {}
      <4>1. Max(s) \in 1..n
        BY <1>1, <3>2, MaxOf
      <4> QED BY <1>4, <3>1, <3>2, <4>1
    <3> QED BY <3>1, <3>2
  <2>3. f = F(f)
    BY <2>2
  <2> QED BY <2>3
<1>7. it = F(it)
  BY <1>6
<1> HIDE DEF it
<1>8. it[{}] = edges
  BY <1>7
<1>9. ASSUME NEW s \in SUBSET (1..n), s # {}, it[s \ {Max(s)}] \in V
      PROVE  it[s] = G[Max(s)][it[s \ {Max(s)}]]
  <2>1. it[s] = Join(it[s \ {Max(s)}], source, targets[Max(s)].to)
    BY <1>7, <1>9
  <2>2. Max(s) \in 1..n
    BY <1>1, <1>9, MaxOf
  <2> QED BY <1>4, <1>9, <2>1, <2>2
<1>10. PICK r \in [0..n -> V] : Runs(r, edges, n, G) /\ it[1..n] = r[n]
  <2>1. Steps(V, edges, n, G)
    BY <1>1, <1>3 DEF Steps
  <2>2. FoldsIn(V, it, edges, n, G)
    BY <1>8, <1>9, <2>1 DEF FoldsIn
  <2> QED BY <2>2, FoldRun
<1>11. ASSUME NEW k \in 1..n PROVE r[k] = Join(r[k - 1], source, targets[k].to)
  <2>1. k - 1 \in 0..n BY <1>1
  <2> QED BY <1>4, <1>10, <2>1 DEF Runs
<1>12. r[0] = edges
  BY <1>10 DEF Runs
<1> QED BY <1>5, <1>10, <1>11, <1>12 DEF n, V

\* A loop whose steps each add some arrows adds them all.
LEMMA Collected ==
  ASSUME NEW E, NEW n \in Nat, NEW r \in [0..n -> Seq(E)], NEW A,
         \A k \in 1..n : /\ \A x : x \in ToSet(r[k]) <=> x \in ToSet(r[k - 1]) \/ x \in A[k]
                         /\ Injective(r[k - 1]) => Injective(r[k])
  PROVE  /\ \A x : x \in ToSet(r[n]) <=> x \in ToSet(r[0]) \/ \E k \in 1..n : x \in A[k]
         /\ Injective(r[0]) => Injective(r[n])
<1> DEFINE Good(k) == /\ \A x : x \in ToSet(r[k]) <=> x \in ToSet(r[0]) \/ \E j \in 1..k : x \in A[j]
                      /\ Injective(r[0]) => Injective(r[k])
           S == {k \in 0..n : Good(k)}
<1>1. 0 \in S
  <2>1. 1..0 = {} OBVIOUS
  <2>2. Good(0) BY <2>1
  <2> HIDE DEF Good
  <2> QED BY <2>2
<1>2. ASSUME NEW k \in 1..n, k - 1 \in S PROVE k \in S
  <2>1. Good(k - 1)
    <3> HIDE DEF Good
    <3> QED BY <1>2
  <2>2. 1..k = 1..(k - 1) \cup {k} OBVIOUS
  <2>3. Good(k)
    <3>1. \A x : (\E j \in 1..k : x \in A[j]) <=> (\E j \in 1..(k - 1) : x \in A[j]) \/ x \in A[k]
      BY <2>2
    <3> QED BY <2>1, <3>1
  <2>4. k \in 0..n OBVIOUS
  <2> HIDE DEF Good
  <2> QED BY <2>3, <2>4
<1>3. Good(n)
  <2>1. 0..n \subseteq S
    <3> HIDE DEF S
    <3> QED BY <1>1, <1>2, UpTo
  <2>2. n \in 0..n OBVIOUS
  <2> HIDE DEF Good
  <2> QED BY <2>1, <2>2
<1> QED BY <1>3

\* A source is joined to every target.
LEMMA JoinAllFacts ==
  ASSUME NEW I, NEW edges \in Seq(ArrowsOver(I)), NEW source \in I, NEW targets \in Seq(ArrowsOver(I))
  PROVE  /\ JoinAll(edges, source, targets) \in Seq(ArrowsOver(I))
         /\ \A x : x \in ToSet(JoinAll(edges, source, targets)) <=>
              \/ x \in ToSet(edges)
              \/ \E t \in ToSet(targets) : source # t.to /\ x = Link(source, t.to)
         /\ Injective(edges) => Injective(JoinAll(edges, source, targets))
<1> DEFINE n == Len(targets)
           A == [k \in 1..n |-> {a \in {Link(source, targets[k].to)} : source # targets[k].to}]
<1>1. PICK r \in [0..n -> Seq(ArrowsOver(I))] :
           /\ r[0] = edges
           /\ \A k \in 1..n : r[k] = Join(r[k - 1], source, targets[k].to)
           /\ JoinAll(edges, source, targets) = r[n]
  BY JoinAllRun
<1>2. n \in Nat /\ DOMAIN targets = 1..n /\ \A k \in 1..n : targets[k].to \in I
  <2>1. n \in Nat /\ DOMAIN targets = 1..n BY LenProperties
  <2>2. \A k \in 1..n : targets[k] \in ArrowsOver(I) BY ElementOfSeq
  <2> QED BY <2>1, <2>2, ArrowFacts
<1> HIDE DEF n
<1>3. ASSUME NEW k \in 1..n
      PROVE  \A x : x \in A[k] <=> source # targets[k].to /\ x = Link(source, targets[k].to)
  OBVIOUS
<1> HIDE DEF A
<1>4. ASSUME NEW k \in 1..n
      PROVE  /\ \A x : x \in ToSet(r[k]) <=> x \in ToSet(r[k - 1]) \/ x \in A[k]
             /\ Injective(r[k - 1]) => Injective(r[k])
  <2>1. k - 1 \in 0..n BY <1>2
  <2>2. r[k - 1] \in Seq(ArrowsOver(I)) /\ targets[k].to \in I
    BY <1>1, <1>2, <2>1
  <2>3. r[k] = Join(r[k - 1], source, targets[k].to)
    BY <1>1
  <2> DEFINE before == r[k - 1]
             target == targets[k].to
  <2> HIDE DEF before, target
  <2>4. /\ \A x : x \in ToSet(Join(before, source, target)) <=>
             x \in ToSet(before) \/ (source # target /\ x = Link(source, target))
        /\ Injective(before) => Injective(Join(before, source, target))
    <3>1. before \in Seq(ArrowsOver(I)) /\ target \in I
      BY <2>2 DEF before, target
    <3> QED BY <3>1, JoinFacts
  <2>5. \A x : x \in A[k] <=> source # target /\ x = Link(source, target)
    BY <1>3 DEF target
  <2>6. r[k] = Join(before, source, target)
    BY <2>3 DEF before, target
  <2> QED BY <2>4, <2>5, <2>6, Zenon DEF before
<1>5. /\ \A x : x \in ToSet(r[n]) <=> x \in ToSet(r[0]) \/ \E k \in 1..n : x \in A[k]
      /\ Injective(r[0]) => Injective(r[n])
  BY <1>2, <1>4, Collected
<1>6. ASSUME NEW x
      PROVE  (\E k \in 1..n : x \in A[k]) <=>
               \E t \in ToSet(targets) : source # t.to /\ x = Link(source, t.to)
  <2>1. ToSet(targets) = {targets[k] : k \in 1..n} BY <1>2 DEF ToSet
  <2> QED BY <1>3, <2>1
<1>7. n \in 0..n BY <1>2
<1> QED BY <1>1, <1>5, <1>6, <1>7

\* Joining all sources of a deleted node, source by source.
LEMMA BridgeRun ==
  ASSUME NEW I, NEW p \in ProgramsOver(I), NEW id,
         Only(p.edges, Apart(p, id)) \in Seq(ArrowsOver(I)),
         Only(p.edges, Into(p, id)) \in Seq(ArrowsOver(I)),
         Only(p.edges, OutOf(p, id)) \in Seq(ArrowsOver(I))
  PROVE  \E r \in [0..Len(Only(p.edges, Into(p, id))) -> Seq(ArrowsOver(I))] :
           /\ r[0] = Only(p.edges, Apart(p, id))
           /\ \A k \in 1..Len(Only(p.edges, Into(p, id))) :
                r[k] = JoinAll(r[k - 1], Only(p.edges, Into(p, id))[k].from, Only(p.edges, OutOf(p, id)))
           /\ Bridge(p, id) = r[Len(Only(p.edges, Into(p, id)))]
<1> DEFINE apart == Only(p.edges, Apart(p, id))
           into == Only(p.edges, Into(p, id))
           out == Only(p.edges, OutOf(p, id))
           n == Len(into)
           V == Seq(ArrowsOver(I))
           G == [k \in 1..n |-> [v \in V |-> JoinAll(v, into[k].from, out)]]
           F(it) == [s \in SUBSET (1..n) |->
                       IF s = {} THEN apart
                       ELSE JoinAll(it[s \ {Max(s)}], into[Max(s)].from, out)]
           it == CHOOSE it : it = F(it)
<1>1. n \in Nat /\ DOMAIN into = 1..n
  BY LenProperties
<1>2. \A k \in 1..n, v \in V : JoinAll(v, into[k].from, out) \in V
  <2> TAKE k \in 1..n, v \in V
  <2>1. into[k] \in ArrowsOver(I) BY ElementOfSeq
  <2>2. into[k].from \in I BY <2>1, ArrowFacts
  <2> QED BY <2>2, JoinAllFacts
<1>3. G \in [1..n -> [V -> V]] /\ apart \in V
  BY <1>2
<1>4. \A k \in 1..n, v \in V : G[k][v] = JoinAll(v, into[k].from, out)
  OBVIOUS
<1>5. Bridge(p, id) = it[1..n]
  BY <1>1 DEF Bridge, FoldLeft, MapThenFoldSet
<1> HIDE DEF n, V, G, apart, into, out
<1>6. \E f : f = F(f)
  <2>1. PICK f \in [SUBSET (1..n) -> V] : Folds(f, apart, n, G)
    <3>1. Steps(V, apart, n, G) BY <1>1, <1>3 DEF Steps
    <3> QED BY <3>1, FoldExists
  <2>2. ASSUME NEW s \in SUBSET (1..n)
        PROVE  f[s] = IF s = {} THEN apart
                      ELSE JoinAll(f[s \ {Max(s)}], into[Max(s)].from, out)
    <3>1. f[s] = IF s = {} THEN apart ELSE G[Max(s)][f[s \ {Max(s)}]]
      BY <2>1 DEF Folds
    <3>2. CASE s # {}
      <4>1. Max(s) \in 1..n
        BY <1>1, <3>2, MaxOf
      <4> QED BY <1>4, <3>1, <3>2, <4>1
    <3> QED BY <3>1, <3>2
  <2>3. f = F(f)
    BY <2>2
  <2> QED BY <2>3
<1>7. it = F(it)
  BY <1>6
<1> HIDE DEF it
<1>8. it[{}] = apart
  BY <1>7
<1>9. ASSUME NEW s \in SUBSET (1..n), s # {}, it[s \ {Max(s)}] \in V
      PROVE  it[s] = G[Max(s)][it[s \ {Max(s)}]]
  <2>1. it[s] = JoinAll(it[s \ {Max(s)}], into[Max(s)].from, out)
    BY <1>7, <1>9
  <2>2. Max(s) \in 1..n
    BY <1>1, <1>9, MaxOf
  <2> QED BY <1>4, <1>9, <2>1, <2>2
<1>10. PICK r \in [0..n -> V] : Runs(r, apart, n, G) /\ it[1..n] = r[n]
  <2>1. Steps(V, apart, n, G)
    BY <1>1, <1>3 DEF Steps
  <2>2. FoldsIn(V, it, apart, n, G)
    BY <1>8, <1>9, <2>1 DEF FoldsIn
  <2> QED BY <2>2, FoldRun
<1>11. ASSUME NEW k \in 1..n PROVE r[k] = JoinAll(r[k - 1], into[k].from, out)
  <2>1. k - 1 \in 0..n BY <1>1
  <2> QED BY <1>4, <1>10, <2>1 DEF Runs
<1>12. r[0] = apart
  BY <1>10 DEF Runs
<1>13. \E w \in [0..n -> V] : /\ w[0] = apart /\ Bridge(p, id) = w[n]
                             /\ \A k \in 1..n : w[k] = JoinAll(w[k - 1], into[k].from, out)
  BY <1>5, <1>10, <1>11, <1>12
<1> QED BY <1>13 DEF n, V, apart, into, out

\* The arrows once a node is deleted are those that did not touch it, and one
\* from each of its sources to each of its targets; none is repeated.
LEMMA BridgeFacts ==
  ASSUME NEW I, NEW p \in ProgramsOver(I), NEW id
  PROVE  /\ Bridge(p, id) \in Seq(ArrowsOver(I))
         /\ \A source, target : Link(source, target) \in ToSet(Bridge(p, id)) <=>
              \/ /\ Link(source, target) \in ToSet(p.edges)
                 /\ source # id /\ target # id
              \/ /\ source # target
                 /\ Link(source, id) \in ToSet(p.edges)
                 /\ Link(id, target) \in ToSet(p.edges)
         /\ Unique(p.edges) => Injective(Bridge(p, id))
<1> DEFINE E == ArrowsOver(I)
           edges == Only(p.edges, Apart(p, id))
           into == Only(p.edges, Into(p, id))
           out == Only(p.edges, OutOf(p, id))
           n == Len(into)
           A == [k \in 1..n |-> {Link(into[k].from, t.to) :
                                   t \in {d \in ToSet(out) : into[k].from # d.to}}]
<1>1. p.edges \in Seq(E) /\ (Unique(p.edges) => Injective(p.edges))
  <2>1. p.edges \in Seq(E) BY ArrowFacts
  <2> QED BY <2>1, UniqueInjective DEF Injective
<1>2. edges \in Seq(E) /\ into \in Seq(E) /\ out \in Seq(E)
  BY <1>1, OnlyFacts
<1>3. /\ ToSet(edges) = Apart(p, id) /\ ToSet(into) = Into(p, id) /\ ToSet(out) = OutOf(p, id)
      /\ Unique(p.edges) => Injective(edges)
  <2>1. /\ ToSet(edges) = ToSet(p.edges) \cap Apart(p, id)
        /\ ToSet(into) = ToSet(p.edges) \cap Into(p, id)
        /\ ToSet(out) = ToSet(p.edges) \cap OutOf(p, id)
        /\ Unique(p.edges) => Injective(edges)
    BY <1>1, OnlyFacts
  <2> HIDE DEF edges, into, out
  <2> QED BY <2>1 DEF Apart, Into, OutOf
<1>4. PICK r \in [0..n -> Seq(E)] :
           /\ r[0] = edges
           /\ \A k \in 1..n : r[k] = JoinAll(r[k - 1], into[k].from, out)
           /\ Bridge(p, id) = r[n]
  BY <1>2, BridgeRun
<1> HIDE DEF edges, into, out
<1>5. n \in Nat /\ DOMAIN into = 1..n /\ \A k \in 1..n : into[k].from \in I
  <2>1. n \in Nat /\ DOMAIN into = 1..n BY <1>2, LenProperties
  <2>2. \A k \in 1..n : into[k] \in ArrowsOver(I) BY <1>2, ElementOfSeq
  <2> QED BY <2>1, <2>2, ArrowFacts
<1> HIDE DEF n
<1>6. ASSUME NEW k \in 1..n
      PROVE  \A x : x \in A[k] <=> \E t \in ToSet(out) :
               into[k].from # t.to /\ x = Link(into[k].from, t.to)
  OBVIOUS
<1> HIDE DEF A
<1>7. ASSUME NEW k \in 1..n
      PROVE  /\ \A x : x \in ToSet(r[k]) <=> x \in ToSet(r[k - 1]) \/ x \in A[k]
             /\ Injective(r[k - 1]) => Injective(r[k])
  <2>1. k - 1 \in 0..n BY <1>5
  <2>2. r[k - 1] \in Seq(E) /\ into[k].from \in I
    BY <1>5, <2>1
  <2>3. r[k] = JoinAll(r[k - 1], into[k].from, out)
    BY <1>4
  <2>4. /\ \A x : x \in ToSet(r[k]) <=>
               \/ x \in ToSet(r[k - 1])
               \/ \E t \in ToSet(out) : into[k].from # t.to /\ x = Link(into[k].from, t.to)
        /\ Injective(r[k - 1]) => Injective(r[k])
    BY <1>2, <2>2, <2>3, JoinAllFacts
  <2> QED BY <1>6, <2>4, Zenon
<1>8. /\ \A x : x \in ToSet(r[n]) <=> x \in ToSet(r[0]) \/ \E k \in 1..n : x \in A[k]
      /\ Injective(r[0]) => Injective(r[n])
  BY <1>5, <1>7, Collected
<1>9. r[n] \in Seq(E)
  <2>1. n \in 0..n BY <1>5
  <2> QED BY <2>1
<1>10. \A e \in ToSet(p.edges) : e = Link(e.from, e.to)
  <2>1. \A i \in DOMAIN p.edges : p.edges[i] \in ArrowsOver(I)
    BY <1>1, LenProperties, ElementOfSeq
  <2>2. \A i \in DOMAIN p.edges : p.edges[i] = Link(p.edges[i].from, p.edges[i].to)
    BY <2>1, ArrowFacts
  <2> QED BY <2>2 DEF ToSet
<1>11. ASSUME NEW source, NEW target
       PROVE  Link(source, target) \in ToSet(Bridge(p, id)) <=>
              \/ /\ Link(source, target) \in ToSet(p.edges)
                 /\ source # id /\ target # id
              \/ /\ source # target
                 /\ Link(source, id) \in ToSet(p.edges)
                 /\ Link(id, target) \in ToSet(p.edges)
  <2> DEFINE a == Link(source, target)
  <2>0. a.from = source /\ a.to = target BY ArrowFacts
  <2>1. \A s, t : a = Link(s, t) <=> source = s /\ target = t BY ArrowFacts
  <2>2. a \in Apart(p, id) <=> a \in ToSet(p.edges) /\ source # id /\ target # id
    BY <2>0 DEF Apart, Into, OutOf
  <2>3. (\E s \in Into(p, id) : s.from = source) <=> Link(source, id) \in ToSet(p.edges)
    <3>1. ASSUME NEW s \in Into(p, id), s.from = source PROVE Link(source, id) \in ToSet(p.edges)
      BY <1>10, <3>1 DEF Into
    <3>2. ASSUME Link(source, id) \in ToSet(p.edges) PROVE \E s \in Into(p, id) : s.from = source
      BY <3>2, ArrowFacts DEF Into
    <3> QED BY <3>1, <3>2
  <2>4. (\E t \in OutOf(p, id) : t.to = target) <=> Link(id, target) \in ToSet(p.edges)
    <3>1. ASSUME NEW t \in OutOf(p, id), t.to = target PROVE Link(id, target) \in ToSet(p.edges)
      BY <1>10, <3>1 DEF OutOf
    <3>2. ASSUME Link(id, target) \in ToSet(p.edges) PROVE \E t \in OutOf(p, id) : t.to = target
      BY <3>2, ArrowFacts DEF OutOf
    <3> QED BY <3>1, <3>2
  <2> HIDE DEF a
  <2>5. (\E k \in 1..n : a \in A[k]) <=>
          \E s \in Into(p, id), t \in OutOf(p, id) : s.from # t.to /\ a = Link(s.from, t.to)
    <3>1. Into(p, id) = {into[k] : k \in 1..n} BY <1>3, <1>5 DEF ToSet
    <3> QED BY <1>3, <1>6, <3>1
  <2>6. a \in ToSet(Bridge(p, id)) <=> a \in Apart(p, id) \/ \E k \in 1..n : a \in A[k]
    BY <1>3, <1>4, <1>8
  <2>7. (\E k \in 1..n : a \in A[k]) <=>
          /\ source # target
          /\ \E s \in Into(p, id) : s.from = source
          /\ \E t \in OutOf(p, id) : t.to = target
    BY <2>1, <2>5
  <2> QED BY <2>2, <2>3, <2>4, <2>6, <2>7 DEF a
<1>12. Unique(p.edges) => Injective(Bridge(p, id))
  BY <1>3, <1>4, <1>8
<1> QED BY <1>4, <1>9, <1>11, <1>12

-----------------------------------------------------------------------------
(* Edits keep a program clean                                              *)

\* Every arrow joins two nodes, none is repeated and there is no loop.
Clean(p) == KnownEdges(p) /\ Unique(p.edges) /\ Acyclic(p)

\* The tests over indices of arrows, as tests over arrows.
LEMMA ByArrow ==
  ASSUME NEW p
  PROVE  /\ KnownEdges(p) <=> \A e \in ToSet(p.edges) : e.from \in Ids(p) /\ e.to \in Ids(p)
         /\ Acyclic(p) <=> \A U \in SUBSET Ids(p) : U # {} =>
              \E u \in U : \A e \in ToSet(p.edges) : e.to = u => e.from \notin U
         /\ \A set : Follows(p, set) <=>
              \A e \in ToSet(p.edges) : e.from \in set /\ e.from \in Ids(p) => e.to \in set
<1>1. ToSet(p.edges) = {p.edges[i] : i \in DOMAIN p.edges}
  BY DEF ToSet
<1>2. KnownEdges(p) <=> \A e \in ToSet(p.edges) : e.from \in Ids(p) /\ e.to \in Ids(p)
  BY <1>1 DEF KnownEdges
<1>3. ASSUME NEW U, NEW u
      PROVE  (\A i \in DOMAIN p.edges : p.edges[i].to = u => p.edges[i].from \notin U) <=>
               \A e \in ToSet(p.edges) : e.to = u => e.from \notin U
  BY <1>1
<1>4. Acyclic(p) <=> \A U \in SUBSET Ids(p) : U # {} =>
              \E u \in U : \A e \in ToSet(p.edges) : e.to = u => e.from \notin U
  BY <1>3 DEF Acyclic
<1>5. \A set : Follows(p, set) <=>
              \A e \in ToSet(p.edges) : e.from \in set /\ e.from \in Ids(p) => e.to \in set
  BY <1>1 DEF Follows
<1> QED BY <1>2, <1>4, <1>5

\* A sequence without its i-th element.
LEMMA RemoveAtFacts ==
  ASSUME NEW S, NEW s \in Seq(S), NEW i \in 1..Len(s)
  PROVE  LET q == RemoveAt(s, i) IN
         /\ q \in Seq(S) /\ Len(q) = Len(s) - 1
         /\ \A j \in 1..Len(q) : q[j] = s[IF j < i THEN j ELSE j + 1]
         /\ ToSet(q) = {s[j] : j \in 1..Len(s) \ {i}}
         /\ Injective(s) => Injective(q)
<1> DEFINE q == RemoveAt(s, i)
           a == SubSeq(s, 1, i - 1)
           b == SubSeq(s, i + 1, Len(s))
<1>0. Len(s) \in Nat /\ \A j \in 1..Len(s) : s[j] \in S
  BY LenProperties, ElementOfSeq
<1>1. a \in Seq(S) /\ Len(a) = i - 1 /\ \A j \in 1..(i - 1) : a[j] = s[j]
  BY <1>0
<1>2. b \in Seq(S) /\ Len(b) = Len(s) - i /\ \A j \in 1..(Len(s) - i) : b[j] = s[i + j]
  BY <1>0
<1> HIDE DEF a, b
<1>3. q = a \o b
  BY DEF RemoveAt, a, b
<1>4. q \in Seq(S) /\ Len(q) = Len(s) - 1
  BY <1>0, <1>1, <1>2, <1>3
<1>5. ASSUME NEW j \in 1..Len(q) PROVE q[j] = s[IF j < i THEN j ELSE j + 1]
  <2>1. q[j] = IF j <= Len(a) THEN a[j] ELSE b[j - Len(a)]
    BY <1>0, <1>1, <1>2, <1>3, <1>4, ConcatProperties
  <2>2. CASE j < i
    BY <1>0, <1>1, <1>4, <2>1, <2>2
  <2>3. CASE ~(j < i)
    <3>1. j - Len(a) \in 1..(Len(s) - i) /\ i + (j - Len(a)) = j + 1 /\ ~(j <= Len(a))
      BY <1>0, <1>1, <1>4, <2>3
    <3> QED BY <1>2, <2>1, <2>3, <3>1
  <2> QED BY <2>2, <2>3
<1> HIDE DEF q
<1>6. DOMAIN q = 1..Len(q)
  BY <1>4, LenProperties
<1>7. ToSet(q) = {s[j] : j \in 1..Len(s) \ {i}}
  <2>1. ASSUME NEW x \in ToSet(q) PROVE x \in {s[j] : j \in 1..Len(s) \ {i}}
    <3>1. PICK j \in 1..Len(q) : x = q[j] BY <1>6, <2>1 DEF ToSet
    <3>2. CASE j < i
      <4>1. j \in 1..Len(s) \ {i} BY <1>0, <1>4, <3>2
      <4> QED BY <1>5, <3>1, <3>2, <4>1
    <3>3. CASE ~(j < i)
      <4>1. j + 1 \in 1..Len(s) \ {i} BY <1>0, <1>4, <3>3
      <4> QED BY <1>5, <3>1, <3>3, <4>1
    <3> QED BY <3>2, <3>3
  <2>2. ASSUME NEW j \in 1..Len(s) \ {i} PROVE s[j] \in ToSet(q)
    <3>1. CASE j < i
      <4>1. j \in 1..Len(q) BY <1>0, <1>4, <3>1
      <4> QED BY <1>5, <1>6, <3>1, <4>1 DEF ToSet
    <3>2. CASE ~(j < i)
      <4>1. j - 1 \in 1..Len(q) /\ ~(j - 1 < i) /\ (j - 1) + 1 = j BY <1>0, <1>4, <3>2
      <4> QED BY <1>5, <1>6, <4>1 DEF ToSet
    <3> QED BY <3>1, <3>2
  <2> QED BY <2>1, <2>2
<1>8. ASSUME Injective(s) PROVE Injective(q)
  <2> SUFFICES ASSUME NEW j \in 1..Len(q), NEW k \in 1..Len(q), q[j] = q[k] PROVE j = k
    BY DEF Injective
  <2> DEFINE f(x) == IF x < i THEN x ELSE x + 1
  <2>1. s[f(j)] = s[f(k)] BY <1>5
  <2>2. f(j) \in 1..Len(s) /\ f(k) \in 1..Len(s) BY <1>0, <1>4
  <2>3. f(j) = f(k) BY <1>8, <2>1, <2>2 DEF Injective
  <2> QED BY <1>0, <1>4, <2>3
<1> QED BY <1>4, <1>5, <1>7, <1>8 DEF q

\* The test for repetition, by its other name.
LEMMA UniqueIs ==
  ASSUME NEW S, NEW s \in Seq(S)
  PROVE  Unique(s) <=> Injective(s)
BY UniqueInjective DEF Injective

\* A name with a suffix more is a name.
LEMMA SuffixName ==
  ASSUME NEW stem \in Names, NEW k \in Nat
  PROVE  /\ WithSuffix(stem, k) \in Names
         /\ WithSuffix(stem, k).suffix = Append(stem.suffix, k)
<1>1. stem \in [word : STRING, suffix : Seq(Nat)]
  BY DEF Names
<1> DEFINE x == Append(stem.suffix, k)
<1>2. x \in Seq(Nat)
  BY <1>1, AppendProperties
<1>3. WithSuffix(stem, k) = [stem EXCEPT !.suffix = x]
  BY DEF WithSuffix
<1> HIDE DEF x
<1>4. [stem EXCEPT !.suffix = x] = [word |-> stem.word, suffix |-> x]
  BY <1>1
<1> QED BY <1>1, <1>2, <1>3, <1>4 DEF Names, x

\* uniquePhaseId returns an id no node has: as many counters as there are nodes
\* are enough.
LEMMA FreshId ==
  ASSUME NEW p \in ProgramsOver(Names), NEW stem \in Names
  PROVE  uniquePhaseId(stem, p) \in Names /\ uniquePhaseId(stem, p) \notin Ids(p)
<1> DEFINE n == Len(p.phases)
           free == {k \in 2..(n + 1) : WithSuffix(stem, k) \notin Ids(p)}
<1>1. n \in Nat /\ IsFiniteSet(Ids(p)) /\ Cardinality(Ids(p)) <= n /\ Cardinality(Ids(p)) \in Nat
  BY ProgramFacts, IdFacts
<1>2. stem.word \in STRING /\ stem.suffix \in Seq(Nat)
  BY DEF Names
<1>3. ASSUME NEW k \in Nat
      PROVE  /\ WithSuffix(stem, k) \in Names
             /\ WithSuffix(stem, k).suffix = Append(stem.suffix, k)
  BY SuffixName
<1>4. CASE stem \notin Ids(p)
  BY <1>4 DEF uniquePhaseId
<1>5. CASE stem \in Ids(p)
  <2>1. free # {}
    <3> SUFFICES ASSUME free = {} PROVE FALSE
      OBVIOUS
    <3> DEFINE f == [k \in 1..(n + 1) |-> IF k = 1 THEN stem ELSE WithSuffix(stem, k)]
    <3>1. ASSUME NEW k \in 1..(n + 1) PROVE f[k] \in Ids(p)
      <4>1. CASE k # 1
        <5>1. k \in 2..(n + 1) BY <1>1, <4>1
        <5>2. WithSuffix(stem, k) \in Ids(p) BY <5>1
        <5> QED BY <4>1, <5>2
      <4> QED BY <1>5, <4>1
    <3>2. f \in [1..(n + 1) -> Ids(p)]
      BY <3>1
    <3>3. ASSUME NEW j \in 1..(n + 1), NEW k \in 1..(n + 1), f[j] = f[k] PROVE j = k
      <4>1. j \in Nat /\ k \in Nat BY <1>1
      <4>2. ASSUME NEW x \in Nat PROVE Len(WithSuffix(stem, x).suffix) = Len(stem.suffix) + 1
                                       /\ WithSuffix(stem, x).suffix[Len(stem.suffix) + 1] = x
        BY <1>2, <1>3
      <4>3. Len(stem.suffix) \in Nat BY <1>2
      <4>4. CASE j = 1 \/ k = 1
        BY <3>3, <4>1, <4>2, <4>3, <4>4
      <4>5. CASE j # 1 /\ k # 1
        <5>1. WithSuffix(stem, j) = WithSuffix(stem, k) BY <3>3, <4>5
        <5> QED BY <4>1, <4>2, <5>1
      <4> QED BY <4>4, <4>5
    <3>4. IsFiniteSet(1..(n + 1)) /\ Cardinality(1..(n + 1)) = n + 1
      <4>1. 1 \in Int /\ n + 1 \in Int /\ ~(1 > n + 1) /\ (n + 1) - 1 + 1 = n + 1 BY <1>1
      <4> QED BY <4>1, FS_Interval
    <3>5. Cardinality(Ids(p)) < Cardinality(1..(n + 1))
      BY <1>1, <3>4
    <3> DEFINE S == 1..(n + 1)
               T == Ids(p)
    <3>6. IsFiniteSet(S) /\ IsFiniteSet(T) /\ Cardinality(T) < Cardinality(S) /\ f \in [S -> T]
      BY <1>1, <3>2, <3>4, <3>5
    <3>7. \A j, k \in S : f[j] = f[k] => j = k
      BY <3>3
    <3> HIDE DEF f, S, T
    <3> QED BY <3>6, <3>7, FS_PigeonHole
  <2>2. free \subseteq Nat
    BY <1>1
  <2>3. \E x \in free : \A y \in free : x =< y
    <3> HIDE DEF free
    <3> QED BY <2>1, <2>2, Least
  <2>4. Min(free) \in free
    <3> HIDE DEF free
    <3> QED BY <2>3 DEF Min
  <2>5. uniquePhaseId(stem, p) = WithSuffix(stem, Min(free))
    BY <1>5 DEF uniquePhaseId
  <2>6. Min(free) \in Nat /\ WithSuffix(stem, Min(free)) \notin Ids(p)
    BY <2>2, <2>4
  <2> QED BY <1>3, <2>5, <2>6
<1> QED BY <1>4, <1>5

\* What only depends on the phases.
LEMMA SamePhases ==
  ASSUME NEW p, NEW q, q.phases = p.phases
  PROVE  IdsOf(q) = IdsOf(p) /\ Ids(q) = Ids(p) /\ Works(q) = Works(p)
BY DEF IdsOf, Ids, Works

\* A program with one arrow more.
LEMMA WithEdgeIs ==
  ASSUME NEW I, NEW p \in ProgramsOver(I), NEW source \in I, NEW target \in I
  PROVE  /\ WithEdge(p, source, target) \in ProgramsOver(I)
         /\ WithEdge(p, source, target).phases = p.phases
         /\ WithEdge(p, source, target).edges = Append(p.edges, Link(source, target))
         /\ (Unique(p.edges) /\ Link(source, target) \notin ToSet(p.edges)) =>
              Unique(WithEdge(p, source, target).edges)
<1> DEFINE q == WithEdge(p, source, target)
           a == Append(p.edges, Link(source, target))
<1>1. p.edges \in Seq(ArrowsOver(I)) /\ Link(source, target) \in ArrowsOver(I)
  BY ArrowFacts
<1>2. a \in Seq(ArrowsOver(I)) /\ ToSet(a) = ToSet(p.edges) \cup {Link(source, target)}
  BY <1>1, AppendOrder
<1>3. q = [p EXCEPT !.edges = a]
  BY DEF WithEdge, Link
<1>4. Unique(p.edges) /\ Link(source, target) \notin ToSet(p.edges) => Unique(a)
  BY <1>1, <1>2, UniqueIs, AppendFresh
<1> HIDE DEF a
<1>5. q.phases = p.phases /\ q.edges = a
  BY <1>3 DEF ProgramsOver
<1>6. q \in ProgramsOver(I)
  BY <1>2, <1>3 DEF ProgramsOver, ArrowsOver
<1> QED BY <1>2, <1>4, <1>5, <1>6 DEF a

\* Its arrows.
LEMMA WithEdgeArrows ==
  ASSUME NEW I, NEW p \in ProgramsOver(I), NEW source \in I, NEW target \in I
  PROVE  ToSet(WithEdge(p, source, target).edges) = ToSet(p.edges) \cup {Link(source, target)}
<1>1. p.edges \in Seq(ArrowsOver(I)) /\ Link(source, target) \in ArrowsOver(I)
  BY ArrowFacts
<1>2. WithEdge(p, source, target).edges = Append(p.edges, Link(source, target))
  BY WithEdgeIs
<1> QED BY <1>1, <1>2, AppendOrder

\* An arrow that passes the page's checks closes no loop.
LEMMA ConnectKeepsClean ==
  ASSUME NEW I, NEW p \in ProgramsOver(I), Clean(p), NEW source \in Ids(p), NEW target \in Ids(p),
         Connectable(p, source, target)
  PROVE  Clean(WithEdge(p, source, target))
<1> DEFINE q == WithEdge(p, source, target)
           R == Reached(p, target)
<1>0. source \in I /\ target \in I
  BY IdFacts
<1>1. /\ q \in ProgramsOver(I) /\ q.phases = p.phases
      /\ ToSet(q.edges) = ToSet(p.edges) \cup {Link(source, target)}
      /\ (Unique(p.edges) /\ Link(source, target) \notin ToSet(p.edges)) => Unique(q.edges)
  <2>1. q \in ProgramsOver(I)
    BY <1>0, WithEdgeIs
  <2>2. q.phases = p.phases
    BY <1>0, WithEdgeIs
  <2>3. ToSet(q.edges) = ToSet(p.edges) \cup {Link(source, target)}
    BY <1>0, WithEdgeArrows
  <2>4. ASSUME Unique(p.edges), Link(source, target) \notin ToSet(p.edges) PROVE Unique(q.edges)
    BY <1>0, <2>4, WithEdgeIs
  <2> QED BY <2>1, <2>2, <2>3, <2>4
<1> HIDE DEF q
<1>2. Ids(q) = Ids(p)
  BY <1>1, SamePhases
<1>3. KnownEdges(q)
  BY <1>1, <1>2, ByArrow, ArrowFacts DEF Clean
<1>4. Unique(q.edges)
  <2>1. Link(source, target) \notin ToSet(p.edges)
    BY ProgramFacts DEF Connectable, HasEdge, Contains, ToSet, Link
  <2> QED BY <1>1, <2>1 DEF Clean
<1>5. source \notin R /\ target \in R /\ Follows(p, R)
  BY <1>0, ReachedFacts DEF Connectable, wouldCreateCycle
<1>6. Acyclic(q)
  <2> SUFFICES ASSUME NEW U \in SUBSET Ids(p), U # {}
               PROVE  \E u \in U : \A e \in ToSet(q.edges) : e.to = u => e.from \notin U
    BY <1>2, ByArrow
  <2>0. ASSUME NEW W \in SUBSET Ids(p), W # {}
        PROVE  \E u \in W : \A e \in ToSet(p.edges) : e.to = u => e.from \notin W
    BY <2>0, ByArrow DEF Clean
  <2>1. CASE ~(source \in U /\ target \in U)
    <3>1. PICK u \in U : \A e \in ToSet(p.edges) : e.to = u => e.from \notin U
      BY <2>0
    <3> QED BY <1>1, <2>1, <3>1, ArrowFacts
  <2>2. CASE source \in U /\ target \in U
    <3> DEFINE W == U \ R
    <3>1. PICK u \in W : \A e \in ToSet(p.edges) : e.to = u => e.from \notin W
      BY <1>5, <2>0, <2>2
    <3>2. ASSUME NEW e \in ToSet(p.edges), e.to = u PROVE e.from \notin U
      <4>1. e.from \in Ids(p) BY ByArrow DEF Clean
      <4>2. e.from \notin R BY <1>5, <3>2, <4>1, ByArrow
      <4> QED BY <3>1, <3>2, <4>2
    <3>3. u # target BY <1>5
    <3> QED BY <1>1, <3>2, <3>3, ArrowFacts
  <2> QED BY <2>1, <2>2
<1> QED BY <1>3, <1>4, <1>6 DEF Clean, q

\* A new node, with an arrow from an existing one.
LEMMA AddNodeSound ==
  ASSUME NEW I, NEW p \in ProgramsOver(I), NEW phase \in [id : I, kind : STRING],
         phase.id \notin Ids(p), NEW source \in Ids(p), Unique(IdsOf(p))
  PROVE  LET next == [p EXCEPT !.phases = Append(@, phase)]
             q == WithEdge(next, source, phase.id)
         IN  /\ q \in ProgramsOver(I) /\ Unique(IdsOf(q)) /\ Len(next.phases) = Len(p.phases) + 1
             /\ Works(p) # {} => Works(q) # {}
             /\ Clean(p) => Clean(q)
<1> DEFINE next == [p EXCEPT !.phases = Append(@, phase)]
           q == WithEdge(next, source, phase.id)
           id == phase.id
<1>0. source \in I /\ id \in I
  BY IdFacts
<1>1. /\ p.phases \in Seq([id : I, kind : STRING]) /\ Len(p.phases) \in Nat
      /\ DOMAIN p.phases = 1..Len(p.phases)
  BY ProgramFacts
<1>2. next.phases = Append(p.phases, phase) /\ next.edges = p.edges /\ next \in ProgramsOver(I)
  <2> DEFINE a == Append(p.phases, phase)
  <2>1. a \in Seq([id : I, kind : STRING]) BY <1>1
  <2>2. next = [p EXCEPT !.phases = a] OBVIOUS
  <2> HIDE DEF a, next
  <2>3. next.phases = a /\ next.edges = p.edges /\ next \in ProgramsOver(I)
    BY <2>1, <2>2 DEF ProgramsOver
  <2> QED BY <2>3 DEF a
<1>3. /\ Len(next.phases) = Len(p.phases) + 1 /\ DOMAIN next.phases = 1..(Len(p.phases) + 1)
      /\ next.phases[Len(p.phases) + 1] = phase
      /\ \A i \in 1..Len(p.phases) : next.phases[i] = p.phases[i]
  BY <1>1, <1>2
<1> HIDE DEF next
<1>4. /\ q \in ProgramsOver(I) /\ q.phases = next.phases
      /\ ToSet(q.edges) = ToSet(p.edges) \cup {Link(source, id)}
      /\ (Unique(p.edges) /\ Link(source, id) \notin ToSet(p.edges)) => Unique(q.edges)
  <2>1. q \in ProgramsOver(I)
    BY <1>0, <1>2, WithEdgeIs
  <2>2. q.phases = next.phases
    BY <1>0, <1>2, WithEdgeIs
  <2>3. ToSet(q.edges) = ToSet(p.edges) \cup {Link(source, id)}
    BY <1>0, <1>2, WithEdgeArrows
  <2>4. ASSUME Unique(p.edges), Link(source, id) \notin ToSet(p.edges) PROVE Unique(q.edges)
    BY <1>0, <1>2, <2>4, WithEdgeIs
  <2> QED BY <2>1, <2>2, <2>3, <2>4
<1> HIDE DEF q
<1>5. Ids(p) = {p.phases[i].id : i \in 1..Len(p.phases)}
  BY <1>1, IdFacts
<1>6. Ids(q) = Ids(p) \cup {id}
  <2>1. Ids(q) = {next.phases[i].id : i \in 1..(Len(p.phases) + 1)}
    <3>1. Ids(q) = {q.phases[i].id : i \in DOMAIN q.phases} BY <1>4, IdFacts
    <3> QED BY <1>3, <1>4, <3>1
  <2>2. 1..(Len(p.phases) + 1) = 1..Len(p.phases) \cup {Len(p.phases) + 1}
    BY <1>1
  <2>3. ASSUME NEW x \in Ids(q) PROVE x \in Ids(p) \cup {id}
    <3>1. PICK i \in 1..(Len(p.phases) + 1) : x = next.phases[i].id BY <2>1, <2>3
    <3>2. CASE i \in 1..Len(p.phases) BY <1>3, <1>5, <3>1, <3>2
    <3>3. CASE i = Len(p.phases) + 1 BY <1>3, <3>1, <3>3
    <3> QED BY <2>2, <3>2, <3>3
  <2>4. id \in Ids(q)
    BY <1>3, <2>1, <2>2
  <2>5. Ids(p) \subseteq Ids(q)
    BY <1>3, <1>5, <2>1, <2>2
  <2> QED BY <2>3, <2>4, <2>5
<1>7. Unique(IdsOf(q))
  <2>1. \A i, j \in 1..Len(p.phases) : p.phases[i].id = p.phases[j].id => i = j
    BY <1>1, UniqueIds
  <2>2. \A i \in 1..Len(p.phases) : p.phases[i].id # id
    BY <1>5
  <2>3. ASSUME NEW i \in 1..(Len(p.phases) + 1), NEW j \in 1..(Len(p.phases) + 1),
               next.phases[i].id = next.phases[j].id
        PROVE  i = j
    <3>1. \A k \in 1..(Len(p.phases) + 1) : k \in 1..Len(p.phases) \/ k = Len(p.phases) + 1
      BY <1>1
    <3> QED BY <1>3, <2>1, <2>2, <2>3, <3>1
  <2> QED BY <1>3, <1>4, <2>3, UniqueIds
<1>8. ASSUME Works(p) # {} PROVE Works(q) # {}
  <2>1. PICK i \in 1..Len(p.phases) : p.phases[i].kind = "work"
    BY <1>1, <1>8 DEF Works
  <2>2. i \in 1..(Len(p.phases) + 1)
    BY <1>1
  <2> QED BY <1>3, <1>4, <2>1, <2>2 DEF Works
<1>9. ASSUME Clean(p) PROVE Clean(q)
  <2>0. \A e \in ToSet(p.edges) : e.from \in Ids(p) /\ e.to \in Ids(p)
    BY <1>9, ByArrow DEF Clean
  <2>1. KnownEdges(q)
    BY <1>4, <1>6, <2>0, ByArrow, ArrowFacts
  <2>2. Unique(q.edges)
    <3>1. Link(source, id) \notin ToSet(p.edges)
      BY <2>0, ArrowFacts
    <3> QED BY <1>4, <1>9, <3>1 DEF Clean
  <2>3. Acyclic(q)
    <3> SUFFICES ASSUME NEW U \in SUBSET (Ids(p) \cup {id}), U # {}
                 PROVE  \E u \in U : \A e \in ToSet(q.edges) : e.to = u => e.from \notin U
      BY <1>6, ByArrow
    <3>1. CASE U = {id}
      <4>1. \A e \in ToSet(p.edges) : e.from \notin U BY <2>0, <3>1
      <4>2. source \notin U BY <3>1
      <4> QED BY <1>4, <3>1, <4>1, <4>2, ArrowFacts
    <3>2. CASE U # {id}
      <4> DEFINE W == U \ {id}
      <4>1. PICK u \in W : \A e \in ToSet(p.edges) : e.to = u => e.from \notin W
        <5>1. W \in SUBSET Ids(p) /\ W # {} BY <3>2
        <5> HIDE DEF W
        <5> QED BY <1>9, <5>1, ByArrow DEF Clean
      <4>2. \A e \in ToSet(p.edges) : e.to = u => e.from \notin U
        BY <2>0, <4>1
      <4> QED BY <1>4, <4>1, <4>2, ArrowFacts
    <3> QED BY <3>1, <3>2
  <2> QED BY <2>1, <2>2, <2>3 DEF Clean
<1> QED BY <1>3, <1>4, <1>7, <1>8, <1>9 DEF q, next

\* A program with one arrow less.
LEMMA RemoveEdgeSound ==
  ASSUME NEW I, NEW p \in ProgramsOver(I), NEW i \in DOMAIN p.edges
  PROVE  LET q == [p EXCEPT !.edges = RemoveAt(@, i)]
         IN  /\ q \in ProgramsOver(I) /\ q.phases = p.phases
             /\ Clean(p) => Clean(q)
<1> DEFINE q == [p EXCEPT !.edges = RemoveAt(@, i)]
           a == RemoveAt(p.edges, i)
<1>1. p.edges \in Seq(ArrowsOver(I)) /\ i \in 1..Len(p.edges) /\ DOMAIN p.edges = 1..Len(p.edges)
  BY ProgramFacts, ArrowFacts
<1>2. a \in Seq(ArrowsOver(I)) /\ ToSet(a) = {p.edges[j] : j \in 1..Len(p.edges) \ {i}}
      /\ (Injective(p.edges) => Injective(a))
  BY <1>1, RemoveAtFacts
<1>3. q = [p EXCEPT !.edges = a]
  OBVIOUS
<1> HIDE DEF a, q
<1>4. q.phases = p.phases /\ q.edges = a
  BY <1>3 DEF ProgramsOver
<1>5. q \in ProgramsOver(I)
  BY <1>2, <1>3 DEF ProgramsOver, ArrowsOver
<1>6. ToSet(q.edges) \subseteq ToSet(p.edges)
  <2>1. ToSet(p.edges) = {p.edges[j] : j \in 1..Len(p.edges)}
    BY <1>1 DEF ToSet
  <2> QED BY <1>2, <1>4, <2>1
<1>7. ASSUME Clean(p) PROVE Clean(q)
  <2>1. Ids(q) = Ids(p)
    BY <1>4, SamePhases
  <2>2. KnownEdges(q)
    BY <1>6, <1>7, <2>1, ByArrow DEF Clean
  <2>3. Unique(q.edges)
    BY <1>1, <1>2, <1>4, <1>7, UniqueIs DEF Clean
  <2>4. Acyclic(q)
    <3> SUFFICES ASSUME NEW U \in SUBSET Ids(p), U # {}
                 PROVE  \E u \in U : \A e \in ToSet(q.edges) : e.to = u => e.from \notin U
      BY <2>1, ByArrow
    <3>1. PICK u \in U : \A e \in ToSet(p.edges) : e.to = u => e.from \notin U
      BY <1>7, ByArrow DEF Clean
    <3> QED BY <1>6, <3>1
  <2> QED BY <2>2, <2>3, <2>4 DEF Clean
<1> QED BY <1>4, <1>5, <1>7 DEF q

\* A program with one node less.
LEMMA RemovePhaseIs ==
  ASSUME NEW I, NEW p \in ProgramsOver(I), NEW i \in DOMAIN p.phases, Unique(IdsOf(p))
  PROVE  LET id == p.phases[i].id
             q == [phases |-> RemoveAt(p.phases, i), edges |-> Bridge(p, id)]
         IN  /\ q \in ProgramsOver(I) /\ q.edges = Bridge(p, id)
             /\ Len(q.phases) = Len(p.phases) - 1
             /\ Ids(q) = Ids(p) \ {id} /\ Unique(IdsOf(q))
             /\ (Works(p) # {i} /\ Works(p) # {}) => Works(q) # {}
<1> DEFINE id == p.phases[i].id
           q == [phases |-> RemoveAt(p.phases, i), edges |-> Bridge(p, id)]
           a == RemoveAt(p.phases, i)
           n == Len(p.phases)
           f(j) == IF j < i THEN j ELSE j + 1
<1>1. /\ p.phases \in Seq([id : I, kind : STRING]) /\ i \in 1..n /\ DOMAIN p.phases = 1..n
      /\ n \in Nat
  BY ProgramFacts
<1>2. /\ a \in Seq([id : I, kind : STRING]) /\ Len(a) = n - 1
      /\ \A j \in 1..Len(a) : a[j] = p.phases[f(j)]
  BY <1>1, RemoveAtFacts
<1>3. q.phases = a /\ q.edges = Bridge(p, id)
  OBVIOUS
<1>4. q \in ProgramsOver(I)
  <2>1. Bridge(p, id) \in Seq([from : I, to : I])
    BY BridgeFacts DEF ArrowsOver
  <2> HIDE DEF a
  <2> QED BY <1>2, <2>1 DEF ProgramsOver, a
<1> HIDE DEF q, a
<1>5. DOMAIN q.phases = 1..(n - 1) /\ \A j \in 1..(n - 1) : q.phases[j] = p.phases[f(j)]
  BY <1>2, <1>3, <1>4, ProgramFacts
<1>6. \A j \in 1..(n - 1) : f(j) \in 1..n \ {i}
  BY <1>1
<1>7. \A k \in 1..n \ {i} : \E j \in 1..(n - 1) : f(j) = k
  <2> SUFFICES ASSUME NEW k \in 1..n \ {i} PROVE \E j \in 1..(n - 1) : f(j) = k
    OBVIOUS
  <2>1. CASE k < i
    <3>1. k \in 1..(n - 1) /\ f(k) = k BY <1>1, <2>1
    <3> HIDE DEF f
    <3> QED BY <3>1
  <2>2. CASE ~(k < i)
    <3>1. k - 1 \in 1..(n - 1) /\ f(k - 1) = k BY <1>1, <2>2
    <3> HIDE DEF f
    <3> QED BY <3>1
  <2> QED BY <2>1, <2>2
<1>8. \A j, k \in 1..(n - 1) : f(j) = f(k) => j = k
  BY <1>1
<1>9. \A j, k \in 1..n : p.phases[j].id = p.phases[k].id => j = k
  BY <1>1, UniqueIds
<1>10. Ids(p) = {p.phases[k].id : k \in 1..n}
  BY <1>1, IdFacts
<1> HIDE DEF f
<1>11. Ids(q) = Ids(p) \ {id}
  <2>1. Ids(q) = {q.phases[j].id : j \in DOMAIN q.phases}
    BY <1>4, IdFacts
  <2>2. ASSUME NEW x \in Ids(q) PROVE x \in Ids(p) \ {id}
    <3>1. PICK j \in 1..(n - 1) : x = p.phases[f(j)].id
      BY <1>5, <2>1
    <3> QED BY <1>1, <1>6, <1>9, <1>10, <3>1
  <2>3. ASSUME NEW x \in Ids(p) \ {id} PROVE x \in Ids(q)
    <3>1. PICK k \in 1..n : x = p.phases[k].id
      BY <1>10
    <3>2. k # i BY <2>3, <3>1
    <3>3. PICK j \in 1..(n - 1) : f(j) = k BY <1>7, <3>2
    <3> QED BY <1>5, <2>1, <3>1, <3>3
  <2> QED BY <2>2, <2>3
<1>12. Unique(IdsOf(q))
  <2>1. ASSUME NEW j \in 1..(n - 1), NEW k \in 1..(n - 1), q.phases[j].id = q.phases[k].id
        PROVE  j = k
    <3>1. p.phases[f(j)].id = p.phases[f(k)].id BY <1>5, <2>1
    <3>2. f(j) \in 1..n /\ f(k) \in 1..n BY <1>6
    <3>3. f(j) = f(k) BY <1>9, <3>1, <3>2
    <3> QED BY <1>8, <3>3
  <2> QED BY <1>4, <1>5, <2>1, UniqueIds
<1>13. ASSUME Works(p) # {i}, Works(p) # {} PROVE Works(q) # {}
  <2>1. PICK k \in 1..n \ {i} : p.phases[k].kind = "work"
    <3>1. PICK k \in Works(p) : k # i BY <1>13
    <3> QED BY <1>1, <3>1 DEF Works
  <2>2. PICK j \in 1..(n - 1) : f(j) = k BY <1>7
  <2> QED BY <1>5, <2>1, <2>2 DEF Works
<1> QED BY <1>2, <1>3, <1>4, <1>11, <1>12, <1>13 DEF q

\* The arrows put in place of a deleted node repeat none and close no loop.
LEMMA BridgeClean ==
  ASSUME NEW I, NEW p \in ProgramsOver(I), Clean(p), NEW id \in Ids(p), NEW q \in ProgramsOver(I),
         q.edges = Bridge(p, id), Ids(q) = Ids(p) \ {id}
  PROVE  Clean(q)
<1> DEFINE has(s, t) == Link(s, t) \in ToSet(p.edges)
<1>0. q.edges \in Seq(ArrowsOver(I)) /\ p.edges \in Seq(ArrowsOver(I))
  BY ArrowFacts
<1>1. ASSUME NEW e \in ToSet(q.edges)
      PROVE  \/ e \in ToSet(p.edges) /\ e.from # id /\ e.to # id
             \/ e.from # e.to /\ has(e.from, id) /\ has(id, e.to)
  <2>1. e \in ArrowsOver(I)
    BY <1>0, LenProperties, ElementOfSeq DEF ToSet
  <2>2. e = Link(e.from, e.to)
    BY <2>1, ArrowFacts
  <2>3. Link(e.from, e.to) \in ToSet(Bridge(p, id))
    BY <1>1, <2>2
  <2> QED BY <2>2, <2>3, BridgeFacts
<1>2. \A s, t : has(s, t) => s \in Ids(p) /\ t \in Ids(p)
  BY ByArrow, ArrowFacts DEF Clean
<1>3. ASSUME NEW W \in SUBSET Ids(p), W # {}
      PROVE  \E u \in W : \A s : has(s, u) => s \notin W
  <2>1. PICK u \in W : \A e \in ToSet(p.edges) : e.to = u => e.from \notin W
    BY <1>3, ByArrow DEF Clean
  <2> QED BY <2>1, ArrowFacts
<1>4. ~has(id, id)
  <2>1. {id} \in SUBSET Ids(p) /\ {id} # {} OBVIOUS
  <2> QED BY <1>3, <2>1
<1>5. \A e \in ToSet(p.edges) : has(e.from, e.to)
  <2> SUFFICES ASSUME NEW e \in ToSet(p.edges) PROVE e = Link(e.from, e.to)
    OBVIOUS
  <2>1. e \in ArrowsOver(I)
    BY <1>0, LenProperties, ElementOfSeq DEF ToSet
  <2> QED BY <2>1, ArrowFacts
<1> HIDE DEF has
<1>6. KnownEdges(q)
  <2>1. ASSUME NEW e \in ToSet(q.edges) PROVE e.from \in Ids(q) /\ e.to \in Ids(q)
    BY <1>1, <1>2, <1>4, <1>5
  <2> QED BY <2>1, ByArrow
<1>7. Unique(q.edges)
  BY <1>0, BridgeFacts, UniqueIs DEF Clean
<1>8. Acyclic(q)
  <2> SUFFICES ASSUME NEW U \in SUBSET Ids(q), U # {}
               PROVE  \E u \in U : \A e \in ToSet(q.edges) : e.to = u => e.from \notin U
    BY ByArrow
  <2>1. CASE \E s \in U : has(s, id)
    <3>1. U \cup {id} \in SUBSET Ids(p) OBVIOUS
    <3>2. PICK u \in U \cup {id} : \A s : has(s, u) => s \notin U \cup {id}
      BY <1>3, <3>1
    <3>3. u \in U BY <2>1, <3>2
    <3> QED BY <1>1, <1>5, <3>2, <3>3
  <2>2. CASE ~\E s \in U : has(s, id)
    <3>1. PICK u \in U : \A s : has(s, u) => s \notin U
      BY <1>3
    <3> QED BY <1>1, <1>5, <2>2, <3>1
  <2> QED BY <2>1, <2>2
<1> QED BY <1>6, <1>7, <1>8 DEF Clean

-----------------------------------------------------------------------------
(* Deleting a node keeps what leads where                                  *)

\* The other nodes lead to each other as before.
LEMMA BridgeReach ==
  ASSUME NEW I, NEW p \in ProgramsOver(I), NEW id \in Ids(p), NEW q \in ProgramsOver(I),
         q.edges = Bridge(p, id), Ids(q) = Ids(p) \ {id}, NEW a \in Ids(q), NEW b \in Ids(q)
  PROVE  b \in Reached(p, a) <=> b \in Reached(q, a)
<1> DEFINE has(s, t) == Link(s, t) \in ToSet(p.edges)
           new(s, t) == Link(s, t) \in ToSet(q.edges)
<1>1. p.edges \in Seq(ArrowsOver(I)) /\ q.edges \in Seq(ArrowsOver(I))
  BY ArrowFacts
<1>2. ASSUME NEW r \in {p, q}, NEW set
      PROVE  Follows(r, set) <=>
               \A s, t : (Link(s, t) \in ToSet(r.edges) /\ s \in set /\ s \in Ids(r)) => t \in set
  <2>1. \A e \in ToSet(r.edges) : e = Link(e.from, e.to)
    <3> SUFFICES ASSUME NEW e \in ToSet(r.edges) PROVE e = Link(e.from, e.to)
      OBVIOUS
    <3>1. r.edges \in Seq(ArrowsOver(I)) BY <1>1
    <3>2. e \in ArrowsOver(I) BY <3>1, LenProperties, ElementOfSeq DEF ToSet
    <3> QED BY <3>2, ArrowFacts
  <2>2. Follows(r, set) <=>
              \A e \in ToSet(r.edges) : (e.from \in set /\ e.from \in Ids(r)) => e.to \in set
    BY ByArrow
  <2> QED BY <2>1, <2>2, ArrowFacts
<1>3. \A s, t : new(s, t) <=> \/ has(s, t) /\ s # id /\ t # id
                              \/ s # t /\ has(s, id) /\ has(id, t)
  BY BridgeFacts
<1>4. a \in I
  BY IdFacts
<1>5. /\ a \in Reached(p, a) /\ Follows(p, Reached(p, a))
      /\ \A set : a \in set /\ Follows(p, set) => Reached(p, a) \subseteq set
  BY <1>4, ReachedFacts
<1>6. /\ a \in Reached(q, a) /\ Follows(q, Reached(q, a))
      /\ \A set : a \in set /\ Follows(q, set) => Reached(q, a) \subseteq set
  BY <1>4, ReachedFacts
<1>7. \A set : Follows(p, set) <=> \A s, t : (has(s, t) /\ s \in set /\ s \in Ids(p)) => t \in set
  BY <1>2
<1>8. \A set : Follows(q, set) <=> \A s, t : (new(s, t) /\ s \in set /\ s \in Ids(q)) => t \in set
  BY <1>2
<1> HIDE DEF has, new
<1>9. ASSUME b \in Reached(q, a) PROVE b \in Reached(p, a)
  <2>1. Follows(q, Reached(p, a))
    BY <1>3, <1>5, <1>7, <1>8
  <2> QED BY <1>5, <1>6, <1>9, <2>1
<1>10. ASSUME b \in Reached(p, a) PROVE b \in Reached(q, a)
  <2> DEFINE R == Reached(q, a)
  <2>0. \A s, t : (new(s, t) /\ s \in R /\ s \in Ids(q)) => t \in R
    BY <1>6, <1>8
  <2> HIDE DEF R
  <2>1. CASE \E s \in R : s \in Ids(q) /\ has(s, id)
    <3>1. PICK r \in R : r \in Ids(q) /\ has(r, id)
      BY <2>1
    <3>2. ASSUME NEW s, NEW t, has(s, t), s \in R \cup {id}, s \in Ids(p) PROVE t \in R \cup {id}
      <4>1. CASE s = id
        <5>1. CASE t # r /\ t # id
          BY <1>3, <2>0, <3>1, <3>2, <4>1, <5>1
        <5> QED BY <3>1, <5>1
      <4>2. CASE s # id
        BY <1>3, <2>0, <3>2, <4>2
      <4> QED BY <4>1, <4>2
    <3>3. Follows(p, R \cup {id})
      BY <1>7, <3>2
    <3>4. Reached(p, a) \subseteq R \cup {id}
      BY <1>5, <1>6, <3>3 DEF R
    <3> QED BY <1>10, <3>4 DEF R
  <2>2. CASE ~\E s \in R : s \in Ids(q) /\ has(s, id)
    <3>1. ASSUME NEW s, NEW t, has(s, t), s \in R \ {id}, s \in Ids(p) PROVE t \in R \ {id}
      BY <1>3, <2>0, <2>2, <3>1
    <3>2. Follows(p, R \ {id})
      BY <1>7, <3>1
    <3>3. Reached(p, a) \subseteq R \ {id}
      BY <1>5, <1>6, <3>2 DEF R
    <3> QED BY <1>10, <3>3 DEF R
  <2> QED BY <2>1, <2>2
<1> QED BY <1>9, <1>10

-----------------------------------------------------------------------------
(* The inductive invariant of the canvas.                                  *)
(*                                                                         *)
(* The program under design is sound, and clean unless a stray arrow was   *)
(* drawn; the drawn program is it unless a save replaced it; what the arrow*)
(* tool, a drag and the requests hold is well formed.  The last is needed  *)
(* because each of them becomes part of the program later.                 *)

\* What every program under design has, stray arrows or not.
Sound(p) == p \in ProgramsOver(Names) /\ Unique(IdsOf(p)) /\ Works(p) # {}

\* The set has one member at most.
AtMostOne(S) == \A x, y \in S : x = y

\* The program, what is drawn of it and what is selected.
CanvasInv ==
  /\ Sound(program) /\ shown \in ProgramsOver(Names)
  /\ detached \in BOOLEAN /\ stray \in BOOLEAN
  /\ ~stray => Clean(program)
  /\ ~detached => shown = program
  /\ selectedPhase \in 0..Len(shown.phases) /\ selectedEdge \in Nat

\* The arrow tool and the drag.
ToolInv ==
  /\ armed \in BOOLEAN
  /\ arrowSource \subseteq Names /\ AtMostOne(arrowSource)
  /\ draft \subseteq [source : Names, live : BOOLEAN] /\ AtMostOne(draft)

\* The requests, and the bound.
RequestInv ==
  /\ adapting \subseteq ProgramsOver(Names) /\ AtMostOne(adapting)
  /\ saving \subseteq ProgramsOver(Names) /\ AtMostOne(saving)
  /\ listing \in BOOLEAN
  /\ changes \in 0..MaxChanges

EditorInv == CanvasInv /\ ToolInv /\ RequestInv

\* A template, or a program a request was answered with, is sound and clean.
LEMMA AcceptedSound ==
  ASSUME NEW p \in ProgramsOver(Names), Accepted(p)
  PROVE  Sound(p) /\ Clean(p) /\ 1 \in 0..Len(p.phases)
<1>1. FieldLimits(p) /\ Unique(IdsOf(p)) /\ Works(p) # {} /\ KnownEdges(p) /\ Unique(p.edges) /\ Acyclic(p)
  BY AcceptedClean
<1>2. Len(p.phases) \in Nat
  BY ProgramFacts
<1>3. 1 \in 0..Len(p.phases)
  BY <1>1, <1>2, LimitsAssumption DEF FieldLimits
<1> QED BY <1>1, <1>3 DEF Sound, Clean

\* The page opens with a template.
LEMMA EditorStarts == Init => EditorInv
<1> SUFFICES ASSUME Init PROVE EditorInv
  OBVIOUS
<1>1. program \in ProgramsOver(Names) /\ Accepted(program)
  BY EditorAssumption DEF Init
<1>2. CanvasInv
  <2>1. Sound(program) /\ Clean(program) /\ 1 \in 0..Len(program.phases)
    BY <1>1, AcceptedSound
  <2> QED BY <1>1, <2>1 DEF Init, CanvasInv
<1>3. ToolInv
  BY DEF Init, ToolInv, AtMostOne
<1>4. RequestInv
  <2>1. 0 \in 0..MaxChanges
    BY EditorAssumption
  <2> QED BY <2>1 DEF Init, RequestInv, AtMostOne
<1> QED BY <1>2, <1>3, <1>4 DEF EditorInv

\* Every handler keeps the requests well formed.
LEMMA RequestStep ==
  ASSUME EditorInv, Next
  PROVE  RequestInv'
<1> USE DEF EditorInv
<1>0. Change => changes' \in 0..MaxChanges
  BY EditorAssumption DEF Change, RequestInv
<1>1. ASSUME UNCHANGED requestVars, Change \/ UNCHANGED changes PROVE RequestInv'
  BY <1>0, <1>1 DEF RequestInv, requestVars
<1>2. CASE SelectNode \/ SelectEdge \/ Deselect \/ ShowCreate \/ ToggleArrowTool \/ Escape \/ ChooseSource
  BY <1>1, <1>2 DEF SelectNode, SelectEdge, Deselect, ShowCreate, ToggleArrowTool, Escape, ChooseSource
<1>3. CASE ChooseTarget
  BY <1>1, <1>3 DEF ChooseTarget
<1>4. CASE BeginConnection \/ EndConnection
  BY <1>1, <1>4 DEF BeginConnection, EndConnection
<1>5. CASE ConnectByInspector \/ Duplicate \/ DeletePhase \/ DeleteEdge \/ DeleteKey \/ AddPhase
  BY <1>1, <1>5 DEF ConnectByInspector, Duplicate, DeletePhase, DeleteEdge, DeleteKey, AddPhase
<1>6. CASE LoadTemplate \/ ApplyWorkflow
  BY <1>1, <1>6 DEF LoadTemplate, ApplyWorkflow
<1>7. CASE SendAdapt
  BY <1>0, <1>7 DEF SendAdapt, RequestInv, CanvasInv, Sound, AtMostOne
<1>8. CASE AdaptAnswered \/ AdaptFailed
  BY <1>8 DEF AdaptAnswered, AdaptFailed, RequestInv, AtMostOne
<1>9. CASE SendSave
  BY <1>0, <1>9 DEF SendSave, RequestInv, CanvasInv, Sound, AtMostOne
<1>10. CASE SaveAnswered \/ SaveFailed \/ SaveListed
  BY <1>10 DEF SaveAnswered, SaveFailed, SaveListed, RequestInv, AtMostOne
<1> QED BY <1>2, <1>3, <1>4, <1>5, <1>6, <1>7, <1>8, <1>9, <1>10 DEF Next

\* Every handler keeps the arrow tool and the drag well formed.
LEMMA ToolStep ==
  ASSUME EditorInv, Next
  PROVE  ToolInv'
<1> USE DEF EditorInv
<1>1. ASSUME UNCHANGED <<armed, arrowSource>>, Replace PROVE ToolInv'
  <2>1. draft' \subseteq [source : Names, live : BOOLEAN]
    BY <1>1 DEF Replace, ToolInv
  <2>2. AtMostOne(draft')
    BY <1>1 DEF Replace, ToolInv, AtMostOne
  <2> QED BY <1>1, <2>1, <2>2 DEF ToolInv, AtMostOne
<1>2. ASSUME UNCHANGED toolVars PROVE ToolInv'
  BY <1>2 DEF ToolInv, toolVars, AtMostOne
<1>3. CASE SelectNode \/ SelectEdge \/ Deselect \/ ShowCreate
  BY <1>2, <1>3 DEF SelectNode, SelectEdge, Deselect, ShowCreate
<1>4. CASE ToggleArrowTool \/ Escape
  BY <1>4 DEF ToggleArrowTool, Escape, ToolInv, AtMostOne
<1>5. CASE ChooseSource
  <2>1. PICK i \in DOMAIN program.phases : arrowSource' = {program.phases[i].id}
    BY <1>5 DEF ChooseSource
  <2>2. program.phases[i].id \in Names
    BY <2>1, ProgramFacts DEF CanvasInv, Sound
  <2> QED BY <1>5, <2>1, <2>2 DEF ChooseSource, ToolInv, AtMostOne
<1>6. CASE ChooseTarget
  BY <1>6 DEF ChooseTarget, ToolInv, AtMostOne
<1>7. CASE BeginConnection
  <2>1. PICK i \in DOMAIN shown.phases : draft' = {[source |-> shown.phases[i].id, live |-> TRUE]}
    BY <1>7 DEF BeginConnection
  <2>2. shown.phases[i].id \in Names
    BY <2>1, ProgramFacts DEF CanvasInv
  <2>3. draft' \subseteq [source : Names, live : BOOLEAN] /\ AtMostOne(draft')
    BY <2>1, <2>2 DEF AtMostOne
  <2> QED BY <1>7, <2>3 DEF BeginConnection, ToolInv, AtMostOne
<1>8. CASE EndConnection
  BY <1>8 DEF EndConnection, ToolInv, AtMostOne
<1>9. CASE ConnectByInspector \/ Duplicate \/ DeletePhase \/ DeleteEdge \/ DeleteKey \/ AddPhase
  BY <1>2, <1>9 DEF ConnectByInspector, Duplicate, DeletePhase, DeleteEdge, DeleteKey, AddPhase
<1>10. CASE LoadTemplate \/ ApplyWorkflow \/ AdaptAnswered \/ SaveAnswered
  BY <1>1, <1>10 DEF LoadTemplate, ApplyWorkflow, AdaptAnswered, SaveAnswered
<1>11. CASE SendAdapt \/ AdaptFailed \/ SendSave \/ SaveFailed \/ SaveListed
  BY <1>2, <1>11 DEF SendAdapt, AdaptFailed, SendSave, SaveFailed, SaveListed
<1> QED BY <1>3, <1>4, <1>5, <1>6, <1>7, <1>8, <1>9, <1>10, <1>11 DEF Next

\* renderPhaseEditor after designProgram became next.
LEMMA Drawn ==
  ASSUME NEW next, NEW phase \in Nat, NEW edge \in Nat, Draw(next, phase, edge),
         Sound(next), stray' \in BOOLEAN, stray' \/ Clean(next)
  PROVE  CanvasInv'
<1>1. Len(next.phases) \in Nat
  BY ProgramFacts DEF Sound
<1>2. Clamp(phase, next) \in 0..Len(next.phases)
  BY <1>1 DEF Clamp
<1> QED BY <1>2 DEF Draw, CanvasInv, Sound

\* renderPhaseEditor with the program unchanged.
LEMMA DrawnAgain ==
  ASSUME CanvasInv, NEW phase \in Nat, NEW edge \in Nat, Draw(program, phase, edge), stray' = stray
  PROVE  CanvasInv'
BY Drawn DEF CanvasInv

\* A handler that changes the drawn object, which may be detached.
LEMMA DrawnHeld ==
  ASSUME CanvasInv, NEW next, NEW phase \in Nat, NEW edge \in Nat, DrawHeld(next, phase, edge),
         stray' = stray,
         ~detached => Sound(next) /\ (Clean(program) => Clean(next))
  PROVE  CanvasInv'
<1>1. CASE detached
  BY <1>1, DrawnAgain DEF DrawHeld
<1>2. CASE ~detached
  <2>1. Draw(next, phase, edge) BY <1>2 DEF DrawHeld
  <2>2. stray' \in BOOLEAN /\ (stray' \/ Clean(next)) /\ Sound(next) BY <1>2 DEF CanvasInv
  <2> QED BY <2>1, <2>2, Drawn
<1> QED BY <1>1, <1>2

\* An arrow more, at any of the three ways to draw one.
LEMMA JoinedIsSound ==
  ASSUME NEW p, Sound(p), NEW source \in Names, NEW target \in Names, Connectable(p, source, target)
  PROVE  /\ Sound(WithEdge(p, source, target))
         /\ (Clean(p) /\ source \in Ids(p) /\ target \in Ids(p)) => Clean(WithEdge(p, source, target))
<1> DEFINE q == WithEdge(p, source, target)
<1>1. p \in ProgramsOver(Names)
  BY DEF Sound
<1>2. q \in ProgramsOver(Names) /\ q.phases = p.phases
  BY <1>1, WithEdgeIs
<1> HIDE DEF q
<1>3. Sound(q)
  BY <1>2, SamePhases DEF Sound
<1>4. ASSUME Clean(p), source \in Ids(p), target \in Ids(p) PROVE Clean(q)
  BY <1>1, <1>4, ConnectKeepsClean DEF q
<1> QED BY <1>3, <1>4 DEF q

\* A node more.
LEMMA AddedIsSound ==
  ASSUME NEW p, Sound(p), NEW phase \in [id : Names, kind : STRING], phase.id \notin Ids(p),
         NEW source \in Ids(p)
  PROVE  LET q == WithEdge([p EXCEPT !.phases = Append(@, phase)], source, phase.id)
         IN  Sound(q) /\ (Clean(p) => Clean(q))
BY AddNodeSound DEF Sound

\* The index of a new node is a number.
LEMMA Lengthened ==
  ASSUME NEW p \in ProgramsOver(Names), NEW phase \in [id : Names, kind : STRING]
  PROVE  Len([p EXCEPT !.phases = Append(@, phase)].phases) \in Nat
<1> DEFINE a == Append(p.phases, phase)
<1>1. Len(a) \in Nat
  BY ProgramFacts
<1> HIDE DEF a
<1>2. [p EXCEPT !.phases = a].phases = a
  BY DEF ProgramsOver
<1> QED BY <1>1, <1>2 DEF a

\* What is selected is an index.
LEMMA Indices ==
  ASSUME CanvasInv
  PROVE  /\ selectedPhase \in Nat /\ selectedEdge \in Nat
         /\ \A i \in DOMAIN shown.phases \cup DOMAIN shown.edges \cup DOMAIN program.phases : i \in Nat
         /\ PhaseInspected => selectedPhase \in DOMAIN shown.phases
<1>1. /\ program \in ProgramsOver(Names) /\ shown \in ProgramsOver(Names)
      /\ selectedPhase \in 0..Len(shown.phases) /\ selectedEdge \in Nat
  BY DEF CanvasInv, Sound
<1>2. /\ DOMAIN program.phases = 1..Len(program.phases) /\ Len(program.phases) \in Nat
      /\ DOMAIN shown.phases = 1..Len(shown.phases) /\ Len(shown.phases) \in Nat
      /\ DOMAIN shown.edges = 1..Len(shown.edges) /\ Len(shown.edges) \in Nat
  BY <1>1, ProgramFacts
<1>3. PhaseInspected => selectedPhase \in DOMAIN shown.phases
  BY <1>1, <1>2 DEF PhaseInspected
<1> QED BY <1>1, <1>2, <1>3

\* Selecting and choosing a source leave the program alone.
LEMMA ToolActions ==
  ASSUME EditorInv, \/ SelectNode \/ SelectEdge \/ Deselect \/ ShowCreate \/ ToggleArrowTool
                    \/ Escape \/ ChooseSource \/ BeginConnection
  PROVE  CanvasInv'
<1>0. CanvasInv
  BY DEF EditorInv
<1>1. /\ selectedPhase \in Nat /\ selectedEdge \in Nat /\ 0 \in Nat
      /\ \A i \in DOMAIN shown.phases \cup DOMAIN shown.edges \cup DOMAIN program.phases : i \in Nat
  BY <1>0, Indices
<1>2. CASE SelectNode
  BY <1>0, <1>1, <1>2, DrawnAgain DEF SelectNode
<1>3. CASE SelectEdge
  BY <1>0, <1>1, <1>3, DrawnAgain DEF SelectEdge
<1>4. CASE Deselect
  BY <1>0, <1>1, <1>4, DrawnAgain DEF Deselect
<1>5. CASE ShowCreate
  BY <1>0, <1>1, <1>5, DrawnAgain DEF ShowCreate
<1>6. CASE ToggleArrowTool
  BY <1>0, <1>6 DEF ToggleArrowTool, CanvasInv, Sound
<1>7. CASE Escape
  BY <1>0, <1>1, <1>7, DrawnAgain DEF Escape
<1>8. CASE ChooseSource
  BY <1>0, <1>1, <1>8, DrawnAgain DEF ChooseSource
<1>9. CASE BeginConnection
  BY <1>0, <1>9 DEF BeginConnection, CanvasInv, Sound
<1> QED BY <1>2, <1>3, <1>4, <1>5, <1>6, <1>7, <1>8, <1>9

\* Drawing an arrow, in any of the three ways.
LEMMA ConnectActions ==
  ASSUME EditorInv, ChooseTarget \/ EndConnection \/ ConnectByInspector
  PROVE  CanvasInv'
<1>0. CanvasInv
  BY DEF EditorInv
<1>1. /\ selectedPhase \in Nat /\ selectedEdge \in Nat /\ 0 \in Nat
      /\ \A i \in DOMAIN shown.phases \cup DOMAIN shown.edges \cup DOMAIN program.phases : i \in Nat
      /\ PhaseInspected => selectedPhase \in DOMAIN shown.phases
  BY <1>0, Indices
<1>2. Sound(program) /\ program \in ProgramsOver(Names) /\ shown \in ProgramsOver(Names)
      /\ stray \in BOOLEAN /\ (stray \/ Clean(program)) /\ (detached \/ shown = program)
  BY <1>0 DEF CanvasInv, Sound
<1>3. /\ Ids(program) \subseteq Names /\ Ids(shown) \subseteq Names
      /\ \A i \in DOMAIN program.phases : program.phases[i].id \in Ids(program)
      /\ \A i \in DOMAIN shown.phases : shown.phases[i].id \in Ids(shown)
  BY <1>2, IdFacts
<1>4. CASE ChooseTarget
  <2>1. PICK source \in arrowSource, i \in DOMAIN shown.phases \cap DOMAIN program.phases :
          IF Connectable(program, source, program.phases[i].id)
            THEN /\ Draw(WithEdge(program, source, program.phases[i].id), i, 0)
                 /\ stray' = (stray \/ source \notin Ids(program))
            ELSE Draw(program, i, 0) /\ stray' = stray
    BY <1>4 DEF ChooseTarget
  <2> DEFINE target == program.phases[i].id
  <2>2. source \in Names /\ target \in Ids(program) /\ i \in Nat
    BY <1>1, <1>3 DEF EditorInv, ToolInv
  <2>3. CASE Connectable(program, source, target)
    <3> DEFINE q == WithEdge(program, source, target)
    <3>1. Sound(q) /\ ((Clean(program) /\ source \in Ids(program)) => Clean(q))
      BY <1>2, <1>3, <2>2, <2>3, JoinedIsSound
    <3> HIDE DEF q
    <3>2. stray' \in BOOLEAN /\ (stray' \/ Clean(q))
      BY <1>2, <2>1, <2>3, <3>1
    <3>3. Draw(q, i, 0)
      BY <2>1, <2>3 DEF q
    <3> QED BY <1>1, <2>2, <3>1, <3>2, <3>3, Drawn
  <2>4. CASE ~Connectable(program, source, target)
    <3>1. Draw(program, i, 0) /\ stray' = stray
      BY <2>1, <2>4
    <3> QED BY <1>0, <1>1, <2>2, <3>1, DrawnAgain
  <2> QED BY <2>3, <2>4
<1>5. CASE EndConnection
  <2>1. CASE Draw(program, selectedPhase, selectedEdge) /\ stray' = stray
    BY <1>0, <1>1, <2>1, DrawnAgain
  <2>2. CASE ~(Draw(program, selectedPhase, selectedEdge) /\ stray' = stray)
    <3>1. PICK d \in draft, target \in Ids(shown) :
            /\ Connectable(program, d.source, target)
            /\ Draw(WithEdge(program, d.source, target), selectedPhase, selectedEdge)
            /\ stray' = (stray \/ ~({d.source, target} \subseteq Ids(program)))
      BY <1>5, <2>2 DEF EndConnection
    <3> DEFINE source == d.source
               q == WithEdge(program, source, target)
    <3>2. source \in Names
      BY DEF EditorInv, ToolInv
    <3> HIDE DEF source
    <3>3. Sound(q) /\ ((Clean(program) /\ source \in Ids(program) /\ target \in Ids(program)) => Clean(q))
      BY <1>2, <1>3, <3>1, <3>2, JoinedIsSound DEF source
    <3> HIDE DEF q
    <3>4. stray' \in BOOLEAN /\ (stray' \/ Clean(q))
      BY <1>2, <3>1, <3>3 DEF source
    <3>5. Draw(q, selectedPhase, selectedEdge)
      BY <3>1 DEF q, source
    <3> QED BY <1>1, <3>3, <3>4, <3>5, Drawn
  <2> QED BY <2>1, <2>2
<1>6. CASE ConnectByInspector
  <2> DEFINE source == shown.phases[selectedPhase].id
  <2>1. PICK target \in Ids(shown) :
          /\ Connectable(shown, source, target)
          /\ DrawHeld(WithEdge(shown, source, target), selectedPhase, selectedEdge)
    BY <1>6 DEF ConnectByInspector
  <2> DEFINE q == WithEdge(shown, source, target)
  <2>2. source \in Ids(shown)
    BY <1>1, <1>3, <1>6 DEF ConnectByInspector
  <2> HIDE DEF source
  <2>3. ASSUME ~detached PROVE Sound(q) /\ (Clean(program) => Clean(q))
    BY <1>2, <1>3, <2>1, <2>2, <2>3, JoinedIsSound
  <2> HIDE DEF q
  <2>4. DrawHeld(q, selectedPhase, selectedEdge) /\ stray' = stray
    BY <1>6, <2>1 DEF q, source, ConnectByInspector
  <2> QED BY <1>0, <1>1, <2>3, <2>4, DrawnHeld
<1> QED BY <1>4, <1>5, <1>6

\* Copying a node and adding one.
LEMMA AddActions ==
  ASSUME EditorInv, Duplicate \/ AddPhase
  PROVE  CanvasInv'
<1>0. CanvasInv
  BY DEF EditorInv
<1>1. PhaseInspected => selectedPhase \in DOMAIN shown.phases
  BY <1>0, Indices
<1>2. Sound(program) /\ program \in ProgramsOver(Names) /\ shown \in ProgramsOver(Names)
      /\ stray \in BOOLEAN /\ (stray \/ Clean(program)) /\ (detached \/ shown = program)
  BY <1>0 DEF CanvasInv, Sound
<1>3. CASE Duplicate
  <2> DEFINE source == shown.phases[selectedPhase]
             id == uniquePhaseId(WithSuffix(source.id, 1), shown)
             phase == [source EXCEPT !.id = id]
             next == [shown EXCEPT !.phases = Append(@, phase)]
             q == WithEdge(next, source.id, phase.id)
  <2>1. selectedPhase \in DOMAIN shown.phases
    BY <1>1, <1>3 DEF Duplicate
  <2>2. source \in [id : Names, kind : STRING] /\ source.id \in Ids(shown)
    <3>1. source \in [id : Names, kind : STRING] BY <1>2, <2>1, ProgramFacts
    <3>2. source.id \in Ids(shown) BY <1>2, <2>1, IdFacts
    <3> QED BY <3>1, <3>2
  <2>3. DrawHeld(WithEdge(next, source.id, id), Len(next.phases), 0) /\ stray' = stray
    BY <1>3 DEF Duplicate
  <2> HIDE DEF source
  <2>4. id \in Names /\ id \notin Ids(shown)
    <3>1. source.id \in Names BY <2>2
    <3>2. WithSuffix(source.id, 1) \in Names BY <3>1, SuffixName
    <3> QED BY <1>2, <3>2, FreshId
  <2> HIDE DEF id
  <2>5. phase \in [id : Names, kind : STRING] /\ phase.id = id
    BY <2>2, <2>4
  <2> HIDE DEF phase
  <2>6. Len(next.phases) \in Nat
    BY <1>2, <2>5, Lengthened
  <2>7. ASSUME ~detached PROVE Sound(q) /\ (Clean(program) => Clean(q))
    <3>1. shown = program /\ Sound(shown) BY <1>2, <2>7
    <3>2. Sound(q) /\ (Clean(shown) => Clean(q))
      BY <2>2, <2>4, <2>5, <3>1, AddedIsSound
    <3> QED BY <3>1, <3>2
  <2>8. DrawHeld(q, Len(next.phases), 0)
    BY <2>3, <2>5
  <2> HIDE DEF q, next
  <2> QED BY <1>0, <2>3, <2>6, <2>7, <2>8, DrawnHeld
<1>4. CASE AddPhase
  <2>1. PICK kind \in Kinds :
          LET selected == IF selectedPhase \in DOMAIN program.phases
                            THEN selectedPhase ELSE Len(program.phases)
              id == uniquePhaseId([word |-> kind, suffix |-> <<>>], program)
              next == [program EXCEPT !.phases = Append(@, [id |-> id, kind |-> kind])]
          IN  Draw(WithEdge(next, program.phases[selected].id, id), Len(next.phases), 0)
    BY <1>4 DEF AddPhase
  <2> DEFINE selected == IF selectedPhase \in DOMAIN program.phases
                           THEN selectedPhase ELSE Len(program.phases)
             id == uniquePhaseId([word |-> kind, suffix |-> <<>>], program)
             phase == [id |-> id, kind |-> kind]
             next == [program EXCEPT !.phases = Append(@, phase)]
             source == program.phases[selected].id
             q == WithEdge(next, source, phase.id)
  <2>2. Draw(WithEdge(next, source, id), Len(next.phases), 0) /\ stray' = stray
    BY <1>4, <2>1 DEF AddPhase
  <2>3. source \in Ids(program)
    <3>1. selected \in DOMAIN program.phases
      <4>1. DOMAIN program.phases = 1..Len(program.phases) /\ Len(program.phases) \in Nat
        BY <1>2, ProgramFacts
      <4>2. DOMAIN program.phases # {}
        BY <1>2 DEF Sound, Works
      <4> QED BY <4>1, <4>2
    <3> HIDE DEF selected
    <3> QED BY <1>2, <3>1, IdFacts
  <2>4. id \in Names /\ id \notin Ids(program) /\ kind \in STRING
    <3>1. kind \in STRING BY EditorAssumption
    <3>2. [word |-> kind, suffix |-> <<>>] \in Names BY <3>1 DEF Names
    <3> QED BY <1>2, <3>1, <3>2, FreshId
  <2> HIDE DEF source, id
  <2>5. phase \in [id : Names, kind : STRING] /\ phase.id = id
    BY <2>4
  <2>6. Draw(q, Len(next.phases), 0)
    BY <2>2, <2>5
  <2> HIDE DEF phase
  <2>7. Len(next.phases) \in Nat
    BY <1>2, <2>5, Lengthened
  <2>8. Sound(q) /\ (Clean(program) => Clean(q))
    BY <1>2, <2>3, <2>4, <2>5, AddedIsSound
  <2> HIDE DEF q, next
  <2>9. stray' \in BOOLEAN /\ (stray' \/ Clean(q))
    BY <1>2, <2>2, <2>8
  <2> QED BY <2>6, <2>7, <2>8, <2>9, Drawn
<1> QED BY <1>3, <1>4

\* Deleting a node, and deleting an arrow in either way.
LEMMA DeleteActions ==
  ASSUME EditorInv, DeletePhase \/ DeleteEdge \/ DeleteKey
  PROVE  CanvasInv'
<1>0. CanvasInv
  BY DEF EditorInv
<1>1. /\ selectedPhase \in Nat /\ selectedEdge \in Nat /\ 0 \in Nat
      /\ PhaseInspected => selectedPhase \in DOMAIN shown.phases
  BY <1>0, Indices
<1>2. Sound(program) /\ program \in ProgramsOver(Names) /\ shown \in ProgramsOver(Names)
      /\ stray \in BOOLEAN /\ (stray \/ Clean(program)) /\ (detached \/ shown = program)
  BY <1>0 DEF CanvasInv, Sound
<1>3. CASE DeletePhase
  <2> DEFINE id == shown.phases[selectedPhase].id
             next == [phases |-> RemoveAt(shown.phases, selectedPhase), edges |-> Bridge(shown, id)]
  <2>1. /\ selectedPhase \in DOMAIN shown.phases /\ Deletable(shown, selectedPhase)
        /\ DrawHeld(next, Clamp(selectedPhase, next), 0) /\ stray' = stray
    BY <1>1, <1>3 DEF DeletePhase
  <2>2. Clamp(selectedPhase, next) \in Nat
    <3>1. /\ shown.phases \in Seq([id : Names, kind : STRING]) /\ selectedPhase \in 1..Len(shown.phases)
          /\ Len(shown.phases) \in Nat
      BY <1>2, <2>1, ProgramFacts
    <3>2. Len(RemoveAt(shown.phases, selectedPhase)) = Len(shown.phases) - 1
      BY <3>1, RemoveAtFacts
    <3>3. Len(next.phases) = Len(shown.phases) - 1
      BY <3>2
    <3> HIDE DEF next
    <3> QED BY <3>1, <3>3 DEF Clamp
  <2>3. ASSUME ~detached PROVE Sound(next) /\ (Clean(program) => Clean(next))
    <3>1. shown = program /\ Sound(shown) BY <1>2, <2>3
    <3>2. /\ next \in ProgramsOver(Names) /\ next.edges = Bridge(shown, id)
          /\ Ids(next) = Ids(shown) \ {id} /\ Unique(IdsOf(next))
          /\ (Works(shown) # {selectedPhase} /\ Works(shown) # {}) => Works(next) # {}
      BY <1>2, <2>1, <3>1, RemovePhaseIs DEF Sound
    <3>3. id \in Ids(shown)
      BY <1>2, <2>1, IdFacts
    <3> HIDE DEF next, id
    <3>4. Sound(next)
      BY <2>1, <3>1, <3>2 DEF Sound, Deletable
    <3>5. Clean(shown) => Clean(next)
      BY <1>2, <3>2, <3>3, BridgeClean
    <3> QED BY <3>1, <3>4, <3>5
  <2> HIDE DEF next
  <2> QED BY <1>0, <1>1, <2>1, <2>2, <2>3, DrawnHeld
<1>4. ASSUME NEW i \in DOMAIN program.edges
      PROVE  LET q == [program EXCEPT !.edges = RemoveAt(@, i)]
             IN  Sound(q) /\ (Clean(program) => Clean(q))
  <2> DEFINE q == [program EXCEPT !.edges = RemoveAt(@, i)]
  <2>1. q \in ProgramsOver(Names) /\ q.phases = program.phases /\ (Clean(program) => Clean(q))
    BY <1>2, <1>4, RemoveEdgeSound
  <2> HIDE DEF q
  <2>2. Sound(q)
    BY <1>2, <2>1, SamePhases DEF Sound
  <2> QED BY <2>1, <2>2 DEF q
<1>5. CASE DeleteEdge
  <2> DEFINE q == [shown EXCEPT !.edges = RemoveAt(@, selectedEdge)]
  <2>1. ASSUME ~detached PROVE Sound(q) /\ (Clean(program) => Clean(q))
    BY <1>2, <1>4, <1>5, <2>1 DEF DeleteEdge, EdgeInspected
  <2>2. DrawHeld(q, selectedPhase, 0) /\ stray' = stray
    BY <1>5 DEF DeleteEdge
  <2> HIDE DEF q
  <2> QED BY <1>0, <1>1, <2>1, <2>2, DrawnHeld
<1>6. CASE DeleteKey
  <2>1. CASE selectedEdge \in DOMAIN program.edges
    <3> DEFINE q == [program EXCEPT !.edges = RemoveAt(@, selectedEdge)]
    <3>1. Draw(q, selectedPhase, 0) /\ stray' = stray
      BY <1>6, <2>1 DEF DeleteKey
    <3>2. Sound(q) /\ (Clean(program) => Clean(q))
      BY <1>4, <2>1
    <3> HIDE DEF q
    <3>3. stray' \in BOOLEAN /\ (stray' \/ Clean(q))
      BY <1>2, <3>1, <3>2
    <3> QED BY <1>1, <3>1, <3>2, <3>3, Drawn
  <2>2. CASE selectedEdge \notin DOMAIN program.edges
    <3>1. Draw(program, selectedPhase, 0) /\ stray' = stray
      BY <1>6, <2>2 DEF DeleteKey
    <3> QED BY <1>0, <1>1, <3>1, DrawnAgain
  <2> QED BY <2>1, <2>2
<1> QED BY <1>3, <1>5, <1>6

\* Loading a program, and sending and answering requests.
LEMMA RequestActions ==
  ASSUME EditorInv, \/ LoadTemplate \/ ApplyWorkflow \/ SendAdapt \/ AdaptAnswered \/ AdaptFailed
                    \/ SendSave \/ SaveAnswered \/ SaveFailed \/ SaveListed
  PROVE  CanvasInv'
<1>0. CanvasInv
  BY DEF EditorInv
<1>1. selectedPhase \in Nat /\ selectedEdge \in Nat /\ 0 \in Nat /\ 1 \in Nat
  BY <1>0, Indices
<1>2. ASSUME NEW p \in ProgramsOver(Names), Accepted(p), NEW phase \in Nat, NEW edge \in Nat,
             Draw(p, phase, edge), stray' = FALSE
      PROVE  CanvasInv'
  BY <1>2, AcceptedSound, Drawn
<1>3. CASE LoadTemplate
  BY <1>1, <1>2, <1>3, EditorAssumption DEF LoadTemplate
<1>4. CASE ApplyWorkflow
  BY <1>1, <1>2, <1>4, EditorAssumption DEF ApplyWorkflow
<1>5. CASE AdaptAnswered
  BY <1>1, <1>2, <1>5 DEF AdaptAnswered, EditorInv, RequestInv
<1>6. CASE SendAdapt \/ AdaptFailed \/ SendSave \/ SaveFailed
  BY <1>0, <1>6 DEF SendAdapt, AdaptFailed, SendSave, SaveFailed, CanvasInv, Sound
<1>7. CASE SaveAnswered
  <2>1. PICK p \in saving : Accepted(p) /\ program' = p
    BY <1>7 DEF SaveAnswered
  <2>2. Sound(p) /\ Clean(p)
    BY <2>1, AcceptedSound DEF EditorInv, RequestInv
  <2> QED BY <1>0, <1>7, <2>1, <2>2 DEF SaveAnswered, CanvasInv, Sound
<1>8. CASE SaveListed
  BY <1>0, <1>1, <1>8, DrawnAgain DEF SaveListed
<1> QED BY <1>3, <1>4, <1>5, <1>6, <1>7, <1>8

\* Every handler keeps the invariant.
LEMMA EditorSteps == EditorInv /\ [Next]_vars => EditorInv'
<1> SUFFICES ASSUME EditorInv, [Next]_vars PROVE EditorInv'
  OBVIOUS
<1>1. CASE Next
  <2>1. CanvasInv'
    BY <1>1, ToolActions, ConnectActions, AddActions, DeleteActions, RequestActions DEF Next
  <2>2. ToolInv' /\ RequestInv'
    BY <1>1, ToolStep, RequestStep
  <2> QED BY <2>1, <2>2 DEF EditorInv
<1>2. CASE UNCHANGED vars
  BY <1>2 DEF vars, EditorInv, CanvasInv, ToolInv, RequestInv, Sound
<1> QED BY <1>1, <1>2

\* The invariant holds throughout.
LEMMA EditorInvAlways == Spec => []EditorInv
BY EditorStarts, EditorSteps, PTL DEF Spec

\* Such a set has one member at most by its cardinality.
LEMMA FewMembers ==
  ASSUME NEW S, AtMostOne(S)
  PROVE  Cardinality(S) <= 1
<1>1. CASE S = {}
  BY <1>1, FS_EmptySet
<1>2. CASE S # {}
  <2>1. PICK x : S = {x}
    BY <1>2 DEF AtMostOne
  <2>2. Cardinality({x}) = 1 BY FS_Singleton
  <2> QED BY <2>1, <2>2
<1> QED BY <1>1, <1>2

\* The invariant gives the property.
LEMMA EditorInvSound == EditorInv => ProgramStaysSound
<1> SUFFICES ASSUME EditorInv PROVE ProgramStaysSound
  OBVIOUS
<1> USE DEF EditorInv, CanvasInv, ToolInv, RequestInv
<1>1. TypeOK
  <2>1. /\ Cardinality(arrowSource) <= 1 /\ Cardinality(draft) <= 1
        /\ Cardinality(adapting) <= 1 /\ Cardinality(saving) <= 1
    BY FewMembers
  <2> QED BY <2>1 DEF TypeOK, Sound
<1>2. IdsUnique /\ WorkRemains
  BY DEF Sound, IdsUnique, WorkRemains
<1>3. CleanUnlessStray
  BY OrderedIffAcyclic DEF CleanUnlessStray, Sound, Clean
<1> QED BY <1>1, <1>2, <1>3 DEF ProgramStaysSound

-----------------------------------------------------------------------------
(* Theorems about the canvas                                               *)

\* After any sequence of selections, arrows, copies, additions, deletions,
\* template loads and late answers of adapt and save: ids are distinct, a work
\* phase remains and, as long as no stray arrow was drawn, the arrows join
\* nodes, repeat none and close no loop.
THEOREM EditingKeepsProgramSound == Spec => []ProgramStaysSound
BY EditorInvAlways, EditorInvSound, PTL

\* What deletePhase changes of the dependencies.
LEMMA DeletionStep ==
  EditorInv /\ DeletePhase =>
    \A a, b \in Ids(program) \cap Ids(program') :
      b \in Reached(program, a) <=> b \in Reached(program', a)
<1> SUFFICES ASSUME EditorInv, DeletePhase,
                    NEW a \in Ids(program) \cap Ids(program'),
                    NEW b \in Ids(program) \cap Ids(program')
             PROVE  b \in Reached(program, a) <=> b \in Reached(program', a)
  OBVIOUS
<1>1. CASE detached
  <2>1. program' = program
    BY <1>1 DEF DeletePhase, DrawHeld, Draw
  <2> QED BY <2>1
<1>2. CASE ~detached
  <2>1. shown = program /\ Sound(program) /\ program \in ProgramsOver(Names)
    BY <1>2 DEF EditorInv, CanvasInv, Sound
  <2>2. selectedPhase \in DOMAIN program.phases
    BY <2>1, Indices DEF DeletePhase, EditorInv
  <2> DEFINE id == program.phases[selectedPhase].id
             next == [phases |-> RemoveAt(program.phases, selectedPhase), edges |-> Bridge(program, id)]
  <2>3. program' = next
    BY <1>2, <2>1 DEF DeletePhase, DrawHeld, Draw
  <2>4. /\ next \in ProgramsOver(Names) /\ next.edges = Bridge(program, id)
        /\ Ids(next) = Ids(program) \ {id}
    BY <2>1, <2>2, RemovePhaseIs DEF Sound
  <2>5. id \in Ids(program)
    BY <2>1, <2>2, IdFacts
  <2> HIDE DEF next, id
  <2>6. Ids(program') = Ids(next) /\ Reached(program', a) = Reached(next, a)
    BY <2>3
  <2>7. b \in Reached(program, a) <=> b \in Reached(next, a)
    BY <2>1, <2>4, <2>5, <2>6, BridgeReach
  <2> QED BY <2>6, <2>7
<1> QED BY <1>1, <1>2

\* The delete handler of home.js keeps every dependency between the remaining
\* nodes, direct or through the deleted one, and adds none, in any graph, with
\* loops and stray arrows too.
THEOREM DeletionIsFaithful == Spec => DeletionKeepsDependencies
<1>1. EditorInv /\ [Next]_vars =>
        [DeletePhase => \A a, b \in Ids(program) \cap Ids(program') :
           b \in Reached(program, a) <=> b \in Reached(program', a)]_vars
  BY DeletionStep
<1> QED BY <1>1, EditorInvAlways, PTL DEF Spec, DeletionKeepsDependencies

\* The program under design is a program.
LEMMA ProgramTyped == Spec => [](program \in ProgramsOver(Names))
<1>1. EditorInv => program \in ProgramsOver(Names)
  BY DEF EditorInv, CanvasInv, Sound
<1> QED BY <1>1, EditorInvAlways, PTL

\* Whatever was done on the canvas, the program under design meets what the
\* theorems above say of programs: its order, its rejection and its display.
THEOREM DesignIsRunAsDrawn == Spec => [](StableOrder /\ RejectsLoopsAndLooseParts /\ ShownAsRun)
<1>1. program \in ProgramsOver(Names) => StableOrder /\ RejectsLoopsAndLooseParts /\ ShownAsRun
  BY ServerOrderIsStable, ServerRejectsLoopsAndLooseParts, ProgramIsShownAsRun
<1> QED BY <1>1, ProgramTyped, PTL
=============================================================================
