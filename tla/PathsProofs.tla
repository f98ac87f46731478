----------------------------- MODULE PathsProofs -----------------------------
(***************************************************************************)
(* Proofs about Lookup, for every graph of nodes and every path, and about *)
(* Paths: what lookups find is what paths mean, chdir enters what a path   *)
(* led to, creation keeps the entries of directories, listings are in      *)
(* order.                                                                  *)
(***************************************************************************)
EXTENDS Paths, Recursion, SequenceTheorems

-----------------------------------------------------------------------------
(* Lookups end: each turn leaves fewer links to follow, or fewer names.    *)

Budget(at) == IF at.links > LinkLimit THEN 0 ELSE LinkLimit + 1 - at.links
Less(a, b) == Budget(a) < Budget(b) \/ (Budget(a) = Budget(b) /\ Len(a.names) < Len(b.names))
Below(g) == {ab \in Lookups(g) \X Lookups(g) : Less(ab[1], ab[2])}

LEMMA BudgetType ==
  ASSUME NEW g, NEW at \in Lookups(g)
  PROVE  Budget(at) \in Nat /\ Len(at.names) \in Nat
BY LookupAssumption DEF Lookups, Budget

LEMMA LookupsFounded ==
  ASSUME NEW g
  PROVE  Founded(Below(g), Lookups(g))
<1> SUFFICES ASSUME NEW A \in SUBSET Lookups(g), A # {}
             PROVE \E x \in A : \A y \in A : <<y, x>> \notin Below(g)
  BY DEF Founded
<1>1. \A at \in A : Budget(at) \in Nat /\ Len(at.names) \in Nat
  BY BudgetType
<1>2. PICK a \in A : \A y \in A : Budget(a) <= Budget(y)
  <2> DEFINE S == {Budget(y) : y \in A}
  <2>1. S \subseteq Nat /\ S # {} BY <1>1
  <2> HIDE DEF S
  <2>2. PICK n \in S : \A m \in S : n <= m BY <2>1, LeastExists
  <2> QED BY <2>2 DEF S
<1>3. PICK x \in A : /\ Budget(x) = Budget(a)
                     /\ \A y \in A : Budget(y) = Budget(a) => Len(x.names) <= Len(y.names)
  <2> DEFINE S == {Len(y.names) : y \in {z \in A : Budget(z) = Budget(a)}}
  <2>1. S \subseteq Nat /\ S # {} BY <1>1
  <2> HIDE DEF S
  <2>2. PICK n \in S : \A m \in S : n <= m BY <2>1, LeastExists
  <2> QED BY <2>2 DEF S
<1>4. ASSUME NEW y \in A, <<y, x>> \in Below(g) PROVE FALSE
  <2>1. Less(y, x) BY <1>4 DEF Below
  <2>2. Budget(x) <= Budget(y) BY <1>2, <1>3
  <2>3. Budget(y) = Budget(a) => Len(x.names) <= Len(y.names) BY <1>3
  <2> QED BY <1>1, <1>3, <2>1, <2>2, <2>3 DEF Less
<1> QED BY <1>4

(* The lookups that a turn goes on with.                                   *)
LEMMA StepsBelow ==
  ASSUME NEW g, IsGraph(g), NEW at \in Lookups(g), at.names # <<>>
  PROVE  /\ Later(at) \in Lookups(g) /\ <<Later(at), at>> \in Below(g)
         /\ \A child \in g.nodes :
              InChild(at, child) \in Lookups(g) /\ <<InChild(at, child), at>> \in Below(g)
<1>1. /\ at.names \in Seq(Name) /\ at.node \in g.nodes /\ at.links \in Nat /\ at.stop \in BOOLEAN
      /\ Tail(at.names) \in Seq(Name) /\ Len(Tail(at.names)) = Len(at.names) - 1
      /\ Len(at.names) \in Nat
  BY DEF Lookups
<1>2. Later(at) \in Lookups(g)
  BY <1>1 DEF Lookups, Later, InChild
<1>3. Less(Later(at), at)
  BY <1>1, LookupAssumption DEF Less, Later, InChild, Budget, Lookups
<1>4. ASSUME NEW child \in g.nodes
      PROVE  InChild(at, child) \in Lookups(g) /\ Less(InChild(at, child), at)
  <2>1. InChild(at, child) \in Lookups(g) BY <1>1 DEF Lookups, InChild
  <2>2. Less(InChild(at, child), at)
    BY <1>1, LookupAssumption DEF Less, InChild, Budget, Lookups
  <2> QED BY <2>1, <2>2
<1> QED BY <1>2, <1>3, <1>4 DEF Below

LEMMA LinksBelow ==
  ASSUME NEW g, IsGraph(g), NEW at \in Lookups(g), at.names # <<>>, ~(at.links > LinkLimit),
         NEW target \in Path
  PROVE  /\ AtTarget(g, at, target) \in Lookups(g) /\ <<AtTarget(g, at, target), at>> \in Below(g)
         /\ Resolving(g, at, target) \in Lookups(g) /\ <<Resolving(g, at, target), at>> \in Below(g)
         /\ \A followed : followed.node \in g.nodes /\ followed.links \in Nat =>
              Resolved(at, followed) \in Lookups(g) /\ <<Resolved(at, followed), at>> \in Below(g)
<1>1. /\ at.names \in Seq(Name) /\ at.node \in g.nodes /\ at.links \in Nat /\ at.stop \in BOOLEAN
      /\ Tail(at.names) \in Seq(Name)
  BY DEF Lookups
<1>2. target \in Seq(Name) /\ StartOf(g, target, at.node) \in g.nodes
  BY <1>1 DEF Path, StartOf, IsGraph
<1>3. Spliced(target, Tail(at.names)) \in Seq(Name)
  BY <1>1, <1>2 DEF Spliced
<1>4. \A other \in Lookups(g) : other.links > at.links => Less(other, at)
  BY <1>1, LookupAssumption DEF Less, Budget, Lookups
<1>5. AtTarget(g, at, target) \in Lookups(g) /\ AtTarget(g, at, target).links = at.links + 1
  BY <1>1, <1>2, <1>3 DEF AtTarget, Lookups
<1>6. Resolving(g, at, target) \in Lookups(g) /\ Resolving(g, at, target).links = at.links + 1
  BY <1>1, <1>2 DEF Resolving, Lookups
<1>7. ASSUME NEW followed, followed.node \in g.nodes, followed.links \in Nat
      PROVE  /\ Resolved(at, followed) \in Lookups(g)
             /\ Resolved(at, followed).links = at.links + 1 + followed.links
  BY <1>1, <1>7 DEF Resolved, Lookups
<1>8. <<AtTarget(g, at, target), at>> \in Below(g)
  BY <1>1, <1>4, <1>5 DEF Below
<1>9. <<Resolving(g, at, target), at>> \in Below(g)
  BY <1>1, <1>4, <1>6 DEF Below
<1>10. ASSUME NEW followed, followed.node \in g.nodes, followed.links \in Nat
       PROVE <<Resolved(at, followed), at>> \in Below(g)
  <2>1. /\ Resolved(at, followed) \in Lookups(g)
        /\ Resolved(at, followed).links = at.links + 1 + followed.links
    BY <1>7, <1>10
  <2>2. Resolved(at, followed).links > at.links BY <1>1, <1>10, <2>1
  <2> QED BY <1>4, <2>1, <2>2 DEF Below
<1> QED BY <1>5, <1>6, <1>7, <1>8, <1>9, <1>10

-----------------------------------------------------------------------------
(* Walk and Meaning solve their equations.                                 *)

Ends(g) == g.nodes \cup Errors
MeaningSet(g) == [node : Ends(g), links : Nat]

(* A turn looks at what it goes on with, and at nothing else.              *)
LEMMA WalkedLocal ==
  ASSUME NEW g, IsGraph(g), NEW at \in Lookups(g), NEW walk,
         \A y \in Lookups(g) : <<y, at>> \in Below(g) => walk[y] \in Ends(g)
  PROVE  /\ Walked(g, walk, at) \in Ends(g)
         /\ \A other : (\A y \in Lookups(g) : <<y, at>> \in Below(g) => walk[y] = other[y])
                         => Walked(g, walk, at) = Walked(g, other, at)
<1>1. at.names \in Seq(Name) /\ at.node \in g.nodes /\ at.links \in Nat /\ at.stop \in BOOLEAN
  BY DEF Lookups
<1>2. CASE at.names = <<>>
  BY <1>1, <1>2 DEF Walked, Ends
<1>3. CASE at.names # <<>> /\ Head(at.names) = Empty
  BY <1>3, StepsBelow DEF Walked
<1>4. CASE at.names # <<>> /\ Head(at.names) # Empty /\ at.node \notin DOMAIN g.children
  BY <1>4 DEF Walked, Ends, Errors
<1>5. CASE /\ at.names # <<>> /\ Head(at.names) # Empty /\ at.node \in DOMAIN g.children
           /\ Head(at.names) \notin DOMAIN g.children[at.node]
  BY <1>5 DEF Walked, Ends, Errors
<1>6. CASE /\ at.names # <<>> /\ Head(at.names) # Empty /\ at.node \in DOMAIN g.children
           /\ Head(at.names) \in DOMAIN g.children[at.node]
  <2>1. PICK child \in g.nodes : child = g.children[at.node][Head(at.names)]
    BY <1>6 DEF IsGraph
  <2>2. CASE child \notin DOMAIN g.target
    <3>1. \A w : Walked(g, w, at) = w[InChild(at, child)]
      BY <1>6, <2>1, <2>2 DEF Walked
    <3> QED BY <3>1, <1>6, StepsBelow
  <2>3. CASE child \in DOMAIN g.target /\ at.stop /\ Len(at.names) = 1
    <3>1. \A w : Walked(g, w, at) = child
      BY <1>6, <2>1, <2>3 DEF Walked
    <3> QED BY <3>1 DEF Ends
  <2>4. CASE child \in DOMAIN g.target /\ ~(at.stop /\ Len(at.names) = 1) /\ at.links > LinkLimit
    <3>1. \A w : Walked(g, w, at) = Loop
      BY <1>6, <2>1, <2>4 DEF Walked
    <3> QED BY <3>1 DEF Ends, Errors
  <2>5. CASE child \in DOMAIN g.target /\ ~(at.stop /\ Len(at.names) = 1) /\ ~(at.links > LinkLimit)
    <3>1. \A w : Walked(g, w, at) = w[AtTarget(g, at, g.target[child])]
      BY <1>6, <2>1, <2>5 DEF Walked
    <3>2. g.target[child] \in Path BY <2>5 DEF IsGraph
    <3>3. /\ AtTarget(g, at, g.target[child]) \in Lookups(g)
          /\ <<AtTarget(g, at, g.target[child]), at>> \in Below(g)
      BY <1>6, <2>5, <3>2, LinksBelow
    <3> QED BY <3>1, <3>3
  <2> QED BY <2>2, <2>3, <2>4, <2>5
<1> QED BY <1>2, <1>3, <1>4, <1>5, <1>6

WalkEquation(g, walk) == \A at \in Lookups(g) : walk[at] = Walked(g, walk, at)

LEMMA WalkSolves ==
  ASSUME NEW g, IsGraph(g)
  PROVE  Walk(g) \in [Lookups(g) -> Ends(g)] /\ WalkEquation(g, Walk(g))
<1> DEFINE S == Lookups(g)
           T == Ends(g)
           D == [a \in [S -> T] \X S |-> Walked(g, a[1], a[2])]
<1>1. \A f \in [S -> T], at \in S : D[<<f, at>>] = Walked(g, f, at) /\ Walked(g, f, at) \in T
  <2> SUFFICES ASSUME NEW f \in [S -> T], NEW at \in S
               PROVE D[<<f, at>>] = Walked(g, f, at) /\ Walked(g, f, at) \in T
    OBVIOUS
  <2>1. \A y \in S : f[y] \in T OBVIOUS
  <2> HIDE DEF T
  <2>2. Walked(g, f, at) \in T BY <2>1, WalkedLocal DEF T
  <2> QED BY <2>2
<1>2. D \in [[S -> T] \X S -> T]
  <2> HIDE DEF S, T
  <2>1. \A a \in [S -> T] \X S : a[1] \in [S -> T] /\ a[2] \in S /\ a = <<a[1], a[2]>> OBVIOUS
  <2>2. \A a \in [S -> T] \X S : D[a] \in T BY <1>1, <2>1
  <2> QED BY <2>2
<1>3. Local(D, Below(g), S, T)
  <2> SUFFICES ASSUME NEW x \in S, NEW a \in [S -> T], NEW b \in [S -> T],
                      \A y \in S : <<y, x>> \in Below(g) => a[y] = b[y]
               PROVE D[<<a, x>>] = D[<<b, x>>]
    BY DEF Local
  <2>1. \A y \in S : a[y] \in T OBVIOUS
  <2> HIDE DEF T
  <2>2. Walked(g, a, x) = Walked(g, b, x) BY <2>1, WalkedLocal DEF T
  <2> HIDE DEF D
  <2> QED BY <1>1, <2>2
<1>4. T # {} BY DEF Ends, Errors
<1>5. Founded(Below(g), S) BY LookupsFounded
<1>6. PICK f \in [S -> T] : \A x \in S : f[x] = D[<<f, x>>]
  <2> DEFINE R == Below(g)
  <2>1. Founded(R, S) /\ Local(D, R, S, T) BY <1>3, <1>5
  <2>2. IsBody(D, S, T) BY <1>2, <1>4 DEF IsBody
  <2> HIDE DEF R, S, T, D
  <2>3. Defines(D, S, T) BY <2>1, <2>2, RecursiveFunction
  <2> QED BY <2>3 DEF Defines
<1>7. f = [at \in S |-> Walked(g, f, at)]
  <2> HIDE DEF D, S, T
  <2>1. \A x \in S : f[x] = Walked(g, f, x) BY <1>1, <1>6
  <2> QED BY <2>1
<1>8. PICK w : w = Walk(g) /\ w = [at \in S |-> Walked(g, w, at)]
  BY <1>7 DEF Walk
<1>9. DOMAIN w = S /\ \A at \in S : w[at] = Walked(g, w, at)
  <2> HIDE DEF S
  <2> QED BY <1>8
<1>10. \A at \in S : w[at] \in T
  <2> DEFINE A == {at \in S : w[at] \in T}
  <2>1. ASSUME NEW x \in S, \A y \in S : <<y, x>> \in Below(g) => y \in A PROVE x \in A
    <3> HIDE DEF T
    <3>1. \A y \in S : <<y, x>> \in Below(g) => w[y] \in T BY <2>1
    <3>2. Walked(g, w, x) \in T BY <3>1, WalkedLocal DEF T
    <3> QED BY <1>9, <3>2
  <2>2. S \subseteq A
    <3> HIDE DEF S, A
    <3> QED BY <1>5, <2>1, FoundedInduction
  <2> QED BY <2>2
<1>11. w \in [S -> T]
  <2> HIDE DEF S, T
  <2> QED BY <1>8, <1>10
<1> QED BY <1>8, <1>9, <1>11 DEF WalkEquation

LEMMA MeantLocal ==
  ASSUME NEW g, IsGraph(g), NEW at \in Lookups(g), NEW meaning,
         \A y \in Lookups(g) : <<y, at>> \in Below(g) => meaning[y] \in MeaningSet(g)
  PROVE  /\ Meant(g, meaning, at) \in MeaningSet(g)
         /\ \A other : (\A y \in Lookups(g) : <<y, at>> \in Below(g) => meaning[y] = other[y])
                         => Meant(g, meaning, at) = Meant(g, other, at)
<1>1. at.names \in Seq(Name) /\ at.node \in g.nodes /\ at.links \in Nat /\ at.stop \in BOOLEAN
  BY DEF Lookups
<1>0. \A node \in Ends(g) : [node |-> node, links |-> 0] \in MeaningSet(g)
  BY DEF MeaningSet
<1>2. CASE at.names = <<>>
  BY <1>0, <1>1, <1>2 DEF Meant, Ends
<1>3. CASE at.names # <<>> /\ Head(at.names) = Empty
  BY <1>3, StepsBelow DEF Meant
<1>4. CASE at.names # <<>> /\ Head(at.names) # Empty /\ at.node \notin DOMAIN g.children
  BY <1>0, <1>4 DEF Meant, Ends, Errors
<1>5. CASE /\ at.names # <<>> /\ Head(at.names) # Empty /\ at.node \in DOMAIN g.children
           /\ Head(at.names) \notin DOMAIN g.children[at.node]
  BY <1>0, <1>5 DEF Meant, Ends, Errors
<1>6. CASE /\ at.names # <<>> /\ Head(at.names) # Empty /\ at.node \in DOMAIN g.children
           /\ Head(at.names) \in DOMAIN g.children[at.node]
  <2>1. PICK child \in g.nodes : child = g.children[at.node][Head(at.names)]
    BY <1>6 DEF IsGraph
  <2>2. CASE child \notin DOMAIN g.target
    <3>1. \A w : Meant(g, w, at) = w[InChild(at, child)]
      BY <1>6, <2>1, <2>2 DEF Meant
    <3> QED BY <3>1, <1>6, StepsBelow
  <2>3. CASE child \in DOMAIN g.target /\ at.stop /\ Len(at.names) = 1
    <3>1. \A w : Meant(g, w, at) = [node |-> child, links |-> 0]
      BY <1>6, <2>1, <2>3 DEF Meant
    <3> QED BY <1>0, <3>1 DEF Ends
  <2>4. CASE child \in DOMAIN g.target /\ ~(at.stop /\ Len(at.names) = 1) /\ at.links > LinkLimit
    <3>1. \A w : Meant(g, w, at) = [node |-> Loop, links |-> 0]
      BY <1>6, <2>1, <2>4 DEF Meant
    <3> QED BY <1>0, <3>1 DEF Ends, Errors
  <2>5. CASE child \in DOMAIN g.target /\ ~(at.stop /\ Len(at.names) = 1) /\ ~(at.links > LinkLimit)
    <3> DEFINE there == Resolving(g, at, g.target[child])
    <3>1. \A w : Meant(g, w, at) =
            IF Failed(w[there].node) THEN w[there]
            ELSE [w[Resolved(at, w[there])] EXCEPT !.links = @ + 1 + w[there].links]
      BY <1>6, <2>1, <2>5 DEF Meant
    <3>2. g.target[child] \in Path BY <2>5 DEF IsGraph
    <3>3. there \in Lookups(g) /\ <<there, at>> \in Below(g)
      BY <1>6, <2>5, <3>2, LinksBelow
    <3> HIDE DEF there
    <3>4. PICK followed \in MeaningSet(g) : followed = meaning[there] BY <3>3
    <3>5. CASE Failed(followed.node)
      BY <3>1, <3>3, <3>4, <3>5
    <3>6. CASE ~Failed(followed.node)
      <4>1. followed.node \in g.nodes /\ followed.links \in Nat
        BY <3>6 DEF MeaningSet, Ends, Failed
      <4>2. /\ Resolved(at, followed) \in Lookups(g)
            /\ <<Resolved(at, followed), at>> \in Below(g)
        BY <1>6, <2>5, <3>2, <4>1, LinksBelow
      <4>3. PICK rest \in MeaningSet(g) : rest = meaning[Resolved(at, followed)] BY <4>2
      <4>4. Meant(g, meaning, at) = [rest EXCEPT !.links = @ + 1 + followed.links]
        BY <3>1, <3>4, <3>6, <4>3
      <4>5. [rest EXCEPT !.links = @ + 1 + followed.links] \in MeaningSet(g)
        BY <4>1 DEF MeaningSet
      <4>6. ASSUME NEW other, \A y \in Lookups(g) : <<y, at>> \in Below(g) => meaning[y] = other[y]
            PROVE  Meant(g, other, at) = [rest EXCEPT !.links = @ + 1 + followed.links]
        <5>1. other[there] = followed BY <3>3, <3>4, <4>6
        <5>2. other[Resolved(at, followed)] = rest BY <4>2, <4>3, <4>6
        <5> QED BY <3>1, <3>6, <5>1, <5>2
      <4> QED BY <4>4, <4>5, <4>6
    <3> QED BY <3>5, <3>6
  <2> QED BY <2>2, <2>3, <2>4, <2>5
<1> QED BY <1>2, <1>3, <1>4, <1>5, <1>6

MeaningEquation(g, meaning) == \A at \in Lookups(g) : meaning[at] = Meant(g, meaning, at)

LEMMA MeaningSolves ==
  ASSUME NEW g, IsGraph(g)
  PROVE  Meaning(g) \in [Lookups(g) -> MeaningSet(g)] /\ MeaningEquation(g, Meaning(g))
<1> DEFINE S == Lookups(g)
           T == MeaningSet(g)
           D == [a \in [S -> T] \X S |-> Meant(g, a[1], a[2])]
<1>1. \A f \in [S -> T], at \in S : D[<<f, at>>] = Meant(g, f, at) /\ Meant(g, f, at) \in T
  <2> SUFFICES ASSUME NEW f \in [S -> T], NEW at \in S
               PROVE D[<<f, at>>] = Meant(g, f, at) /\ Meant(g, f, at) \in T
    OBVIOUS
  <2>1. \A y \in S : f[y] \in T OBVIOUS
  <2> HIDE DEF T
  <2>2. Meant(g, f, at) \in T BY <2>1, MeantLocal DEF T
  <2> QED BY <2>2
<1>2. D \in [[S -> T] \X S -> T]
  <2> HIDE DEF S, T
  <2>1. \A a \in [S -> T] \X S : a[1] \in [S -> T] /\ a[2] \in S /\ a = <<a[1], a[2]>> OBVIOUS
  <2>2. \A a \in [S -> T] \X S : D[a] \in T BY <1>1, <2>1
  <2> QED BY <2>2
<1>3. Local(D, Below(g), S, T)
  <2> SUFFICES ASSUME NEW x \in S, NEW a \in [S -> T], NEW b \in [S -> T],
                      \A y \in S : <<y, x>> \in Below(g) => a[y] = b[y]
               PROVE D[<<a, x>>] = D[<<b, x>>]
    BY DEF Local
  <2>1. \A y \in S : a[y] \in T OBVIOUS
  <2> HIDE DEF T
  <2>2. Meant(g, a, x) = Meant(g, b, x) BY <2>1, MeantLocal DEF T
  <2> HIDE DEF D
  <2> QED BY <1>1, <2>2
<1>4. T # {}
  <2>1. [node |-> Loop, links |-> 0] \in T BY DEF MeaningSet, Ends, Errors
  <2> QED BY <2>1
<1>5. Founded(Below(g), S) BY LookupsFounded
<1>6. PICK f \in [S -> T] : \A x \in S : f[x] = D[<<f, x>>]
  <2> DEFINE R == Below(g)
  <2>1. Founded(R, S) /\ Local(D, R, S, T) BY <1>3, <1>5
  <2>2. IsBody(D, S, T) BY <1>2, <1>4 DEF IsBody
  <2> HIDE DEF R, S, T, D
  <2>3. Defines(D, S, T) BY <2>1, <2>2, RecursiveFunction
  <2> QED BY <2>3 DEF Defines
<1>7. f = [at \in S |-> Meant(g, f, at)]
  <2> HIDE DEF D, S, T
  <2>1. \A x \in S : f[x] = Meant(g, f, x) BY <1>1, <1>6
  <2> QED BY <2>1
<1>8. PICK w : w = Meaning(g) /\ w = [at \in S |-> Meant(g, w, at)]
  BY <1>7 DEF Meaning
<1>9. DOMAIN w = S /\ \A at \in S : w[at] = Meant(g, w, at)
  <2> HIDE DEF S
  <2> QED BY <1>8
<1>10. \A at \in S : w[at] \in T
  <2> DEFINE A == {at \in S : w[at] \in T}
  <2>1. ASSUME NEW x \in S, \A y \in S : <<y, x>> \in Below(g) => y \in A PROVE x \in A
    <3> HIDE DEF T
    <3>1. \A y \in S : <<y, x>> \in Below(g) => w[y] \in T BY <2>1
    <3>2. Meant(g, w, x) \in T BY <3>1, MeantLocal DEF T
    <3> QED BY <1>9, <3>2
  <2>2. S \subseteq A
    <3> HIDE DEF S, A
    <3> QED BY <1>5, <2>1, FoundedInduction
  <2> QED BY <2>2
<1>11. w \in [S -> T]
  <2> HIDE DEF S, T
  <2> QED BY <1>8, <1>10
<1> QED BY <1>8, <1>9, <1>11 DEF MeaningEquation

-----------------------------------------------------------------------------
(* What a lookup finds is what its path means.                             *)

(* What a turn does and means, once for all that follows.                  *)
Leaves(g, at, node) == Walk(g)[at] = node /\ Meaning(g)[at] = [node |-> node, links |-> 0]
Passes(g, at, next) == Walk(g)[at] = Walk(g)[next] /\ Meaning(g)[at] = Meaning(g)[next]
Follows(g, at, target) ==
  LET followed == Meaning(g)[Resolving(g, at, target)]
      rest == Meaning(g)[Resolved(at, followed)]
  IN /\ Walk(g)[at] = Walk(g)[AtTarget(g, at, target)]
     /\ Meaning(g)[at] = IF Failed(followed.node) THEN followed
                         ELSE [rest EXCEPT !.links = @ + 1 + followed.links]
Here(g, at) == at.node \in DOMAIN g.children /\ Head(at.names) \in DOMAIN g.children[at.node]
ChildOf(g, at) == g.children[at.node][Head(at.names)]

LEMMA Turn ==
  ASSUME NEW g, IsGraph(g), NEW at \in Lookups(g)
  PROVE  /\ at.names = <<>> => Leaves(g, at, at.node)
         /\ at.names # <<>> /\ Head(at.names) = Empty => Passes(g, at, Later(at))
         /\ at.names # <<>> /\ Head(at.names) # Empty =>
              /\ at.node \notin DOMAIN g.children => Leaves(g, at, TypeError)
              /\ at.node \in DOMAIN g.children /\ ~Here(g, at) => Leaves(g, at, NoEntry)
              /\ Here(g, at) =>
                   /\ ChildOf(g, at) \in g.nodes
                   /\ ChildOf(g, at) \notin DOMAIN g.target
                        => Passes(g, at, InChild(at, ChildOf(g, at)))
                   /\ ChildOf(g, at) \in DOMAIN g.target =>
                        /\ g.target[ChildOf(g, at)] \in Path
                        /\ at.stop /\ Len(at.names) = 1 => Leaves(g, at, ChildOf(g, at))
                        /\ ~(at.stop /\ Len(at.names) = 1) /\ at.links > LinkLimit
                             => Leaves(g, at, Loop)
                        /\ ~(at.stop /\ Len(at.names) = 1) /\ ~(at.links > LinkLimit)
                             => Follows(g, at, g.target[ChildOf(g, at)])
<1>1. Walk(g)[at] = Walked(g, Walk(g), at) BY WalkSolves DEF WalkEquation
<1>2. Meaning(g)[at] = Meant(g, Meaning(g), at) BY MeaningSolves DEF MeaningEquation
<1>3. at.names = <<>> => Leaves(g, at, at.node)
  BY <1>1, <1>2 DEF Leaves, Walked, Meant
<1>4. at.names # <<>> /\ Head(at.names) = Empty => Passes(g, at, Later(at))
  BY <1>1, <1>2 DEF Passes, Walked, Meant
<1>5. ASSUME at.names # <<>>, Head(at.names) # Empty
      PROVE  /\ at.node \notin DOMAIN g.children => Leaves(g, at, TypeError)
             /\ at.node \in DOMAIN g.children /\ ~Here(g, at) => Leaves(g, at, NoEntry)
  BY <1>1, <1>2, <1>5 DEF Leaves, Walked, Meant, Here
<1>6. ASSUME at.names # <<>>, Head(at.names) # Empty, Here(g, at)
      PROVE  /\ ChildOf(g, at) \in g.nodes
             /\ ChildOf(g, at) \notin DOMAIN g.target => Passes(g, at, InChild(at, ChildOf(g, at)))
             /\ ChildOf(g, at) \in DOMAIN g.target =>
                  /\ g.target[ChildOf(g, at)] \in Path
                  /\ at.stop /\ Len(at.names) = 1 => Leaves(g, at, ChildOf(g, at))
                  /\ ~(at.stop /\ Len(at.names) = 1) /\ at.links > LinkLimit
                       => Leaves(g, at, Loop)
                  /\ ~(at.stop /\ Len(at.names) = 1) /\ ~(at.links > LinkLimit)
                       => Follows(g, at, g.target[ChildOf(g, at)])
  <2>1. PICK child : child = ChildOf(g, at) OBVIOUS
  <2>2. child = g.children[at.node][Head(at.names)] BY <2>1 DEF ChildOf
  <2>3. child \in g.nodes BY <1>6, <2>2 DEF Here, IsGraph
  <2>4. child \in DOMAIN g.target => g.target[child] \in Path BY DEF IsGraph
  <2>5. child \notin DOMAIN g.target => Passes(g, at, InChild(at, child))
    BY <1>1, <1>2, <1>6, <2>2 DEF Passes, Walked, Meant, Here
  <2>6. ASSUME child \in DOMAIN g.target, at.stop, Len(at.names) = 1
        PROVE  Leaves(g, at, child)
    BY <1>1, <1>2, <1>6, <2>2, <2>6 DEF Leaves, Walked, Meant, Here
  <2>7. ASSUME child \in DOMAIN g.target, ~(at.stop /\ Len(at.names) = 1), at.links > LinkLimit
        PROVE  Leaves(g, at, Loop)
    BY <1>1, <1>2, <1>6, <2>2, <2>7 DEF Leaves, Walked, Meant, Here
  <2>8. ASSUME child \in DOMAIN g.target, ~(at.stop /\ Len(at.names) = 1), ~(at.links > LinkLimit)
        PROVE  Follows(g, at, g.target[child])
    BY <1>1, <1>2, <1>6, <2>2, <2>8 DEF Follows, Walked, Meant, Here
  <2> QED BY <2>1, <2>3, <2>4, <2>5, <2>6, <2>7, <2>8
<1> QED BY <1>3, <1>4, <1>5, <1>6

(* The names of at are looked up before rest, which then goes on from where*)
(* they lead, with the links that they took; s says whether it may stop.   *)
With(at, rest, s) ==
  [names |-> at.names \o rest, node |-> at.node, links |-> at.links, stop |-> s]
After(at, result, rest, s) ==
  [names |-> rest, node |-> result.node, links |-> at.links + result.links, stop |-> s]
Continues(g, at, rest, s) ==
  LET result == Meaning(g)[at]
  IN Walk(g)[With(at, rest, s)] = IF Failed(result.node) THEN result.node
                                  ELSE Walk(g)[After(at, result, rest, s)]
Spliceable(g) ==
  {at \in Lookups(g) :
     ~at.stop => \A rest \in Seq(Name), s \in BOOLEAN :
                   rest # <<>> \/ ~s => Continues(g, at, rest, s)}

LEMMA TailOfConcat ==
  ASSUME NEW S, NEW s \in Seq(S), NEW t \in Seq(S), s # <<>>
  PROVE  Tail(s \o t) = Tail(s) \o t
<1> DEFINE u == Tail(s)
           v == s \o t
<1>1. /\ Len(s) \in Nat \ {0} /\ Len(t) \in Nat /\ u \in Seq(S) /\ Len(u) = Len(s) - 1
      /\ \A i \in 1..Len(u) : u[i] = s[i + 1]
  BY HeadTailProperties
<1>2. /\ v \in Seq(S) /\ Len(v) = Len(s) + Len(t)
      /\ \A i \in 1..Len(s) + Len(t) : v[i] = IF i <= Len(s) THEN s[i] ELSE t[i - Len(s)]
  BY ConcatProperties
<1>3. /\ Tail(v) \in Seq(S) /\ Len(Tail(v)) = Len(v) - 1
      /\ \A i \in 1..Len(Tail(v)) : Tail(v)[i] = v[i + 1]
  <2>1. v # <<>> BY <1>1, <1>2
  <2> HIDE DEF v
  <2> QED BY <1>2, <2>1, HeadTailProperties
<1> HIDE DEF u, v
<1>4. /\ u \o t \in Seq(S) /\ Len(u \o t) = Len(u) + Len(t)
      /\ \A i \in 1..Len(u) + Len(t) : (u \o t)[i] = IF i <= Len(u) THEN u[i] ELSE t[i - Len(u)]
  BY <1>1, ConcatProperties
<1>5. ASSUME NEW i \in 1..Len(Tail(v)) PROVE Tail(v)[i] = (u \o t)[i]
  <2>1. Tail(v)[i] = v[i + 1] /\ i + 1 \in 1..Len(s) + Len(t) /\ i \in 1..Len(u) + Len(t)
    BY <1>1, <1>2, <1>3
  <2>2. i + 1 <= Len(s) <=> i <= Len(u) BY <1>1, <2>1
  <2>3. i + 1 - Len(s) = i - Len(u) BY <1>1, <2>1
  <2>4. i <= Len(u) => u[i] = s[i + 1] BY <1>1, <2>1
  <2>5. v[i + 1] = IF i + 1 <= Len(s) THEN s[i + 1] ELSE t[i + 1 - Len(s)] BY <1>2, <2>1
  <2>6. (u \o t)[i] = IF i <= Len(u) THEN u[i] ELSE t[i - Len(u)] BY <1>4, <2>1
  <2> QED BY <2>1, <2>2, <2>3, <2>4, <2>5, <2>6
<1>6. Len(Tail(v)) = Len(u \o t) BY <1>1, <1>2, <1>3, <1>4
<1>7. Tail(v) = u \o t BY <1>3, <1>4, <1>5, <1>6, SeqEqual
<1> QED BY <1>7 DEF u, v

LEMMA WithLookup ==
  ASSUME NEW g, NEW at \in Lookups(g), NEW rest \in Seq(Name), NEW s \in BOOLEAN
  PROVE  /\ With(at, rest, s) \in Lookups(g)
         /\ at.names = <<>> => With(at, rest, s).names = rest
         /\ at.names # <<>> => /\ With(at, rest, s).names # <<>>
                               /\ Head(With(at, rest, s).names) = Head(at.names)
                               /\ Tail(With(at, rest, s).names) = Tail(at.names) \o rest
                               /\ rest # <<>> => Len(With(at, rest, s).names) # 1
<1>1. at.names \in Seq(Name) /\ at.node \in g.nodes /\ at.links \in Nat
  BY DEF Lookups
<1>2. at.names \o rest \in Seq(Name) BY <1>1
<1>3. With(at, rest, s) \in Lookups(g) BY <1>1, <1>2 DEF With, Lookups
<1>4. at.names = <<>> => at.names \o rest = rest BY <1>1
<1>5. ASSUME at.names # <<>>
      PROVE  /\ at.names \o rest # <<>>
             /\ Head(at.names \o rest) = Head(at.names)
             /\ rest # <<>> => Len(at.names \o rest) # 1
  BY <1>1, <1>5
<1>6. at.names # <<>> => Tail(at.names \o rest) = Tail(at.names) \o rest
  BY <1>1, TailOfConcat
<1> QED BY <1>3, <1>4, <1>5, <1>6 DEF With

LEMMA Splice ==
  ASSUME NEW g, IsGraph(g)
  PROVE  Lookups(g) \subseteq Spliceable(g)
<1>1. ASSUME NEW at \in Lookups(g),
             \A y \in Lookups(g) : <<y, at>> \in Below(g) => y \in Spliceable(g)
      PROVE  at \in Spliceable(g)
  <2> SUFFICES ASSUME ~at.stop, NEW rest \in Seq(Name), NEW s \in BOOLEAN, rest # <<>> \/ ~s
               PROVE  Continues(g, at, rest, s)
    BY DEF Spliceable
  <2> DEFINE long == With(at, rest, s)
  <2>1. /\ at.names \in Seq(Name) /\ at.node \in g.nodes /\ at.links \in Nat
        /\ \A node \in g.nodes : ~Failed(node)
    BY DEF Lookups, IsGraph, Failed
  <2>2. /\ long \in Lookups(g) /\ long.node = at.node /\ long.links = at.links /\ long.stop = s
        /\ at.names = <<>> => long.names = rest
        /\ at.names # <<>> => /\ long.names # <<>> /\ Head(long.names) = Head(at.names)
                              /\ Tail(long.names) = Tail(at.names) \o rest
                              /\ ~(s /\ Len(long.names) = 1)
    <3>1. long.node = at.node /\ long.links = at.links /\ long.stop = s BY DEF With
    <3> HIDE DEF long
    <3> QED BY <3>1, WithLookup DEF long
  <2>3. ASSUME NEW next \in Lookups(g), <<next, at>> \in Below(g),
               next.stop = at.stop, next.links = at.links,
               Passes(g, at, next), Passes(g, long, With(next, rest, s))
        PROVE  Continues(g, at, rest, s)
    <3>1. Continues(g, next, rest, s) BY <1>1, <2>3 DEF Spliceable
    <3>2. After(at, Meaning(g)[at], rest, s) = After(next, Meaning(g)[next], rest, s)
      BY <2>3 DEF After, Passes
    <3> QED BY <2>3, <3>1, <3>2 DEF Continues, Passes
  <2>4. ASSUME NEW error \in Errors, Leaves(g, at, error), Leaves(g, long, error)
        PROVE  Continues(g, at, rest, s)
    BY <2>4 DEF Leaves, Continues, Failed
  <2>5. CASE at.names = <<>>
    <3>1. Meaning(g)[at] = [node |-> at.node, links |-> 0] BY <2>5, Turn DEF Leaves
    <3>2. After(at, Meaning(g)[at], rest, s) = long
      <4>1. long = [names |-> rest, node |-> at.node, links |-> at.links, stop |-> s]
        BY <2>2, <2>5 DEF With
      <4> HIDE DEF long
      <4>2. at.links + 0 = at.links BY <2>1
      <4> QED BY <3>1, <4>1, <4>2 DEF After
    <3> QED BY <2>1, <3>1, <3>2 DEF Continues
  <2>6. CASE at.names # <<>> /\ Head(at.names) = Empty
    <3>1. Passes(g, at, Later(at)) BY <2>6, Turn
    <3>2. Passes(g, long, Later(long))
      <4> HIDE DEF long
      <4> QED BY <2>2, <2>6, Turn
    <3>3. Later(at) \in Lookups(g) /\ <<Later(at), at>> \in Below(g) BY <2>6, StepsBelow
    <3>4. /\ Later(at) = [names |-> Tail(at.names), node |-> at.node, links |-> at.links,
                          stop |-> at.stop]
          /\ Later(long) = [names |-> Tail(at.names) \o rest, node |-> at.node,
                            links |-> at.links, stop |-> s]
      BY <2>2, <2>6 DEF Later, InChild, With
    <3>5. Later(long) = With(Later(at), rest, s) BY <3>4 DEF With
    <3> HIDE DEF long
    <3> QED BY <2>3, <3>1, <3>2, <3>3, <3>4, <3>5
  <2>7. CASE at.names # <<>> /\ Head(at.names) # Empty /\ ~Here(g, at)
    <3>1. ~Here(g, long) BY <2>2, <2>7 DEF Here
    <3>2. TypeError \in Errors /\ NoEntry \in Errors BY DEF Errors
    <3> HIDE DEF long
    <3>3. CASE at.node \notin DOMAIN g.children
      <4>1. Leaves(g, at, TypeError) /\ Leaves(g, long, TypeError)
        BY <2>2, <2>7, <3>3, Turn
      <4> QED BY <2>4, <3>2, <4>1
    <3>4. CASE at.node \in DOMAIN g.children
      <4>1. Leaves(g, at, NoEntry) /\ Leaves(g, long, NoEntry)
        BY <2>2, <2>7, <3>1, <3>4, Turn
      <4> QED BY <2>4, <3>2, <4>1
    <3> QED BY <3>3, <3>4
  <2>8. CASE at.names # <<>> /\ Head(at.names) # Empty /\ Here(g, at)
    <3>1. PICK child : child = ChildOf(g, at) OBVIOUS
    <3>2. Here(g, long) /\ child = ChildOf(g, long) BY <2>2, <2>8, <3>1 DEF Here, ChildOf
    <3>3. child \in g.nodes BY <2>8, <3>1, Turn
    <3>4. CASE child \notin DOMAIN g.target
      <4>1. Passes(g, at, InChild(at, child)) BY <2>8, <3>1, <3>4, Turn
      <4>2. Passes(g, long, InChild(long, child))
        <5> HIDE DEF long
        <5> QED BY <2>2, <2>8, <3>2, <3>4, Turn
      <4>3. InChild(at, child) \in Lookups(g) /\ <<InChild(at, child), at>> \in Below(g)
        BY <2>8, <3>3, StepsBelow
      <4>4. InChild(at, child) = [names |-> Tail(at.names), node |-> child, links |-> at.links,
                                  stop |-> at.stop]
        BY DEF InChild
      <4>5. InChild(long, child) = [names |-> Tail(at.names) \o rest, node |-> child,
                                    links |-> at.links, stop |-> s]
        BY <2>2, <2>8 DEF InChild, With
      <4>6. InChild(long, child) = With(InChild(at, child), rest, s) BY <4>4, <4>5 DEF With
      <4> HIDE DEF long
      <4> QED BY <2>3, <4>1, <4>2, <4>3, <4>4, <4>6
    <3>5. CASE child \in DOMAIN g.target /\ at.links > LinkLimit
      <4> HIDE DEF long
      <4>1. Leaves(g, at, Loop) BY <2>8, <3>1, <3>5, Turn
      <4>2. Leaves(g, long, Loop) BY <2>2, <2>8, <3>2, <3>5, Turn
      <4> QED BY <2>4, <4>1, <4>2 DEF Errors
    <3>6. CASE child \in DOMAIN g.target /\ ~(at.links > LinkLimit)
      <4> DEFINE target == g.target[child]
                 there == Resolving(g, at, target)
                 more == Tail(at.names) \o rest
      <4>1. target \in Path /\ Follows(g, at, target) BY <2>8, <3>1, <3>6, Turn
      <4>2. Follows(g, long, target)
        <5> HIDE DEF long
        <5> QED BY <2>2, <2>8, <3>2, <3>6, Turn
      <4>3. there \in Lookups(g) /\ <<there, at>> \in Below(g)
        <5> HIDE DEF target
        <5> QED BY <2>8, <3>6, <4>1, LinksBelow
      <4>4. ~there.stop /\ there.links = at.links + 1 BY DEF Resolving
      <4>5. more \in Seq(Name) /\ (more # <<>> \/ ~s)
        <5>1. Tail(at.names) \in Seq(Name) BY <2>1, <2>8
        <5> QED BY <5>1, ConcatProperties, ConcatEqualIffEmpty
      <4>6. AtTarget(g, long, target) = With(there, more, s)
        BY <2>2, <2>8 DEF AtTarget, Resolving, With, Spliced
      <4>7. Continues(g, there, more, s)
        <5> HIDE DEF there, more
        <5> QED BY <1>1, <4>3, <4>4, <4>5 DEF Spliceable
      <4>8. PICK followed \in MeaningSet(g) : followed = Meaning(g)[there]
        <5> HIDE DEF there
        <5> QED BY <4>3, MeaningSolves
      <4>9. Walk(g)[long] = IF Failed(followed.node) THEN followed.node
                            ELSE Walk(g)[After(there, followed, more, s)]
        <5> HIDE DEF there, more, long, target
        <5> QED BY <4>2, <4>6, <4>7, <4>8 DEF Follows, Continues
      <4>10. CASE Failed(followed.node)
        <5>1. Meaning(g)[at] = followed BY <4>1, <4>8, <4>10 DEF Follows
        <5> HIDE DEF there, more, long, target
        <5> QED BY <4>9, <4>10, <5>1 DEF Continues, long
      <4>11. CASE ~Failed(followed.node)
        <5> DEFINE next == Resolved(at, followed)
        <5>1. followed.node \in g.nodes /\ followed.links \in Nat
          BY <4>11 DEF MeaningSet, Ends, Failed
        <5>2. next \in Lookups(g) /\ <<next, at>> \in Below(g)
          <6> HIDE DEF target
          <6> QED BY <2>8, <3>6, <4>1, <5>1, LinksBelow
        <5>3. ~next.stop /\ next.links = at.links + 1 + followed.links BY DEF Resolved
        <5>4. With(next, rest, s) = After(there, followed, more, s)
          BY DEF With, After, Resolved, Resolving
        <5>5. Continues(g, next, rest, s)
          <6> HIDE DEF next
          <6> QED BY <1>1, <5>2, <5>3 DEF Spliceable
        <5>6. PICK result \in MeaningSet(g) : result = Meaning(g)[next]
          <6> HIDE DEF next
          <6> QED BY <5>2, MeaningSolves
        <5>7. Meaning(g)[at] = [result EXCEPT !.links = @ + 1 + followed.links]
          BY <4>1, <4>8, <4>11, <5>6 DEF Follows
        <5>8. /\ Meaning(g)[at].node = result.node
              /\ Meaning(g)[at].links = result.links + 1 + followed.links
              /\ result.links \in Nat
          BY <5>7 DEF MeaningSet
        <5>9. After(at, Meaning(g)[at], rest, s) = After(next, result, rest, s)
          <6>1. at.links + Meaning(g)[at].links = next.links + result.links
            <7>1. PICK m \in Nat : m = followed.links BY <5>1
            <7>2. PICK n \in Nat : n = result.links BY <5>8
            <7>3. PICK k \in Nat : k = at.links BY <2>1
            <7>4. next.links = k + 1 + m /\ Meaning(g)[at].links = n + 1 + m
              BY <5>3, <5>8, <7>1, <7>2, <7>3
            <7> HIDE DEF next
            <7> QED BY <7>2, <7>3, <7>4
          <6> HIDE DEF next
          <6> QED BY <5>8, <6>1 DEF After
        <5> HIDE DEF there, more, long, target, next
        <5> QED BY <4>9, <4>11, <5>4, <5>5, <5>6, <5>8, <5>9 DEF Continues, long
      <4> QED BY <4>10, <4>11
    <3> QED BY <3>4, <3>5, <3>6
  <2> QED BY <2>5, <2>6, <2>7, <2>8
<1> QED BY <1>1, LookupsFounded, FoundedInduction

(* getNodeForAbsPath, which splices and counts over the whole path, finds  *)
(* what the path means link by link: in every graph, from every node, for  *)
(* all names, and whatever was followed before.                            *)
THEOREM LookupMeans ==
  ASSUME NEW g, IsGraph(g)
  PROVE  \A at \in Lookups(g) : Walk(g)[at] = Meaning(g)[at].node
<1> DEFINE A == {at \in Lookups(g) : Walk(g)[at] = Meaning(g)[at].node}
<1>1. ASSUME NEW at \in Lookups(g), \A y \in Lookups(g) : <<y, at>> \in Below(g) => y \in A
      PROVE  Walk(g)[at] = Meaning(g)[at].node
  <2>1. at.names \in Seq(Name) /\ at.node \in g.nodes /\ at.links \in Nat /\ at.stop \in BOOLEAN
    BY DEF Lookups
  <2>2. \A node : Leaves(g, at, node) => Walk(g)[at] = Meaning(g)[at].node
    BY DEF Leaves
  <2>3. \A y \in Lookups(g) : <<y, at>> \in Below(g) /\ Passes(g, at, y) => Walk(g)[at] = Meaning(g)[at].node
    BY <1>1 DEF Passes
  <2>4. CASE at.names = <<>> BY <2>2, <2>4, Turn
  <2>5. CASE at.names # <<>> /\ Head(at.names) = Empty BY <2>3, <2>5, Turn, StepsBelow
  <2>6. CASE at.names # <<>> /\ Head(at.names) # Empty /\ ~Here(g, at)
    BY <2>2, <2>6, Turn
  <2>7. CASE at.names # <<>> /\ Head(at.names) # Empty /\ Here(g, at)
    <3>1. PICK child : child = ChildOf(g, at) OBVIOUS
    <3>2. child \in g.nodes BY <2>7, <3>1, Turn
    <3>3. CASE child \notin DOMAIN g.target
      BY <2>3, <2>7, <3>1, <3>2, <3>3, Turn, StepsBelow
    <3>4. CASE child \in DOMAIN g.target /\ (at.links > LinkLimit \/ (at.stop /\ Len(at.names) = 1))
      <4> HIDE DEF A
      <4> QED BY <2>2, <2>7, <3>1, <3>4, Turn
    <3>5. CASE child \in DOMAIN g.target /\ ~(at.links > LinkLimit) /\ ~(at.stop /\ Len(at.names) = 1)
      <4> DEFINE target == g.target[child]
                 there == Resolving(g, at, target)
                 rest == Tail(at.names)
      <4>1. target \in Path /\ Follows(g, at, target) BY <2>7, <3>1, <3>5, Turn
      <4>2. there \in Lookups(g) /\ <<there, at>> \in Below(g)
        <5> HIDE DEF target
        <5> QED BY <2>7, <3>5, <4>1, LinksBelow
      <4>3. rest \in Seq(Name) /\ (rest # <<>> \/ ~at.stop)
        <5>1. rest \in Seq(Name) /\ Len(rest) = Len(at.names) - 1 BY <2>1, <2>7
        <5>2. rest = <<>> => Len(at.names) = 1
          <6> HIDE DEF rest
          <6>1. rest = <<>> => Len(rest) = 0 OBVIOUS
          <6> QED BY <2>1, <5>1, <6>1
        <5> QED BY <3>5, <5>1, <5>2
      <4>4. AtTarget(g, at, target) = With(there, rest, at.stop)
        BY DEF AtTarget, Resolving, With, Spliced
      <4>5. Continues(g, there, rest, at.stop)
        <5>1. ~there.stop BY DEF Resolving
        <5>2. there \in Spliceable(g) BY <4>2, Splice
        <5> HIDE DEF there, rest
        <5> QED BY <2>1, <4>3, <5>1, <5>2 DEF Spliceable
      <4>6. PICK followed \in MeaningSet(g) : followed = Meaning(g)[there]
        <5> HIDE DEF there
        <5> QED BY <4>2, MeaningSolves
      <4>7. Walk(g)[at] = IF Failed(followed.node) THEN followed.node
                          ELSE Walk(g)[After(there, followed, rest, at.stop)]
        <5> HIDE DEF there, rest, target
        <5> QED BY <4>1, <4>4, <4>5, <4>6 DEF Follows, Continues
      <4>8. CASE Failed(followed.node)
        <5>1. Meaning(g)[at] = followed BY <4>1, <4>6, <4>8 DEF Follows
        <5> QED BY <4>7, <4>8, <5>1
      <4>9. CASE ~Failed(followed.node)
        <5> DEFINE next == Resolved(at, followed)
        <5>1. followed.node \in g.nodes /\ followed.links \in Nat
          BY <4>9 DEF MeaningSet, Ends, Failed
        <5>2. next \in Lookups(g) /\ <<next, at>> \in Below(g)
          <6> HIDE DEF target
          <6> QED BY <2>7, <3>5, <4>1, <5>1, LinksBelow
        <5>3. next = After(there, followed, rest, at.stop)
          BY DEF After, Resolved, Resolving
        <5>4. PICK result \in MeaningSet(g) : result = Meaning(g)[next]
          <6> HIDE DEF next
          <6> QED BY <5>2, MeaningSolves
        <5>5. Meaning(g)[at] = [result EXCEPT !.links = @ + 1 + followed.links]
          BY <4>1, <4>6, <4>9, <5>4 DEF Follows
        <5>6. Meaning(g)[at].node = result.node BY <5>5 DEF MeaningSet
        <5>7. Walk(g)[next] = result.node
          <6> HIDE DEF next
          <6> QED BY <1>1, <5>2, <5>4
        <5> HIDE DEF there, rest, target, next
        <5> QED BY <4>7, <4>9, <5>3, <5>6, <5>7
      <4> QED BY <4>8, <4>9
    <3> QED BY <3>3, <3>4, <3>5
  <2> QED BY <2>4, <2>5, <2>6, <2>7
<1>2. Lookups(g) \subseteq A
  <2>1. \A x \in Lookups(g) : (\A y \in Lookups(g) : <<y, x>> \in Below(g) => y \in A) => x \in A
    BY <1>1
  <2> HIDE DEF A
  <2> QED BY <2>1, LookupsFounded, FoundedInduction
<1> QED BY <1>2

(* A lookup that may stop at a last link, and does not end at one, finds   *)
(* what the lookup that follows all links does.                            *)
Follow(at) == [names |-> at.names, node |-> at.node, links |-> at.links, stop |-> FALSE]
LEMMA StopAgrees ==
  ASSUME NEW g, IsGraph(g)
  PROVE  \A at \in Lookups(g) :
           Walk(g)[at] \notin DOMAIN g.target => Walk(g)[at] = Walk(g)[Follow(at)]
<1> DEFINE Agree(at) == Walk(g)[at] \notin DOMAIN g.target => Walk(g)[at] = Walk(g)[Follow(at)]
           A == {at \in Lookups(g) : Agree(at)}
<1>1. ASSUME NEW at \in Lookups(g), \A y \in Lookups(g) : <<y, at>> \in Below(g) => y \in A
      PROVE  Agree(at)
  <2> DEFINE free == Follow(at)
  <2>1. at.names \in Seq(Name) /\ at.node \in g.nodes /\ at.links \in Nat /\ at.stop \in BOOLEAN
    BY DEF Lookups
  <2>2. /\ free \in Lookups(g) /\ free.names = at.names /\ free.node = at.node
        /\ free.links = at.links /\ free.stop = FALSE
    BY <2>1 DEF Lookups, Follow
  <2>3. \A node : Leaves(g, at, node) /\ Leaves(g, free, node) => Agree(at)
    BY DEF Leaves
  <2>4. ASSUME NEW y \in Lookups(g), <<y, at>> \in Below(g), Walk(g)[at] = Walk(g)[y],
               Walk(g)[free] = Walk(g)[Follow(y)]
        PROVE  Agree(at)
    BY <1>1, <2>4
  <2>5. CASE at.names = <<>>
    <3> HIDE DEF free
    <3>1. Leaves(g, at, at.node) /\ Leaves(g, free, at.node) BY <2>2, <2>5, Turn
    <3> QED BY <2>3, <3>1
  <2>6. CASE at.names # <<>> /\ Head(at.names) = Empty
    <3>1. Passes(g, at, Later(at)) BY <2>6, Turn
    <3>2. Passes(g, free, Later(free))
      <4> HIDE DEF free
      <4> QED BY <2>2, <2>6, Turn
    <3>3. Later(free) = Follow(Later(at)) BY DEF Later, InChild, Follow
    <3>4. Later(at) \in Lookups(g) /\ <<Later(at), at>> \in Below(g) BY <2>6, StepsBelow
    <3> HIDE DEF free, Agree, A
    <3> QED BY <2>4, <3>1, <3>2, <3>3, <3>4 DEF Passes
  <2>7. CASE at.names # <<>> /\ Head(at.names) # Empty /\ ~Here(g, at)
    <3>1. ~Here(g, free) BY <2>2, <2>7 DEF Here
    <3> HIDE DEF free
    <3>2. CASE at.node \notin DOMAIN g.children
      <4>1. Leaves(g, at, TypeError) /\ Leaves(g, free, TypeError) BY <2>2, <2>7, <3>2, Turn
      <4> QED BY <2>3, <4>1
    <3>3. CASE at.node \in DOMAIN g.children
      <4>1. Leaves(g, at, NoEntry) /\ Leaves(g, free, NoEntry) BY <2>2, <2>7, <3>1, <3>3, Turn
      <4> QED BY <2>3, <4>1
    <3> QED BY <3>2, <3>3
  <2>8. CASE at.names # <<>> /\ Head(at.names) # Empty /\ Here(g, at)
    <3>1. PICK child : child = ChildOf(g, at) OBVIOUS
    <3>2. Here(g, free) /\ child = ChildOf(g, free) BY <2>2, <2>8, <3>1 DEF Here, ChildOf
    <3>3. child \in g.nodes BY <2>8, <3>1, Turn
    <3>4. CASE child \notin DOMAIN g.target
      <4>1. Passes(g, at, InChild(at, child)) BY <2>8, <3>1, <3>4, Turn
      <4>2. Passes(g, free, InChild(free, child))
        <5> HIDE DEF free
        <5> QED BY <2>2, <2>8, <3>2, <3>4, Turn
      <4>3. InChild(free, child) = Follow(InChild(at, child)) BY DEF InChild, Follow
      <4>4. InChild(at, child) \in Lookups(g) /\ <<InChild(at, child), at>> \in Below(g)
        BY <2>8, <3>3, StepsBelow
      <4> HIDE DEF free, Agree, A
      <4> QED BY <2>4, <4>1, <4>2, <4>3, <4>4 DEF Passes
    <3>5. CASE child \in DOMAIN g.target /\ at.stop /\ Len(at.names) = 1
      <4>1. Leaves(g, at, child)
        <5> HIDE DEF free, Agree, A
        <5> QED BY <2>8, <3>1, <3>5, Turn
      <4> QED BY <3>5, <4>1 DEF Leaves
    <3>6. CASE child \in DOMAIN g.target /\ ~(at.stop /\ Len(at.names) = 1) /\ at.links > LinkLimit
      <4> HIDE DEF free, Agree, A
      <4>1. Leaves(g, at, Loop) BY <2>8, <3>1, <3>6, Turn
      <4>2. Leaves(g, free, Loop) BY <2>2, <2>8, <3>2, <3>6, Turn
      <4> QED BY <2>3, <4>1, <4>2
    <3>7. CASE child \in DOMAIN g.target /\ ~(at.stop /\ Len(at.names) = 1) /\ ~(at.links > LinkLimit)
      <4> DEFINE target == g.target[child]
      <4>1. target \in Path /\ Follows(g, at, target)
        <5> HIDE DEF free, Agree, A
        <5> QED BY <2>8, <3>1, <3>7, Turn
      <4>2. Follows(g, free, target)
        <5> HIDE DEF free, Agree, A
        <5> QED BY <2>2, <2>8, <3>2, <3>7, Turn
      <4>3. AtTarget(g, free, target) = Follow(AtTarget(g, at, target)) BY DEF AtTarget, Follow
      <4>4. /\ AtTarget(g, at, target) \in Lookups(g)
            /\ <<AtTarget(g, at, target), at>> \in Below(g)
        <5> HIDE DEF target, free, Agree, A
        <5> QED BY <2>8, <3>7, <4>1, LinksBelow
      <4> HIDE DEF target, free, Agree, A
      <4> QED BY <2>4, <4>1, <4>2, <4>3, <4>4 DEF Follows
    <3> QED BY <3>4, <3>5, <3>6, <3>7
  <2> QED BY <2>5, <2>6, <2>7, <2>8
<1>2. Lookups(g) \subseteq A
  <2>1. \A x \in Lookups(g) : (\A y \in Lookups(g) : <<y, x>> \in Below(g) => y \in A) => x \in A
    BY <1>1
  <2> HIDE DEF A
  <2> QED BY <2>1, LookupsFounded, FoundedInduction
<1> QED BY <1>2

-----------------------------------------------------------------------------
(* Where the names before the last ones lead, the last ones go on.         *)
Leads(g, names, s) == Walk(g)[From(g, names, s)]
Looking(names, node, links, s) == [names |-> names, node |-> node, links |-> links, stop |-> s]

LEMMA FromLookup ==
  ASSUME NEW g, IsGraph(g), NEW names \in Seq(Name), NEW s \in BOOLEAN
  PROVE  From(g, names, s) \in Lookups(g)
BY DEF From, Lookups, IsGraph

Taking(g, names) == Meaning(g)[From(g, names, FALSE)].links

(* A lookup ends at a node or with an error, after some links.             *)
LEMMA LeadsSomewhere ==
  ASSUME NEW g, IsGraph(g), NEW names \in Seq(Name)
  PROVE  Taking(g, names) \in Nat /\ Leads(g, names, FALSE) \in Ends(g)
<1>1. PICK at \in Lookups(g) : at = From(g, names, FALSE) BY FromLookup
<1>2. PICK result \in MeaningSet(g) : result = Meaning(g)[at] BY MeaningSolves
<1>3. Walk(g)[at] = result.node BY <1>2, LookupMeans
<1>4. result.node \in Ends(g) /\ result.links \in Nat BY DEF MeaningSet
<1> QED BY <1>1, <1>2, <1>3, <1>4 DEF Taking, Leads

(* A lookup of names \o rest goes on with rest where names lead.           *)
LEMMA OnwardFrom ==
  ASSUME NEW g, IsGraph(g), NEW names \in Seq(Name), NEW rest \in Seq(Name), NEW s \in BOOLEAN,
         rest # <<>> \/ ~s
  PROVE  Leads(g, names \o rest, s) =
           IF Failed(Leads(g, names, FALSE)) THEN Leads(g, names, FALSE)
           ELSE Walk(g)[Looking(rest, Leads(g, names, FALSE), Taking(g, names), s)]
<1> DEFINE at == From(g, names, FALSE)
<1>1. at \in Lookups(g) /\ at.stop = FALSE /\ at.names = names /\ at.node = g.root /\ at.links = 0
  BY FromLookup DEF From
<1>2. With(at, rest, s) = From(g, names \o rest, s)
  BY DEF With, From
<1> HIDE DEF at
<1>3. at \in Spliceable(g) BY <1>1, Splice
<1>4. Continues(g, at, rest, s) BY <1>1, <1>3 DEF Spliceable
<1>5. PICK result \in MeaningSet(g) : result = Meaning(g)[at] BY <1>1, MeaningSolves
<1>6. Walk(g)[at] = result.node BY <1>1, <1>5, LookupMeans
<1>7. result.node \in Ends(g) /\ result.links \in Nat BY DEF MeaningSet
<1>8. After(at, result, rest, s) = Looking(rest, result.node, result.links, s)
  BY <1>1, <1>7 DEF After, Looking
<1>9. Leads(g, names \o rest, s) = IF Failed(result.node) THEN result.node
                                   ELSE Walk(g)[After(at, result, rest, s)]
  BY <1>2, <1>4, <1>5 DEF Continues, Leads
<1>10. Leads(g, names, FALSE) = result.node BY <1>6 DEF Leads, at
<1>11. Taking(g, names) = result.links BY <1>5 DEF Taking, at
<1> QED BY <1>8, <1>9, <1>10, <1>11

LEMMA Onward ==
  ASSUME NEW g, IsGraph(g), NEW names \in Seq(Name), NEW rest \in Seq(Name), NEW s \in BOOLEAN,
         rest # <<>> \/ ~s
  PROVE  \E links \in Nat :
           /\ Leads(g, names, FALSE) \in Ends(g)
           /\ Leads(g, names \o rest, s) =
                IF Failed(Leads(g, names, FALSE)) THEN Leads(g, names, FALSE)
                ELSE Walk(g)[Looking(rest, Leads(g, names, FALSE), links, s)]
BY OnwardFrom, LeadsSomewhere

LEMMA Arrived ==
  ASSUME NEW g, IsGraph(g), NEW node \in g.nodes, NEW links \in Nat, NEW s \in BOOLEAN
  PROVE  Walk(g)[Looking(<<>>, node, links, s)] = node
<1> DEFINE at == Looking(<<>>, node, links, s)
<1>1. at \in Lookups(g) /\ at.names = <<>> /\ at.node = node BY DEF Looking, Lookups
<1> HIDE DEF at
<1>2. Leaves(g, at, at.node) BY <1>1, Turn
<1> QED BY <1>1, <1>2 DEF Leaves, at

(* A lookup goes past an empty name.                                       *)
LEMMA ThroughEmpty ==
  ASSUME NEW g, IsGraph(g), NEW node \in g.nodes, NEW links \in Nat, NEW s \in BOOLEAN,
         NEW names \in Seq(Name), names # <<>>, Head(names) = Empty
  PROVE  Walk(g)[Looking(names, node, links, s)] = Walk(g)[Looking(Tail(names), node, links, s)]
<1> DEFINE at == Looking(names, node, links, s)
<1>1. at \in Lookups(g) /\ at.names = names BY DEF Looking, Lookups
<1>2. Later(at) = Looking(Tail(names), node, links, s) BY DEF Later, InChild, Looking
<1> HIDE DEF at
<1>3. Passes(g, at, Later(at)) BY <1>1, Turn
<1> QED BY <1>2, <1>3 DEF Passes, at

(* What one name does to a lookup: empty, not there, or an entry.          *)
LEMMA Through ==
  ASSUME NEW g, IsGraph(g), NEW node \in g.nodes, NEW links \in Nat, NEW s \in BOOLEAN,
         NEW name \in Name, NEW rest \in Seq(Name)
  PROVE  LET there == Walk(g)[Looking(<<name>> \o rest, node, links, s)]
             child == g.children[node][name]
         IN /\ name = Empty => there = Walk(g)[Looking(rest, node, links, s)]
            /\ name # Empty /\ node \notin DOMAIN g.children => there = TypeError
            /\ name # Empty /\ node \in DOMAIN g.children =>
                 /\ name \notin DOMAIN g.children[node] => there = NoEntry
                 /\ name \in DOMAIN g.children[node] /\ child \notin DOMAIN g.target =>
                      there = Walk(g)[Looking(rest, child, links, s)]
<1> DEFINE names == <<name>> \o rest
           at == Looking(names, node, links, s)
<1>1. names \in Seq(Name) /\ names # <<>> /\ Head(names) = name /\ Tail(names) = rest
  OBVIOUS
<1> HIDE DEF names
<1>2. at \in Lookups(g) BY <1>1 DEF Looking, Lookups
<1>3. at.names = names /\ at.node = node BY DEF Looking
<1>4. Later(at) = Looking(rest, node, links, s) BY <1>1 DEF Later, InChild, Looking
<1>5. \A child : InChild(at, child) = Looking(rest, child, links, s)
  BY <1>1 DEF InChild, Looking
<1> HIDE DEF at
<1>6. name = Empty => Passes(g, at, Later(at)) BY <1>1, <1>2, <1>3, Turn
<1>7. ASSUME name # Empty
      PROVE  /\ node \notin DOMAIN g.children => Leaves(g, at, TypeError)
             /\ node \in DOMAIN g.children /\ ~Here(g, at) => Leaves(g, at, NoEntry)
             /\ Here(g, at) /\ ChildOf(g, at) \notin DOMAIN g.target
                  => Passes(g, at, InChild(at, ChildOf(g, at)))
  BY <1>1, <1>2, <1>3, <1>7, Turn
<1>8. /\ Here(g, at) <=> node \in DOMAIN g.children /\ name \in DOMAIN g.children[node]
      /\ ChildOf(g, at) = g.children[node][name]
  BY <1>1, <1>3 DEF Here, ChildOf
<1> QED BY <1>4, <1>5, <1>6, <1>7, <1>8 DEF Passes, Leaves, at, names
-----------------------------------------------------------------------------
(* Sequences.                                                              *)
OneToOne(s) == \A i, j \in DOMAIN s : s[i] = s[j] => i = j
(* The elements of kept are elements of s, in a set.                       *)
Among(kept, s, n, set) == \A i \in DOMAIN kept : kept[i] \in set /\ \E j \in 1..n : kept[i] = s[j]

LEMMA AppendOneToOne ==
  ASSUME NEW S, NEW s \in Seq(S), OneToOne(s), NEW x \in S, \A i \in DOMAIN s : s[i] # x
  PROVE  OneToOne(Append(s, x))
<1>1. /\ Append(s, x) \in Seq(S) /\ Len(Append(s, x)) = Len(s) + 1 /\ Len(s) \in Nat
      /\ \A i \in 1..Len(s) : Append(s, x)[i] = s[i]
      /\ Append(s, x)[Len(s) + 1] = x
  OBVIOUS
<1>2. PICK t : t = Append(s, x) OBVIOUS
<1>3. DOMAIN t = 1..Len(s) + 1 /\ DOMAIN s = 1..Len(s) BY <1>1, <1>2
<1>4. \A i \in DOMAIN t : i \in DOMAIN s \/ i = Len(s) + 1 BY <1>1, <1>3
<1>5. \A i \in DOMAIN s : t[i] = s[i] BY <1>1, <1>2, <1>3
<1>6. t[Len(s) + 1] = x BY <1>1, <1>2
<1> QED BY <1>2, <1>4, <1>5, <1>6 DEF OneToOne

KeptFrom(s, set, kept) ==
  \A n \in 0..Len(s) :
    kept[n] = IF n = 0 THEN <<>>
              ELSE IF s[n] \in set THEN Append(kept[n - 1], s[n]) ELSE kept[n - 1]

(* Kept is defined by what it does with the next element.                  *)
LEMMA KeptEquation ==
  ASSUME NEW S, NEW s \in Seq(S), NEW set
  PROVE  \E kept : KeptFrom(s, set, kept) /\ Kept(s, set) = kept[Len(s)]
<1> DEFINE N == Len(s)
           T == Seq(S)
           D == [c \in (1..N) \X T |-> IF s[c[1]] \in set THEN Append(c[2], s[c[1]]) ELSE c[2]]
<1>1. N \in Nat /\ \A n \in 1..N : s[n] \in S OBVIOUS
<1> HIDE DEF N
<1>2. \A n \in 1..N, t \in T : /\ D[<<n, t>>] = IF s[n] \in set THEN Append(t, s[n]) ELSE t
                               /\ D[<<n, t>>] \in T
  BY <1>1
<1>3. D \in [(1..N) \X T -> T]
  <2> HIDE DEF T
  <2>1. \A c \in (1..N) \X T : c[1] \in 1..N /\ c[2] \in T /\ c = <<c[1], c[2]>> OBVIOUS
  <2>2. \A c \in (1..N) \X T : D[c] \in T BY <1>2, <2>1
  <2> QED BY <2>2
<1>4. <<>> \in T OBVIOUS
<1> HIDE DEF T, D
<1>5. PICK f \in [0..N -> T] : Steps(f, N, <<>>, D) BY <1>1, <1>3, <1>4, CountingDefines
<1>6. f = [n \in 0..N |-> IF n = 0 THEN <<>>
                          ELSE IF s[n] \in set THEN Append(f[n - 1], s[n]) ELSE f[n - 1]]
  <2> SUFFICES ASSUME NEW n \in 0..N
               PROVE  f[n] = IF n = 0 THEN <<>>
                             ELSE IF s[n] \in set THEN Append(f[n - 1], s[n]) ELSE f[n - 1]
    OBVIOUS
  <2>1. CASE n = 0 BY <1>5, <2>1 DEF Steps
  <2>2. CASE n # 0
    <3>1. n \in 1..N /\ n - 1 \in 0..N BY <1>1, <2>2
    <3>2. f[n - 1] \in T BY <3>1
    <3>3. f[n] = D[<<n, f[n - 1]>>] BY <1>5, <3>1 DEF Steps
    <3> QED BY <1>2, <2>2, <3>1, <3>2, <3>3
  <2> QED BY <2>1, <2>2
<1>7. PICK w : /\ w = [n \in 0..N |-> IF n = 0 THEN <<>>
                          ELSE IF s[n] \in set THEN Append(w[n - 1], s[n]) ELSE w[n - 1]]
               /\ Kept(s, set) = w[N]
  BY <1>6 DEF Kept, N
<1>8. KeptFrom(s, set, w) BY <1>7 DEF KeptFrom, N
<1> QED BY <1>7, <1>8 DEF N

(* Kept gives elements of the sequence that are in the set, none twice     *)
(* unless the sequence has it twice.                                       *)
LEMMA KeptElements ==
  ASSUME NEW S, NEW s \in Seq(S), NEW set
  PROVE  /\ Kept(s, set) \in Seq(S)
         /\ Among(Kept(s, set), s, Len(s), set)
         /\ OneToOne(s) => OneToOne(Kept(s, set))
<1>1. PICK kept : KeptFrom(s, set, kept) /\ Kept(s, set) = kept[Len(s)] BY KeptEquation
<1> DEFINE N == Len(s)
           Good(n) == /\ kept[n] \in Seq(S) /\ Among(kept[n], s, n, set)
                      /\ OneToOne(s) => OneToOne(kept[n])
           G == {n \in Nat : n \in 0..N => Good(n)}
<1>2. N \in Nat /\ DOMAIN s = 1..N /\ \A n \in 1..N : s[n] \in S OBVIOUS
<1>3. Good(0)
  <2>1. 0 \in 0..Len(s) BY <1>2
  <2>2. kept[0] = <<>> BY <1>1, <2>1 DEF KeptFrom
  <2> QED BY <2>2 DEF Among, OneToOne
<1>4. ASSUME NEW n \in Nat, n \in G, n + 1 \in 0..N PROVE Good(n + 1)
  <2>1. n \in 0..N /\ n + 1 \in 1..N /\ n + 1 # 0 /\ (n + 1) - 1 = n BY <1>2, <1>4
  <2>2. Good(n) BY <1>4, <2>1
  <2> HIDE DEF G
  <2>3. PICK x \in S : x = s[n + 1] BY <1>2, <2>1
  <2>4. kept[n + 1] = IF x \in set THEN Append(kept[n], x) ELSE kept[n]
    BY <1>1, <2>1, <2>3 DEF KeptFrom
  <2>5. CASE x \notin set
    <3>1. \A j \in 1..n : j \in 1..(n + 1) BY <2>1
    <3> QED BY <2>2, <2>4, <2>5, <3>1 DEF Among
  <2>6. CASE x \in set
    <3>1. PICK t \in Seq(S) : t = kept[n] BY <2>2
    <3>2. kept[n + 1] = Append(t, x) BY <2>4, <2>6, <3>1
    <3>3. Append(t, x) \in Seq(S) OBVIOUS
    <3>4. Among(Append(t, x), s, n + 1, set)
      <4>1. DOMAIN Append(t, x) = 1..(Len(t) + 1) /\ DOMAIN t = 1..Len(t) OBVIOUS
      <4>2. \A i \in DOMAIN Append(t, x) : i \in DOMAIN t \/ i = Len(t) + 1 BY <4>1
      <4>3. \A i \in DOMAIN t : Append(t, x)[i] = t[i] OBVIOUS
      <4>4. Append(t, x)[Len(t) + 1] = x OBVIOUS
      <4>5. \A j \in 1..n : j \in 1..(n + 1) BY <2>1
      <4>6. n + 1 \in 1..(n + 1) BY <2>1
      <4> QED BY <2>2, <2>3, <2>6, <3>1, <4>2, <4>3, <4>4, <4>5, <4>6 DEF Among
    <3>5. ASSUME OneToOne(s) PROVE OneToOne(Append(t, x))
      <4>1. OneToOne(t) BY <2>2, <3>1, <3>5
      <4>2. ASSUME NEW i \in DOMAIN t, t[i] = x PROVE FALSE
        <5>1. PICK j \in 1..n : t[i] = s[j] BY <2>2, <3>1 DEF Among
        <5>2. j \in DOMAIN s /\ n + 1 \in DOMAIN s /\ j # n + 1 BY <1>2, <2>1
        <5> QED BY <2>3, <3>5, <4>2, <5>1, <5>2 DEF OneToOne
      <4> QED BY <4>1, <4>2, AppendOneToOne
    <3> QED BY <3>2, <3>3, <3>4, <3>5
  <2> QED BY <2>5, <2>6
<1>5. Nat \subseteq G
  <2>1. 0 \in G BY <1>3
  <2>2. \A n \in Nat : n \in G => n + 1 \in G BY <1>4
  <2> HIDE DEF G
  <2> QED BY <2>1, <2>2, Induction
<1>6. Good(N) BY <1>2, <1>5
<1> QED BY <1>1, <1>6

LEMMA ConcatOneToOne ==
  ASSUME NEW S, NEW s \in Seq(S), NEW t \in Seq(S), OneToOne(s), OneToOne(t),
         \A i \in DOMAIN s, j \in DOMAIN t : s[i] # t[j]
  PROVE  OneToOne(s \o t)
<1>1. PICK u : u = s \o t OBVIOUS
<1>2. PICK m \in Nat, n \in Nat : m = Len(s) /\ n = Len(t) OBVIOUS
<1>3. /\ DOMAIN u = 1..(m + n)
      /\ \A i \in 1..(m + n) : u[i] = IF i <= m THEN s[i] ELSE t[i - m]
  BY <1>1, <1>2, ConcatProperties
<1>4. DOMAIN s = 1..m /\ DOMAIN t = 1..n BY <1>2
<1>5. \A i \in 1..(m + n) : i <= m => i \in 1..m BY <1>2
<1>6. \A i \in 1..(m + n) : ~(i <= m) => i - m \in 1..n BY <1>2
<1>7. \A i, j \in 1..(m + n) : i - m = j - m => i = j BY <1>2
<1> SUFFICES ASSUME NEW i \in 1..(m + n), NEW j \in 1..(m + n), u[i] = u[j] PROVE i = j
  BY <1>1, <1>3 DEF OneToOne
<1>8. CASE i <= m /\ j <= m
  BY <1>3, <1>4, <1>5, <1>8 DEF OneToOne
<1>9. CASE ~(i <= m) /\ ~(j <= m)
  <2>1. i - m = j - m BY <1>3, <1>4, <1>6, <1>9 DEF OneToOne
  <2> QED BY <1>7, <2>1
<1>10. CASE i <= m /\ ~(j <= m) BY <1>3, <1>4, <1>5, <1>6, <1>10
<1>11. CASE ~(i <= m) /\ j <= m BY <1>3, <1>4, <1>5, <1>6, <1>11
<1> QED BY <1>8, <1>9, <1>10, <1>11

(* getdents gives the first of the names that are left.                    *)
LEMMA GivenFirst ==
  ASSUME NEW S, NEW names \in Seq(S), NEW room
  PROVE  \E n \in 0..Len(names) : Given(names, room) = SubSeq(names, 1, n)
<1> DEFINE Stops == {n \in 0..Len(names) : n = Len(names) \/ ~(Used(names)[n + 1] <= room)}
<1>1. Stops \subseteq Nat /\ Len(names) \in Stops /\ Stops \subseteq 0..Len(names) OBVIOUS
<1>2. Given(names, room) = SubSeq(names, 1, Min(Stops)) BY DEF Given
<1> HIDE DEF Stops
<1>3. \E n \in Stops : \A m \in Stops : n <= m BY <1>1, LeastExists
<1>4. Min(Stops) \in Stops BY <1>3 DEF Min
<1> QED BY <1>1, <1>2, <1>4
-----------------------------------------------------------------------------
(* Nodes and their graph.                                                  *)
LEMMA ObjectEntries ==
  ASSUME NEW entries, Distinct(entries)
  PROVE  /\ \A name \in DOMAIN Object(entries) : \E i \in DOMAIN entries :
              entries[i][1] = name /\ Object(entries)[name] = entries[i][2]
         /\ \A i \in DOMAIN entries :
              entries[i][1] \in DOMAIN Object(entries) /\ Object(entries)[entries[i][1]] = entries[i][2]
<1> DEFINE Index(name) == CHOOSE i \in DOMAIN entries : entries[i][1] = name
<1>1. DOMAIN Object(entries) = {entries[i][1] : i \in DOMAIN entries} BY DEF Object
<1>2. \A name \in DOMAIN Object(entries) : Object(entries)[name] = entries[Index(name)][2]
  BY DEF Object
<1>3. \A name \in DOMAIN Object(entries) :
        Index(name) \in DOMAIN entries /\ entries[Index(name)][1] = name
  BY <1>1
<1>4. ASSUME NEW i \in DOMAIN entries
      PROVE entries[i][1] \in DOMAIN Object(entries) /\ Index(entries[i][1]) = i
  <2>1. entries[i][1] \in DOMAIN Object(entries) BY <1>1
  <2> HIDE DEF Index
  <2> QED BY <1>3, <2>1 DEF Distinct
<1> HIDE DEF Index
<1> QED BY <1>2, <1>3, <1>4

LEMMA NodeCases ==
  \A node \in Nodes :
    \/ \E n \in DOMAIN tree : node = Node(n)
    \/ \E q \in 0..MaxProc : node = <<"proc", q>>
    \/ node = <<"self", 0>>
    \/ \E q \in Proc : node = <<"cwd", q>> \/ node = <<"root", q>>
BY DEF Nodes

TreeNode ==
  [type : Types, entries : Seq(Name \X Nodes), target : Seq(Name), data : Seq(Nat), image : BOOLEAN]
TreeOK ==
  /\ tree \in Seq(TreeNode)
  /\ \A n \in DOMAIN tree :
       /\ Distinct(tree[n].entries)
       /\ tree[n].type = "link" => tree[n].target \in Path

(* What the type invariant says of each node.                              *)
LEMMA TreeFacts ==
  ASSUME TypeOK
  PROVE  /\ \A n \in DOMAIN tree :
              /\ n \in Nat /\ Node(n) \in Nodes
              /\ tree[n] = [type |-> tree[n].type, entries |-> tree[n].entries,
                            target |-> tree[n].target, data |-> tree[n].data,
                            image |-> tree[n].image]
              /\ tree[n].type \in Types /\ tree[n].entries \in Seq(Name \X Nodes)
              /\ tree[n].target \in Seq(Name) /\ tree[n].data \in Seq(Nat)
              /\ tree[n].image \in BOOLEAN /\ Distinct(tree[n].entries)
              /\ tree[n].type = "link" => tree[n].target \in Path
         /\ \A q \in Proc : cwd[q] \in Path
<1>1. \A n \in DOMAIN tree : tree[n] \in TreeNode /\ n \in Nat /\ Node(n) \in Nodes
  <2>1. PICK t \in Seq(TreeNode) : t = tree BY DEF TypeOK, TreeNode
  <2>2. \A n \in DOMAIN t : t[n] \in TreeNode /\ n \in Nat
    <3> HIDE DEF TreeNode
    <3> QED BY ElementOfSeq, LenProperties
  <2>3. \A n \in DOMAIN tree : Node(n) \in Nodes BY DEF Nodes
  <2> QED BY <2>1, <2>2, <2>3
<1>2. \A n \in DOMAIN tree : Distinct(tree[n].entries) /\ (tree[n].type = "link" => tree[n].target \in Path)
  BY DEF TypeOK
<1>3. \A q \in Proc : cwd[q] \in Path BY DEF TypeOK
<1> QED BY <1>1, <1>2, <1>3 DEF TreeNode

(* What the bits of a mode say of a node (S_ISLNK and S_ISDIR).            *)
LEMMA Kinds ==
  ASSUME TypeOK
  PROVE  /\ \A n \in DOMAIN tree :
              /\ IsLink(Node(n)) <=> tree[n].type = "link"
              /\ IsDir(Node(n)) <=> tree[n].type \in Directories \cup {"blk"}
         /\ \A q : ~IsLink(<<"proc", q>>) /\ IsDir(<<"proc", q>>)
         /\ \A q : IsLink(<<"self", q>>) /\ IsLink(<<"cwd", q>>) /\ IsLink(<<"root", q>>)
<1>1. \A n \in DOMAIN tree : tree[n].type \in Types BY TreeFacts
<1>2. \A n : Type(Node(n)) = tree[n].type BY DEF Type, Node
<1>3. /\ \A q : Type(<<"proc", q>>) = "dir" /\ Type(<<"self", q>>) = "link"
      /\ \A q : Type(<<"cwd", q>>) = "link" /\ Type(<<"root", q>>) = "link"
  BY DEF Type
<1>4. {8, 2} \subseteq Bits("link") BY DEF Bits
<1>5. \A type \in Types \ {"link"} : ~({8, 2} \subseteq Bits(type)) BY DEF Bits, Types, Directories
<1>6. \A type \in Types : 4 \in Bits(type) <=> type \in Directories \cup {"blk"}
  BY DEF Bits, Types, Directories
<1>7. "dir" \in Types \ {"link"} /\ "dir" \in Directories BY DEF Types, Directories
<1> QED BY <1>1, <1>2, <1>3, <1>4, <1>5, <1>6, <1>7 DEF IsLink, IsDir

LEMMA LivingType ==
  ASSUME TypeOK
  PROVE  Living \in Seq(Proc) /\ OneToOne(Living)
<1> DEFINE all == [q \in 1..nprocs |-> q]
           alive == {q \in 1..nprocs : ~exited[q]}
<1>1. nprocs \in Proc /\ nprocs \in Nat BY PathsAssumption DEF TypeOK, Proc
<1>2. PICK n \in Nat : n = nprocs /\ n <= MaxProc BY <1>1, PathsAssumption DEF Proc
<1>3. PICK s : s = [q \in 1..n |-> q] OBVIOUS
<1>4. s \in Seq(Proc) /\ OneToOne(s) BY <1>2, <1>3, PathsAssumption DEF Proc, OneToOne
<1>5. PICK set : set = alive OBVIOUS
<1>6. Living = Kept(s, set) BY <1>2, <1>3, <1>5 DEF Living
<1> HIDE DEF alive
<1> QED BY <1>4, <1>6, KeptElements

LEMMA NumeralNames ==
  /\ Numerals \in Seq(Name \ {Dot, DotDot, <<"s">>})
  /\ \A q \in 0..MaxProc : /\ q + 1 \in DOMAIN Numerals
                           /\ PidText(q) \in Name \ {Dot, DotDot, <<"s">>}
  /\ \A q, r \in 0..MaxProc : PidText(q) = PidText(r) => q = r
<1>1. Numerals \in Seq(Name \ {Dot, DotDot, <<"s">>}) /\ Len(Numerals) > MaxProc
  BY PathsAssumption
<1>2. \A q \in 0..MaxProc : q + 1 \in DOMAIN Numerals /\ q + 1 \in 1..Len(Numerals)
  BY <1>1, PathsAssumption
<1>3. \A q \in 0..MaxProc : PidText(q) \in Name \ {Dot, DotDot, <<"s">>}
  <2> DEFINE S == Name \ {Dot, DotDot, <<"s">>}
  <2> HIDE DEF S
  <2>1. Numerals \in Seq(S) BY <1>1 DEF S
  <2>2. \A q \in 0..MaxProc : Numerals[q + 1] \in S BY <1>2, <2>1, ElementOfSeq
  <2> QED BY <2>2 DEF S, PidText
<1>4. \A q, r \in 0..MaxProc : PidText(q) = PidText(r) => q = r
  <2> SUFFICES ASSUME NEW q \in 0..MaxProc, NEW r \in 0..MaxProc, PidText(q) = PidText(r) PROVE q = r
    OBVIOUS
  <2>1. q + 1 = r + 1 BY <1>2, PathsAssumption DEF PidText
  <2> QED BY <2>1, PathsAssumption
<1> QED BY <1>1, <1>2, <1>3, <1>4

LEMMA NamesOfProc ==
  /\ Dot \in Name /\ DotDot \in Name /\ Empty \in Name /\ <<"s">> \in Name /\ <<"c">> \in Name
  /\ <<"r">> \in Name /\ ProcName \in Name
  /\ Dot # DotDot /\ Dot # <<"s">> /\ DotDot # <<"s">> /\ Dot # Empty /\ DotDot # Empty
  /\ Dot # <<"c">> /\ Dot # <<"r">> /\ DotDot # <<"c">> /\ DotDot # <<"r">> /\ <<"c">> # <<"r">>
  /\ Dot # ProcName /\ DotDot # ProcName
<1>1. /\ Dot \in Name /\ DotDot \in Name /\ Empty \in Name /\ <<"s">> \in Name /\ <<"c">> \in Name
      /\ <<"r">> \in Name /\ ProcName \in Name
  <2>1. "." \in Letters /\ "p" \in Letters /\ "s" \in Letters /\ "c" \in Letters /\ "r" \in Letters
    BY PathsAssumption
  <2>2. \A x \in Letters : <<x>> \in Seq(Letters) /\ <<x, x>> \in Seq(Letters) OBVIOUS
  <2>3. <<>> \in Seq(Letters) OBVIOUS
  <2> QED BY <2>1, <2>2, <2>3 DEF Name, Dot, DotDot, Empty, ProcName
<1>2. Len(Dot) = 1 /\ Len(DotDot) = 2 /\ Len(Empty) = 0 BY DEF Dot, DotDot, Empty
<1>3. Dot[1] = "." /\ DotDot[1] = "." BY DEF Dot, DotDot
<1>4. <<"s">>[1] = "s" /\ <<"c">>[1] = "c" /\ <<"r">>[1] = "r" /\ ProcName[1] = "p" BY DEF ProcName
<1>5. "." # "s" /\ "." # "c" /\ "." # "r" /\ "." # "p" /\ "c" # "r" OBVIOUS
<1> QED BY <1>1, <1>2, <1>3, <1>4, <1>5

(* The entries of procfs are names of nodes, each name once, "." first.    *)
LEMMA ProcEntriesType ==
  ASSUME TypeOK, NEW q \in 0..MaxProc, tree # <<>>
  PROVE  LET entries == ProcEntries(<<"proc", q>>)
         IN /\ entries \in Seq(Name \X Nodes) /\ Distinct(entries)
            /\ entries[1] = <<Dot, <<"proc", q>>>> /\ 1 \in DOMAIN entries
<1> DEFINE node == <<"proc", q>>
<1>0. Root \in Nodes
  <2>1. 1 \in DOMAIN tree BY DEF TypeOK
  <2> QED BY <2>1 DEF Nodes, Root
<1>1. 0 \in 0..MaxProc /\ \A r \in Proc : r \in 0..MaxProc BY PathsAssumption DEF Proc
<1>2. \A r \in 0..MaxProc : <<"proc", r>> \in Nodes BY DEF Nodes
<1>3. <<"self", 0>> \in Nodes BY DEF Nodes
<1>4. q # 0 => <<"cwd", q>> \in Nodes /\ <<"root", q>> \in Nodes
  <2>1. q # 0 => q \in Proc BY PathsAssumption DEF Proc
  <2> QED BY <2>1 DEF Nodes
<1>5. PICK nodes : nodes = Nodes OBVIOUS
<1>6. CASE q # 0
  <2> DEFINE e == <<<<Dot, node>>, <<DotDot, <<"proc", 0>>>>,
                    <<<<"c">>, <<"cwd", q>>>>, <<<<"r">>, <<"root", q>>>>>>
  <2>1. ProcEntries(node) = e BY <1>6 DEF ProcEntries
  <2>2. e \in Seq(Name \X nodes) BY <1>1, <1>2, <1>4, <1>5, <1>6, NamesOfProc
  <2>3. Distinct(e)
    <3>1. DOMAIN e = 1..4 /\ e[1][1] = Dot /\ e[2][1] = DotDot /\ e[3][1] = <<"c">> /\ e[4][1] = <<"r">>
      OBVIOUS
    <3>2. \A i \in 1..4 : i = 1 \/ i = 2 \/ i = 3 \/ i = 4 OBVIOUS
    <3>3. DOMAIN e = {1, 2, 3, 4} BY <3>1, <3>2
    <3> HIDE DEF e
    <3> QED BY <3>1, <3>3, NamesOfProc DEF Distinct
  <2>4. e[1] = <<Dot, node>> /\ 1 \in DOMAIN e OBVIOUS
  <2> HIDE DEF e
  <2> QED BY <1>5, <2>1, <2>2, <2>3, <2>4
<1>7. CASE q = 0
  <2>1. PICK living \in Seq(Proc) : living = Living /\ OneToOne(living) BY LivingType
  <2> DEFINE a == <<<<Dot, node>>, <<DotDot, Root>>, <<<<"s">>, <<"self", 0>>>>>>
             b == [i \in DOMAIN living |-> <<PidText(living[i]), <<"proc", living[i]>>>>]
             e == a \o b
  <2>2. ProcEntries(node) = e BY <1>7, <2>1 DEF ProcEntries
  <2>3. \A i \in DOMAIN living : living[i] \in 0..MaxProc BY <1>1
  <2>4. a \in Seq(Name \X nodes)
    <3>1. <<Dot, node>> \in Name \X nodes BY <1>2, <1>5, NamesOfProc
    <3>2. <<DotDot, Root>> \in Name \X nodes BY <1>0, <1>5, NamesOfProc
    <3>3. <<<<"s">>, <<"self", 0>>>> \in Name \X nodes BY <1>3, <1>5, NamesOfProc
    <3> QED BY <3>1, <3>2, <3>3
  <2>5. b \in Seq(Name \X nodes)
    <3>1. \A i \in DOMAIN living : PidText(living[i]) \in Name /\ <<"proc", living[i]>> \in nodes
      BY <1>2, <1>5, <2>3, NumeralNames
    <3>2. \A i \in DOMAIN living : b[i] \in Name \X nodes BY <3>1
    <3>3. Len(living) \in Nat /\ DOMAIN living = 1..Len(living) OBVIOUS
    <3>4. b \in [1..Len(living) -> Name \X nodes] BY <3>2, <3>3
    <3> HIDE DEF b
    <3> QED BY <3>3, <3>4
  <2>6. \A i \in DOMAIN b : b[i][1] \in Name \ {Dot, DotDot, <<"s">>} BY <2>3, NumeralNames
  <2>7. \A i, j \in DOMAIN b : b[i][1] = b[j][1] => i = j
    <3>1. \A i \in DOMAIN b : i \in DOMAIN living /\ b[i][1] = PidText(living[i]) OBVIOUS
    <3> HIDE DEF b
    <3> QED BY <2>1, <2>3, <3>1, NumeralNames DEF OneToOne
  <2>8. Len(a) = 3 /\ a[1] = <<Dot, node>> /\ a[1][1] = Dot /\ a[2][1] = DotDot /\ a[3][1] = <<"s">>
    OBVIOUS
  <2> HIDE DEF a, b
  <2>9. PICK n \in Nat : n = Len(b) BY <2>5
  <2>10. /\ e \in Seq(Name \X nodes) /\ DOMAIN e = 1..(3 + n) /\ DOMAIN b = 1..n
         /\ \A i \in 1..(3 + n) : e[i] = IF i <= 3 THEN a[i] ELSE b[i - 3]
    <3> DEFINE S == Name \X nodes
    <3> HIDE DEF S
    <3>1. a \in Seq(S) /\ b \in Seq(S) BY <2>4, <2>5 DEF S
    <3>2. /\ e \in Seq(S) /\ Len(e) = 3 + n
          /\ \A i \in 1..(3 + n) : e[i] = IF i <= 3 THEN a[i] ELSE b[i - 3]
      <4>1. Len(a) + Len(b) = 3 + n BY <2>8, <2>9
      <4>2. /\ e \in Seq(S) /\ Len(e) = Len(a) + Len(b)
            /\ \A i \in 1..(Len(a) + Len(b)) : e[i] = IF i <= Len(a) THEN a[i] ELSE b[i - Len(a)]
        BY <3>1, ConcatProperties
      <4> QED BY <2>8, <4>1, <4>2
    <3>3. DOMAIN e = 1..(3 + n) /\ DOMAIN b = 1..n BY <2>9, <3>1, <3>2, LenProperties
    <3> QED BY <3>2, <3>3 DEF S
  <2> HIDE DEF e
  <2>11. \A i \in 1..(3 + n) : i = 1 \/ i = 2 \/ i = 3 \/ (~(i <= 3) /\ i - 3 \in 1..n)
    BY <2>9
  <2>12. \A i, j \in 1..(3 + n) : i - 3 = j - 3 => i = j BY <2>9
  <2>13. 1 \in 1..(3 + n) /\ 2 \in 1..(3 + n) /\ 3 \in 1..(3 + n) BY <2>9
  <2>14. e[1][1] = Dot /\ e[2][1] = DotDot /\ e[3][1] = <<"s">> /\ e[1] = <<Dot, node>>
    BY <2>8, <2>10, <2>13
  <2>15. \A i \in 1..(3 + n) : ~(i <= 3) => e[i] = b[i - 3] BY <2>10
  <2>16. Distinct(e)
    <3>1. \A i \in 1..(3 + n) :
            \/ i = 1 /\ e[i][1] = Dot
            \/ i = 2 /\ e[i][1] = DotDot
            \/ i = 3 /\ e[i][1] = <<"s">>
            \/ /\ i - 3 \in DOMAIN b /\ e[i][1] = b[i - 3][1]
               /\ e[i][1] \notin {Dot, DotDot, <<"s">>}
      <4>1. ASSUME NEW i \in 1..(3 + n), ~(i <= 3), i - 3 \in 1..n
            PROVE  /\ i - 3 \in DOMAIN b /\ e[i][1] = b[i - 3][1]
                   /\ e[i][1] \notin {Dot, DotDot, <<"s">>}
        <5>1. i - 3 \in DOMAIN b BY <2>10, <4>1
        <5>2. e[i] = b[i - 3] BY <2>15, <4>1
        <5>3. b[i - 3][1] \in Name \ {Dot, DotDot, <<"s">>} BY <2>6, <5>1
        <5> QED BY <5>1, <5>2, <5>3
      <4> QED BY <2>11, <2>14, <4>1
    <3>2. \A i, j \in 1..(3 + n) : e[i][1] = e[j][1] => i = j
      BY <2>7, <2>12, <3>1, NamesOfProc
    <3> QED BY <2>10, <3>2 DEF Distinct
  <2> QED BY <1>5, <2>2, <2>10, <2>13, <2>14, <2>16
<1> QED BY <1>6, <1>7

LEMMA ChildrenType ==
  ASSUME TypeOK, tree # <<>>, NEW node \in Nodes, HasChildren(node)
  PROVE  Children(node) \in Seq(Name \X Nodes) /\ Distinct(Children(node))
<1>1. ASSUME NEW n \in DOMAIN tree, node = Node(n)
      PROVE Children(node) \in Seq(Name \X Nodes) /\ Distinct(Children(node))
  <2>1. Children(node) = tree[n].entries BY <1>1 DEF Children, Node
  <2> QED BY <2>1, TreeFacts
<1>2. ASSUME NEW q \in 0..MaxProc, node = <<"proc", q>>
      PROVE Children(node) \in Seq(Name \X Nodes) /\ Distinct(Children(node))
  <2>1. Children(node) = ProcEntries(<<"proc", q>>) BY <1>2 DEF Children
  <2> QED BY <2>1, ProcEntriesType
<1>3. ASSUME node[1] \in {"self", "cwd", "root"}
      PROVE Children(node) \in Seq(Name \X Nodes) /\ Distinct(Children(node))
  <2>1. Children(node) = <<>> BY <1>3 DEF Children
  <2>2. PICK S : S = Name \X Nodes OBVIOUS
  <2>3. <<>> \in Seq(S) /\ Distinct(<<>>) BY DEF Distinct
  <2> QED BY <2>1, <2>2, <2>3
<1>4. \A q : <<"self", q>>[1] = "self" /\ <<"cwd", q>>[1] = "cwd" /\ <<"root", q>>[1] = "root"
  OBVIOUS
<1> QED BY <1>1, <1>2, <1>3, <1>4, NodeCases

(* What lookups walk over is a graph: every entry and every target leads   *)
(* on.                                                                     *)
LEMMA GraphFacts ==
  ASSUME TypeOK, tree # <<>>, NEW p \in Proc
  PROVE  LET g == Graph(p)
         IN /\ IsGraph(g) /\ g.root = Root /\ g.nodes = Nodes /\ Root \in Nodes
            /\ DOMAIN g.children = {x \in Nodes : HasChildren(x)}
            /\ DOMAIN g.target = {x \in Nodes : IsLink(x)}
            /\ \A d \in DOMAIN g.children : g.children[d] = Object(Children(d))
<1>1. PICK g : g = Graph(p) OBVIOUS
<1>2. /\ g.root = Root /\ g.nodes = Nodes
      /\ DOMAIN g.children = {x \in Nodes : HasChildren(x)}
      /\ DOMAIN g.target = {x \in Nodes : IsLink(x)}
      /\ \A d \in DOMAIN g.children : g.children[d] = Object(Children(d))
      /\ \A l \in DOMAIN g.target : g.target[l] = Target(l, p)
  BY <1>1 DEF Graph
<1>3. Root \in Nodes
  <2>1. 1 \in DOMAIN tree BY DEF TypeOK
  <2> QED BY <2>1 DEF Nodes, Root
<1>4. Nodes \cap Errors = {}
  <2>1. \A node \in Nodes : node[1] \in {"node", "proc", "self", "cwd", "root"}
    BY NodeCases DEF Node
  <2>2. \A node \in Errors : node[1] \in {"ENOENT", "ELOOP", "TypeError"}
    BY DEF Errors, NoEntry, Loop, TypeError
  <2> QED BY <2>1, <2>2
<1>5. ASSUME NEW node \in DOMAIN g.children, NEW name \in DOMAIN g.children[node]
      PROVE  g.children[node][name] \in Nodes
  <2>1. node \in Nodes /\ HasChildren(node) BY <1>2
  <2>2. PICK nodes : nodes = Nodes OBVIOUS
  <2>3. PICK entries \in Seq(Name \X nodes) : entries = Children(node) /\ Distinct(entries)
    BY <2>1, <2>2, ChildrenType
  <2>4. g.children[node] = Object(entries) BY <1>2, <2>3
  <2>5. name \in DOMAIN Object(entries) BY <1>5, <2>4
  <2>6. PICK i \in DOMAIN entries : Object(entries)[name] = entries[i][2]
    BY <2>3, <2>5, ObjectEntries
  <2>7. entries[i] \in Name \X nodes
    <3>1. i \in 1..Len(entries) BY LenProperties
    <3> QED BY <3>1, ElementOfSeq
  <2> QED BY <2>2, <2>4, <2>6, <2>7
<1>6. ASSUME NEW l \in DOMAIN g.target PROVE g.target[l] \in Path
  <2>1. l \in Nodes /\ IsLink(l) /\ g.target[l] = Target(l, p) BY <1>2
  <2>2. ASSUME NEW n \in DOMAIN tree, l = Node(n) PROVE Target(l, p) \in Path
    <3>1. tree[n].type = "link" BY <2>1, <2>2, Kinds
    <3>2. Target(l, p) = tree[n].target BY <2>2 DEF Target, Node
    <3> QED BY <3>1, <3>2, TreeFacts
  <2>3. \A q \in 0..MaxProc : l # <<"proc", q>> BY <2>1, Kinds
  <2>4. ASSUME l = <<"self", 0>> PROVE Target(l, p) \in Path
    <3>1. p - 1 \in 0..MaxProc BY PathsAssumption DEF Proc
    <3>2. PidText(p - 1) \in Name BY <3>1, NumeralNames
    <3>3. Target(l, p) = <<PidText(p - 1)>> BY <2>4 DEF Target
    <3>4. \A x \in Name : <<x>> \in Path BY DEF Path
    <3> QED BY <3>2, <3>3, <3>4
  <2>5. ASSUME NEW q \in Proc, l = <<"cwd", q>> PROVE Target(l, p) \in Path
    <3>1. Target(l, p) = cwd[q] BY <2>5 DEF Target
    <3> QED BY <3>1, TreeFacts
  <2>6. ASSUME NEW q \in Proc, l = <<"root", q>> PROVE Target(l, p) \in Path
    <3>1. Target(l, p) = RootPath BY <2>6 DEF Target
    <3>2. Empty \in Name BY NamesOfProc
    <3> QED BY <3>1, <3>2 DEF RootPath, Path
  <2> QED BY <2>1, <2>2, <2>3, <2>4, <2>5, <2>6, NodeCases
<1>7. IsGraph(g) BY <1>2, <1>3, <1>4, <1>5, <1>6 DEF IsGraph
<1> QED BY <1>1, <1>2, <1>3, <1>7
-----------------------------------------------------------------------------
(* The invariant.                                                          *)

(* A directory is one of the image, and "." in it leads to itself; what    *)
(* open made is a file, and what is in its object open has made, too.      *)
DotsLead ==
  \A n \in DOMAIN tree :
    /\ tree[n].type \in Directories =>
         /\ tree[n].image
         /\ \E i \in DOMAIN tree[n].entries : tree[n].entries[i][1] = Dot
         /\ \A i \in DOMAIN tree[n].entries :
              tree[n].entries[i][1] = Dot => tree[n].entries[i][2] = Node(n)
    /\ ~tree[n].image =>
         /\ tree[n].type = "file"
         /\ \A i \in DOMAIN tree[n].entries : \E m \in DOMAIN tree :
              ~tree[m].image /\ tree[n].entries[i][2] = Node(m)
Booted == IF tree = <<>> THEN image \in Images ELSE tree[1].type \in Directories
(* No name is twice among those that a process lists.                      *)
Listed ==
  \A p \in Proc :
    /\ OneToOne(listing[p].keys)
    /\ ~listing[p].changed => listing[p].pos <= Len(listing[p].keys)
Inv == TypeOK /\ Booted /\ DotsLead /\ Listed /\ ListingInOrder

-----------------------------------------------------------------------------
(* What lookups do in a state of the invariant.                            *)
LEMMA EntryFound ==
  ASSUME TypeOK, tree # <<>>, NEW p \in Proc, NEW node \in Nodes, HasChildren(node),
         NEW i \in DOMAIN Children(node), Children(node)[i][1] # Empty,
         ~IsLink(Children(node)[i][2]),
         NEW rest \in Seq(Name), NEW links \in Nat, NEW s \in BOOLEAN
  PROVE  /\ Children(node)[i][1] \in Name /\ Children(node)[i][2] \in Nodes
         /\ Walk(Graph(p))[Looking(<<Children(node)[i][1]>> \o rest, node, links, s)]
              = Walk(Graph(p))[Looking(rest, Children(node)[i][2], links, s)]
<1>1. PICK g : g = Graph(p) OBVIOUS
<1>2. PICK nodes : nodes = Nodes OBVIOUS
<1>3. PICK entries \in Seq(Name \X nodes) : entries = Children(node) /\ Distinct(entries)
  BY <1>2, ChildrenType
<1>4. PICK name \in Name, child \in nodes : entries[i] = <<name, child>>
  <2>1. i \in 1..Len(entries) BY <1>3
  <2>2. entries[i] \in Name \X nodes BY <2>1, ElementOfSeq
  <2> QED BY <2>2
<1>5. name # Empty /\ ~IsLink(child) BY <1>3, <1>4
<1>6. /\ IsGraph(g) /\ node \in g.nodes /\ node \in DOMAIN g.children
      /\ g.children[node] = Object(entries) /\ child \notin DOMAIN g.target
  BY <1>1, <1>2, <1>3, <1>5, GraphFacts
<1>7. name \in DOMAIN Object(entries) /\ Object(entries)[name] = child
  BY <1>3, <1>4, ObjectEntries
<1>8. Walk(g)[Looking(<<name>> \o rest, node, links, s)] = Walk(g)[Looking(rest, child, links, s)]
  <2>1. name \in DOMAIN g.children[node] /\ g.children[node][name] = child BY <1>6, <1>7
  <2>2. LET there == Walk(g)[Looking(<<name>> \o rest, node, links, s)]
        IN name # Empty /\ node \in DOMAIN g.children =>
             (name \in DOMAIN g.children[node] /\ g.children[node][name] \notin DOMAIN g.target =>
                there = Walk(g)[Looking(rest, g.children[node][name], links, s)])
    BY <1>6, Through
  <2> QED BY <1>5, <1>6, <2>1, <2>2
<1> QED BY <1>1, <1>2, <1>3, <1>4, <1>8

(* "." in a directory is the directory; in a file made by open it is       *)
(* another such file.                                                      *)
LEMMA DotFound ==
  ASSUME TypeOK, DotsLead, tree # <<>>, NEW p \in Proc, NEW node \in Nodes,
         NEW rest \in Seq(Name), NEW links \in Nat, NEW s \in BOOLEAN
  PROVE  LET there == Walk(Graph(p))[Looking(<<Dot>> \o rest, node, links, s)]
         IN \/ there = Walk(Graph(p))[Looking(rest, node, links, s)]
            \/ there \in {NoEntry, TypeError}
            \/ \E m \in DOMAIN tree : /\ ~tree[m].image
                                      /\ there = Walk(Graph(p))[Looking(rest, Node(m), links, s)]
<1>1. PICK g : g = Graph(p) OBVIOUS
<1>2. /\ IsGraph(g) /\ g.nodes = Nodes /\ DOMAIN g.children = {x \in Nodes : HasChildren(x)}
      /\ \A d \in DOMAIN g.children : g.children[d] = Object(Children(d))
  BY <1>1, GraphFacts
<1>3. PICK there : there = Walk(g)[Looking(<<Dot>> \o rest, node, links, s)] OBVIOUS
<1>4. Dot \in Name /\ Dot # Empty BY NamesOfProc
<1>5. CASE ~HasChildren(node)
  <2>1. node \notin DOMAIN g.children BY <1>2, <1>5
  <2>2. there = TypeError BY <1>2, <1>3, <1>4, <2>1, Through
  <2> QED BY <1>1, <1>3, <2>2
<1>6. CASE HasChildren(node)
  <2>1. ASSUME NEW i \in DOMAIN Children(node), Children(node)[i][1] = Dot,
               ~IsLink(Children(node)[i][2])
        PROVE  there = Walk(g)[Looking(rest, Children(node)[i][2], links, s)]
    BY <1>1, <1>3, <1>4, <1>6, <2>1, EntryFound
  <2>2. ASSUME Dot \notin DOMAIN g.children[node] PROVE there = NoEntry
    <3>1. node \in DOMAIN g.children BY <1>2, <1>6
    <3> QED BY <1>2, <1>3, <1>4, <2>2, <3>1, Through
  <2>3. CASE \E q \in 0..MaxProc : node = <<"proc", q>>
    <3>1. PICK q \in 0..MaxProc : node = <<"proc", q>> BY <2>3
    <3>2. Children(node) = ProcEntries(<<"proc", q>>) BY <3>1 DEF Children
    <3>3. 1 \in DOMAIN Children(node) /\ Children(node)[1] = <<Dot, node>>
      BY <3>1, <3>2, ProcEntriesType
    <3>4. ~IsLink(node) BY <3>1, Kinds
    <3> QED BY <1>1, <1>3, <2>1, <3>3, <3>4
  <2>4. CASE \E n \in DOMAIN tree : node = Node(n)
    <3>1. PICK n \in DOMAIN tree : node = Node(n) BY <2>4
    <3>2. Children(node) = tree[n].entries BY <3>1 DEF Children, Node
    <3>3. tree[n].type \in Directories \/ ~tree[n].image
      BY <1>6, <3>1 DEF HasChildren, Type, Node
    <3>4. CASE tree[n].type \in Directories
      <4>1. PICK i \in DOMAIN Children(node) : Children(node)[i][1] = Dot /\ Children(node)[i][2] = node
        BY <3>1, <3>2, <3>4 DEF DotsLead
      <4>2. ~IsLink(node) BY <3>1, <3>4, Kinds DEF Directories
      <4> QED BY <1>1, <1>3, <2>1, <4>1, <4>2
    <3>5. CASE ~tree[n].image
      <4>1. CASE \E i \in DOMAIN Children(node) : Children(node)[i][1] = Dot
        <5>1. PICK i \in DOMAIN Children(node) : Children(node)[i][1] = Dot BY <4>1
        <5>2. PICK m \in DOMAIN tree : ~tree[m].image /\ Children(node)[i][2] = Node(m)
          BY <3>2, <3>5 DEF DotsLead
        <5>3. ~IsLink(Node(m))
          <6>1. tree[m].type = "file" BY <5>2 DEF DotsLead
          <6> QED BY <6>1, Kinds
        <5> QED BY <1>1, <1>3, <2>1, <5>1, <5>2, <5>3
      <4>2. CASE ~\E i \in DOMAIN Children(node) : Children(node)[i][1] = Dot
        <5>1. g.children[node] = Object(Children(node)) BY <1>2, <1>6
        <5>2. Dot \notin DOMAIN g.children[node] BY <4>2, <5>1 DEF Object
        <5>3. there = NoEntry BY <1>2, <1>3, <1>4, <1>6, <5>2, Through
        <5> QED BY <1>1, <1>3, <5>3
      <4> QED BY <4>1, <4>2
    <3> QED BY <3>3, <3>4, <3>5
  <2>5. CASE node[1] \in {"self", "cwd", "root"}
    <3>1. PICK none : none = Children(node) OBVIOUS
    <3>2. DOMAIN none = {}
      <4>1. none = <<>> BY <2>5, <3>1 DEF Children
      <4>2. DOMAIN <<>> = 1..0 OBVIOUS
      <4>3. 1..0 = {} OBVIOUS
      <4> QED BY <4>1, <4>2, <4>3
    <3>3. g.children[node] = Object(none) BY <1>2, <1>6, <3>1
    <3>4. ~\E i \in DOMAIN none : none[i][1] = Dot BY <3>2
    <3>5. Dot \notin DOMAIN g.children[node] BY <3>3, <3>4 DEF Object
    <3> QED BY <1>1, <1>3, <2>2, <3>5
  <2>6. \A q : <<"self", q>>[1] = "self" /\ <<"cwd", q>>[1] = "cwd" /\ <<"root", q>>[1] = "root"
    OBVIOUS
  <2> QED BY <2>3, <2>4, <2>5, <2>6, NodeCases
<1> QED BY <1>5, <1>6

LEMMA FrontLast ==
  ASSUME NEW S, NEW s \in Seq(S), s # <<>>
  PROVE  /\ Front(s) \in Seq(S) /\ Last(s) \in S /\ s = Front(s) \o <<Last(s)>>
         /\ Len(Front(s)) = Len(s) - 1
<1>1. PICK n \in Nat : Len(s) = n + 1
  <2>1. Len(s) \in Nat \ {0} OBVIOUS
  <2>2. Len(s) - 1 \in Nat /\ Len(s) = Len(s) - 1 + 1 BY <2>1
  <2> QED BY <2>2
<1>2. DOMAIN s = 1..(n + 1) /\ \A i \in 1..(n + 1) : s[i] \in S BY <1>1
<1>3. PICK f : f = Front(s) OBVIOUS
<1>4. f = [i \in 1..n |-> s[i]]
  <2>1. f = SubSeq(s, 1, n) BY <1>1, <1>3 DEF Front
  <2> QED BY <1>1, <1>2, <2>1
<1>5. f \in Seq(S) /\ Len(f) = n /\ \A i \in 1..n : f[i] = s[i] BY <1>2, <1>4
<1>6. PICK x \in S : x = s[n + 1] BY <1>2
<1>7. Last(s) = x BY <1>1, <1>6 DEF Last
<1>8. PICK t : t = f \o <<x>> OBVIOUS
<1>9. t \in Seq(S) /\ Len(t) = n + 1 /\ \A i \in 1..(n + 1) : t[i] = IF i <= n THEN f[i] ELSE <<x>>[i - n]
  <2>1. <<x>> \in Seq(S) /\ Len(<<x>>) = 1 OBVIOUS
  <2> QED BY <1>5, <1>8, <2>1, ConcatProperties
<1>10. \A i \in 1..(n + 1) : t[i] = s[i]
  <2>1. \A i \in 1..(n + 1) : (i <= n /\ i \in 1..n) \/ (~(i <= n) /\ i = n + 1 /\ i - n = 1) OBVIOUS
  <2>2. <<x>>[1] = x OBVIOUS
  <2> QED BY <1>5, <1>6, <1>9, <2>1, <2>2
<1>11. t = s
  <2>1. t \in Seq(S) /\ Len(t) = Len(s) BY <1>1, <1>9
  <2>2. \A i \in 1..Len(t) : t[i] = s[i] BY <1>1, <1>9, <1>10
  <2> QED BY <2>1, <2>2, SeqEqual
<1> QED BY <1>1, <1>3, <1>5, <1>7, <1>8, <1>11

LEMMA FromOfNames ==
  ASSUME TypeOK, NEW p \in Proc, NEW path \in Path
  PROVE  /\ FromOf(p, path) \in Path /\ Tail(FromOf(p, path)) \in Seq(Name)
         /\ cwd[p] \in Path /\ Tail(cwd[p]) \in Seq(Name)
<1>1. PICK dir \in Path : dir = cwd[p] BY TreeFacts
<1>2. dir \in Seq(Name) /\ dir # <<>> /\ path \in Seq(Name) /\ path # <<>> BY DEF Path
<1>3. dir \o path \in Seq(Name) /\ dir \o path # <<>> BY <1>2, ConcatProperties, ConcatEqualIffEmpty
<1>4. FromOf(p, path) \in Path BY <1>1, <1>3 DEF FromOf, Path
<1>5. \A x \in Path : Tail(x) \in Seq(Name) BY DEF Path
<1> QED BY <1>1, <1>4, <1>5

LEMMA FromOfLonger ==
  ASSUME TypeOK, NEW p \in Proc, NEW rest \in Seq(Name)
  PROVE  /\ Tail(cwd[p] \o rest) = Tail(cwd[p]) \o rest
         /\ \A path \in Path : Tail(FromOf(p, path \o rest)) = Tail(FromOf(p, path)) \o rest
<1>1. PICK dir \in Path : dir = cwd[p] BY TreeFacts
<1>2. \A x \in Path : Tail(x \o rest) = Tail(x) \o rest
  BY TailOfConcat DEF Path
<1>3. ASSUME NEW path \in Path PROVE Tail(FromOf(p, path \o rest)) = Tail(FromOf(p, path)) \o rest
  <2>1. path \in Seq(Name) /\ path # <<>> /\ dir \in Seq(Name) BY DEF Path
  <2>2. (path \o rest)[1] = path[1]
    <3>1. Len(path) \in Nat \ {0} /\ Len(rest) \in Nat BY <2>1
    <3>2. 1 \in 1..(Len(path) + Len(rest)) /\ 1 <= Len(path) BY <3>1
    <3> QED BY <2>1, <3>2, ConcatProperties
  <2>3. Absolute(path \o rest) <=> Absolute(path) BY <2>2 DEF Absolute
  <2>4. dir \o path \in Path BY <1>1, FromOfNames, <2>1, ConcatProperties, ConcatEqualIffEmpty DEF Path
  <2>5. dir \o (path \o rest) = (dir \o path) \o rest BY <2>1, ConcatAssociative
  <2>6. CASE Absolute(path) BY <1>2, <2>3, <2>6 DEF FromOf
  <2>7. CASE ~Absolute(path) BY <1>1, <1>2, <2>3, <2>4, <2>5, <2>7 DEF FromOf
  <2> QED BY <2>6, <2>7
<1> QED BY <1>1, <1>2, <1>3

(* A lookup that stops on links, but finds none, finds what one that       *)
(* follows finds.                                                          *)
LEMMA FindFollows ==
  ASSUME TypeOK, tree # <<>>, NEW p \in Proc, NEW path \in Path, NEW s \in BOOLEAN,
         Find(p, path, s) \notin {l \in Nodes : IsLink(l)}
  PROVE  Find(p, path, FALSE) = Find(p, path, s)
<1>1. PICK g : g = Graph(p) OBVIOUS
<1>2. IsGraph(g) /\ DOMAIN g.target = {l \in Nodes : IsLink(l)} BY <1>1, GraphFacts
<1>3. CASE path = <<Empty>> BY <1>3 DEF Find
<1>4. CASE path # <<Empty>>
  <2>1. PICK names \in Seq(Name) : names = Tail(FromOf(p, path)) BY FromOfNames
  <2>2. \A t \in BOOLEAN : Find(p, path, t) = Walk(g)[From(g, names, t)]
    BY <1>1, <1>4, <2>1 DEF Find, Led
  <2>3. From(g, names, s) \in Lookups(g) BY <1>2, FromLookup
  <2>4. Follow(From(g, names, s)) = From(g, names, FALSE) BY DEF Follow, From
  <2>5. Walk(g)[From(g, names, s)] \notin DOMAIN g.target BY <1>2, <2>2
  <2>6. Walk(g)[From(g, names, s)] = Walk(g)[Follow(From(g, names, s))]
    BY <1>2, <2>3, <2>5, StopAgrees
  <2>7. Find(p, path, s) = Walk(g)[From(g, names, s)] BY <2>2
  <2>8. Find(p, path, FALSE) = Walk(g)[From(g, names, FALSE)] BY <2>2
  <2> QED BY <2>4, <2>6, <2>7, <2>8
<1> QED BY <1>3, <1>4

LEMMA NodesOrErrors ==
  ASSUME TypeOK, tree # <<>>
  PROVE  /\ \A node \in Nodes : ~Failed(node)
         /\ \A n \in DOMAIN tree : Node(n) \in Nodes /\ ~Failed(Node(n))
         /\ \A m, n : Node(m) = Node(n) => m = n
         /\ \A p \in Proc : Ends(Graph(p)) = Nodes \cup Errors
<1>1. MaxProc \in Nat \ {0} BY PathsAssumption
<1>2. 1 \in Proc BY <1>1 DEF Proc
<1>3. \A p \in Proc : IsGraph(Graph(p)) /\ Graph(p).nodes = Nodes BY GraphFacts
<1>4. \A node \in Nodes : ~Failed(node) BY <1>2, <1>3 DEF IsGraph, Failed
<1>5. \A n \in DOMAIN tree : Node(n) \in Nodes BY DEF Nodes
<1>6. \A p \in Proc : Ends(Graph(p)) = Nodes \cup Errors BY <1>3 DEF Ends
<1>7. \A m, n : Node(m) = Node(n) => m = n BY DEF Node
<1> QED BY <1>4, <1>5, <1>6, <1>7

(* Names that lead to a directory, and then the name of an entry that is   *)
(* no link, lead to a node.                                                *)
LEMMA EntryAfter ==
  ASSUME TypeOK, tree # <<>>, NEW p \in Proc, NEW names \in Seq(Name), NEW s \in BOOLEAN,
         NEW n \in DOMAIN tree, tree[n].type \in Directories, Leads(Graph(p), names, FALSE) = Node(n),
         NEW i \in DOMAIN tree[n].entries, tree[n].entries[i][1] # Empty,
         ~IsLink(tree[n].entries[i][2])
  PROVE  Leads(Graph(p), names \o <<tree[n].entries[i][1]>>, s) \in Nodes
<1>1. PICK g : g = Graph(p) OBVIOUS
<1>2. IsGraph(g) /\ g.nodes = Nodes BY <1>1, GraphFacts
<1>3. PICK name, child : name = tree[n].entries[i][1] /\ child = tree[n].entries[i][2] OBVIOUS
<1>4. Node(n) \in Nodes /\ ~Failed(Node(n)) BY NodesOrErrors
<1>5. Children(Node(n)) = tree[n].entries /\ HasChildren(Node(n))
  BY DEF Children, HasChildren, Type, Node
<1>6. <<>> \in Seq(Name) /\ \A x : <<x>> \o <<>> = <<x>> OBVIOUS
<1>7. \A links \in Nat :
        /\ name \in Name /\ child \in Nodes
        /\ Walk(g)[Looking(<<name>> \o <<>>, Node(n), links, s)] = Walk(g)[Looking(<<>>, child, links, s)]
  <2> SUFFICES ASSUME NEW links \in Nat
               PROVE  /\ name \in Name /\ child \in Nodes
                      /\ Walk(g)[Looking(<<name>> \o <<>>, Node(n), links, s)]
                           = Walk(g)[Looking(<<>>, child, links, s)]
    OBVIOUS
  <2>1. PICK node \in Nodes : node = Node(n) BY <1>4
  <2>2. /\ HasChildren(node) /\ i \in DOMAIN Children(node) /\ Children(node)[i][1] # Empty
        /\ ~IsLink(Children(node)[i][2])
    BY <1>5, <2>1
  <2>3. PICK rest \in Seq(Name) : rest = <<>> BY <1>6
  <2>4. /\ Children(node)[i][1] \in Name /\ Children(node)[i][2] \in Nodes
        /\ Walk(Graph(p))[Looking(<<Children(node)[i][1]>> \o rest, node, links, s)]
             = Walk(Graph(p))[Looking(rest, Children(node)[i][2], links, s)]
    BY <2>2, EntryFound
  <2> QED BY <1>1, <1>3, <1>5, <2>1, <2>3, <2>4
<1>8. name \in Name /\ child \in Nodes
  <2>1. 0 \in Nat OBVIOUS
  <2> QED BY <1>7, <2>1
<1>9. \A links \in Nat : Walk(g)[Looking(<<name>>, Node(n), links, s)] = child
  BY <1>2, <1>6, <1>7, <1>8, Arrived
<1>10. <<name>> \in Seq(Name) /\ <<name>> # <<>> BY <1>8
<1>11. PICK links \in Nat : Leads(g, names \o <<name>>, s) = Walk(g)[Looking(<<name>>, Node(n), links, s)]
  <2>1. PICK rest \in Seq(Name) : rest = <<name>> /\ rest # <<>> BY <1>10
  <2>2. PICK links \in Nat : Leads(g, names \o rest, s) =
          IF Failed(Leads(g, names, FALSE)) THEN Leads(g, names, FALSE)
          ELSE Walk(g)[Looking(rest, Leads(g, names, FALSE), links, s)]
    BY <1>2, <2>1, Onward
  <2> QED BY <1>1, <1>4, <2>1, <2>2
<1> QED BY <1>1, <1>3, <1>8, <1>9, <1>11

(* "./" leads where the working directory leads.                           *)
LEMMA DirectoryOfDot ==
  ASSUME TypeOK, DotsLead, tree # <<>>, NEW p \in Proc, NEW s \in BOOLEAN,
         NEW n \in DOMAIN tree, tree[n].type \in Directories, Find(p, <<Dot, Empty>>, s) = Node(n)
  PROVE  Leads(Graph(p), Tail(cwd[p]), FALSE) = Node(n)
<1>1. PICK g : g = Graph(p) OBVIOUS
<1>2. IsGraph(g) /\ g.nodes = Nodes BY <1>1, GraphFacts
<1>3. PICK names \in Seq(Name) : names = Tail(cwd[p])
  <2>1. <<Empty>> \in Path BY NamesOfProc DEF Path
  <2> QED BY <2>1, FromOfNames
<1>4. /\ <<Dot, Empty>> \in Path /\ <<Dot, Empty>> \in Seq(Name) /\ <<Dot, Empty>> # <<Empty>>
      /\ <<Empty>> \in Seq(Name) /\ <<Dot, Empty>> = <<Dot>> \o <<Empty>> /\ <<Dot, Empty>>[1] = Dot
      /\ <<Empty>> = <<Empty>> \o <<>> /\ <<>> \in Seq(Name) /\ Dot # Empty
  BY NamesOfProc DEF Path
<1>5. Find(p, <<Dot, Empty>>, s) = Leads(g, names \o <<Dot, Empty>>, s)
  <2>1. FromOf(p, <<Dot, Empty>>) = cwd[p] \o <<Dot, Empty>> BY <1>4 DEF FromOf, Absolute
  <2>2. Tail(cwd[p] \o <<Dot, Empty>>) = names \o <<Dot, Empty>> BY <1>3, <1>4, FromOfLonger
  <2> QED BY <1>1, <1>4, <2>1, <2>2 DEF Find, Led, Leads
<1>6. PICK w : w = Leads(g, names, FALSE) OBVIOUS
<1>7. PICK links \in Nat :
        /\ w \in Ends(g)
        /\ Find(p, <<Dot, Empty>>, s) = IF Failed(w) THEN w
                                        ELSE Walk(g)[Looking(<<Dot>> \o <<Empty>>, w, links, s)]
  <2>1. <<Dot, Empty>> # <<>> OBVIOUS
  <2>2. PICK links \in Nat :
          /\ w \in Ends(g)
          /\ Leads(g, names \o <<Dot, Empty>>, s) =
               IF Failed(w) THEN w ELSE Walk(g)[Looking(<<Dot, Empty>>, w, links, s)]
    BY <1>2, <1>4, <1>6, <2>1, Onward
  <2> QED BY <1>4, <1>5, <2>2
<1>8. ~Failed(w) BY <1>7, NodesOrErrors
<1>9. w \in Nodes BY <1>1, <1>7, <1>8, NodesOrErrors DEF Failed
<1>10. \A node \in Nodes : Walk(g)[Looking(<<Empty>>, node, links, s)] = node
  <2>1. \A node \in Nodes :
          Walk(g)[Looking(<<Empty>> \o <<>>, node, links, s)] = Walk(g)[Looking(<<>>, node, links, s)]
    <3> SUFFICES ASSUME NEW node \in Nodes
                 PROVE  Walk(g)[Looking(<<Empty>> \o <<>>, node, links, s)]
                          = Walk(g)[Looking(<<>>, node, links, s)]
      OBVIOUS
    <3>1. PICK name \in Name, rest \in Seq(Name) : name = Empty /\ rest = <<>> BY <1>4, NamesOfProc
    <3>2. node \in g.nodes BY <1>2
    <3>3. name = Empty => Walk(g)[Looking(<<name>> \o rest, node, links, s)]
                            = Walk(g)[Looking(rest, node, links, s)]
      BY <1>2, <3>2, Through
    <3> QED BY <3>1, <3>3
  <2> QED BY <1>2, <1>4, <2>1, Arrived
<1>11. PICK there : there = Walk(g)[Looking(<<Dot>> \o <<Empty>>, w, links, s)] OBVIOUS
<1>12. there = Node(n) BY <1>7, <1>8, <1>11
<1>13. there \notin {NoEntry, TypeError} BY <1>12, NodesOrErrors DEF Failed, Errors
<1>14. \A m \in DOMAIN tree : ~tree[m].image => Walk(g)[Looking(<<Empty>>, Node(m), links, s)] # Node(n)
  <2>1. tree[n].image BY DEF DotsLead
  <2> QED BY <1>10, <2>1, NodesOrErrors
<1>15. there = Walk(g)[Looking(<<Empty>>, w, links, s)]
  <2>1. PICK rest \in Seq(Name) : rest = <<Empty>> BY <1>4
  <2>2. LET found == Walk(Graph(p))[Looking(<<Dot>> \o rest, w, links, s)]
        IN \/ found = Walk(Graph(p))[Looking(rest, w, links, s)]
           \/ found \in {NoEntry, TypeError}
           \/ \E m \in DOMAIN tree : /\ ~tree[m].image
                                     /\ found = Walk(Graph(p))[Looking(rest, Node(m), links, s)]
    BY <1>9, DotFound
  <2> QED BY <1>1, <1>11, <1>12, <1>13, <1>14, <2>1, <2>2
<1> QED BY <1>1, <1>3, <1>6, <1>9, <1>10, <1>12, <1>15

LEMMA ConcatOfTwo ==
  ASSUME NEW S, NEW x \in S, NEW y \in S
  PROVE  <<x>> \o <<y>> = <<x, y>>
<1>0. <<x>> \in Seq(S) /\ <<y>> \in Seq(S) /\ <<x, y>> \in Seq(S) OBVIOUS
<1>1. PICK s \in Seq(S), t \in Seq(S) : s = <<x>> /\ t = <<y>> BY <1>0
<1>2. Len(s) = 1 /\ Len(t) = 1 /\ s[1] = x /\ t[1] = y BY <1>1
<1>3. PICK u \in Seq(S) : u = s \o t
  <2>1. s \o t \in Seq(S) OBVIOUS
  <2> QED BY <2>1
<1>4. Len(u) = 2 /\ u[1] = x /\ u[2] = y BY <1>2, <1>3, ConcatProperties
<1>5. PICK v \in Seq(S) : v = <<x, y>> BY <1>0
<1>6. Len(v) = 2 /\ v[1] = x /\ v[2] = y BY <1>5
<1>7. \A i \in 1..2 : i = 1 \/ i = 2 OBVIOUS
<1>8. u = v BY <1>4, <1>6, <1>7, SeqEqual
<1> QED BY <1>1, <1>3, <1>5, <1>8

(* The entries that making a file replaces.                                *)
LEMMA Replaced ==
  ASSUME TypeOK, DotsLead, tree # <<>>, NEW p \in Proc, NEW path \in Path, NEW s \in BOOLEAN,
         NEW n \in DOMAIN tree, tree[n].type \in Directories,
         NEW i \in DOMAIN tree[n].entries, tree[n].entries[i][1] = Last(path),
         Find(p, path, s) = NoEntry, Find(p, PathName(path), s) = Node(n)
  PROVE  \/ IsLink(tree[n].entries[i][2]) \/ tree[n].entries[i][1] = Empty
         \/ /\ Find(p, <<Empty, tree[n].entries[i][1]>>, FALSE) = NoEntry
            /\ Led(Graph(p), cwd[p], FALSE) = Node(n)
<1> SUFFICES ASSUME ~IsLink(tree[n].entries[i][2]), tree[n].entries[i][1] # Empty
             PROVE  /\ Find(p, <<Empty, tree[n].entries[i][1]>>, FALSE) = NoEntry
                    /\ Led(Graph(p), cwd[p], FALSE) = Node(n)
  OBVIOUS
<1>1. PICK g : g = Graph(p) OBVIOUS
<1>2. PICK front, name : front = Front(path) /\ name = Last(path) OBVIOUS
<1>3. path \in Seq(Name) /\ path # <<>> BY DEF Path
<1>4. front \in Seq(Name) /\ name \in Name /\ path = front \o <<name>> /\ name # Empty
  BY <1>2, <1>3, FrontLast
<1>5. <<name>> \in Seq(Name) /\ <<name>> \in Path /\ <<name>>[1] = name /\ <<Empty>> # <<name>>
  BY <1>4 DEF Path
<1>6. ASSUME NEW names \in Seq(Name), Leads(g, names, FALSE) = Node(n)
      PROVE  Leads(g, names \o <<name>>, s) # NoEntry
  <2>1. Leads(g, names \o <<name>>, s) \in Nodes BY <1>1, <1>2, <1>6, EntryAfter
  <2> QED BY <2>1, NodesOrErrors DEF Failed, Errors
<1>7. path # <<Empty>>
  <2>1. ASSUME path = <<Empty>> PROVE FALSE
    <3>1. Last(path) = Empty BY <2>1 DEF Last
    <3> QED BY <1>2, <1>4, <3>1
  <2> QED BY <2>1
<1>8. NoEntry = Leads(g, Tail(FromOf(p, path)), s)
  BY <1>1, <1>7 DEF Find, Led, Leads
<1>9. Node(n) \notin {l \in Nodes : IsLink(l)} BY Kinds DEF Directories
<1>10. ASSUME front \notin {<<>>, <<Empty>>} PROVE FALSE
  <2>1. PathName(path) = front BY <1>2, <1>10 DEF PathName
  <2>2. front \in Path /\ front # <<Empty>> BY <1>4, <1>10 DEF Path
  <2>3. Find(p, front, FALSE) = Node(n)
    <3>1. Find(p, front, s) = Node(n) BY <2>1
    <3> QED BY <1>9, <2>2, <3>1, FindFollows
  <2>4. PICK names \in Seq(Name) : names = Tail(FromOf(p, front)) BY <2>2, FromOfNames
  <2>5. Leads(g, names, FALSE) = Node(n) BY <1>1, <2>2, <2>3, <2>4 DEF Find, Led, Leads
  <2>6. Tail(FromOf(p, path)) = names \o <<name>> BY <1>4, <1>5, <2>2, <2>4, FromOfLonger
  <2> QED BY <1>6, <1>8, <2>5, <2>6
<1>11. ASSUME front \in {<<>>, <<Empty>>} PROVE Leads(g, Tail(cwd[p]), FALSE) = Node(n)
  <2>1. PathName(path) = <<Dot, Empty>> BY <1>2, <1>11 DEF PathName
  <2> QED BY <1>1, <2>1, DirectoryOfDot
<1>12. front # <<>>
  <2> SUFFICES ASSUME front = <<>> PROVE FALSE OBVIOUS
  <2>1. path = <<name>> BY <1>4
  <2>2. FromOf(p, path) = cwd[p] \o <<name>> BY <1>4, <1>5, <2>1 DEF FromOf, Absolute
  <2>3. Tail(FromOf(p, path)) = Tail(cwd[p]) \o <<name>> BY <1>5, <2>2, FromOfLonger
  <2>4. Tail(cwd[p]) \in Seq(Name) BY FromOfNames
  <2> QED BY <1>6, <1>8, <1>11, <2>3, <2>4
<1>13. front = <<Empty>> BY <1>10, <1>12
<1>14. path = <<Empty, name>>
  <2>1. path = <<Empty>> \o <<name>> BY <1>4, <1>13
  <2> QED BY <1>4, <2>1, NamesOfProc, ConcatOfTwo
<1>15. Find(p, path, FALSE) = NoEntry
  <2>1. NoEntry \notin Nodes BY NodesOrErrors DEF Failed, Errors
  <2> QED BY <2>1, FindFollows
<1> QED BY <1>1, <1>2, <1>11, <1>13, <1>14, <1>15 DEF Led, Leads

(* "." of a directory is not among them: "/." is always found.             *)
LEMMA DotNotReplaced ==
  ASSUME TypeOK, DotsLead, Booted, tree # <<>>, NEW p \in Proc, NEW path \in Path, NEW s \in BOOLEAN,
         NEW n \in DOMAIN tree, tree[n].type \in Directories,
         NEW i \in DOMAIN tree[n].entries, tree[n].entries[i][1] = Dot, Last(path) = Dot,
         Find(p, path, s) = NoEntry
  PROVE  Find(p, PathName(path), s) # Node(n)
<1> SUFFICES ASSUME Find(p, PathName(path), s) = Node(n) PROVE FALSE OBVIOUS
<1>1. PICK g : g = Graph(p) OBVIOUS
<1>2. IsGraph(g) /\ g.root = Root /\ g.nodes = Nodes /\ Root \in Nodes BY <1>1, GraphFacts
<1>3. tree[n].entries[i][2] = Node(n) BY DEF DotsLead
<1>4. ~IsLink(Node(n)) BY Kinds DEF Directories
<1>5. Find(p, <<Empty, Dot>>, FALSE) = NoEntry
  <2>1. PICK name : name = tree[n].entries[i][1] OBVIOUS
  <2>2. name = Dot /\ tree[n].entries[i][1] = Last(path) BY <2>1
  <2>3. \/ IsLink(tree[n].entries[i][2]) \/ tree[n].entries[i][1] = Empty
        \/ /\ Find(p, <<Empty, tree[n].entries[i][1]>>, FALSE) = NoEntry
           /\ Led(Graph(p), cwd[p], FALSE) = Node(n)
    BY <2>2, Replaced
  <2> QED BY <1>3, <1>4, <2>1, <2>2, <2>3, NamesOfProc
<1>6. 1 \in DOMAIN tree /\ tree[1].type \in Directories BY DEF TypeOK, Booted
<1>7. PICK j \in DOMAIN tree[1].entries : tree[1].entries[j][1] = Dot /\ tree[1].entries[j][2] = Node(1)
  BY <1>6 DEF DotsLead
<1>8. <<>> \in Seq(Name) /\ \A x : <<>> \o <<x>> = <<x>> OBVIOUS
<1>9. Leads(g, <<>>, FALSE) = Node(1)
  <2>1. From(g, <<>>, FALSE) = Looking(<<>>, Node(1), 0, FALSE)
    BY <1>2 DEF From, Looking, Root
  <2>2. PICK node \in g.nodes : node = Node(1) BY <1>2 DEF Root
  <2>3. 0 \in Nat /\ FALSE \in BOOLEAN OBVIOUS
  <2>4. Walk(g)[Looking(<<>>, node, 0, FALSE)] = node BY <1>2, <2>3, Arrived
  <2> QED BY <2>1, <2>2, <2>4 DEF Leads
<1>10. ~IsLink(Node(1)) BY <1>6, Kinds DEF Directories
<1>11. Leads(g, <<>> \o <<Dot>>, FALSE) \in Nodes
  BY <1>1, <1>6, <1>7, <1>8, <1>9, <1>10, NamesOfProc, EntryAfter
<1>12. Find(p, <<Empty, Dot>>, FALSE) = Leads(g, <<Dot>>, FALSE)
  <2>1. Tail(<<Empty, Dot>>) = <<Dot>> /\ <<Empty, Dot>> # <<Empty>> /\ <<Empty, Dot>>[1] = Empty
    OBVIOUS
  <2> QED BY <1>1, <2>1 DEF Find, FromOf, Absolute, Led, Leads
<1> QED BY <1>5, <1>8, <1>11, <1>12, NodesOrErrors DEF Failed, Errors
-----------------------------------------------------------------------------
(* Making a file.                                                          *)
LEMMA StoredEntries ==
  ASSUME NEW S, NEW entries \in Seq(S), Distinct(entries), NEW name, NEW node, <<name, node>> \in S
  PROVE  LET stored == Stored(entries, name, node)
         IN /\ stored \in Seq(S) /\ Distinct(stored)
            /\ \A i \in DOMAIN entries :
                 /\ i \in DOMAIN stored
                 /\ stored[i] = IF entries[i][1] = name THEN <<name, node>> ELSE entries[i]
            /\ \A i \in DOMAIN stored :
                 stored[i] = <<name, node>> \/ (i \in DOMAIN entries /\ stored[i] = entries[i])
<1>1. PICK n \in Nat : n = Len(entries) /\ DOMAIN entries = 1..n OBVIOUS
<1>2. \A i \in 1..n : entries[i] \in S BY <1>1, ElementOfSeq
<1>3. PICK stored : stored = Stored(entries, name, node) OBVIOUS
<1>4. CASE \E i \in DOMAIN entries : entries[i][1] = name
  <2>1. stored = [i \in 1..n |-> IF entries[i][1] = name THEN <<name, node>> ELSE entries[i]]
    BY <1>1, <1>3, <1>4 DEF Stored
  <2>2. \A i \in 1..n : stored[i] = IF entries[i][1] = name THEN <<name, node>> ELSE entries[i]
    BY <2>1
  <2>3. DOMAIN stored = 1..n BY <2>1
  <2>4. \A i \in 1..n : stored[i] \in S BY <1>2, <2>2
  <2>5. stored \in Seq(S)
    <3>1. stored \in [1..n -> S] BY <2>1, <2>4
    <3> QED BY <1>1, <3>1
  <2>6. \A i \in 1..n : stored[i][1] = entries[i][1] BY <1>2, <2>2
  <2>7. Distinct(stored) BY <1>1, <2>3, <2>6 DEF Distinct
  <2> QED BY <1>1, <1>3, <2>2, <2>3, <2>5, <2>7
<1>5. CASE ~\E i \in DOMAIN entries : entries[i][1] = name
  <2>1. stored = Append(entries, <<name, node>>) BY <1>3, <1>5 DEF Stored
  <2>3. /\ stored \in Seq(S) /\ Len(stored) = n + 1
        /\ \A i \in 1..n : stored[i] = entries[i]
        /\ stored[n + 1] = <<name, node>>
    BY <1>1, <2>1, AppendProperties
  <2>4. DOMAIN stored = 1..(n + 1) /\ \A i \in 1..(n + 1) : i \in 1..n \/ i = n + 1
    BY <2>3
  <2>5. \A i \in 1..n : i \in 1..(n + 1) OBVIOUS
  <2>6. \A i \in 1..n : entries[i][1] # name BY <1>1, <1>5
  <2>7. stored[n + 1][1] = name BY <2>3
  <2>8. Distinct(stored)
    <3>1. \A i, j \in 1..(n + 1) : stored[i][1] = stored[j][1] => i = j
      <4> SUFFICES ASSUME NEW i \in 1..(n + 1), NEW j \in 1..(n + 1), stored[i][1] = stored[j][1]
                   PROVE  i = j
        OBVIOUS
      <4>1. CASE i \in 1..n /\ j \in 1..n
        <5>1. entries[i][1] = entries[j][1] BY <2>3, <4>1
        <5> QED BY <1>1, <4>1, <5>1 DEF Distinct
      <4>2. CASE i \in 1..n /\ j = n + 1
        <5>1. stored[i][1] = entries[i][1] BY <2>3, <4>2
        <5> QED BY <2>6, <2>7, <4>2, <5>1
      <4>3. CASE i = n + 1 /\ j \in 1..n
        <5>1. stored[j][1] = entries[j][1] BY <2>3, <4>3
        <5> QED BY <2>6, <2>7, <4>3, <5>1
      <4> QED BY <2>4, <4>1, <4>2, <4>3
    <3> QED BY <2>4, <3>1 DEF Distinct
  <2> QED BY <1>1, <1>3, <2>3, <2>4, <2>5, <2>6, <2>8
<1> QED BY <1>4, <1>5

Numbered == Len(tree) + 1     \* the number of the next node
Fresh == [type |-> "file", entries |-> <<>>, target |-> <<>>, data |-> <<>>, image |-> FALSE]
Changed(n, name) ==
  [type |-> tree[n].type, entries |-> Stored(tree[n].entries, name, Node(Numbered)),
   target |-> tree[n].target, data |-> tree[n].data, image |-> tree[n].image]

(* The tree with the file: one node more, and one directory changed.       *)
LEMMA WithFileTree ==
  ASSUME TypeOK, NEW parent \in Nodes, HasChildren(parent), NEW name \in Name
  PROVE  LET made == WithFile(parent, name)
         IN /\ made = [n \in 1..Numbered |-> made[n]]
            /\ DOMAIN made = 1..Numbered /\ Numbered \in Nat /\ Numbered \notin DOMAIN tree
            /\ DOMAIN tree \subseteq 1..Numbered
            /\ \A n \in 1..Numbered : n \in DOMAIN tree \/ n = Numbered
            /\ made[Numbered] = Fresh
            /\ \A n \in DOMAIN tree : made[n] = IF parent = Node(n) THEN Changed(n, name) ELSE tree[n]
<1>1. PICK k \in Nat : k = Len(tree) /\ DOMAIN tree = 1..k /\ Numbered = k + 1
  <2>1. Len(tree) \in Nat /\ DOMAIN tree = 1..Len(tree) BY DEF TypeOK
  <2> QED BY <2>1 DEF Numbered
<1>2. PICK old : old = IF parent[1] # "node" THEN tree
                       ELSE [tree EXCEPT ![parent[2]].entries = Stored(@, name, Node(k + 1))]
  OBVIOUS
<1>3. WithFile(parent, name) = Append(old, Fresh) BY <1>1, <1>2 DEF WithFile, Fresh
<1>4. DOMAIN old = 1..k BY <1>1, <1>2
<1>5. ASSUME NEW n \in 1..k
      PROVE old[n] = IF parent = Node(n) THEN Changed(n, name) ELSE tree[n]
  <2>1. n \in DOMAIN tree BY <1>1
  <2>2. CASE parent[1] # "node"
    <3>1. parent # Node(n) BY <2>2 DEF Node
    <3> QED BY <1>2, <2>2, <3>1
  <2>3. CASE parent[1] = "node" /\ parent[2] # n
    <3>1. parent # Node(n) BY <2>3 DEF Node
    <3>2. old[n] = tree[n] BY <1>2, <2>1, <2>3
    <3> QED BY <3>1, <3>2
  <2>4. CASE parent = Node(n)
    <3>1. parent[1] = "node" /\ parent[2] = n BY <2>4 DEF Node
    <3>2. old[n] = [tree[n] EXCEPT !.entries = Stored(@, name, Node(k + 1))]
      BY <1>2, <2>1, <3>1
    <3>3. PICK x : x = tree[n] OBVIOUS
    <3>4. x = [type |-> x.type, entries |-> x.entries, target |-> x.target, data |-> x.data,
               image |-> x.image]
      BY <2>1, <3>3, TreeFacts
    <3>5. PICK e : e = Stored(x.entries, name, Node(k + 1)) OBVIOUS
    <3>6. old[n] = [x EXCEPT !.entries = e] BY <3>2, <3>3, <3>5
    <3>7. [x EXCEPT !.entries = e] = [type |-> x.type, entries |-> e, target |-> x.target,
                                      data |-> x.data, image |-> x.image]
      BY <3>4
    <3>8. Changed(n, name) = [type |-> x.type, entries |-> e, target |-> x.target,
                              data |-> x.data, image |-> x.image]
      BY <1>1, <3>3, <3>5 DEF Changed
    <3> QED BY <2>4, <3>6, <3>7, <3>8
  <2>5. parent # Node(n) /\ parent[1] = "node" => parent[2] # n \/ n \notin DOMAIN tree
    <3>1. ASSUME parent[1] = "node", parent[2] = n PROVE parent = Node(n)
      <4>1. parent[1] # "proc" /\ parent[1] \notin {"self", "cwd", "root"} BY <3>1
      <4>2. PICK m \in DOMAIN tree : parent = Node(m)
        <5>1. \A q : <<"proc", q>>[1] = "proc" /\ <<"self", q>>[1] = "self" OBVIOUS
        <5>2. \A q : <<"cwd", q>>[1] = "cwd" /\ <<"root", q>>[1] = "root" OBVIOUS
        <5> QED BY <4>1, <5>1, <5>2, NodeCases
      <4>3. Node(m)[2] = m BY DEF Node
      <4> QED BY <3>1, <4>2, <4>3
    <3> QED BY <3>1
  <2> QED BY <2>1, <2>2, <2>3, <2>4, <2>5
<1>6. \A n \in 1..k : n \in 1..(k + 1) OBVIOUS
<1>7. \A n \in 1..(k + 1) : n \in 1..k \/ n = k + 1 OBVIOUS
<1>8. PICK new : new = Append(old, Fresh) OBVIOUS
<1>9. /\ new = [n \in 1..(k + 1) |-> new[n]] /\ new[k + 1] = Fresh
      /\ \A n \in 1..k : new[n] = old[n]
  <2>1. PICK S : S = {old[n] : n \in 1..k} \cup {Fresh} OBVIOUS
  <2>2. Fresh \in S /\ \A n \in 1..k : old[n] \in S BY <2>1
  <2>3. old = [n \in 1..k |-> old[n]]
    <3>1. CASE parent[1] # "node" BY <1>1, <1>2, <3>1 DEF TypeOK
    <3>2. CASE parent[1] = "node" BY <1>1, <1>2, <3>2
    <3> QED BY <3>1, <3>2
  <2>4. old \in [1..k -> S] BY <2>2, <2>3
  <2>5. old \in Seq(S) /\ Len(old) = k BY <2>4
  <2>6. /\ new \in Seq(S) /\ Len(new) = k + 1 /\ new[k + 1] = Fresh
        /\ \A n \in 1..k : new[n] = old[n]
    BY <1>8, <2>2, <2>5, AppendProperties
  <2>7. new \in [1..(k + 1) -> S] BY <2>6, LenProperties
  <2> QED BY <2>6, <2>7
<1>10. DOMAIN new = 1..(k + 1) BY <1>9
<1>11. WithFile(parent, name) = new BY <1>3, <1>8
<1>12. \A n \in DOMAIN tree : new[n] = IF parent = Node(n) THEN Changed(n, name) ELSE tree[n]
  BY <1>1, <1>5, <1>9
<1>13. Numbered \notin DOMAIN tree /\ DOMAIN tree \subseteq 1..Numbered BY <1>1, <1>6
<1>14. \A n \in 1..Numbered : n \in DOMAIN tree \/ n = Numbered BY <1>1, <1>7
<1>15. new = [n \in 1..Numbered |-> new[n]] /\ new[Numbered] = Fresh BY <1>1, <1>9
<1>16. Numbered \in Nat /\ DOMAIN new = 1..Numbered BY <1>1, <1>10
<1> QED BY <1>11, <1>12, <1>13, <1>14, <1>15, <1>16

(* What stays, and what an entry of a directory may be replaced by.        *)
KeepsEntry(n, i) ==
  LET entry == tree[n].entries[i]
  IN tree[n].type \in Directories /\ tree'[n].entries[i] # entry =>
       \/ IsLink(entry[2]) \/ entry[1] = Empty
       \/ \E p \in Proc : /\ Find(p, <<Empty, entry[1]>>, FALSE) = NoEntry
                          /\ Led(Graph(p), cwd[p], FALSE) = Node(n)
KeepsEntries == \A n \in DOMAIN tree : \A i \in DOMAIN tree[n].entries : KeepsEntry(n, i)

Makes(p, path, s, parent) ==
  /\ p \in Proc /\ path \in Path /\ s \in BOOLEAN /\ parent \in Nodes /\ HasChildren(parent)
  /\ Find(p, path, s) = NoEntry /\ Find(p, PathName(path), s) = parent
  /\ tree' = WithFile(parent, Last(path))

LEMMA NodesGrow ==
  ASSUME DOMAIN tree \subseteq DOMAIN tree'
  PROVE  Nodes \subseteq Nodes'
BY DEF Nodes

LEMMA MadeTree ==
  ASSUME TypeOK, tree # <<>>, NEW p, NEW path, NEW s, NEW parent, Makes(p, path, s, parent)
  PROVE  /\ Last(path) \in Name /\ tree' = [n \in 1..Numbered |-> tree'[n]]
         /\ DOMAIN tree' = 1..Numbered /\ Numbered \in Nat /\ Numbered \notin DOMAIN tree
         /\ DOMAIN tree \subseteq DOMAIN tree' /\ Numbered \in DOMAIN tree'
         /\ \A n \in DOMAIN tree' : n \in DOMAIN tree \/ n = Numbered
         /\ tree'[Numbered] = Fresh
         /\ \A n \in DOMAIN tree :
              tree'[n] = IF parent = Node(n) THEN Changed(n, Last(path)) ELSE tree[n]
<1>1. path \in Seq(Name) /\ path # <<>> /\ parent \in Nodes /\ HasChildren(parent)
  BY DEF Makes, Path
<1>2. Last(path) \in Name BY <1>1, FrontLast
<1>3. tree' = WithFile(parent, Last(path)) BY DEF Makes
<1>4. Numbered \in 1..Numbered /\ Numbered \in Nat
  <2>1. Len(tree) \in Nat BY DEF TypeOK
  <2> QED BY <2>1 DEF Numbered
<1>5. PICK name \in Name : name = Last(path) BY <1>2
<1>6. PICK made : made = WithFile(parent, name) OBVIOUS
<1>7. /\ made = [n \in 1..Numbered |-> made[n]]
      /\ DOMAIN made = 1..Numbered /\ Numbered \in Nat /\ Numbered \notin DOMAIN tree
      /\ DOMAIN tree \subseteq 1..Numbered
      /\ \A n \in 1..Numbered : n \in DOMAIN tree \/ n = Numbered
      /\ made[Numbered] = Fresh
      /\ \A n \in DOMAIN tree : made[n] = IF parent = Node(n) THEN Changed(n, name) ELSE tree[n]
  BY <1>1, <1>6, WithFileTree
<1>8. tree' = made BY <1>3, <1>5, <1>6
<1> QED BY <1>2, <1>4, <1>5, <1>7, <1>8

LEMMA MadeEntries ==
  ASSUME TypeOK, tree # <<>>, NEW p, NEW path, NEW s, NEW parent, Makes(p, path, s, parent),
         NEW n \in DOMAIN tree, parent = Node(n)
  PROVE  LET old == tree[n].entries
             new == tree'[n].entries
         IN /\ new \in Seq(Name \X Nodes') /\ Distinct(new)
            /\ \A i \in DOMAIN old : /\ i \in DOMAIN new
                                     /\ old[i][1] # Last(path) => new[i] = old[i]
            /\ \A i \in DOMAIN new : \/ new[i] = <<Last(path), Node(Numbered)>>
                                     \/ i \in DOMAIN old /\ new[i] = old[i]
            /\ Node(Numbered) \in Nodes'
<1>1. PICK name \in Name : name = Last(path) BY MadeTree
<1>2. PICK nodes, node : nodes = Nodes' /\ node = Node(Numbered) OBVIOUS
<1>3. node \in nodes
  <2>1. Numbered \in DOMAIN tree' BY MadeTree
  <2>2. \A m \in DOMAIN tree' : Node(m) \in Nodes' BY DEF Nodes
  <2> QED BY <1>2, <2>1, <2>2
<1>4. PICK old \in Seq(Name \X nodes) : old = tree[n].entries /\ Distinct(old)
  <2>1. Nodes \subseteq nodes BY <1>2, MadeTree, NodesGrow
  <2>2. PICK before : before = Nodes OBVIOUS
  <2>3. tree[n].entries \in Seq(Name \X before) /\ Distinct(tree[n].entries) BY <2>2, TreeFacts
  <2>4. Name \X before \subseteq Name \X nodes BY <2>1, <2>2
  <2>5. tree[n].entries \in Seq(Name \X nodes)
    <3>1. PICK e \in Seq(Name \X before) : e = tree[n].entries BY <2>3
    <3>2. Len(e) \in Nat /\ e \in [1..Len(e) -> Name \X before] BY LenProperties
    <3>3. e \in [1..Len(e) -> Name \X nodes] BY <2>4, <3>2
    <3>4. e \in Seq(Name \X nodes) BY <3>2, <3>3
    <3> QED BY <3>1, <3>4
  <2> QED BY <2>3, <2>5
<1>5. tree'[n] = Changed(n, name) BY <1>1, MadeTree
<1>6. tree'[n].entries = Stored(old, name, node) BY <1>2, <1>4, <1>5 DEF Changed
<1>7. PICK new : new = Stored(old, name, node) OBVIOUS
<1>8. /\ new \in Seq(Name \X nodes) /\ Distinct(new)
      /\ \A i \in DOMAIN old : /\ i \in DOMAIN new
                               /\ new[i] = IF old[i][1] = name THEN <<name, node>> ELSE old[i]
      /\ \A i \in DOMAIN new : new[i] = <<name, node>> \/ (i \in DOMAIN old /\ new[i] = old[i])
  <2>1. LET stored == Stored(old, name, node)
        IN /\ stored \in Seq(Name \X nodes) /\ Distinct(stored)
           /\ \A i \in DOMAIN old :
                /\ i \in DOMAIN stored
                /\ stored[i] = IF old[i][1] = name THEN <<name, node>> ELSE old[i]
           /\ \A i \in DOMAIN stored :
                stored[i] = <<name, node>> \/ (i \in DOMAIN old /\ stored[i] = old[i])
    <3>1. <<name, node>> \in Name \X nodes BY <1>3
    <3>2. PICK S : S = Name \X nodes OBVIOUS
    <3>3. old \in Seq(S) /\ <<name, node>> \in S /\ Distinct(old) BY <1>4, <3>1, <3>2
    <3>4. LET stored == Stored(old, name, node)
          IN /\ stored \in Seq(S) /\ Distinct(stored)
             /\ \A i \in DOMAIN old :
                  /\ i \in DOMAIN stored
                  /\ stored[i] = IF old[i][1] = name THEN <<name, node>> ELSE old[i]
             /\ \A i \in DOMAIN stored :
                  stored[i] = <<name, node>> \/ (i \in DOMAIN old /\ stored[i] = old[i])
      BY <3>3, StoredEntries
    <3> QED BY <3>2, <3>4
  <2> QED BY <1>7, <2>1
<1> QED BY <1>1, <1>2, <1>3, <1>4, <1>6, <1>7, <1>8

(* The tree keeps its type.                                                *)
LEMMA MadeTypes ==
  ASSUME TypeOK, tree # <<>>, NEW p, NEW path, NEW s, NEW parent, Makes(p, path, s, parent)
  PROVE  TreeOK'
<1>1. Nodes \subseteq Nodes' BY MadeTree, NodesGrow
<1>2. ASSUME NEW n \in DOMAIN tree'
      PROVE  /\ tree'[n] \in TreeNode' /\ Distinct(tree'[n].entries)
             /\ tree'[n].type = "link" => tree'[n].target \in Path
  <2>1. CASE n = Numbered
    <3>1. tree'[n] = Fresh BY <2>1, MadeTree
    <3>2. "file" \in Types BY DEF Types
    <3>3. Distinct(<<>>) BY DEF Distinct
    <3>4. <<>> \in Seq(Name) /\ <<>> \in Seq(Nat) /\ <<>> \in Seq(Name \X Nodes') OBVIOUS
    <3>5. Fresh \in TreeNode' BY <3>2, <3>4 DEF Fresh, TreeNode
    <3>6. Fresh.entries = <<>> /\ Fresh.type = "file" BY DEF Fresh
    <3> QED BY <3>1, <3>3, <3>5, <3>6
  <2>2. CASE n \in DOMAIN tree
    <3>0. /\ tree[n] = [type |-> tree[n].type, entries |-> tree[n].entries,
                        target |-> tree[n].target, data |-> tree[n].data, image |-> tree[n].image]
          /\ tree[n].type \in Types /\ tree[n].entries \in Seq(Name \X Nodes)
          /\ tree[n].target \in Seq(Name) /\ tree[n].data \in Seq(Nat)
          /\ tree[n].image \in BOOLEAN /\ Distinct(tree[n].entries)
          /\ tree[n].type = "link" => tree[n].target \in Path
      BY <2>2, TreeFacts
    <3>1. CASE parent = Node(n)
      <4>1. tree'[n] = Changed(n, Last(path)) BY <2>2, <3>1, MadeTree
      <4>2. tree'[n].entries \in Seq(Name \X Nodes') /\ Distinct(tree'[n].entries)
        BY <2>2, <3>1, MadeEntries
      <4>3. PICK e : e = tree'[n].entries OBVIOUS
      <4>4. tree'[n] = [type |-> tree[n].type, entries |-> e, target |-> tree[n].target,
                        data |-> tree[n].data, image |-> tree[n].image]
        BY <4>1, <4>3 DEF Changed
      <4>5. tree'[n] \in TreeNode' BY <3>0, <4>2, <4>3, <4>4 DEF TreeNode
      <4> QED BY <3>0, <4>2, <4>4, <4>5
    <3>2. CASE parent # Node(n)
      <4>1. tree'[n] = tree[n] BY <2>2, <3>2, MadeTree
      <4>2. tree[n].entries \in Seq(Name \X Nodes')
        <5>1. Name \X Nodes \subseteq Name \X Nodes' BY <1>1
        <5>2. PICK e \in Seq(Name \X Nodes) : e = tree[n].entries BY <3>0
        <5>3. Len(e) \in Nat /\ e \in [1..Len(e) -> Name \X Nodes] BY LenProperties
        <5>4. e \in [1..Len(e) -> Name \X Nodes'] BY <5>1, <5>3
        <5>5. e \in Seq(Name \X Nodes') BY <5>3, <5>4
        <5> QED BY <5>2, <5>5
      <4>3. tree[n] \in TreeNode' BY <3>0, <4>2 DEF TreeNode
      <4> QED BY <3>0, <4>1, <4>3
    <3> QED BY <3>1, <3>2
  <2> QED BY <2>1, <2>2, MadeTree
<1>3. tree' \in Seq(TreeNode')
  <2>1. PICK S : S = TreeNode' OBVIOUS
  <2>2. PICK k \in Nat : k = Numbered BY MadeTree
  <2>3. PICK t : t = tree' OBVIOUS
  <2>4. t = [n \in 1..k |-> t[n]]
    <3>1. tree' = [n \in 1..Numbered |-> tree'[n]] BY MadeTree
    <3> QED BY <2>2, <2>3, <3>1
  <2>5. \A n \in 1..k : t[n] \in S BY <1>2, <2>1, <2>2, <2>3, MadeTree
  <2>6. t \in [1..k -> S] BY <2>4, <2>5
  <2>7. t \in Seq(S) BY <2>6
  <2> QED BY <2>1, <2>3, <2>7
<1> QED BY <1>2, <1>3 DEF TreeOK

(* The file does not take the place of ".", and the root stays a           *)
(* directory.                                                              *)
LEMMA MadeDots ==
  ASSUME TypeOK, Booted, DotsLead, tree # <<>>,
         NEW p, NEW path, NEW s, NEW parent, Makes(p, path, s, parent)
  PROVE  DotsLead' /\ Booted'
<1> DEFINE OfDirectory(n) ==
             tree'[n].type \in Directories =>
               /\ tree'[n].image
               /\ \E i \in DOMAIN tree'[n].entries : tree'[n].entries[i][1] = Dot
               /\ \A i \in DOMAIN tree'[n].entries :
                    tree'[n].entries[i][1] = Dot => tree'[n].entries[i][2] = Node(n)
           OfMade(n) ==
             ~tree'[n].image =>
               /\ tree'[n].type = "file"
               /\ \A i \in DOMAIN tree'[n].entries : \E m \in DOMAIN tree' :
                    ~tree'[m].image /\ tree'[n].entries[i][2] = Node(m)
<1>1. /\ tree'[Numbered] = Fresh /\ Numbered \in DOMAIN tree' /\ DOMAIN tree \subseteq DOMAIN tree'
      /\ \A n \in DOMAIN tree' : n \in DOMAIN tree \/ n = Numbered
  BY MadeTree
<1>2. \A n \in DOMAIN tree : tree'[n].type = tree[n].type /\ tree'[n].image = tree[n].image
  <2> SUFFICES ASSUME NEW n \in DOMAIN tree
               PROVE  tree'[n].type = tree[n].type /\ tree'[n].image = tree[n].image
    OBVIOUS
  <2>1. tree'[n] = IF parent = Node(n) THEN Changed(n, Last(path)) ELSE tree[n] BY MadeTree
  <2>2. Changed(n, Last(path)).type = tree[n].type /\ Changed(n, Last(path)).image = tree[n].image
    BY DEF Changed
  <2> QED BY <2>1, <2>2
<1>3. \A n \in DOMAIN tree : parent # Node(n) => tree'[n].entries = tree[n].entries
  BY MadeTree
<1>4. Fresh.type = "file" /\ Fresh.entries = <<>> /\ Fresh.image = FALSE BY DEF Fresh
<1>5. /\ p \in Proc /\ path \in Path /\ s \in BOOLEAN /\ Find(p, path, s) = NoEntry
      /\ Find(p, PathName(path), s) = parent
  BY DEF Makes
<1>6. ASSUME NEW n \in DOMAIN tree, tree[n].type \in Directories PROVE OfDirectory(n)
  <2>1. /\ tree[n].image
        /\ \A i \in DOMAIN tree[n].entries :
             tree[n].entries[i][1] = Dot => tree[n].entries[i][2] = Node(n)
    BY <1>6 DEF DotsLead
  <2>2. PICK d \in DOMAIN tree[n].entries : tree[n].entries[d][1] = Dot BY <1>6 DEF DotsLead
  <2>3. CASE parent # Node(n) BY <1>2, <1>3, <2>1, <2>2, <2>3
  <2>4. CASE parent = Node(n)
    <3>1. Last(path) # Dot BY <1>5, <1>6, <2>2, <2>4, DotNotReplaced
    <3>2. PICK old, new : old = tree[n].entries /\ new = tree'[n].entries OBVIOUS
    <3>3. /\ \A i \in DOMAIN old : i \in DOMAIN new /\ (old[i][1] # Last(path) => new[i] = old[i])
          /\ \A i \in DOMAIN new : \/ new[i] = <<Last(path), Node(Numbered)>>
                                   \/ i \in DOMAIN old /\ new[i] = old[i]
      BY <2>4, <3>2, MadeEntries
    <3>4. d \in DOMAIN new /\ new[d][1] = Dot BY <2>2, <3>1, <3>2, <3>3
    <3>5. \A i \in DOMAIN new : new[i][1] = Dot => i \in DOMAIN old /\ new[i] = old[i]
      BY <3>1, <3>3
    <3>6. \A i \in DOMAIN new : new[i][1] = Dot => new[i][2] = Node(n)
      BY <2>1, <3>2, <3>5
    <3> QED BY <1>2, <2>1, <3>2, <3>4, <3>6
  <2> QED BY <2>3, <2>4
<1>7. ASSUME NEW n \in DOMAIN tree PROVE OfDirectory(n)
  <2>1. CASE tree[n].type \in Directories BY <1>6, <2>1
  <2>2. CASE tree[n].type \notin Directories BY <1>2, <2>2
  <2> QED BY <2>1, <2>2
<1>8. ASSUME NEW n \in DOMAIN tree, ~tree[n].image PROVE OfMade(n)
  <2>1. /\ tree[n].type = "file"
        /\ \A i \in DOMAIN tree[n].entries : \E m \in DOMAIN tree :
             ~tree[m].image /\ tree[n].entries[i][2] = Node(m)
    BY <1>8 DEF DotsLead
  <2>2. \A i \in DOMAIN tree[n].entries : \E m \in DOMAIN tree' :
          ~tree'[m].image /\ tree[n].entries[i][2] = Node(m)
    BY <1>1, <1>2, <2>1
  <2>3. CASE parent # Node(n)
    <3> HIDE DEF OfDirectory
    <3> QED BY <1>2, <1>3, <2>1, <2>2, <2>3
  <2>4. CASE parent = Node(n)
    <3>1. \A i \in DOMAIN tree'[n].entries :
            \/ tree'[n].entries[i] = <<Last(path), Node(Numbered)>>
            \/ i \in DOMAIN tree[n].entries /\ tree'[n].entries[i] = tree[n].entries[i]
      BY <2>4, MadeEntries
    <3>2. ~tree'[Numbered].image BY <1>1, <1>4
    <3>3. \A i \in DOMAIN tree'[n].entries : \E m \in DOMAIN tree' :
            ~tree'[m].image /\ tree'[n].entries[i][2] = Node(m)
      <4> SUFFICES ASSUME NEW i \in DOMAIN tree'[n].entries
                   PROVE  \E m \in DOMAIN tree' :
                            ~tree'[m].image /\ tree'[n].entries[i][2] = Node(m)
        OBVIOUS
      <4>1. CASE tree'[n].entries[i] = <<Last(path), Node(Numbered)>>
        <5>1. tree'[n].entries[i][2] = Node(Numbered) BY <4>1
        <5> QED BY <1>1, <3>2, <5>1
      <4>2. CASE i \in DOMAIN tree[n].entries /\ tree'[n].entries[i] = tree[n].entries[i]
        BY <2>2, <4>2
      <4> QED BY <3>1, <4>1, <4>2
    <3> HIDE DEF OfDirectory
    <3> QED BY <1>2, <2>1, <3>3
  <2> QED BY <2>3, <2>4
<1>9. ASSUME NEW n \in DOMAIN tree PROVE OfMade(n)
  <2> HIDE DEF OfDirectory
  <2>1. CASE ~tree[n].image BY <1>8, <2>1
  <2>2. CASE tree[n].image BY <1>2, <2>2
  <2> QED BY <2>1, <2>2
<1>10. OfDirectory(Numbered) /\ OfMade(Numbered) BY <1>1, <1>4 DEF Directories
<1>11. DotsLead'
  <2> HIDE DEF OfDirectory, OfMade
  <2>1. \A n \in DOMAIN tree' : OfDirectory(n) /\ OfMade(n) BY <1>1, <1>7, <1>9, <1>10
  <2> USE DEF OfDirectory, OfMade
  <2> QED BY <2>1 DEF DotsLead
<1>12. Booted'
  <2>1. 1 \in DOMAIN tree /\ tree[1].type \in Directories BY DEF TypeOK, Booted
  <2>2. tree' # <<>> BY <1>1
  <2> QED BY <1>2, <2>1, <2>2 DEF Booted
<1> QED BY <1>11, <1>12

(* Entries are kept, but for those that Replaced allows.                   *)
LEMMA MadeKeeps ==
  ASSUME TypeOK, DotsLead, tree # <<>>,
         NEW p, NEW path, NEW s, NEW parent, Makes(p, path, s, parent)
  PROVE  KeepsEntries
<1> SUFFICES ASSUME NEW n \in DOMAIN tree, NEW i \in DOMAIN tree[n].entries,
                    tree[n].type \in Directories, tree'[n].entries[i] # tree[n].entries[i]
             PROVE  \/ IsLink(tree[n].entries[i][2]) \/ tree[n].entries[i][1] = Empty
                    \/ \E q \in Proc : /\ Find(q, <<Empty, tree[n].entries[i][1]>>, FALSE) = NoEntry
                                       /\ Led(Graph(q), cwd[q], FALSE) = Node(n)
  BY DEF KeepsEntries, KeepsEntry
<1>1. parent = Node(n) BY MadeTree
<1>2. tree[n].entries[i][1] = Last(path) BY <1>1, MadeEntries
<1>3. /\ p \in Proc /\ path \in Path /\ s \in BOOLEAN /\ Find(p, path, s) = NoEntry
      /\ Find(p, PathName(path), s) = parent
  BY DEF Makes
<1>4. \/ IsLink(tree[n].entries[i][2]) \/ tree[n].entries[i][1] = Empty
      \/ /\ Find(p, <<Empty, tree[n].entries[i][1]>>, FALSE) = NoEntry
         /\ Led(Graph(p), cwd[p], FALSE) = Node(n)
  <2>1. Find(p, PathName(path), s) = Node(n) BY <1>1, <1>3
  <2>2. PICK q \in Proc, names \in Path, t \in BOOLEAN : q = p /\ names = path /\ t = s BY <1>3
  <2>3. /\ Find(q, names, t) = NoEntry /\ Find(q, PathName(names), t) = Node(n)
        /\ tree[n].entries[i][1] = Last(names)
    BY <1>2, <1>3, <2>1, <2>2
  <2> QED BY <2>2, <2>3, Replaced
<1> QED BY <1>3, <1>4
-----------------------------------------------------------------------------
(* Listing a directory.                                                    *)
ListedSoFar(l) ==
  ~l.changed =>
    /\ ToSet(l.got) \subseteq ToSet(SubSeq(l.keys, 1, l.pos)) /\ InOrder(l)
    /\ ~l.short => l.got = SubSeq(l.keys, 1, l.pos)
GoodListing(l) ==
  /\ OneToOne(l.keys)
  /\ ~l.changed => l.pos <= Len(l.keys)
  /\ ListedSoFar(l)

LEMMA FirstKeys ==
  ASSUME NEW keys \in Seq(Name), NEW m \in 0..Len(keys)
  PROVE  /\ SubSeq(keys, 1, m) \in Seq(Name) /\ Len(SubSeq(keys, 1, m)) = m
         /\ DOMAIN SubSeq(keys, 1, m) = 1..m /\ DOMAIN keys = 1..Len(keys) /\ Len(keys) \in Nat
         /\ \A i \in 1..m : i \in DOMAIN keys /\ SubSeq(keys, 1, m)[i] = keys[i]
<1>1. PICK k \in Nat : k = Len(keys) /\ DOMAIN keys = 1..k OBVIOUS
<1>2. m \in Nat /\ 1 \in Int /\ m \in Int /\ m - 1 + 1 = m BY <1>1
<1>3. \A i \in 1..m : i \in 1..k /\ keys[i] \in Name /\ 1 + i - 1 = i
  BY <1>1, <1>2, ElementOfSeq
<1>4. PICK s : s = SubSeq(keys, 1, m) OBVIOUS
<1>5. /\ s \in Seq(Name) /\ Len(s) = IF 1 <= m THEN m - 1 + 1 ELSE 0
      /\ \A i \in 1..(m - 1 + 1) : s[i] = keys[1 + i - 1]
  BY <1>2, <1>3, <1>4, SubSeqProperties
<1>6. Len(s) = m BY <1>2, <1>5
<1>7. \A i \in 1..m : s[i] = keys[i] BY <1>2, <1>3, <1>5
<1> QED BY <1>1, <1>3, <1>4, <1>5, <1>6, <1>7, LenProperties

LEMMA AmongKeys ==
  ASSUME NEW keys \in Seq(Name), NEW m \in 0..Len(keys), NEW got
  PROVE  ToSet(got) \subseteq ToSet(SubSeq(keys, 1, m))
           <=> \A i \in DOMAIN got : \E a \in 1..m : got[i] = keys[a]
<1>1. ToSet(SubSeq(keys, 1, m)) = {keys[a] : a \in 1..m}
  <2>1. PICK s : s = SubSeq(keys, 1, m) OBVIOUS
  <2>2. DOMAIN s = 1..m /\ \A i \in 1..m : s[i] = keys[i] BY <2>1, FirstKeys
  <2> QED BY <2>1, <2>2 DEF ToSet
<1> QED BY <1>1 DEF ToSet

(* What a call gives: the keys from its position on, as many as fit.       *)
LEMMA GivenKeys ==
  ASSUME NEW keys \in Seq(Name), NEW pos \in Nat, NEW room
  PROVE  LET left == SubSeq(keys, pos + 1, Len(keys))
             given == Given(left, room)
         IN /\ left \in Seq(Name) /\ given \in Seq(Name) /\ PassedOver(given, left) \in Nat
            /\ pos <= Len(keys) =>
                 /\ Len(left) = Len(keys) - pos /\ Len(given) \in 0..Len(left)
                 /\ \A i \in 1..Len(given) : pos + i \in 1..Len(keys) /\ given[i] = keys[pos + i]
<1>1. PICK k \in Nat : k = Len(keys) /\ DOMAIN keys = 1..k OBVIOUS
<1>2. PICK left : left = SubSeq(keys, pos + 1, k) OBVIOUS
<1>3. \A i \in pos + 1..k : keys[i] \in Name
  <2>1. \A i \in pos + 1..k : i \in 1..k BY <1>1
  <2> QED BY <1>1, <2>1, ElementOfSeq
<1>4. /\ left \in Seq(Name) /\ Len(left) = IF pos + 1 <= k THEN k - (pos + 1) + 1 ELSE 0
      /\ \A i \in 1..(k - (pos + 1) + 1) : left[i] = keys[(pos + 1) + i - 1]
  <2>1. pos + 1 \in Int /\ k \in Int OBVIOUS
  <2> QED BY <1>2, <1>3, <2>1, SubSeqProperties
<1>5. PICK given : given = Given(left, room) OBVIOUS
<1>6. PICK n \in 0..Len(left) : given = SubSeq(left, 1, n) BY <1>4, <1>5, GivenFirst
<1>7. given \in Seq(Name) /\ Len(given) = n /\ \A i \in 1..n : given[i] = left[i]
  BY <1>4, <1>6, FirstKeys
<1>8. PassedOver(given, left) \in Nat
  <2>1. n \in Nat BY <1>4, <1>6
  <2> QED BY <1>7, <2>1 DEF PassedOver
<1>9. ASSUME pos <= k
      PROVE /\ Len(left) = k - pos
            /\ \A i \in 1..n : pos + i \in 1..k /\ given[i] = keys[pos + i]
  <2>1. Len(left) = k - pos BY <1>4, <1>9
  <2>2. \A i \in 1..n : i \in 1..(k - (pos + 1) + 1) /\ (pos + 1) + i - 1 = pos + i /\ pos + i \in 1..k
    BY <1>6, <1>9, <2>1
  <2> QED BY <1>4, <1>7, <2>1, <2>2
<1> QED BY <1>1, <1>2, <1>4, <1>5, <1>6, <1>7, <1>8, <1>9

(* A call of getdents goes on in order with the keys at its position.      *)
LEMMA CallKeepsListing ==
  ASSUME NEW l, l.keys \in Seq(Name), l.got \in Seq(Name), l.pos \in Nat, l.short \in BOOLEAN,
         l.changed \in BOOLEAN, GoodListing(l), NEW keys \in Seq(Name), NEW room
  PROVE  LET next == AfterCall(l, keys, room)
         IN /\ next = [dir |-> l.dir, keys |-> l.keys, pos |-> next.pos, got |-> next.got,
                       short |-> next.short, changed |-> next.changed]
            /\ next.pos \in Nat /\ next.got \in Seq(Name) /\ next.short \in BOOLEAN
            /\ next.changed \in BOOLEAN /\ GoodListing(next)
<1>1. PICK left, given : left = SubSeq(keys, l.pos + 1, Len(keys)) /\ given = Given(left, room)
  OBVIOUS
<1>2. PICK short \in BOOLEAN : short <=> Len(given) < Len(left) OBVIOUS
<1>3. PICK next : next = AfterCall(l, keys, room) OBVIOUS
<1>4. /\ left \in Seq(Name) /\ given \in Seq(Name) /\ PassedOver(given, left) \in Nat
      /\ l.pos <= Len(keys) =>
           /\ Len(left) = Len(keys) - l.pos /\ Len(given) \in 0..Len(left)
           /\ \A i \in 1..Len(given) : l.pos + i \in 1..Len(keys) /\ given[i] = keys[l.pos + i]
  <2>1. PICK from \in Nat : from = l.pos OBVIOUS
  <2>2. LET rest == SubSeq(keys, from + 1, Len(keys))
            some == Given(rest, room)
        IN /\ rest \in Seq(Name) /\ some \in Seq(Name) /\ PassedOver(some, rest) \in Nat
           /\ from <= Len(keys) =>
                /\ Len(rest) = Len(keys) - from /\ Len(some) \in 0..Len(rest)
                /\ \A i \in 1..Len(some) : from + i \in 1..Len(keys) /\ some[i] = keys[from + i]
    BY GivenKeys
  <2> QED BY <1>1, <2>1, <2>2
<1>5. PICK got : got = IF short /\ Taken(given) = room THEN l.got ELSE l.got \o given OBVIOUS
<1>6. next = [dir |-> l.dir, keys |-> l.keys, pos |-> l.pos + PassedOver(given, left), got |-> got,
              short |-> l.short \/ short, changed |-> l.changed \/ keys # l.keys]
  BY <1>1, <1>2, <1>3, <1>5 DEF AfterCall
<1>7. got \in Seq(Name) BY <1>4, <1>5
<1>8. PICK pos \in Nat : pos = l.pos + PassedOver(given, left) BY <1>4
<1>9. /\ next.dir = l.dir /\ next.keys = l.keys /\ next.pos = pos /\ next.got = got
      /\ next.short = (l.short \/ short) /\ next.changed = (l.changed \/ keys # l.keys)
  BY <1>6, <1>8
<1>10. ASSUME ~l.changed, keys = l.keys
       PROVE  /\ pos <= Len(keys) /\ InOrder(next)
              /\ ToSet(got) \subseteq ToSet(SubSeq(keys, 1, pos))
              /\ ~l.short /\ ~short => got = SubSeq(keys, 1, pos)
  <2>1. PICK k \in Nat, n \in Nat, m \in Nat :
          k = Len(keys) /\ n = Len(given) /\ m = l.pos /\ m <= k /\ DOMAIN keys = 1..k
    BY <1>4, <1>10 DEF GoodListing
  <2>2. /\ Len(left) = k - m /\ n <= k - m
        /\ \A i \in 1..n : m + i \in 1..k /\ given[i] = keys[m + i]
    BY <1>4, <2>1
  <2>3. pos = IF n < k - m THEN m + n + 1 ELSE m + n
    BY <1>4, <1>8, <2>1, <2>2 DEF PassedOver
  <2>4. pos <= k /\ m + n <= pos /\ m \in 0..k /\ pos \in 0..k BY <2>1, <2>2, <2>3
  <2>5. PICK h \in Nat : h = Len(l.got) /\ DOMAIN l.got = 1..h OBVIOUS
  <2>6. \A i \in 1..h : \E a \in 1..m : l.got[i] = keys[a]
    <3>1. ToSet(l.got) \subseteq ToSet(SubSeq(keys, 1, m))
      BY <1>10, <2>1 DEF GoodListing, ListedSoFar
    <3>2. PICK old : old = l.got OBVIOUS
    <3>4. m \in 0..Len(keys) BY <2>1
    <3>5. PICK s : s = SubSeq(keys, 1, m) OBVIOUS
    <3>6. DOMAIN s = 1..m /\ \A i \in 1..m : s[i] = keys[i] BY <3>4, <3>5, FirstKeys
    <3>7. ToSet(old) \subseteq ToSet(s) BY <3>1, <3>2, <3>5
    <3>3. \A i \in DOMAIN old : \E a \in 1..m : old[i] = keys[a]
      <4> SUFFICES ASSUME NEW i \in DOMAIN old PROVE \E a \in 1..m : old[i] = keys[a] OBVIOUS
      <4>1. old[i] \in ToSet(old) BY DEF ToSet
      <4>2. old[i] \in ToSet(s) BY <3>7, <4>1
      <4>3. PICK a \in DOMAIN s : old[i] = s[a] BY <4>2 DEF ToSet
      <4> QED BY <3>6, <4>3
    <3> QED BY <2>5, <3>2, <3>3
  <2>7. /\ Len(l.got \o given) = h + n /\ DOMAIN (l.got \o given) = 1..(h + n)
        /\ \A i \in 1..(h + n) : (l.got \o given)[i] = IF i <= h THEN l.got[i] ELSE given[i - h]
    <3>1. /\ l.got \o given \in Seq(Name) /\ Len(l.got \o given) = h + n
          /\ \A i \in 1..(h + n) : (l.got \o given)[i] = IF i <= h THEN l.got[i] ELSE given[i - h]
      BY <1>4, <2>1, <2>5, ConcatProperties
    <3> QED BY <3>1, LenProperties
  (* each name that was got is a key at a place of its own                 *)
  <2>8. \A i \in DOMAIN got :
          \/ i \in 1..h /\ got[i] = l.got[i]
          \/ i - h \in 1..n /\ got[i] = keys[m + (i - h)] /\ i \notin 1..h
    <3> SUFFICES ASSUME NEW i \in DOMAIN got
                 PROVE  \/ i \in 1..h /\ got[i] = l.got[i]
                        \/ i - h \in 1..n /\ got[i] = keys[m + (i - h)] /\ i \notin 1..h
      OBVIOUS
    <3>1. CASE got = l.got BY <2>5, <3>1
    <3>2. CASE got = l.got \o given
      <4>1. i \in 1..(h + n) BY <2>7, <3>2
      <4>2. got[i] = IF i <= h THEN l.got[i] ELSE given[i - h] BY <2>7, <3>2, <4>1
      <4>3. CASE i <= h
        <5>1. i \in 1..h BY <4>1, <4>3
        <5> QED BY <4>2, <4>3, <5>1
      <4>4. CASE ~(i <= h)
        <5>1. i - h \in 1..n /\ i \notin 1..h BY <4>1, <4>4
        <5> QED BY <2>2, <4>2, <4>4, <5>1
      <4> QED BY <4>3, <4>4
    <3> QED BY <1>5, <3>1, <3>2
  <2>9. ToSet(got) \subseteq ToSet(SubSeq(keys, 1, pos))
    <3>1. \A a \in 1..m : a \in 1..pos BY <2>1, <2>4
    <3>2. \A j \in 1..n : m + j \in 1..pos BY <2>1, <2>4
    <3>3. \A i \in DOMAIN got : \E a \in 1..pos : got[i] = keys[a]
      BY <2>6, <2>8, <3>1, <3>2
    <3> QED BY <2>1, <2>4, <3>3, AmongKeys
  <2>10. InOrder(next)
    <3> SUFFICES ASSUME NEW i \in DOMAIN got, NEW j \in DOMAIN got, NEW a \in 1..k, NEW b \in 1..k,
                        i < j, got[i] = keys[a], got[j] = keys[b]
                 PROVE  a < b
      BY <1>9, <1>10, <2>1 DEF InOrder
    <3>1. \A c, d \in 1..k : keys[c] = keys[d] => c = d
      BY <1>10, <2>1 DEF GoodListing, OneToOne
    <3>2. CASE i \in 1..h /\ j \in 1..h
      <4>1. got[i] = l.got[i] /\ got[j] = l.got[j] BY <2>1, <2>5, <2>8, <3>2
      <4>2. \A c, d \in DOMAIN l.keys : l.got[i] = l.keys[c] /\ l.got[j] = l.keys[d] => c < d
        BY <1>10, <2>5, <3>2 DEF GoodListing, ListedSoFar, InOrder
      <4> QED BY <1>10, <2>1, <4>1, <4>2
    <3>3. CASE i \in 1..h /\ j \notin 1..h
      <4>1. PICK c \in 1..m : got[i] = keys[c] BY <2>6, <2>8, <3>3
      <4>2. c \in 1..k BY <2>1
      <4>6. a = c BY <3>1, <4>1, <4>2
      <4>3. j - h \in 1..n /\ got[j] = keys[m + (j - h)] BY <2>8, <3>3
      <4>4. b = m + (j - h) BY <2>2, <3>1, <4>3
      <4>5. PICK d \in 1..n : d = j - h BY <4>3
      <4> QED BY <2>1, <4>4, <4>5, <4>6
    <3>4. CASE i \notin 1..h
      <4>1. i - h \in 1..n /\ got[i] = keys[m + (i - h)] BY <2>8, <3>4
      <4>2. i \in Nat /\ j \in Nat BY <1>7, LenProperties
      <4>3. j \notin 1..h BY <2>1, <2>5, <3>4, <4>1, <4>2
      <4>4. PICK d \in 1..n : d = j - h /\ got[j] = keys[m + d] BY <2>8, <4>3
      <4>5. PICK c \in 1..n : c = i - h /\ got[i] = keys[m + c] BY <4>1
      <4>6. m + c \in 1..k /\ m + d \in 1..k BY <2>2
      <4>7. a = m + c BY <3>1, <4>5, <4>6
      <4>8. b = m + d BY <3>1, <4>4, <4>6
      <4>9. c < d BY <2>5, <4>2, <4>4, <4>5
      <4> QED BY <2>1, <4>7, <4>8, <4>9
    <3> QED BY <3>2, <3>3, <3>4
  <2>11. ASSUME ~l.short, ~short PROVE got = SubSeq(keys, 1, pos)
    <3>1. n = k - m BY <1>2, <2>1, <2>2, <2>11
    <3>2. pos = k /\ m + n = k BY <2>1, <2>3, <3>1
    <3>3. got = l.got \o given BY <1>5, <2>11
    <3>4. l.got = SubSeq(keys, 1, m)
      BY <1>10, <2>1, <2>11 DEF GoodListing, ListedSoFar
    <3>5. h = m /\ \A i \in 1..m : l.got[i] = keys[i] BY <2>1, <2>4, <2>5, <3>4, FirstKeys
    <3>6. Len(got) = k BY <2>7, <3>2, <3>3, <3>5
    <3>7. \A i \in 1..k : got[i] = keys[i]
      <4> SUFFICES ASSUME NEW i \in 1..k PROVE got[i] = keys[i] OBVIOUS
      <4>1. i \in 1..(h + n) BY <3>2, <3>5
      <4>2. i \in DOMAIN got BY <2>7, <3>3, <4>1
      <4>3. m + (i - m) = i BY <2>1
      <4> QED BY <2>8, <3>5, <4>2, <4>3
    <3>8. got = keys BY <1>7, <2>1, <3>6, <3>7, SeqEqual
    <3>9. SubSeq(keys, 1, pos) = keys BY <2>1, <3>2, SubSeqFull
    <3> QED BY <3>8, <3>9
  <2> QED BY <2>1, <2>4, <2>9, <2>10, <2>11
<1>11. GoodListing(next)
  <2>1. CASE l.changed \/ keys # l.keys
    BY <1>9, <2>1 DEF GoodListing, ListedSoFar
  <2>2. CASE ~l.changed /\ keys = l.keys
    BY <1>9, <1>10, <2>2 DEF GoodListing, ListedSoFar
  <2> QED BY <2>1, <2>2
<1>12. next = [dir |-> l.dir, keys |-> l.keys, pos |-> next.pos, got |-> next.got,
               short |-> next.short, changed |-> next.changed]
  BY <1>6
<1>13. next.short \in BOOLEAN /\ next.changed \in BOOLEAN BY <1>9
<1> QED BY <1>3, <1>7, <1>8, <1>9, <1>11, <1>12, <1>13

NamesOf(entries) == [i \in DOMAIN entries |-> entries[i][1]]

(* The keys of an object are its names, each once.                         *)
LEMMA NamesOfEntries ==
  ASSUME NEW S, NEW P, \A e \in P : e[1] \in S, NEW entries \in Seq(P), Distinct(entries)
  PROVE  NamesOf(entries) \in Seq(S) /\ OneToOne(NamesOf(entries))
<1>1. PICK n \in Nat : n = Len(entries) /\ DOMAIN entries = 1..n BY LenProperties
<1>2. \A i \in 1..n : entries[i] \in P BY <1>1, ElementOfSeq
<1>3. PICK names : names = NamesOf(entries) /\ names = [i \in 1..n |-> entries[i][1]]
  BY <1>1 DEF NamesOf
<1>4. names \in [1..n -> S] BY <1>2, <1>3
<1>5. names \in Seq(S) BY <1>1, <1>4
<1>6. OneToOne(names) BY <1>1, <1>3 DEF OneToOne, Distinct
<1> QED BY <1>3, <1>5, <1>6

LEMMA NumbersFirstType ==
  ASSUME NEW names \in Seq(Name), OneToOne(names)
  PROVE  NumbersFirst(names) \in Seq(Name) /\ OneToOne(NumbersFirst(names))
<1>1. PICK a, b : /\ a = Kept(Numerals, ToSet(names))
                  /\ b = Kept(names, ToSet(names) \ ToSet(Numerals))
  OBVIOUS
<1>2. Numerals \in Seq(Name) /\ OneToOne(Numerals)
  <2>1. \A S : Seq(Name \ S) \subseteq Seq(Name) OBVIOUS
  <2> QED BY <2>1, PathsAssumption DEF OneToOne
<1>3. a \in Seq(Name) /\ Among(a, Numerals, Len(Numerals), ToSet(names)) /\ OneToOne(a)
  BY <1>1, <1>2, KeptElements
<1>4. b \in Seq(Name) /\ Among(b, names, Len(names), ToSet(names) \ ToSet(Numerals)) /\ OneToOne(b)
  BY <1>1, KeptElements
<1>5. \A i \in DOMAIN a : a[i] \in ToSet(Numerals)
  <2>1. \A j \in 1..Len(Numerals) : Numerals[j] \in ToSet(Numerals)
    BY <1>2, LenProperties DEF ToSet
  <2> QED BY <1>3, <2>1 DEF Among
<1>6. \A i \in DOMAIN b : b[i] \notin ToSet(Numerals) BY <1>4 DEF Among
<1>7. \A i \in DOMAIN a, j \in DOMAIN b : a[i] # b[j] BY <1>5, <1>6
<1>8. OneToOne(a \o b) BY <1>3, <1>4, <1>7, ConcatOneToOne
<1>9. NumbersFirst(names) = a \o b BY <1>1 DEF NumbersFirst
<1> QED BY <1>3, <1>4, <1>8, <1>9

LEMMA KeysType ==
  ASSUME TypeOK, tree # <<>>, NEW node \in Nodes, HasChildren(node)
  PROVE  Keys(node) \in Seq(Name) /\ OneToOne(Keys(node))
<1>1. PICK P : P = Name \X Nodes OBVIOUS
<1>2. \A e \in P : e[1] \in Name BY <1>1
<1>3. PICK entries \in Seq(P) : entries = Children(node) /\ Distinct(entries)
  BY <1>1, ChildrenType
<1>4. PICK names : names = NamesOf(entries) OBVIOUS
<1>5. names \in Seq(Name) /\ OneToOne(names) BY <1>2, <1>3, <1>4, NamesOfEntries
<1>6. Keys(node) = NumbersFirst(names) BY <1>3, <1>4 DEF Keys, NamesOf
<1> QED BY <1>5, <1>6, NumbersFirstType

-----------------------------------------------------------------------------
(* Boot makes a tree of an image.                                          *)
LEMMA NodesOfImage ==
  ASSUME NEW nodes, IsTree(nodes)
  PROVE  /\ Len(nodes) \in Nat /\ DOMAIN nodes = 1..Len(nodes)
         /\ 1 \in DOMAIN nodes /\ nodes[1].type \in Directories
         /\ \A n \in DOMAIN nodes :
              /\ nodes[n].type \in Types /\ ParentIn(nodes, n) \in DOMAIN nodes
              /\ nodes[n].type = "file" => nodes[n].bytes \in Seq(Nat)
              /\ nodes[n].type = "link" => nodes[n].target \in Path
              /\ nodes[n].type \in {"chr", "blk"} => nodes[n].rdev \in Nat
              /\ nodes[n].type \in Directories =>
                   /\ nodes[n].entries \in Seq((Name \ {Empty, Dot, DotDot}) \X DOMAIN nodes)
                   /\ Distinct(nodes[n].entries)
<1> DEFINE Lists(d, n) == \E i \in DOMAIN nodes[d].entries : nodes[d].entries[i][2] = n
           Dirs == {d \in DOMAIN nodes : nodes[d].type \in Directories}
<1>1. /\ Len(nodes) \in Nat /\ DOMAIN nodes = 1..Len(nodes) /\ 1 \in Dirs
      /\ \A n \in DOMAIN nodes :
           /\ nodes[n].type \in Types
           /\ nodes[n].type = "file" => nodes[n].bytes \in Seq(Nat)
           /\ nodes[n].type = "link" => nodes[n].target \in Path
           /\ nodes[n].type \in {"chr", "blk"} => nodes[n].rdev \in Nat
           /\ n # 1 => \E d \in Dirs : Lists(d, n)
      /\ \A d \in Dirs :
           /\ nodes[d].entries \in Seq((Name \ {Empty, Dot, DotDot}) \X DOMAIN nodes)
           /\ Distinct(nodes[d].entries)
  BY Zenon DEF IsTree
<1>2. ASSUME NEW n \in DOMAIN nodes PROVE ParentIn(nodes, n) \in DOMAIN nodes
  <2>1. CASE n = 1 BY <1>1, <2>1 DEF ParentIn
  <2>2. CASE n # 1
    <3>1. \E d \in DOMAIN nodes : nodes[d].type \in Directories /\ Lists(d, n) BY <1>1, <2>2
    <3>2. ParentIn(nodes, n) =
            CHOOSE d \in DOMAIN nodes : nodes[d].type \in Directories /\ Lists(d, n)
      BY <2>2 DEF ParentIn
    <3> HIDE DEF Lists
    <3> QED BY <3>1, <3>2
  <2> QED BY <2>1, <2>2
<1> QED BY <1>1, <1>2

OwnEntries(nodes, n) ==
  [i \in DOMAIN nodes[n].entries |-> <<nodes[n].entries[i][1], Node(nodes[n].entries[i][2])>>]
DotEntries(nodes, n) == <<<<Dot, Node(n)>>, <<DotDot, Node(ParentIn(nodes, n))>>>>

(* A directory of an image, with "." and ".." after its own entries.       *)
LEMMA DirectoryEntries ==
  ASSUME NEW nodes, IsTree(nodes), NEW n \in DOMAIN nodes, nodes[n].type \in Directories,
         NEW all, \A m \in DOMAIN nodes : Node(m) \in all
  PROVE  LET e == OwnEntries(nodes, n) \o DotEntries(nodes, n)
         IN /\ e \in Seq(Name \X all) /\ Distinct(e)
            /\ \E i \in DOMAIN e : e[i][1] = Dot
            /\ \A i \in DOMAIN e : e[i][1] = Dot => e[i][2] = Node(n)
<1> DEFINE N == Name \ {Empty, Dot, DotDot}
           P == N \X DOMAIN nodes
           S == Name \X all
<1>1. PICK stored \in Seq(P) : stored = nodes[n].entries /\ Distinct(stored)
  BY NodesOfImage
<1>2. PICK k \in Nat : k = Len(stored) /\ DOMAIN stored = 1..k BY <1>1, LenProperties
<1>3. \A i \in 1..k : stored[i] \in P
  <2> HIDE DEF P
  <2> QED BY <1>2, ElementOfSeq
<1>4. \A i \in 1..k : stored[i][1] \in N /\ stored[i][2] \in DOMAIN nodes BY <1>3
<1>5. PICK own : own = [i \in 1..k |-> <<stored[i][1], Node(stored[i][2])>>] OBVIOUS
<1>6. OwnEntries(nodes, n) = own BY <1>1, <1>2, <1>5 DEF OwnEntries
<1>7. \A i \in 1..k : own[i] \in S /\ own[i][1] \in N /\ own[i][1] = stored[i][1]
  BY <1>4, <1>5
<1>8. own \in Seq(S)
  <2> HIDE DEF S
  <2>1. own \in [1..k -> S] BY <1>5, <1>7
  <2> QED BY <2>1
<1>9. PICK dots : dots = DotEntries(nodes, n) OBVIOUS
<1>10. PICK parent \in DOMAIN nodes : parent = ParentIn(nodes, n) BY NodesOfImage
<1>11. dots = <<<<Dot, Node(n)>>, <<DotDot, Node(parent)>>>> BY <1>9, <1>10 DEF DotEntries
<1>12. dots \in Seq(S) /\ Len(dots) = 2 /\ dots[1] = <<Dot, Node(n)>> /\ dots[2] = <<DotDot, Node(parent)>>
  <2>1. <<Dot, Node(n)>> \in S /\ <<DotDot, Node(parent)>> \in S BY NamesOfProc
  <2> HIDE DEF S
  <2> QED BY <1>11, <2>1
<1>13. PICK e : e = own \o dots OBVIOUS
<1>14. /\ e \in Seq(S) /\ DOMAIN e = 1..(k + 2)
       /\ \A i \in 1..(k + 2) : e[i] = IF i <= k THEN own[i] ELSE dots[i - k]
  <2> HIDE DEF S
  <2>1. Len(own) = k BY <1>2, <1>5, <1>8, LenProperties
  <2>2. /\ e \in Seq(S) /\ Len(e) = k + 2
        /\ \A i \in 1..(k + 2) : e[i] = IF i <= k THEN own[i] ELSE dots[i - k]
    <3>1. Len(own) + Len(dots) = k + 2 BY <1>12, <2>1
    <3>2. /\ e \in Seq(S) /\ Len(e) = Len(own) + Len(dots)
          /\ \A i \in 1..(Len(own) + Len(dots)) :
               e[i] = IF i <= Len(own) THEN own[i] ELSE dots[i - Len(own)]
      BY <1>8, <1>12, <1>13, ConcatProperties
    <3> QED BY <2>1, <3>1, <3>2
  <2> QED BY <2>2, LenProperties
<1> HIDE DEF S, P
<1>15. \A i \in 1..(k + 2) : (i \in 1..k /\ i <= k) \/ i = k + 1 \/ i = k + 2 BY <1>2
<1>16. /\ k + 1 \in 1..(k + 2) /\ k + 2 \in 1..(k + 2) /\ ~(k + 1 <= k) /\ ~(k + 2 <= k)
       /\ (k + 1) - k = 1 /\ (k + 2) - k = 2 /\ k + 1 # k + 2
       /\ \A i \in 1..k : i <= k /\ i \in 1..(k + 2)
  BY <1>2
<1>17. /\ e[k + 1] = <<Dot, Node(n)>> /\ e[k + 2] = <<DotDot, Node(parent)>>
       /\ \A i \in 1..k : e[i] = own[i]
  BY <1>12, <1>14, <1>16
<1>18. /\ e[k + 1][1] = Dot /\ e[k + 1][2] = Node(n) /\ e[k + 2][1] = DotDot
       /\ \A i \in 1..k : e[i][1] = stored[i][1] /\ e[i][1] \in N
  BY <1>7, <1>17
<1>19. Distinct(e)
  <2>1. \A i, j \in 1..k : e[i][1] = e[j][1] => i = j BY <1>1, <1>2, <1>18 DEF Distinct
  <2> QED BY <1>14, <1>15, <1>18, <2>1, NamesOfProc DEF Distinct
<1>20. \A i \in DOMAIN e : e[i][1] = Dot => e[i][2] = Node(n)
  BY <1>14, <1>15, <1>18, NamesOfProc
<1>21. \E i \in DOMAIN e : e[i][1] = Dot BY <1>14, <1>16, <1>18
<1>22. e = OwnEntries(nodes, n) \o DotEntries(nodes, n) BY <1>6, <1>9, <1>13
<1> QED BY <1>14, <1>19, <1>20, <1>21, <1>22 DEF S

(* What Boot makes of an image satisfies the invariant, procfs mounted.    *)
LEMMA MountedTree ==
  ASSUME NEW nodes, IsTree(nodes), tree' = Mounted(nodes)
  PROVE  TreeOK' /\ DotsLead' /\ tree' # <<>> /\ tree'[1].type \in Directories
<1>1. PICK N \in Nat : N = Len(nodes) /\ DOMAIN nodes = 1..N /\ 1 \in 1..N BY NodesOfImage
<1>2. PICK new : new = Mounted(nodes) OBVIOUS
<1> DEFINE Own(n) == IF nodes[n].type \in Directories
                     THEN OwnEntries(nodes, n) \o DotEntries(nodes, n) ELSE <<>>
           Data(n) == CASE nodes[n].type = "file" -> nodes[n].bytes
                        [] nodes[n].type \in {"chr", "blk"} -> <<nodes[n].rdev>>
                        [] OTHER -> <<>>
           New(n) == [type |-> nodes[n].type, image |-> TRUE,
                      target |-> IF nodes[n].type = "link" THEN nodes[n].target ELSE <<>>,
                      data |-> Data(n),
                      entries |-> IF n = 1 THEN Stored(Own(n), ProcName, <<"proc", 0>>) ELSE Own(n)]
<1>3. new = [n \in 1..N |-> New(n)] BY <1>1, <1>2 DEF Mounted, OwnEntries, DotEntries
<1>4. PICK all : all = {Node(n) : n \in 1..N} \cup {<<"proc", 0>>} OBVIOUS
<1>5. all \subseteq Nodes'
  <2>1. tree' = new /\ DOMAIN new = 1..N BY <1>2, <1>3
  <2>2. 0 \in 0..MaxProc BY PathsAssumption
  <2>3. {Node(n) : n \in DOMAIN tree'} \subseteq Nodes' /\ <<"proc", 0>> \in Nodes' BY <2>2 DEF Nodes
  <2> QED BY <1>4, <2>1, <2>3
<1> DEFINE S == Name \X all
<1>6. ASSUME NEW n \in 1..N
      PROVE  /\ Own(n) \in Seq(S) /\ Distinct(Own(n))
             /\ nodes[n].type \in Directories => \E i \in DOMAIN Own(n) : Own(n)[i][1] = Dot
             /\ \A i \in DOMAIN Own(n) : Own(n)[i][1] = Dot => Own(n)[i][2] = Node(n)
  <2>1. CASE nodes[n].type \in Directories
    <3>1. PICK e : e = OwnEntries(nodes, n) \o DotEntries(nodes, n) OBVIOUS
    <3>2. \A m \in DOMAIN nodes : Node(m) \in all BY <1>1, <1>4
    <3>3. /\ e \in Seq(S) /\ Distinct(e) /\ \E i \in DOMAIN e : e[i][1] = Dot
          /\ \A i \in DOMAIN e : e[i][1] = Dot => e[i][2] = Node(n)
      BY <1>1, <2>1, <3>1, <3>2, DirectoryEntries
    <3>4. Own(n) = e BY <2>1, <3>1
    <3> QED BY <3>3, <3>4
  <2>2. CASE nodes[n].type \notin Directories
    <3>1. Own(n) = <<>> BY <2>2
    <3> QED BY <2>2, <3>1 DEF Distinct
  <2> QED BY <2>1, <2>2
<1>7. ASSUME NEW n \in 1..N
      PROVE  /\ New(n).entries \in Seq(S) /\ Distinct(New(n).entries)
             /\ nodes[n].type \in Directories => \E i \in DOMAIN New(n).entries : New(n).entries[i][1] = Dot
             /\ \A i \in DOMAIN New(n).entries :
                  New(n).entries[i][1] = Dot => New(n).entries[i][2] = Node(n)
  <2>1. CASE n # 1
    <3>1. New(n).entries = Own(n) BY <2>1
    <3> QED BY <1>6, <3>1
  <2>2. CASE n = 1
    <3>1. PICK own : own = Own(n) OBVIOUS
    <3>2. /\ own \in Seq(S) /\ Distinct(own)
          /\ nodes[n].type \in Directories => \E i \in DOMAIN own : own[i][1] = Dot
          /\ \A i \in DOMAIN own : own[i][1] = Dot => own[i][2] = Node(n)
      BY <1>6, <3>1
    <3>3. PICK e : e = Stored(own, ProcName, <<"proc", 0>>) OBVIOUS
    <3>4. <<ProcName, <<"proc", 0>>>> \in S BY <1>4, NamesOfProc
    <3> HIDE DEF S
    <3>5. /\ e \in Seq(S) /\ Distinct(e)
          /\ \A i \in DOMAIN own :
               /\ i \in DOMAIN e
               /\ e[i] = IF own[i][1] = ProcName THEN <<ProcName, <<"proc", 0>>>> ELSE own[i]
          /\ \A i \in DOMAIN e :
               e[i] = <<ProcName, <<"proc", 0>>>> \/ (i \in DOMAIN own /\ e[i] = own[i])
      BY <3>2, <3>3, <3>4, StoredEntries
    <3>6. New(n).entries = e BY <2>2, <3>1, <3>3
    <3>7. Dot # ProcName BY NamesOfProc
    <3>8. \A i \in DOMAIN own : own[i][1] = Dot => i \in DOMAIN e /\ e[i][1] = Dot
      BY <3>5, <3>7
    <3>9. nodes[n].type \in Directories => \E i \in DOMAIN e : e[i][1] = Dot BY <3>2, <3>8
    <3>10. <<ProcName, <<"proc", 0>>>>[1] = ProcName OBVIOUS
    <3>11. \A i \in DOMAIN e : e[i][1] = Dot => e[i][2] = Node(n)
      BY <3>2, <3>5, <3>7, <3>10
    <3> QED BY <3>5, <3>6, <3>9, <3>11
  <2> QED BY <2>1, <2>2
<1>8. ASSUME NEW n \in 1..N
      PROVE  /\ New(n).type \in Types /\ New(n).image \in BOOLEAN /\ New(n).target \in Seq(Name)
             /\ New(n).data \in Seq(Nat) /\ (New(n).type = "link" => New(n).target \in Path)
  <2>1. /\ nodes[n].type \in Types
        /\ nodes[n].type = "file" => nodes[n].bytes \in Seq(Nat)
        /\ nodes[n].type = "link" => nodes[n].target \in Path
        /\ nodes[n].type \in {"chr", "blk"} => nodes[n].rdev \in Nat
    BY <1>1, NodesOfImage
  <2>2. \A x \in Nat : <<x>> \in Seq(Nat) OBVIOUS
  <2>3. Path \subseteq Seq(Name) /\ <<>> \in Seq(Name) /\ <<>> \in Seq(Nat) BY DEF Path
  <2>4. Data(n) \in Seq(Nat)
    <3>1. CASE nodes[n].type = "file" BY <2>1, <3>1
    <3>2. CASE nodes[n].type \in {"chr", "blk"} BY <2>1, <2>2, <3>2
    <3>3. CASE nodes[n].type # "file" /\ nodes[n].type \notin {"chr", "blk"} BY <2>3, <3>3
    <3> QED BY <3>1, <3>2, <3>3
  <2>5. New(n).target = IF nodes[n].type = "link" THEN nodes[n].target ELSE <<>> OBVIOUS
  <2>6. New(n).type = nodes[n].type /\ New(n).image = TRUE /\ New(n).data = Data(n) OBVIOUS
  <2> HIDE DEF New, Data
  <2> QED BY <2>1, <2>3, <2>4, <2>5, <2>6
<1>9. \A n \in 1..N : /\ New(n) = [type |-> New(n).type, image |-> New(n).image, target |-> New(n).target,
                                   data |-> New(n).data, entries |-> New(n).entries]
                      /\ New(n).type = nodes[n].type /\ New(n).image = TRUE
  OBVIOUS
<1> HIDE DEF New, Own, Data
<1>10. /\ tree' = new /\ DOMAIN new = 1..N /\ new = [n \in 1..N |-> new[n]]
       /\ \A n \in 1..N : new[n] = New(n)
  BY <1>2, <1>3
<1>11. S \subseteq Name \X Nodes' /\ Seq(S) \subseteq Seq(Name \X Nodes')
  <2>1. S \subseteq Name \X Nodes' BY <1>5
  <2>2. PICK T : T = Name \X Nodes' OBVIOUS
  <2> HIDE DEF S
  <2> QED BY <2>1, <2>2
<1>12. \A n \in 1..N : New(n) \in TreeNode'
  <2>1. \A n \in 1..N : New(n).entries \in Seq(Name \X Nodes') BY <1>7, <1>11
  <2> HIDE DEF S
  <2> QED BY <1>8, <1>9, <2>1 DEF TreeNode
<1>13. tree' \in Seq(TreeNode')
  <2>1. PICK T : T = TreeNode' OBVIOUS
  <2>2. new \in [1..N -> T] BY <1>10, <1>12, <2>1
  <2> QED BY <1>10, <2>1, <2>2
<1>14. \A n \in 1..N : Distinct(New(n).entries) /\ (New(n).type = "link" => New(n).target \in Path)
  BY <1>7, <1>8
<1>15. TreeOK' BY <1>10, <1>13, <1>14 DEF TreeOK
<1>16. DotsLead' BY <1>7, <1>9, <1>10 DEF DotsLead
<1>17. tree' # <<>> /\ tree'[1].type \in Directories
  <2>1. nodes[1].type \in Directories BY NodesOfImage
  <2>2. tree'[1].type \in Directories BY <1>1, <1>9, <1>10, <2>1
  <2>3. DOMAIN <<>> = {} OBVIOUS
  <2>4. 1 \in DOMAIN tree' BY <1>1, <1>10
  <2> QED BY <2>2, <2>3, <2>4
<1> QED BY <1>15, <1>16, <1>17
-----------------------------------------------------------------------------
(* The working directory is always an absolute path.                       *)
LEMMA FirstStays ==
  ASSUME NEW s \in Seq(Name), NEW t \in Seq(Name), Len(s) >= 1
  PROVE  (s \o t)[1] = s[1] /\ s \o t \in Seq(Name) /\ Len(s \o t) = Len(s) + Len(t)
<1>1. Len(s) \in Nat /\ Len(t) \in Nat OBVIOUS
<1>2. 1 \in 1..(Len(s) + Len(t)) BY <1>1
<1> QED BY <1>2, ConcatProperties

LEMMA LengthOfPath ==
  ASSUME NEW S, NEW s \in Seq(S), s # <<>>
  PROVE  Len(s) \in Nat \ {0}
OBVIOUS

(* chdir makes an absolute path of two names or more.                      *)
LEMMA EnteredPath ==
  ASSUME NEW dir \in Path, Absolute(dir), Len(dir) >= 2, NEW path \in Path, path # <<Empty>>
  PROVE  Entered(dir, path) \in Path /\ Absolute(Entered(dir, path)) /\ Len(Entered(dir, path)) >= 2
<1> DEFINE Good(d) == d \in Path /\ Absolute(d) /\ Len(d) >= 2
<1>1. dir \in Seq(Name) /\ dir # <<>> /\ path \in Seq(Name) /\ path # <<>> BY DEF Path
<1>2. PICK f : f = Front(dir) OBVIOUS
<1>3. f \in Seq(Name) /\ Last(dir) \in Name /\ dir = f \o <<Last(dir)>> /\ Len(f) = Len(dir) - 1
  BY <1>1, <1>2, FrontLast
<1>4. Len(f) >= 1 /\ Len(f) \in Nat /\ Len(dir) \in Nat BY <1>1, <1>3
<1>5. f[1] = dir[1] BY <1>3, <1>4, FirstStays
<1>6. Absolute(f) BY <1>5 DEF Absolute
<1>7. f \in Path /\ \A s \in Seq(Name) : Len(s) >= 1 => s \in Path
  <2>1. \A s \in Seq(Name) : Len(s) >= 1 => s # <<>> OBVIOUS
  <2> QED BY <1>3, <1>4, <2>1 DEF Path
<1>8. Good(RootPath)
  <2>1. <<Empty, Empty>> \in Seq(Name) /\ Len(<<Empty, Empty>>) = 2 /\ <<Empty, Empty>>[1] = Empty
    BY NamesOfProc
  <2>2. PICK r : r = <<Empty, Empty>> OBVIOUS
  <2>3. r \in Seq(Name) /\ Len(r) = 2 /\ r[1] = Empty BY <2>1, <2>2
  <2>4. r \in Path BY <1>7, <2>3
  <2> QED BY <2>2, <2>3, <2>4 DEF RootPath, Absolute
<1>9. Good(Parent(dir))
  <2>1. CASE dir = RootPath \/ Len(dir) = 2 BY <1>8, <2>1 DEF Parent
  <2>2. CASE ~(dir = RootPath \/ Len(dir) = 2)
    <3>1. Parent(dir) = f BY <1>2, <2>2 DEF Parent
    <3>2. Len(f) >= 2 BY <1>3, <1>4, <2>2
    <3> QED BY <1>6, <1>7, <3>1, <3>2
  <2> QED BY <2>1, <2>2
<1>10. /\ Absolute(path) => path # <<Dot>> /\ path # <<DotDot>>
       /\ <<Dot>> # <<DotDot>>
  <2>1. <<Dot>>[1] = Dot /\ <<DotDot>>[1] = DotDot OBVIOUS
  <2> QED BY <2>1, NamesOfProc DEF Absolute
<1>11. CASE Absolute(path)
  <2>1. Len(path) # 1
    <3>1. ASSUME Len(path) = 1 PROVE path = <<Empty>>
      <4>1. path[1] = Empty BY <1>11 DEF Absolute
      <4> QED BY <1>1, <3>1, <4>1
    <3> QED BY <3>1
  <2>2. Len(path) \in Nat \ {0} BY <1>1, LengthOfPath
  <2>3. Len(path) >= 2
    <3>1. PICK n \in Nat : n = Len(path) /\ n # 0 BY <2>2
    <3> QED BY <2>1, <3>1
  <2>4. Entered(dir, path) = path BY <1>11, <1>10 DEF Entered
  <2> QED BY <1>11, <2>3, <2>4
<1>12. CASE ~Absolute(path)
  <2>1. CASE path = <<Dot>>
    <3>1. Entered(dir, path) = dir BY <1>12, <1>10, <2>1 DEF Entered
    <3> QED BY <3>1
  <2>2. CASE path = <<DotDot>>
    <3>1. path # <<Dot>> BY <1>10, <2>2
    <3>2. Entered(dir, path) = Parent(dir) BY <1>12, <2>2, <3>1 DEF Entered
    <3> QED BY <1>9, <3>2
  <2>3. CASE path # <<Dot>> /\ path # <<DotDot>>
    <3>1. PICK d : d = IF Last(dir) = Empty THEN f ELSE dir OBVIOUS
    <3>2. d \in Seq(Name) /\ Len(d) >= 1 /\ Len(d) \in Nat /\ d[1] = Empty
      BY <1>1, <1>3, <1>4, <1>6, <3>1 DEF Absolute
    <3>3. PICK e : e = d \o path OBVIOUS
    <3>4. e[1] = d[1] /\ e \in Seq(Name) /\ Len(e) = Len(d) + Len(path)
      BY <1>1, <3>2, <3>3, FirstStays
    <3>5. Len(path) \in Nat \ {0} BY <1>1, LengthOfPath
    <3>6. Len(e) >= 2 /\ Len(e) >= 1 BY <3>2, <3>4, <3>5
    <3>7. Entered(dir, path) = e BY <1>2, <1>12, <2>3, <3>1, <3>3 DEF Entered
    <3> QED BY <1>7, <3>2, <3>4, <3>6, <3>7 DEF Absolute
  <2> QED BY <2>1, <2>2, <2>3
<1> QED BY <1>11, <1>12
-----------------------------------------------------------------------------
(* Parts of the invariant, and the steps that disturb them.                *)
CwdOK ==
  cwd \in [Proc -> Path] /\ \A p \in Proc : Absolute(cwd[p]) /\ Len(cwd[p]) \in 2..MaxDepth
ListingOK == listing \in [Proc -> Listing] /\ \A p \in Proc : GoodListing(listing[p])
RestOK == nprocs \in Proc /\ exited \in [Proc -> BOOLEAN] /\ thrown \in BOOLEAN

LEMMA InvParts ==
  /\ Inv <=> TreeOK /\ DotsLead /\ Booted /\ CwdOK /\ ListingOK /\ RestOK
  /\ Inv' <=> TreeOK' /\ DotsLead' /\ Booted' /\ CwdOK' /\ ListingOK' /\ RestOK'
<1>1. TypeOK <=> TreeOK /\ CwdOK /\ RestOK /\ listing \in [Proc -> Listing]
  BY Zenon DEF TypeOK, TreeOK, TreeNode, CwdOK, RestOK
<1>2. TypeOK' <=> TreeOK' /\ CwdOK' /\ RestOK' /\ listing' \in [Proc -> Listing']
  BY Zenon DEF TypeOK, TreeOK, TreeNode, CwdOK, RestOK
<1>3. Listed /\ ListingInOrder <=> \A p \in Proc : GoodListing(listing[p])
  BY DEF Listed, ListingInOrder, GoodListing, ListedSoFar
<1>4. Listed' /\ ListingInOrder' <=> \A p \in Proc : GoodListing(listing'[p])
  BY DEF Listed, ListingInOrder, GoodListing, ListedSoFar
<1> QED BY <1>1, <1>2, <1>3, <1>4 DEF Inv, ListingOK

LEMMA SameTree ==
  ASSUME TreeOK, DotsLead, tree' = tree
  PROVE  TreeOK' /\ DotsLead' /\ Nodes' = Nodes /\ Listing' = Listing
<1>1. Nodes' = Nodes BY DEF Nodes
<1>2. TreeNode' = TreeNode BY <1>1 DEF TreeNode
<1>3. Listing' = Listing BY <1>1 DEF Listing
<1> QED BY <1>1, <1>2, <1>3 DEF TreeOK, DotsLead

LEMMA SameBoot ==
  ASSUME Booted, tree # <<>>, tree' = tree
  PROVE  Booted'
BY DEF Booted

(* Lookups find nodes or errors.                                           *)
LEMMA FindType ==
  ASSUME TypeOK, tree # <<>>, NEW p \in Proc, NEW path \in Path, NEW s \in BOOLEAN
  PROVE  /\ Find(p, path, s) \in Nodes \cup Errors
         /\ ~Failed(Find(p, path, s)) => Find(p, path, s) \in Nodes /\ path # <<Empty>>
<1>1. PICK g : g = Graph(p) OBVIOUS
<1>2. IsGraph(g) BY <1>1, GraphFacts
<1>3. PICK names \in Seq(Name) : names = Tail(FromOf(p, path)) BY FromOfNames
<1>4. PICK at : at = From(g, names, s) OBVIOUS
<1>5. at \in Lookups(g) BY <1>2, <1>4, FromLookup
<1>6. PICK result \in MeaningSet(g) : result = Meaning(g)[at] BY <1>2, <1>5, MeaningSolves
<1>7. Walk(g)[at] = result.node BY <1>2, <1>5, <1>6, LookupMeans
<1>8. result.node \in Ends(g) BY DEF MeaningSet
<1>9. Ends(g) = Nodes \cup Errors BY <1>1, NodesOrErrors
<1>10. Find(p, path, s) = IF path = <<Empty>> THEN NoEntry ELSE Walk(g)[at]
  BY <1>1, <1>3, <1>4 DEF Find, Led
<1>11. NoEntry \in Errors BY DEF Errors
<1> QED BY <1>7, <1>8, <1>9, <1>10, <1>11 DEF Failed

(* Each action keeps the invariant.                                        *)
LEMMA ChdirKeeps ==
  ASSUME Inv, tree # <<>>, NEW p \in Proc, NEW path \in Path, Chdir(p, path)
  PROVE  Inv'
<1>1. TypeOK /\ DotsLead /\ TreeOK /\ Booted /\ CwdOK /\ ListingOK /\ RestOK
  BY InvParts DEF Inv
<1>2. CASE Throws
  <2>1. tree' = tree /\ cwd' = cwd /\ nprocs' = nprocs /\ exited' = exited /\ listing' = listing
        /\ thrown' = TRUE
    BY <1>2 DEF Throws
  <2> QED BY <1>1, <2>1, SameTree, SameBoot, InvParts DEF CwdOK, ListingOK, RestOK
<1>3. CASE /\ ~Failed(Find(p, path, FALSE)) /\ Len(Entered(cwd[p], path)) <= MaxDepth
           /\ cwd' = [cwd EXCEPT ![p] = Entered(cwd[p], path)]
           /\ UNCHANGED <<image, tree, nprocs, exited, listing, thrown>>
  <2>1. tree' = tree /\ nprocs' = nprocs /\ exited' = exited /\ listing' = listing /\ thrown' = thrown
    BY <1>3
  <2>2. path # <<Empty>> BY <1>1, <1>3, FindType
  <2>3. PICK dir \in Path : dir = cwd[p] /\ Absolute(dir) /\ Len(dir) \in 2..MaxDepth
    BY <1>1 DEF CwdOK
  <2>4. PICK new : new = Entered(dir, path) OBVIOUS
  <2>5. Len(dir) >= 2 BY <2>3, PathsAssumption
  <2>6. new \in Path /\ Absolute(new) /\ Len(new) >= 2
    BY <2>2, <2>3, <2>4, <2>5, EnteredPath
  <2>7. Len(new) \in Nat BY <2>6 DEF Path
  <2>8. Len(new) \in 2..MaxDepth BY <1>3, <2>3, <2>4, <2>6, <2>7, PathsAssumption
  <2>9. cwd' = [cwd EXCEPT ![p] = new] BY <1>3, <2>3, <2>4
  <2>10. CwdOK' BY <1>1, <2>6, <2>8, <2>9 DEF CwdOK
  <2> QED BY <1>1, <2>1, <2>10, SameTree, SameBoot, InvParts DEF ListingOK, RestOK
<1> QED BY <1>2, <1>3 DEF Chdir

LEMMA ThrowsKeeps ==
  ASSUME Inv, tree # <<>>, Throws
  PROVE  Inv'
<1>1. TypeOK /\ DotsLead /\ TreeOK /\ Booted /\ CwdOK /\ ListingOK /\ RestOK
  BY InvParts DEF Inv
<1>2. tree' = tree /\ cwd' = cwd /\ nprocs' = nprocs /\ exited' = exited /\ listing' = listing
      /\ thrown' = TRUE
  BY DEF Throws
<1> QED BY <1>1, <1>2, SameTree, SameBoot, InvParts DEF CwdOK, ListingOK, RestOK

(* What a process lists, it goes on listing in a larger tree.              *)
LEMMA ListingsGrow ==
  ASSUME ListingOK, listing' = listing, Nodes \subseteq Nodes'
  PROVE  ListingOK'
<1>1. Listing \subseteq Listing'
  <2>1. PICK old, new : old = Nodes \cup {NoListing.dir} /\ new = Nodes' \cup {NoListing.dir} OBVIOUS
  <2>2. old \subseteq new BY <2>1
  <2>3. Listing = [dir : old, pos : Nat, got : Seq(Name), short : BOOLEAN,
                   keys : Seq(Name), changed : BOOLEAN]
    BY <2>1 DEF Listing
  <2>4. Listing' = [dir : new, pos : Nat, got : Seq(Name), short : BOOLEAN,
                    keys : Seq(Name), changed : BOOLEAN]
    BY <2>1 DEF Listing
  <2> QED BY <2>2, <2>3, <2>4
<1>2. listing' \in [Proc -> Listing'] BY <1>1 DEF ListingOK
<1> QED BY <1>2 DEF ListingOK

LEMMA MakesKeeps ==
  ASSUME Inv, tree # <<>>, NEW p, NEW path, NEW s, NEW parent, Makes(p, path, s, parent),
         UNCHANGED <<image, cwd, nprocs, exited, listing, thrown>>
  PROVE  Inv'
<1>1. TypeOK /\ DotsLead /\ TreeOK /\ Booted /\ CwdOK /\ ListingOK /\ RestOK
  BY InvParts DEF Inv
<1>2. TreeOK' BY <1>1, MadeTypes
<1>3. DotsLead' /\ Booted' BY <1>1, MadeDots
<1>4. DOMAIN tree \subseteq DOMAIN tree' BY <1>1, MadeTree
<1>5. Nodes \subseteq Nodes' BY <1>4, NodesGrow
<1>6. ListingOK' BY <1>1, <1>5, ListingsGrow
<1>7. CwdOK' /\ RestOK' BY <1>1 DEF CwdOK, RestOK
<1> QED BY <1>2, <1>3, <1>6, <1>7, InvParts

(* A file is made, or the Error ends the emulator.                         *)
LEMMA CreateSteps ==
  ASSUME TypeOK, tree # <<>>, NEW p \in Proc, NEW path \in Path, NEW s \in BOOLEAN, Create(p, path, s)
  PROVE  \/ Throws
         \/ /\ \E parent : Makes(p, path, s, parent)
            /\ UNCHANGED <<image, cwd, nprocs, exited, listing, thrown>>
<1>1. PICK parent : parent = Find(p, PathName(path), s) OBVIOUS
<1>2. PathName(path) \in Path
  <2>1. path \in Seq(Name) /\ path # <<>> BY DEF Path
  <2>2. Front(path) \in Seq(Name) BY <2>1, FrontLast
  <2>3. <<Dot, Empty>> \in Path BY NamesOfProc DEF Path
  <2> QED BY <2>2, <2>3 DEF PathName, Path
<1>3. ~Failed(parent) => parent \in Nodes BY <1>1, <1>2, FindType
<1>4. CASE /\ Find(p, path, s) = NoEntry /\ ~Failed(parent) /\ HasChildren(parent)
           /\ tree' = WithFile(parent, Last(path))
           /\ UNCHANGED <<image, cwd, nprocs, exited, listing, thrown>>
  BY <1>1, <1>3, <1>4 DEF Makes
<1> QED BY <1>1, <1>4 DEF Create

LEMMA CreateKeeps ==
  ASSUME Inv, tree # <<>>, NEW p \in Proc, NEW path \in Path, NEW s \in BOOLEAN, Create(p, path, s)
  PROVE  Inv'
<1>1. TypeOK BY DEF Inv
<1> QED BY <1>1, CreateSteps, ThrowsKeeps, MakesKeeps

LEMMA ListingStep ==
  ASSUME Inv, tree # <<>>, NEW p \in Proc, NEW new \in Listing, GoodListing(new),
         listing' = [listing EXCEPT ![p] = new],
         UNCHANGED <<image, tree, cwd, nprocs, thrown>>, exited' \in [Proc -> BOOLEAN]
  PROVE  Inv'
<1>1. TypeOK /\ DotsLead /\ TreeOK /\ Booted /\ CwdOK /\ ListingOK /\ RestOK
  BY InvParts DEF Inv
<1>2. TreeOK' /\ DotsLead' /\ Booted' /\ Listing' = Listing BY <1>1, SameTree, SameBoot
<1>3. CwdOK' /\ RestOK' BY <1>1 DEF CwdOK, RestOK
<1>4. ListingOK' BY <1>1, <1>2 DEF ListingOK
<1> QED BY <1>2, <1>3, <1>4, InvParts

LEMMA OpenedListing ==
  ASSUME NEW dir \in Nodes \cup {NoListing.dir}, NEW keys \in Seq(Name), OneToOne(keys)
  PROVE  Opened(dir, keys) \in Listing /\ GoodListing(Opened(dir, keys))
<1>1. PICK l : /\ l = [dir |-> dir, pos |-> 0, got |-> <<>>, short |-> FALSE, keys |-> keys,
                       changed |-> FALSE]
               /\ l = Opened(dir, keys)
  BY DEF Opened
<1>2. l \in Listing BY <1>1 DEF Listing
<1>3. Len(keys) \in Nat /\ 0 \in 0..Len(keys) OBVIOUS
<1>4. PICK s : s = SubSeq(keys, 1, 0) OBVIOUS
<1>5. s = <<>> BY <1>4
<1>6. GoodListing(l)
  <2>1. l.keys = keys /\ l.pos = 0 /\ l.got = <<>> BY <1>1
  <2>2. ToSet(<<>>) \subseteq ToSet(s) BY DEF ToSet
  <2>3. InOrder(l) BY <2>1 DEF InOrder
  <2>4. l.pos <= Len(l.keys) BY <1>3, <2>1
  <2> QED BY <1>4, <1>5, <2>1, <2>2, <2>3, <2>4 DEF GoodListing, ListedSoFar
<1> QED BY <1>1, <1>2, <1>6

LEMMA OpenDirKeeps ==
  ASSUME Inv, tree # <<>>, NEW p \in Proc, NEW path \in Path, OpenDir(p, path)
  PROVE  Inv'
<1>1. TypeOK /\ RestOK BY InvParts DEF Inv
<1>2. PICK found : found = Find(p, path, FALSE) OBVIOUS
<1>3. PICK keys : keys = IF HasChildren(found) THEN Keys(found) ELSE <<>> OBVIOUS
<1>4. /\ ~Failed(found) /\ listing' = [listing EXCEPT ![p] = Opened(found, keys)]
      /\ UNCHANGED <<image, tree, cwd, nprocs, exited, thrown>>
  BY <1>2, <1>3 DEF OpenDir
<1>5. found \in Nodes BY <1>1, <1>2, <1>4, FindType
<1>6. keys \in Seq(Name) /\ OneToOne(keys)
  <2>1. <<>> \in Seq(Name) /\ OneToOne(<<>>) BY DEF OneToOne
  <2> QED BY <1>1, <1>3, <1>5, <2>1, KeysType
<1>7. PICK new : new = Opened(found, keys) OBVIOUS
<1>8. new \in Listing /\ GoodListing(new) BY <1>5, <1>6, <1>7, OpenedListing
<1>9. exited' \in [Proc -> BOOLEAN] BY <1>1, <1>4 DEF RestOK
<1> QED BY <1>4, <1>7, <1>8, <1>9, ListingStep

LEMMA GetdentsKeeps ==
  ASSUME Inv, tree # <<>>, NEW p \in Proc, NEW room, Getdents(p, room)
  PROVE  Inv'
<1>1. TypeOK /\ RestOK /\ ListingOK BY InvParts DEF Inv
<1>2. CASE Throws BY <1>2, ThrowsKeeps
<1>3. CASE /\ listing[p].dir # NoListing.dir /\ HasChildren(listing[p].dir)
           /\ listing' = [listing EXCEPT ![p] = AfterCall(@, Keys(listing[p].dir), room)]
           /\ UNCHANGED <<image, tree, cwd, nprocs, exited, thrown>>
  <2>1. PICK l \in Listing : l = listing[p] /\ GoodListing(l) BY <1>1 DEF ListingOK
  <2>2. /\ l.keys \in Seq(Name) /\ l.got \in Seq(Name) /\ l.pos \in Nat /\ l.short \in BOOLEAN
        /\ l.changed \in BOOLEAN /\ l.dir \in Nodes \cup {NoListing.dir}
    BY DEF Listing
  <2>3. PICK dir \in Nodes : dir = l.dir /\ HasChildren(dir) BY <1>3, <2>1, <2>2
  <2>4. PICK keys \in Seq(Name) : keys = Keys(dir) BY <1>1, <2>3, KeysType
  <2>5. PICK next : next = AfterCall(l, keys, room) OBVIOUS
  <2>6. /\ next = [dir |-> l.dir, keys |-> l.keys, pos |-> next.pos, got |-> next.got,
                   short |-> next.short, changed |-> next.changed]
        /\ next.pos \in Nat /\ next.got \in Seq(Name) /\ next.short \in BOOLEAN
        /\ next.changed \in BOOLEAN /\ GoodListing(next)
    BY <2>1, <2>2, <2>5, CallKeepsListing
  <2>7. next \in Listing BY <2>2, <2>6 DEF Listing
  <2>8. listing' = [listing EXCEPT ![p] = next]
    BY <1>1, <1>3, <2>1, <2>3, <2>4, <2>5 DEF ListingOK
  <2>9. exited' \in [Proc -> BOOLEAN] BY <1>1, <1>3 DEF RestOK
  <2> QED BY <1>3, <2>6, <2>7, <2>8, <2>9, ListingStep
<1> QED BY <1>2, <1>3 DEF Getdents

LEMMA ExitKeeps ==
  ASSUME Inv, tree # <<>>, NEW p \in Proc, Exit(p)
  PROVE  Inv'
<1>1. RestOK BY InvParts
<1>2. PICK new : new = NoListing OBVIOUS
<1>3. new \in Listing /\ GoodListing(new)
  <2>1. <<>> \in Seq(Name) /\ OneToOne(<<>>) BY DEF OneToOne
  <2>2. <<"none", 0>> \in Nodes \cup {NoListing.dir} BY DEF NoListing, Opened
  <2> QED BY <1>2, <2>1, <2>2, OpenedListing DEF NoListing
<1>4. exited' \in [Proc -> BOOLEAN] BY <1>1 DEF Exit, RestOK
<1> QED BY <1>2, <1>3, <1>4, ListingStep DEF Exit

LEMMA CloneKeeps ==
  ASSUME Inv, tree # <<>>, NEW p \in Proc, Clone(p)
  PROVE  Inv'
<1>1. TypeOK /\ DotsLead /\ TreeOK /\ Booted /\ CwdOK /\ ListingOK /\ RestOK
  BY InvParts DEF Inv
<1>2. PICK q \in Proc : nprocs' = q /\ cwd' = [cwd EXCEPT ![q] = cwd[p]] BY DEF Clone
<1>3. tree' = tree /\ exited' = exited /\ listing' = listing /\ thrown' = thrown BY DEF Clone
<1>4. CwdOK' BY <1>1, <1>2 DEF CwdOK
<1>5. RestOK' BY <1>1, <1>2, <1>3 DEF RestOK
<1> QED BY <1>1, <1>3, <1>4, <1>5, SameTree, SameBoot, InvParts DEF ListingOK

LEMMA BootKeeps ==
  ASSUME Inv, Boot
  PROVE  Inv'
<1>1. TypeOK /\ TreeOK /\ Booted /\ CwdOK /\ ListingOK /\ RestOK
  BY InvParts DEF Inv
<1>2. tree = <<>> /\ image \in Images BY <1>1 DEF Boot, Booted
<1>3. PICK nodes : nodes = Mount(image.disk) OBVIOUS
<1>4. IsTree(nodes) BY <1>2, <1>3, ImagesAssumption
<1>5. tree' = Mounted(nodes) BY <1>3 DEF Boot
<1>6. TreeOK' /\ DotsLead' /\ tree' # <<>> /\ tree'[1].type \in Directories
  BY <1>4, <1>5, MountedTree
<1>7. Booted' BY <1>6 DEF Booted
<1>8. Nodes \subseteq Nodes'
  <2>1. DOMAIN tree = {} BY <1>2
  <2> QED BY <2>1, NodesGrow
<1>9. ListingOK' BY <1>1, <1>8, ListingsGrow DEF Boot
<1>10. CwdOK' /\ RestOK' BY <1>1 DEF Boot, CwdOK, RestOK
<1> QED BY <1>6, <1>7, <1>9, <1>10, InvParts

LEMMA InitInv == Init => Inv
<1> SUFFICES ASSUME Init PROVE Inv OBVIOUS
<1>1. image \in Images /\ tree = <<>> BY DEF Init
<1>2. TreeOK /\ DotsLead /\ Booted
  <2>1. DOMAIN tree = {} BY <1>1
  <2>2. PICK T : T = TreeNode OBVIOUS
  <2>3. tree \in Seq(T) BY <1>1
  <2> QED BY <1>1, <2>1, <2>2, <2>3 DEF TreeOK, DotsLead, Booted
<1>3. CwdOK
  <2>1. <<Empty, Empty>> \in Seq(Name) /\ Len(<<Empty, Empty>>) = 2 /\ <<Empty, Empty>>[1] = Empty
    BY NamesOfProc
  <2>2. PICK r : r = RootPath OBVIOUS
  <2>3. r \in Path /\ Absolute(r) /\ Len(r) \in 2..MaxDepth
    BY <2>1, <2>2, PathsAssumption DEF RootPath, Path, Absolute
  <2>4. cwd = [q \in Proc |-> r] BY <2>2 DEF Init
  <2> QED BY <2>3, <2>4 DEF CwdOK
<1>4. ListingOK
  <2>1. <<>> \in Seq(Name) /\ OneToOne(<<>>) BY DEF OneToOne
  <2>2. <<"none", 0>> \in Nodes \cup {NoListing.dir} BY DEF NoListing, Opened
  <2>3. NoListing \in Listing /\ GoodListing(NoListing)
    BY <2>1, <2>2, OpenedListing DEF NoListing
  <2>4. listing = [q \in Proc |-> NoListing] BY DEF Init
  <2> QED BY <2>3, <2>4 DEF ListingOK
<1>5. RestOK
  <2>1. 1 \in Proc BY PathsAssumption DEF Proc
  <2>2. nprocs = 1 /\ exited = [q \in Proc |-> FALSE] /\ thrown = FALSE BY DEF Init
  <2>3. exited \in [Proc -> BOOLEAN] BY <2>2
  <2> QED BY <2>1, <2>2, <2>3 DEF RestOK
<1> QED BY <1>2, <1>3, <1>4, <1>5, InvParts

LEMMA ProcsRun ==
  ASSUME TypeOK
  PROVE  1..nprocs \subseteq Proc
BY PathsAssumption DEF TypeOK, Proc

LEMMA NextKeeps == Inv /\ [Next]_vars => Inv'
<1>1. ASSUME Inv, UNCHANGED vars PROVE Inv'
  <2>1. TypeOK /\ DotsLead /\ TreeOK /\ Booted /\ CwdOK /\ ListingOK /\ RestOK
    BY <1>1, InvParts DEF Inv
  <2>2. /\ image' = image /\ tree' = tree /\ cwd' = cwd /\ nprocs' = nprocs /\ exited' = exited
        /\ listing' = listing /\ thrown' = thrown
    BY <1>1 DEF vars
  <2>3. Booted' BY <2>1, <2>2 DEF Booted
  <2> QED BY <2>1, <2>2, <2>3, SameTree, InvParts DEF CwdOK, ListingOK, RestOK
<1>2. ASSUME Inv, Boot PROVE Inv' BY <1>2, BootKeeps
<1>3. ASSUME Inv, tree # <<>>, NEW p \in 1..nprocs, Call(p) PROVE Inv'
  <2>1. p \in Proc BY <1>3, ProcsRun DEF Inv
  <2>2. ASSUME NEW path \in PathSet, Chdir(p, path) PROVE Inv'
    BY <1>3, <2>1, <2>2, ChdirKeeps, PathsAssumption
  <2>3. ASSUME NEW path \in PathSet, OpenDir(p, path) PROVE Inv'
    BY <1>3, <2>1, <2>3, OpenDirKeeps, PathsAssumption
  <2>4. ASSUME NEW path \in PathSet, NEW flag \in BOOLEAN, Create(p, path, flag) PROVE Inv'
    BY <1>3, <2>1, <2>4, CreateKeeps, PathsAssumption
  <2>5. ASSUME NEW room \in Counts, Getdents(p, room) PROVE Inv'
    BY <1>3, <2>1, <2>5, GetdentsKeeps
  <2>6. ASSUME Clone(p) PROVE Inv' BY <1>3, <2>1, <2>6, CloneKeeps
  <2>7. ASSUME Exit(p) PROVE Inv' BY <1>3, <2>1, <2>7, ExitKeeps
  <2>8. ASSUME NEW path \in PathSet, NEW flag \in BOOLEAN,
               Access(p, path) \/ Readlink(p, path) \/ Stat(p, path, flag)
        PROVE  Inv'
    <3>1. Throws BY <2>8 DEF Access, Readlink, Stat
    <3> QED BY <1>3, <3>1, ThrowsKeeps
  <2> QED BY <1>3, <2>2, <2>3, <2>4, <2>5, <2>6, <2>7, <2>8 DEF Call
<1> QED BY <1>1, <1>2, <1>3 DEF Next

(* The invariant: types, a root that is a directory, "." of every directory*)
(* of the image leads to itself, the names of a listing are all different, *)
(* and listings go on in order.                                            *)
THEOREM InvHolds == Spec => []Inv
<1>1. Init => Inv BY InitInv
<1>2. Inv /\ [Next]_vars => Inv' BY NextKeeps
<1> QED BY <1>1, <1>2, PTL DEF Spec

(* Nodes, entries, working directories and listings keep their types; a    *)
(* directory has no name twice, a working directory is absolute and no     *)
(* longer than the bound.                                                  *)
THEOREM TypesHold == Spec => []TypeOK
<1>1. Inv => TypeOK BY DEF Inv
<1> QED BY <1>1, InvHolds, PTL

(* Calls of getdents (syscalls.js 938-979) give the names of a directory   *)
(* in order and none twice, and all of them if every call had room,        *)
(* whatever the directory and the buffers.                                 *)
THEOREM ListingsInOrder == Spec => []ListingInOrder
<1>1. Inv => ListingInOrder BY DEF Inv
<1> QED BY <1>1, InvHolds, PTL
-----------------------------------------------------------------------------
(* Lookups.                                                                *)
LEMMA FindLeads ==
  ASSUME TypeOK, NEW p \in Proc, NEW path \in Path, path # <<Empty>>, NEW s \in BOOLEAN
  PROVE  Find(p, path, s) = Leads(Graph(p), Tail(FromOf(p, path)), s)
BY DEF Find, Led, Leads

LEMMA LookupsMean == Inv => LookupCorrect
<1> SUFFICES ASSUME Inv, tree # <<>>, NEW p \in 1..nprocs, NEW path \in LookedUp \ {<<Empty>>},
                    NEW stop \in BOOLEAN
             PROVE  Find(p, path, stop) = Means(p, path, stop)
  BY DEF LookupCorrect
<1>1. TypeOK /\ p \in Proc /\ path \in Path BY ProcsRun, PathsAssumption DEF Inv
<1>2. PICK g : g = Graph(p) OBVIOUS
<1>3. IsGraph(g) BY <1>1, <1>2, GraphFacts
<1>4. PICK names \in Seq(Name) : names = Tail(FromOf(p, path)) BY <1>1, FromOfNames
<1>5. PICK at \in Lookups(g) : at = From(g, names, stop) BY <1>3, FromLookup
<1>6. Walk(g)[at] = Meaning(g)[at].node BY <1>3, LookupMeans
<1>7. Find(p, path, stop) = Walk(g)[at]
  BY <1>1, <1>2, <1>4, <1>5, FindLeads DEF Leads
<1> QED BY <1>2, <1>4, <1>5, <1>6, <1>7 DEF Means

-----------------------------------------------------------------------------
(* chdir.                                                                  *)
Enters(p, path) ==
  /\ p \in Proc /\ path \in Path /\ path # <<Empty>> /\ path # <<DotDot>>
  /\ ~Failed(Find(p, path, FALSE))
  /\ path = <<Dot>> => IsDir(Find(p, path, FALSE))

LEMMA TailType ==
  ASSUME NEW S, NEW s \in Seq(S), s # <<>>
  PROVE  Tail(s) \in Seq(S)
OBVIOUS

(* A process stays where it is by ".", unless a file was made of that      *)
(* name.                                                                   *)
LEMMA DotEnters ==
  ASSUME TypeOK, DotsLead, tree # <<>>, NEW p \in Proc, Enters(p, <<Dot>>)
  PROVE  Led(Graph(p), cwd[p], FALSE) = Find(p, <<Dot>>, FALSE)
<1>1. PICK g : g = Graph(p) OBVIOUS
<1>2. IsGraph(g) /\ g.nodes = Nodes /\ Ends(g) = Nodes \cup Errors BY <1>1, GraphFacts, NodesOrErrors
<1>3. PICK names \in Seq(Name) : names = Tail(cwd[p]) BY FromOfNames, NamesOfProc DEF Enters
<1>4. <<Dot>> \in Path /\ <<Dot>> \in Seq(Name) /\ <<Dot>> \o <<>> = <<Dot>> /\ <<>> \in Seq(Name)
      /\ <<Dot>>[1] = Dot /\ Dot # Empty
  BY NamesOfProc DEF Path
<1>5. FromOf(p, <<Dot>>) = cwd[p] \o <<Dot>> BY <1>4 DEF FromOf, Absolute
<1>6. Tail(FromOf(p, <<Dot>>)) = names \o <<Dot>> BY <1>3, <1>4, <1>5, FromOfLonger
<1>7. PICK found : found = Find(p, <<Dot>>, FALSE) /\ ~Failed(found) /\ IsDir(found)
  BY DEF Enters
<1>8. found = Leads(g, names \o <<Dot>>, FALSE)
  BY <1>1, <1>4, <1>6, <1>7, FindLeads DEF Enters
<1>9. PICK node \in Ends(g), links \in Nat :
        /\ node = Leads(g, names, FALSE)
        /\ found = IF Failed(node) THEN node ELSE Walk(g)[Looking(<<Dot>>, node, links, FALSE)]
  <2>1. PICK rest \in Seq(Name), s \in BOOLEAN : rest = <<Dot>> /\ s = FALSE BY <1>4
  <2>2. Leads(g, names \o rest, s) =
          IF Failed(Leads(g, names, FALSE)) THEN Leads(g, names, FALSE)
          ELSE Walk(g)[Looking(rest, Leads(g, names, FALSE), Taking(g, names), s)]
    BY <1>2, <2>1, OnwardFrom
  <2>3. Taking(g, names) \in Nat /\ Leads(g, names, FALSE) \in Ends(g) BY <1>2, LeadsSomewhere
  <2> QED BY <1>8, <2>1, <2>2, <2>3
<1>10. node \in Nodes /\ found = Walk(g)[Looking(<<Dot>> \o <<>>, node, links, FALSE)]
  BY <1>2, <1>4, <1>7, <1>9 DEF Failed
<1>11. \A n \in Nodes : Walk(g)[Looking(<<>>, n, links, FALSE)] = n BY <1>2, Arrived
<1>12. \/ found = Walk(g)[Looking(<<>>, node, links, FALSE)]
       \/ found \in {NoEntry, TypeError}
       \/ \E m \in DOMAIN tree : /\ ~tree[m].image
                                 /\ found = Walk(g)[Looking(<<>>, Node(m), links, FALSE)]
  BY <1>1, <1>4, <1>10, DotFound
<1>13. found \notin {NoEntry, TypeError} BY <1>7 DEF Failed, Errors
<1>14. ASSUME NEW m \in DOMAIN tree, ~tree[m].image, found = Walk(g)[Looking(<<>>, Node(m), links, FALSE)]
       PROVE  FALSE
  <2>1. found = Node(m) BY <1>11, <1>14, TreeFacts
  <2>2. tree[m].type = "file" BY <1>14 DEF DotsLead
  <2>3. ~IsDir(Node(m)) BY <2>2, Kinds DEF Directories
  <2> QED BY <1>7, <2>1, <2>3
<1>15. found = node BY <1>10, <1>11, <1>12, <1>13, <1>14
<1>16. Led(g, cwd[p], FALSE) = node BY <1>3, <1>9 DEF Led, Leads
<1> QED BY <1>1, <1>7, <1>15, <1>16

(* What chdir writes down leads to what it found.                          *)
LEMMA PathEnters ==
  ASSUME TypeOK, DotsLead, tree # <<>>, NEW p \in Proc, NEW path \in Path, Enters(p, path)
  PROVE  Led(Graph(p), Entered(cwd[p], path), FALSE) = Find(p, path, FALSE)
<1>1. PICK g : g = Graph(p) OBVIOUS
<1>2. IsGraph(g) /\ g.nodes = Nodes /\ Ends(g) = Nodes \cup Errors BY <1>1, GraphFacts, NodesOrErrors
<1>3. PICK dir \in Path : dir = cwd[p] /\ Len(dir) >= 2
  BY PathsAssumption DEF TypeOK
<1>4. PICK found : found = Find(p, path, FALSE) /\ ~Failed(found) BY DEF Enters
<1>5. found = Leads(g, Tail(FromOf(p, path)), FALSE) BY <1>1, <1>4, FindLeads DEF Enters
<1>6. /\ Absolute(path) => path # <<Dot>> /\ path # <<DotDot>>
      /\ <<Dot>> # <<DotDot>> /\ path # <<DotDot>>
  <2>1. <<Dot>>[1] = Dot /\ <<DotDot>>[1] = DotDot OBVIOUS
  <2> QED BY <2>1, NamesOfProc DEF Absolute, Enters
<1>7. CASE Absolute(path)
  <2>1. Entered(dir, path) = path BY <1>6, <1>7 DEF Entered
  <2>2. FromOf(p, path) = path BY <1>7 DEF FromOf
  <2> QED BY <1>1, <1>3, <1>4, <1>5, <2>1, <2>2 DEF Led, Leads
<1>8. CASE path = <<Dot>>
  <2>1. Entered(dir, path) = dir BY <1>6, <1>8 DEF Entered
  <2> QED BY <1>3, <1>8, <2>1, DotEnters
<1>9. CASE ~Absolute(path) /\ path # <<Dot>>
  <2>1. FromOf(p, path) = dir \o path BY <1>3, <1>9 DEF FromOf
  <2>2. CASE Last(dir) # Empty
    <3>1. Entered(dir, path) = dir \o path BY <1>6, <1>9, <2>2 DEF Entered
    <3> QED BY <1>1, <1>3, <1>4, <1>5, <2>1, <3>1 DEF Led, Leads
  <2>3. CASE Last(dir) = Empty
    <3>1. PICK f : f = Front(dir) OBVIOUS
    <3>2. Entered(dir, path) = f \o path BY <1>6, <1>9, <2>3, <3>1 DEF Entered
    <3>3. dir \in Seq(Name) /\ dir # <<>> /\ path \in Seq(Name) /\ path # <<>>
          /\ Empty \in Name /\ <<Empty>> \in Seq(Name)
      BY NamesOfProc DEF Path
    <3>4. f \in Seq(Name) /\ dir = f \o <<Empty>> /\ Len(f) = Len(dir) - 1
      BY <2>3, <3>1, <3>3, FrontLast
    <3>5. f # <<>>
      <4>1. Len(dir) \in Nat /\ Len(f) # 0 BY <1>3, <3>3, <3>4
      <4> QED BY <4>1
    <3>6. PICK more \in Seq(Name) : more = <<Empty>> \o path BY <3>3, ConcatProperties
    <3>7. dir \o path = f \o more BY <3>3, <3>4, <3>6, ConcatAssociative
    <3>8. PICK names \in Seq(Name) : names = Tail(f) BY <3>4, <3>5, TailType
    <3>9. Tail(f \o path) = names \o path /\ Tail(dir \o path) = names \o more
      BY <3>3, <3>4, <3>5, <3>6, <3>7, <3>8, TailOfConcat
    <3>10. PICK s \in BOOLEAN : s = FALSE OBVIOUS
    <3>11. PICK node \in Ends(g), links \in Nat :
              node = Leads(g, names, FALSE) /\ links = Taking(g, names)
      BY <1>2, LeadsSomewhere
    <3>12. Leads(g, names \o path, s) =
             IF Failed(node) THEN node ELSE Walk(g)[Looking(path, node, links, s)]
      BY <1>2, <3>3, <3>10, <3>11, OnwardFrom
    <3>13. Leads(g, names \o more, s) =
             IF Failed(node) THEN node ELSE Walk(g)[Looking(more, node, links, s)]
      BY <1>2, <3>10, <3>11, OnwardFrom
    <3>14. ASSUME ~Failed(node)
           PROVE  Walk(g)[Looking(more, node, links, s)] = Walk(g)[Looking(path, node, links, s)]
      <4>1. node \in g.nodes BY <1>2, <3>11, <3>14 DEF Failed
      <4>2. more # <<>> /\ Head(more) = Empty /\ Tail(more) = path
        <5>1. \A x \in Name, t \in Seq(Name) :
                <<x>> \o t # <<>> /\ Head(<<x>> \o t) = x /\ Tail(<<x>> \o t) = t
          OBVIOUS
        <5> QED BY <3>3, <3>6, <5>1
      <4>3. Walk(g)[Looking(more, node, links, s)] = Walk(g)[Looking(Tail(more), node, links, s)]
        BY <1>2, <4>1, <4>2, ThroughEmpty
      <4> QED BY <4>2, <4>3
    <3>15. Leads(g, names \o more, s) = Leads(g, names \o path, s) BY <3>12, <3>13, <3>14
    <3>16. Led(g, f \o path, FALSE) = Leads(g, names \o path, s) BY <3>9, <3>10 DEF Led, Leads
    <3>17. found = Leads(g, names \o more, s) BY <1>5, <2>1, <3>9, <3>10
    <3> QED BY <1>1, <1>3, <1>4, <3>2, <3>15, <3>16, <3>17
  <2> QED BY <2>2, <2>3
<1> QED BY <1>7, <1>8, <1>9
-----------------------------------------------------------------------------
(* In every tree that calls can make of an image, getNodeForPath           *)
(* (noopfs.js 469-475) finds what a path means, through links, loops and   *)
(* procfs, for every process.                                              *)
THEOREM LookupsCorrect == Spec => []LookupCorrect
BY InvHolds, LookupsMean, PTL

EntersStep ==
  \A p \in 1..nprocs, path \in PathSet :
    tree # <<>> /\ Chdir(p, path) /\ ~thrown' /\ path # <<DotDot>>
      /\ (path = <<Dot>> => IsDir(Find(p, path, FALSE)))
      => Led(Graph(p), cwd'[p], FALSE) = Find(p, path, FALSE)

LEMMA ChdirStep == Inv => EntersStep
<1> SUFFICES ASSUME Inv, tree # <<>>, NEW p \in 1..nprocs, NEW path \in PathSet, Chdir(p, path), ~thrown',
                    path # <<DotDot>>, path = <<Dot>> => IsDir(Find(p, path, FALSE))
             PROVE  Led(Graph(p), cwd'[p], FALSE) = Find(p, path, FALSE)
  BY DEF EntersStep
<1>1. TypeOK /\ DotsLead /\ p \in Proc /\ path \in Path BY ProcsRun, PathsAssumption DEF Inv
<1>2. ~Throws BY DEF Throws
<1>3. ~Failed(Find(p, path, FALSE)) /\ cwd' = [cwd EXCEPT ![p] = Entered(cwd[p], path)]
  BY <1>2 DEF Chdir
<1>4. cwd'[p] = Entered(cwd[p], path) BY <1>1, <1>3 DEF TypeOK
<1>5. path # <<Empty>> BY <1>1, <1>3, FindType
<1>6. Enters(p, path) BY <1>1, <1>3, <1>5 DEF Enters
<1> QED BY <1>1, <1>4, <1>6, PathEnters

(* After chdir (except ".."), which keeps text (syscalls.js 783-800), the   *)
(* working directory leads to what its path led to.                        *)
THEOREM ChdirEntersWhereItLed == Spec => ChdirEnters
<1>1. ChdirEnters <=> [][EntersStep]_vars BY DEF ChdirEnters, EntersStep
<1> QED BY <1>1, InvHolds, ChdirStep, PTL DEF Spec

LEMMA SameEntries ==
  ASSUME tree' = tree
  PROVE  KeepsEntries
BY DEF KeepsEntries, KeepsEntry

LEMMA StepsKeepEntries == Inv /\ Next => KeepsEntries
<1> SUFFICES ASSUME Inv, Next PROVE KeepsEntries OBVIOUS
<1>1. TypeOK /\ DotsLead BY DEF Inv
<1>2. CASE Boot
  <2>1. DOMAIN tree = {} BY <1>2 DEF Boot
  <2> QED BY <2>1 DEF KeepsEntries
<1>3. ASSUME tree # <<>>, NEW p \in 1..nprocs, Call(p) PROVE KeepsEntries
  <2>1. p \in Proc BY <1>1, ProcsRun
  <2>2. Throws => KeepsEntries BY SameEntries DEF Throws
  <2>3. ASSUME NEW path \in PathSet, NEW flag \in BOOLEAN, Create(p, path, flag) PROVE KeepsEntries
    <3>1. path \in Path BY PathsAssumption
    <3>2. Throws \/ \E parent : Makes(p, path, flag, parent)
      BY <1>1, <1>3, <2>1, <2>3, <3>1, CreateSteps
    <3> QED BY <1>1, <1>3, <2>2, <3>2, MadeKeeps
  <2>4. ASSUME NEW path \in PathSet, NEW flag \in BOOLEAN,
               \/ Chdir(p, path) \/ OpenDir(p, path)
               \/ Access(p, path) \/ Readlink(p, path) \/ Stat(p, path, flag)
        PROVE  KeepsEntries
    <3>1. Throws \/ tree' = tree BY <2>4 DEF Chdir, OpenDir, Access, Readlink, Stat
    <3> QED BY <2>2, <3>1, SameEntries
  <2>5. ASSUME NEW room \in Counts, Getdents(p, room) PROVE KeepsEntries
    <3>1. Throws \/ tree' = tree BY <2>5 DEF Getdents
    <3> QED BY <2>2, <3>1, SameEntries
  <2>6. ASSUME Clone(p) \/ Exit(p) PROVE KeepsEntries
    BY <2>6, SameEntries DEF Clone, Exit
  <2> QED BY <1>3, <2>3, <2>4, <2>5, <2>6 DEF Call
<1> QED BY <1>2, <1>3 DEF Next

(* O_CREAT replaces no entry of a directory but a dangling link, one       *)
(* without a name, or one of the working directory when it was asked for a *)
(* name in the root.                                                       *)
THEOREM FilesKeepEntries == Spec => EntriesKept
<1>1. EntriesKept <=> [][KeepsEntries]_vars BY DEF EntriesKept, KeepsEntries, KeepsEntry
<1> QED BY <1>1, InvHolds, StepsKeepEntries, PTL DEF Spec
==============================================================================
