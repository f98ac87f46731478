-------------------------------- MODULE Lookup --------------------------------
(***************************************************************************)
(* getNodeForAbsPath of src/src/noopfs.js: the node that a path leads to,  *)
(* in a graph of nodes.                                                    *)
(*                                                                         *)
(* A name is a sequence of letters, and a path what split("/") makes of    *)
(* its text: a sequence of names, the first of them empty if the path is   *)
(* absolute, the last if it ends with a slash.  Joining is the inverse, so *)
(* that dir + "/" + path is dir \o path.                                   *)
(*                                                                         *)
(* A graph g has                                                           *)
(*   g.nodes, g.root,                                                      *)
(*   g.children[node][name] for the nodes that have children,              *)
(*   g.target[node], a path, for the nodes that are links.                 *)
(* A lookup is at [names: those left, node: where the first of them is     *)
(* looked for, links: how many were followed, stop: stopOnLinks].          *)
(***************************************************************************)
EXTENDS Integers, Sequences

CONSTANTS
  Letters,      \* what names are made of
  LinkLimit     \* 10: links that a lookup may have followed before it follows one more

ASSUME LookupAssumption == LinkLimit \in Nat

Name == Seq(Letters)
Empty == <<>>
Path == Seq(Name) \ {<<>>}

NoEntry == <<"ENOENT", 0>>
Loop == <<"ELOOP", 0>>
TypeError == <<"TypeError", 0>>
Errors == {NoEntry, Loop, TypeError}
Failed(found) == found \in Errors

IsGraph(g) ==
  /\ g.root \in g.nodes
  /\ g.nodes \cap Errors = {}
  /\ DOMAIN g.children \subseteq g.nodes
  /\ \A node \in DOMAIN g.children : \A name \in DOMAIN g.children[node] :
       g.children[node][name] \in g.nodes
  /\ \A node \in DOMAIN g.target : g.target[node] \in Path

Lookups(g) == [names : Seq(Name), node : g.nodes, links : Nat, stop : BOOLEAN]

-----------------------------------------------------------------------------
Absolute(path) == path[1] = Empty

SplicedLate(target, rest) == rest \o target    \* mutant: the target goes to the end
Spliced(target, rest) == target \o rest

(* Where the target of a link is looked up; the empty one is not absolute. *)
StartOf(g, target, node) == IF Absolute(target) /\ Len(target) > 1 THEN g.root ELSE node

InChild(at, child) ==
  [names |-> Tail(at.names), node |-> child, links |-> at.links, stop |-> at.stop]
Later(at) == InChild(at, at.node)
AtTarget(g, at, target) ==
  [names |-> Spliced(target, Tail(at.names)), node |-> StartOf(g, target, at.node),
   links |-> at.links + 1, stop |-> at.stop]

(* One turn of the loop, which goes on with what walk gives.               *)
Walked(g, walk, at) ==
  IF at.names = <<>> THEN at.node
  ELSE IF Head(at.names) = Empty THEN walk[Later(at)]
  ELSE IF at.node \notin DOMAIN g.children THEN TypeError
  ELSE LET children == g.children[at.node]
           child == children[Head(at.names)]
       IN IF Head(at.names) \notin DOMAIN children THEN NoEntry
          ELSE IF child \notin DOMAIN g.target THEN walk[InChild(at, child)]
          ELSE IF at.stop /\ Len(at.names) = 1 THEN child
          ELSE IF at.links > LinkLimit THEN Loop
          ELSE walk[AtTarget(g, at, g.target[child])]
Walk(g) == LET walk[at \in Lookups(g)] == Walked(g, walk, at) IN walk

(* A lookup of an absolute path.                                           *)
From(g, names, stop) == [names |-> names, node |-> g.root, links |-> 0, stop |-> stop]
Led(g, path, stop) == Walk(g)[From(g, Tail(path), stop)]

-----------------------------------------------------------------------------
(* What a path means, and how many links it takes: a link stands for the   *)
(* node that its target, resolved by itself in the link's directory, means.*)
Resolving(g, at, target) ==
  [names |-> target, node |-> StartOf(g, target, at.node), links |-> at.links + 1, stop |-> FALSE]
Resolved(at, followed) ==
  [names |-> Tail(at.names), node |-> followed.node,
   links |-> at.links + 1 + followed.links, stop |-> at.stop]

Meant(g, meaning, at) ==
  LET Done(node) == [node |-> node, links |-> 0]
  IN IF at.names = <<>> THEN Done(at.node)
     ELSE IF Head(at.names) = Empty THEN meaning[Later(at)]
     ELSE IF at.node \notin DOMAIN g.children THEN Done(TypeError)
     ELSE LET children == g.children[at.node]
              child == children[Head(at.names)]
          IN IF Head(at.names) \notin DOMAIN children THEN Done(NoEntry)
             ELSE IF child \notin DOMAIN g.target THEN meaning[InChild(at, child)]
             ELSE IF at.stop /\ Len(at.names) = 1 THEN Done(child)
             ELSE IF at.links > LinkLimit THEN Done(Loop)
             ELSE LET followed == meaning[Resolving(g, at, g.target[child])]
                      rest == meaning[Resolved(at, followed)]
                  IN IF Failed(followed.node) THEN followed
                     ELSE [rest EXCEPT !.links = @ + 1 + followed.links]
Meaning(g) == LET meaning[at \in Lookups(g)] == Meant(g, meaning, at) IN meaning
================================================================================
