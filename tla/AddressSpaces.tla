---------------------------- MODULE AddressSpaces ----------------------------
(***************************************************************************)
(* What the memory of src/src/process.js promises, with no physical page   *)
(* in sight: every process has an address space of its own.  Only the      *)
(* process that stores, maps, executes an image or exits changes, and only *)
(* in its own space; a clone starts with a copy of its parent's.           *)
(*                                                                         *)
(* One page, the vdso's, is shared by all until they store to it.  A store *)
(* makes a page of one's own, but an image with a segment there is loaded  *)
(* into the shared page.                                                   *)
(***************************************************************************)
EXTENDS Naturals

CONSTANTS MaxPid, VPage, TextPages, HeapPage, StackPage, VdsoAt, Data, Zero, VdsoCode

VARIABLES
  space,   \* space[p][v]: Own(d) if p has a page that holds d at v, Shared
           \* if it has the shared page there, Absent if it has none
  shared,  \* what the shared page holds
  born     \* processes created so far

Absent == <<>>
Shared == <<"shared">>
Own(d) == <<"own", d>>

NoSpace == [v \in VPage |-> Absent]
Image(t, text, argv) ==
  [NoSpace EXCEPT ![t] = Own(text), ![VdsoAt] = Shared, ![HeapPage] = Own(Zero),
                  ![StackPage] = Own(argv)]
Loaded(t, text, before) == IF t = VdsoAt THEN text ELSE before

Init ==
  /\ born = 1
  /\ \E t \in TextPages, text, argv \in Data :
       /\ space = [p \in 1..MaxPid |-> IF p = 1 THEN Image(t, text, argv) ELSE NoSpace]
       /\ shared = Loaded(t, text, VdsoCode)

Alive(p) == p <= born /\ space[p] # NoSpace

(* A store, which needs a mapped page, or a mapping, which needs none.     *)
Put(p, v, d) == space' = [space EXCEPT ![p][v] = Own(d)] /\ UNCHANGED <<shared, born>>

Fork(p) ==
  /\ born < MaxPid
  /\ born' = born + 1
  /\ space' = [space EXCEPT ![born + 1] = space[p]]
  /\ UNCHANGED shared

Execute(p) ==
  /\ \E t \in TextPages, text, argv \in Data :
       /\ space' = [space EXCEPT ![p] = Image(t, text, argv)]
       /\ shared' = Loaded(t, text, shared)
  /\ UNCHANGED born

Vanish(p) == space' = [space EXCEPT ![p] = NoSpace] /\ UNCHANGED <<shared, born>>

Next ==
  \E p \in 1..MaxPid :
    /\ Alive(p)
    /\ \/ \E v \in VPage, d \in Data : Put(p, v, d)
       \/ Fork(p)
       \/ Execute(p)
       \/ Vanish(p)

Spec == Init /\ [][Next]_<<space, shared, born>>
==============================================================================
