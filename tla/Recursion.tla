------------------------------- MODULE Recursion -------------------------------
(***************************************************************************)
(* Induction and recursion, for the proofs about definitions that recurse: *)
(* what they compute for every input.  A property is the set of what has   *)
(* it, and the body of a recursive definition a function D of the function *)
(* that is defined and of its argument.                                    *)
(***************************************************************************)
EXTENDS FiniteSetTheorems, TLAPS

(* Every set of natural numbers has a least one: the intervals from 0 to   *)
(* its elements are finite sets, one of which contains no other.           *)
LEMMA LeastExists ==
  ASSUME NEW S, S \subseteq Nat, S # {}
  PROVE  \E n \in S : \A m \in S : n <= m
<1> DEFINE T == {0..n : n \in S}
<1>1. IsWellFoundedOn(StrictSubsetOrdering(Nat), FiniteSubsetsOf(Nat))
  BY FS_StrictSubsetOrderingWellFounded
<1>2. T \subseteq FiniteSubsetsOf(Nat)
  <2>1. \A n \in Nat : IsFiniteSet(0..n) BY FS_Interval
  <2> QED BY <2>1 DEF FiniteSubsetsOf
<1>3. T # {}
  OBVIOUS
<1>4. \E x \in T : \A y \in T : ~(<<y, x>> \in StrictSubsetOrdering(Nat))
  <2> HIDE DEF T
  <2> QED BY <1>1, <1>2, <1>3, WFMin
<1>5. PICK x \in T : \A y \in T : ~(<<y, x>> \in StrictSubsetOrdering(Nat))
  BY <1>4
<1>6. PICK n \in S : x = 0..n
  OBVIOUS
<1>7. ASSUME NEW m \in S, m < n PROVE FALSE
  <2>1. 0..m \in T OBVIOUS
  <2>2. <<0..m, 0..n>> \in StrictSubsetOrdering(Nat)
    BY <1>7 DEF StrictSubsetOrdering
  <2> QED BY <2>1, <2>2, <1>5, <1>6
<1> QED BY <1>7

(* Induction over the natural numbers.                                     *)
LEMMA Induction ==
  ASSUME NEW S, 0 \in S, \A n \in Nat : n \in S => n + 1 \in S
  PROVE  Nat \subseteq S
<1> DEFINE Rest == Nat \ S
<1>1. SUFFICES ASSUME Rest # {} PROVE FALSE OBVIOUS
<1>2. PICK n \in Rest : \A m \in Rest : n <= m
  <2> Rest \subseteq Nat OBVIOUS
  <2> HIDE DEF Rest
  <2> QED BY <1>1, LeastExists
<1>3. n \in Nat /\ n # 0 OBVIOUS
<1>4. n - 1 \in Nat /\ n - 1 \notin Rest BY <1>2, <1>3
<1> QED BY <1>3, <1>4

-----------------------------------------------------------------------------
(* R is founded on S if every set of elements has one that none of them is *)
(* below.                                                                  *)
Founded(R, S) ==
  \A A \in SUBSET S : A # {} => \E x \in A : \A y \in A : <<y, x>> \notin R

(* The value of D for x depends on the function's values below x only.     *)
Local(D, R, S, T) ==
  \A x \in S : \A g, h \in [S -> T] :
    (\A y \in S : <<y, x>> \in R => g[y] = h[y]) => D[<<g, x>>] = D[<<h, x>>]

(* D is the body of a definition of functions from S to T, and defines one.*)
IsBody(D, S, T) == T # {} /\ D \in [[S -> T] \X S -> T]
Defines(D, S, T) == \E f \in [S -> T] : \A x \in S : f[x] = D[<<f, x>>]

(* Induction over a founded relation.                                      *)
LEMMA FoundedInduction ==
  ASSUME NEW R, NEW S, Founded(R, S), NEW A,
         \A x \in S : (\A y \in S : <<y, x>> \in R => y \in A) => x \in A
  PROVE  S \subseteq A
<1> DEFINE Rest == S \ A
<1>1. SUFFICES ASSUME Rest # {} PROVE FALSE OBVIOUS
<1>2. PICK x \in Rest : \A y \in Rest : <<y, x>> \notin R
  <2> Rest \in SUBSET S OBVIOUS
  <2> HIDE DEF Rest
  <2> QED BY <1>1 DEF Founded
<1> QED BY <1>2

(* A recursive definition whose body is local defines a function.          *)
Closed(P, R, S) == \A x \in P : \A y \in S : <<y, x>> \in R => y \in P
Solves(P, g, D) == \A x \in P : g[x] = D[<<g, x>>]
Partial(D, R, S, T) ==
  {a \in (SUBSET S) \X [S -> T] : Closed(a[1], R, S) /\ Solves(a[1], a[2], D)}

LEMMA PartialAgree ==
  ASSUME NEW R, NEW S, NEW T, NEW D, Founded(R, S), Local(D, R, S, T),
         NEW a \in Partial(D, R, S, T), NEW b \in Partial(D, R, S, T)
  PROVE  \A x \in a[1] \cap b[1] : a[2][x] = b[2][x]
<1> DEFINE Differ == {x \in a[1] \cap b[1] : a[2][x] # b[2][x]}
<1>0. /\ a[1] \subseteq S /\ a[2] \in [S -> T] /\ Closed(a[1], R, S) /\ Solves(a[1], a[2], D)
      /\ b[1] \subseteq S /\ b[2] \in [S -> T] /\ Closed(b[1], R, S) /\ Solves(b[1], b[2], D)
  BY DEF Partial
<1>1. SUFFICES ASSUME Differ # {} PROVE FALSE OBVIOUS
<1>2. PICK x \in Differ : \A y \in Differ : <<y, x>> \notin R
  <2> Differ \in SUBSET S BY <1>0
  <2> HIDE DEF Differ
  <2> QED BY <1>1 DEF Founded
<1>3. x \in S /\ x \in a[1] /\ x \in b[1] /\ a[2][x] # b[2][x] BY <1>0
<1>4. \A y \in S : <<y, x>> \in R => a[2][y] = b[2][y]
  BY <1>0, <1>2, <1>3 DEF Closed
<1>5. D[<<a[2], x>>] = D[<<b[2], x>>]
  <2> HIDE DEF Differ
  <2> QED BY <1>0, <1>3, <1>4 DEF Local
<1> QED BY <1>0, <1>3, <1>5 DEF Solves

(* A body that looks only below its argument, in a founded relation,       *)
(* defines a function: the union of those that solve it on the elements    *)
(* below some element, which agree.                                        *)
THEOREM RecursiveFunction ==
  ASSUME NEW S, NEW T, NEW R, NEW D, IsBody(D, S, T), Founded(R, S), Local(D, R, S, T)
  PROVE  Defines(D, S, T)
<1>0. T # {} /\ D \in [[S -> T] \X S -> T] BY DEF IsBody
<1> DEFINE Parts == Partial(D, R, S, T)
           U == {x \in S : \E a \in Parts : x \in a[1]}
           Part(x) == CHOOSE a \in Parts : x \in a[1]
<1>1. PICK t \in T : TRUE BY <1>0
<1> DEFINE F == [x \in S |-> IF x \in U THEN Part(x)[2][x] ELSE t]
<1>2. \A a \in Parts : a[1] \subseteq S /\ a[2] \in [S -> T] /\ Closed(a[1], R, S) /\ Solves(a[1], a[2], D)
  BY DEF Partial
<1>3. \A x \in U : Part(x) \in Parts /\ x \in Part(x)[1] OBVIOUS
<1>4. F \in [S -> T]
  <2>1. \A x \in U : Part(x)[2][x] \in T BY <1>2, <1>3
  <2> HIDE DEF Part, U
  <2> QED BY <2>1
<1>5. \A a \in Parts : \A x \in a[1] : x \in S /\ x \in U /\ F[x] = a[2][x]
  <2> SUFFICES ASSUME NEW a \in Parts, NEW x \in a[1] PROVE x \in S /\ x \in U /\ F[x] = a[2][x] OBVIOUS
  <2>1. x \in S BY <1>2
  <2>2. x \in U BY <2>1
  <2>3. F[x] = Part(x)[2][x] BY <2>1, <2>2
  <2>4. Part(x) \in Parts /\ x \in Part(x)[1] BY <1>3, <2>2
  <2> HIDE DEF Part, U, F
  <2>5. Part(x)[2][x] = a[2][x] BY <2>4, PartialAgree
  <2> QED BY <2>1, <2>2, <2>3, <2>5
<1>6. Closed(U, R, S)
  <2> SUFFICES ASSUME NEW x \in U, NEW y \in S, <<y, x>> \in R PROVE y \in U BY DEF Closed
  <2>1. PICK a \in Parts : x \in a[1] OBVIOUS
  <2>2. y \in a[1] BY <1>2, <2>1 DEF Closed
  <2> QED BY <1>5, <2>2
<1>7. Solves(U, F, D)
  <2> SUFFICES ASSUME NEW x \in U PROVE F[x] = D[<<F, x>>] BY DEF Solves
  <2>1. PICK a \in Parts : x \in a[1] OBVIOUS
  <2>2. x \in S /\ F[x] = a[2][x] BY <1>5, <2>1
  <2>3. a[2] \in [S -> T] /\ a[2][x] = D[<<a[2], x>>] BY <1>2, <2>1 DEF Solves
  <2>4. \A y \in S : <<y, x>> \in R => F[y] = a[2][y]
    <3> SUFFICES ASSUME NEW y \in S, <<y, x>> \in R PROVE F[y] = a[2][y] OBVIOUS
    <3>1. y \in a[1] BY <1>2, <2>1 DEF Closed
    <3> HIDE DEF F, U, Parts
    <3> QED BY <1>5, <3>1
  <2> HIDE DEF F, U, Parts
  <2>5. D[<<F, x>>] = D[<<a[2], x>>] BY <1>4, <2>2, <2>3, <2>4 DEF Local
  <2> QED BY <2>2, <2>3, <2>5
<1>8. U = S
  <2> DEFINE Rest == S \ U
  <2>1. SUFFICES ASSUME Rest # {} PROVE FALSE OBVIOUS
  <2>2. PICK x \in Rest : \A y \in Rest : <<y, x>> \notin R
    <3> Rest \in SUBSET S OBVIOUS
    <3> HIDE DEF Rest
    <3> QED BY <2>1 DEF Founded
  <2> DEFINE P == U \cup {x}
             G == [z \in S |-> IF z = x THEN D[<<F, x>>] ELSE F[z]]
  <2>3. x \in S /\ x \notin U OBVIOUS
  <2>4. U \subseteq S OBVIOUS
  <2>5. \A y \in S : <<y, x>> \in R => y \in U BY <2>2
  <2> HIDE DEF F, U, Parts
  <2>6. D[<<F, x>>] \in T BY <1>0, <1>4, <2>3
  <2>7. G \in [S -> T] BY <1>4, <2>6
  <2>8. \A z \in U : G[z] = F[z] BY <2>3, <2>4
  <2>9. G[x] = D[<<F, x>>] BY <2>3
  <2>10. Closed(P, R, S) BY <1>6, <2>5 DEF Closed
  <2> HIDE DEF G
  <2>11. \A z \in P : D[<<G, z>>] = D[<<F, z>>]
    <3> SUFFICES ASSUME NEW z \in P PROVE D[<<G, z>>] = D[<<F, z>>] OBVIOUS
    <3>1. z \in S BY <2>3, <2>4
    <3>2. \A y \in S : <<y, z>> \in R => y \in U BY <1>6, <2>5 DEF Closed
    <3>3. \A y \in S : <<y, z>> \in R => G[y] = F[y] BY <3>2, <2>8
    <3> HIDE DEF P
    <3> QED BY <1>4, <2>7, <3>1, <3>3 DEF Local
  <2>12. Solves(P, G, D) BY <1>7, <2>8, <2>9, <2>11 DEF Solves
  <2>13. P \in SUBSET S BY <2>3, <2>4
  <2>14. <<P, G>> \in Parts BY <2>7, <2>10, <2>12, <2>13 DEF Parts, Partial
  <2>15. x \in U BY <2>3, <2>14 DEF U
  <2> QED BY <2>3, <2>15
<1> HIDE DEF F, U
<1> QED BY <1>4, <1>7, <1>8 DEF Solves, Defines

-----------------------------------------------------------------------------
(* Definitions that recurse over numbers, from each to the next.           *)
Steps(f, N, a, D) == f[0] = a /\ \A n \in 1..N : f[n] = D[<<n, f[n - 1]>>]
From0(S) == S \subseteq Nat /\ 0 \in S /\ \A n \in S : n # 0 => n - 1 \in S

IsStep(D, S, T) == D \in [(S \ {0}) \X T -> T]
StepsDefine(S, T, a, D) ==
  \E f \in [S -> T] : f[0] = a /\ \A n \in S \ {0} : f[n] = D[<<n, f[n - 1]>>]

(* A step from each number to the next defines a function.                 *)
LEMMA SteppingDefines ==
  ASSUME NEW S, From0(S), NEW T, NEW a \in T, NEW D, IsStep(D, S, T)
  PROVE  StepsDefine(S, T, a, D)
<1> DEFINE R == {xy \in S \X S : xy[1] < xy[2]}
           B == [c \in [S -> T] \X S |-> IF c[2] = 0 THEN a ELSE D[<<c[2], c[1][c[2] - 1]>>]]
<1>0. /\ S \subseteq Nat /\ 0 \in S /\ \A n \in S : n # 0 => n - 1 \in S
      /\ D \in [(S \ {0}) \X T -> T]
  BY DEF From0, IsStep
<1>1. Founded(R, S)
  <2> SUFFICES ASSUME NEW A \in SUBSET S, A # {} PROVE \E x \in A : \A y \in A : <<y, x>> \notin R
    BY DEF Founded
  <2>1. PICK x \in A : \A y \in A : x <= y
    <3>1. A \subseteq Nat BY <1>0
    <3> QED BY <3>1, LeastExists
  <2>2. \A y \in A : <<y, x>> \notin R BY <1>0, <2>1
  <2> QED BY <2>2
<1>2. \A f \in [S -> T], n \in S :
        /\ B[<<f, n>>] = IF n = 0 THEN a ELSE D[<<n, f[n - 1]>>]
        /\ B[<<f, n>>] \in T
        /\ n # 0 => n - 1 \in S /\ <<n - 1, n>> \in R
  <2> SUFFICES ASSUME NEW f \in [S -> T], NEW n \in S
               PROVE  /\ B[<<f, n>>] = IF n = 0 THEN a ELSE D[<<n, f[n - 1]>>]
                      /\ B[<<f, n>>] \in T
                      /\ n # 0 => n - 1 \in S /\ <<n - 1, n>> \in R
    OBVIOUS
  <2>1. n # 0 => n - 1 \in S /\ <<n - 1, n>> \in R BY <1>0
  <2>2. B[<<f, n>>] = IF n = 0 THEN a ELSE D[<<n, f[n - 1]>>] OBVIOUS
  <2>3. n # 0 => D[<<n, f[n - 1]>>] \in T
    <3> HIDE DEF R, B
    <3> QED BY <1>0, <2>1
  <2> HIDE DEF R, B
  <2> QED BY <2>1, <2>2, <2>3
<1>3. B \in [[S -> T] \X S -> T]
  <2> HIDE DEF R
  <2>1. \A c \in [S -> T] \X S : c[1] \in [S -> T] /\ c[2] \in S /\ c = <<c[1], c[2]>> OBVIOUS
  <2>2. \A c \in [S -> T] \X S : B[c] \in T BY <1>2, <2>1
  <2> QED BY <2>2
<1>4. Local(B, R, S, T)
  <2> HIDE DEF R, B
  <2> SUFFICES ASSUME NEW n \in S, NEW f \in [S -> T], NEW h \in [S -> T],
                      \A m \in S : <<m, n>> \in R => f[m] = h[m]
               PROVE  B[<<f, n>>] = B[<<h, n>>]
    BY DEF Local
  <2>1. B[<<f, n>>] = IF n = 0 THEN a ELSE D[<<n, f[n - 1]>>] BY <1>2
  <2>2. B[<<h, n>>] = IF n = 0 THEN a ELSE D[<<n, h[n - 1]>>] BY <1>2
  <2>3. n # 0 => n - 1 \in S /\ <<n - 1, n>> \in R BY <1>2
  <2>4. n # 0 => f[n - 1] = h[n - 1] BY <2>3
  <2> QED BY <2>1, <2>2, <2>4
<1> HIDE DEF R, B
<1>5. IsBody(B, S, T) BY <1>3 DEF IsBody
<1>6. Defines(B, S, T) BY <1>1, <1>4, <1>5, RecursiveFunction
<1>7. PICK f \in [S -> T] : \A n \in S : f[n] = B[<<f, n>>] BY <1>6 DEF Defines
<1>8. f[0] = a BY <1>0, <1>2, <1>7
<1>9. \A n \in S \ {0} : f[n] = D[<<n, f[n - 1]>>] BY <1>2, <1>7
<1> QED BY <1>7, <1>8, <1>9 DEF StepsDefine

LEMMA CountingDefines ==
  ASSUME NEW N \in Nat, NEW T, NEW a \in T, NEW D \in [(1..N) \X T -> T]
  PROVE  \E f \in [0..N -> T] : Steps(f, N, a, D)
<1> DEFINE S == 0..N
           P == 1..N
<1>1. From0(S) BY DEF From0
<1>2. P = S \ {0} OBVIOUS
<1>3. IsStep(D, S, T) BY <1>2 DEF IsStep
<1> HIDE DEF S, P
<1>4. StepsDefine(S, T, a, D) BY <1>1, <1>3, SteppingDefines
<1> QED BY <1>2, <1>4 DEF StepsDefine, Steps, S, P
==============================================================================
