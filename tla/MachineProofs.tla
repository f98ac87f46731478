----------------------------- MODULE MachineProofs -----------------------------
(***************************************************************************)
(* What a program sees of the interpreter is the architecture: for every   *)
(* size of bytes, every set of registers that signals save, every          *)
(* executable, and wherever quanta end, calls block and signals come.      *)
(*                                                                         *)
(* The argument.  Words are numbers, sets of bits and four bytes, and the  *)
(* interpreter goes from one to another by JavaScript's operators where the*)
(* architecture says what becomes of the bits: the first part proves what  *)
(* each operator does to the bits.  The second shows that every            *)
(* instruction, in the state that the loop's variables are in, gives a     *)
(* state that the architecture allows (Correct, Stepped).  The third adds  *)
(* calls, signals, quanta and the loader.  The inductive invariant is      *)
(* TypeOK, with a memory that is a function, and that nothing runs before  *)
(* there is a program.  The last part is the loader: what it leaves, byte  *)
(* by byte as it goes, is what the executable says of each address, and    *)
(* the frame on the stack gives back the arguments.                        *)
(***************************************************************************)
EXTENDS Machine, Recursion, SequenceTheorems

(* Division.                                                               *)
LEMMA Unique ==
  ASSUME NEW x \in Int, NEW m \in Nat \ {0}, NEW q \in Int, NEW r \in 0..(m - 1), x = q * m + r
  PROVE  x \div m = q /\ x % m = r
OBVIOUS

LEMMA Division ==
  ASSUME NEW x \in Int, NEW m \in Nat \ {0}
  PROVE  \E q \in Int, r \in 0..(m - 1) : q = x \div m /\ r = x % m /\ x = q * m + r
<1>1. x \div m \in Int /\ x % m \in 0..(m - 1) OBVIOUS
<1>2. PICK q \in Int, r \in 0..(m - 1) : q = x \div m /\ r = x % m BY <1>1
<1>3. x = q * m + r BY <1>2
<1> QED BY <1>2, <1>3

(* Dividing twice; and what the part below a product m * n of a number is, *)
(* as m parts.                                                             *)
DividesTwice(x, m, n) ==
  /\ m * n \in Nat \ {0}
  /\ (x \div m) \div n = x \div (m * n)
  /\ (x % (m * n)) \div m = (x \div m) % n
  /\ (x % (m * n)) % m = x % m

LEMMA Quotients ==
  ASSUME NEW x \in Int, NEW m \in Nat \ {0}, NEW n \in Nat \ {0}
  PROVE  DividesTwice(x, m, n)
<1>0. m * n \in Nat \ {0} OBVIOUS
<1>1. PICK q \in Int, r \in 0..(m - 1) : q = x \div m /\ r = x % m /\ x = q * m + r BY Division
<1>2. PICK s \in Int, t \in 0..(n - 1) : s = q \div n /\ t = q % n /\ q = s * n + t BY Division
<1>3. t * m + r \in 0..(m * n - 1)
  <2>1. t * m \in Nat /\ t * m + r \in Nat OBVIOUS
  <2>2. t * m <= (n - 1) * m OBVIOUS
  <2>3. (n - 1) * m = m * n - m OBVIOUS
  <2> QED BY <2>1, <2>2, <2>3, <1>0
<1>4. x = s * (m * n) + (t * m + r)
  <2>1. (s * n + t) * m = s * (m * n) + t * m OBVIOUS
  <2>2. q * m = s * (m * n) + t * m BY <1>2, <2>1
  <2>3. s * (m * n) \in Int /\ t * m \in Int OBVIOUS
  <2> DEFINE a == s * (m * n)
             b == t * m
  <2>4. x = (a + b) + r BY <1>1, <2>2
  <2> HIDE DEF a, b
  <2>5. a \in Int /\ b \in Int BY <2>3 DEF a, b
  <2>6. x = a + (b + r) BY <2>4, <2>5
  <2> QED BY <2>6 DEF a, b
<1>5. x \div (m * n) = s /\ x % (m * n) = t * m + r
  <2> DEFINE k == m * n
             u == t * m + r
  <2>1. k \in Nat \ {0} /\ u \in 0..(k - 1) /\ x = s * k + u BY <1>0, <1>3, <1>4
  <2> HIDE DEF k, u
  <2>2. x \div k = s /\ x % k = u BY <2>1, Unique
  <2> QED BY <2>2 DEF k, u
<1>6. (t * m + r) \div m = t /\ (t * m + r) % m = r
  <2> DEFINE u == t * m + r
  <2>1. u \in Int /\ t \in Int OBVIOUS
  <2>2. u = t * m + r OBVIOUS
  <2> HIDE DEF u
  <2>3. u \div m = t /\ u % m = r BY <2>1, <2>2, Unique
  <2> QED BY <2>2, <2>3
<1>7. x % (m * n) = t * m + r /\ x \div (m * n) = q \div n
  BY <1>2, <1>5, Zenon
<1>8. (x \div m) \div n = x \div (m * n) BY <1>1, <1>7, Zenon
<1>9. (x % (m * n)) \div m = (x \div m) % n /\ (x % (m * n)) % m = x % m
  BY <1>1, <1>2, <1>6, <1>7, Zenon
<1> QED BY <1>0, <1>8, <1>9 DEF DividesTwice

(* Numbers with the same remainder differ by a multiple.                   *)
LEMMA Congruent ==
  ASSUME NEW x \in Int, NEW y \in Int, NEW m \in Nat \ {0}
  PROVE  (x % m = y % m) <=> \E k \in Int : x = y + k * m
<1>1. PICK q \in Int, r \in 0..(m - 1) : q = x \div m /\ r = x % m /\ x = q * m + r BY Division
<1>2. PICK s \in Int, t \in 0..(m - 1) : s = y \div m /\ t = y % m /\ y = s * m + t BY Division
<1>3. ASSUME r = t PROVE \E k \in Int : x = y + k * m
  <2>1. x = y + (q - s) * m BY <1>1, <1>2, <1>3
  <2> QED BY <2>1
<1>4. ASSUME NEW k \in Int, x = y + k * m PROVE r = t
  <2>1. x = (s + k) * m + t BY <1>2, <1>4
  <2>2. x % m = t BY <2>1, Unique
  <2> QED BY <1>1, <2>2
<1> QED BY <1>1, <1>2, <1>3, <1>4

LEMMA Small == ASSUME NEW m \in Nat \ {0}, NEW x \in 0..(m - 1) PROVE x % m = x /\ x \div m = 0
<1>1. x \in Int /\ x = 0 * m + x OBVIOUS
<1> QED BY <1>1, Unique

(* The powers of two.                                                      *)
LEMMA TwoDefined ==
  Two \in [Nat -> Nat \ {0}] /\ Two[0] = 1 /\ \A n \in Nat \ {0} : Two[n] = 2 * Two[n - 1]
<1> DEFINE T == Nat \ {0}
           D == [c \in (Nat \ {0}) \X T |-> 2 * c[2]]
<1>1. From0(Nat) BY DEF From0
<1>2. \A n \in Nat \ {0}, t \in T : D[<<n, t>>] = 2 * t /\ 2 * t \in T OBVIOUS
<1>3. IsStep(D, Nat, T)
  <2>1. \A c \in (Nat \ {0}) \X T : D[c] \in T
    <3> SUFFICES ASSUME NEW c \in (Nat \ {0}) \X T PROVE D[c] \in T OBVIOUS
    <3>1. D[c] = 2 * c[2] /\ c[2] \in T OBVIOUS
    <3> QED BY <3>1
  <2>2. D = [c \in (Nat \ {0}) \X T |-> D[c]] OBVIOUS
  <2> HIDE DEF D, T
  <2> QED BY <2>1, <2>2 DEF IsStep
<1>4. 1 \in T OBVIOUS
<1> HIDE DEF T, D
<1>5. PICK f \in [Nat -> T] : f[0] = 1 /\ \A n \in Nat \ {0} : f[n] = D[<<n, f[n - 1]>>]
  BY <1>1, <1>3, <1>4, SteppingDefines DEF StepsDefine
<1>6. \A n \in Nat \ {0} : f[n] = 2 * f[n - 1]
  <2>1. \A n \in Nat \ {0} : n - 1 \in Nat OBVIOUS
  <2> QED BY <1>2, <1>5, <2>1
<1>7. f = [n \in Nat |-> IF n = 0 THEN 1 ELSE 2 * f[n - 1]] BY <1>5, <1>6
<1>8. Two = [n \in Nat |-> IF n = 0 THEN 1 ELSE 2 * Two[n - 1]] BY <1>7 DEF Two
<1>9. Two[0] = 1 /\ \A n \in Nat \ {0} : Two[n] = 2 * Two[n - 1]
  <2> HIDE DEF Two
  <2> QED BY <1>8
<1> HIDE DEF Two
<1>10. \A n \in Nat : Two[n] \in T
  <2> DEFINE S == {n \in Nat : Two[n] \in T}
  <2>1. 0 \in S BY <1>4, <1>9
  <2>2. \A n \in Nat : n \in S => n + 1 \in S
    <3> SUFFICES ASSUME NEW n \in S PROVE Two[n + 1] \in T OBVIOUS
    <3>1. Two[n + 1] = 2 * Two[n] BY <1>9
    <3> QED BY <3>1 DEF T
  <2> HIDE DEF S
  <2>3. Nat \subseteq S BY <2>1, <2>2, Induction
  <2> QED BY <2>3 DEF S
<1> QED BY <1>8, <1>9, <1>10 DEF T

LEMMA TwoNext == ASSUME NEW n \in Nat PROVE Two[n] \in Nat \ {0} /\ Two[n + 1] = 2 * Two[n]
BY TwoDefined

LEMMA TwoSum == ASSUME NEW m \in Nat, NEW n \in Nat PROVE Two[m + n] = Two[m] * Two[n]
<1> DEFINE S == {k \in Nat : Two[m + k] = Two[m] * Two[k]}
<1>1. 0 \in S
  <2>1. Two[m] \in Nat /\ Two[0] = 1 BY TwoNext, TwoDefined
  <2> QED BY <2>1
<1>2. \A k \in Nat : k \in S => k + 1 \in S
  <2> SUFFICES ASSUME NEW k \in S PROVE Two[m + (k + 1)] = Two[m] * Two[k + 1] OBVIOUS
  <2>1. m + k \in Nat /\ Two[m + k] = Two[m] * Two[k] OBVIOUS
  <2>2. Two[m + k + 1] = 2 * Two[m + k] /\ Two[k + 1] = 2 * Two[k] BY <2>1, TwoNext
  <2>3. Two[m] \in Nat /\ Two[k] \in Nat BY TwoNext
  <2>4. 2 * (Two[m] * Two[k]) = Two[m] * (2 * Two[k]) BY <2>3
  <2> QED BY <2>1, <2>2, <2>4
<1> HIDE DEF S
<1>3. Nat \subseteq S BY <1>1, <1>2, Induction
<1> QED BY <1>3 DEF S

LEMMA TwoDivides ==
  ASSUME NEW m \in Nat, NEW n \in 0..m
  PROVE  /\ Two[n] \in Nat \ {0} /\ Two[m - n] \in Nat \ {0}
         /\ Two[m] = Two[n] * Two[m - n] /\ Two[m] = Two[m - n] * Two[n] /\ Two[n] <= Two[m]
<1>1. n \in Nat /\ m - n \in Nat /\ n + (m - n) = m OBVIOUS
<1>2. Two[n] \in Nat \ {0} /\ Two[m - n] \in Nat \ {0} BY <1>1, TwoNext
<1>3. Two[m] = Two[n] * Two[m - n] BY <1>1, TwoSum
<1> DEFINE a == Two[n] 
           b == Two[m - n]
<1> HIDE DEF a, b
<1>4. a \in Nat \ {0} /\ b \in Nat \ {0} BY <1>2 DEF a, b
<1>5. a * b = b * a /\ a <= a * b BY <1>4
<1> QED BY <1>2, <1>3, <1>5 DEF a, b

LEMMA WFacts == W \in Nat /\ W = 4 * B /\ B \in Nat \ {0} /\ Two[W] \in Nat \ {0} /\ Two[W - 1] \in Nat \ {0}
             /\ Two[W] = 2 * Two[W - 1] /\ Two[B] \in Nat \ {0} /\ Two[W] >= 16
<1>1. B \in Nat \ {0} /\ W = 4 * B BY WordsAssumption DEF W
<1>2. W \in Nat /\ W - 1 \in Nat /\ W - 1 + 1 = W /\ 4 \in 0..W BY <1>1
<1>3. Two[W] = 2 * Two[W - 1] /\ Two[W - 1] \in Nat \ {0} BY <1>2, TwoNext
<1>4. Two[4] = 16
  <2>1. Two[0 + 1] = 2 /\ Two[1 + 1] = 2 * Two[1] /\ Two[2 + 1] = 2 * Two[2] /\ Two[3 + 1] = 2 * Two[3]
    BY TwoDefined, TwoNext
  <2> QED BY <2>1
<1>5. Two[4] <= Two[W] BY <1>2, TwoDivides
<1> QED BY <1>1, <1>2, <1>3, <1>4, <1>5, TwoNext

LEMMA UTyped == ASSUME NEW x \in Int PROVE U(x) \in Word /\ U(x) \in Nat
BY WFacts DEF U, Word

LEMMA WordUnchanged == ASSUME NEW x \in Word PROVE U(x) = x /\ x \in Nat
BY WFacts, Small DEF U, Word

LEMMA UCongruent ==
  ASSUME NEW x \in Int, NEW y \in Int PROVE (U(x) = U(y)) <=> \E k \in Int : x = y + k * Two[W]
BY WFacts, Congruent DEF U

LEMMA UU == ASSUME NEW x \in Int, NEW y \in Int
            PROVE /\ U(U(x)) = U(x) /\ U(U(x) + y) = U(x + y) /\ U(y + U(x)) = U(x + y) 
                  /\ U(x - U(y)) = U(x - y) /\ U(U(x) - y) = U(x - y)
<1> DEFINE m == Two[W]
<1>0. m \in Nat \ {0} BY WFacts
<1>1. PICK q \in Int, r \in 0..(m - 1) : q = x \div m /\ r = x % m /\ x = q * m + r BY <1>0, Division
<1>2. PICK s \in Int, t \in 0..(m - 1) : s = y \div m /\ t = y % m /\ y = s * m + t BY <1>0, Division
<1>3. U(x) = r /\ U(y) = t BY <1>1, <1>2 DEF U
<1> HIDE DEF m
<1>4. /\ r = x + (-q) * m /\ r + y = (x + y) + (-q) * m /\ x - t = (x - y) + s * m /\ r - y = (x - y) + (-q) * m
  BY <1>0, <1>1, <1>2
<1>5. U(r) = U(x) /\ U(r + y) = U(x + y) /\ U(x - t) = U(x - y) /\ U(r - y) = U(x - y)
  <2>1. -q \in Int OBVIOUS
  <2>2. /\ \E k \in Int : r = x + k * m
        /\ \E k \in Int : r + y = (x + y) + k * m 
        /\ \E k \in Int : x - t = (x - y) + k * m 
        /\ \E k \in Int : r - y = (x - y) + k * m 
    BY <1>4, <2>1
  <2>3. r \in Int /\ t \in Int /\ r + y \in Int /\ x + y \in Int /\ x - t \in Int /\ x - y \in Int /\ r - y \in Int OBVIOUS
  <2> QED BY <2>2, <2>3, UCongruent DEF m
<1>6. y + r = r + y OBVIOUS
<1> QED BY <1>3, <1>5, <1>6

(* A number and what is added of the next power of two.                    *)
LEMMA AddedBit ==
  ASSUME NEW x \in Nat, NEW n \in Nat, x < Two[n], NEW b \in {0, 1}
  PROVE  /\ x + b * Two[n] < Two[n + 1] /\ x + b * Two[n] \in Nat
         /\ (x + b * Two[n]) \div Two[n] = b /\ (x + b * Two[n]) % Two[n] = x
<1>1. Two[n] \in Nat \ {0} /\ Two[n + 1] = 2 * Two[n] BY TwoNext
<1> DEFINE m == Two[n]
<1>2. m \in Nat \ {0} /\ x \in 0..(m - 1) BY <1>1
<1> HIDE DEF m
<1>3. x + b * m < 2 * m /\ x + b * m \in Nat BY <1>2
<1>4. x + b * m = b * m + x BY <1>2
<1>5. (x + b * m) \div m = b /\ (x + b * m) % m = x
  <2> DEFINE y == x + b * m
  <2>1. y \in Int /\ b \in Int /\ y = b * m + x BY <1>3, <1>4
  <2> HIDE DEF y
  <2>2. y \div m = b /\ y % m = x BY <1>2, <2>1, Unique
  <2> QED BY <2>2 DEF y
<1> QED BY <1>1, <1>3, <1>5 DEF m

(* The bit i of a number, and of its sum with a higher power of two.       *)
LEMMA LowerBit ==
  ASSUME NEW x \in Nat, NEW n \in Nat, NEW i \in 0..(n - 1), NEW b \in Int
  PROVE  ((x + b * Two[n]) \div Two[i]) % 2 = (x \div Two[i]) % 2
<1>1. i + 1 \in 0..n /\ i \in Nat OBVIOUS
<1>2. /\ Two[i] \in Nat \ {0} /\ Two[n - (i + 1)] \in Nat \ {0}
      /\ Two[n] = Two[i + 1] * Two[n - (i + 1)] /\ Two[i + 1] = 2 * Two[i]
  BY <1>1, TwoDivides, TwoNext
<1> DEFINE m == Two[i]
           k == Two[n - (i + 1)]
<1>3. m \in Nat \ {0} /\ k \in Nat \ {0} /\ Two[n] = (2 * m) * k BY <1>2
<1> HIDE DEF m, k
<1>4. b * ((2 * m) * k) = ((b * k) * 2) * m BY <1>3
<1> DEFINE c == b * k
<1>5. c \in Int BY <1>3
<1> HIDE DEF c
<1>6. (x + (c * 2) * m) \div m = x \div m + c * 2
  <2> DEFINE d == c * 2
  <2>1. d \in Int BY <1>5
  <2> HIDE DEF d
  <2>2. (x + d * m) \div m = x \div m + d BY <1>3, <2>1
  <2> QED BY <2>2 DEF d
<1>7. x \div m \in Int BY <1>3
<1>8. (x \div m + c * 2) % 2 = (x \div m) % 2 BY <1>5, <1>7
<1> QED BY <1>3, <1>4, <1>6, <1>8 DEF m, c

(* What Number adds.                                                       *)
SumsOf(set, sum) ==
  /\ sum \in [0..W -> Nat] /\ sum[0] = 0
  /\ \A n \in 1..W : sum[n] = sum[n - 1] + (IF n - 1 \in set THEN Two[n - 1] ELSE 0)

LEMMA NumberEquation == ASSUME NEW set PROVE \E sum : SumsOf(set, sum) /\ Number(set) = sum[W]
<1> DEFINE T == Nat
           D == [c \in (1..W) \X T |-> c[2] + (IF c[1] - 1 \in set THEN Two[c[1] - 1] ELSE 0)]
<1>0. W \in Nat BY WFacts
<1>1. \A n \in 1..W : Two[n - 1] \in Nat
  <2>1. \A n \in 1..W : n - 1 \in Nat BY <1>0
  <2> QED BY <2>1, TwoNext
<1>2. \A n \in 1..W, t \in T :
        D[<<n, t>>] = t + (IF n - 1 \in set THEN Two[n - 1] ELSE 0) /\ D[<<n, t>>] \in T
  BY <1>1
<1>3. D \in [(1..W) \X T -> T]
  <2>1. \A c \in (1..W) \X T : c[1] \in 1..W /\ c[2] \in T /\ c = <<c[1], c[2]>> OBVIOUS
  <2>2. D = [c \in (1..W) \X T |-> D[c]] OBVIOUS
  <2> HIDE DEF T, D
  <2>3. \A c \in (1..W) \X T : D[c] \in T BY <1>2, <2>1
  <2> QED BY <2>2, <2>3
<1>4. 0 \in T OBVIOUS
<1> HIDE DEF T, D
<1>5. PICK f \in [0..W -> T] : Steps(f, W, 0, D) BY <1>0, <1>3, <1>4, CountingDefines
<1>6. \A n \in 1..W : f[n] = f[n - 1] + (IF n - 1 \in set THEN Two[n - 1] ELSE 0)
  <2> SUFFICES ASSUME NEW n \in 1..W
               PROVE  f[n] = f[n - 1] + (IF n - 1 \in set THEN Two[n - 1] ELSE 0)
    OBVIOUS
  <2>1. n - 1 \in 0..W BY <1>0
  <2>2. f[n] = D[<<n, f[n - 1]>>] BY <1>5 DEF Steps
  <2> QED BY <1>2, <2>1, <2>2
<1>7. f[0] = 0 BY <1>5 DEF Steps
<1>8. f = [n \in 0..W |-> IF n = 0 THEN 0 ELSE f[n - 1] + (IF n - 1 \in set THEN Two[n - 1] ELSE 0)]
  <2>1. \A n \in 0..W : n # 0 => n \in 1..W BY <1>0
  <2> QED BY <1>6, <1>7, <2>1
<1>9. PICK w : /\ w = [n \in 0..W |-> IF n = 0 THEN 0
                                      ELSE w[n - 1] + (IF n - 1 \in set THEN Two[n - 1] ELSE 0)]
               /\ Number(set) = w[W]
  BY <1>8 DEF Number
<1>10. w[0] = 0 /\ \A n \in 1..W : w[n] = w[n - 1] + (IF n - 1 \in set THEN Two[n - 1] ELSE 0)
  BY <1>0, <1>9
<1>11. \A n \in 0..W : w[n] \in Nat
  <2> DEFINE S == {n \in Nat : n \in 0..W => w[n] \in Nat}
  <2>1. 0 \in S BY <1>10
  <2>2. \A n \in Nat : n \in S => n + 1 \in S
    <3> SUFFICES ASSUME NEW n \in S, n + 1 \in 0..W PROVE w[n + 1] \in Nat OBVIOUS
    <3>1. n + 1 \in 1..W /\ n \in 0..W /\ (n + 1) - 1 = n BY <1>0
    <3>2. w[n] \in Nat BY <3>1
    <3>3. w[n + 1] = w[n] + (IF n \in set THEN Two[n] ELSE 0) BY <1>10, <3>1
    <3>4. Two[n] \in Nat BY TwoNext
    <3> QED BY <3>2, <3>3, <3>4
  <2> HIDE DEF S
  <2>3. Nat \subseteq S BY <2>1, <2>2, Induction
  <2> QED BY <1>0, <2>3 DEF S
<1>12. w \in [0..W -> Nat] BY <1>9, <1>11
<1> QED BY <1>9, <1>10, <1>12 DEF SumsOf

LEMMA SumBits ==
  ASSUME NEW set, NEW sum, SumsOf(set, sum)
  PROVE  \A n \in 0..W : /\ sum[n] \in Nat /\ sum[n] < Two[n]
                         /\ \A i \in 0..(n - 1) : (sum[n] \div Two[i]) % 2 = 1 <=> i \in set
<1> DEFINE Right(n) == /\ sum[n] \in Nat /\ sum[n] < Two[n]
                       /\ \A i \in 0..(n - 1) : (sum[n] \div Two[i]) % 2 = 1 <=> i \in set
           S == {n \in Nat : n \in 0..W => Right(n)}
<1>0. W \in Nat BY WFacts
<1>1. 0 \in S
  <2>1. sum[0] = 0 /\ Two[0] = 1 BY TwoDefined DEF SumsOf
  <2> QED BY <2>1
<1>2. \A n \in Nat : n \in S => n + 1 \in S
  <2> SUFFICES ASSUME NEW n \in Nat, n \in S, n + 1 \in 0..W PROVE Right(n + 1) OBVIOUS
  <2>1. n + 1 \in 1..W /\ n \in 0..W /\ (n + 1) - 1 = n BY <1>0
  <2>2. Right(n) BY <2>1
  <2>3. PICK b \in {0, 1} : b = IF n \in set THEN 1 ELSE 0 OBVIOUS
  <2>4. Two[n] \in Nat BY TwoNext
  <2>5. sum[n + 1] = sum[n] + b * Two[n]
    <3>1. sum[n + 1] = sum[n] + (IF n \in set THEN Two[n] ELSE 0) BY <2>1 DEF SumsOf
    <3>2. (IF n \in set THEN Two[n] ELSE 0) = b * Two[n] BY <2>3, <2>4
    <3> QED BY <3>1, <3>2
  <2>6. sum[n] \in Nat /\ sum[n] < Two[n] BY <2>2
  <2>7. sum[n + 1] < Two[n + 1] /\ sum[n + 1] \in Nat /\ sum[n + 1] \div Two[n] = b
    BY <2>5, <2>6, AddedBit
  <2>8. \A i \in 0..(n - 1) : (sum[n + 1] \div Two[i]) % 2 = (sum[n] \div Two[i]) % 2
    <3>1. b \in Int OBVIOUS
    <3> QED BY <2>5, <2>6, <3>1, LowerBit
  <2>9. (sum[n + 1] \div Two[n]) % 2 = 1 <=> n \in set BY <2>3, <2>7
  <2>10. \A i \in 0..n : i = n \/ i \in 0..(n - 1) OBVIOUS
  <2> QED BY <2>1, <2>2, <2>7, <2>8, <2>9, <2>10
<1> HIDE DEF S
<1>3. Nat \subseteq S BY <1>1, <1>2, Induction
<1> QED BY <1>0, <1>3 DEF S

(* A set of bits, as a number, has these bits.                             *)
LEMMA BitsOfNumber ==
  ASSUME NEW set PROVE Number(set) \in Word /\ Bits(Number(set)) = set \cap 0..(W - 1)
<1>0. W \in Nat /\ W \in 0..W BY WFacts
<1>1. PICK sum : SumsOf(set, sum) /\ Number(set) = sum[W] BY NumberEquation
<1>2. /\ sum[W] \in Nat /\ sum[W] < Two[W]
      /\ \A i \in 0..(W - 1) : (sum[W] \div Two[i]) % 2 = 1 <=> i \in set
  BY <1>0, <1>1, SumBits
<1>3. Number(set) \in Word BY <1>1, <1>2, WFacts DEF Word
<1>4. U(Number(set)) = Number(set) BY <1>3, WordUnchanged
<1> QED BY <1>1, <1>2, <1>3, <1>4 DEF Bits

(* A word is the number that its bits are.                                 *)
LEMMA NextRemainder ==
  ASSUME NEW x \in Nat, NEW n \in Nat
  PROVE  /\ x % Two[n + 1] = (x % Two[n]) + ((x \div Two[n]) % 2) * Two[n]
         /\ (x \div Two[n]) % 2 \in {0, 1}
<1> DEFINE m == Two[n]
<1>0. m \in Nat \ {0} /\ Two[n + 1] = 2 * m BY TwoNext
<1> HIDE DEF m
<1>1. PICK q \in Int, r \in 0..(m - 1) : q = x \div m /\ r = x % m /\ x = q * m + r BY <1>0, Division
<1>2. PICK s \in Int, t \in 0..1 : s = q \div 2 /\ t = q % 2 /\ q = s * 2 + t
  <2>1. 2 \in Nat \ {0} /\ 2 - 1 = 1 OBVIOUS
  <2> QED BY <2>1, Division
<1>3. x = s * (2 * m) + (r + t * m)
  <2>1. (s * 2 + t) * m = s * (2 * m) + t * m BY <1>0
  <2>2. s * (2 * m) \in Int /\ t * m \in Int BY <1>0
  <2>3. x = (s * (2 * m) + t * m) + r BY <1>1, <1>2, <2>1
  <2> QED BY <2>2, <2>3
<1>4. r + t * m \in 0..(2 * m - 1) BY <1>0
<1>5. x % (2 * m) = r + t * m
  <2> DEFINE k == 2 * m
             u == r + t * m
  <2>1. k \in Nat \ {0} /\ u \in 0..(k - 1) /\ x = s * k + u BY <1>0, <1>3, <1>4
  <2> HIDE DEF k, u
  <2>2. x % k = u BY <2>1, Unique
  <2> QED BY <2>2 DEF k, u
<1>6. t \in {0, 1} OBVIOUS
<1>7. (x \div m) % 2 = t BY <1>1, <1>2
<1> QED BY <1>0, <1>1, <1>5, <1>6, <1>7 DEF m

LEMMA NumberOfBits == ASSUME NEW x \in Word PROVE Number(Bits(x)) = x
<1>0. W \in Nat /\ W \in 0..W /\ x \in Nat /\ U(x) = x BY WFacts, WordUnchanged
<1>1. PICK sum : SumsOf(Bits(x), sum) /\ Number(Bits(x)) = sum[W] BY NumberEquation
<1> DEFINE S == {n \in Nat : n \in 0..W => sum[n] = x % Two[n]}
<1>2. 0 \in S
  <2>1. x % 1 = 0 BY <1>0
  <2>2. sum[0] = 0 /\ Two[0] = 1 BY <1>1, TwoDefined DEF SumsOf
  <2> QED BY <2>1, <2>2
<1>3. \A n \in Nat : n \in S => n + 1 \in S
  <2> SUFFICES ASSUME NEW n \in S, n + 1 \in 0..W PROVE sum[n + 1] = x % Two[n + 1] OBVIOUS
  <2>1. n + 1 \in 1..W /\ n \in 0..W /\ n \in 0..(W - 1) /\ (n + 1) - 1 = n BY <1>0
  <2>2. sum[n] = x % Two[n] BY <2>1
  <2>3. sum[n + 1] = sum[n] + (IF n \in Bits(x) THEN Two[n] ELSE 0) BY <1>1, <2>1 DEF SumsOf
  <2>4. n \in Bits(x) <=> (x \div Two[n]) % 2 = 1 BY <1>0, <2>1 DEF Bits
  <2>5. PICK b \in {0, 1} : b = (x \div Two[n]) % 2 BY <1>0, NextRemainder
  <2>6. x % Two[n + 1] = (x % Two[n]) + b * Two[n] BY <1>0, <2>5, NextRemainder
  <2>7. Two[n] \in Nat BY TwoNext
  <2>8. (IF n \in Bits(x) THEN Two[n] ELSE 0) = b * Two[n] BY <2>4, <2>5, <2>7
  <2> QED BY <2>2, <2>3, <2>6, <2>8
<1> HIDE DEF S
<1>4. Nat \subseteq S BY <1>2, <1>3, Induction
<1>5. sum[W] = x % Two[W] BY <1>0, <1>4 DEF S
<1> QED BY <1>0, <1>1, <1>5 DEF U

LEMMA SameBits == ASSUME NEW x \in Word, NEW y \in Word, Bits(x) = Bits(y) PROVE x = y
BY NumberOfBits

LEMMA IsNumber ==
  ASSUME NEW x \in Word, NEW set, Bits(x) = set \cap 0..(W - 1) PROVE Number(set) = x
BY BitsOfNumber, SameBits

LEMMA BitsOfU == ASSUME NEW x \in Int PROVE Bits(U(x)) = Bits(x) /\ Bits(x) \subseteq 0..(W - 1)
BY UU DEF Bits

(* The bits of any number.                                                 *)
LEMMA BitOf ==
  ASSUME NEW x \in Int, NEW i \in 0..(W - 1)
  PROVE  i \in Bits(x) <=> (x \div Two[i]) % 2 = 1
<1>0. Two[W] \in Nat \ {0} /\ W \in Nat BY WFacts
<1>1. PICK q \in Int, r \in 0..(Two[W] - 1) : q = x \div Two[W] /\ r = x % Two[W] /\ x = q * Two[W] + r
  BY <1>0, Division
<1>2. U(x) = r /\ r \in Nat BY <1>1 DEF U
<1>3. x = r + q * Two[W] BY <1>0, <1>1
<1>4. (x \div Two[i]) % 2 = (r \div Two[i]) % 2 BY <1>0, <1>2, <1>3, LowerBit
<1> QED BY <1>2, <1>4 DEF Bits

LEMMA ITyped == ASSUME NEW x \in Int PROVE I(x) \in (-Two[W - 1])..(Two[W - 1] - 1) /\ I(x) \in Int
BY UTyped, WFacts DEF I, Word

LEMMA UOfI == ASSUME NEW x \in Int PROVE U(I(x)) = U(x)
<1>1. U(x) \in Int /\ Two[W] \in Int BY UTyped, WFacts
<1>2. CASE U(x) < Two[W - 1] BY <1>2, UU DEF I
<1>3. CASE ~(U(x) < Two[W - 1])
  <2>1. I(x) = U(x) + (-1) * Two[W] BY <1>1, <1>3 DEF I
  <2>2. U(U(x) + (-1) * Two[W]) = U(U(x)) 
    <3>1. U(x) + (-1) * Two[W] \in Int BY <1>1
    <3>2. \E k \in Int : U(x) + (-1) * Two[W] = U(x) + k * Two[W] OBVIOUS
    <3> QED BY <1>1, <3>1, <3>2, UCongruent
  <2> QED BY <2>1, <2>2, UU
<1> QED BY <1>2, <1>3

LEMMA BitsOfI == ASSUME NEW x \in Int PROVE Bits(I(x)) = Bits(x)
BY UOfI, BitsOfU, ITyped

(* Congruent factors have congruent products.                              *)
LEMMA UTimes == ASSUME NEW x \in Int, NEW y \in Int, NEW z \in Int, U(x) = U(y) PROVE U(x * z) = U(y * z)
<1>0. Two[W] \in Nat BY WFacts
<1>1. PICK k \in Int : x = y + k * Two[W] BY UCongruent
<1>2. x * z = y * z + (k * z) * Two[W] BY <1>0, <1>1
<1>3. k * z \in Int /\ x * z \in Int /\ y * z \in Int OBVIOUS
<1>4. \E c \in Int : x * z = y * z + c * Two[W] BY <1>2, <1>3
<1> QED BY <1>3, <1>4, UCongruent

(* Multiplying by a power of two shifts to the left.                       *)
LEMMA ShiftedLeft ==
  ASSUME NEW x \in Int, NEW n \in Nat
  PROVE  Bits(x * Two[n]) = {i + n : i \in Bits(x)} \cap 0..(W - 1)
<1>0. Two[n] \in Nat \ {0} /\ W \in Nat BY TwoNext, WFacts
<1>1. x * Two[n] \in Int BY <1>0
<1>2. Bits(x) \subseteq 0..(W - 1) /\ Bits(x * Two[n]) \subseteq 0..(W - 1) BY <1>1, BitsOfU
<1>3. ASSUME NEW j \in 0..(W - 1), j < n PROVE j \notin Bits(x * Two[n])
  <2>1. j \in 0..(n - 1) BY <1>3
  <2>2. ((0 + x * Two[n]) \div Two[j]) % 2 = (0 \div Two[j]) % 2 BY <2>1, LowerBit
  <2>3. 0 \div Two[j] = 0 BY TwoNext
  <2>4. 0 + x * Two[n] = x * Two[n] BY <1>1
  <2> QED BY <1>1, <2>2, <2>3, <2>4, BitOf
<1>4. ASSUME NEW j \in 0..(W - 1), ~(j < n) PROVE j \in Bits(x * Two[n]) <=> j - n \in Bits(x)
  <2>1. n \in 0..j /\ j \in Nat /\ j - n \in 0..(W - 1) BY <1>0, <1>4
  <2>2. Two[j] = Two[n] * Two[j - n] /\ Two[j - n] \in Nat \ {0} BY <2>1, TwoDivides
  <2>3. (x * Two[n]) \div Two[n] = x
    <3> DEFINE m == Two[n]
    <3> HIDE DEF m
    <3>1. m \in Nat \ {0} /\ x * m \in Int /\ 0 \in 0..(m - 1) /\ x * m = x * m + 0 BY <1>0 DEF m
    <3>2. (x * m) \div m = x BY <3>1, Unique
    <3> QED BY <3>2 DEF m
  <2> DEFINE m == Two[n]
             k == Two[j - n]
             y == x * Two[n]
  <2> HIDE DEF m, k, y
  <2>6. m \in Nat \ {0} /\ k \in Nat \ {0} /\ y \in Int BY <1>0, <1>1, <2>2 DEF m, k, y
  <2>7. DividesTwice(y, m, k) BY <2>6, Quotients
  <2>5. (y \div m) \div k = y \div (m * k) BY <2>7 DEF DividesTwice
  <2>4. (x * Two[n]) \div Two[j] = x \div Two[j - n] BY <2>2, <2>3, <2>5 DEF m, k, y
  <2> QED BY <1>1, <2>1, <2>4, BitOf
<1>5. \A j \in 0..(W - 1) : j \in Bits(x * Two[n]) <=> j \in {i + n : i \in Bits(x)}
  <2> SUFFICES ASSUME NEW j \in 0..(W - 1)
               PROVE  j \in Bits(x * Two[n]) <=> \E i \in Bits(x) : j = i + n
    OBVIOUS
  <2>1. CASE j < n BY <1>2, <1>3, <2>1
  <2>2. CASE ~(j < n)
    <3>1. \A i \in Bits(x) : j = i + n <=> i = j - n BY <1>2
    <3> QED BY <1>4, <2>2, <3>1
  <2> QED BY <2>1, <2>2
<1> QED BY <1>2, <1>5

LEMMA ShlBits ==
  ASSUME NEW x \in Int, NEW n \in Nat
  PROVE  /\ Shl(x, n) \in Int /\ U(Shl(x, n)) = U(x * Two[n])
         /\ Bits(Shl(x, n)) = {i + n : i \in Bits(x)} \cap 0..(W - 1)
         /\ U(Shl(x, n)) = Number({i + n : i \in Bits(x)} \cap 0..(W - 1))
<1>1. Two[n] \in Int /\ I(x) \in Int BY TwoNext, ITyped
<1>2. I(x) * Two[n] \in Int /\ x * Two[n] \in Int BY <1>1
<1>3. Shl(x, n) \in Int /\ U(Shl(x, n)) = U(x * Two[n])
  BY <1>1, <1>2, ITyped, UOfI, UTimes DEF Shl
<1>4. Bits(Shl(x, n)) = {i + n : i \in Bits(x)} \cap 0..(W - 1)
  BY <1>2, <1>3, BitsOfU, ShiftedLeft
<1>5. U(Shl(x, n)) \in Word /\ Bits(U(Shl(x, n))) = Bits(Shl(x, n)) BY <1>3, UTyped, BitsOfU
<1> QED BY <1>3, <1>4, <1>5, NumberOfBits

LEMMA Lesser == ASSUME NEW x \in Nat, NEW m \in Nat \ {0} PROVE x \div m \in 0..x
<1>1. PICK q \in Int, r \in 0..(m - 1) : q = x \div m /\ r = x % m /\ x = q * m + r BY Division
<1>2. q >= 0
  <2>1. SUFFICES ASSUME q <= -1 PROVE FALSE OBVIOUS
  <2>2. q * m <= (-1) * m BY <2>1
  <2> QED BY <1>1, <2>2
<1>3. q <= q * m BY <1>2
<1> QED BY <1>1, <1>2, <1>3

(* Dividing by a power of two shifts to the right.                         *)
LEMMA ShiftedRight ==
  ASSUME NEW x \in Int, NEW n \in Nat, NEW j \in 0..(W - 1)
  PROVE  /\ x \div Two[n] \in Int
         /\ j \in Bits(x \div Two[n]) <=> (x \div Two[n + j]) % 2 = 1
<1>0. j \in Nat BY WFacts
<1>1. Two[n] \in Nat \ {0} /\ Two[j] \in Nat \ {0} /\ Two[n + j] = Two[n] * Two[j]
  BY <1>0, TwoNext, TwoSum
<1>2. x \div Two[n] \in Int BY <1>1
<1> DEFINE m == Two[n]
           k == Two[j]
<1> HIDE DEF m, k
<1>5. m \in Nat \ {0} /\ k \in Nat \ {0} BY <1>1 DEF m, k
<1>6. DividesTwice(x, m, k) BY <1>5, Quotients
<1>4. (x \div m) \div k = x \div (m * k) BY <1>6 DEF DividesTwice
<1>3. (x \div Two[n]) \div Two[j] = x \div Two[n + j] BY <1>1, <1>4 DEF m, k
<1> QED BY <1>2, <1>3, BitOf

LEMMA ShrBits ==
  ASSUME NEW x \in Int, NEW n \in Nat
  PROVE  /\ Shr(x, n) \in Word
         /\ Bits(Shr(x, n)) = {i - n : i \in Bits(x)} \cap 0..(W - 1)
         /\ Shr(x, n) = Number({i - n : i \in Bits(x)} \cap 0..(W - 1))
<1>0. W \in Nat BY WFacts
<1>1. U(x) \in Nat /\ U(x) < Two[W] BY UTyped, WFacts DEF Word
<1>2. Shr(x, n) \in Word
  <2>1. Two[n] \in Nat \ {0} BY TwoNext
  <2>2. U(x) \div Two[n] \in 0..U(x) BY <1>1, <2>1, Lesser
  <2> QED BY <1>1, <2>2, WFacts DEF Shr, Word
<1>3. Bits(x) \subseteq 0..(W - 1) /\ Bits(U(x)) = Bits(x) /\ Bits(Shr(x, n)) \subseteq 0..(W - 1) BY <1>2, BitsOfU, WordUnchanged
<1>4. \A j \in 0..(W - 1) : j \in Bits(Shr(x, n)) <=> j + n \in Bits(x)
  <2> SUFFICES ASSUME NEW j \in 0..(W - 1) PROVE j \in Bits(Shr(x, n)) <=> j + n \in Bits(x) OBVIOUS
  <2> DEFINE y == U(x)
  <2> HIDE DEF y
  <2>0. y \in Int /\ Shr(x, n) = y \div Two[n] BY <1>1 DEF y, Shr
  <2>4. j \in Bits(y \div Two[n]) <=> (y \div Two[n + j]) % 2 = 1 BY <2>0, ShiftedRight
  <2>1. j \in Bits(Shr(x, n)) <=> (U(x) \div Two[n + j]) % 2 = 1 BY <2>0, <2>4 DEF y
  <2>2. CASE n + j < W
    <3>1. n + j \in 0..(W - 1) /\ n + j = j + n BY <1>0, <2>2
    <3> QED BY <1>1, <1>3, <2>1, <3>1, BitOf
  <2>3. CASE ~(n + j < W)
    <3>1. W \in 0..(n + j) /\ n + j \in Nat BY <1>0, <2>3
    <3>2. Two[W] <= Two[n + j] /\ Two[n + j] \in Nat \ {0} BY <3>1, TwoDivides, TwoNext
    <3>3. U(x) \in 0..(Two[n + j] - 1) BY <1>1, <3>2, WFacts
    <3>4. U(x) \div Two[n + j] = 0 BY <3>2, <3>3, Small
    <3> QED BY <1>0, <1>3, <2>1, <2>3, <3>4
  <2> QED BY <2>2, <2>3
<1>5. \A j \in 0..(W - 1) : j + n \in Bits(x) <=> \E i \in Bits(x) : j = i - n
  <2> SUFFICES ASSUME NEW j \in 0..(W - 1) PROVE j + n \in Bits(x) <=> \E i \in Bits(x) : j = i - n OBVIOUS
  <2>1. \A i \in Bits(x) : j = i - n <=> i = j + n BY <1>3
  <2> QED BY <2>1
<1>6. Bits(Shr(x, n)) = {i - n : i \in Bits(x)} \cap 0..(W - 1) BY <1>3, <1>4, <1>5
<1> QED BY <1>2, <1>6, NumberOfBits

(* The sign is the highest bit.                                            *)
LEMMA Sign ==
  ASSUME NEW x \in Int
  PROVE  W - 1 \in Bits(x) <=> I(x) < 0
<1>0. W - 1 \in 0..(W - 1) /\ Two[W - 1] \in Nat \ {0} /\ Two[W] = 2 * Two[W - 1] BY WFacts
<1>1. U(x) \in 0..(Two[W] - 1) /\ U(x) \in Int BY UTyped DEF Word
<1>2. W - 1 \in Bits(x) <=> (U(x) \div Two[W - 1]) % 2 = 1 BY <1>0 DEF Bits
<1>3. CASE U(x) < Two[W - 1]
  <2>1. U(x) \div Two[W - 1] = 0 BY <1>0, <1>1, <1>3, Small
  <2> QED BY <1>1, <1>2, <1>3, <2>1 DEF I
<1>4. CASE ~(U(x) < Two[W - 1])
  <2> DEFINE m == Two[W - 1]
             y == U(x)
  <2> HIDE DEF m, y
  <2>1. m \in Nat \ {0} /\ y \in Int /\ y - m \in 0..(m - 1) /\ y = 1 * m + (y - m) BY <1>0, <1>1, <1>4 DEF m, y
  <2>2. y \div m = 1 BY <2>1, Unique
  <2> QED BY <1>0, <1>1, <1>2, <1>4, <2>2 DEF I, m, y
<1> QED BY <1>3, <1>4

LEMMA SarBits ==
  ASSUME NEW x \in Int, NEW n \in Nat
  PROVE  /\ Sar(x, n) \in Int
         /\ Bits(Sar(x, n)) = {i \in 0..(W - 1) : (IF i + n < W THEN i + n ELSE W - 1) \in Bits(x)}
         /\ U(Sar(x, n)) = Number({i \in 0..(W - 1) : (IF i + n < W THEN i + n ELSE W - 1) \in Bits(x)})
<1>0. W \in Nat /\ W - 1 \in Nat BY WFacts
<1>1. I(x) \in Int /\ Bits(I(x)) = Bits(x) /\ Sar(x, n) \in Int
  <2>1. Two[n] \in Nat \ {0} BY TwoNext
  <2> QED BY <2>1, ITyped, BitsOfI DEF Sar
<1>2. Bits(Sar(x, n)) \subseteq 0..(W - 1) BY <1>1, BitsOfU
<1>3. ASSUME NEW j \in 0..(W - 1)
      PROVE  j \in Bits(Sar(x, n)) <=> (IF j + n < W THEN j + n ELSE W - 1) \in Bits(x)
  <2>1. j \in Bits(Sar(x, n)) <=> (I(x) \div Two[n + j]) % 2 = 1 BY <1>1, ShiftedRight DEF Sar
  <2>2. CASE j + n < W
    <3>1. n + j \in 0..(W - 1) /\ n + j = j + n BY <1>0, <2>2
    <3> QED BY <1>1, <2>1, <2>2, <3>1, BitOf
  <2>3. CASE ~(j + n < W)
    <3>1. W - 1 \in 0..(n + j) /\ n + j \in Nat BY <1>0, <2>3
    <3> DEFINE m == Two[n + j]
    <3>2. Two[W - 1] <= m /\ m \in Nat \ {0} BY <3>1, TwoDivides, TwoNext
    <3>3. I(x) \in (-m)..(m - 1) BY <3>2, ITyped, WFacts
    <3> HIDE DEF m
    <3>4. CASE I(x) < 0
      <4> DEFINE q == -1
      <4>1. q \in Int /\ I(x) + m \in 0..(m - 1) /\ I(x) = q * m + (I(x) + m)
        BY <1>1, <3>2, <3>3, <3>4
      <4> HIDE DEF q
      <4>5. m \in Nat \ {0} BY <3>2
      <4> DEFINE r == I(x) + m
                 y == I(x)
      <4>6. y \in Int /\ r \in 0..(m - 1) /\ y = q * m + r BY <1>1, <4>1
      <4> HIDE DEF r, y
      <4>7. y \div m = q BY <4>1, <4>5, <4>6, Unique
      <4>2. I(x) \div m = q BY <4>7 DEF y
      <4>8. \A p \in Int : p + 1 = 0 => p % 2 = 1 OBVIOUS
      <4>9. q \in Int /\ q + 1 = 0 BY DEF q
      <4>3. q % 2 = 1 BY <4>8, <4>9
      <4> QED BY <2>1, <2>3, <3>4, <4>2, <4>3, Sign DEF m
    <3>5. CASE ~(I(x) < 0)
      <4>1. I(x) \in 0..(m - 1) BY <1>1, <3>2, <3>3, <3>5
      <4>2. I(x) \div m = 0 BY <3>2, <4>1, Small
      <4> QED BY <2>1, <2>3, <3>5, <4>2, Sign DEF m
    <3> QED BY <3>4, <3>5
  <2> QED BY <2>2, <2>3
<1>4. Bits(Sar(x, n)) = {i \in 0..(W - 1) : (IF i + n < W THEN i + n ELSE W - 1) \in Bits(x)}
  BY <1>2, <1>3
<1>5. U(Sar(x, n)) \in Word /\ Bits(U(Sar(x, n))) = Bits(Sar(x, n)) BY <1>1, UTyped, BitsOfU
<1> QED BY <1>1, <1>4, <1>5, NumberOfBits

(* Not complements the bits.                                               *)
LEMMA NotBits ==
  ASSUME NEW x \in Int
  PROVE  /\ Not(x) \in Int /\ Bits(Not(x)) = (0..(W - 1)) \ Bits(x)
         /\ U(Not(x)) = Number((0..(W - 1)) \ Bits(x))
<1>1. Not(x) \in Int BY DEF Not
<1>2. ASSUME NEW i \in 0..(W - 1) PROVE i \in Bits(Not(x)) <=> i \notin Bits(x)
  <2> DEFINE m == Two[i]
  <2>0. m \in Nat \ {0} BY TwoNext, WFacts
  <2>1. PICK q \in Int, r \in 0..(m - 1) : q = x \div m /\ r = x % m /\ x = q * m + r BY <2>0, Division
  <2> HIDE DEF m
  <2>2. -x - 1 = (-q - 1) * m + (m - 1 - r)
    <3>1. (-q - 1) * m = -(q * m) - m BY <2>0
    <3>2. q * m \in Int BY <2>0
    <3> QED BY <2>0, <2>1, <3>1, <3>2
  <2>3. m - 1 - r \in 0..(m - 1) /\ -q - 1 \in Int /\ -x - 1 \in Int BY <2>0
  <2>4. (-x - 1) \div m = -q - 1 BY <2>0, <2>2, <2>3, Unique
  <2>5. (-q - 1) % 2 = 1 <=> q % 2 # 1 OBVIOUS
  <2> QED BY <1>1, <2>1, <2>4, <2>5, BitOf DEF Not, m
<1>3. Bits(Not(x)) \subseteq 0..(W - 1) BY <1>1, BitsOfU
<1>4. Bits(Not(x)) = (0..(W - 1)) \ Bits(x) BY <1>2, <1>3
<1>5. U(Not(x)) \in Word /\ Bits(U(Not(x))) = Bits(Not(x)) BY <1>1, UTyped, BitsOfU
<1> QED BY <1>1, <1>4, <1>5, NumberOfBits

LEMMA Logic ==
  ASSUME NEW x \in Int, NEW y \in Int
  PROVE  /\ And(x, y) \in Word /\ Bits(And(x, y)) = Bits(x) \cap Bits(y)
         /\ Or(x, y) \in Word /\ Bits(Or(x, y)) = Bits(x) \cup Bits(y)
         /\ Xor(x, y) \in Word
BY BitsOfNumber, BitsOfU DEF And, Or, Xor

(* The number of bytes n that 256^n has, so to speak.                      *)
LEMMA BytePowers ==
  /\ Two[B] \in Nat \ {0} /\ Two[2 * B] = Two[B] * Two[B] /\ Two[3 * B] = Two[2 * B] * Two[B]
  /\ Two[W] = Two[3 * B] * Two[B] /\ Two[W] = Two[2 * B] * Two[2 * B]
  /\ Two[2 * B] \in Nat \ {0} /\ Two[3 * B] \in Nat \ {0} /\ Two[B] >= 2
<1>1. B \in Nat /\ 2 * B \in Nat /\ 3 * B \in Nat /\ 2 * B = B + B /\ 3 * B = 2 * B + B
      /\ W = 3 * B + B /\ W = 2 * B + 2 * B /\ 1 \in 0..B
  BY WFacts
<1>2. Two[1] = 2
  <2>1. Two[0 + 1] = 2 * Two[0] BY TwoNext
  <2> QED BY <2>1, TwoDefined
<1>3. Two[1] <= Two[B] BY <1>1, TwoDivides
<1>4. Two[B] \in Nat \ {0} /\ Two[2 * B] \in Nat \ {0} /\ Two[3 * B] \in Nat \ {0}
  BY <1>1, TwoNext
<1>5. Two[B + B] = Two[B] * Two[B] /\ Two[2 * B + B] = Two[2 * B] * Two[B]
      /\ Two[3 * B + B] = Two[3 * B] * Two[B] /\ Two[2 * B + 2 * B] = Two[2 * B] * Two[2 * B]
  BY <1>1, TwoSum
<1> QED BY <1>1, <1>2, <1>3, <1>4, <1>5

(* A number with one digit more, to the base p.                            *)
Extends(p, m, d, y) ==
  /\ d + y * p \in 0..(m * p - 1) /\ m * p \in Nat \ {0}
  /\ (d + y * p) \div p = y /\ (d + y * p) % p = d

LEMMA Digit ==
  ASSUME NEW p \in Nat \ {0}, NEW m \in Nat \ {0}, NEW d \in 0..(p - 1), NEW y \in 0..(m - 1)
  PROVE  Extends(p, m, d, y)
<1>1. d + y * p \in Nat /\ m * p \in Nat \ {0} OBVIOUS
<1>2. y * p <= (m - 1) * p /\ (m - 1) * p = m * p - p /\ y * p \in Nat OBVIOUS
<1>3. d + y * p <= m * p - 1 BY <1>1, <1>2
<1> DEFINE x == d + y * p
<1>4. x \in Int /\ y \in Int /\ x = y * p + d BY <1>1, <1>2
<1> HIDE DEF x
<1>5. x \div p = y /\ x % p = d BY <1>4, Unique
<1> QED BY <1>1, <1>3, <1>5 DEF x, Extends

Bytes4 == [0..3 -> Byte]

(* Four bytes as a word: its bytes and its lower half.                     *)
LEMMA JoinedBytes ==
  ASSUME NEW b \in Bytes4
  PROVE  /\ Joined(b) \in Word
         /\ \A k \in 0..3 : ByteOf(Joined(b), k) = b[k]
         /\ Joined(b) % Two[B] = b[0]
         /\ Joined(b) % Two[2 * B] = b[0] + b[1] * Two[B]
<1> DEFINE p == Two[B]
           y2 == b[2] + b[3] * p
           y1 == b[1] + y2 * p
           y0 == b[0] + y1 * p
<1>0. p \in Nat \ {0} /\ p * p \in Nat \ {0} /\ (p * p) * p \in Nat \ {0} BY BytePowers
<1>1. b[0] \in 0..(p - 1) /\ b[1] \in 0..(p - 1) /\ b[2] \in 0..(p - 1) /\ b[3] \in 0..(p - 1)
  BY DEF Bytes4, Byte
<1> HIDE DEF p
<1>2. y2 \in 0..(p * p - 1) /\ y2 \div p = b[3] /\ y2 % p = b[2]
  <2>1. Extends(p, p, b[2], b[3]) BY <1>0, <1>1, Digit
  <2> QED BY <2>1 DEF Extends
<1> HIDE DEF y2
<1>3. y1 \in 0..((p * p) * p - 1) /\ y1 \div p = y2 /\ y1 % p = b[1]
  <2> DEFINE m == p * p
  <2>0. m \in Nat \ {0} /\ y2 \in 0..(m - 1) BY <1>0, <1>2
  <2> HIDE DEF m
  <2>1. Extends(p, m, b[1], y2) BY <1>0, <1>1, <2>0, Digit
  <2> QED BY <2>1 DEF Extends, m
<1> HIDE DEF y1
<1>4. y0 \in 0..(((p * p) * p) * p - 1) /\ y0 \div p = y1 /\ y0 % p = b[0]
  <2> DEFINE m == (p * p) * p
  <2>0. m \in Nat \ {0} /\ y1 \in 0..(m - 1) BY <1>0, <1>3
  <2> HIDE DEF m
  <2>1. Extends(p, m, b[0], y1) BY <1>0, <1>1, <2>0, Digit
  <2> QED BY <2>1 DEF Extends, m
<1>5. Two[2 * B] = p * p /\ Two[3 * B] = (p * p) * p /\ Two[W] = ((p * p) * p) * p BY BytePowers DEF p
<1>6. Joined(b) = y0
  <2>1. y2 * p = b[2] * p + b[3] * (p * p)
    <3>1. (b[2] + b[3] * p) * p = b[2] * p + b[3] * (p * p) BY <1>0, <1>1
    <3> QED BY <3>1 DEF y2
  <2>2. y1 * p = b[1] * p + (b[2] * (p * p) + b[3] * ((p * p) * p))
    <3>1. (b[2] * p + b[3] * (p * p)) * p = b[2] * (p * p) + b[3] * ((p * p) * p) BY <1>0, <1>1
    <3>2. b[2] * p + b[3] * (p * p) \in Int BY <1>0, <1>1
    <3>3. (b[1] + y2 * p) * p = b[1] * p + (y2 * p) * p BY <1>0, <1>1, <1>2
    <3> QED BY <2>1, <3>1, <3>3 DEF y1
  <2>3. /\ b[0] \in Int /\ b[1] * p \in Int /\ b[2] * (p * p) \in Int /\ b[3] * ((p * p) * p) \in Int
    BY <1>0, <1>1
  <2>4. Joined(b) = b[0] + b[1] * p + b[2] * (p * p) + b[3] * ((p * p) * p)
    BY <1>5 DEF Joined, p
  <2> QED BY <2>2, <2>3, <2>4
<1> HIDE DEF y0
<1>7. Joined(b) \in Word BY <1>0, <1>4, <1>5, <1>6 DEF Word
<1>8. U(Joined(b)) = y0 /\ y0 \in Int BY <1>4, <1>6, <1>7, WordUnchanged
<1>9. y0 \div (p * p) = y2 /\ y0 \div ((p * p) * p) = b[3]
  <2>1. DividesTwice(y0, p, p) BY <1>0, <1>8, Quotients
  <2>2. y0 \div (p * p) = y2 BY <2>1, <1>3, <1>4 DEF DividesTwice
  <2> DEFINE pp == p * p
  <2>3. pp \in Nat \ {0} BY <1>0
  <2> HIDE DEF pp
  <2>4. DividesTwice(y0, pp, p) BY <1>0, <1>8, <2>3, Quotients
  <2>5. (y0 \div pp) \div p = y0 \div (pp * p) BY <2>4 DEF DividesTwice
  <2> QED BY <2>2, <2>5, <1>2 DEF pp
<1>10. ByteOf(Joined(b), 0) = b[0]
  <2>1. B * 0 = 0 /\ Two[0] = 1 BY WFacts, TwoDefined
  <2>2. y0 \div 1 = y0 BY <1>8
  <2> QED BY <1>4, <1>8, <2>1, <2>2 DEF ByteOf, p
<1>11. ByteOf(Joined(b), 1) = b[1]
  <2>1. B * 1 = B BY WFacts
  <2> QED BY <1>3, <1>4, <1>8, <2>1 DEF ByteOf, p
<1>12. ByteOf(Joined(b), 2) = b[2]
  <2>1. B * 2 = 2 * B BY WFacts
  <2> QED BY <1>2, <1>5, <1>8, <1>9, <2>1 DEF ByteOf, p
<1>13. ByteOf(Joined(b), 3) = b[3]
  <2>1. B * 3 = 3 * B BY WFacts
  <2>2. b[3] % p = b[3] BY <1>0, <1>1, Small
  <2> QED BY <1>5, <1>8, <1>9, <2>1, <2>2 DEF ByteOf, p
<1>14. \A k \in 0..3 : k = 0 \/ k = 1 \/ k = 2 \/ k = 3 OBVIOUS
<1>15. y0 % (p * p) = b[0] + b[1] * p
  <2>1. y0 = y2 * (p * p) + (b[0] + b[1] * p)
    <3>1. y1 * p = b[1] * p + y2 * (p * p)
      <4>1. (b[1] + y2 * p) * p = b[1] * p + y2 * (p * p) BY <1>0, <1>1, <1>2
      <4> QED BY <4>1 DEF y1
    <3>2. b[1] * p \in Int /\ y2 * (p * p) \in Int BY <1>0, <1>1, <1>2
    <3> QED BY <1>1, <3>1, <3>2 DEF y0
  <2>5. Extends(p, p, b[0], b[1]) BY <1>0, <1>1, Digit
  <2>2. b[0] + b[1] * p \in 0..(p * p - 1) BY <2>5 DEF Extends
  <2> DEFINE r == b[0] + b[1] * p
             pp == p * p
  <2>3. r \in 0..(pp - 1) /\ pp \in Nat \ {0} /\ y0 = y2 * pp + r /\ y2 \in Int BY <1>0, <1>2, <2>1, <2>2
  <2> HIDE DEF r, pp
  <2>4. y0 % pp = r BY <1>8, <2>3, Unique
  <2> QED BY <2>4 DEF r, pp
<1> QED BY <1>4, <1>5, <1>6, <1>7, <1>10, <1>11, <1>12, <1>13, <1>14, <1>15 DEF p

LEMMA ByteTyped == ASSUME NEW x \in Int, NEW k \in Nat PROVE ByteOf(x, k) \in Byte
<1>1. B * k \in Nat BY WFacts
<1>2. Two[B * k] \in Nat \ {0} /\ U(x) \in Int BY <1>1, TwoNext, UTyped
<1>3. U(x) \div Two[B * k] \in Int BY <1>2
<1> QED BY <1>3, WFacts DEF ByteOf, Byte

LEMMA ByteOfU == ASSUME NEW x \in Int PROVE \A k : ByteOf(U(x), k) = ByteOf(x, k)
BY UU DEF ByteOf

(* The bits of a byte of a word.                                           *)
LEMMA BitInByte ==
  ASSUME NEW x \in Int, NEW k \in 0..3, NEW j \in 0..(B - 1)
  PROVE  /\ B * k + j \in 0..(W - 1)
         /\ B * k + j \in Bits(x) <=> (ByteOf(x, k) \div Two[j]) % 2 = 1
<1>1. B * k + j \in 0..(W - 1) /\ B * k \in Nat /\ j \in Nat /\ B \in Nat
  <2>1. B * k <= B * 3 /\ B * k \in Nat BY WFacts
  <2> QED BY <2>1, WFacts
<1>2. Two[B * k] \in Nat \ {0} /\ Two[j] \in Nat \ {0} /\ Two[B * k + j] = Two[B * k] * Two[j] /\ Two[B] \in Nat \ {0}
  BY <1>1, TwoNext, TwoSum
<1>3. U(x) \in Nat BY UTyped
<1> DEFINE m == Two[B * k]
           n == Two[j]
           y == U(x) \div m
           p == Two[B]
<1>4. y \in Nat BY <1>2, <1>3, Lesser
<1>5. m \in Nat \ {0} /\ n \in Nat \ {0} /\ p \in Nat \ {0} BY <1>2
<1>6. y \div n = U(x) \div (m * n)
  <2> HIDE DEF m, n, p
  <2>1. DividesTwice(U(x), m, n) BY <1>3, <1>5, Quotients
  <2> QED BY <2>1 DEF DividesTwice, y
<1> HIDE DEF y
<1>7. PICK q \in Int, r \in 0..(p - 1) : q = y \div p /\ r = y % p /\ y = q * p + r
  <2> HIDE DEF p
  <2>1. y \in Int /\ p \in Nat \ {0} BY <1>4, <1>5
  <2> QED BY ONLY <2>1, Division, ZenonT(30)
<1>8. (y \div n) % 2 = (r \div n) % 2
  <2>1. r \in Nat /\ y = r + q * Two[B] BY <1>4, <1>5, <1>7
  <2> QED BY <1>1, <2>1, LowerBit
<1>9. ByteOf(x, k) = r BY <1>7 DEF ByteOf, y
<1>10. B * k + j \in Bits(x) <=> (U(x) \div (m * n)) % 2 = 1 BY <1>1, <1>2 DEF Bits
<1> QED BY <1>1, <1>6, <1>8, <1>9, <1>10

(* Bytes with the same bits are the same, and words with the same bytes.   *)
LEMMA SameByte ==
  ASSUME NEW y \in Byte, NEW z \in Byte,
         \A j \in 0..(B - 1) : (y \div Two[j]) % 2 = 1 <=> (z \div Two[j]) % 2 = 1
  PROVE  y = z
<1>0. B \in Nat /\ B \in 0..W BY WFacts
<1>1. Two[B] <= Two[W] /\ Two[B] \in Nat \ {0} BY <1>0, TwoDivides, WFacts
<1>2. \A x \in Byte : x \in Word /\ x \in Nat /\ \A i \in 0..(W - 1) : i >= B => i \notin Bits(x)
  <2> SUFFICES ASSUME NEW x \in Byte
               PROVE  x \in Word /\ x \in Nat /\ \A i \in 0..(W - 1) : i >= B => i \notin Bits(x)
    OBVIOUS
  <2>1. x \in Word /\ x \in Nat BY <1>1, WFacts DEF Byte, Word
  <2>2. ASSUME NEW i \in 0..(W - 1), i >= B PROVE i \notin Bits(x)
    <3>1. B \in 0..i /\ i \in Nat BY <1>0, <2>2
    <3>2. Two[B] <= Two[i] /\ Two[i] \in Nat \ {0} BY <3>1, TwoDivides, TwoNext
    <3>3. x \in 0..(Two[i] - 1) BY <1>1, <3>2 DEF Byte
    <3>4. x \div Two[i] = 0 BY <3>2, <3>3, Small
    <3> QED BY <2>1, <3>4, BitOf
  <2> QED BY <2>1, <2>2
<1>3. \A i \in 0..(W - 1) : i \in Bits(y) <=> i \in Bits(z)
  <2> SUFFICES ASSUME NEW i \in 0..(W - 1) PROVE i \in Bits(y) <=> i \in Bits(z) OBVIOUS
  <2>1. CASE i >= B BY <1>2, <2>1
  <2>2. CASE ~(i >= B)
    <3>1. i \in 0..(B - 1) BY <1>0, <2>2
    <3> QED BY <1>2, <3>1, BitOf
  <2> QED BY <2>1, <2>2
<1>4. y \in Word /\ z \in Word /\ y \in Int /\ z \in Int BY <1>2
<1>5. Bits(y) \subseteq 0..(W - 1) /\ Bits(z) \subseteq 0..(W - 1) BY <1>4, BitsOfU
<1>6. Bits(y) = Bits(z) BY <1>3, <1>5
<1> QED BY <1>4, <1>6, SameBits

LEMMA BitAddress ==
  ASSUME NEW i \in 0..(W - 1) PROVE \E k \in 0..3, j \in 0..(B - 1) : i = B * k + j
<1>0. i \in Int /\ B \in Nat \ {0} BY WFacts
<1>1. PICK q \in Int, r \in 0..(B - 1) : q = i \div B /\ r = i % B /\ i = q * B + r
  BY <1>0, Division
<1>2. q \in 0..3
  <2>1. ASSUME q <= -1 PROVE FALSE
    <3>1. q * B <= (-1) * B BY <2>1, WFacts
    <3> QED BY <1>1, <3>1, WFacts
  <2>2. ASSUME q >= 4 PROVE FALSE
    <3>1. q * B >= 4 * B BY <2>2, WFacts
    <3> QED BY <1>1, <3>1, WFacts
  <2> QED BY <2>1, <2>2
<1>3. i = B * q + r BY <1>1, WFacts
<1> QED BY <1>2, <1>3

LEMMA SameBytes ==
  ASSUME NEW x \in Word, NEW y \in Word, \A k \in 0..3 : ByteOf(x, k) = ByteOf(y, k)
  PROVE  x = y
<1>1. x \in Int /\ y \in Int BY WordUnchanged
<1>2. \A i \in 0..(W - 1) : i \in Bits(x) <=> i \in Bits(y)
  <2> SUFFICES ASSUME NEW i \in 0..(W - 1) PROVE i \in Bits(x) <=> i \in Bits(y) OBVIOUS
  <2>1. PICK k \in 0..3, j \in 0..(B - 1) : i = B * k + j BY BitAddress
  <2> QED BY <1>1, <2>1, BitInByte
<1>3. Bits(x) = Bits(y) BY <1>1, <1>2, BitsOfU
<1> QED BY <1>3, SameBits

LEMMA JoinedOfBytes == ASSUME NEW x \in Int PROVE Joined([k \in 0..3 |-> ByteOf(x, k)]) = U(x)
<1> DEFINE b == [k \in 0..3 |-> ByteOf(x, k)]
<1>1. b \in Bytes4
  <2>1. \A k \in 0..3 : ByteOf(x, k) \in Byte BY ByteTyped
  <2> QED BY <2>1 DEF Bytes4
<1>2. \A k \in 0..3 : b[k] = ByteOf(x, k) OBVIOUS
<1> HIDE DEF b
<1>3. Joined(b) \in Word /\ \A k \in 0..3 : ByteOf(Joined(b), k) = ByteOf(U(x), k)
  BY <1>1, <1>2, JoinedBytes, ByteOfU
<1>4. Joined(b) = U(x) BY <1>3, SameBytes, UTyped
<1> QED BY <1>4 DEF b

LEMMA HalfFacts ==
  /\ Half \in Nat \ {0} /\ Half = 2 * (Half \div 2) /\ Half \div 2 \in Nat \ {0}
  /\ Two[W] = Half * Half /\ Two[W - 1] = (Half \div 2) * Half
  /\ HalfBits \in Nat /\ Two[HalfBits] = Half
<1>1. B \in Nat \ {0} /\ W = 4 * B BY WFacts
<1>2. HalfBits \in Nat /\ HalfBits - 1 \in Nat /\ HalfBits - 1 + 1 = HalfBits
      /\ W - 1 = (HalfBits - 1) + HalfBits /\ W = HalfBits + HalfBits
  BY <1>1 DEF HalfBits
<1>3. Two[HalfBits] = Half BY DEF Half
<1>4. Two[HalfBits] \in Nat \ {0} /\ Two[HalfBits - 1] \in Nat \ {0} /\ Two[HalfBits] = 2 * Two[HalfBits - 1]
  BY <1>2, TwoNext
<1>5. Two[W] = Two[HalfBits] * Two[HalfBits] /\ Two[W - 1] = Two[HalfBits - 1] * Two[HalfBits]
  BY <1>2, TwoSum
<1>6. Half \div 2 = Two[HalfBits - 1] BY <1>3, <1>4
<1> QED BY <1>2, <1>3, <1>4, <1>5, <1>6

(* A number in the range of signed words is the one that its word stands for. *)
LEMMA Signed ==
  ASSUME NEW x \in Int, -Two[W - 1] <= x, x < Two[W - 1] PROVE I(x) = x /\ I(U(x)) = x
<1>0. Two[W] = 2 * Two[W - 1] /\ Two[W - 1] \in Nat \ {0} BY WFacts
<1>1. CASE x >= 0
  <2>1. x \in Word BY <1>0, <1>1 DEF Word
  <2> QED BY <1>1, <2>1, WordUnchanged DEF I
<1>2. CASE ~(x >= 0)
  <2>1. x + Two[W] \in Word BY <1>0, <1>2 DEF Word
  <2>2. U(x + Two[W]) = x + Two[W] BY <2>1, WordUnchanged
  <2>3. U(x + Two[W]) = U(x)
    <3>1. x + Two[W] = x + 1 * Two[W] /\ x + Two[W] \in Int BY <1>0
    <3>2. \E k \in Int : x + Two[W] = x + k * Two[W] BY <3>1
    <3> QED BY <3>1, <3>2, UCongruent
  <2>4. U(x) = x + Two[W] /\ U(U(x)) = U(x) BY <2>2, <2>3, UU
  <2> QED BY <1>0, <1>2, <2>4 DEF I
<1> QED BY <1>1, <1>2

(* The halves of a signed word, and of an unsigned one.                    *)
LowHalf == 0..(Half - 1)
LEMMA SignedHalves ==
  ASSUME NEW x \in Word
  PROVE  \E hi \in (-(Half \div 2))..(Half \div 2 - 1), lo \in LowHalf :
           Sar(x, HalfBits) = hi /\ x % Half = lo /\ I(x) = hi * Half + lo
<1> DEFINE h == Half \div 2
           H == Half
<1>0. H \in Nat \ {0} /\ h \in Nat \ {0} /\ H = 2 * h /\ Two[W] = H * H /\ Two[W - 1] = h * H /\ Two[HalfBits] = H
  BY HalfFacts
<1>1. x \in Int /\ I(x) \in Int /\ -Two[W - 1] <= I(x) /\ I(x) < Two[W - 1] BY WordUnchanged, ITyped, WFacts
<1> HIDE DEF h, H
<1>2. PICK q \in Int, r \in 0..(H - 1) : q = I(x) \div H /\ r = I(x) % H /\ I(x) = q * H + r
  BY <1>0, <1>1, Division
<1>3. Sar(x, HalfBits) = q BY <1>0, <1>2 DEF Sar
<1>4. x % H = r
  <2>1. PICK k \in Int : I(x) = x + k * (H * H)
    <3>1. U(x) = x BY WordUnchanged
    <3>2. I(x) = x \/ I(x) = x - H * H BY <1>0, <3>1 DEF I
    <3>3. x = x + 0 * (H * H) /\ x - H * H = x + (-1) * (H * H) BY <1>0, <1>1
    <3> QED BY <3>2, <3>3
  <2>2. x = (q - k * H) * H + r
    <3>1. (q - k * H) * H = q * H - k * (H * H) BY <1>0
    <3> DEFINE a == q * H
               b == k * (H * H)
    <3>5. a \in Int /\ b \in Int BY <1>0
    <3>2. a \in Int /\ b \in Int /\ x + b = a + r BY <1>2, <2>1, <3>5
    <3>3. (q - k * H) * H = a - b BY <3>1
    <3> HIDE DEF a, b
    <3>4. x = (a - b) + r BY <1>1, <3>2
    <3> QED BY <3>3, <3>4
  <2>3. q - k * H \in Int BY <1>0
  <2> DEFINE c == q - k * H
  <2>4. c \in Int /\ x = c * H + r BY <2>2, <2>3
  <2> HIDE DEF c
  <2> QED BY <1>0, <1>1, <2>4, Unique
<1>5. q < h
  <2>1. ASSUME q >= h PROVE FALSE
    <3>1. q * H >= h * H BY <1>0, <2>1
    <3> QED BY <1>0, <1>1, <1>2, <3>1
  <2> QED BY <1>0, <2>1
<1>6. q >= -h
  <2>1. ASSUME q <= -h - 1 PROVE FALSE
    <3>1. q * H <= (-h - 1) * H BY <1>0, <2>1
    <3>2. (-h - 1) * H = -(h * H) - H /\ h * H \in Int BY <1>0
    <3> QED BY <1>0, <1>1, <1>2, <3>1, <3>2
  <2> QED BY <1>0, <2>1
<1>7. q \in (-h)..(h - 1) BY <1>0, <1>5, <1>6
<1>8. \E hi \in (-h)..(h - 1), lo \in 0..(H - 1) :
        Sar(x, HalfBits) = hi /\ x % H = lo /\ I(x) = hi * H + lo
  BY <1>2, <1>3, <1>4, <1>7
<1> QED BY <1>8 DEF h, H, LowHalf

(* Digits to the base Half of a double word.                               *)
LEMMA Digits ==
  ASSUME NEW q \in Int, NEW m \in LowHalf, NEW n \in LowHalf, NEW x \in Int,
         x = q * Two[W] + (m * Half + n)
  PROVE  x \div Two[W] = q /\ U(x) = m * Half + n
<1> DEFINE H == Half
           N == Two[W]
           r == m * H + n
<1>0. H \in Nat \ {0} /\ N = H * H /\ N \in Nat \ {0} BY HalfFacts, WFacts
<1> HIDE DEF H
<1>1. m \in 0..(H - 1) /\ n \in 0..(H - 1) BY DEF LowHalf, H
<1>2. m * H <= (H - 1) * H /\ (H - 1) * H = H * H - H /\ m * H \in Nat BY <1>0, <1>1
<1>3. r \in 0..(N - 1) BY <1>0, <1>1, <1>2
<1>4. x = q * N + r BY DEF H
<1> HIDE DEF r, N
<1>5. x \div N = q /\ x % N = r BY <1>0, <1>3, <1>4, Unique
<1> QED BY <1>5 DEF r, N, H, U

LEMMA HalfDivision ==
  ASSUME NEW x \in Int
  PROVE  \E q \in Int, r \in LowHalf : q = x \div Half /\ r = x % Half /\ x = q * Half + r
BY HalfFacts, Division DEF LowHalf

(* Products of signed and unsigned halves, with a half added.              *)
LEMMA SignedPart ==
  ASSUME NEW a \in (-(Half \div 2))..(Half \div 2 - 1), NEW b \in LowHalf, NEW c \in LowHalf
  PROVE  a * b + c \in Int /\ I(a * b + c) = a * b + c /\ I(U(a * b + c)) = a * b + c
<1> DEFINE h == Half \div 2
           H == Half
<1>0. H \in Nat \ {0} /\ h \in Nat \ {0} /\ H = 2 * h /\ Two[W - 1] = h * H
  BY HalfFacts
<1> HIDE DEF h, H
<1>1. a \in (-h)..(h - 1) /\ b \in 0..(H - 1) /\ c \in 0..(H - 1) BY DEF h, H, LowHalf
<1>2. a * b <= (h - 1) * b /\ (-h) * b <= a * b /\ a * b \in Int BY <1>0, <1>1
<1>3. (h - 1) * b <= (h - 1) * (H - 1) /\ (-h) * (H - 1) <= (-h) * b BY <1>0, <1>1
<1>4. (h - 1) * (H - 1) = h * H - h - H + 1 /\ (-h) * (H - 1) = h - h * H /\ h * H \in Int
      /\ (h - 1) * (H - 1) \in Int /\ (-h) * (H - 1) \in Int /\ (h - 1) * b \in Int /\ (-h) * b \in Int BY <1>0, <1>1
<1>5. a * b + c \in Int /\ a * b + c < h * H /\ -(h * H) <= a * b + c BY <1>0, <1>1, <1>2, <1>3, <1>4
<1> QED BY <1>0, <1>5, Signed

LEMMA UnsignedPart ==
  ASSUME NEW a \in LowHalf, NEW b \in LowHalf
  PROVE  a * b \in Word /\ a * b \in Nat /\ (a * b) \div Half \in LowHalf
         /\ a * b <= Two[W] - 2 * Half + 1
<1> DEFINE H == Half
<1>0. H \in Nat \ {0} /\ Two[W] = H * H BY HalfFacts
<1> HIDE DEF H
<1>1. a \in 0..(H - 1) /\ b \in 0..(H - 1) BY DEF H, LowHalf
<1>2. a * b <= (H - 1) * b /\ (H - 1) * b <= (H - 1) * (H - 1) /\ a * b \in Nat /\ (H - 1) * b \in Nat BY <1>0, <1>1
<1>3. (H - 1) * (H - 1) = H * H - 2 * H + 1 /\ H * H \in Nat BY <1>0
<1>4. a * b <= H * H - 2 * H + 1 /\ a * b < H * H BY <1>0, <1>2, <1>3
<1> DEFINE y == a * b
<1>8. y \in Nat BY <1>2
<1> HIDE DEF y
<1>5. PICK q \in Int, r \in 0..(H - 1) : q = y \div H /\ r = y % H /\ y = q * H + r
  BY <1>0, <1>8, Division
<1>6. q \in 0..y BY <1>0, <1>5, <1>8, Lesser
<1>7. q < H
  <2>1. ASSUME q >= H PROVE FALSE
    <3>1. q * H >= H * H BY <1>0, <2>1
    <3> QED BY <1>0, <1>4, <1>5, <3>1 DEF y
  <2> QED BY <1>0, <2>1
<1>9. q \in 0..(H - 1) BY <1>0, <1>6, <1>7
<1> QED BY <1>0, <1>2, <1>4, <1>5, <1>9 DEF H, y, LowHalf, Word

(* signedMult gives the product of signed words.                           *)
LEMMA SignedMultRight ==
  ASSUME NEW a \in Word, NEW b \in Word
  PROVE  /\ SignedMult(a, b) = <<SignedMult(a, b)[1], SignedMult(a, b)[2]>>
         /\ SignedMult(a, b)[1] = U((I(a) * I(b)) \div Two[W])
         /\ SignedMult(a, b)[2] = U(I(a) * I(b))
<1> DEFINE H == Half
           N == Two[W]
<1>0. H \in Nat \ {0} /\ N = H * H /\ N \in Nat \ {0} /\ Two[HalfBits] = H /\ HalfBits \in Nat
  BY HalfFacts, WFacts
<1>1. PICK u0 \in (-(Half \div 2))..(Half \div 2 - 1), u1 \in LowHalf :
        Sar(a, HalfBits) = u0 /\ a % Half = u1 /\ I(a) = u0 * Half + u1
  BY SignedHalves
<1>2. PICK v0 \in (-(Half \div 2))..(Half \div 2 - 1), v1 \in LowHalf :
        Sar(b, HalfBits) = v0 /\ b % Half = v1 /\ I(b) = v0 * Half + v1
  BY SignedHalves
<1>3. u0 \in Int /\ v0 \in Int /\ u1 \in Nat /\ v1 \in Nat
  BY HalfFacts DEF LowHalf
<1> DEFINE t1 == u1 * v1
<1>4. t1 \in Nat /\ t1 \in Word /\ t1 \div Half \in LowHalf /\ U(t1) = t1
  BY <1>1, <1>2, UnsignedPart, WordUnchanged
<1> HIDE DEF t1
<1>5. PICK c1 \in Int, r1 \in LowHalf : c1 = t1 \div Half /\ r1 = t1 % Half /\ t1 = c1 * Half + r1
  BY <1>4, HalfDivision
<1>6. Shr(t1, HalfBits) = c1 BY <1>0, <1>4, <1>5 DEF Shr
<1> DEFINE t2 == u0 * v1 + c1
<1>7. t2 \in Int /\ I(U(t2)) = t2
  <2>1. c1 \in LowHalf BY <1>4, <1>5
  <2> QED BY <1>2, <2>1, SignedPart
<1> HIDE DEF t2
<1>8. PICK c2 \in Int, r2 \in LowHalf : c2 = t2 \div Half /\ r2 = t2 % Half /\ t2 = c2 * Half + r2
  BY <1>7, HalfDivision
<1>9. U(t2) % Half = r2 /\ Sar(U(t2), HalfBits) = c2
  <2>1. U(t2) \in Word BY <1>7, UTyped
  <2>2. PICK hi \in (-(Half \div 2))..(Half \div 2 - 1), lo \in LowHalf :
          Sar(U(t2), HalfBits) = hi /\ U(t2) % Half = lo /\ I(U(t2)) = hi * Half + lo
    BY <2>1, SignedHalves
  <2>3. hi \in Int /\ lo \in 0..(Half - 1) /\ t2 = hi * Half + lo /\ Half \in Nat \ {0}
    BY <1>7, <2>2, HalfFacts DEF LowHalf
  <2>4. t2 \div Half = hi /\ t2 % Half = lo BY <1>7, <2>3, Unique
  <2> QED BY <1>8, <2>2, <2>4
<1> DEFINE t3 == u1 * v0 + r2
<1>10. t3 \in Int /\ I(U(t3)) = t3
  <2>1. v0 * u1 + r2 \in Int /\ I(U(v0 * u1 + r2)) = v0 * u1 + r2 BY SignedPart
  <2>2. v0 * u1 = u1 * v0 BY <1>3
  <2> QED BY <2>1, <2>2
<1> HIDE DEF t3
<1>11. PICK c3 \in Int, r3 \in LowHalf : c3 = t3 \div Half /\ r3 = t3 % Half /\ t3 = c3 * Half + r3
  BY <1>10, HalfDivision
<1>12. Sar(U(t3), HalfBits) = c3
  <2>1. U(t3) \in Word BY <1>10, UTyped
  <2>2. PICK hi \in (-(Half \div 2))..(Half \div 2 - 1), lo \in LowHalf :
          Sar(U(t3), HalfBits) = hi /\ U(t3) % Half = lo /\ I(U(t3)) = hi * Half + lo
    BY <2>1, SignedHalves
  <2>3. hi \in Int /\ lo \in 0..(Half - 1) /\ t3 = hi * Half + lo /\ Half \in Nat \ {0}
    BY <1>10, <2>2, HalfFacts DEF LowHalf
  <2>4. t3 \div Half = hi BY <1>10, <2>3, Unique
  <2> QED BY <1>11, <2>2, <2>4
<1>13. SignedMult(a, b) =
         <<U(u0 * v0 + U(c2) + U(c3)), U(Shl(U(t3), HalfBits) + r1)>>
  BY <1>1, <1>2, <1>4, <1>5, <1>6, <1>9, <1>12 DEF SignedMult, t1, t2, t3
<1>14. r1 \in Nat /\ r2 \in Nat /\ r3 \in Nat BY HalfFacts DEF LowHalf
<1> DEFINE P == I(a) * I(b)
           high == (u0 * v0 + c2) + c3
<1>15. P = high * N + (r3 * H + r1)
  <2>1. P = (u0 * v0) * (H * H) + (u0 * v1) * H + (u1 * v0) * H + u1 * v1
    <3> HIDE DEF H
    <3>1. (u0 * H + u1) * (v0 * H + v1) = (u0 * v0) * (H * H) + (u0 * v1) * H + (u1 * v0) * H + u1 * v1
      BY <1>0, <1>3
    <3> QED BY <1>1, <1>2, <3>1 DEF H
  <2> HIDE DEF H, N, P
  <2>2. u0 * v1 = c2 * H + r2 - c1 /\ u1 * v0 = c3 * H + r3 - r2 /\ u1 * v1 = c1 * H + r1
    <3>1. u0 * v1 \in Int /\ u1 * v0 \in Int BY <1>3
    <3>2. c2 * H \in Int /\ c3 * H \in Int BY <1>0
    <3>3. u0 * v1 + c1 = c2 * H + r2 BY <1>8 DEF t2, H
    <3>4. u1 * v0 + r2 = c3 * H + r3 BY <1>11 DEF t3, H
    <3>5. u1 * v1 = c1 * H + r1 BY <1>5 DEF t1, H
    <3> QED BY <1>14, <3>1, <3>2, <3>3, <3>4, <3>5
  <2>3. P = (u0 * v0) * (H * H) + (c2 * H + r2 - c1) * H + (c3 * H + r3 - r2) * H + (c1 * H + r1)
    BY <2>1, <2>2
  <2>4. (u0 * v0) * (H * H) + (c2 * H + r2 - c1) * H + (c3 * H + r3 - r2) * H + (c1 * H + r1)
        = ((u0 * v0 + c2) + c3) * (H * H) + (r3 * H + r1)
    BY <1>0, <1>3, <1>14
  <2> QED BY <1>0, <2>3, <2>4
<1>16. P \in Int /\ high \in Int
  <2>1. I(a) \in Int /\ I(b) \in Int BY ITyped, WordUnchanged
  <2> QED BY <1>3, <2>1
<1>17. P \div Two[W] = high /\ U(P) = r3 * Half + r1
  <2> HIDE DEF P, high
  <2>1. P = high * Two[W] + (r3 * Half + r1) BY <1>15
  <2> QED BY <1>16, <2>1, Digits
<1>18. U(u0 * v0 + U(c2) + U(c3)) = U(high)
  <2>1. u0 * v0 \in Int BY <1>3
  <2> DEFINE y == u0 * v0
  <2> HIDE DEF y
  <2>2. y \in Int /\ U(c2) \in Int /\ U(c3) \in Int BY <2>1, UTyped DEF y
  <2>3. U(y + U(c2)) = U(y + c2) 
    <3>1. U(y + U(c2)) = U(c2 + y) BY <2>2, UU
    <3> QED BY <2>2, <3>1
  <2>4. U((y + U(c2)) + U(c3)) = U(y + U(c2) + c3)
    <3>1. y + U(c2) \in Int BY <2>2
    <3> DEFINE z == y + U(c2)
    <3> HIDE DEF z
    <3>2. U(z + U(c3)) = U(c3 + z) BY <3>1, UU DEF z
    <3>3. c3 + z = z + c3 BY <3>1 DEF z
    <3> QED BY <3>2, <3>3 DEF z
  <2>5. U((y + U(c2)) + c3) = U((y + c2) + c3)
    <3> DEFINE z == y + U(c2)
               w == y + c2
    <3>1. z \in Int /\ w \in Int BY <2>2
    <3> HIDE DEF z, w
    <3>2. U(U(z) + c3) = U(z + c3) /\ U(U(w) + c3) = U(w + c3) BY <3>1, UU
    <3>3. U(z) = U(w) BY <2>3 DEF z, w
    <3> QED BY <3>2, <3>3 DEF z, w
  <2> QED BY <2>4, <2>5 DEF y
<1>19. U(Shl(U(t3), HalfBits) + r1) = U(P)
  <2> HIDE DEF P, high
  <2> DEFINE x == U(t3)
  <2>0. x \in Int /\ U(x) = U(t3) BY <1>10, UTyped, UU
  <2>1. /\ x \in Int /\ Shl(x, HalfBits) \in Int /\ U(Shl(x, HalfBits)) = U(x * H)
    <3> HIDE DEF x
    <3>1. HalfBits \in Nat /\ Two[HalfBits] = H BY <1>0
    <3>2. Shl(x, HalfBits) \in Int /\ U(Shl(x, HalfBits)) = U(x * Two[HalfBits]) BY <2>0, <3>1, ShlBits
    <3> HIDE DEF H
    <3> QED BY <2>0, <3>1, <3>2
  <2>2. U(x * H) = U(t3 * H)
    <3> HIDE DEF x, H
    <3>1. H \in Int BY <1>0
    <3> QED BY <1>10, <2>0, <3>1, UTimes
  <2>3. U(Shl(U(t3), HalfBits) + r1) = U(t3 * H + r1)
    <3> DEFINE y == Shl(U(t3), HalfBits)
               z == t3 * H
    <3>1. y \in Int /\ z \in Int /\ U(y) = U(z) BY <1>0, <1>10, <2>1, <2>2
    <3> HIDE DEF y, z
    <3>2. U(U(y) + r1) = U(y + r1) /\ U(U(z) + r1) = U(z + r1) BY <1>14, <3>1, UU
    <3> QED BY <3>1, <3>2 DEF y, z
  <2>4. t3 * H + r1 = c3 * N + (r3 * H + r1)
    <3>1. (c3 * H + r3) * H = c3 * (H * H) + r3 * H BY <1>0, <1>14
    <3>2. t3 * H = c3 * N + r3 * H BY <1>0, <1>11, <3>1
    <3>3. c3 * N \in Int /\ r3 * H \in Int BY <1>0, <1>14
    <3> QED BY <1>14, <3>2, <3>3
  <2>5. t3 * H + r1 \in Int BY <1>0, <1>10, <1>14
  <2> DEFINE z == t3 * H + r1
  <2> HIDE DEF z
  <2>6. z \in Int /\ z = c3 * Two[W] + (r3 * Half + r1) BY <2>4, <2>5 DEF z
  <2>7. U(z) = r3 * Half + r1 BY <2>6, Digits
  <2> QED BY <1>17, <2>3, <2>7 DEF z
<1>20. SignedMult(a, b) = <<U(high), U(P)>> BY <1>13, <1>18, <1>19
<1> HIDE DEF high, P
<1>21. SignedMult(a, b)[1] = U(high) /\ SignedMult(a, b)[2] = U(P) BY <1>20
<1> QED BY <1>17, <1>20, <1>21 DEF P

LEMMA UnsignedHalves ==
  ASSUME NEW x \in Word
  PROVE  \E hi \in LowHalf, lo \in LowHalf :
           Shr(x, HalfBits) = hi /\ x % Half = lo /\ x = hi * Half + lo
<1> DEFINE H == Half
<1>0. H \in Nat \ {0} /\ Two[W] = H * H /\ Two[HalfBits] = H BY HalfFacts
<1>1. x \in Int /\ x \in Nat /\ U(x) = x BY WordUnchanged
<1>2. PICK q \in Int, r \in LowHalf : q = x \div Half /\ r = x % Half /\ x = q * Half + r
  BY <1>1, HalfDivision
<1>3. r \in 0..(H - 1) /\ x < H * H BY <1>0 DEF LowHalf, Word
<1>4. x = q * H + r BY <1>2
<1>5. Shr(x, HalfBits) = q BY <1>0, <1>1, <1>2 DEF Shr
<1> HIDE DEF H
<1>6. q >= 0
  <2> SUFFICES ASSUME q <= -1 PROVE FALSE BY DEF LowHalf
  <2>1. q * H <= (-1) * H BY <1>0
  <2>2. q * H \in Int BY <1>0
  <2> QED BY <1>0, <1>1, <1>3, <1>4, <2>1, <2>2
<1>7. q <= H - 1
  <2> SUFFICES ASSUME q >= H PROVE FALSE BY <1>0
  <2>1. q * H >= H * H BY <1>0
  <2>2. q * H \in Int /\ H * H \in Int BY <1>0
  <2> QED BY <1>0, <1>3, <1>4, <2>1, <2>2
<1>8. q \in LowHalf BY <1>6, <1>7 DEF LowHalf, H
<1> QED BY <1>2, <1>5, <1>8

(* unsignedMult gives the product of words.                                *)
LEMMA UnsignedMultRight ==
  ASSUME NEW a \in Word, NEW b \in Word
  PROVE  UnsignedMult(a, b) = <<U((a * b) \div Two[W]), U(a * b)>>
<1> DEFINE H == Half
           N == Two[W]
<1>0. H \in Nat \ {0} /\ N = H * H /\ N \in Nat \ {0} /\ Two[HalfBits] = H /\ HalfBits \in Nat
  BY HalfFacts, WFacts
<1>1. PICK th \in LowHalf, tl \in LowHalf :
        Shr(a, HalfBits) = th /\ a % Half = tl /\ a = th * Half + tl
  BY UnsignedHalves
<1>2. PICK sh \in LowHalf, sl \in LowHalf :
        Shr(b, HalfBits) = sh /\ b % Half = sl /\ b = sh * Half + sl
  BY UnsignedHalves
<1>3. th \in Nat /\ tl \in Nat /\ sh \in Nat /\ sl \in Nat BY HalfFacts DEF LowHalf
<1> DEFINE p == tl * sl
<1>4. p \in Nat /\ p \in Word /\ p \div Half \in LowHalf /\ U(p) = p
  BY UnsignedPart, WordUnchanged
<1> HIDE DEF p
<1>5. PICK c \in Int, r \in LowHalf : c = p \div Half /\ r = p % Half /\ p = c * Half + r
  BY <1>4, HalfDivision
<1>6. Shr(p, HalfBits) = c /\ c \in LowHalf BY <1>0, <1>4, <1>5 DEF Shr
<1> DEFINE mid == th * sl + sh * tl
           tmp == mid + c
<1>7. mid \in Nat /\ tmp \in Nat /\ tmp <= 2 * N - 1 /\ r \in Nat /\ c \in Nat
  <2> DEFINE x == th * sl
             y == sh * tl
  <2>1. x \in Nat /\ x <= Two[W] - 2 * Half + 1 /\ y \in Nat /\ y <= Two[W] - 2 * Half + 1
    BY UnsignedPart
  <2> HIDE DEF x, y
  <2>2. c \in 0..(H - 1) /\ r \in 0..(H - 1) BY <1>6 DEF LowHalf
  <2>3. x + y \in Nat /\ x + y + c <= 2 * N - 1
    <3> USE DEF H, N
    <3> QED BY <1>0, <2>1, <2>2
  <2> QED BY <2>2, <2>3 DEF x, y
<1> HIDE DEF mid
<1>8. PICK q \in Int, r2 \in LowHalf : q = tmp \div Half /\ r2 = tmp % Half /\ tmp = q * Half + r2
  <2>1. tmp \in Int BY <1>7
  <2> HIDE DEF tmp
  <2> QED BY <2>1, HalfDivision
<1>9. r2 \in Nat /\ r2 \in 0..(H - 1) BY <1>0 DEF LowHalf
<1>10. Shr(tmp, HalfBits) + Carry(tmp) = q
  <2> HIDE DEF tmp
  <2>1. CASE tmp > Two[W] - 1
    <3>1. U(tmp) = tmp - N
      <4> DEFINE z == tmp - N
      <4>1. tmp \in Int /\ tmp = 1 * N + z /\ z \in 0..(N - 1) /\ 1 \in Int BY <1>0, <1>7, <2>1
      <4> HIDE DEF N, z
      <4>2. tmp % N = z BY <1>0, <4>1, Unique
      <4> QED BY <4>2 DEF U, N, z
    <3>2. tmp - N = (q - H) * H + r2
      <4>1. q * H \in Int /\ H * H \in Int /\ (q - H) * H = q * H - H * H BY <1>0
      <4> QED BY <1>0, <1>7, <1>8, <1>9, <4>1
    <3> DEFINE y == tmp - N
               g == q - H
    <3>3. y \in Int /\ g \in Int /\ y = g * H + r2 BY <1>0, <1>7, <3>2
    <3> HIDE DEF y, H, g
    <3>4. y \div H = g BY <1>0, <1>9, <3>3, Unique
    <3>5. Shr(tmp, HalfBits) = q - H BY <1>0, <3>1, <3>4 DEF Shr, y, g
    <3>6. Carry(tmp) = H BY <2>1 DEF Carry, H
    <3> QED BY <1>0, <3>5, <3>6
  <2>2. CASE ~(tmp > Two[W] - 1)
    <3>1. tmp \in Word BY <1>0, <1>7, <2>2 DEF Word
    <3>2. U(tmp) = tmp BY <3>1, WordUnchanged
    <3>3. Shr(tmp, HalfBits) = q BY <1>0, <1>8, <3>2 DEF Shr
    <3>4. Carry(tmp) = 0 BY <2>2 DEF Carry
    <3> QED BY <3>3, <3>4
  <2> QED BY <2>1, <2>2
<1> DEFINE y == th * sh
<1>11. y \in Int BY <1>3
<1>12. UnsignedMult(a, b) = <<U(y + q), U(Shl(mid, HalfBits) + p)>>
  <2> DEFINE s == Shr(tmp, HalfBits)
             k == Carry(tmp)
  <2>1. UnsignedMult(a, b) = <<U(y + s + k), U(Shl(mid, HalfBits) + p)>>
    BY <1>1, <1>2, <1>6 DEF UnsignedMult, tmp, mid, p
  <2>2. s \in Int /\ k \in Int
    <3>1. s \in Word
      <4>1. tmp \in Int /\ HalfBits \in Nat BY <1>0, <1>7
      <4> HIDE DEF tmp
      <4>2. Shr(tmp, HalfBits) \in Word BY <4>1, ShrBits
      <4> QED BY <4>2
    <3>2. k \in {0, Half} BY DEF Carry
    <3> HIDE DEF s, k
    <3> QED BY <1>0, <3>1, <3>2, WordUnchanged
  <2>3. s + k = q BY <1>10
  <2> HIDE DEF s, k, y
  <2>4. y + s + k = y + q BY <1>11, <2>2, <2>3
  <2> QED BY <2>1, <2>4
<1> DEFINE P == a * b
<1>13. P = (y + q) * N + (r2 * H + r)
  <2>1. P = y * (H * H) + mid * H + p
    <3> HIDE DEF H
    <3>1. (th * H + tl) * (sh * H + sl) = (th * sh) * (H * H) + (th * sl + sh * tl) * H + tl * sl
      BY <1>0, <1>3
    <3> QED BY <1>1, <1>2, <3>1 DEF H, mid, p
  <2> HIDE DEF H, N, P, y
  <2>2. mid = q * H + r2 - c
    <3>1. q * H \in Int BY <1>0
    <3>2. mid + c = q * H + r2 BY <1>8 DEF H
    <3> QED BY <1>7, <1>9, <3>1, <3>2
  <2>3. P = y * (H * H) + (q * H + r2 - c) * H + (c * H + r) BY <1>5, <2>1, <2>2 DEF H
  <2>4. y * (H * H) + (q * H + r2 - c) * H + (c * H + r) = (y + q) * (H * H) + (r2 * H + r)
    BY <1>0, <1>7, <1>9, <1>11
  <2> QED BY <1>0, <2>3, <2>4
<1>14. P \in Int /\ y + q \in Int BY <1>11, WordUnchanged
<1>15. P \div Two[W] = y + q /\ U(P) = r2 * Half + r
  <2> HIDE DEF P, y
  <2>1. P = (y + q) * Two[W] + (r2 * Half + r) BY <1>13
  <2> DEFINE hi == y + q
  <2>2. hi \in Int /\ P = hi * Two[W] + (r2 * Half + r) BY <1>14, <2>1
  <2> HIDE DEF hi
  <2>3. P \div Two[W] = hi /\ U(P) = r2 * Half + r BY <1>14, <2>2, Digits
  <2> QED BY <2>3 DEF hi
<1>16. U(Shl(mid, HalfBits) + p) = U(P)
  <2> HIDE DEF P, y
  <2>1. mid \in Int /\ Shl(mid, HalfBits) \in Int /\ U(Shl(mid, HalfBits)) = U(mid * H)
    <3>1. HalfBits \in Nat /\ Two[HalfBits] = H BY <1>0
    <3> HIDE DEF H
    <3>2. mid \in Int BY <1>7
    <3>3. Shl(mid, HalfBits) \in Int /\ U(Shl(mid, HalfBits)) = U(mid * Two[HalfBits]) BY <3>1, <3>2, ShlBits
    <3> QED BY <3>1, <3>2, <3>3
  <2>2. U(Shl(mid, HalfBits) + p) = U(mid * H + p)
    <3> DEFINE v == Shl(mid, HalfBits)
               z == mid * H
    <3>1. v \in Int /\ z \in Int /\ U(v) = U(z) BY <1>0, <2>1
    <3> HIDE DEF v, z
    <3>2. U(U(v) + p) = U(v + p) /\ U(U(z) + p) = U(z + p) BY <1>4, <3>1, UU
    <3> QED BY <3>1, <3>2 DEF v, z
  <2>3. mid * H + p = q * N + (r2 * H + r)
    <3> HIDE DEF H
    <3>1. (q * H + r2 - c) * H + (c * H + r) = q * (H * H) + (r2 * H + r) BY <1>0, <1>7, <1>9
    <3>2. q * H \in Int /\ mid + c = q * H + r2 BY <1>0, <1>8 DEF H
    <3>3. mid = q * H + r2 - c BY <1>7, <1>9, <3>2
    <3>4. p = c * H + r BY <1>5 DEF H
    <3> QED BY <1>0, <3>1, <3>3, <3>4
  <2>4. mid * H + p \in Int BY <1>0, <1>4, <1>7
  <2> DEFINE z == mid * H + p
  <2> HIDE DEF z
  <2>5. z \in Int /\ z = q * Two[W] + (r2 * Half + r) BY <2>3, <2>4 DEF z
  <2>6. U(z) = r2 * Half + r BY <2>5, Digits
  <2> QED BY <1>15, <2>2, <2>6 DEF z
<1> QED
  <2> HIDE DEF P, y
  <2>1. UnsignedMult(a, b) = <<U(P \div Two[W]), U(P)>> BY <1>12, <1>15, <1>16
  <2> QED BY <2>1 DEF P

LEMMA Truncated ==
  ASSUME NEW x \in Int, NEW y \in Int, y # 0
  PROVE  /\ Quotient(x, y) \in Int /\ Remainder(x, y) \in Int /\ Abs(Remainder(x, y)) < Abs(y)
         /\ Remainder(x, y) = x - y * Quotient(x, y)
<1> DEFINE p == Abs(x)
           d == Abs(y)
<1>1. p \in Nat /\ d \in Nat \ {0} /\ x = (IF x < 0 THEN -p ELSE p) /\ y = (IF y < 0 THEN -d ELSE d)
      /\ (IF x < 0 THEN x < 0 ELSE x >= 0)
  BY DEF Abs
<1> HIDE DEF p, d
<1>2. PICK q \in Int, r \in 0..(d - 1) : q = p \div d /\ r = p % d /\ p = q * d + r
  BY <1>1, Division
<1> DEFINE Q == Quotient(x, y)
<1>3. Q = IF (x < 0) = (y < 0) THEN q ELSE -q BY <1>2 DEF Quotient, p, d
<1>4. Q \in Int
  <2>1. Q = q \/ Q = -q BY <1>3, Zenon
  <2> HIDE DEF Q
  <2> QED BY <1>2, <2>1
<1>5. x - y * Q = IF x < 0 THEN -r ELSE r
  <2> DEFINE z == q * d
  <2>1. z \in Int /\ p = z + r BY <1>1, <1>2
  <2>2. y * Q = IF x < 0 THEN -z ELSE z
    <3>1. d * q = z /\ d * (-q) = -z /\ (-d) * q = -z /\ (-d) * (-q) = z BY <1>1
    <3> HIDE DEF z, Q
    <3>2. CASE x < 0 /\ y < 0 BY <1>1, <1>3, <3>1, <3>2
    <3>3. CASE x < 0 /\ ~(y < 0) BY <1>1, <1>3, <3>1, <3>3
    <3>4. CASE ~(x < 0) /\ y < 0 BY <1>1, <1>3, <3>1, <3>4
    <3>5. CASE ~(x < 0) /\ ~(y < 0) BY <1>1, <1>3, <3>1, <3>5
    <3> QED BY <3>2, <3>3, <3>4, <3>5
  <2> HIDE DEF z, Q
  <2> QED BY <1>1, <2>1, <2>2
<1>6. Remainder(x, y) = x - y * Q BY DEF Remainder
<1> HIDE DEF Q
<1>7. Remainder(x, y) \in Int /\ Abs(Remainder(x, y)) < d
  <2>1. Remainder(x, y) = IF x < 0 THEN -r ELSE r BY <1>5, <1>6
  <2> QED BY <1>1, <2>1 DEF Abs
<1> QED BY <1>4, <1>6, <1>7 DEF Q, d

LEMMA SignedNotZero == ASSUME NEW t \in Word, t # 0 PROVE I(t) \in Int /\ I(t) # 0
<1>1. U(t) = t /\ t \in Int /\ t < Two[W] /\ Two[W] \in Nat BY WordUnchanged, WFacts DEF Word
<1> QED BY <1>1 DEF I

(* The remainder that the interpreter computes is one of those allowed.    *)
LEMMA SignedDivRight ==
  ASSUME NEW s \in Word, NEW t \in Word, t # 0
  PROVE  \E k \in -1..1 :
           /\ Remainder(I(s), I(t)) + k * I(t) \in Int
           /\ Abs(Remainder(I(s), I(t)) + k * I(t)) < Abs(I(t))
           /\ SignedDiv(s, t) = <<U(Remainder(I(s), I(t)) + k * I(t)), U(Quotient(I(s), I(t)))>>
<1> DEFINE a == I(s)
           b == I(t)
           R == Remainder(a, b)
           m == R + b
           Q == Quotient(m, b)
<1>1. a \in Int /\ b \in Int /\ b # 0 BY SignedNotZero, ITyped, WordUnchanged
<1>0. SignedDiv(s, t) = <<U(Remainder(m, b)), U(Quotient(a, b))>> BY DEF SignedDiv
<1> HIDE DEF a, b
<1>2. R \in Int /\ Abs(R) < Abs(b) BY <1>1, Truncated
<1> HIDE DEF R
<1>3. m \in Int BY <1>1, <1>2
<1> HIDE DEF m
<1>4. Q \in Int /\ Remainder(m, b) \in Int /\ Abs(Remainder(m, b)) < Abs(b) /\ Remainder(m, b) = m - b * Q
  BY <1>1, <1>3, Truncated
<1>5. (m < 0) = (b < 0) /\ Abs(m) \in Nat /\ Abs(b) \in Nat \ {0} /\ Abs(m) <= 2 * Abs(b) - 1
  BY <1>1, <1>2 DEF m, Abs
<1>6. Q = Abs(m) \div Abs(b) BY <1>5 DEF Quotient
<1>7. Q \in 0..1
  <2> DEFINE p == Abs(m)
             d == Abs(b)
  <2> HIDE DEF p, d
  <2>0. p \in Int /\ d \in Nat \ {0} BY <1>5 DEF p, d
  <2>1. PICK q \in Int, r \in 0..(d - 1) : q = p \div d /\ r = p % d /\ p = q * d + r
    BY <2>0, Division
  <2>2. q = Q BY <1>6, <2>1 DEF p, d
  <2>3. d \in Nat \ {0} /\ p \in Nat /\ p <= 2 * d - 1 BY <1>5 DEF p, d
  <2>4. q <= 1
    <3> SUFFICES ASSUME q >= 2 PROVE FALSE OBVIOUS
    <3>1. q * d >= 2 * d /\ q * d \in Int BY <2>3
    <3> QED BY <2>1, <2>3, <3>1
  <2>5. q >= 0
    <3> SUFFICES ASSUME q <= -1 PROVE FALSE OBVIOUS
    <3>1. q * d <= (-1) * d /\ q * d \in Int BY <2>3
    <3> QED BY <2>1, <2>3, <3>1
  <2> QED BY <2>2, <2>4, <2>5
<1> HIDE DEF Q
<1> DEFINE k == 1 - Q
<1>8. k \in -1..1 /\ k \in Int BY <1>7
<1>9. Remainder(m, b) = R + k * b
  <2>1. k * b = b - b * Q BY <1>1, <1>4
  <2>2. b * Q \in Int BY <1>1, <1>4
  <2> HIDE DEF k
  <2> QED BY <1>1, <1>2, <1>4, <2>1, <2>2 DEF m
<1> HIDE DEF k
<1>10. R + k * b \in Int /\ Abs(R + k * b) < Abs(b) /\ SignedDiv(s, t) = <<U(R + k * b), U(Quotient(a, b))>>
  BY <1>0, <1>4, <1>9
<1> QED BY <1>8, <1>10 DEF R, a, b

(* Bytes that have the same bits are equal.                                *)
ByteBits(x, k, y, l) == \A j \in 0..(B - 1) : B * k + j \in Bits(x) <=> B * l + j \in Bits(y)
LEMMA ByteFromBits ==
  ASSUME NEW x \in Int, NEW y \in Int, NEW k \in 0..3, NEW l \in 0..3, ByteBits(x, k, y, l)
  PROVE  ByteOf(x, k) = ByteOf(y, l)
<1> DEFINE c == ByteOf(x, k)
           d == ByteOf(y, l)
<1>1. c \in Byte /\ d \in Byte BY ByteTyped
<1>2. ASSUME NEW j \in 0..(B - 1) PROVE (c \div Two[j]) % 2 = 1 <=> (d \div Two[j]) % 2 = 1
  BY BitInByte DEF ByteBits
<1> HIDE DEF c, d
<1>3. c = d BY <1>1, <1>2, SameByte
<1> QED BY <1>3 DEF c, d

LEMMA AllOnes == Two[W] - 1 \in Word /\ Bits(Two[W] - 1) = 0..(W - 1)
<1> DEFINE y == Two[W] - 1
           z == 0 - 1
<1>1. y \in Word /\ y \in Int /\ Two[W] \in Int /\ 0 \in Int /\ z \in Int BY WFacts DEF Word
<1>2. Not(0) = z BY DEF Not
<1>3. Bits(0) = {}
  <2> DEFINE o == 0
  <2>0. o \in Int BY <1>1
  <2> HIDE DEF o
  <2>1. \A i \in 0..(W - 1) : i \notin Bits(o)
    <3> SUFFICES ASSUME NEW i \in 0..(W - 1) PROVE i \notin Bits(o) OBVIOUS
    <3>1. Two[i] \in Nat \ {0}
      <4>1. i \in Nat BY WFacts
      <4> QED BY <4>1, TwoNext
    <3>2. o \div Two[i] = 0
      <4> DEFINE t == Two[i]
      <4> HIDE DEF t
      <4>1. t \in Nat \ {0} /\ 0 \in 0..(t - 1) BY <3>1 DEF t
      <4>2. 0 \div t = 0 BY <4>1, Small
      <4> QED BY <4>2 DEF t, o
    <3>3. i \in Bits(o) <=> (o \div Two[i]) % 2 = 1 BY <2>0, BitOf
    <3> QED BY <3>2, <3>3
  <2>2. Bits(o) \subseteq 0..(W - 1) BY <2>0, BitsOfU
  <2>3. Bits(o) = {} BY <2>1, <2>2
  <2> QED BY <2>3 DEF o
<1>4. Bits(z) = 0..(W - 1)
  <2> DEFINE o == 0
  <2>1. o \in Int /\ Not(o) = z /\ Bits(o) = {} BY <1>1, <1>2, <1>3
  <2> HIDE DEF o, z
  <2>2. Bits(Not(o)) = (0..(W - 1)) \ Bits(o) BY <2>1, NotBits
  <2> QED BY <2>1, <2>2
<1> HIDE DEF y, z
<1>5. U(y) = U(z)
  <2>1. y = z + 1 * Two[W] BY WFacts DEF y, z
  <2> QED BY <1>1, <2>1, UCongruent
<1>6. Bits(y) = Bits(U(y)) /\ Bits(z) = Bits(U(z)) BY <1>1, BitsOfU
<1> QED BY <1>1, <1>4, <1>5, <1>6 DEF y

(* lwl keeps the lowest bytes of the register, and lwr the highest ones.   *)
LEMMA LoadLeftBytes ==
  ASSUME NEW old \in Word, NEW value \in Word, NEW mask \in 0..3, NEW k \in 0..3
  PROVE  /\ LoadLeft(old, value, mask) \in Word
         /\ ByteOf(LoadLeft(old, value, mask), k) =
              IF k >= 3 - mask THEN ByteOf(value, k - (3 - mask)) ELSE ByteOf(old, k)
<1>0. B \in Nat \ {0} /\ W = 4 * B /\ W \in Nat /\ old \in Int /\ value \in Int BY WFacts, WordUnchanged
<1>1. CASE mask = 3
  <2>1. LoadLeft(old, value, mask) = value BY <1>1 DEF LoadLeft
  <2>2. k >= 3 - mask /\ k - (3 - mask) = k BY <1>1
  <2> QED BY <2>1, <2>2
<1>2. CASE mask # 3
  <2> DEFINE n == (3 - mask) * B
             m == (1 + mask) * B
             l == k - (3 - mask)
             ones == Two[W] - 1
             kept == And(old, Shr(ones, m))
             moved == Shl(value, n)
             result == Or(kept, moved)
  <2>1. LoadLeft(old, value, mask) = result BY <1>2 DEF LoadLeft
  <2>2. n \in Nat /\ m \in Nat /\ n + m = W /\ n = W - m
    <3>1. (3 - mask) * B + (1 + mask) * B = 4 * B BY <1>0
    <3>2. n \in Nat /\ m \in Nat BY <1>0
    <3> HIDE DEF n, m
    <3> QED BY <1>0, <3>1, <3>2 DEF n, m
  <2>3. \A j \in 0..(B - 1) :
          /\ B * k + j \in 0..(W - 1)
          /\ IF l >= 0 THEN B * k + j = (B * l + j) + n /\ B * k + j >= n /\ l \in 0..3 /\ B * l + j \in 0..(W - 1)
             ELSE B * k + j < n /\ B * k + j <= W - 1 - m
    <3> SUFFICES ASSUME NEW j \in 0..(B - 1)
                 PROVE  /\ B * k + j \in 0..(W - 1)
                        /\ IF l >= 0 THEN B * k + j = (B * l + j) + n /\ B * k + j >= n /\ l \in 0..3 /\ B * l + j \in 0..(W - 1)
                           ELSE B * k + j < n /\ B * k + j <= W - 1 - m
      OBVIOUS
    <3>1. B * 0 = 0 /\ B * 1 = B /\ B * 2 = 2 * B /\ B * 3 = 3 * B /\ 0 * B = 0 /\ 1 * B = B BY <1>0
    <3>2. \A c \in 0..3 : B * c \in Nat /\ B * c + j \in 0..(W - 1) BY <1>0, <3>1
    <3>3. B * k = B * l + n
      <4>1. B * l = B * k - (3 - mask) * B BY <1>0
      <4>2. B * k \in Int BY <1>0
      <4> HIDE DEF l
      <4> QED BY <2>2, <4>1, <4>2
    <3>4. l >= 0 => l \in 0..3 OBVIOUS
    <3>5. l < 0 => B * l <= -B
      <4>1. SUFFICES ASSUME l <= -1 PROVE B * l <= -B OBVIOUS
      <4>2. l \in Int OBVIOUS
      <4> HIDE DEF l
      <4> QED BY <1>0, <4>1, <4>2
    <3>6. l \in Int /\ B * l \in Int BY <1>0
    <3> HIDE DEF l, n, m
    <3>7. CASE l >= 0 BY <1>0, <2>2, <3>2, <3>3, <3>4, <3>7
    <3>8. CASE ~(l >= 0) BY <1>0, <2>2, <3>2, <3>3, <3>5, <3>6, <3>8
    <3> QED BY <3>7, <3>8
  <2>4. ones \in Int /\ Bits(ones) = 0..(W - 1) BY AllOnes, WordUnchanged
  <2>5. Shr(ones, m) \in Int /\ Bits(Shr(ones, m)) = {i - m : i \in 0..(W - 1)} \cap 0..(W - 1)
    <3> HIDE DEF ones, m
    <3>1. Shr(ones, m) \in Word /\ Bits(Shr(ones, m)) = {i - m : i \in 0..(W - 1)} \cap 0..(W - 1)
      BY <2>2, <2>4, ShrBits
    <3>2. Shr(ones, m) \in Int BY <3>1, WordUnchanged
    <3> QED BY <3>1, <3>2
  <2>6. moved \in Int /\ Bits(moved) = {i + n : i \in Bits(value)} \cap 0..(W - 1)
    <3> HIDE DEF n
    <3> QED BY <1>0, <2>2, ShlBits
  <2> DEFINE highs == Shr(ones, m)
  <2> HIDE DEF moved, highs
  <2>7. kept \in Word /\ kept \in Int /\ Bits(kept) = Bits(old) \cap Bits(highs)
    <3>1. highs \in Int BY <2>5 DEF highs
    <3>2. kept \in Word /\ Bits(kept) = Bits(old) \cap Bits(highs) BY <1>0, <3>1, Logic DEF highs
    <3>3. kept \in Int BY <3>2, WordUnchanged
    <3> QED BY <3>2, <3>3
  <2> HIDE DEF kept
  <2>8. result \in Word /\ result \in Int /\ Bits(result) = Bits(kept) \cup Bits(moved)
    <3>1. result \in Word /\ Bits(result) = Bits(kept) \cup Bits(moved) BY <2>6, <2>7, Logic
    <3>2. result \in Int BY <3>1, WordUnchanged
    <3> QED BY <3>1, <3>2
  <2> HIDE DEF result, l, n, m, ones
  <2>9. \A i \in 0..(W - 1) : i \in Bits(highs) <=> i <= W - 1 - m
    BY <1>0, <2>2, <2>5 DEF highs
  <2>10. Bits(value) \subseteq 0..(W - 1) BY <1>0, BitsOfU
  <2>11. CASE l >= 0
    <3> SUFFICES ByteOf(result, k) = ByteOf(value, l) BY <2>1, <2>8, <2>11 DEF l
    <3>1. ASSUME NEW j \in 0..(B - 1) PROVE B * k + j \in Bits(result) <=> B * l + j \in Bits(value)
      <4> DEFINE x == B * k + j
                 y == B * l + j
      <4>1. x \in 0..(W - 1) /\ x = y + n /\ x >= n /\ y \in 0..(W - 1) BY <2>3, <2>11
      <4> HIDE DEF x, y
      <4>2. x \notin Bits(highs) BY <1>0, <2>2, <2>9, <4>1
      <4>3. x \in Bits(moved) <=> y \in Bits(value) BY <1>0, <2>2, <2>6, <2>10, <4>1
      <4>4. x \in Bits(result) <=> y \in Bits(value) BY <2>7, <2>8, <4>2, <4>3
      <4> QED BY <4>4 DEF x, y
    <3>2. l \in 0..3
      <4>1. 0 \in 0..(B - 1) BY <1>0
      <4> QED BY <2>3, <2>11, <4>1
    <3>3. ByteBits(result, k, value, l) BY <3>1 DEF ByteBits
    <3> QED BY <1>0, <2>8, <3>2, <3>3, ByteFromBits
  <2>12. CASE ~(l >= 0)
    <3> SUFFICES ByteOf(result, k) = ByteOf(old, k) BY <2>1, <2>8, <2>12 DEF l
    <3>1. ASSUME NEW j \in 0..(B - 1) PROVE B * k + j \in Bits(result) <=> B * k + j \in Bits(old)
      <4> DEFINE x == B * k + j
      <4>1. x \in 0..(W - 1) /\ x < n /\ x <= W - 1 - m BY <2>3, <2>12
      <4> HIDE DEF x
      <4>2. x \in Bits(highs) BY <2>9, <4>1
      <4>3. x \notin Bits(moved) BY <1>0, <2>2, <2>6, <2>10, <4>1
      <4>4. x \in Bits(result) <=> x \in Bits(old) BY <2>7, <2>8, <4>2, <4>3
      <4> QED BY <4>4 DEF x
    <3>2. ByteBits(result, k, old, k) BY <3>1 DEF ByteBits
    <3> QED BY <1>0, <2>8, <3>2, ByteFromBits
  <2> QED BY <2>11, <2>12
<1> QED BY <1>1, <1>2

LEMMA LoadRightBytes ==
  ASSUME NEW old \in Word, NEW value \in Word, NEW mask \in 0..3, NEW k \in 0..3
  PROVE  /\ LoadRight(old, value, mask) \in Word
         /\ ByteOf(LoadRight(old, value, mask), k) =
              IF k + mask <= 3 THEN ByteOf(value, k + mask) ELSE ByteOf(old, k)
<1>0. B \in Nat \ {0} /\ W = 4 * B /\ W \in Nat /\ old \in Int /\ value \in Int BY WFacts, WordUnchanged
<1>1. CASE mask = 0
  <2>1. LoadRight(old, value, mask) = value BY <1>1 DEF LoadRight
  <2>2. k + mask <= 3 /\ k + mask = k BY <1>1
  <2> QED BY <2>1, <2>2
<1>2. CASE mask # 0
  <2> DEFINE n == (4 - mask) * B
             m == mask * B
             l == k + mask
             ones == Two[W] - 1
             highs == U(Shl(ones, n))
             kept == And(old, highs)
             moved == Shr(value, m)
             result == Or(kept, moved)
  <2>1. LoadRight(old, value, mask) = result BY <1>2 DEF LoadRight
  <2>2. n \in Nat /\ m \in Nat /\ n + m = W /\ n = W - m
    <3>1. (4 - mask) * B + mask * B = 4 * B BY <1>0
    <3>2. n \in Nat /\ m \in Nat BY <1>0
    <3> HIDE DEF n, m
    <3> QED BY <1>0, <3>1, <3>2 DEF n, m
  <2>3. \A j \in 0..(B - 1) :
          /\ B * k + j \in 0..(W - 1)
          /\ IF l <= 3 THEN B * l + j = (B * k + j) + m /\ B * k + j < n /\ l \in 0..3 /\ B * l + j \in 0..(W - 1)
             ELSE B * k + j >= n
    <3> SUFFICES ASSUME NEW j \in 0..(B - 1)
                 PROVE  /\ B * k + j \in 0..(W - 1)
                        /\ IF l <= 3 THEN B * l + j = (B * k + j) + m /\ B * k + j < n /\ l \in 0..3 /\ B * l + j \in 0..(W - 1)
                           ELSE B * k + j >= n
      OBVIOUS
    <3>1. B * 0 = 0 /\ B * 1 = B /\ B * 2 = 2 * B /\ B * 3 = 3 * B BY <1>0
    <3>2. \A c \in 0..3 : B * c \in Nat /\ B * c + j \in 0..(W - 1) BY <1>0, <3>1
    <3>3. B * l = B * k + m
      <4>1. B * (k + mask) = B * k + mask * B BY <1>0
      <4> QED BY <4>1
    <3>4. l <= 3 => l \in 0..3 OBVIOUS
    <3>5. l > 3 => B * l >= 4 * B
      <4>1. SUFFICES ASSUME l >= 4 PROVE B * l >= 4 * B OBVIOUS
      <4>2. l \in Int OBVIOUS
      <4> HIDE DEF l
      <4> QED BY <1>0, <4>1, <4>2
    <3>6. l \in Int /\ B * l \in Int /\ B * k \in Int BY <1>0
    <3> HIDE DEF l, n, m
    <3>7. CASE l <= 3 BY <1>0, <2>2, <3>2, <3>3, <3>4, <3>6, <3>7
    <3>8. CASE ~(l <= 3) BY <1>0, <2>2, <3>2, <3>3, <3>5, <3>6, <3>8
    <3> QED BY <3>7, <3>8
  <2>4. ones \in Int /\ Bits(ones) = 0..(W - 1) BY AllOnes, WordUnchanged
  <2>5. highs \in Int /\ Bits(highs) = {i + n : i \in 0..(W - 1)} \cap 0..(W - 1)
    <3> HIDE DEF ones, n
    <3>1. Shl(ones, n) \in Int /\ Bits(Shl(ones, n)) = {i + n : i \in 0..(W - 1)} \cap 0..(W - 1)
      BY <2>2, <2>4, ShlBits
    <3> QED BY <3>1, BitsOfU, UTyped
  <2>6. moved \in Int /\ Bits(moved) = {i - m : i \in Bits(value)} \cap 0..(W - 1)
    <3> HIDE DEF m
    <3>1. moved \in Word /\ Bits(moved) = {i - m : i \in Bits(value)} \cap 0..(W - 1)
      BY <1>0, <2>2, ShrBits
    <3>2. moved \in Int BY <3>1, WordUnchanged
    <3> QED BY <3>1, <3>2
  <2> HIDE DEF moved, highs
  <2>7. kept \in Word /\ kept \in Int /\ Bits(kept) = Bits(old) \cap Bits(highs)
    <3>1. kept \in Word /\ Bits(kept) = Bits(old) \cap Bits(highs) BY <1>0, <2>5, Logic
    <3>2. kept \in Int BY <3>1, WordUnchanged
    <3> QED BY <3>1, <3>2
  <2> HIDE DEF kept
  <2>8. result \in Word /\ result \in Int /\ Bits(result) = Bits(kept) \cup Bits(moved)
    <3>1. result \in Word /\ Bits(result) = Bits(kept) \cup Bits(moved) BY <2>6, <2>7, Logic
    <3>2. result \in Int BY <3>1, WordUnchanged
    <3> QED BY <3>1, <3>2
  <2> HIDE DEF result, l, n, m, ones
  <2>9. \A i \in 0..(W - 1) : i \in Bits(highs) <=> i >= n
    BY <1>0, <2>2, <2>5
  <2>10. Bits(value) \subseteq 0..(W - 1) BY <1>0, BitsOfU
  <2>11. CASE l <= 3
    <3> SUFFICES ByteOf(result, k) = ByteOf(value, l) BY <2>1, <2>8, <2>11 DEF l
    <3>1. ASSUME NEW j \in 0..(B - 1) PROVE B * k + j \in Bits(result) <=> B * l + j \in Bits(value)
      <4> DEFINE x == B * k + j
                 y == B * l + j
      <4>1. x \in 0..(W - 1) /\ y = x + m /\ x < n /\ y \in 0..(W - 1) BY <2>3, <2>11
      <4> HIDE DEF x, y
      <4>2. x \notin Bits(highs) BY <1>0, <2>2, <2>9, <4>1
      <4>3. x \in Bits(moved) <=> y \in Bits(value) BY <1>0, <2>2, <2>6, <2>10, <4>1
      <4>4. x \in Bits(result) <=> y \in Bits(value) BY <2>7, <2>8, <4>2, <4>3
      <4> QED BY <4>4 DEF x, y
    <3>2. l \in 0..3
      <4>1. 0 \in 0..(B - 1) BY <1>0
      <4> QED BY <2>3, <2>11, <4>1
    <3>3. ByteBits(result, k, value, l) BY <3>1 DEF ByteBits
    <3> QED BY <1>0, <2>8, <3>2, <3>3, ByteFromBits
  <2>12. CASE ~(l <= 3)
    <3> SUFFICES ByteOf(result, k) = ByteOf(old, k) BY <2>1, <2>8, <2>12 DEF l
    <3>1. ASSUME NEW j \in 0..(B - 1) PROVE B * k + j \in Bits(result) <=> B * k + j \in Bits(old)
      <4> DEFINE x == B * k + j
      <4>1. x \in 0..(W - 1) /\ x >= n BY <2>3, <2>12
      <4> HIDE DEF x
      <4>2. x \in Bits(highs) BY <2>9, <4>1
      <4>3. x \notin Bits(moved) BY <1>0, <2>2, <2>6, <2>10, <4>1
      <4>4. x \in Bits(result) <=> x \in Bits(old) BY <2>7, <2>8, <4>2, <4>3
      <4> QED BY <4>4 DEF x
    <3>2. ByteBits(result, k, old, k) BY <3>1 DEF ByteBits
    <3> QED BY <1>0, <2>8, <3>2, ByteFromBits
  <2> QED BY <2>11, <2>12
<1> QED BY <1>1, <1>2

LEMMA ArchTwo == Arch!Two = Two
BY DEF Arch!Two, Two
LEMMA ArchWords ==
  /\ Arch!W = W /\ Arch!Word = Word /\ Arch!Byte = Byte
  /\ \A x : Arch!U(x) = U(x) /\ Arch!I(x) = I(x) /\ Arch!Bits(x) = Bits(x) /\ Arch!Abs(x) = Abs(x)
  /\ \A x, n : Arch!Extended(x, n) = Extended(x, n)
<1>1. Arch!W = W BY DEF Arch!W, W
<1>2. Arch!Word = Word /\ Arch!Byte = Byte BY <1>1, ArchTwo DEF Arch!Word, Word, Arch!Byte, Byte
<1>3. ASSUME NEW x PROVE Arch!U(x) = U(x) BY <1>1, ArchTwo DEF Arch!U, U
<1>4. ASSUME NEW x PROVE Arch!I(x) = I(x) BY <1>1, <1>3, ArchTwo DEF Arch!I, I
<1>5. ASSUME NEW x PROVE Arch!Bits(x) = Bits(x) BY <1>1, <1>3, ArchTwo DEF Arch!Bits, Bits
<1>6. ASSUME NEW x PROVE Arch!Abs(x) = Abs(x) BY DEF Arch!Abs, Abs
<1>7. ASSUME NEW x, NEW n PROVE Arch!Extended(x, n) = Extended(x, n) BY ArchTwo DEF Arch!Extended, Extended
<1> QED BY <1>1, <1>2, <1>3, <1>4, <1>5, <1>6, <1>7
LEMMA ArchBytes ==
  /\ \A s : Arch!Number(s) = Number(s)
  /\ \A x, i : Arch!ByteOf(x, i) = ByteOf(x, i)
  /\ \A b : Arch!Joined(b) = Joined(b)
  /\ \A m, a : Arch!WordAt(m, a) = WordAt(m, a)
  /\ \A x, y : Arch!Quotient(x, y) = Quotient(x, y) /\ Arch!Remainder(x, y) = Remainder(x, y)
<1>1. ASSUME NEW s PROVE Arch!Number(s) = Number(s) BY ArchTwo, ArchWords DEF Arch!Number, Number
<1>2. ASSUME NEW x, NEW i PROVE Arch!ByteOf(x, i) = ByteOf(x, i) BY ArchTwo, ArchWords DEF Arch!ByteOf, ByteOf
<1>3. ASSUME NEW b PROVE Arch!Joined(b) = Joined(b) BY ArchTwo DEF Arch!Joined, Joined
<1>4. ASSUME NEW m, NEW a PROVE Arch!WordAt(m, a) = WordAt(m, a)
  BY <1>3, ArchWords DEF Arch!WordAt, WordAt
<1>5. ASSUME NEW x, NEW y PROVE Arch!Quotient(x, y) = Quotient(x, y) BY ArchWords DEF Arch!Quotient, Quotient
<1>6. ASSUME NEW x, NEW y PROVE Arch!Remainder(x, y) = Remainder(x, y) BY <1>5 DEF Arch!Remainder, Remainder
<1> QED BY <1>1, <1>2, <1>3, <1>4, <1>5, <1>6

(* Instructions compute what the architecture says they do.                *)
LEMMA ShiftRight ==
  ASSUME NEW op \in ShiftOps \cup ShiftByOps, NEW x \in Int, NEW n \in Nat, NEW s
  PROVE  ShiftValue(op, x, n) \in Int /\ U(ShiftValue(op, x, n)) = U(Arch!Operation(op, s, x, n))
<1>1. \A set : Number(set) \in Word /\ Number(set) \in Int /\ U(Number(set)) = Number(set)
  <2> SUFFICES ASSUME NEW set PROVE Number(set) \in Word /\ Number(set) \in Int /\ U(Number(set)) = Number(set)
    OBVIOUS
  <2>1. Number(set) \in Word BY BitsOfNumber
  <2> QED BY <2>1, WordUnchanged
<1>2. CASE op \in {"sll", "sllv"}
  <2>1. ShiftValue(op, x, n) = Shl(x, n) BY <1>2 DEF ShiftValue
  <2>2. Arch!Operation(op, s, x, n) = Number({i + n : i \in Bits(x)} \cap 0..(W - 1))
    BY <1>2, ArchWords, ArchBytes DEF Arch!Operation
  <2>3. Shl(x, n) \in Int /\ U(Shl(x, n)) = Number({i + n : i \in Bits(x)} \cap 0..(W - 1)) BY ShlBits
  <2> QED BY <1>1, <2>1, <2>2, <2>3
<1>3. CASE op \in {"srl", "srlv"}
  <2>1. ShiftValue(op, x, n) = Shr(x, n) BY <1>3 DEF ShiftValue
  <2>2. Arch!Operation(op, s, x, n) = Number({i - n : i \in Bits(x)} \cap 0..(W - 1))
    BY <1>3, ArchWords, ArchBytes DEF Arch!Operation
  <2>3. Shr(x, n) = Number({i - n : i \in Bits(x)} \cap 0..(W - 1)) BY ShrBits
  <2> QED BY <1>1, <2>1, <2>2, <2>3
<1>4. CASE op \in {"sra", "srav"}
  <2>1. ShiftValue(op, x, n) = Sar(x, n) BY <1>4 DEF ShiftValue
  <2>2. Arch!Operation(op, s, x, n) =
          Number({i \in 0..(W - 1) : (IF i + n < W THEN i + n ELSE W - 1) \in Bits(x)})
    BY <1>4, ArchWords, ArchBytes DEF Arch!Operation
  <2>3. Sar(x, n) \in Int
        /\ U(Sar(x, n)) = Number({i \in 0..(W - 1) : (IF i + n < W THEN i + n ELSE W - 1) \in Bits(x)})
    BY SarBits
  <2> QED BY <1>1, <2>1, <2>2, <2>3
<1> QED BY <1>2, <1>3, <1>4 DEF ShiftOps, ShiftByOps

LEMMA AluRight ==
  ASSUME NEW op \in AluOps, NEW s \in Word, NEW t \in Word, NEW n
  PROVE  AluValue(op, s, t) \in Int /\ U(AluValue(op, s, t)) = U(Arch!Operation(op, s, t, n))
<1>0. s \in Int /\ t \in Int BY WordUnchanged
<1>1. CASE op \in {"add", "addu"}
  <2>1. AluValue(op, s, t) = t + s /\ Arch!Operation(op, s, t, n) = s + t
    BY <1>1 DEF AluValue, Arch!Operation
  <2>2. t + s = s + t /\ t + s \in Int BY <1>0
  <2> QED BY <2>1, <2>2
<1>2. CASE op \in {"sub", "subu"}
  <2>1. AluValue(op, s, t) = s - t /\ Arch!Operation(op, s, t, n) = s - t
    BY <1>2 DEF AluValue, Arch!Operation
  <2> QED BY <1>0, <2>1
<1>3. CASE op = "and"
  <2>1. AluValue(op, s, t) = And(t, s) /\ Arch!Operation(op, s, t, n) = Number(Bits(s) \cap Bits(t))
    BY <1>3, ArchWords, ArchBytes DEF AluValue, Arch!Operation
  <2>2. And(t, s) = Number(Bits(s) \cap Bits(t))
    <3>1. Bits(s) \cap Bits(t) = Bits(t) \cap Bits(s) OBVIOUS
    <3> QED BY <3>1 DEF And
  <2>3. And(t, s) \in Int
    <3>1. And(t, s) \in Word BY <1>0, Logic
    <3> QED BY <3>1, WordUnchanged
  <2> QED BY <2>1, <2>2, <2>3
<1>4. CASE op = "or"
  <2>1. AluValue(op, s, t) = Or(t, s) /\ Arch!Operation(op, s, t, n) = Number(Bits(s) \cup Bits(t))
    BY <1>4, ArchWords, ArchBytes DEF AluValue, Arch!Operation
  <2>2. Or(t, s) = Number(Bits(s) \cup Bits(t))
    <3>1. Bits(s) \cup Bits(t) = Bits(t) \cup Bits(s) OBVIOUS
    <3> QED BY <3>1 DEF Or
  <2>3. Or(t, s) \in Int
    <3>1. Or(t, s) \in Word BY <1>0, Logic
    <3> QED BY <3>1, WordUnchanged
  <2> QED BY <2>1, <2>2, <2>3
<1>5. CASE op = "xor"
  <2>1. AluValue(op, s, t) = Xor(t, s)
        /\ Arch!Operation(op, s, t, n) = Number((Bits(s) \cup Bits(t)) \ (Bits(s) \cap Bits(t)))
    BY <1>5, ArchWords, ArchBytes DEF AluValue, Arch!Operation
  <2>2. Xor(t, s) = Number((Bits(s) \cup Bits(t)) \ (Bits(s) \cap Bits(t)))
    <3>1. (Bits(s) \cup Bits(t)) \ (Bits(s) \cap Bits(t)) = (Bits(t) \cup Bits(s)) \ (Bits(t) \cap Bits(s)) OBVIOUS
    <3> QED BY <3>1 DEF Xor
  <2>3. Xor(t, s) \in Int
    <3>1. Xor(t, s) \in Word BY <1>0, Logic
    <3> QED BY <3>1, WordUnchanged
  <2> QED BY <2>1, <2>2, <2>3
<1>6. CASE op = "nor"
  <2> DEFINE o == Or(t, s)
  <2>1. AluValue(op, s, t) = Not(o)
        /\ Arch!Operation(op, s, t, n) = Number((0..(W - 1)) \ (Bits(s) \cup Bits(t)))
    BY <1>6, ArchWords, ArchBytes DEF AluValue, Arch!Operation
  <2>2. o \in Word /\ Bits(o) = Bits(t) \cup Bits(s) BY <1>0, Logic
  <2> HIDE DEF o
  <2>3. o \in Int BY <2>2, WordUnchanged
  <2>4. Not(o) \in Int /\ U(Not(o)) = Number((0..(W - 1)) \ Bits(o)) BY <2>3, NotBits
  <2>5. (0..(W - 1)) \ (Bits(s) \cup Bits(t)) = (0..(W - 1)) \ Bits(o) BY <2>2
  <2>6. U(U(Not(o))) = U(Not(o))
    <3> DEFINE z == Not(o)
    <3>1. z \in Int BY <2>4
    <3> HIDE DEF z
    <3>2. U(U(z)) = U(z) BY <3>1, UU
    <3> QED BY <3>2 DEF z
  <2> QED BY <2>1, <2>4, <2>5, <2>6
<1>7. CASE op \in {"slt", "sltu"}
  <2>1. AluValue(op, s, t) \in {0, 1} /\ AluValue(op, s, t) = Arch!Operation(op, s, t, n)
    BY <1>7, ArchWords DEF AluValue, Arch!Operation, Flag, Arch!Truth
  <2> QED BY <2>1
<1> QED BY <1>1, <1>2, <1>3, <1>4, <1>5, <1>6, <1>7 DEF AluOps

(* Immediate operands, extended.                                           *)
LEMMA ExtendedTyped ==
  ASSUME NEW x \in Int, NEW n \in Nat \ {0}
  PROVE  /\ Extended(x, n) \in (-Two[n - 1])..(Two[n - 1] - 1) /\ Extended(x, n) \in Int
<1>1. Two[n] \in Nat \ {0} /\ Two[n - 1] \in Nat \ {0} /\ Two[n] = 2 * Two[n - 1]
  <2>1. n - 1 \in Nat /\ (n - 1) + 1 = n OBVIOUS
  <2>2. Two[n - 1] \in Nat \ {0} /\ Two[(n - 1) + 1] = 2 * Two[n - 1] BY <2>1, TwoNext
  <2> QED BY <2>1, <2>2
<1> DEFINE m == Two[n]
           h == Two[n - 1]
           y == x % m
<1>2. y \in 0..(m - 1) BY <1>1
<1>3. Extended(x, n) = IF y < h THEN y ELSE y - m BY DEF Extended
<1> HIDE DEF m, h, y
<1>4. Extended(x, n) \in (-h)..(h - 1)
  <2>1. m = 2 * h /\ h \in Nat BY <1>1 DEF m, h
  <2> QED BY <1>2, <1>3, <2>1
<1>5. h \in Nat BY <1>1 DEF h
<1> QED BY <1>4, <1>5 DEF h

LEMMA ImmediateTyped ==
  ASSUME NEW imm \in Int
  PROVE  /\ Extended(imm, 2 * B) \in Int /\ I(U(Extended(imm, 2 * B))) = Extended(imm, 2 * B)
<1> DEFINE x == Extended(imm, 2 * B)
<1>1. 2 * B \in Nat \ {0} /\ HalfBits = 2 * B /\ Two[2 * B] = Half BY WFacts DEF HalfBits, Half
<1>2. 2 * B - 1 \in Nat BY <1>1
<1> DEFINE h == Two[2 * B - 1]
<1>3. x \in (-h)..(h - 1) /\ x \in Int BY <1>1, ExtendedTyped
<1>4. h \in Nat /\ h <= Two[W - 1]
  <2>1. 2 * B - 1 \in 0..(W - 1) /\ W - 1 \in Nat BY WFacts
  <2> QED BY <2>1, TwoDivides
<1> HIDE DEF x, h
<1>5. Two[W - 1] \in Nat BY WFacts
<1>6. -Two[W - 1] <= x /\ x < Two[W - 1] BY <1>3, <1>4, <1>5
<1>7. I(U(x)) = x BY <1>3, <1>6, Signed
<1> QED BY <1>3, <1>7 DEF x

LEMMA ImmRight ==
  ASSUME NEW op \in ImmOps, NEW s \in Word, NEW imm \in Nat, NEW n
  PROVE  /\ ImmValue(op, s, imm) \in Int
         /\ U(ImmValue(op, s, imm)) =
              U(Arch!Operation(op, s, IF op \in Arch!SignedImmediate THEN U(Extended(imm, 2 * B)) ELSE imm, n))
<1> DEFINE simm == Extended(imm, 2 * B)
<1>0. s \in Int /\ imm \in Int /\ U(s) = s BY WordUnchanged
<1>1. simm \in Int /\ I(U(simm)) = simm BY <1>0, ImmediateTyped
<1>2. ImmValue(op, s, imm) =
        CASE op \in {"addi", "addiu"} -> s + simm
          [] op = "slti" -> Flag(I(s) < simm)
          [] op = "sltiu" -> Flag(s < U(simm))
          [] op = "andi" -> And(s, imm)
          [] op = "ori" -> Or(s, imm)
          [] op = "xori" -> Xor(s, imm)
          [] op = "lui" -> Shl(imm, 2 * B)
  BY DEF ImmValue
<1> HIDE DEF simm
<1>3. CASE op \in {"addi", "addiu"}
  <2>1. ImmValue(op, s, imm) = s + simm /\ Arch!Operation(op, s, U(simm), n) = s + U(simm)
    BY <1>2, <1>3 DEF Arch!Operation
  <2>2. U(s + U(simm)) = U(s + simm)
    <3>1. U(s + U(simm)) = U(simm + s) BY <1>0, <1>1, UU
    <3>2. simm + s = s + simm BY <1>0, <1>1
    <3> QED BY <3>1, <3>2
  <2>3. op \in Arch!SignedImmediate BY <1>3 DEF Arch!SignedImmediate
  <2>4. s + simm \in Int BY <1>0, <1>1
  <2> QED BY <2>1, <2>2, <2>3, <2>4 DEF simm
<1>4. CASE op = "slti"
  <2>1. ImmValue(op, s, imm) = Flag(I(s) < simm) /\ Arch!Operation(op, s, U(simm), n) = Flag(I(s) < I(U(simm)))
    BY <1>2, <1>4, ArchWords DEF Arch!Operation, Arch!Truth, Flag
  <2>2. op \in Arch!SignedImmediate BY <1>4 DEF Arch!SignedImmediate
  <2>3. Flag(I(s) < simm) \in Int BY DEF Flag
  <2> QED BY <1>1, <2>1, <2>2, <2>3 DEF simm
<1>5. CASE op = "sltiu"
  <2>1. ImmValue(op, s, imm) = Flag(s < U(simm)) /\ Arch!Operation(op, s, U(simm), n) = Flag(s < U(simm))
    BY <1>2, <1>5 DEF Arch!Operation, Arch!Truth, Flag
  <2>2. op \in Arch!SignedImmediate BY <1>5 DEF Arch!SignedImmediate
  <2>3. Flag(s < U(simm)) \in Int BY DEF Flag
  <2> QED BY <2>1, <2>2, <2>3 DEF simm
<1>6. CASE op \in {"andi", "ori", "xori"}
  <2>1. op \notin Arch!SignedImmediate BY <1>6 DEF Arch!SignedImmediate
  <2>2. ImmValue(op, s, imm) = Arch!Operation(op, s, imm, n)
    BY <1>2, <1>6, ArchWords, ArchBytes DEF Arch!Operation, And, Or, Xor
  <2>3. And(s, imm) \in Word /\ Or(s, imm) \in Word /\ Xor(s, imm) \in Word BY <1>0, Logic
  <2>4. ImmValue(op, s, imm) \in Word BY <1>2, <1>6, <2>3
  <2>5. ImmValue(op, s, imm) \in Int BY <2>4, WordUnchanged
  <2> QED BY <2>1, <2>2, <2>5
<1>7. CASE op = "lui"
  <2>1. op \notin Arch!SignedImmediate BY <1>7 DEF Arch!SignedImmediate
  <2> DEFINE c == 2 * B
  <2>2. c \in Nat BY WFacts
  <2>3. ImmValue(op, s, imm) = Shl(imm, c)
        /\ Arch!Operation(op, s, imm, n) = Number({i + c : i \in Bits(imm)} \cap 0..(W - 1))
    BY <1>2, <1>7, ArchWords, ArchBytes DEF Arch!Operation
  <2> HIDE DEF c
  <2>4. Shl(imm, c) \in Int /\ U(Shl(imm, c)) = Number({i + c : i \in Bits(imm)} \cap 0..(W - 1))
    BY <1>0, <2>2, ShlBits
  <2> DEFINE z == Shl(imm, c)
  <2>5. z \in Int BY <2>4
  <2> HIDE DEF z
  <2>6. U(U(z)) = U(z) BY <2>5, UU
  <2> QED BY <2>1, <2>3, <2>4, <2>6 DEF z
<1> QED BY <1>3, <1>4, <1>5, <1>6, <1>7 DEF ImmOps

(* The invariant: memory is made of bytes, the page table has every page,  *)
(* and executables are loaded before anything runs.                        *)
Memory == [Address -> Byte]
Registered == {r \in [Registers -> Word] : r[0] = 0}
IInv ==
  /\ TypeOK
  /\ mem \in Memory /\ DOMAIN flags = Page
  /\ exe \in Executables \cup {None} /\ (inside => exe = None)

(* The processor that registers, memory, pc and a pending branch are.      *)
Regs == Registers \ {PC, PendingBranch}
Next4(p, b) == IF b # 0 THEN b ELSE U(p + 4)
Cpu(r, m, p, b) == [regs |-> [x \in Regs |-> r[x]], mem |-> m, pc |-> p, npc |-> Next4(p, b)]
Current == Cpu(registers, mem, pc, pending)
Correct(r, m, p, b) ==
  /\ r \in Registered /\ m \in Memory /\ p \in Word /\ b \in Word
  /\ Cpu(r, m, p, b) \in Arch!After(Current)
Stepped ==
  /\ Fetched /\ Instruction.op # "syscall"
  /\ \E r, m, p, b : Correct(r, m, p, b) /\ Goes(r, m, p, b)

LEMMA RegisterFacts ==
  /\ Registers \subseteq 0..67 /\ {PC, PendingBranch} \subseteq Registers
  /\ {0, V0, A0, A1, A3, T9, Sp, Ra, Condition, Low, High} \subseteq Regs /\ Regs \subseteq Registers
  /\ \A d \in 0..63 : d \in Registers => d \in Regs
<1>1. Registers \subseteq 0..67
  <2>0. SavedOrder \in Seq(0..67) BY MachineAssumption
  <2>1. \A k \in DOMAIN SavedOrder : SavedOrder[k] \in 0..67
    <3> DEFINE S == 0..67
    <3>1. SavedOrder \in Seq(S) BY <2>0
    <3> HIDE DEF S
    <3>2. DOMAIN SavedOrder = 1..Len(SavedOrder) /\ \A k \in 1..Len(SavedOrder) : SavedOrder[k] \in S BY <3>1
    <3> QED BY <3>2 DEF S
  <2> QED BY <2>1 DEF Registers
<1>2. {0, V0, A0, A1, A3, T9, Sp, Ra, Condition, PC, PendingBranch, Low, High} \subseteq Registers
  BY MachineAssumption
<1>3. /\ \A d \in 0..63 : d # PC /\ d # PendingBranch
      /\ \A d \in {0, V0, A0, A1, A3, T9, Sp, Ra, Condition, Low, High} : d # PC /\ d # PendingBranch
  BY DEF V0, A0, A1, A3, T9, Sp, Ra, Condition, F, Low, High, PC, PendingBranch
<1> QED BY <1>1, <1>2, <1>3 DEF Regs

LEMMA WordFacts == 0 \in Word /\ 1 \in Word /\ \A x \in Word : x \in Int /\ x \in Nat /\ U(x) = x
<1>1. Two[W] \in Nat /\ Two[W] >= 16 BY WFacts
<1> QED BY <1>1, WordUnchanged DEF Word

LEMMA NextTyped == ASSUME NEW p \in Word, NEW b \in Word PROVE Next4(p, b) \in Word
<1>1. p + 4 \in Int BY WordFacts
<1>2. U(p + 4) \in Word BY <1>1, UTyped
<1> QED BY <1>2 DEF Next4

LEMMA PutTyped ==
  ASSUME NEW r \in Registered, NEW d, NEW x \in Int
  PROVE  Put(r, d, x) \in Registered /\ \A y \in Registers : Put(r, d, x)[y] = IF y # 0 /\ y = d THEN U(x) ELSE r[y]
<1>1. U(x) \in Word BY UTyped
<1> QED BY <1>1, RegisterFacts DEF Put, Registered

LEMMA WordAtTyped == ASSUME NEW m \in Memory, NEW a \in Int
                     PROVE  WordAt(m, a) \in Word /\ [i \in 0..3 |-> m[U(a + i)]] \in Bytes4
<1>1. ASSUME NEW i \in 0..3 PROVE m[U(a + i)] \in Byte
  <2>1. a + i \in Int OBVIOUS
  <2>2. U(a + i) \in Word BY <2>1, UTyped
  <2> QED BY <2>2 DEF Memory, Address
<1>2. [i \in 0..3 |-> m[U(a + i)]] \in Bytes4 BY <1>1 DEF Bytes4
<1> QED BY <1>2, JoinedBytes DEF WordAt

LEMMA CurrentFacts ==
  ASSUME IInv
  PROVE  /\ registers \in Registered /\ mem \in Memory /\ pc \in Word /\ pending \in Word
         /\ IsInstruction(Instruction) /\ Following \in Word
         /\ Current.mem = mem /\ Current.pc = pc /\ Current.npc = Following
         /\ Current.regs = [x \in Regs |-> registers[x]] /\ \A x \in Regs : Current.regs[x] = registers[x]
         /\ Arch!Current(Current) = Instruction
<1>1. registers \in Registered /\ mem \in Memory /\ pc \in Word /\ pending \in Word
  BY DEF IInv, TypeOK, Registered
<1>2. IsInstruction(Instruction)
  <2>1. Aligned(pc) \in Int BY <1>1, WordFacts DEF Aligned
  <2>2. WordAt(mem, Aligned(pc)) \in Word BY <1>1, <2>1, WordAtTyped
  <2> QED BY <2>2, MachineAssumption DEF Instruction
<1>3. Following = Next4(pc, pending) BY DEF Following, Next4
<1>4. Arch!Current(Current) = Instruction
  <2>1. Current.mem = mem /\ Current.pc = pc BY DEF Current, Cpu
  <2>2. Arch!Aligned(pc) = Aligned(pc) BY DEF Arch!Aligned, Aligned
  <2>3. Arch!WordAt(mem, Aligned(pc)) = WordAt(mem, Aligned(pc)) BY ArchBytes
  <2> QED BY <2>1, <2>2, <2>3 DEF Arch!Current, Instruction
<1> QED BY <1>1, <1>2, <1>3, <1>4, NextTyped DEF Current, Cpu

LEMMA OperandFacts ==
  ASSUME NEW i, IsInstruction(i)
  PROVE  /\ i.op \in Known \ (FloatLoadOps \cup FloatStoreOps \cup {"mfc1", "mtc1", "bc1", "c.cond"}) =>
              i.rs \in Regs /\ i.rt \in Regs /\ i.rd \in Regs
         /\ i.op \in FloatLoadOps \cup FloatStoreOps =>
              i.rs \in Regs /\ F(i.rt) \in Regs /\ (FloatSize(i.op) = 8 => F(i.rt + 1) \in Regs)
         /\ i.op = "mfc1" => i.rt \in Regs /\ F(i.rd) \in Regs
         /\ i.op = "mtc1" => i.rd \in Regs /\ F(i.rt) \in Regs
         /\ i.imm \in Nat /\ i.rs \in 0..31 /\ i.rt \in 0..31 /\ i.rd \in 0..31
<1>1. i.imm \in Nat /\ i.rs \in 0..31 /\ i.rt \in 0..31 /\ i.rd \in 0..31 /\ Operands(i) \subseteq Registers
      /\ (i.op \in FloatLoadOps \cup FloatStoreOps /\ FloatSize(i.op) = 8 => i.rt # 31)
  BY DEF IsInstruction
<1>2. ASSUME i.op \in Known \ (FloatLoadOps \cup FloatStoreOps \cup {"mfc1", "mtc1", "bc1", "c.cond"})
      PROVE  i.rs \in Regs /\ i.rt \in Regs /\ i.rd \in Regs
  <2>1. Operands(i) = {i.rs, i.rt, i.rd} BY <1>2 DEF Operands
  <2> QED BY <1>1, <2>1, RegisterFacts
<1>3. ASSUME i.op \in FloatLoadOps \cup FloatStoreOps
      PROVE  i.rs \in Regs /\ F(i.rt) \in Regs /\ (FloatSize(i.op) = 8 => F(i.rt + 1) \in Regs)
  <2>1. Operands(i) = {i.rs, F(i.rt)} \cup (IF FloatSize(i.op) = 8 THEN {F(i.rt + 1)} ELSE {})
    BY <1>3 DEF Operands, Known, FloatLoadOps, FloatStoreOps
  <2>2. F(i.rt) \in 0..63 /\ (FloatSize(i.op) = 8 => F(i.rt + 1) \in 0..63) BY <1>1, <1>3 DEF F
  <2> QED BY <1>1, <2>1, <2>2, RegisterFacts
<1>4. ASSUME i.op = "mfc1" PROVE i.rt \in Regs /\ F(i.rd) \in Regs
  <2>1. Operands(i) = {i.rt, F(i.rd)} BY <1>4 DEF Operands, Known, FloatLoadOps, FloatStoreOps
  <2>2. F(i.rd) \in 0..63 BY <1>1 DEF F
  <2> QED BY <1>1, <2>1, <2>2, RegisterFacts
<1>5. ASSUME i.op = "mtc1" PROVE i.rd \in Regs /\ F(i.rt) \in Regs
  <2>1. Operands(i) = {F(i.rt), i.rd} BY <1>5 DEF Operands, Known, FloatLoadOps, FloatStoreOps
  <2>2. F(i.rt) \in 0..63 BY <1>1 DEF F
  <2> QED BY <1>1, <2>1, <2>2, RegisterFacts
<1> QED BY <1>1, <1>2, <1>3, <1>4, <1>5

(* Instructions that compute values of registers.                          *)
NotPlain == Arch!Branches \cup {"bc1"} \cup Arch!FloatLoads \cup Arch!FloatStores \cup Arch!Jumps \cup Arch!Loads
  \cup Arch!Stores
LEMMA AfterPlain ==
  ASSUME IInv, Instruction.op \notin NotPlain, NEW r \in Registered,
         NEW values \in Arch!Computed(Instruction, Current.regs, mem),
         \A x \in Regs : r[x] = Arch!Updated(Current.regs, values)[x]
  PROVE  Correct(r, mem, Following, 0)
<1>0. /\ registers \in Registered /\ mem \in Memory /\ Following \in Word
      /\ Current.mem = mem /\ Current.pc = pc /\ Current.npc = Following
      /\ Arch!Current(Current) = Instruction
  BY CurrentFacts
<1> DEFINE next == U(Following + 4)
           result == [regs |-> Arch!Updated(Current.regs, values), mem |-> mem, pc |-> Following, npc |-> U(next)]
<1>1. result \in Arch!After(Current)
  <2> DEFINE i == Instruction
             c == Current
  <2>1. /\ i.op \notin Arch!Branches /\ i.op # "bc1" /\ i.op \notin Arch!FloatLoads /\ i.op \notin Arch!FloatStores
        /\ i.op \notin Arch!Jumps /\ i.op \notin Arch!Loads /\ i.op \notin Arch!Stores
    BY DEF NotPlain
  <2>2. Arch!Current(c) = i BY <1>0
  <2> HIDE DEF i, c
  <2>3. Arch!After(c) =
          {[regs |-> Arch!Updated(c.regs, v), mem |-> c.mem, pc |-> c.npc, npc |-> Arch!U(Arch!U(c.npc + 4))] :
             v \in Arch!Computed(i, c.regs, c.mem)}
    BY <2>1, <2>2 DEF Arch!After
  <2> QED BY <1>0, <2>3, ArchWords DEF c, i
<1>2. U(next) = next
  <2>1. Following + 4 \in Int BY <1>0, WordFacts
  <2> QED BY <2>1, UU
<1>3. Arch!Updated(Current.regs, values) = [x \in Regs |-> r[x]]
  <2>1. Arch!Updated(Current.regs, values) = [x \in Regs |-> Arch!Updated(Current.regs, values)[x]]
    BY DEF Arch!Updated, Regs
  <2> QED BY <2>1
<1>4. Cpu(r, mem, Following, 0) = result BY <1>2, <1>3 DEF Cpu, Next4
<1> QED BY <1>0, <1>1, <1>4, WordFacts DEF Correct

(* One register, and two.                                                  *)
LEMMA UpdatedOne ==
  ASSUME IInv, NEW d \in Regs, NEW x \in Int, NEW v, U(x) = U(v)
  PROVE  /\ Put(registers, d, x) \in Registered
         /\ \A y \in Regs : Put(registers, d, x)[y] = Arch!Updated(Current.regs, {<<d, v>>})[y]
<1>1. registers \in Registered /\ \A y \in Regs : Current.regs[y] = registers[y] BY CurrentFacts
<1>2. /\ Put(registers, d, x) \in Registered
      /\ \A y \in Registers : Put(registers, d, x)[y] = IF y # 0 /\ y = d THEN U(x) ELSE registers[y]
  BY <1>1, PutTyped
<1>3. ASSUME NEW y \in Regs
      PROVE  Arch!Updated(Current.regs, {<<d, v>>})[y] = IF y # 0 /\ y = d THEN U(v) ELSE registers[y]
  <2> DEFINE values == {<<d, v>>}
  <2>1. (\E p \in values : p[1] = y) <=> y = d OBVIOUS
  <2>2. y = d => (CHOOSE p \in values : p[1] = y) = <<d, v>> OBVIOUS
  <2>3. Arch!Updated(Current.regs, values)[y] =
          IF y # 0 /\ \E p \in values : p[1] = y THEN U((CHOOSE p \in values : p[1] = y)[2]) ELSE Current.regs[y]
    BY ArchWords DEF Arch!Updated, Regs
  <2> QED BY <1>1, <2>1, <2>2, <2>3
<1> QED BY <1>2, <1>3, RegisterFacts

TwoSet(r, d, e, x, y) == r = [registers EXCEPT ![d] = x, ![e] = y]
TwoValues(values, d, e, v, w) == values = {<<d, v>>, <<e, w>>}
LEMMA UpdatedTwo ==
  ASSUME IInv, NEW d \in Regs \ {0}, NEW e \in Regs \ {0}, d # e,
         NEW x \in Word, NEW y \in Word, NEW v, NEW w, x = U(v), y = U(w), NEW values,
         TwoValues(values, d, e, v, w), NEW r, TwoSet(r, d, e, x, y)
  PROVE  r \in Registered /\ \A z \in Regs : r[z] = Arch!Updated(Current.regs, values)[z]
<1>1. registers \in Registered /\ \A z \in Regs : Current.regs[z] = registers[z] BY CurrentFacts
<1>2. d \in Registers /\ e \in Registers /\ d # e /\ d # 0 /\ e # 0 BY RegisterFacts
<1>3. r \in Registered /\ \A z \in Registers : r[z] = IF z = d THEN x ELSE IF z = e THEN y ELSE registers[z]
  <2>1. registers \in [Registers -> Word] /\ registers[0] = 0 BY <1>1 DEF Registered
  <2>2. r = [registers EXCEPT ![d] = x, ![e] = y] BY DEF TwoSet
  <2>3. r \in [Registers -> Word] BY <1>2, <2>1, <2>2
  <2>4. \A z \in Registers : r[z] = IF z = d THEN x ELSE IF z = e THEN y ELSE registers[z]
    BY <1>2, <2>1, <2>2
  <2>5. r[0] = 0 BY <1>2, <2>1, <2>4, RegisterFacts
  <2> QED BY <2>3, <2>4, <2>5 DEF Registered
<1>4. ASSUME NEW z \in Regs
      PROVE  Arch!Updated(Current.regs, values)[z] = IF z = d THEN U(v) ELSE IF z = e THEN U(w) ELSE registers[z]
  <2> USE DEF TwoValues
  <2>1. (\E p \in values : p[1] = z) <=> z = d \/ z = e OBVIOUS
  <2>2. z = d => (CHOOSE p \in values : p[1] = z) = <<d, v>>
    <3> SUFFICES ASSUME z = d PROVE (CHOOSE p \in values : p[1] = z) = <<d, v>> OBVIOUS
    <3>1. \A p \in values : p[1] = z <=> p = <<d, v>> BY <1>2
    <3>2. <<d, v>> \in values OBVIOUS
    <3> QED BY <3>1, <3>2
  <2>3. z = e => (CHOOSE p \in values : p[1] = z) = <<e, w>>
    <3> SUFFICES ASSUME z = e PROVE (CHOOSE p \in values : p[1] = z) = <<e, w>> OBVIOUS
    <3>1. \A p \in values : p[1] = z <=> p = <<e, w>> BY <1>2
    <3>2. <<e, w>> \in values OBVIOUS
    <3> QED BY <3>1, <3>2
  <2>4. Arch!Updated(Current.regs, values)[z] =
          IF z # 0 /\ \E p \in values : p[1] = z THEN U((CHOOSE p \in values : p[1] = z)[2]) ELSE Current.regs[z]
    BY ArchWords DEF Arch!Updated, Regs
  <2> QED BY <1>1, <1>2, <2>1, <2>2, <2>3, <2>4
<1> QED BY <1>3, <1>4, RegisterFacts

LEMMA ComputesRight ==
  ASSUME IInv, Fetched, Instruction.op \notin NotPlain, Instruction.op # "syscall",
         NEW d \in Regs, NEW x \in Int, NEW v, U(x) = U(v),
         {<<d, v>>} \in Arch!Computed(Instruction, Current.regs, mem), Computes(d, x)
  PROVE  Stepped
<1> DEFINE r == Put(registers, d, x)
<1>1. r \in Registered /\ \A y \in Regs : r[y] = Arch!Updated(Current.regs, {<<d, v>>})[y]
  BY UpdatedOne
<1>2. Goes(r, mem, Following, 0) BY DEF Computes
<1> HIDE DEF r
<1>3. Correct(r, mem, Following, 0) BY <1>1, AfterPlain
<1> QED BY <1>2, <1>3 DEF Stepped

(* What is computed, for instructions of each form.                        *)
LEMMA ShiftForm ==
  ASSUME NEW i, NEW r, NEW m, i.op \in Arch!Shifts
  PROVE  Arch!Computed(i, r, m) = {{<<i.rd, Arch!Operation(i.op, r[i.rs], r[i.rt], i.imm % W)>>}}
BY ArchWords, ArchBytes
   DEF Arch!Computed, Arch!Shifts, Arch!VariableShifts, Arch!ThreeRegister, Arch!SignedImmediate, Arch!Immediate
LEMMA VariableShiftForm ==
  ASSUME NEW i, NEW r, NEW m, i.op \in Arch!VariableShifts
  PROVE  Arch!Computed(i, r, m) = {{<<i.rd, Arch!Operation(i.op, r[i.rs], r[i.rt], r[i.rs] % W)>>}}
BY ArchWords, ArchBytes
   DEF Arch!Computed, Arch!Shifts, Arch!VariableShifts, Arch!ThreeRegister, Arch!SignedImmediate, Arch!Immediate
LEMMA ThreeRegisterForm ==
  ASSUME NEW i, NEW r, NEW m, i.op \in Arch!ThreeRegister
  PROVE  Arch!Computed(i, r, m) = {{<<i.rd, Arch!Operation(i.op, r[i.rs], r[i.rt], 0)>>}}
BY ArchWords, ArchBytes
   DEF Arch!Computed, Arch!Shifts, Arch!VariableShifts, Arch!ThreeRegister, Arch!SignedImmediate, Arch!Immediate
LEMMA SignedForm ==
  ASSUME NEW i, NEW r, NEW m, i.op \in Arch!SignedImmediate
  PROVE  Arch!Computed(i, r, m) = {{<<i.rt, Arch!Operation(i.op, r[i.rs], U(Extended(i.imm, 2 * B)), 0)>>}}
BY ArchWords, ArchBytes
   DEF Arch!Computed, Arch!Shifts, Arch!VariableShifts, Arch!ThreeRegister, Arch!SignedImmediate, Arch!Immediate
LEMMA ImmediateForm ==
  ASSUME NEW i, NEW r, NEW m, i.op \in Arch!Immediate
  PROVE  Arch!Computed(i, r, m) = {{<<i.rt, Arch!Operation(i.op, r[i.rs], i.imm, 0)>>}}
BY ArchWords, ArchBytes
   DEF Arch!Computed, Arch!Shifts, Arch!VariableShifts, Arch!ThreeRegister, Arch!SignedImmediate, Arch!Immediate
LEMMA HighLowForms ==
  ASSUME NEW i, NEW r, NEW m
  PROVE  /\ i.op = "mfhi" => Arch!Computed(i, r, m) = {{<<i.rd, r[High]>>}}
         /\ i.op = "mflo" => Arch!Computed(i, r, m) = {{<<i.rd, r[Low]>>}}
         /\ i.op = "mthi" => Arch!Computed(i, r, m) = {{<<High, r[i.rs]>>}}
         /\ i.op = "mtlo" => Arch!Computed(i, r, m) = {{<<Low, r[i.rs]>>}}
BY DEF Arch!Computed, Arch!Shifts, Arch!VariableShifts, Arch!ThreeRegister, Arch!SignedImmediate, Arch!Immediate
LEMMA FloatForms ==
  ASSUME NEW i, NEW r, NEW m
  PROVE  /\ i.op = "mfc1" => Arch!Computed(i, r, m) = {{<<i.rt, r[F(i.rd)]>>}}
         /\ i.op = "mtc1" => Arch!Computed(i, r, m) = {{<<F(i.rt), r[i.rd]>>}}
BY DEF Arch!Computed, Arch!Shifts, Arch!VariableShifts, Arch!ThreeRegister, Arch!SignedImmediate, Arch!Immediate, F
LEMMA CompareForm ==
  ASSUME NEW i, NEW r, NEW m, i.op = "c.cond"
  PROVE  Arch!Computed(i, r, m) = {{<<Condition, Number(Bits(r[Condition]) \cup {ConditionBit})>>},
                                   {<<Condition, Number(Bits(r[Condition]) \ {ConditionBit})>>}}
<1>1. Condition = 63 BY DEF Condition, F
<1>2. Arch!FlagBit = ConditionBit BY ArchWords DEF Arch!FlagBit, ConditionBit
<1> QED BY <1>1, <1>2, ArchWords, ArchBytes
   DEF Arch!Computed, Arch!Shifts, Arch!VariableShifts, Arch!ThreeRegister, Arch!SignedImmediate, Arch!Immediate
LEMMA NothingForm ==
  ASSUME NEW i, NEW r, NEW m, i.op \in {"sync", "teq", "tne"} PROVE Arch!Computed(i, r, m) = {{}}
BY DEF Arch!Computed, Arch!Shifts, Arch!VariableShifts, Arch!ThreeRegister, Arch!SignedImmediate, Arch!Immediate

LEMMA OpClasses ==
  /\ \A op \in ShiftOps \cup ShiftByOps \cup AluOps \cup ImmOps \cup
             {"mult", "multu", "div", "divu", "mfhi", "mflo", "mthi", "mtlo", "mfc1", "mtc1", "c.cond", "sync", "teq", "tne"} :
       op \notin NotPlain /\ op # "syscall" /\ op \in Known
  /\ \A op \in ShiftOps \cup ShiftByOps \cup AluOps \cup ImmOps \cup BranchOps \cup LoadOps \cup StoreOps \cup
             {"mult", "multu", "div", "divu", "mfhi", "mflo", "mthi", "mtlo", "sync", "teq", "tne", "j", "jal", "jr", "jalr"} :
       op \in Known \ (FloatLoadOps \cup FloatStoreOps \cup {"mfc1", "mtc1", "bc1", "c.cond", "syscall"})
BY DEF NotPlain, Known, ShiftOps, ShiftByOps, AluOps, ImmOps, BranchOps, LikelyOps, LinkOps, LoadOps, StoreOps,
       FloatLoadOps, FloatStoreOps, Arch!Branches, Arch!Likely, Arch!FloatLoads, Arch!FloatStores, Arch!Jumps,
       Arch!Loads, Arch!Stores

LEMMA ArithmeticRight == ASSUME IInv, Arithmetic PROVE Stepped
<1>0. /\ \A d \in Regs : registers[d] \in Word /\ registers[d] \in Int /\ Current.regs[d] = registers[d]
      /\ IsInstruction(Instruction)
  <2>1. registers \in Registered /\ IsInstruction(Instruction) /\ \A x \in Regs : Current.regs[x] = registers[x]
    BY CurrentFacts
  <2>2. \A d \in Regs : registers[d] \in Word BY <2>1, RegisterFacts DEF Registered
  <2> QED BY <2>1, <2>2, WordFacts
<1> DEFINE i == Instruction
           c == Current.regs
<1>1. W \in Nat \ {0} BY WFacts
<1> HIDE DEF i, c
<1>2. i.imm \in Nat /\ (Instruction.op \in ShiftOps \cup ShiftByOps \cup AluOps \cup ImmOps =>
                          /\ i.rs \in Regs /\ i.rt \in Regs /\ i.rd \in Regs
                          /\ Instruction.op \notin NotPlain /\ Instruction.op # "syscall")
  <2>1. IsInstruction(i) BY <1>0 DEF i
  <2> QED BY <2>1, OperandFacts, OpClasses DEF i
<1>3. ASSUME Is(ShiftOps), Computes(i.rd, ShiftValue(i.op, Rt, i.imm % W)) PROVE Stepped
  <2>1. Fetched /\ i.op \in ShiftOps BY <1>3 DEF Is, i
  <2>2. i.rs \in Regs /\ i.rt \in Regs /\ i.rd \in Regs /\ i.op \notin NotPlain /\ i.op # "syscall"
    BY <1>2, <2>1 DEF i
  <2>3. Rt \in Int /\ Rt = c[i.rt] /\ i.imm % W \in Nat BY <1>0, <1>1, <1>2, <2>2 DEF Rt, i, c
  <2> DEFINE x == ShiftValue(i.op, Rt, i.imm % W)
             v == Arch!Operation(i.op, c[i.rs], c[i.rt], i.imm % W)
  <2>4. x \in Int /\ U(x) = U(v)
    <3> DEFINE n == i.imm % W
               t == Rt
    <3>1. n \in Nat /\ t \in Int /\ t = c[i.rt] BY <2>3
    <3> HIDE DEF n, t
    <3>2. ShiftValue(i.op, t, n) \in Int /\ U(ShiftValue(i.op, t, n)) = U(Arch!Operation(i.op, c[i.rs], t, n))
      BY <2>1, <3>1, ShiftRight
    <3> QED BY <3>1, <3>2 DEF n, t
  <2>5. {<<i.rd, v>>} \in Arch!Computed(i, c, mem)
    <3>1. i.op \in Arch!Shifts BY <2>1 DEF ShiftOps, Arch!Shifts
    <3> QED BY <3>1, ShiftForm
  <2>6. Computes(i.rd, x) BY <1>3
  <2> HIDE DEF x, v
  <2> QED BY <2>1, <2>2, <2>4, <2>5, <2>6, ComputesRight DEF i, c
<1>4. ASSUME Is(ShiftByOps), Computes(i.rd, ShiftValue(i.op, Rt, Rs % W)) PROVE Stepped
  <2>1. Fetched /\ i.op \in ShiftByOps BY <1>4 DEF Is, i
  <2>2. i.rs \in Regs /\ i.rt \in Regs /\ i.rd \in Regs /\ i.op \notin NotPlain /\ i.op # "syscall"
    BY <1>2, <2>1 DEF i
  <2>3. Rt \in Int /\ Rt = c[i.rt] /\ Rs \in Int /\ Rs = c[i.rs] BY <1>0, <2>2 DEF Rt, Rs, i, c
  <2> DEFINE x == ShiftValue(i.op, Rt, Rs % W)
             v == Arch!Operation(i.op, c[i.rs], c[i.rt], c[i.rs] % W)
  <2>4. x \in Int /\ U(x) = U(v)
    <3> DEFINE n == Rs % W
               t == Rt
    <3>1. n \in Nat /\ n = c[i.rs] % W /\ t \in Int /\ t = c[i.rt] BY <1>1, <2>3
    <3> HIDE DEF n, t
    <3>2. ShiftValue(i.op, t, n) \in Int /\ U(ShiftValue(i.op, t, n)) = U(Arch!Operation(i.op, c[i.rs], t, n))
      BY <2>1, <3>1, ShiftRight
    <3> QED BY <3>1, <3>2 DEF n, t
  <2>5. {<<i.rd, v>>} \in Arch!Computed(i, c, mem)
    <3>1. i.op \in Arch!VariableShifts BY <2>1 DEF ShiftByOps, Arch!VariableShifts
    <3> QED BY <3>1, VariableShiftForm
  <2>6. Computes(i.rd, x) BY <1>4
  <2> HIDE DEF x, v
  <2> QED BY <2>1, <2>2, <2>4, <2>5, <2>6, ComputesRight DEF i, c
<1>5. ASSUME Is(AluOps), Computes(i.rd, AluValue(i.op, Rs, Rt)) PROVE Stepped
  <2>1. Fetched /\ i.op \in AluOps BY <1>5 DEF Is, i
  <2>2. i.rs \in Regs /\ i.rt \in Regs /\ i.rd \in Regs /\ i.op \notin NotPlain /\ i.op # "syscall"
    BY <1>2, <2>1 DEF i
  <2>3. Rt \in Word /\ Rt = c[i.rt] /\ Rs \in Word /\ Rs = c[i.rs] BY <1>0, <2>2 DEF Rt, Rs, i, c
  <2> DEFINE x == AluValue(i.op, Rs, Rt)
             v == Arch!Operation(i.op, c[i.rs], c[i.rt], 0)
  <2>4. x \in Int /\ U(x) = U(v) BY <2>1, <2>3, AluRight
  <2>5. {<<i.rd, v>>} \in Arch!Computed(i, c, mem)
    <3>1. i.op \in Arch!ThreeRegister BY <2>1 DEF AluOps, Arch!ThreeRegister
    <3> QED BY <3>1, ThreeRegisterForm
  <2>6. Computes(i.rd, x) BY <1>5
  <2> HIDE DEF x, v
  <2> QED BY <2>1, <2>2, <2>4, <2>5, <2>6, ComputesRight DEF i, c
<1>6. ASSUME Is(ImmOps), Computes(i.rt, ImmValue(i.op, Rs, i.imm)) PROVE Stepped
  <2>1. Fetched /\ i.op \in ImmOps BY <1>6 DEF Is, i
  <2>2. i.rs \in Regs /\ i.rt \in Regs /\ i.rd \in Regs /\ i.op \notin NotPlain /\ i.op # "syscall"
    BY <1>2, <2>1 DEF i
  <2>3. Rs \in Word /\ Rs = c[i.rs] /\ i.imm \in Nat BY <1>0, <1>2, <2>2 DEF Rs, i, c
  <2> DEFINE x == ImmValue(i.op, Rs, i.imm)
             t == IF i.op \in Arch!SignedImmediate THEN U(Extended(i.imm, 2 * B)) ELSE i.imm
             v == Arch!Operation(i.op, c[i.rs], t, 0)
  <2>4. x \in Int /\ U(x) = U(v) BY <2>1, <2>3, ImmRight
  <2>5. {<<i.rt, v>>} \in Arch!Computed(i, c, mem)
    <3>1. CASE i.op \in Arch!SignedImmediate BY <3>1, SignedForm
    <3>2. CASE i.op \notin Arch!SignedImmediate
      <4>1. i.op \in Arch!Immediate BY <2>1, <3>2 DEF ImmOps, Arch!SignedImmediate, Arch!Immediate
      <4> QED BY <3>2, <4>1, ImmediateForm
    <3> QED BY <3>1, <3>2
  <2>6. Computes(i.rt, x) BY <1>6
  <2> HIDE DEF x, v
  <2> QED BY <2>1, <2>2, <2>4, <2>5, <2>6, ComputesRight DEF i, c
<1> QED BY <1>3, <1>4, <1>5, <1>6 DEF Arithmetic, i

LEMMA Registers0 ==
  ASSUME IInv
  PROVE  \A d \in Regs : registers[d] \in Word /\ registers[d] \in Int /\ Current.regs[d] = registers[d]
<1>1. registers \in Registered /\ \A x \in Regs : Current.regs[x] = registers[x] BY CurrentFacts
<1>2. \A d \in Regs : registers[d] \in Word BY <1>1, RegisterFacts DEF Registered
<1> QED BY <1>1, <1>2, WordFacts

LEMMA NothingRight ==
  ASSUME IInv, Fetched, Instruction.op \notin NotPlain, Instruction.op # "syscall",
         {} \in Arch!Computed(Instruction, Current.regs, mem), Nothing
  PROVE  Stepped
<1>1. registers \in Registered /\ \A y \in Regs : registers[y] = Arch!Updated(Current.regs, {})[y]
  BY CurrentFacts DEF Arch!Updated, Regs
<1>2. Correct(registers, mem, Following, 0) BY <1>1, AfterPlain
<1> QED BY <1>2 DEF Stepped, Nothing

LEMMA HighLowRight ==
  ASSUME IInv, Fetched, Instruction.op \notin NotPlain, Instruction.op # "syscall",
         NEW result, NEW v, NEW w, result[1] \in Word, result[2] \in Word, result[1] = U(v), result[2] = U(w),
         {<<High, v>>, <<Low, w>>} \in Arch!Computed(Instruction, Current.regs, mem), SetsHighLow(result)
  PROVE  Stepped
<1> DEFINE values == {<<High, v>>, <<Low, w>>}
           r == [registers EXCEPT ![High] = result[1], ![Low] = result[2]]
<1>1. r \in Registered /\ \A z \in Regs : r[z] = Arch!Updated(Current.regs, values)[z]
  <2> DEFINE x == result[1]
             y == result[2]
  <2>1. x \in Word /\ y \in Word /\ x = U(v) /\ y = U(w) /\ TwoSet(r, High, Low, x, y)
        /\ TwoValues(values, High, Low, v, w)
    BY DEF TwoSet, TwoValues
  <2> HIDE DEF x, y, r, values
  <2>2. High \in Regs \ {0} /\ Low \in Regs \ {0} /\ High # Low BY RegisterFacts DEF High, Low
  <2> QED BY <2>1, <2>2, UpdatedTwo
<1>2. Goes(r, mem, Following, 0) BY DEF SetsHighLow
<1> HIDE DEF r, values
<1>3. values \in Arch!Computed(Instruction, Current.regs, mem) BY DEF values
<1>4. Correct(r, mem, Following, 0) BY <1>1, <1>3, AfterPlain
<1> QED BY <1>2, <1>4 DEF Stepped

LEMMA MultiplyForms ==
  ASSUME NEW i, NEW r, NEW m
  PROVE  /\ i.op = "mult" => Arch!Computed(i, r, m) = {{<<High, (I(r[i.rs]) * I(r[i.rt])) \div Two[W]>>, <<Low, I(r[i.rs]) * I(r[i.rt])>>}}
         /\ i.op = "multu" => Arch!Computed(i, r, m) = {{<<High, (r[i.rs] * r[i.rt]) \div Two[W]>>, <<Low, r[i.rs] * r[i.rt]>>}}
BY ArchTwo, ArchWords
   DEF Arch!Computed, Arch!Shifts, Arch!VariableShifts, Arch!ThreeRegister, Arch!SignedImmediate, Arch!Immediate
LEMMA SignedDivForm ==
  ASSUME NEW i, NEW r, NEW m, i.op = "div", r[i.rt] # 0
  PROVE  Arch!Computed(i, r, m) =
           {{<<Low, Quotient(I(r[i.rs]), I(r[i.rt]))>>, <<High, x>>} :
              x \in {y \in {Remainder(I(r[i.rs]), I(r[i.rt])) + k * I(r[i.rt]) : k \in -1..1} : Abs(y) < Abs(I(r[i.rt]))}}
BY ArchWords, ArchBytes
   DEF Arch!Computed, Arch!Shifts, Arch!VariableShifts, Arch!ThreeRegister, Arch!SignedImmediate, Arch!Immediate
LEMMA UnsignedDivForm ==
  ASSUME NEW i, NEW r, NEW m, i.op = "divu", r[i.rt] # 0
  PROVE  Arch!Computed(i, r, m) = {{<<Low, r[i.rs] \div r[i.rt]>>, <<High, r[i.rs] % r[i.rt]>>}}
BY DEF Arch!Computed, Arch!Shifts, Arch!VariableShifts, Arch!ThreeRegister, Arch!SignedImmediate, Arch!Immediate
LEMMA NoDivForm ==
  ASSUME NEW i, NEW r, NEW m, i.op \in {"div", "divu"}, r[i.rt] = 0
  PROVE  Arch!Computed(i, r, m) = {{}}
BY DEF Arch!Computed, Arch!Shifts, Arch!VariableShifts, Arch!ThreeRegister, Arch!SignedImmediate, Arch!Immediate

LEMMA MultiplyDivideRight == ASSUME IInv, MultiplyDivide PROVE Stepped
<1> DEFINE i == Instruction
           c == Current.regs
<1>0. IsInstruction(i) BY CurrentFacts
<1> HIDE DEF i, c
<1>1. i.op \in {"mult", "multu", "div", "divu"} => 
        /\ Rs \in Word /\ Rt \in Word /\ Rs = c[i.rs] /\ Rt = c[i.rt]
        /\ Instruction.op \notin NotPlain /\ Instruction.op # "syscall"
  <2> SUFFICES ASSUME i.op \in {"mult", "multu", "div", "divu"}
               PROVE  /\ Rs \in Word /\ Rt \in Word /\ Rs = c[i.rs] /\ Rt = c[i.rt]
                      /\ Instruction.op \notin NotPlain /\ Instruction.op # "syscall"
    OBVIOUS
  <2>1. Instruction.op \notin NotPlain /\ Instruction.op # "syscall" BY OpClasses DEF i
  <2>2. i.rs \in Regs /\ i.rt \in Regs BY <1>0, OpClasses, OperandFacts
  <2> QED BY <2>1, <2>2, Registers0 DEF Rs, Rt, i, c
<1>2. ASSUME Is({"mult"}), SetsHighLow(SignedMult(Rt, Rs)) PROVE Stepped
  <2>1. Fetched /\ i.op = "mult" BY <1>2 DEF Is, i
  <2> DEFINE s == Rs
             t == Rt
             result == SignedMult(t, s)
             v == (I(s) * I(t)) \div Two[W]
             w == I(s) * I(t)
  <2>2. s \in Word /\ t \in Word /\ s = c[i.rs] /\ t = c[i.rt]
        /\ Instruction.op \notin NotPlain /\ Instruction.op # "syscall"
    BY <1>1, <2>1
  <2>3. Arch!Computed(i, c, mem) = {{<<High, v>>, <<Low, w>>}} BY <2>1, <2>2, MultiplyForms
  <2>4. SetsHighLow(result) BY <1>2
  <2> HIDE DEF s, t
  <2>5. result[1] = U(v) /\ result[2] = U(w) /\ v \in Int /\ w \in Int
    <3>1. I(s) \in Int /\ I(t) \in Int
      <4>1. s \in Int /\ t \in Int BY <2>2, WordFacts
      <4> QED BY <4>1, ITyped
    <3>2. I(t) * I(s) = w /\ w \in Int BY <3>1
    <3>3. result[1] = U((I(t) * I(s)) \div Two[W]) /\ result[2] = U(I(t) * I(s)) BY <2>2, SignedMultRight
    <3>4. v \in Int
      <4> HIDE DEF w
      <4>1. w \div Two[W] \in Int BY <3>2, WFacts
      <4> QED BY <4>1 DEF w
    <3> QED BY <3>2, <3>3, <3>4
  <2> HIDE DEF v, w, result
  <2>6. result[1] \in Word /\ result[2] \in Word BY <2>5, UTyped
  <2>7. {<<High, v>>, <<Low, w>>} \in Arch!Computed(i, c, mem) BY <2>3
  <2> QED BY <2>1, <2>2, <2>4, <2>5, <2>6, <2>7, HighLowRight DEF i, c
<1>3. ASSUME Is({"multu"}), SetsHighLow(UnsignedMult(Rt, Rs)) PROVE Stepped
  <2>1. Fetched /\ i.op = "multu" BY <1>3 DEF Is, i
  <2> DEFINE s == Rs
             t == Rt
             result == UnsignedMult(t, s)
             v == (s * t) \div Two[W]
             w == s * t
  <2>2. s \in Word /\ t \in Word /\ s = c[i.rs] /\ t = c[i.rt]
        /\ Instruction.op \notin NotPlain /\ Instruction.op # "syscall"
    BY <1>1, <2>1
  <2>3. Arch!Computed(i, c, mem) = {{<<High, v>>, <<Low, w>>}} BY <2>1, <2>2, MultiplyForms
  <2>4. SetsHighLow(result) BY <1>3
  <2> HIDE DEF s, t
  <2>5. result[1] = U(v) /\ result[2] = U(w) /\ v \in Int /\ w \in Int
    <3>1. s \in Int /\ t \in Int BY <2>2, WordFacts
    <3>2. t * s = w /\ w \in Int BY <3>1
    <3>3. result = <<U((t * s) \div Two[W]), U(t * s)>> BY <2>2, UnsignedMultRight
    <3>4. v \in Int
      <4> HIDE DEF w
      <4>1. w \div Two[W] \in Int BY <3>2, WFacts
      <4> QED BY <4>1 DEF w
    <3>5. result = <<U(v), U(w)>> BY <3>2, <3>3
    <3> HIDE DEF v, w, result
    <3> QED BY <3>2, <3>4, <3>5
  <2> HIDE DEF v, w, result
  <2>6. result[1] \in Word /\ result[2] \in Word BY <2>5, UTyped
  <2>7. {<<High, v>>, <<Low, w>>} \in Arch!Computed(i, c, mem) BY <2>3
  <2> QED BY <2>1, <2>2, <2>4, <2>5, <2>6, <2>7, HighLowRight DEF i, c
<1>4. ASSUME Is({"div"}), Rt # 0, SetsHighLow(SignedDiv(Rs, Rt)) PROVE Stepped
  <2>1. Fetched /\ i.op = "div" BY <1>4 DEF Is, i
  <2> DEFINE s == Rs
             t == Rt
             result == SignedDiv(s, t)
             a == I(s)
             b == I(t)
             w == Quotient(a, b)
  <2>2. s \in Word /\ t \in Word /\ t # 0 /\ s = c[i.rs] /\ t = c[i.rt]
        /\ Instruction.op \notin NotPlain /\ Instruction.op # "syscall"
    BY <1>1, <1>4, <2>1
  <2>4. SetsHighLow(result) BY <1>4
  <2> HIDE DEF s, t
  <2>3. Arch!Computed(i, c, mem) =
          {{<<Low, w>>, <<High, x>>} : x \in {y \in {Remainder(a, b) + k * b : k \in -1..1} : Abs(y) < Abs(b)}}
    BY <2>1, <2>2, SignedDivForm
  <2>5. PICK k \in -1..1 :
          /\ Remainder(a, b) + k * b \in Int /\ Abs(Remainder(a, b) + k * b) < Abs(b)
          /\ result = <<U(Remainder(a, b) + k * b), U(w)>>
    BY <2>2, SignedDivRight
  <2>6. w \in Int
    <3>1. s \in Int BY <2>2, WordFacts
    <3>2. a \in Int /\ b \in Int /\ b # 0 BY <2>2, <3>1, ITyped, SignedNotZero
    <3> HIDE DEF a, b
    <3> QED BY <3>2, Truncated
  <2> DEFINE v == Remainder(a, b) + k * b
  <2>7. v \in Int /\ result[1] = U(v) /\ result[2] = U(w)
    <3>1. v \in Int /\ result = <<U(v), U(w)>> BY <2>5
    <3> HIDE DEF v, w, result
    <3> QED BY <3>1
  <2>8. {<<High, v>>, <<Low, w>>} \in Arch!Computed(i, c, mem)
    <3>1. v \in {y \in {Remainder(a, b) + l * b : l \in -1..1} : Abs(y) < Abs(b)} BY <2>5
    <3>2. {<<High, v>>, <<Low, w>>} = {<<Low, w>>, <<High, v>>} OBVIOUS
    <3> HIDE DEF v, w, a, b
    <3> QED BY <2>3, <3>1, <3>2
  <2> HIDE DEF v, w, result
  <2>9. result[1] \in Word /\ result[2] \in Word BY <2>6, <2>7, UTyped
  <2> QED BY <2>1, <2>2, <2>4, <2>7, <2>8, <2>9, HighLowRight DEF i, c
<1>5. ASSUME Is({"divu"}), Rt # 0, SetsHighLow(UnsignedDiv(Rs, Rt)) PROVE Stepped
  <2>1. Fetched /\ i.op = "divu" BY <1>5 DEF Is, i
  <2> DEFINE s == Rs
             t == Rt
             result == UnsignedDiv(s, t)
             v == s % t
             w == s \div t
  <2>2. s \in Word /\ t \in Word /\ t # 0 /\ s = c[i.rs] /\ t = c[i.rt]
        /\ Instruction.op \notin NotPlain /\ Instruction.op # "syscall"
    BY <1>1, <1>5, <2>1
  <2>4. SetsHighLow(result) BY <1>5
  <2> HIDE DEF s, t
  <2>3. Arch!Computed(i, c, mem) = {{<<Low, w>>, <<High, v>>}} BY <2>1, <2>2, UnsignedDivForm
  <2>5. v \in Word /\ w \in Word
    <3>1. s \in Nat /\ t \in Nat \ {0} /\ t < Two[W] /\ s < Two[W] /\ Two[W] \in Nat BY <2>2, WordFacts, WFacts DEF Word
    <3>2. v \in 0..(t - 1) BY <3>1
    <3>3. w \in 0..s BY <3>1, Lesser
    <3> HIDE DEF v, w
    <3> QED BY <3>1, <3>2, <3>3 DEF Word
  <2>6. result = <<v, w>> BY DEF UnsignedDiv
  <2> HIDE DEF v, w, result
  <2>7. v = U(v) /\ w = U(w) BY <2>5, WordUnchanged
  <2>8. {<<High, v>>, <<Low, w>>} \in Arch!Computed(i, c, mem)
    <3>1. {<<High, v>>, <<Low, w>>} = {<<Low, w>>, <<High, v>>} OBVIOUS
    <3> QED BY <2>3, <3>1
  <2>9. result[1] = v /\ result[2] = w BY <2>6
  <2> QED BY <2>1, <2>2, <2>4, <2>5, <2>7, <2>8, <2>9, HighLowRight DEF i, c
<1>6. ASSUME Is({"div", "divu"}), Rt = 0, Nothing PROVE Stepped
  <2>1. Fetched /\ i.op \in {"div", "divu"} BY <1>6 DEF Is, i
  <2>2. c[i.rt] = 0 /\ Instruction.op \notin NotPlain /\ Instruction.op # "syscall" BY <1>1, <1>6, <2>1
  <2>3. Arch!Computed(i, c, mem) = {{}} BY <2>1, <2>2, NoDivForm
  <2> QED BY <1>6, <2>1, <2>2, <2>3, NothingRight DEF i, c
<1> QED BY <1>2, <1>3, <1>4, <1>5, <1>6 DEF MultiplyDivide

LEMMA MoveHighLowRight == ASSUME IInv, MoveHighLow PROVE Stepped
<1> DEFINE i == Instruction
           c == Current.regs
<1>0. IsInstruction(i) BY CurrentFacts
<1> HIDE DEF i, c
<1>1. i.op \in {"mfhi", "mflo", "mthi", "mtlo"} => 
        /\ i.rs \in Regs /\ i.rd \in Regs /\ High \in Regs /\ Low \in Regs
        /\ Instruction.op \notin NotPlain /\ Instruction.op # "syscall"
  BY <1>0, OpClasses, OperandFacts, RegisterFacts DEF i
<1>2. \A d \in Regs : registers[d] \in Int /\ c[d] = registers[d] BY Registers0 DEF c
<1>3. ASSUME Is({"mfhi"}), Computes(i.rd, registers[High]) PROVE Stepped
  <2>1. Fetched /\ i.op = "mfhi" BY <1>3 DEF Is, i
  <2>2. {<<i.rd, registers[High]>>} \in Arch!Computed(i, c, mem) BY <1>1, <1>2, <2>1, HighLowForms
  <2>3. registers[High] \in Int /\ i.rd \in Regs BY <1>1, <1>2, <2>1
  <2> QED BY <1>1, <1>3, <2>1, <2>2, <2>3, ComputesRight DEF i, c
<1>4. ASSUME Is({"mflo"}), Computes(i.rd, registers[Low]) PROVE Stepped
  <2>1. Fetched /\ i.op = "mflo" BY <1>4 DEF Is, i
  <2>2. {<<i.rd, registers[Low]>>} \in Arch!Computed(i, c, mem) BY <1>1, <1>2, <2>1, HighLowForms
  <2>3. registers[Low] \in Int /\ i.rd \in Regs BY <1>1, <1>2, <2>1
  <2> QED BY <1>1, <1>4, <2>1, <2>2, <2>3, ComputesRight DEF i, c
<1>5. ASSUME Is({"mthi"}), Computes(High, Rs) PROVE Stepped
  <2>1. Fetched /\ i.op = "mthi" BY <1>5 DEF Is, i
  <2>2. {<<High, Rs>>} \in Arch!Computed(i, c, mem) BY <1>1, <1>2, <2>1, HighLowForms DEF Rs, i
  <2>3. Rs \in Int /\ High \in Regs BY <1>1, <1>2, <2>1 DEF Rs, i
  <2> QED BY <1>1, <1>5, <2>1, <2>2, <2>3, ComputesRight DEF i, c
<1>6. ASSUME Is({"mtlo"}), Computes(Low, Rs) PROVE Stepped
  <2>1. Fetched /\ i.op = "mtlo" BY <1>6 DEF Is, i
  <2>2. {<<Low, Rs>>} \in Arch!Computed(i, c, mem) BY <1>1, <1>2, <2>1, HighLowForms DEF Rs, i
  <2>3. Rs \in Int /\ Low \in Regs BY <1>1, <1>2, <2>1 DEF Rs, i
  <2> QED BY <1>1, <1>6, <2>1, <2>2, <2>3, ComputesRight DEF i, c
<1> QED BY <1>3, <1>4, <1>5, <1>6 DEF MoveHighLow, i

LEMMA FloatMoveRight == ASSUME IInv, FloatMove PROVE Stepped
<1> DEFINE i == Instruction
           c == Current.regs
<1>0. IsInstruction(i) BY CurrentFacts
<1> HIDE DEF i, c
<1>1. \A d \in Regs : registers[d] \in Int /\ c[d] = registers[d] BY Registers0 DEF c
<1>2. ASSUME Is({"mfc1"}), Computes(i.rt, registers[F(i.rd)]) PROVE Stepped
  <2>1. Fetched /\ i.op = "mfc1" BY <1>2 DEF Is, i
  <2>2. i.rt \in Regs /\ F(i.rd) \in Regs /\ Instruction.op \notin NotPlain /\ Instruction.op # "syscall"
    BY <1>0, <2>1, OpClasses, OperandFacts DEF i
  <2>3. {<<i.rt, registers[F(i.rd)]>>} \in Arch!Computed(i, c, mem) BY <1>1, <2>1, <2>2, FloatForms
  <2> QED BY <1>1, <1>2, <2>1, <2>2, <2>3, ComputesRight DEF i, c
<1>3. ASSUME Is({"mtc1"}), Computes(F(i.rt), registers[i.rd]) PROVE Stepped
  <2>1. Fetched /\ i.op = "mtc1" BY <1>3 DEF Is, i
  <2>2. i.rd \in Regs /\ F(i.rt) \in Regs /\ Instruction.op \notin NotPlain /\ Instruction.op # "syscall"
    BY <1>0, <2>1, OpClasses, OperandFacts DEF i
  <2>3. {<<F(i.rt), registers[i.rd]>>} \in Arch!Computed(i, c, mem) BY <1>1, <2>1, <2>2, FloatForms
  <2> QED BY <1>1, <1>3, <2>1, <2>2, <2>3, ComputesRight DEF i, c
<1> QED BY <1>2, <1>3 DEF FloatMove, i

LEMMA PassesRight == ASSUME IInv, Passes PROVE Stepped
<1>1. Fetched /\ Instruction.op \in {"sync", "teq", "tne"} /\ Nothing BY DEF Passes, Is
<1>2. Instruction.op \notin NotPlain /\ Instruction.op # "syscall" BY <1>1, OpClasses
<1>3. {} \in Arch!Computed(Instruction, Current.regs, mem) BY <1>1, NothingForm
<1> QED BY <1>1, <1>2, <1>3, NothingRight

LEMMA CompareRight == ASSUME IInv, Compare PROVE Stepped
<1>1. Fetched /\ Instruction.op = "c.cond" BY DEF Compare, Is
<1>2. Instruction.op \notin NotPlain /\ Instruction.op # "syscall" BY <1>1, OpClasses
<1>3. PICK result \in BOOLEAN : Goes([registers EXCEPT ![Condition] = With(@, result)], mem, Following, 0)
  BY DEF Compare
<1> DEFINE x == With(registers[Condition], result)
<1>4. x \in Word BY BitsOfNumber DEF With
<1>5. x \in Int /\ U(x) = x BY <1>4, WordFacts
<1>6. {<<Condition, x>>} \in Arch!Computed(Instruction, Current.regs, mem)
  <2>1. Current.regs[Condition] = registers[Condition] BY Registers0, RegisterFacts
  <2> DEFINE old == Bits(registers[Condition])
  <2>2. Arch!Computed(Instruction, Current.regs, mem) =
          {{<<Condition, Number(old \cup {ConditionBit})>>}, {<<Condition, Number(old \ {ConditionBit})>>}}
    BY <1>1, <2>1, CompareForm
  <2>3. x = Number(old \cup {ConditionBit}) \/ x = Number(old \ {ConditionBit}) BY DEF With
  <2> HIDE DEF x, old
  <2> QED BY <2>2, <2>3
<1>7. Computes(Condition, x)
  <2>1. Condition # 0 BY DEF Condition, F
  <2>2. Put(registers, Condition, x) = [registers EXCEPT ![Condition] = x] BY <1>5, <2>1 DEF Put
  <2>3. [registers EXCEPT ![Condition] = x] = [registers EXCEPT ![Condition] = With(@, result)] OBVIOUS
  <2> QED BY <1>3, <2>2, <2>3 DEF Computes
<1> HIDE DEF x
<1> QED BY <1>1, <1>2, <1>5, <1>6, <1>7, RegisterFacts, ComputesRight

(* Where branches and jumps go: to 0 is nowhere.                           *)
Landing(p, x) == U(IF U(x) = 0 THEN U(p + 4) ELSE x)
LEMMA LandingIs ==
  ASSUME NEW p \in Word, NEW x \in Int
  PROVE  Landing(p, x) = Next4(p, U(x)) /\ U(x) \in Word
<1>1. p + 4 \in Int BY WordFacts
<1>2. U(U(p + 4)) = U(p + 4) BY <1>1, UU
<1> QED BY <1>2, UTyped DEF Landing, Next4

LEMMA BranchTarget ==
  ASSUME IInv
  PROVE  /\ Following + 4 * Simm \in Int
         /\ U(Following + Shl(Simm, 2)) = U(Following + 4 * Simm)
<1> DEFINE s == Simm
<1>1. s \in Int /\ Following \in Int
  <2>1. Instruction.imm \in Int /\ Following \in Word BY CurrentFacts, OperandFacts
  <2> QED BY <2>1, ImmediateTyped, WordFacts DEF Simm
<1> HIDE DEF s
<1>2. Two[2] = 4 /\ 2 \in Nat
  <2>1. 0 \in Nat /\ 1 \in Nat /\ 0 + 1 = 1 /\ 1 + 1 = 2 OBVIOUS
  <2>2. Two[1] = 2 BY <2>1, TwoDefined
  <2> QED BY <2>1, <2>2, TwoDefined
<1> DEFINE y == Shl(s, 2)
           z == 4 * s
<1>3. y \in Int /\ U(y) = U(z) /\ z \in Int
  <2> DEFINE n == 2
  <2>1. n \in Nat /\ s * Two[n] = z BY <1>1, <1>2
  <2> HIDE DEF n, z
  <2>2. Shl(s, n) \in Int /\ U(Shl(s, n)) = U(s * Two[n]) BY <1>1, <2>1, ShlBits
  <2> QED BY <1>1, <2>1, <2>2 DEF n, z
<1> HIDE DEF y, z
<1>4. U(Following + y) = U(Following + z)
  <2> DEFINE f == Following
  <2>1. f \in Int BY <1>1
  <2> HIDE DEF f
  <2>2. U(f + U(y)) = U(y + f) /\ U(f + U(z)) = U(z + f) BY <1>3, <2>1, UU
  <2>3. y + f = f + y /\ z + f = f + z BY <1>3, <2>1
  <2> QED BY <1>3, <2>2, <2>3 DEF f
<1>5. Following + z \in Int BY <1>1, <1>3
<1> QED BY <1>4, <1>5 DEF y, z, s

LEMMA SetIsPut ==
  ASSUME IInv, NEW d \in Regs, NEW x \in Int
  PROVE  /\ Put(registers, d, x) \in Registered
         /\ [y \in Regs |-> Put(registers, d, x)[y]] = Arch!Set(Current.regs, d, x)
<1>1. registers \in Registered /\ Current.regs = [y \in Regs |-> registers[y]] BY CurrentFacts
<1>2. /\ Put(registers, d, x) \in Registered
      /\ \A y \in Registers : Put(registers, d, x)[y] = IF y # 0 /\ y = d THEN U(x) ELSE registers[y]
  BY <1>1, PutTyped
<1> DEFINE r == Put(registers, d, x)
           c == Current.regs
           v == IF d = 0 THEN 0 ELSE U(x)
<1>3. Arch!Set(c, d, x) = [c EXCEPT ![d] = v] BY ArchWords DEF Arch!Set
<1>4. registers[0] = 0 BY <1>1 DEF Registered
<1> HIDE DEF r, c
<1>5. [c EXCEPT ![d] = v] = [y \in Regs |-> IF y = d THEN v ELSE registers[y]] BY <1>1 DEF c
<1>6. \A y \in Regs : r[y] = IF y = d THEN v ELSE registers[y] BY <1>2, <1>4, RegisterFacts DEF r
<1> QED BY <1>2, <1>3, <1>5, <1>6 DEF r, c

LEMMA AfterBranch ==
  ASSUME IInv, Instruction.op \in Arch!Branches, NEW r \in Registered,
         [x \in Regs |-> r[x]] = Arch!Linked(Instruction, Current.regs, Following),
         NEW taken \in Arch!Condition(Instruction.op, r[Instruction.rs], r[Instruction.rt]),
         Instruction.rs \in Regs, Instruction.rt \in Regs
  PROVE  /\ taken => Correct(r, mem, Following, U(Following + Shl(Simm, 2)))
         /\ ~taken => Correct(r, mem, Skips(Instruction.op, Following), 0)
<1> DEFINE i == Instruction
           c == Current
           f == Following
           next == U(f + 4)
           rr == [x \in Regs |-> r[x]]
           target == f + 4 * Extended(i.imm, 2 * B)
<1>0. /\ mem \in Memory /\ f \in Word /\ c.mem = mem /\ c.pc = pc /\ c.npc = f /\ Arch!Current(c) = i
  BY CurrentFacts
<1>1. target \in Int /\ U(f + Shl(Simm, 2)) = U(target) BY BranchTarget DEF Simm
<1>2. next \in Word /\ U(next) = next /\ U(next + 4) \in Word /\ U(next + 4) = U(U(next + 4))
  <2>1. f + 4 \in Int BY <1>0, WordFacts
  <2>2. next \in Word BY <2>1, UTyped
  <2> HIDE DEF next
  <2>3. next + 4 \in Int BY <2>2, WordFacts
  <2>4. U(next + 4) \in Word BY <2>3, UTyped
  <2> QED BY <2>2, <2>4, WordUnchanged
<1>3. rr[i.rs] = r[i.rs] /\ rr[i.rt] = r[i.rt] OBVIOUS
<1>4. Arch!Current(c) = i BY <1>0
<1>5. (IF taken THEN [regs |-> rr, mem |-> mem, pc |-> f, npc |-> Landing(f, target)]
       ELSE IF i.op \in Arch!Likely THEN [regs |-> rr, mem |-> mem, pc |-> next, npc |-> U(next + 4)]
       ELSE [regs |-> rr, mem |-> mem, pc |-> f, npc |-> U(next)]) \in Arch!After(c)
  <2> HIDE DEF i, c, f, rr
  <2>1. i.op \in Arch!Branches /\ taken \in Arch!Condition(i.op, rr[i.rs], rr[i.rt])
        /\ rr = Arch!Linked(i, c.regs, f)
    BY <1>3 DEF i, c, f, rr
  <2>2. Arch!After(c) =
          {IF t THEN [regs |-> rr, mem |-> mem, pc |-> f, npc |-> Landing(f, target)]
           ELSE IF i.op \in Arch!Likely THEN [regs |-> rr, mem |-> mem, pc |-> next, npc |-> U(next + 4)]
           ELSE [regs |-> rr, mem |-> mem, pc |-> f, npc |-> U(next)] : t \in Arch!Condition(i.op, rr[i.rs], rr[i.rt])}
    BY <1>0, <1>4, <2>1, ArchWords DEF Arch!After, Landing
  <2> QED BY <2>1, <2>2
<1>6. ASSUME taken PROVE Correct(r, mem, f, U(f + Shl(Simm, 2)))
  <2>1. Landing(f, target) = Next4(f, U(target)) /\ U(target) \in Word BY <1>0, <1>1, LandingIs
  <2>2. Cpu(r, mem, f, U(target)) = [regs |-> rr, mem |-> mem, pc |-> f, npc |-> Landing(f, target)]
    BY <2>1 DEF Cpu
  <2>3. Cpu(r, mem, f, U(target)) \in Arch!After(c) BY <1>5, <1>6, <2>2
  <2> QED BY <1>0, <1>1, <2>1, <2>3 DEF Correct
<1>7. ASSUME ~taken PROVE Correct(r, mem, Skips(i.op, f), 0)
  <2>1. (i.op \in Arch!Likely) <=> (i.op \in LikelyOps) BY DEF Arch!Likely, LikelyOps
  <2>2. CASE i.op \in LikelyOps
    <3>1. Skips(i.op, f) = next BY <2>2 DEF Skips
    <3>2. Cpu(r, mem, next, 0) = [regs |-> rr, mem |-> mem, pc |-> next, npc |-> U(next + 4)]
      BY DEF Cpu, Next4
    <3>3. Cpu(r, mem, next, 0) \in Arch!After(c) BY <1>5, <1>7, <2>1, <2>2, <3>2
    <3> QED BY <1>0, <1>2, <3>1, <3>3, WordFacts DEF Correct
  <2>3. CASE i.op \notin LikelyOps
    <3>1. Skips(i.op, f) = f BY <2>3 DEF Skips
    <3>2. Cpu(r, mem, f, 0) = [regs |-> rr, mem |-> mem, pc |-> f, npc |-> U(next)]
      BY <1>2 DEF Cpu, Next4
    <3>3. Cpu(r, mem, f, 0) \in Arch!After(c) BY <1>5, <1>7, <2>1, <2>3, <3>2
    <3> QED BY <1>0, <3>1, <3>3, WordFacts DEF Correct
  <2> QED BY <2>2, <2>3
<1> QED BY <1>6, <1>7

LEMMA ConditionIs ==
  ASSUME NEW op \in BranchOps, NEW s \in Word, NEW t, NEW u, op \in LinkOps \/ u = t
  PROVE  Taken(op, s, t) \in Arch!Condition(op, s, u)
<1>1. I(s) \in Int BY WordFacts, ITyped
<1>2. ASSUME op \in LinkOps PROVE Taken(op, s, t) \in Arch!Condition(op, s, u)
  <2>1. CASE op = "bgezal"
    <3>1. Taken(op, s, t) = (I(s) >= 0) /\ Arch!Condition(op, s, u) = {I(s) >= 0}
      BY <2>1, ArchWords DEF Taken, Arch!Condition
    <3> QED BY <3>1
  <2>2. CASE op = "bltzal"
    <3>1. Taken(op, s, t) = TRUE
      <4>1. Taken(op, s, t) = (I(s) < 0 \/ I(s) >= 0) BY <2>2 DEF Taken
      <4>2. I(s) < 0 \/ I(s) >= 0 BY <1>1
      <4> QED BY <4>1, <4>2
    <3>2. TRUE \in Arch!Condition(op, s, u)
      <4>1. Arch!Condition(op, s, u) = {Arch!I(s) < 0, TRUE} BY <2>2 DEF Arch!Condition
      <4> QED BY <4>1
    <3> QED BY <3>1, <3>2
  <2> QED BY <1>2, <2>1, <2>2 DEF LinkOps
<1>3. ASSUME op \notin LinkOps PROVE Taken(op, s, t) \in Arch!Condition(op, s, u)
  <2>1. u = t BY <1>3
  <2> QED BY <1>3, <2>1, ArchWords DEF LinkOps, BranchOps, LikelyOps, Taken, Arch!Condition
<1> QED BY <1>2, <1>3

LEMMA BranchRight == ASSUME IInv, Branch PROVE Stepped
<1> DEFINE i == Instruction
           op == i.op
           c == Current.regs
           f == Following
           r == IF op \in LinkOps THEN Put(registers, Ra, f + 4) ELSE registers
           taken == Taken(op, r[i.rs], Rt)
<1>1. Fetched /\ op \in BranchOps
      /\ (IF taken THEN Goes(r, mem, f, U(f + Shl(Simm, 2))) ELSE Goes(r, mem, Skips(op, f), 0))
  BY DEF Branch, Is
<1>2. f \in Word /\ f + 4 \in Int /\ IsInstruction(i) /\ registers \in Registered /\ c = [x \in Regs |-> registers[x]]
  <2>1. f \in Word BY CurrentFacts
  <2> QED BY <2>1, CurrentFacts, WordFacts
<1> HIDE DEF i, f, c
<1>3. op \in Known \ (FloatLoadOps \cup FloatStoreOps \cup {"mfc1", "mtc1", "bc1", "c.cond", "syscall"})
  BY <1>1, OpClasses
<1>4. i.rs \in Regs /\ i.rt \in Regs /\ op # "syscall" BY <1>2, <1>3, OperandFacts
<1>5. op \in Arch!Branches
  BY <1>1 DEF BranchOps, LikelyOps, LinkOps, Arch!Branches, Arch!Likely
<1>6. r \in Registered /\ [x \in Regs |-> r[x]] = Arch!Linked(i, c, f)
  <2>1. CASE op \in LinkOps
    <3>1. i.op \in Arch!Links /\ i.op # "jalr" /\ Ra = 31 BY <2>1 DEF LinkOps, Arch!Links, Ra
    <3>2. Arch!Linked(i, c, f) = Arch!Set(c, Ra, f + 4) BY <3>1 DEF Arch!Linked
    <3>3. Ra \in Regs BY RegisterFacts
    <3> DEFINE x == f + 4
    <3>4. x \in Int BY <1>2
    <3> HIDE DEF x
    <3>5. Put(registers, Ra, x) \in Registered
          /\ [y \in Regs |-> Put(registers, Ra, x)[y]] = Arch!Set(c, Ra, x)
      BY <3>3, <3>4, SetIsPut DEF c
    <3> QED BY <2>1, <3>2, <3>5 DEF x
  <2>2. CASE op \notin LinkOps
    <3>1. i.op \notin Arch!Links BY <1>1, <2>2 DEF BranchOps, LikelyOps, LinkOps, Arch!Links
    <3> QED BY <1>2, <2>2, <3>1 DEF Arch!Linked
  <2> QED BY <2>1, <2>2
<1>7. taken \in Arch!Condition(op, r[i.rs], r[i.rt])
  <2>1. r[i.rs] \in Word BY <1>4, <1>6, RegisterFacts DEF Registered
  <2>2. op \in LinkOps \/ r[i.rt] = Rt BY DEF Rt, i
  <2> HIDE DEF r, op
  <2> QED BY <1>1, <2>1, <2>2, ConditionIs
<1> HIDE DEF r, taken
<1>8. /\ taken => Correct(r, mem, f, U(f + Shl(Simm, 2)))
      /\ ~taken => Correct(r, mem, Skips(op, f), 0)
  BY <1>4, <1>5, <1>6, <1>7, AfterBranch DEF i, f, c
<1>9. CASE taken
  <2>1. Goes(r, mem, f, U(f + Shl(Simm, 2))) /\ Correct(r, mem, f, U(f + Shl(Simm, 2))) BY <1>1, <1>8, <1>9
  <2> QED BY <1>1, <1>4, <2>1 DEF Stepped, i
<1>10. CASE ~taken
  <2>1. Goes(r, mem, Skips(op, f), 0) /\ Correct(r, mem, Skips(op, f), 0) BY <1>1, <1>8, <1>10
  <2> QED BY <1>1, <1>4, <2>1 DEF Stepped, i
<1> QED BY <1>9, <1>10

(* Jumps, and branches on the condition of floating point.                 *)
LEMMA AfterJump ==
  ASSUME IInv, Instruction.op \in Arch!Jumps, NEW r \in Registered,
         [y \in Regs |-> r[y]] = Arch!Linked(Instruction, Current.regs, Following),
         NEW x \in Int, x = Arch!JumpsTo(Instruction, Current.regs, Following)
  PROVE  Correct(r, mem, Following, U(x))
<1> DEFINE i == Instruction
           c == Current
           f == Following
           rr == [y \in Regs |-> r[y]]
<1>0. /\ mem \in Memory /\ f \in Word /\ c.mem = mem /\ c.pc = pc /\ c.npc = f /\ Arch!Current(c) = i
  BY CurrentFacts
<1>1. Arch!Current(c) = i BY <1>0
<1>2. i.op \notin Arch!Branches /\ i.op # "bc1" /\ i.op \notin Arch!FloatLoads /\ i.op \notin Arch!FloatStores
      /\ i.op \in Arch!Jumps /\ rr = Arch!Linked(i, c.regs, f) /\ x = Arch!JumpsTo(i, c.regs, f)
  BY DEF Arch!Branches, Arch!Likely, Arch!FloatLoads, Arch!FloatStores, Arch!Jumps
<1>3. Landing(f, x) = Next4(f, U(x)) /\ U(x) \in Word BY <1>0, LandingIs
<1>4. [regs |-> rr, mem |-> mem, pc |-> f, npc |-> Landing(f, x)] \in Arch!After(c)
  <2> HIDE DEF i, c, f, rr
  <2>1. Arch!After(c) = {[regs |-> rr, mem |-> mem, pc |-> f, npc |-> Landing(f, x)]}
    BY <1>0, <1>1, <1>2, ArchWords DEF Arch!After, Landing
  <2> QED BY <2>1
<1>5. Cpu(r, mem, f, U(x)) = [regs |-> rr, mem |-> mem, pc |-> f, npc |-> Landing(f, x)] BY <1>3 DEF Cpu
<1>6. Cpu(r, mem, f, U(x)) \in Arch!After(c) BY <1>4, <1>5
<1> QED BY <1>0, <1>3, <1>6 DEF Correct

LEMMA JumpTargets ==
  ASSUME IInv, NEW imm \in Nat, imm = Instruction.imm
  PROVE  /\ (Following - (Following % Region)) + ((4 * imm) % Region) \in Int
         /\ U((Following - (Following % Region)) + ((4 * imm) % Region)) = JumpTarget
<1> DEFINE f == Following
           m == Region
           low == (4 * imm) % m
<1>1. f \in Int /\ m \in Nat \ {0} /\ 4 * imm \in Int
  <2>1. f \in Word BY CurrentFacts
  <2> QED BY <2>1, WordFacts, MachineAssumption
<1>2. JumpTarget = U((f \div m) * m + low) BY DEF JumpTarget
<1> HIDE DEF f, m
<1>3. low \in Int BY <1>1
<1> HIDE DEF low
<1>4. PICK q \in Int, r \in 0..(m - 1) : q = f \div m /\ r = f % m /\ f = q * m + r BY <1>1, Division
<1>5. q * m \in Int BY <1>1, <1>4
<1> DEFINE p == q * m
<1>6. f - r = p /\ p \in Int
  <2>1. f = p + r /\ p \in Int /\ r \in Int BY <1>1, <1>4, <1>5
  <2> HIDE DEF p
  <2> QED BY <2>1
<1>7. (f \div m) * m = p BY <1>4
<1> HIDE DEF p
<1>8. (f - (f % m)) + low = p + low BY <1>4, <1>6
<1> QED BY <1>2, <1>3, <1>6, <1>7, <1>8 DEF f, m, low

LEMMA JumpRight == ASSUME IInv, Jump PROVE Stepped
<1> DEFINE i == Instruction
           op == i.op
           c == Current.regs
           f == Following
<1>1. f \in Word /\ f + 4 \in Int /\ IsInstruction(i) /\ registers \in Registered /\ c = [x \in Regs |-> registers[x]]
  <2>1. f \in Word BY CurrentFacts
  <2> QED BY <2>1, CurrentFacts, WordFacts
<1>2. Fetched /\ op \in {"j", "jal", "jr", "jalr"} BY DEF Jump, Is
<1>3. op \in Arch!Jumps BY <1>2 DEF Arch!Jumps
<1>4. i.rs \in Regs /\ i.rd \in Regs /\ i.imm \in Nat
  <2>1. op \in Known \ (FloatLoadOps \cup FloatStoreOps \cup {"mfc1", "mtc1", "bc1", "c.cond", "syscall"})
    BY <1>2, OpClasses
  <2> QED BY <1>1, <2>1, OperandFacts
<1>5. ASSUME NEW d \in Regs, op \in Arch!Links, d = IF op = "jalr" THEN i.rd ELSE Ra
      PROVE  /\ Put(registers, d, f + 4) \in Registered
             /\ [y \in Regs |-> Put(registers, d, f + 4)[y]] = Arch!Linked(i, c, f)
  <2> DEFINE x == f + 4
  <2>1. x \in Int BY <1>1
  <2>2. Arch!Linked(i, c, f) = Arch!Set(c, d, x) BY <1>5 DEF Arch!Linked, Ra
  <2> HIDE DEF x
  <2>3. Put(registers, d, x) \in Registered
        /\ [y \in Regs |-> Put(registers, d, x)[y]] = Arch!Set(c, d, x)
    BY <2>1, SetIsPut DEF c
  <2> QED BY <2>2, <2>3 DEF x
<1>6. ASSUME op \notin Arch!Links PROVE [y \in Regs |-> registers[y]] = Arch!Linked(i, c, f)
  BY <1>1, <1>6 DEF Arch!Linked
<1> DEFINE near == (f - (f % Region)) + ((4 * i.imm) % Region)
<1>7. near \in Int /\ U(near) = JumpTarget
  <2> DEFINE imm == i.imm
  <2>1. imm \in Nat /\ imm = Instruction.imm BY <1>4
  <2> HIDE DEF imm
  <2>2. /\ (Following - (Following % Region)) + ((4 * imm) % Region) \in Int
        /\ U((Following - (Following % Region)) + ((4 * imm) % Region)) = JumpTarget
    BY <2>1, JumpTargets
  <2> QED BY <2>2 DEF imm
<1>8. Rs \in Word /\ Rs \in Int /\ U(Rs) = Rs /\ c[i.rs] = Rs
  <2>1. Rs \in Word BY <1>1, <1>4, RegisterFacts DEF Rs, Registered
  <2> QED BY <1>1, <1>4, <2>1, WordFacts DEF Rs
<1>9. op \in {"j", "jal"} => Arch!JumpsTo(i, c, f) = near BY DEF Arch!JumpsTo
<1>10. op \in {"jr", "jalr"} => Arch!JumpsTo(i, c, f) = Rs BY <1>8 DEF Arch!JumpsTo
<1> HIDE DEF near
<1>11. ASSUME NEW r \in Registered, [y \in Regs |-> r[y]] = Arch!Linked(i, c, f),
              NEW x \in Int, x = Arch!JumpsTo(i, c, f), Goes(r, mem, f, U(x))
       PROVE  Stepped
  <2>1. Correct(r, mem, f, U(x)) BY <1>3, <1>11, AfterJump
  <2>2. op # "syscall" BY <1>2
  <2> QED BY <1>2, <1>11, <2>1, <2>2 DEF Stepped
<1>12. CASE op = "j"
  <2>1. Goes(registers, mem, f, U(near)) BY <1>7, <1>12 DEF Jump, Is
  <2>2. op \notin Arch!Links BY <1>12 DEF Arch!Links
  <2> QED BY <1>1, <1>6, <1>7, <1>9, <1>11, <1>12, <2>1, <2>2
<1>13. CASE op = "jal"
  <2>1. Goes(Put(registers, Ra, f + 4), mem, f, U(near)) BY <1>7, <1>13 DEF Jump, Is
  <2>2. op \in Arch!Links /\ op # "jalr" /\ Ra \in Regs BY <1>13, RegisterFacts DEF Arch!Links
  <2>3. /\ Put(registers, Ra, f + 4) \in Registered
        /\ [y \in Regs |-> Put(registers, Ra, f + 4)[y]] = Arch!Linked(i, c, f)
    BY <1>5, <2>2
  <2> QED BY <1>7, <1>9, <1>11, <1>13, <2>1, <2>3
<1>14. CASE op = "jr"
  <2>1. Goes(registers, mem, f, U(Rs)) BY <1>8, <1>14 DEF Jump, Is
  <2>2. op \notin Arch!Links BY <1>14 DEF Arch!Links
  <2> QED BY <1>1, <1>6, <1>8, <1>10, <1>11, <1>14, <2>1, <2>2
<1>15. CASE op = "jalr"
  <2>1. Goes(Put(registers, i.rd, f + 4), mem, f, U(Rs)) BY <1>8, <1>15 DEF Jump, Is
  <2>2. op \in Arch!Links BY <1>15 DEF Arch!Links
  <2>3. /\ Put(registers, i.rd, f + 4) \in Registered
        /\ [y \in Regs |-> Put(registers, i.rd, f + 4)[y]] = Arch!Linked(i, c, f)
    BY <1>4, <1>5, <1>15, <2>2
  <2> QED BY <1>8, <1>10, <1>11, <1>15, <2>1, <2>3
<1> QED BY <1>2, <1>12, <1>13, <1>14, <1>15

LEMMA FloatBranchRight == ASSUME IInv, FloatBranch PROVE Stepped
<1> DEFINE i == Instruction
           c == Current
           f == Following
           next == U(f + 4)
           target == f + 4 * Extended(i.imm, 2 * B)
           holds == Holds(registers[Condition])
           taken == holds = (i.rt \in {1, 3})
<1>0. /\ mem \in Memory /\ f \in Word /\ c.mem = mem /\ c.pc = pc /\ c.npc = f /\ Arch!Current(c) = i
      /\ registers \in Registered /\ c.regs = [x \in Regs |-> registers[x]] /\ \A x \in Regs : c.regs[x] = registers[x]
  BY CurrentFacts
<1>1. Fetched /\ i.op = "bc1" /\ i.rt \in 0..3 BY DEF FloatBranch, Is
<1>2. IF taken THEN Goes(registers, mem, f, U(f + Shl(Simm, 2)))
      ELSE Goes(registers, mem, IF i.rt \in {2, 3} THEN next ELSE f, 0)
  BY DEF FloatBranch, Is
<1>3. target \in Int /\ U(f + Shl(Simm, 2)) = U(target) BY BranchTarget DEF Simm
<1>4. next \in Word /\ U(next) = next /\ U(next + 4) \in Word
  <2>1. f + 4 \in Int BY <1>0, WordFacts
  <2>2. next \in Word BY <2>1, UTyped
  <2> HIDE DEF next
  <2>3. next + 4 \in Int BY <2>2, WordFacts
  <2> QED BY <2>2, <2>3, UTyped, WordUnchanged
<1>5. Arch!FlagBit = ConditionBit /\ Condition = 63 /\ c.regs[63] = registers[Condition]
  <2>1. Condition = 63 BY DEF Condition, F
  <2>2. Condition \in Regs BY RegisterFacts
  <2> QED BY <1>0, <2>1, <2>2, ArchWords DEF Arch!FlagBit, ConditionBit
<1>6. ((Arch!FlagBit \in Arch!Bits(c.regs[63])) = (i.rt % 2 = 1)) <=> taken
  <2>1. (i.rt % 2 = 1) <=> (i.rt \in {1, 3}) BY <1>1
  <2>2. (Arch!FlagBit \in Arch!Bits(c.regs[63])) <=> holds BY <1>5, ArchWords DEF Holds
  <2>3. holds \in BOOLEAN BY DEF Holds
  <2> QED BY <2>1, <2>2, <2>3
<1>7. Arch!Current(c) = i BY <1>0
<1>8. i.op \notin Arch!Branches BY <1>1 DEF Arch!Branches, Arch!Likely
<1>9. Landing(f, target) = Next4(f, U(target)) /\ U(target) \in Word BY <1>0, <1>3, LandingIs
<1>10. i.op # "syscall" BY <1>1
<1>11. CASE taken
  <2>1. Goes(registers, mem, f, U(target)) BY <1>2, <1>3, <1>11
  <2>2. Arch!After(c) = {[regs |-> c.regs, mem |-> mem, pc |-> f, npc |-> Landing(f, target)]}
    <3> HIDE DEF i, c, f, taken
    <3> QED BY <1>0, <1>1, <1>6, <1>7, <1>8, <1>11, ArchWords DEF Arch!After, Landing
  <2>3. Cpu(registers, mem, f, U(target)) = [regs |-> c.regs, mem |-> mem, pc |-> f, npc |-> Landing(f, target)]
    BY <1>0, <1>9 DEF Cpu
  <2>4. Cpu(registers, mem, f, U(target)) \in Arch!After(Current) BY <2>2, <2>3
  <2>5. Correct(registers, mem, f, U(target)) BY <1>0, <1>9, <2>4 DEF Correct
  <2> QED BY <1>1, <1>10, <2>1, <2>5 DEF Stepped
<1>12. CASE ~taken
  <2>1. Arch!After(c) = IF i.rt < 2 THEN {[regs |-> c.regs, mem |-> mem, pc |-> f, npc |-> U(next)]}
                        ELSE {[regs |-> c.regs, mem |-> mem, pc |-> next, npc |-> U(next + 4)]}
    <3> HIDE DEF i, c, f, taken
    <3> QED BY <1>0, <1>1, <1>6, <1>7, <1>8, <1>12, ArchWords DEF Arch!After
  <2>2. CASE i.rt \in {2, 3}
    <3>1. Goes(registers, mem, next, 0) BY <1>2, <1>12, <2>2
    <3>2. ~(i.rt < 2) BY <2>2
    <3>3. Cpu(registers, mem, next, 0) = [regs |-> c.regs, mem |-> mem, pc |-> next, npc |-> U(next + 4)]
      BY <1>0 DEF Cpu, Next4
    <3>4. Cpu(registers, mem, next, 0) \in Arch!After(Current) BY <2>1, <3>2, <3>3
    <3>5. Correct(registers, mem, next, 0) BY <1>0, <1>4, <3>4, WordFacts DEF Correct
    <3> QED BY <1>1, <1>10, <3>1, <3>5 DEF Stepped
  <2>3. CASE i.rt \notin {2, 3}
    <3>1. Goes(registers, mem, f, 0) BY <1>2, <1>12, <2>3
    <3>2. i.rt < 2 BY <1>1, <2>3
    <3>3. Cpu(registers, mem, f, 0) = [regs |-> c.regs, mem |-> mem, pc |-> f, npc |-> U(next)]
      BY <1>0, <1>4 DEF Cpu, Next4
    <3>4. Cpu(registers, mem, f, 0) \in Arch!After(Current) BY <2>1, <3>2, <3>3
    <3>5. Correct(registers, mem, f, 0) BY <1>0, <3>4, WordFacts DEF Correct
    <3> QED BY <1>1, <1>10, <3>1, <3>5 DEF Stepped
  <2> QED BY <2>2, <2>3
<1> QED BY <1>11, <1>12

(* Loads: the bytes at an address, and those of the word it is in.         *)
LEMMA FourDivides == \E n \in Nat \ {0} : Two[W] = 4 * n
<1>1. W \in Nat /\ 2 \in 0..W BY WFacts
<1>2. Two[2] = 4
  <2>1. 0 \in Nat /\ 1 \in Nat /\ 0 + 1 = 1 /\ 1 + 1 = 2 OBVIOUS
  <2>2. Two[1] = 2 BY <2>1, TwoDefined
  <2> QED BY <2>1, <2>2, TwoDefined
<1> DEFINE m == W
           n == 2
<1>3. m \in Nat /\ n \in 0..m BY <1>1
<1> HIDE DEF m, n
<1>4. Two[m - n] \in Nat \ {0} /\ Two[m] = Two[n] * Two[m - n] BY <1>3, TwoDivides
<1> QED BY <1>2, <1>4 DEF m, n

Inside(a, p) ==
  /\ p \in Int /\ p >= 0 /\ a - p \in 0..3 /\ p + (a % 4) = a
  /\ \A j \in 0..3 : p + j \in Word /\ U(p + j) = p + j
  /\ \A j \in Int : ((p + j) \div 4 = a \div 4) <=> j \in 0..3
LEMMA InWord == ASSUME NEW a \in Word PROVE Inside(a, a - (a % 4)) /\ a % 4 \in 0..3 /\ a \in Int
<1>1. a \in Int /\ a >= 0 /\ a < Two[W] BY WordFacts, WFacts DEF Word
<1>2. PICK n \in Nat \ {0} : Two[W] = 4 * n BY FourDivides
<1>3. PICK q \in Int, r \in 0..3 : q = a \div 4 /\ r = a % 4 /\ a = q * 4 + r
  <2> DEFINE m == 4
  <2>1. m \in Nat \ {0} OBVIOUS
  <2> HIDE DEF m
  <2>2. \E q \in Int, r \in 0..(m - 1) : q = a \div m /\ r = a % m /\ a = q * m + r BY <1>1, <2>1, Division
  <2> QED BY <2>2 DEF m
<1> DEFINE p == a - r
<1>4. p = 4 * q /\ p \in Int BY <1>3
<1>5. q >= 0 /\ q < n BY <1>1, <1>2, <1>3
<1>6. \A j \in 0..3 : p + j \in Word /\ U(p + j) = p + j
  <2> SUFFICES ASSUME NEW j \in 0..3 PROVE p + j \in Word /\ U(p + j) = p + j OBVIOUS
  <2>1. p + j \in 0..(Two[W] - 1) BY <1>2, <1>4, <1>5
  <2>2. p + j \in Word BY <2>1 DEF Word
  <2> QED BY <2>2, WordFacts
<1>7. \A j \in Int : ((p + j) \div 4 = a \div 4) <=> j \in 0..3
  <2> SUFFICES ASSUME NEW j \in Int PROVE ((p + j) \div 4 = q) <=> j \in 0..3 BY <1>3
  <2>1. (4 * q + j) \div 4 = q <=> j \in 0..3 BY <1>3
  <2> QED BY <1>4, <2>1
<1> QED BY <1>1, <1>3, <1>4, <1>5, <1>6, <1>7 DEF Inside

LEMMA MayAllowed == ASSUME IInv PROVE \A a, n, right : Arch!May(a, n, right) <=> Allowed(a, n, right)
<1>1. DOMAIN flags = Page BY DEF IInv
<1> QED BY <1>1, ArchWords DEF Arch!May, Allowed, PageOf

LEMMA AddrFacts ==
  ASSUME IInv, Instruction.rs \in Regs
  PROVE  Addr \in Word /\ Arch!Effective(Instruction, Current.regs) = Addr
<1>1. registers \in Registered /\ (\A y \in Regs : Current.regs[y] = registers[y]) /\ Instruction.imm \in Int
  BY CurrentFacts, OperandFacts
<1>2. Rs \in Word /\ Rs = Current.regs[Instruction.rs] BY <1>1, RegisterFacts DEF Rs, Registered
<1>3. Simm \in Int BY <1>1, ImmediateTyped DEF Simm
<1>4. Rs + Simm \in Int BY <1>2, <1>3, WordFacts
<1>5. Addr \in Word BY <1>4, UTyped DEF Addr
<1>6. Arch!Effective(Instruction, Current.regs) = Addr BY <1>2, ArchWords DEF Arch!Effective, Addr, Simm
<1> QED BY <1>5, <1>6

Got(m, a) == [k \in 0..3 |-> m[U(a + k)]]
LEMMA TakingFacts ==
  ASSUME NEW m \in Memory, NEW a \in Int
  PROVE  /\ Got(m, a) \in Bytes4 /\ WordAt(m, a) = Joined(Got(m, a)) /\ WordAt(m, a) \in Word
         /\ Joined(Arch!Taking(m, a, 1)) = Got(m, a)[0]
         /\ Joined(Arch!Taking(m, a, 2)) = Got(m, a)[0] + Got(m, a)[1] * Two[B]
         /\ Joined(Arch!Taking(m, a, 4)) = WordAt(m, a)
<1> DEFINE b == Got(m, a)
<1>1. b \in Bytes4 /\ WordAt(m, a) = Joined(b) /\ WordAt(m, a) \in Word BY WordAtTyped DEF Got, WordAt
<1>2. b[0] \in Int /\ b[1] \in Int /\ Two[B] \in Int /\ Two[2 * B] \in Int /\ Two[3 * B] \in Int
  <2>1. b[0] \in Byte /\ b[1] \in Byte BY <1>1 DEF Bytes4
  <2> QED BY <2>1, BytePowers DEF Byte
<1>3. \A n \in {1, 2, 4} : Arch!Taking(m, a, n) = [k \in 0..3 |-> IF k < n THEN b[k] ELSE 0]
  BY ArchWords DEF Arch!Taking, Got
<1> HIDE DEF b
<1>4. Joined(Arch!Taking(m, a, 1)) = b[0]
  <2>1. Joined([k \in 0..3 |-> IF k < 1 THEN b[k] ELSE 0]) = b[0] + 0 * Two[B] + 0 * Two[2 * B] + 0 * Two[3 * B]
    BY DEF Joined
  <2> QED BY <1>2, <1>3, <2>1
<1>5. Joined(Arch!Taking(m, a, 2)) = b[0] + b[1] * Two[B]
  <2>1. Joined([k \in 0..3 |-> IF k < 2 THEN b[k] ELSE 0]) = b[0] + b[1] * Two[B] + 0 * Two[2 * B] + 0 * Two[3 * B]
    BY DEF Joined
  <2>2. b[1] * Two[B] \in Int BY <1>2
  <2> DEFINE x == b[1] * Two[B]
  <2>3. b[0] + x + 0 * Two[2 * B] + 0 * Two[3 * B] = b[0] + x
    <3>1. x \in Int BY <2>2
    <3> HIDE DEF x
    <3> QED BY <1>2, <3>1
  <2> QED BY <1>3, <2>1, <2>3
<1>6. Joined(Arch!Taking(m, a, 4)) = WordAt(m, a)
  <2>1. [k \in 0..3 |-> IF k < 4 THEN b[k] ELSE 0] = b BY <1>1 DEF Bytes4
  <2> QED BY <1>1, <1>3, <2>1
<1> QED BY <1>1, <1>4, <1>5, <1>6 DEF b

LEMMA NarrowValues ==
  ASSUME NEW m \in Memory, NEW a \in Int
  PROVE  /\ ByteOf(WordAt(m, a), 0) = Joined(Arch!Taking(m, a, 1))
         /\ Extended(WordAt(m, a), B) = Extended(Joined(Arch!Taking(m, a, 1)), B)
         /\ WordAt(m, a) % Half = Joined(Arch!Taking(m, a, 2))
         /\ Extended(WordAt(m, a), HalfBits) = Extended(Joined(Arch!Taking(m, a, 2)), HalfBits)
<1> DEFINE b == Got(m, a)
           w == WordAt(m, a)
<1>1. /\ b \in Bytes4 /\ w = Joined(b) /\ w \in Word
      /\ Joined(Arch!Taking(m, a, 1)) = b[0] /\ Joined(Arch!Taking(m, a, 2)) = b[0] + b[1] * Two[B]
  BY TakingFacts
<1> HIDE DEF b
<1>2. ByteOf(w, 0) = b[0] /\ w % Two[B] = b[0] /\ w % Two[2 * B] = b[0] + b[1] * Two[B]
  BY <1>1, JoinedBytes
<1>3. b[0] % Two[B] = b[0]
  <2> DEFINE t == Two[B]
             x == b[0]
  <2>1. x \in 0..(t - 1) /\ t \in Nat \ {0} BY <1>1, BytePowers DEF Bytes4, Byte
  <2> HIDE DEF t, x
  <2>2. x % t = x BY <2>1, Small
  <2> QED BY <2>2 DEF t, x
<1>4. (w % Two[2 * B]) % Two[2 * B] = w % Two[2 * B]
  <2> DEFINE t == Two[2 * B]
             x == w % t
  <2>1. w \in Int /\ t \in Nat \ {0} BY <1>1, WordFacts, BytePowers
  <2> HIDE DEF t, w
  <2>2. x \in 0..(t - 1) BY <2>1
  <2> HIDE DEF x
  <2>3. x % t = x BY <2>1, <2>2, Small
  <2> QED BY <2>3 DEF x, t, w
<1> HIDE DEF w
<1>5. Extended(w, B) = Extended(b[0], B) BY <1>2, <1>3 DEF Extended
<1> DEFINE h == b[0] + b[1] * Two[B]
<1>6. Extended(w, HalfBits) = Extended(h, HalfBits) BY <1>2, <1>4 DEF Extended, HalfBits
<1> QED BY <1>1, <1>2, <1>5, <1>6 DEF Half, HalfBits, w

LEMMA WordBytes ==
  ASSUME NEW m \in Memory, NEW a \in Word, NEW j \in 0..3
  PROVE  /\ WordAt(m, a - (a % 4)) \in Word
         /\ ByteOf(WordAt(m, a - (a % 4)), j) = m[a - (a % 4) + j]
<1> DEFINE p == a - (a % 4)
<1>1. Inside(a, p) BY InWord
<1> HIDE DEF p
<1>2. p \in Int /\ U(p + j) = p + j BY <1>1 DEF Inside
<1>3. Got(m, p) \in Bytes4 /\ WordAt(m, p) = Joined(Got(m, p)) /\ WordAt(m, p) \in Word BY <1>2, TakingFacts
<1>4. ByteOf(WordAt(m, p), j) = Got(m, p)[j] BY <1>3, JoinedBytes
<1>5. Got(m, p)[j] = m[p + j] BY <1>2 DEF Got
<1> QED BY <1>3, <1>4, <1>5 DEF p

LeftBytes(m, a, old) ==
  [k \in 0..3 |-> IF (a - 3 + k) \div 4 = a \div 4 THEN m[a - 3 + k] ELSE ByteOf(old, k)]
LEMMA LeftValue ==
  ASSUME NEW m \in Memory, NEW a \in Word, NEW old \in Word
  PROVE  /\ LoadLeft(old, WordAt(m, a - (a % 4)), a % 4) \in Word
         /\ LoadLeft(old, WordAt(m, a - (a % 4)), a % 4) =
              Joined(LeftBytes(m, a, old))
<1> DEFINE p == a - (a % 4)
           mask == a % 4
           v == WordAt(m, p)
           x == LoadLeft(old, v, mask)
<1>1. Inside(a, p) /\ mask \in 0..3 /\ a \in Int BY InWord
<1>2. v \in Word /\ \A j \in 0..3 : ByteOf(v, j) = m[p + j]
  <2>1. ASSUME NEW j \in 0..3 PROVE v \in Word /\ ByteOf(v, j) = m[p + j] BY WordBytes
  <2>2. 0 \in 0..3 OBVIOUS
  <2> QED BY <2>1, <2>2
<1>3. p \in Int /\ p + mask = a BY <1>1 DEF Inside
<1>4. \A j \in Int : ((p + j) \div 4 = a \div 4) <=> j \in 0..3 BY <1>1 DEF Inside
<1> HIDE DEF p, mask, v
<1>5. x \in Word /\ \A k \in 0..3 :
        ByteOf(x, k) = IF k >= 3 - mask THEN ByteOf(v, k - (3 - mask)) ELSE ByteOf(old, k)
  BY <1>1, <1>2, LoadLeftBytes
<1> HIDE DEF x
<1>6. ASSUME NEW k \in 0..3
      PROVE  ByteOf(x, k) = IF (a - 3 + k) \div 4 = a \div 4 THEN m[a - 3 + k] ELSE ByteOf(old, k)
  <2> DEFINE j == k - (3 - mask)
  <2>1. j \in Int /\ a - 3 + k = p + j /\ (j \in 0..3 <=> k >= 3 - mask) BY <1>1, <1>3
  <2> HIDE DEF j
  <2>2. ((p + j) \div 4 = a \div 4) <=> j \in 0..3 BY <1>4, <2>1
  <2>3. j \in 0..3 => ByteOf(v, j) = m[p + j] BY <1>2
  <2>4. ByteOf(x, k) = IF k >= 3 - mask THEN ByteOf(v, j) ELSE ByteOf(old, k) BY <1>5 DEF j
  <2> QED BY <2>1, <2>2, <2>3, <2>4
<1>7. [k \in 0..3 |-> ByteOf(x, k)]
        = [k \in 0..3 |-> IF (a - 3 + k) \div 4 = a \div 4 THEN m[a - 3 + k] ELSE ByteOf(old, k)]
  BY <1>6
<1>8. Joined([k \in 0..3 |-> ByteOf(x, k)]) = x
  <2>1. x \in Int /\ U(x) = x BY <1>5, WordFacts
  <2> QED BY <2>1, JoinedOfBytes
<1>9. x = Joined([k \in 0..3 |-> IF (a - 3 + k) \div 4 = a \div 4 THEN m[a - 3 + k] ELSE ByteOf(old, k)])
  BY <1>7, <1>8
<1> QED BY <1>5, <1>9 DEF x, v, mask, p, LeftBytes

RightBytes(m, a, old) ==
  [k \in 0..3 |-> IF (a + k) \div 4 = a \div 4 THEN m[a + k] ELSE ByteOf(old, k)]
LEMMA RightValue ==
  ASSUME NEW m \in Memory, NEW a \in Word, NEW old \in Word
  PROVE  /\ LoadRight(old, WordAt(m, a - (a % 4)), a % 4) \in Word
         /\ LoadRight(old, WordAt(m, a - (a % 4)), a % 4) =
              Joined(RightBytes(m, a, old))
<1> DEFINE p == a - (a % 4)
           mask == a % 4
           v == WordAt(m, p)
           x == LoadRight(old, v, mask)
<1>1. Inside(a, p) /\ mask \in 0..3 /\ a \in Int BY InWord
<1>2. v \in Word /\ \A j \in 0..3 : ByteOf(v, j) = m[p + j]
  <2>1. ASSUME NEW j \in 0..3 PROVE v \in Word /\ ByteOf(v, j) = m[p + j] BY WordBytes
  <2>2. 0 \in 0..3 OBVIOUS
  <2> QED BY <2>1, <2>2
<1>3. p \in Int /\ p + mask = a BY <1>1 DEF Inside
<1>4. \A j \in Int : ((p + j) \div 4 = a \div 4) <=> j \in 0..3 BY <1>1 DEF Inside
<1> HIDE DEF p, mask, v
<1>5. x \in Word /\ \A k \in 0..3 :
        ByteOf(x, k) = IF k + mask <= 3 THEN ByteOf(v, k + mask) ELSE ByteOf(old, k)
  BY <1>1, <1>2, LoadRightBytes
<1> HIDE DEF x
<1>6. ASSUME NEW k \in 0..3
      PROVE  ByteOf(x, k) = IF (a + k) \div 4 = a \div 4 THEN m[a + k] ELSE ByteOf(old, k)
  <2> DEFINE j == k + mask
  <2>1. j \in Int /\ a + k = p + j /\ (j \in 0..3 <=> k + mask <= 3) BY <1>1, <1>3
  <2> HIDE DEF j
  <2>2. ((p + j) \div 4 = a \div 4) <=> j \in 0..3 BY <1>4, <2>1
  <2>3. j \in 0..3 => ByteOf(v, j) = m[p + j] BY <1>2
  <2>4. ByteOf(x, k) = IF k + mask <= 3 THEN ByteOf(v, j) ELSE ByteOf(old, k) BY <1>5 DEF j
  <2> QED BY <2>1, <2>2, <2>3, <2>4
<1>7. [k \in 0..3 |-> ByteOf(x, k)]
        = [k \in 0..3 |-> IF (a + k) \div 4 = a \div 4 THEN m[a + k] ELSE ByteOf(old, k)]
  BY <1>6
<1>8. Joined([k \in 0..3 |-> ByteOf(x, k)]) = x
  <2>1. x \in Int /\ U(x) = x BY <1>5, WordFacts
  <2> QED BY <2>1, JoinedOfBytes
<1>9. x = Joined([k \in 0..3 |-> IF (a + k) \div 4 = a \div 4 THEN m[a + k] ELSE ByteOf(old, k)])
  BY <1>7, <1>8
<1> QED BY <1>5, <1>9 DEF x, v, mask, p, RightBytes

LEMMA LoadValueRight ==
  ASSUME IInv, Instruction.op \in LoadOps, Instruction.rs \in Regs, Instruction.rt \in Regs
  PROVE  /\ LoadValue(Instruction.op) \in Int
         /\ LoadValue(Instruction.op) = Arch!LoadedValue(Instruction, Current.regs, mem)
<1> DEFINE i == Instruction
           op == i.op
           c == Current.regs
           a == Addr
           m == mem
           old == Rt
<1>1. /\ m \in Memory /\ a \in Word /\ Arch!Effective(i, c) = a /\ old \in Word /\ c[i.rt] = old
      /\ old = registers[i.rt]
  <2>1. registers \in Registered /\ (\A y \in Regs : Current.regs[y] = registers[y]) /\ m \in Memory
    BY CurrentFacts
  <2> QED BY <2>1, AddrFacts, RegisterFacts DEF Rt, Registered
<1>2. a \in Int BY <1>1, WordFacts
<1>3. LET v == WordAt(m, IF op \in AlignedOps THEN a - (a % 4) ELSE a)
      IN LoadValue(op) =
           CASE op = "lbu" -> ByteOf(v, 0)
             [] op = "lb" -> Extended(v, B)
             [] op = "lhu" -> v % Half
             [] op = "lh" -> Extended(v, HalfBits)
             [] op = "lwl" -> LoadLeft(old, v, a % 4)
             [] op = "lwr" -> LoadRight(old, v, a % 4)
             [] op \in {"lw", "ll"} -> v
  BY DEF LoadValue, Place, Aligned
<1> HIDE DEF i, a, m, old, c
<1>4. /\ WordAt(m, a) \in Word /\ WordAt(m, a) \in Int
      /\ ByteOf(WordAt(m, a), 0) = Joined(Arch!Taking(m, a, 1))
      /\ Extended(WordAt(m, a), B) = Extended(Joined(Arch!Taking(m, a, 1)), B)
      /\ WordAt(m, a) % Half = Joined(Arch!Taking(m, a, 2))
      /\ Extended(WordAt(m, a), HalfBits) = Extended(Joined(Arch!Taking(m, a, 2)), HalfBits)
      /\ WordAt(m, a) = Joined(Arch!Taking(m, a, 4))
  <2>1. WordAt(m, a) \in Word /\ WordAt(m, a) = Joined(Arch!Taking(m, a, 4)) BY <1>1, <1>2, TakingFacts
  <2> QED BY <1>1, <1>2, <2>1, NarrowValues, WordFacts
<1>5. CASE op = "lbu"
  <2>1. LoadValue(op) = ByteOf(WordAt(m, a), 0) BY <1>3, <1>5 DEF AlignedOps
  <2>2. Arch!LoadedValue(i, c, m) = Joined(Arch!Taking(m, a, 1))
    BY <1>1, <1>5, ArchBytes DEF Arch!LoadedValue
  <2>3. ByteOf(WordAt(m, a), 0) \in Int
    <3>1. 0 \in Nat OBVIOUS
    <3>2. ByteOf(WordAt(m, a), 0) \in Byte BY <1>4, <3>1, ByteTyped
    <3> QED BY <3>2, BytePowers DEF Byte
  <2> QED BY <1>4, <2>1, <2>2, <2>3 DEF i, c, m
<1>6. CASE op = "lb"
  <2>1. LoadValue(op) = Extended(WordAt(m, a), B) BY <1>3, <1>6 DEF AlignedOps
  <2>2. Arch!LoadedValue(i, c, m) = Extended(Joined(Arch!Taking(m, a, 1)), B)
    BY <1>1, <1>6, ArchBytes, ArchWords DEF Arch!LoadedValue
  <2>3. Extended(WordAt(m, a), B) \in Int BY <1>4, ExtendedTyped, WFacts
  <2> QED BY <1>4, <2>1, <2>2, <2>3 DEF i, c, m
<1>7. CASE op = "lhu"
  <2>1. LoadValue(op) = WordAt(m, a) % Half BY <1>3, <1>7 DEF AlignedOps
  <2>2. Arch!LoadedValue(i, c, m) = Joined(Arch!Taking(m, a, 2))
    BY <1>1, <1>7, ArchBytes DEF Arch!LoadedValue
  <2>3. WordAt(m, a) % Half \in Int BY <1>4, HalfFacts
  <2> QED BY <1>4, <2>1, <2>2, <2>3 DEF i, c, m
<1>8. CASE op = "lh"
  <2>1. LoadValue(op) = Extended(WordAt(m, a), HalfBits) BY <1>3, <1>8 DEF AlignedOps
  <2>2. Arch!LoadedValue(i, c, m) = Extended(Joined(Arch!Taking(m, a, 2)), HalfBits)
    BY <1>1, <1>8, ArchBytes, ArchWords DEF Arch!LoadedValue, HalfBits
  <2>3. HalfBits \in Nat \ {0} BY WFacts DEF HalfBits
  <2>4. Extended(WordAt(m, a), HalfBits) \in Int BY <1>4, <2>3, ExtendedTyped
  <2> QED BY <1>4, <2>1, <2>2, <2>4 DEF i, c, m
<1>9. CASE op \in {"lw", "ll"}
  <2>1. LoadValue(op) = WordAt(m, a) BY <1>3, <1>9 DEF AlignedOps
  <2>2. Arch!LoadedValue(i, c, m) = Joined(Arch!Taking(m, a, 4))
    BY <1>1, <1>9, ArchBytes DEF Arch!LoadedValue
  <2> QED BY <1>4, <2>1, <2>2 DEF i, c, m
<1>10. CASE op = "lwl"
  <2>1. LoadValue(op) = LoadLeft(old, WordAt(m, a - (a % 4)), a % 4) BY <1>3, <1>10 DEF AlignedOps
  <2>2. Arch!LoadedValue(i, c, m) =
          Joined([k \in 0..3 |-> IF (a - 3 + k) \div 4 = a \div 4 THEN m[a - 3 + k]
                                 ELSE [j \in 0..3 |-> ByteOf(old, j)][k]])
    BY <1>1, <1>10, ArchBytes DEF Arch!LoadedValue
  <2>3. [k \in 0..3 |-> IF (a - 3 + k) \div 4 = a \div 4 THEN m[a - 3 + k] ELSE [j \in 0..3 |-> ByteOf(old, j)][k]]
          = LeftBytes(m, a, old)
    BY DEF LeftBytes
  <2>4. LoadValue(op) \in Word BY <1>1, <2>1, LeftValue
  <2>5. LoadLeft(old, WordAt(m, a - (a % 4)), a % 4) = Joined(LeftBytes(m, a, old)) BY <1>1, LeftValue
  <2>6. LoadValue(op) = Arch!LoadedValue(i, c, m) BY <2>1, <2>2, <2>3, <2>5
  <2> QED BY <2>4, <2>6, WordFacts DEF i, c, m
<1>11. CASE op = "lwr"
  <2>1. LoadValue(op) = LoadRight(old, WordAt(m, a - (a % 4)), a % 4) BY <1>3, <1>11 DEF AlignedOps
  <2>2. Arch!LoadedValue(i, c, m) =
          Joined([k \in 0..3 |-> IF (a + k) \div 4 = a \div 4 THEN m[a + k]
                                 ELSE [j \in 0..3 |-> ByteOf(old, j)][k]])
    BY <1>1, <1>11, ArchBytes DEF Arch!LoadedValue
  <2>3. [k \in 0..3 |-> IF (a + k) \div 4 = a \div 4 THEN m[a + k] ELSE [j \in 0..3 |-> ByteOf(old, j)][k]]
          = RightBytes(m, a, old)
    BY DEF RightBytes
  <2>4. LoadValue(op) \in Word BY <1>1, <2>1, RightValue
  <2>5. LoadRight(old, WordAt(m, a - (a % 4)), a % 4) = Joined(RightBytes(m, a, old)) BY <1>1, RightValue
  <2>6. LoadValue(op) = Arch!LoadedValue(i, c, m) BY <2>1, <2>2, <2>3, <2>5
  <2> QED BY <2>4, <2>6, WordFacts DEF i, c, m
<1> QED BY <1>5, <1>6, <1>7, <1>8, <1>9, <1>10, <1>11 DEF LoadOps, i

(* The architecture reads n bytes at an address; the interpreter, for lwl  *)
(* and its like, all of the word.                                          *)
Width(op) ==
  CASE op \in {"lb", "lbu", "sb"} -> 1 [] op \in {"lh", "lhu", "sh"} -> 2
    [] op \in {"lwl", "lwr", "swl", "swr"} -> 1 [] OTHER -> 4
LEMMA MayReach ==
  ASSUME IInv, NEW op \in LoadOps \cup StoreOps, Instruction.rs \in Regs, NEW right,
         Allowed(Place(op), Size(op), right)
  PROVE  Allowed(Addr, Width(op), right)
<1> DEFINE a == Addr
           p == a - (a % 4)
<1>1. a \in Word BY AddrFacts
<1>2. Inside(a, p) /\ a % 4 \in 0..3 /\ a \in Int /\ U(a) = a BY <1>1, InWord, WordFacts
<1>3. CASE op \in AlignedOps
  <2>1. Place(op) = p /\ Size(op) = 4 /\ Width(op) = 1 BY <1>3 DEF Place, Aligned, Size, Width, AlignedOps
  <2> HIDE DEF p
  <2>5. \A j \in 0..(4 - 1) : PageOf(U(p + j)) \in Page /\ right \in flags[PageOf(U(p + j))] BY <2>1 DEF Allowed
  <2>6. 0..(4 - 1) = 0..3 OBVIOUS
  <2>2. PageOf(U(p + (a % 4))) \in Page /\ right \in flags[PageOf(U(p + (a % 4)))]
    <3> DEFINE j == a % 4
    <3>1. j \in 0..3 BY <1>2
    <3> HIDE DEF j
    <3>2. PageOf(U(p + j)) \in Page /\ right \in flags[PageOf(U(p + j))] BY <2>5, <2>6, <3>1
    <3> QED BY <3>2 DEF j
  <2>3. p + (a % 4) = a BY <1>2 DEF Inside
  <2>4. \A i \in 0..(1 - 1) : a + i = a BY <1>2
  <2> QED BY <2>1, <2>2, <2>3, <2>4 DEF Allowed
<1>4. CASE op \notin AlignedOps
  <2>1. Place(op) = a BY <1>4 DEF Place
  <2>2. Size(op) = Width(op) BY <1>4 DEF Size, Width, AlignedOps, LoadOps, StoreOps
  <2> QED BY <2>1, <2>2
<1> QED BY <1>3, <1>4

LEMMA AfterLoad ==
  ASSUME IInv, Instruction.op \in Arch!Loads, Instruction.rs \in Regs, Instruction.rt \in Regs,
         Instruction.rt = 0 \/ Allowed(Addr, Width(Instruction.op), "R"),
         NEW r \in Registered,
         [y \in Regs |-> r[y]] =
           IF Instruction.rt = 0 THEN Current.regs
           ELSE Arch!Set(Current.regs, Instruction.rt, Arch!LoadedValue(Instruction, Current.regs, mem))
  PROVE  Correct(r, mem, Following, 0)
<1> DEFINE i == Instruction
           c == Current
           f == Following
           next == U(f + 4)
           rr == [y \in Regs |-> r[y]]
<1>0. /\ mem \in Memory /\ f \in Word /\ c.mem = mem /\ c.pc = pc /\ c.npc = f /\ Arch!Current(c) = i
  BY CurrentFacts
<1>1. Arch!Current(c) = i BY <1>0
<1>2. i.op \notin Arch!Branches /\ i.op # "bc1" /\ i.op \notin Arch!FloatLoads /\ i.op \notin Arch!FloatStores
      /\ i.op \notin Arch!Jumps /\ i.op \in Arch!Loads
  BY DEF Arch!Branches, Arch!Likely, Arch!FloatLoads, Arch!FloatStores, Arch!Jumps, Arch!Loads
<1>3. U(next) = next
  <2>1. f + 4 \in Int BY <1>0, WordFacts
  <2> QED BY <2>1, UU
<1>4. i.rt = 0 \/ Arch!May(Addr, Width(i.op), "R") BY MayAllowed
<1>5. Arch!Effective(i, c.regs) = Addr BY AddrFacts
<1>6. rr = IF i.rt = 0 THEN c.regs ELSE Arch!Set(c.regs, i.rt, Arch!LoadedValue(i, c.regs, mem))
  OBVIOUS
<1>7. [regs |-> rr, mem |-> mem, pc |-> f, npc |-> next] \in Arch!After(c)
  <2> HIDE DEF i, c, f, rr
  <2> DEFINE n == CASE i.op \in {"lb", "lbu", "sb"} -> 1 [] i.op \in {"lh", "lhu", "sh"} -> 2
                   [] i.op \in {"lwl", "lwr", "swl", "swr"} -> 1 [] OTHER -> 4
  <2>3. n = Width(i.op) BY DEF Width
  <2>1. Arch!After(c) =
          {[regs |-> rr, mem |-> mem, pc |-> f, npc |-> U(next)] :
             ok \in {x \in {TRUE} : i.rt = 0 \/ Arch!May(Addr, Width(i.op), "R")}}
    <3>1. Arch!After(c) =
            {[regs |-> rr, mem |-> mem, pc |-> f, npc |-> U(next)] :
               ok \in {x \in {TRUE} : i.rt = 0 \/ Arch!May(Addr, n, "R")}}
      BY <1>0, <1>1, <1>2, <1>5, <1>6, ArchWords DEF Arch!After
    <3> QED BY <2>3, <3>1
  <2>2. TRUE \in {x \in {TRUE} : i.rt = 0 \/ Arch!May(Addr, Width(i.op), "R")} BY <1>4
  <2> QED BY <1>3, <2>1, <2>2
<1>8. Cpu(r, mem, f, 0) = [regs |-> rr, mem |-> mem, pc |-> f, npc |-> next] BY DEF Cpu, Next4
<1>9. Cpu(r, mem, f, 0) \in Arch!After(c) BY <1>7, <1>8
<1> QED BY <1>0, <1>9, WordFacts DEF Correct

LEMMA LoadsRight == ASSUME IInv, Load PROVE Stepped
<1> DEFINE i == Instruction
           op == i.op
<1>1. Fetched /\ op \in LoadOps BY DEF Load, Is
<1>2. op \in Arch!Loads /\ op # "syscall" BY <1>1 DEF LoadOps, Arch!Loads
<1>3. IsInstruction(i) /\ registers \in Registered /\ mem \in Memory /\ Following \in Word
      /\ Current.regs = [y \in Regs |-> registers[y]]
  BY CurrentFacts
<1>4. i.rs \in Regs /\ i.rt \in Regs
  <2>1. op \in Known \ (FloatLoadOps \cup FloatStoreOps \cup {"mfc1", "mtc1", "bc1", "c.cond", "syscall"})
    BY <1>1, OpClasses
  <2> QED BY <1>3, <2>1, OperandFacts
<1>5. CASE i.rt = 0
  <2>1. Goes(registers, mem, Following, 0) BY <1>5 DEF Load, Nothing
  <2>2. Correct(registers, mem, Following, 0) BY <1>2, <1>3, <1>4, <1>5, AfterLoad
  <2> QED BY <1>1, <1>2, <2>1, <2>2 DEF Stepped
<1>6. CASE i.rt # 0
  <2>1. Allowed(Place(op), Size(op), "R") /\ Goes(Put(registers, i.rt, LoadValue(op)), mem, Following, 0)
    BY <1>6 DEF Load, Computes
  <2>2. Allowed(Addr, Width(op), "R") BY <1>1, <1>4, <2>1, MayReach
  <2> DEFINE x == LoadValue(op)
  <2>3. x \in Int /\ x = Arch!LoadedValue(i, Current.regs, mem) BY <1>1, <1>4, LoadValueRight
  <2> HIDE DEF x
  <2>4. Put(registers, i.rt, x) \in Registered
        /\ [y \in Regs |-> Put(registers, i.rt, x)[y]] = Arch!Set(Current.regs, i.rt, x)
    BY <1>4, <2>3, SetIsPut
  <2> DEFINE r == Put(registers, i.rt, x)
  <2>5. r \in Registered BY <2>4
  <2>6. [y \in Regs |-> r[y]] = IF i.rt = 0 THEN Current.regs
                                ELSE Arch!Set(Current.regs, i.rt, Arch!LoadedValue(i, Current.regs, mem))
    BY <1>6, <2>3, <2>4
  <2>7. Goes(r, mem, Following, 0) BY <2>1 DEF x
  <2> HIDE DEF r
  <2>8. Correct(r, mem, Following, 0) BY <1>2, <1>4, <2>2, <2>5, <2>6, AfterLoad
  <2> QED BY <1>1, <1>2, <2>7, <2>8 DEF Stepped
<1> QED BY <1>5, <1>6

(* Stores.                                                                 *)
LEMMA Within ==
  ASSUME NEW a \in Int, NEW n \in 0..16, NEW b \in Word
  PROVE  (b \in {U(a + k) : k \in 0..(n - 1)}) <=> U(b - a) < n
<1>1. b \in Int /\ U(b) = b /\ U(b - a) \in Word /\ U(b - a) \in Int /\ U(b - a) >= 0
  <2>1. b \in Int /\ b - a \in Int BY WordFacts
  <2>2. U(b - a) \in Word BY <2>1, UTyped
  <2>3. U(b - a) \in Nat BY <2>1, UTyped
  <2>4. U(b) = b BY WordFacts
  <2> QED BY <2>1, <2>2, <2>3, <2>4
<1>2. ASSUME U(b - a) < n PROVE \E k \in 0..(n - 1) : b = U(a + k)
  <2> DEFINE k == U(b - a)
  <2>1. k \in 0..(n - 1) BY <1>1, <1>2
  <2>2. U(a + U(b - a)) = b
    <3> DEFINE d == b - a
    <3>1. d \in Int /\ d + a = b BY <1>1
    <3> HIDE DEF d
    <3>2. U(a + U(d)) = U(d + a) BY <3>1, UU
    <3> QED BY <1>1, <3>1, <3>2 DEF d
  <2> QED BY <2>1, <2>2
<1>3. ASSUME NEW k \in 0..(n - 1), b = U(a + k) PROVE U(b - a) < n
  <2> DEFINE d == a + k
  <2>1. d \in Int /\ d - a = k BY <1>1
  <2> HIDE DEF d
  <2>2. U(U(d) - a) = U(d - a) BY <2>1, UU
  <2>3. k \in Word BY WFacts DEF Word
  <2>4. U(k) = k BY <2>3, WordFacts
  <2>5. b = U(d) BY <1>3 DEF d
  <2> QED BY <2>1, <2>2, <2>4, <2>5
<1> QED BY <1>2, <1>3

LEMMA SmallDistance ==
  ASSUME NEW x \in (-8)..8
  PROVE  /\ x >= 0 => U(x) = x
         /\ x < 0 => ~(U(x) < 8)
<1>1. Two[W] \in Nat /\ Two[W] >= 16 BY WFacts
<1>2. ASSUME x >= 0 PROVE U(x) = x
  <2>1. x \in Word BY <1>1, <1>2 DEF Word
  <2> QED BY <2>1, WordFacts
<1>3. ASSUME x < 0 PROVE ~(U(x) < 8)
  <2> DEFINE m == Two[W]
             y == m + x
             k == -1
  <2>1. y \in 0..(m - 1) /\ m \in Nat \ {0} /\ k \in Int /\ x \in Int BY <1>1, <1>3
  <2>2. x = k * m + y BY <1>1
  <2>3. ~(y < 8) BY <1>1
  <2> HIDE DEF m, y, k
  <2>4. x % m = y BY <2>1, <2>2, Unique
  <2> QED BY <2>3, <2>4 DEF U, m
<1> QED BY <1>2, <1>3

LEMMA WithBytesTyped ==
  ASSUME NEW m \in Memory, NEW a \in Int, NEW x \in Int, NEW n PROVE WithBytes(m, a, x, n) \in Memory
<1>1. ASSUME NEW b \in Word PROVE ByteOf(x, U(b - a)) \in Byte
  <2>1. b - a \in Int BY WordFacts
  <2>2. U(b - a) \in Nat BY <2>1, UTyped
  <2> QED BY <2>2, ByteTyped
<1> QED BY <1>1 DEF WithBytes, Memory, Address

LEMMA StoredRight ==
  ASSUME IInv, Instruction.op \in StoreOps, Instruction.rs \in Regs, Instruction.rt \in Regs
  PROVE  Stored(Instruction.op) \in Memory /\ Stored(Instruction.op) = Arch!Stored(Instruction, Current.regs, mem)
<1> DEFINE i == Instruction
           op == i.op
           c == Current.regs
           a == Addr
           t == Rt
           mask == a % 4
           p == a - mask
           m == mem
           n == CASE op = "sb" -> 1 [] op = "sh" -> 2 [] OTHER -> 4
           first == IF op = "swl" THEN a - 3 ELSE a
           Hit(b) == U(b - first) < n /\ (op \in {"swl", "swr"} => b \div 4 = a \div 4)
<1>1. mem \in Memory /\ t \in Word /\ c[i.rt] = t /\ a \in Word /\ Arch!Effective(i, c) = a /\ t = registers[i.rt]
  <2>1. registers \in Registered /\ (\A y \in Regs : Current.regs[y] = registers[y]) /\ mem \in Memory
    BY CurrentFacts
  <2> QED BY <2>1, AddrFacts, RegisterFacts DEF Rt, Registered
<1>2. Inside(a, p) /\ mask \in 0..3 /\ a \in Int /\ t \in Int BY <1>1, InWord, WordFacts
<1>3. n \in 1..4 /\ first \in Int /\ first \in {a, a - 3} BY <1>2
<1>4. Arch!Stored(i, c, m) = [b \in Word |-> IF Hit(b) THEN ByteOf(t, U(b - first)) ELSE m[b]]
  <2>1. Arch!Stored(i, c, m) =
         [b \in Word |-> IF b \in {U(first + k) : k \in 0..(n - 1)} /\ (op \in {"swl", "swr"} => b \div 4 = a \div 4)
                         THEN ByteOf(t, U(b - first)) ELSE m[b]]
    <3> HIDE DEF i, c, a, t, m
    <3> QED BY <1>1, ArchWords, ArchBytes DEF Arch!Stored
  <2>2. \A b \in Word : b \in {U(first + k) : k \in 0..(n - 1)} <=> U(b - first) < n
    <3> SUFFICES ASSUME NEW b \in Word PROVE b \in {U(first + k) : k \in 0..(n - 1)} <=> U(b - first) < n OBVIOUS
    <3> HIDE DEF first, n
    <3>1. n \in 0..16 BY <1>3
    <3> QED BY <1>3, <3>1, Within
  <2> HIDE DEF i, c, a, t, m, first, n, p, mask
  <2> QED BY <2>1, <2>2
<1>5. Word = Address BY DEF Address
<1>6. p \in Int /\ p + mask = a BY <1>2 DEF Inside
<1>7. \A j \in Int : ((p + j) \div 4 = a \div 4) <=> j \in 0..3 BY <1>2 DEF Inside
<1>8. CASE op \notin {"swl", "swr"}
  <2>1. Stored(op) = WithBytes(m, a, t, Size(op)) BY <1>8 DEF Stored
  <2>2. Size(op) = n /\ first = a BY <1>8 DEF StoreOps, Size
  <2>3. WithBytes(m, a, t, n) = [b \in Word |-> IF U(b - a) < n THEN ByteOf(t, U(b - a)) ELSE m[b]]
    BY DEF WithBytes
  <2>4. WithBytes(m, a, t, n) \in Memory
    <3> HIDE DEF m, a, t, n
    <3> QED BY <1>1, <1>2, WithBytesTyped DEF m
  <2>5. \A b : Hit(b) <=> U(b - a) < n BY <1>8, <2>2
  <2>6. Stored(op) = Arch!Stored(i, c, m)
    <3> HIDE DEF i, c, a, t, m, first, n, Hit
    <3> QED BY <1>4, <2>1, <2>2, <2>3, <2>5
  <2> QED BY <2>1, <2>2, <2>4, <2>6
<1>9. CASE op = "swl"
  <2>1. Stored(op) = [b \in Word |-> IF b \in p..a THEN ByteOf(t, 3 - (a - b)) ELSE m[b]]
    BY <1>5, <1>9 DEF Stored, Place, Aligned, AlignedOps
  <2>2. n = 4 /\ first = a - 3 /\ op \in {"swl", "swr"} BY <1>9
  <2>3. ASSUME NEW b \in Word
        PROVE  /\ Hit(b) <=> b \in p..a
               /\ b \in p..a => U(b - first) = 3 - (a - b) /\ 3 - (a - b) \in 0..3
    <3> DEFINE j == b - p
               d == b - first
    <3>1. b \in Int /\ j \in Int /\ b = p + j /\ d = j - mask + 3
      <4>1. b \in Int /\ mask \in Int /\ a \in Int BY <1>2, WordFacts
      <4>2. d = b - (a - 3) BY <2>2
      <4> HIDE DEF p, mask, a, d
      <4> QED BY <1>6, <4>1, <4>2
    <3>2. (b \div 4 = a \div 4) <=> j \in 0..3 BY <1>7, <3>1
    <3>3. ASSUME j \in 0..3 PROVE U(d) = d /\ d \in Int
      <4>1. d \in (-8)..8 /\ d >= 0 BY <1>2, <3>1, <3>3
      <4> HIDE DEF d
      <4> QED BY <4>1, SmallDistance
    <3>4. b \in p..a <=> j \in 0..3 /\ d < 4 BY <1>2, <1>6, <3>1
    <3>5. Hit(b) <=> U(d) < 4 /\ (b \div 4 = a \div 4) BY <2>2
    <3> HIDE DEF Hit
    <3>6. Hit(b) <=> b \in p..a
      <4> HIDE DEF j, d
      <4> QED BY <3>2, <3>3, <3>4, <3>5
    <3>7. b \in p..a => U(b - first) = 3 - (a - b) /\ 3 - (a - b) \in 0..3
      <4> SUFFICES ASSUME b \in p..a PROVE U(b - first) = 3 - (a - b) /\ 3 - (a - b) \in 0..3 OBVIOUS
      <4>1. U(d) = d /\ j \in 0..3 BY <3>3, <3>4
      <4>3. a \in Int /\ mask \in 0..3 BY <1>2
      <4> HIDE DEF p, mask, a, d, j
      <4>4. d < 4 BY <3>4
      <4>5. p \in Int /\ mask \in Int /\ a = p + mask /\ mask <= 3 BY <1>6, <4>3
      <4>6. d = 3 - (a - b) BY <3>1, <4>5
      <4>7. d >= 0 /\ d \in Int BY <3>1, <4>1, <4>5
      <4>2. d = 3 - (a - b) /\ d \in 0..3 BY <4>4, <4>6, <4>7
      <4> QED BY <4>1, <4>2 DEF d
    <3> QED BY <3>6, <3>7
  <2> HIDE DEF i, c, a, t, m, first, n, Hit, p, mask
  <2>4. Stored(op) = Arch!Stored(i, c, m)
    <3>1. \A b \in Word : (IF b \in p..a THEN ByteOf(t, 3 - (a - b)) ELSE m[b])
                        = (IF Hit(b) THEN ByteOf(t, U(b - first)) ELSE m[b])
      BY <2>3
    <3> QED BY <1>4, <2>1, <3>1
  <2>5. Stored(op) \in Memory
    <3>1. ASSUME NEW b \in Word PROVE (IF b \in p..a THEN ByteOf(t, 3 - (a - b)) ELSE m[b]) \in Byte
      <4>1. ASSUME b \in p..a PROVE ByteOf(t, 3 - (a - b)) \in Byte
        <5>1. 3 - (a - b) \in Nat BY <2>3, <4>1
        <5> QED BY <1>2, <5>1, ByteTyped
      <4>2. m[b] \in Byte BY <1>1, <1>5 DEF m, Memory
      <4> QED BY <4>1, <4>2
    <3> QED BY <1>5, <2>1, <3>1 DEF Memory
  <2> QED BY <2>4, <2>5 DEF i, c, m
<1>10. CASE op = "swr"
  <2>1. Stored(op) = [b \in Word |-> IF b \in a..(p + 3) THEN ByteOf(t, b - a) ELSE m[b]]
    BY <1>5, <1>10 DEF Stored, Place, Aligned, AlignedOps
  <2>2. n = 4 /\ first = a /\ op \in {"swl", "swr"} BY <1>10
  <2>3. ASSUME NEW b \in Word
        PROVE  /\ Hit(b) <=> b \in a..(p + 3)
               /\ b \in a..(p + 3) => U(b - first) = b - a /\ b - a \in 0..3
    <3> DEFINE j == b - p
               d == b - first
    <3>1. b \in Int /\ j \in Int /\ b = p + j /\ d = j - mask /\ d = b - a
      <4>1. b \in Int /\ mask \in Int /\ a \in Int BY <1>2, WordFacts
      <4>2. d = b - a BY <2>2
      <4> HIDE DEF p, mask, a, d
      <4> QED BY <1>6, <4>1, <4>2
    <3>2. (b \div 4 = a \div 4) <=> j \in 0..3 BY <1>7, <3>1
    <3>3. ASSUME j \in 0..3 PROVE /\ d \in Int /\ (d >= 0 => U(d) = d) /\ (d < 0 => ~(U(d) < 4))
      <4>1. d \in (-8)..8 BY <1>2, <3>1, <3>3
      <4> HIDE DEF d
      <4>2. (d >= 0 => U(d) = d) /\ (d < 0 => ~(U(d) < 8)) /\ d \in Int BY <4>1, SmallDistance
      <4>3. U(d) \in Int
        <5>1. U(d) \in Word BY <4>1, UTyped
        <5> QED BY <5>1, WordFacts
      <4> QED BY <4>2, <4>3
    <3>4. b \in a..(p + 3) <=> j \in 0..3 /\ d >= 0 BY <1>2, <1>6, <3>1
    <3>5. Hit(b) <=> U(d) < 4 /\ (b \div 4 = a \div 4) BY <2>2
    <3>6. j \in 0..3 => d < 4 BY <1>2, <3>1
    <3> HIDE DEF Hit
    <3>7. Hit(b) <=> b \in a..(p + 3)
      <4> HIDE DEF j, d
      <4> QED BY <3>2, <3>3, <3>4, <3>5, <3>6
    <3>8. b \in a..(p + 3) => U(b - first) = b - a /\ b - a \in 0..3 BY <3>1, <3>3, <3>4, <3>6
    <3> QED BY <3>7, <3>8
  <2> HIDE DEF i, c, a, t, m, first, n, Hit, p, mask
  <2>4. Stored(op) = Arch!Stored(i, c, m)
    <3>1. \A b \in Word : (IF b \in a..(p + 3) THEN ByteOf(t, b - a) ELSE m[b])
                        = (IF Hit(b) THEN ByteOf(t, U(b - first)) ELSE m[b])
      BY <2>3
    <3> QED BY <1>4, <2>1, <3>1
  <2>5. Stored(op) \in Memory
    <3>1. ASSUME NEW b \in Word PROVE (IF b \in a..(p + 3) THEN ByteOf(t, b - a) ELSE m[b]) \in Byte
      <4>1. ASSUME b \in a..(p + 3) PROVE ByteOf(t, b - a) \in Byte
        <5>1. b - a \in Nat BY <2>3, <4>1
        <5> QED BY <1>2, <5>1, ByteTyped
      <4>2. m[b] \in Byte BY <1>1, <1>5 DEF m, Memory
      <4> QED BY <4>1, <4>2
    <3> QED BY <1>5, <2>1, <3>1 DEF Memory
  <2> QED BY <2>4, <2>5 DEF i, c, m
<1> QED BY <1>8, <1>9, <1>10

LEMMA AfterStore ==
  ASSUME IInv, Instruction.op \in Arch!Stores, Instruction.rs \in Regs,
         Allowed(Addr, Width(Instruction.op), "W"),
         NEW r \in Registered, NEW m \in Memory, m = Arch!Stored(Instruction, Current.regs, mem),
         [y \in Regs |-> r[y]] =
           IF Instruction.op = "sc" THEN Arch!Set(Current.regs, Instruction.rt, 1) ELSE Current.regs
  PROVE  Correct(r, m, Following, 0)
<1> DEFINE i == Instruction
           c == Current
           f == Following
           next == U(f + 4)
           rr == [y \in Regs |-> r[y]]
<1>0. /\ mem \in Memory /\ f \in Word /\ c.mem = mem /\ c.pc = pc /\ c.npc = f /\ Arch!Current(c) = i
  BY CurrentFacts
<1>1. Arch!Current(c) = i BY <1>0
<1>2. i.op \notin Arch!Branches /\ i.op # "bc1" /\ i.op \notin Arch!FloatLoads /\ i.op \notin Arch!FloatStores
      /\ i.op \notin Arch!Jumps /\ i.op \notin Arch!Loads /\ i.op \in Arch!Stores
  BY DEF Arch!Branches, Arch!Likely, Arch!FloatLoads, Arch!FloatStores, Arch!Jumps, Arch!Loads, Arch!Stores
<1>3. U(next) = next
  <2>1. f + 4 \in Int BY <1>0, WordFacts
  <2> QED BY <2>1, UU
<1>4. Arch!May(Addr, Width(i.op), "W") BY MayAllowed
<1>5. Arch!Effective(i, c.regs) = Addr BY AddrFacts
<1>6. rr = (IF i.op = "sc" THEN Arch!Set(c.regs, i.rt, 1) ELSE c.regs) /\ m = Arch!Stored(i, c.regs, mem)
  OBVIOUS
<1>7. [regs |-> rr, mem |-> m, pc |-> f, npc |-> next] \in Arch!After(c)
  <2> HIDE DEF i, c, f, rr
  <2>1. Arch!After(c) =
          {[regs |-> rr, mem |-> m, pc |-> f, npc |-> U(next)] :
             ok \in {x \in {TRUE} : Arch!May(Addr, Width(i.op), "W")}}
    BY <1>0, <1>1, <1>2, <1>5, <1>6, ArchWords, ZenonT(60) DEF Arch!After, Width
  <2> QED BY <1>3, <1>4, <2>1
<1>8. Cpu(r, m, f, 0) = [regs |-> rr, mem |-> m, pc |-> f, npc |-> next] BY DEF Cpu, Next4
<1>9. Cpu(r, m, f, 0) \in Arch!After(c) BY <1>7, <1>8
<1> QED BY <1>0, <1>9, WordFacts DEF Correct

LEMMA StoresRight == ASSUME IInv, Store PROVE Stepped
<1> DEFINE i == Instruction
           op == i.op
           m == Stored(op)
<1>1. Fetched /\ op \in StoreOps BY DEF Store, Is
<1>2. op \in Arch!Stores /\ op # "syscall" BY <1>1 DEF StoreOps, Arch!Stores
<1>3. IsInstruction(i) /\ registers \in Registered /\ mem \in Memory /\ Following \in Word
      /\ Current.regs = [y \in Regs |-> registers[y]]
  BY CurrentFacts
<1>4. i.rs \in Regs /\ i.rt \in Regs
  <2>1. op \in Known \ (FloatLoadOps \cup FloatStoreOps \cup {"mfc1", "mtc1", "bc1", "c.cond", "syscall"})
    BY <1>1, OpClasses
  <2> QED BY <1>3, <2>1, OperandFacts
<1>5. m \in Memory /\ m = Arch!Stored(i, Current.regs, mem) BY <1>1, <1>4, StoredRight
<1>6. Allowed(Addr, Width(op), "W")
  <2>1. Allowed(Place(op), Size(op), "W") BY DEF Store
  <2> QED BY <1>1, <1>4, <2>1, MayReach
<1> DEFINE r == IF op = "sc" THEN Put(registers, i.rt, 1) ELSE registers
<1>7. Goes(r, m, Following, 0) BY DEF Store
<1>8. r \in Registered
      /\ [y \in Regs |-> r[y]] = IF op = "sc" THEN Arch!Set(Current.regs, i.rt, 1) ELSE Current.regs
  <2> DEFINE o == 1
  <2>1. o \in Int OBVIOUS
  <2> HIDE DEF o
  <2>2. Put(registers, i.rt, o) \in Registered
        /\ [y \in Regs |-> Put(registers, i.rt, o)[y]] = Arch!Set(Current.regs, i.rt, o)
    BY <1>4, <2>1, SetIsPut
  <2> QED BY <1>3, <2>2 DEF o
<1> HIDE DEF r, m
<1>9. Correct(r, m, Following, 0) BY <1>2, <1>4, <1>5, <1>6, <1>8, AfterStore
<1> QED BY <1>1, <1>2, <1>7, <1>9 DEF Stepped

(* Registers for floating point, of one word or of two.                    *)
FloatFacts(i) ==
  /\ i.rs \in Regs /\ F(i.rt) \in Regs \ {0} /\ F(i.rt) = 32 + i.rt /\ i.rt \in 0..31
  /\ i.op \in {"ldc1", "sdc1"} => F(i.rt + 1) \in Regs \ {0} /\ F(i.rt) # F(i.rt + 1)
LEMMA FloatRegisters ==
  ASSUME NEW i, IsInstruction(i), i.op \in FloatLoadOps \cup FloatStoreOps PROVE FloatFacts(i)
<1>1. /\ i.rs \in Regs /\ F(i.rt) \in Regs /\ (FloatSize(i.op) = 8 => F(i.rt + 1) \in Regs)
      /\ i.rt \in 0..31
  BY OperandFacts
<1>2. F(i.rt) = 32 + i.rt /\ F(i.rt + 1) = 32 + (i.rt + 1) BY DEF F
<1>3. F(i.rt) # 0 /\ F(i.rt + 1) # 0 /\ F(i.rt) # F(i.rt + 1) BY <1>1, <1>2
<1>4. i.op \in {"ldc1", "sdc1"} => FloatSize(i.op) = 8 BY DEF FloatSize
<1> QED BY <1>1, <1>2, <1>3, <1>4 DEF FloatFacts

LEMMA ArchCardinality == \A S : Arch!Cardinality(S) = Cardinality(S)
BY DEF Arch!Cardinality, Cardinality
LEMMA FloatCounts ==
  ASSUME NEW i, i.op \in FloatLoadOps \cup FloatStoreOps
  PROVE  4 * Cardinality(Arch!FloatWords(i)) = FloatSize(i.op)
<1>1. CASE i.op \in {"ldc1", "sdc1"}
  <2>1. Arch!FloatWords(i) = 0..1 /\ FloatSize(i.op) = 8 BY <1>1 DEF Arch!FloatWords, FloatSize
  <2>2. Cardinality(0..1) = 2
    <3> DEFINE m == 0
               n == 1
    <3>1. m \in Int /\ n \in Int /\ m <= n OBVIOUS
    <3> HIDE DEF m, n
    <3>2. Cardinality(m..n) = IF m > n THEN 0 ELSE n - m + 1 BY <3>1, FS_Interval
    <3>3. Cardinality(m..n) = n - m + 1 BY <3>1, <3>2
    <3> QED BY <3>3 DEF m, n
  <2> QED BY <2>1, <2>2
<1>2. CASE i.op \notin {"ldc1", "sdc1"}
  <2>1. Arch!FloatWords(i) = {0} /\ FloatSize(i.op) = 4 BY <1>2 DEF Arch!FloatWords, FloatSize
  <2>2. Cardinality({0}) = 1 BY FS_Singleton
  <2> QED BY <2>1, <2>2
<1> QED BY <1>1, <1>2

LEMMA AfterFloat ==
  ASSUME IInv, NEW r \in Registered, NEW m \in Memory, Instruction.rs \in Regs,
         \/ /\ Instruction.op \in Arch!FloatLoads /\ Allowed(Addr, FloatSize(Instruction.op), "R")
            /\ [y \in Regs |-> r[y]] = Arch!Updated(Current.regs, Arch!FloatsLoaded(Instruction, Current.regs, mem))
            /\ m = mem
         \/ /\ Instruction.op \in Arch!FloatStores /\ Allowed(Addr, FloatSize(Instruction.op), "W")
            /\ [y \in Regs |-> r[y]] = Current.regs
            /\ m = Arch!FloatsStored(Instruction, Current.regs, mem)
  PROVE  Correct(r, m, Following, 0)
<1> DEFINE i == Instruction
           c == Current
           f == Following
           next == U(f + 4)
           rr == [y \in Regs |-> r[y]]
<1>0. /\ mem \in Memory /\ f \in Word /\ c.mem = mem /\ c.pc = pc /\ c.npc = f /\ Arch!Current(c) = i
  BY CurrentFacts
<1>1. Arch!Current(c) = i BY <1>0
<1>2. i.op \in FloatLoadOps \cup FloatStoreOps /\ i.op \notin Arch!Branches /\ i.op # "bc1"
      /\ (i.op \in Arch!FloatStores => i.op \notin Arch!FloatLoads)
  BY DEF Arch!Branches, Arch!Likely, Arch!FloatLoads, Arch!FloatStores, FloatLoadOps, FloatStoreOps
<1>3. U(next) = next
  <2>1. f + 4 \in Int BY <1>0, WordFacts
  <2> QED BY <2>1, UU
<1>4. 4 * Cardinality(Arch!FloatWords(i)) = FloatSize(i.op) BY <1>2, FloatCounts
<1>5. Arch!Effective(i, c.regs) = Addr BY AddrFacts
<1>6. [regs |-> rr, mem |-> m, pc |-> f, npc |-> next] \in Arch!After(c)
  <2>1. CASE i.op \in Arch!FloatLoads
    <3>1. /\ Arch!May(Addr, FloatSize(i.op), "R")
          /\ rr = Arch!Updated(c.regs, Arch!FloatsLoaded(i, c.regs, mem)) /\ m = mem
      BY <1>2, <2>1, MayAllowed
    <3> HIDE DEF i, c, f, rr
    <3>2. Arch!After(c) =
            {[regs |-> rr, mem |-> m, pc |-> f, npc |-> U(next)] :
               ok \in {x \in {TRUE} : Arch!May(Addr, 4 * Cardinality(Arch!FloatWords(i)), "R")}}
      BY <1>0, <1>1, <1>2, <1>5, <2>1, <3>1, ArchWords, ArchCardinality DEF Arch!After
    <3>3. Arch!May(Addr, 4 * Cardinality(Arch!FloatWords(i)), "R") BY <1>4, <3>1
    <3> QED BY <1>3, <3>2, <3>3
  <2>2. CASE i.op \in Arch!FloatStores
    <3>1. /\ Arch!May(Addr, FloatSize(i.op), "W")
          /\ rr = c.regs /\ m = Arch!FloatsStored(i, c.regs, mem)
      BY <1>2, <2>2, MayAllowed
    <3> HIDE DEF i, c, f, rr
    <3>2. Arch!After(c) =
            {[regs |-> rr, mem |-> m, pc |-> f, npc |-> U(next)] :
               ok \in {x \in {TRUE} : Arch!May(Addr, 4 * Cardinality(Arch!FloatWords(i)), "W")}}
      BY <1>0, <1>1, <1>2, <1>5, <2>2, <3>1, ArchWords, ArchCardinality DEF Arch!After
    <3>3. Arch!May(Addr, 4 * Cardinality(Arch!FloatWords(i)), "W") BY <1>4, <3>1
    <3> QED BY <1>3, <3>2, <3>3
  <2> QED BY <2>1, <2>2
<1>8. Cpu(r, m, f, 0) = [regs |-> rr, mem |-> m, pc |-> f, npc |-> next] BY DEF Cpu, Next4
<1>9. Cpu(r, m, f, 0) \in Arch!After(c) BY <1>6, <1>8
<1> QED BY <1>0, <1>9, WordFacts DEF Correct

LEMMA TakenWord == ASSUME NEW m \in Memory, NEW a \in Int PROVE Arch!Joined(Arch!Taking(m, Arch!U(a), 4)) = WordAt(m, U(a))
<1> DEFINE w == U(a)
<1>1. w \in Word BY UTyped
<1>2. Arch!U(a) = w BY ArchWords
<1> HIDE DEF w
<1>3. w \in Int BY <1>1, WordFacts
<1>4. Joined(Arch!Taking(m, w, 4)) = WordAt(m, w) BY <1>3, TakingFacts
<1> QED BY <1>2, <1>4, ArchBytes DEF w

LEMMA FloatLoadRight == ASSUME IInv, FloatLoad PROVE Stepped
<1> DEFINE i == Instruction
           op == i.op
           c == Current.regs
           a == Addr
           d == F(i.rt)
           e == F(i.rt + 1)
           v == WordAt(mem, a)
           w == WordAt(mem, U(a + 4))
           values == Arch!FloatsLoaded(i, c, mem)
<1>1. Fetched /\ op \in FloatLoadOps BY DEF FloatLoad, Is
<1>2. op \in Arch!FloatLoads /\ op # "syscall" BY <1>1 DEF FloatLoadOps, Arch!FloatLoads
<1>3. IsInstruction(i) /\ registers \in Registered /\ mem \in Memory /\ Following \in Word BY CurrentFacts
<1>4. FloatFacts(i) BY <1>1, <1>3, FloatRegisters
<1>5. i.rs \in Regs /\ d \in Regs \ {0} /\ d = 32 + i.rt /\ i.rt \in 0..31 /\ e = 32 + (i.rt + 1)
      /\ (op = "ldc1" => e \in Regs \ {0} /\ d # e)
  BY <1>4 DEF FloatFacts, F
<1>6. a \in Word /\ Arch!Effective(i, c) = a /\ a \in Int /\ U(a) = a /\ a + 4 \in Int
  <2>1. a \in Word /\ Arch!Effective(i, c) = a BY <1>5, AddrFacts
  <2> QED BY <2>1, WordFacts
<1>7. v \in Word /\ w \in Word /\ U(v) = v /\ U(w) = w /\ v \in Int
  <2>1. v \in Word BY <1>3, <1>6, WordAtTyped
  <2>2. U(a + 4) \in Int
    <3>1. U(a + 4) \in Word BY <1>6, UTyped
    <3> QED BY <3>1, WordFacts
  <2>3. w \in Word BY <1>3, <2>2, WordAtTyped
  <2> QED BY <2>1, <2>3, WordFacts
<1>8. Arch!Joined(Arch!Taking(mem, Arch!U(a + 4 * 0), 4)) = v /\ Arch!Joined(Arch!Taking(mem, Arch!U(a + 4 * 1), 4)) = w
  <2>1. a + 4 * 0 = a /\ a + 4 * 1 = a + 4 BY <1>6
  <2> DEFINE x == a + 4
  <2>2. x \in Int BY <1>6
  <2> HIDE DEF x, a
  <2>3. Arch!Joined(Arch!Taking(mem, Arch!U(a), 4)) = WordAt(mem, U(a)) BY <1>3, <1>6, TakenWord
  <2>4. Arch!Joined(Arch!Taking(mem, Arch!U(x), 4)) = WordAt(mem, U(x)) BY <1>3, <2>2, TakenWord
  <2> QED BY <1>6, <2>1, <2>3, <2>4 DEF x
<1>9. Allowed(a, FloatSize(op), "R")
      /\ Goes(IF op = "lwc1" THEN [registers EXCEPT ![d] = v] ELSE [[registers EXCEPT ![d] = v] EXCEPT ![e] = w],
              mem, Following, 0)
  BY DEF FloatLoad
<1>10. values = {<<32 + i.rt + k, Arch!Joined(Arch!Taking(mem, Arch!U(a + 4 * k), 4))>> : k \in Arch!FloatWords(i)}
  BY <1>6 DEF Arch!FloatsLoaded
<1>11. Arch!Updated(c, values) = [y \in Regs |-> Arch!Updated(c, values)[y]] BY DEF Arch!Updated, Regs
<1>12. CASE op = "lwc1"
  <2>1. values = {<<d, v>>}
    <3>1. Arch!FloatWords(i) = {0} BY <1>12 DEF Arch!FloatWords
    <3>2. values = {<<32 + i.rt + 0, Arch!Joined(Arch!Taking(mem, Arch!U(a + 4 * 0), 4))>>} BY <1>10, <3>1
    <3>3. 32 + i.rt + 0 = d BY <1>5
    <3> QED BY <1>8, <3>2, <3>3
  <2> DEFINE r == Put(registers, d, v)
  <2>2. r = [registers EXCEPT ![d] = v] BY <1>5, <1>7 DEF Put
  <2>3. r \in Registered /\ \A y \in Regs : r[y] = Arch!Updated(c, {<<d, v>>})[y]
    <3> HIDE DEF d, v, c
    <3> QED BY <1>5, <1>7, UpdatedOne DEF c
  <2>4. Goes(r, mem, Following, 0) BY <1>9, <1>12, <2>2
  <2> HIDE DEF r, values
  <2>5. [y \in Regs |-> r[y]] = Arch!Updated(c, values) BY <1>11, <2>1, <2>3
  <2>6. Correct(r, mem, Following, 0) BY <1>2, <1>3, <1>5, <1>9, <2>3, <2>5, AfterFloat DEF values
  <2> QED BY <1>1, <1>2, <2>4, <2>6 DEF Stepped
<1>13. CASE op = "ldc1"
  <2>1. values = {<<d, v>>, <<e, w>>}
    <3>1. Arch!FloatWords(i) = {0, 1}
      <4>1. Arch!FloatWords(i) = 0..1 BY <1>13 DEF Arch!FloatWords
      <4> QED BY <4>1
    <3>2. values = {<<32 + i.rt + 0, Arch!Joined(Arch!Taking(mem, Arch!U(a + 4 * 0), 4))>>,
                    <<32 + i.rt + 1, Arch!Joined(Arch!Taking(mem, Arch!U(a + 4 * 1), 4))>>}
      BY <1>10, <3>1
    <3>3. 32 + i.rt + 0 = d /\ 32 + i.rt + 1 = e BY <1>5
    <3> QED BY <1>8, <3>2, <3>3
  <2> DEFINE r == [registers EXCEPT ![d] = v, ![e] = w]
  <2>2. Goes(r, mem, Following, 0) BY <1>9, <1>13
  <2>3. r \in Registered /\ \A y \in Regs : r[y] = Arch!Updated(c, values)[y]
    <3>1. TwoSet(r, d, e, v, w) /\ TwoValues(values, d, e, v, w) BY <2>1 DEF TwoSet, TwoValues
    <3>2. d \in Regs \ {0} /\ e \in Regs \ {0} /\ d # e BY <1>5, <1>13
    <3> HIDE DEF r, d, e, v, w, values, c
    <3> QED BY <1>7, <3>1, <3>2, UpdatedTwo DEF c
  <2> HIDE DEF r, values
  <2>5. [y \in Regs |-> r[y]] = Arch!Updated(c, values) BY <1>11, <2>3
  <2>6. Correct(r, mem, Following, 0) BY <1>2, <1>3, <1>5, <1>9, <2>3, <2>5, AfterFloat DEF values
  <2> QED BY <1>1, <1>2, <2>2, <2>6 DEF Stepped
<1> QED BY <1>1, <1>12, <1>13 DEF FloatLoadOps

LEMMA NextWord ==
  ASSUME NEW a \in Int, NEW b \in Word
  PROVE  /\ U(b - a) \in Nat /\ U(b - a) < Two[W]
         /\ U(b - U(a + 4)) \in Nat
         /\ U(b - a) >= 4 => U(b - U(a + 4)) = U(b - a) - 4
         /\ U(b - a) < 4 => ~(U(b - U(a + 4)) < 8)
<1> DEFINE d == b - a
           x == U(d)
           y == x - 4
           e == a + 4
<1>1. d \in Int /\ e \in Int /\ b \in Int /\ b - e = d - 4
  <2>1. b \in Int BY WordFacts
  <2> QED BY <2>1
<1>2. x \in Word /\ x \in Nat
  <2> HIDE DEF d
  <2> QED BY <1>1, UTyped
<1>3. U(b - U(e)) = U(y)
  <2> DEFINE o == 4
  <2>1. o \in Int /\ b - e = d - o BY <1>1
  <2> HIDE DEF d, e, o
  <2>2. U(b - U(e)) = U(b - e) BY <1>1, UU
  <2>3. U(U(d) - o) = U(d - o) BY <1>1, <2>1, UU
  <2> QED BY <2>1, <2>2, <2>3 DEF o
<1> HIDE DEF x
<1>4. y \in Int /\ Two[W] \in Nat /\ x < Two[W] BY <1>2, WFacts DEF Word
<1>5. U(y) \in Nat
  <2> HIDE DEF y
  <2> QED BY <1>4, UTyped
<1>6. ASSUME x >= 4 PROVE U(y) = y
  <2>1. y \in Word BY <1>2, <1>4, <1>6 DEF Word
  <2> QED BY <2>1, WordFacts
<1>7. ASSUME x < 4 PROVE ~(U(y) < 8)
  <2>1. y \in (-8)..8 /\ y < 0 BY <1>2, <1>7
  <2> HIDE DEF y
  <2> QED BY <2>1, SmallDistance
<1> QED BY <1>2, <1>3, <1>4, <1>5, <1>6, <1>7 DEF x, d, e

LEMMA FloatStoredRight ==
  ASSUME IInv, Instruction.op \in FloatStoreOps
  PROVE  FloatStored \in Memory /\ FloatStored = Arch!FloatsStored(Instruction, Current.regs, mem)
<1> DEFINE i == Instruction
           op == i.op
           c == Current.regs
           a == Addr
           a4 == U(a + 4)
           d == F(i.rt)
           e == F(i.rt + 1)
           x == registers[d]
           y == registers[e]
           first == WithBytes(mem, a, x, 4)
           m == mem
<1>3. IsInstruction(i) /\ registers \in Registered /\ mem \in Memory /\ \A z \in Regs : c[z] = registers[z]
  BY CurrentFacts
<1>4. FloatFacts(i) BY <1>3, FloatRegisters
<1>5. i.rs \in Regs /\ d \in Regs /\ d = 32 + i.rt /\ i.rt \in 0..31 /\ e = 32 + (i.rt + 1)
      /\ (op = "sdc1" => e \in Regs)
  BY <1>4 DEF FloatFacts, F
<1>6. a \in Word /\ Arch!Effective(i, c) = a /\ a \in Int /\ a4 \in Int
  <2>1. a \in Word /\ Arch!Effective(i, c) = a BY <1>5, AddrFacts
  <2>2. a \in Int /\ a + 4 \in Int BY <2>1, WordFacts
  <2>3. a4 \in Word BY <2>2, UTyped
  <2> QED BY <2>1, <2>2, <2>3, WordFacts
<1>7. x \in Int /\ (op = "sdc1" => y \in Int)
  <2>1. x \in Word /\ (op = "sdc1" => y \in Word) BY <1>3, <1>5, RegisterFacts DEF Registered
  <2> QED BY <2>1, WordFacts
<1>8. first \in Memory
  <2> HIDE DEF a, x
  <2> QED BY <1>3, <1>6, <1>7, WithBytesTyped
<1>9. \A b \in Word : first[b] = IF U(b - a) < 4 THEN ByteOf(x, U(b - a)) ELSE m[b] BY DEF WithBytes
<1>10. Arch!FloatsStored(i, c, m) =
         [b \in Word |-> IF U(b - a) \div 4 \in Arch!FloatWords(i)
                         THEN ByteOf(c[32 + i.rt + (U(b - a) \div 4)], U(b - a) % 4) ELSE m[b]]
  <2> HIDE DEF i, c, a, m
  <2> QED BY <1>6, ArchWords, ArchBytes DEF Arch!FloatsStored
<1>11. c[32 + i.rt + 0] = x /\ (op = "sdc1" => c[32 + i.rt + 1] = y)
  <2>1. 32 + i.rt + 0 = d /\ 32 + i.rt + 1 = e BY <1>5
  <2> QED BY <1>3, <1>5, <2>1
<1>12. op \in {"swc1", "sdc1"} BY DEF FloatStoreOps
<1>13. FloatStored = IF op = "swc1" THEN first ELSE WithBytes(first, a4, y, 4) BY DEF FloatStored
<1>14. \A b \in Word : /\ U(b - a) \in Nat /\ U(b - a4) \in Nat
                       /\ U(b - a) >= 4 => U(b - a4) = U(b - a) - 4
                       /\ U(b - a) < 4 => ~(U(b - a4) < 8)
  <2> SUFFICES ASSUME NEW b \in Word
               PROVE  /\ U(b - a) \in Nat /\ U(b - a4) \in Nat
                      /\ U(b - a) >= 4 => U(b - a4) = U(b - a) - 4
                      /\ U(b - a) < 4 => ~(U(b - a4) < 8)
    OBVIOUS
  <2> HIDE DEF a
  <2> QED BY <1>6, NextWord
<1>15. CASE op = "swc1"
  <2>1. Arch!FloatWords(i) = {0} BY <1>15 DEF Arch!FloatWords
  <2>2. FloatStored = first /\ first = [b \in Word |-> IF U(b - a) < 4 THEN ByteOf(x, U(b - a)) ELSE m[b]]
    BY <1>13, <1>15 DEF WithBytes
  <2> HIDE DEF i, c, a, m, x, first
  <2>3. ASSUME NEW b \in Word
        PROVE  (IF U(b - a) \div 4 \in {0} THEN ByteOf(c[32 + i.rt + (U(b - a) \div 4)], U(b - a) % 4) ELSE m[b])
                 = (IF U(b - a) < 4 THEN ByteOf(x, U(b - a)) ELSE m[b])
    <3> DEFINE at == U(b - a)
    <3>1. at \in Nat BY <1>14
    <3> HIDE DEF at
    <3>2. (at \div 4 \in {0}) <=> at < 4 BY <3>1
    <3>3. at < 4 => at \div 4 = 0 /\ at % 4 = at BY <3>1
    <3>4. (IF at \div 4 \in {0} THEN ByteOf(c[32 + i.rt + (at \div 4)], at % 4) ELSE m[b])
             = (IF at < 4 THEN ByteOf(x, at) ELSE m[b])
      BY <1>11, <3>2, <3>3
    <3> QED BY <3>4 DEF at
  <2>4. FloatStored = Arch!FloatsStored(i, c, m) BY <1>10, <2>1, <2>2, <2>3
  <2> QED BY <1>8, <2>2, <2>4 DEF i, c, m
<1>16. CASE op = "sdc1"
  <2>1. Arch!FloatWords(i) = 0..1 BY <1>16 DEF Arch!FloatWords
  <2>2. FloatStored = WithBytes(first, a4, y, 4) BY <1>13, <1>16
  <2>3. WithBytes(first, a4, y, 4) = [b \in Word |-> IF U(b - a4) < 4 THEN ByteOf(y, U(b - a4)) ELSE first[b]]
    BY DEF WithBytes
  <2>4. WithBytes(first, a4, y, 4) \in Memory
    <3> HIDE DEF first, a4, y
    <3> QED BY <1>6, <1>7, <1>8, <1>16, WithBytesTyped
  <2> HIDE DEF i, c, a, m, x, y, first, a4
  <2>5. ASSUME NEW b \in Word
        PROVE  (IF U(b - a) \div 4 \in 0..1 THEN ByteOf(c[32 + i.rt + (U(b - a) \div 4)], U(b - a) % 4) ELSE m[b])
                 = (IF U(b - a4) < 4 THEN ByteOf(y, U(b - a4)) ELSE first[b])
    <3> DEFINE at == U(b - a)
               al == U(b - a4)
    <3>1. /\ at \in Nat /\ al \in Nat
          /\ at >= 4 => al = at - 4
          /\ at < 4 => ~(al < 8)
      BY <1>14
    <3>2. first[b] = IF at < 4 THEN ByteOf(x, at) ELSE m[b] BY <1>9
    <3> HIDE DEF at, al
    <3>3. CASE at < 4
      <4>1. at \div 4 = 0 /\ at % 4 = at /\ ~(al < 4) /\ at \div 4 \in 0..1 BY <3>1, <3>3
      <4> QED BY <1>11, <3>2, <3>3, <4>1 DEF at, al
    <3>4. CASE at >= 4 /\ at < 8
      <4>1. at \div 4 = 1 /\ at % 4 = al /\ al < 4 /\ at \div 4 \in 0..1 BY <3>1, <3>4
      <4> QED BY <1>11, <1>16, <4>1 DEF at, al
    <3>5. CASE at >= 8
      <4>1. ~(at < 4) /\ ~(al < 4) /\ at \div 4 \notin 0..1 BY <3>1, <3>5
      <4> QED BY <3>2, <4>1 DEF at, al
    <3> QED BY <3>1, <3>3, <3>4, <3>5
  <2>6. FloatStored = Arch!FloatsStored(i, c, m) BY <1>10, <2>1, <2>2, <2>3, <2>5
  <2> QED BY <2>2, <2>4, <2>6 DEF i, c, m
<1> QED BY <1>12, <1>15, <1>16

LEMMA FloatStoreRight == ASSUME IInv, FloatStore PROVE Stepped
<1> DEFINE i == Instruction
           op == i.op
           m == FloatStored
<1>1. Fetched /\ op \in FloatStoreOps /\ Allowed(Addr, FloatSize(op), "W") /\ Goes(registers, m, Following, 0)
  BY DEF FloatStore, Is
<1>2. op \in Arch!FloatStores /\ op # "syscall" BY <1>1 DEF FloatStoreOps, Arch!FloatStores
<1>3. IsInstruction(i) /\ registers \in Registered /\ Current.regs = [y \in Regs |-> registers[y]] BY CurrentFacts
<1>4. i.rs \in Regs
  <2>1. FloatFacts(i) BY <1>1, <1>3, FloatRegisters
  <2> QED BY <2>1 DEF FloatFacts
<1>5. m \in Memory /\ m = Arch!FloatsStored(i, Current.regs, mem) BY <1>1, FloatStoredRight
<1> HIDE DEF m
<1>6. Correct(registers, m, Following, 0) BY <1>1, <1>2, <1>3, <1>4, <1>5, AfterFloat
<1> QED BY <1>1, <1>2, <1>6 DEF Stepped

(* What any instruction but a call does is what the architecture may do.   *)
LEMMA ExecuteRight == ASSUME IInv, Execute PROVE Stepped
BY ArithmeticRight, MultiplyDivideRight, MoveHighLowRight, BranchRight, JumpRight, LoadsRight, StoresRight,
   PassesRight, FloatLoadRight, FloatStoreRight, FloatMoveRight, CompareRight, FloatBranchRight DEF Execute

(* Signals.                                                                *)
LEMMA FrameTyped ==
  ASSUME NEW r \in Registered
  PROVE  /\ FrameAt(r) \in Word /\ Trampoline \in Word /\ Len(SavedOrder) \in Nat
         /\ DOMAIN SavedOrder = 1..Len(SavedOrder) /\ \A k \in DOMAIN SavedOrder : r[SavedOrder[k]] \in Word
<1>1. Len(SavedOrder) \in Nat /\ DOMAIN SavedOrder = 1..Len(SavedOrder) BY MachineAssumption
<1>2. \A k \in DOMAIN SavedOrder : SavedOrder[k] \in Registers BY DEF Registers
<1>3. r \in [Registers -> Word] BY DEF Registered
<1>4. FrameAt(r) \in Word
  <2>1. r[Sp] \in Word BY <1>3, RegisterFacts
  <2>2. r[Sp] - 4 * Len(SavedOrder) \in Int BY <1>1, <2>1, WordFacts
  <2> QED BY <2>2, UTyped DEF FrameAt
<1>5. Trampoline \in Word
  <2>1. VdsoPage * PageSize \in Int BY LoaderAssumption
  <2>2. VdsoPage * PageSize + (IF action.siginfo THEN 8 ELSE 0) \in Int BY <2>1
  <2> QED BY <2>2, UTyped DEF Trampoline
<1> QED BY <1>1, <1>2, <1>3, <1>4, <1>5

LEMMA ActionFacts ==
  ASSUME IInv
  PROVE  action \in Action /\ action.signo \in Word /\ action.handler \in Word
BY DEF IInv, TypeOK, Action

SavedWords(r) == [k \in DOMAIN SavedOrder |-> r[SavedOrder[k]]]
LEMMA InHandlerFacts ==
  ASSUME IInv, NEW r \in Registered
  PROVE  /\ InHandler(r) \in Registered
         /\ InHandler(r)[PC] = action.handler /\ InHandler(r)[PendingBranch] = 0
         /\ InHandler(r)[V0] = r[V0] /\ InHandler(r)[A3] = r[A3]
         /\ \A x \in Regs : InHandler(r)[x] =
              CASE x = A0 -> action.signo [] x = A1 -> 0 [] x = T9 -> action.handler [] x = Sp -> FrameAt(r)
                [] x = Ra -> Trampoline [] OTHER -> r[x]
<1> DEFINE n == InHandler(r)
<1>1. r \in [Registers -> Word] /\ r[0] = 0 BY DEF Registered
<1>2. FrameAt(r) \in Word /\ Trampoline \in Word /\ action.handler \in Word /\ action.signo \in Word /\ 0 \in Word
  BY FrameTyped, WordFacts, ActionFacts
<1>3. {0, A0, A1, Sp, Ra, T9, V0, A3, PC, PendingBranch} \subseteq Registers BY RegisterFacts
<1>4. A0 = 4 /\ A1 = 5 /\ Sp = 29 /\ Ra = 31 /\ T9 = 25 /\ V0 = 2 /\ A3 = 7 /\ PC = 64 /\ PendingBranch = 65
  BY DEF A0, A1, Sp, Ra, T9, V0, A3, PC, PendingBranch
<1>5. n \in [Registers -> Word] BY <1>1, <1>2 DEF InHandler
<1>6. \A x \in Registers : n[x] =
        CASE x = A0 -> action.signo [] x = A1 -> 0 [] x = T9 -> action.handler [] x = Sp -> FrameAt(r)
          [] x = Ra -> Trampoline [] x = PC -> action.handler [] x = PendingBranch -> 0 [] OTHER -> r[x]
  BY <1>1, <1>4 DEF InHandler
<1> HIDE DEF n
<1>7. n[0] = 0 /\ n[PC] = action.handler /\ n[PendingBranch] = 0 /\ n[V0] = r[V0] /\ n[A3] = r[A3]
  BY <1>1, <1>3, <1>4, <1>6
<1>8. \A x \in Regs : x \in Registers /\ x # PC /\ x # PendingBranch BY DEF Regs
<1>9. \A x \in Regs : n[x] =
        CASE x = A0 -> action.signo [] x = A1 -> 0 [] x = T9 -> action.handler [] x = Sp -> FrameAt(r)
          [] x = Ra -> Trampoline [] OTHER -> r[x]
  BY <1>6, <1>8
<1> QED BY <1>5, <1>7, <1>9 DEF n, Registered

LEMMA FrameBytes ==
  ASSUME NEW r \in Registered, NEW m \in Memory
  PROVE  /\ WithFrame(r, m) \in Memory
         /\ \A b \in Word : WithFrame(r, m)[b] =
              IF U(b - FrameAt(r)) < 4 * Len(SavedOrder)
              THEN ByteOf(r[SavedOrder[U(b - FrameAt(r)) \div 4 + 1]], U(b - FrameAt(r)) % 4) ELSE m[b]
         /\ \A b \in Word : U(b - FrameAt(r)) < 4 * Len(SavedOrder) =>
              U(b - FrameAt(r)) \div 4 + 1 \in DOMAIN SavedOrder
<1> DEFINE sp == FrameAt(r)
           words == SavedWords(r)
           n == Len(SavedOrder)
<1>1. /\ sp \in Word /\ n \in Nat /\ DOMAIN SavedOrder = 1..n /\ \A k \in 1..n : r[SavedOrder[k]] \in Word
  BY FrameTyped
<1>2. Len(words) = n /\ \A k \in 1..n : words[k] = r[SavedOrder[k]]
  <2>1. words = [k \in 1..n |-> r[SavedOrder[k]]] BY <1>1 DEF SavedWords
  <2> HIDE DEF n, words
  <2>2. Len(words) = n BY <1>1, <2>1
  <2> QED BY <2>1, <2>2
<1>3. WithFrame(r, m) = [b \in Word |-> IF U(b - sp) < 4 * Len(words)
                                        THEN ByteOf(words[U(b - sp) \div 4 + 1], U(b - sp) % 4) ELSE m[b]]
  BY DEF WithFrame, WithWords, SavedWords
<1> HIDE DEF sp, words, n
<1>4. ASSUME NEW b \in Word, U(b - sp) < 4 * n
      PROVE  U(b - sp) \div 4 + 1 \in 1..n /\ U(b - sp) % 4 \in Nat
  <2> DEFINE d == U(b - sp)
  <2>1. d \in Nat
    <3>1. b - sp \in Int BY <1>1, WordFacts
    <3> QED BY <3>1, UTyped
  <2> HIDE DEF d
  <2>2. d < 4 * n => d \div 4 + 1 \in 1..n /\ d % 4 \in Nat BY <1>1, <2>1
  <2> QED BY <1>4, <2>2 DEF d
<1>5. \A b \in Word : WithFrame(r, m)[b] =
        IF U(b - sp) < 4 * n THEN ByteOf(r[SavedOrder[U(b - sp) \div 4 + 1]], U(b - sp) % 4) ELSE m[b]
  BY <1>2, <1>3, <1>4
<1>6. ASSUME NEW b \in Word PROVE WithFrame(r, m)[b] \in Byte
  <2>1. CASE U(b - sp) < 4 * n
    <3> DEFINE x == r[SavedOrder[U(b - sp) \div 4 + 1]]
               k == U(b - sp) % 4
    <3>1. x \in Int /\ k \in Nat BY <1>1, <1>4, <2>1, WordFacts
    <3>2. WithFrame(r, m)[b] = ByteOf(x, k) BY <1>5, <2>1
    <3> HIDE DEF x, k
    <3> QED BY <3>1, <3>2, ByteTyped
  <2>2. CASE ~(U(b - sp) < 4 * n)
    <3>1. m[b] \in Byte BY DEF Memory, Address
    <3> QED BY <1>5, <2>2, <3>1
  <2> QED BY <2>1, <2>2
<1>7. WithFrame(r, m) \in Memory BY <1>3, <1>6 DEF Memory, Address
<1> QED BY <1>1, <1>4, <1>5, <1>7 DEF sp, n

LEMMA HandlerRight ==
  ASSUME IInv, NEW r \in Registered, NEW m \in Memory
  PROVE  Cpu(InHandler(r), WithFrame(r, m), action.handler, 0)
           \in Arch!Interrupted(Cpu(r, m, r[PC], r[PendingBranch]))
<1> DEFINE c == Cpu(r, m, r[PC], r[PendingBranch])
           sp == FrameAt(r)
           branch == r[PendingBranch]
           n == 4 * Len(SavedOrder)
           regs == [x \in Regs |-> InHandler(r)[x]]
           saved(k, z) == CASE SavedOrder[k] = 64 -> c.pc [] SavedOrder[k] = 65 -> z [] OTHER -> c.regs[SavedOrder[k]]
           memory(z) == [b \in Word |-> IF U(b - sp) < n
                                        THEN ByteOf(saved(U(b - sp) \div 4 + 1, z), U(b - sp) % 4) ELSE c.mem[b]]
<1>1. /\ c.regs = [x \in Regs |-> r[x]] /\ c.mem = m /\ c.pc = r[PC] /\ c.npc = Next4(r[PC], branch)
      /\ c.regs[29] = r[Sp] /\ PC = 64 /\ PendingBranch = 65
  BY RegisterFacts DEF Cpu, Sp, PC, PendingBranch
<1>2. branch \in {c.npc} \cup {z \in {0} : c.npc = U(c.pc + 4)} BY <1>1 DEF Next4
<1>3. ASSUME NEW k \in DOMAIN SavedOrder PROVE saved(k, branch) = r[SavedOrder[k]]
  <2>1. SavedOrder[k] \in Registers BY DEF Registers
  <2>2. SavedOrder[k] # 64 /\ SavedOrder[k] # 65 => SavedOrder[k] \in Regs BY <1>1, <2>1 DEF Regs
  <2> QED BY <1>1, <2>2
<1>4. memory(branch) = WithFrame(r, m)
  <2>1. \A b \in Word : U(b - sp) < n => U(b - sp) \div 4 + 1 \in DOMAIN SavedOrder BY FrameBytes
  <2>2. \A b \in Word : WithFrame(r, m)[b] =
          IF U(b - sp) < n THEN ByteOf(r[SavedOrder[U(b - sp) \div 4 + 1]], U(b - sp) % 4) ELSE m[b]
    BY FrameBytes
  <2>3. WithFrame(r, m) = [b \in Word |-> WithFrame(r, m)[b]]
    <3>1. WithFrame(r, m) \in Memory BY FrameBytes
    <3> QED BY <3>1 DEF Memory, Address
  <2>4. \A b \in Word : memory(branch)[b] = WithFrame(r, m)[b]
    <3> SUFFICES ASSUME NEW b \in Word PROVE memory(branch)[b] = WithFrame(r, m)[b] OBVIOUS
    <3> DEFINE k == U(b - sp) \div 4 + 1
    <3>1. memory(branch)[b] = IF U(b - sp) < n THEN ByteOf(saved(k, branch), U(b - sp) % 4) ELSE m[b] BY <1>1
    <3>2. U(b - sp) < n => saved(k, branch) = r[SavedOrder[k]] BY <1>3, <2>1
    <3> HIDE DEF saved, memory
    <3> QED BY <2>2, <3>1, <3>2
  <2>5. memory(branch) = [b \in Word |-> memory(branch)[b]] OBVIOUS
  <2> HIDE DEF memory
  <2> QED BY <2>3, <2>4, <2>5
<1>5. regs = [c.regs EXCEPT ![4] = action.signo, ![5] = 0, ![25] = action.handler, ![29] = sp, ![31] = Trampoline]
  <2> DEFINE e == [c.regs EXCEPT ![4] = action.signo, ![5] = 0, ![25] = action.handler, ![29] = sp, ![31] = Trampoline]
  <2>1. A0 = 4 /\ A1 = 5 /\ Sp = 29 /\ Ra = 31 /\ T9 = 25 BY DEF A0, A1, Sp, Ra, T9
  <2>2. e = [x \in Regs |->
          CASE x = A0 -> action.signo [] x = A1 -> 0 [] x = T9 -> action.handler [] x = Sp -> FrameAt(r)
            [] x = Ra -> Trampoline [] OTHER -> r[x]]
    BY <1>1, <2>1
  <2>3. \A x \in Regs : InHandler(r)[x] =
          CASE x = A0 -> action.signo [] x = A1 -> 0 [] x = T9 -> action.handler [] x = Sp -> FrameAt(r)
            [] x = Ra -> Trampoline [] OTHER -> r[x]
    BY InHandlerFacts
  <2> HIDE DEF e
  <2>4. regs = e BY <2>2, <2>3
  <2> QED BY <2>4 DEF e
<1>6. Cpu(InHandler(r), WithFrame(r, m), action.handler, 0)
        = [regs |-> regs, mem |-> WithFrame(r, m), pc |-> action.handler, npc |-> U(action.handler + 4)]
  BY DEF Cpu, Next4
<1> DEFINE S == {c.npc} \cup {z \in {0} : c.npc = U(c.pc + 4)}
           rr == [c.regs EXCEPT ![4] = action.signo, ![5] = 0, ![25] = action.handler, ![29] = sp, ![31] = Trampoline]
           To(z) == [regs |-> rr, mem |-> memory(z), pc |-> action.handler, npc |-> U(action.handler + 4)]
<1>7. Arch!Interrupted(c) = {To(z) : z \in S}
  <2> DEFINE asp == Arch!U(c.regs[29] - 4 * Len(SavedOrder))
             amemory(z) == [b \in Arch!Word |-> IF Arch!U(b - asp) < 4 * Len(SavedOrder)
                                            THEN Arch!ByteOf(saved(Arch!U(b - asp) \div 4 + 1, z), Arch!U(b - asp) % 4)
                                            ELSE c.mem[b]]
             back == Arch!U(VdsoPage * PageSize + (IF action.siginfo THEN 8 ELSE 0))
             ar == [c.regs EXCEPT ![4] = action.signo, ![5] = 0, ![25] = action.handler, ![29] = asp, ![31] = back]
             aTo(z) == [regs |-> ar, mem |-> amemory(z), pc |-> action.handler, npc |-> Arch!U(action.handler + 4)]
             aS == {c.npc} \cup {z \in {0} : c.npc = Arch!U(c.pc + 4)}
  <2>1. Arch!Interrupted(c) = {aTo(z) : z \in aS} BY DEF Arch!Interrupted
  <2>2. asp = sp BY <1>1, ArchWords DEF FrameAt
  <2>3. aS = S BY ArchWords
  <2>4. \A z : amemory(z) = memory(z)
    <3> HIDE DEF c, sp, asp, saved
    <3> QED BY <2>2, ArchWords, ArchBytes
  <2>5. ar = rr
    <3>1. back = Trampoline BY ArchWords DEF Trampoline
    <3> QED BY <2>2, <3>1
  <2>6. Arch!U(action.handler + 4) = U(action.handler + 4) BY ArchWords
  <2> HIDE DEF c, asp, amemory, memory, ar, rr, aS, S, saved
  <2>7. \A z : aTo(z) = To(z) BY <2>4, <2>5, <2>6
  <2> HIDE DEF aTo, To
  <2> QED BY <2>1, <2>3, <2>7
<1> HIDE DEF memory
<1>8. Cpu(InHandler(r), WithFrame(r, m), action.handler, 0) = To(branch) BY <1>4, <1>5, <1>6
<1>9. branch \in S BY <1>2
<1> HIDE DEF To, S, c, branch
<1> QED BY <1>7, <1>8, <1>9 DEF c

(* The steps of the machine, as steps of the processor.                    *)
ArchStep == Arch!Next \/ UNCHANGED <<Processor, flags, action>>

LEMMA CpuFacts ==
  \A r, m, b : \A p \in Word :
    /\ Cpu(r, m, p, b) # Arch!NotLoaded
    /\ Cpu(r, m, p, b).pc = p /\ Cpu(r, m, p, b).mem = m /\ Cpu(r, m, p, b).regs = [x \in Regs |-> r[x]]
<1>1. -1 \notin Word BY WFacts DEF Word
<1> SUFFICES ASSUME NEW r, NEW m, NEW b, NEW p \in Word
             PROVE  /\ Cpu(r, m, p, b) # Arch!NotLoaded
                    /\ Cpu(r, m, p, b).pc = p /\ Cpu(r, m, p, b).mem = m
                    /\ Cpu(r, m, p, b).regs = [x \in Regs |-> r[x]]
  OBVIOUS
<1>2. /\ Cpu(r, m, p, b).pc = p /\ Cpu(r, m, p, b).mem = m
      /\ Cpu(r, m, p, b).regs = [x \in Regs |-> r[x]]
  BY DEF Cpu
<1>3. Arch!NotLoaded.pc = -1 BY DEF Arch!NotLoaded
<1>4. p # -1 BY <1>1
<1>5. Cpu(r, m, p, b) # Arch!NotLoaded BY <1>2, <1>3, <1>4
<1> QED BY <1>2, <1>5

LEMMA ProcessorHere ==
  ASSUME exe = None
  PROVE  Processor = Cpu(registers, mem, IF inside THEN pc ELSE registers[PC],
                         IF inside THEN pending ELSE registers[PendingBranch])
BY DEF Processor, Cpu, Next4, Regs
LEMMA ProcessorThere ==
  ASSUME exe' = None
  PROVE  Processor' = Cpu(registers', mem', IF inside' THEN pc' ELSE registers'[PC],
                          IF inside' THEN pending' ELSE registers'[PendingBranch])
BY DEF Processor, Cpu, Next4, Regs

LEMMA Keeps ==
  ASSUME IInv, action' \in Action, exe' \in {exe, None}, registers' \in Registered, mem' \in Memory,
         DOMAIN flags' = Page, pc' \in Word, pending' \in Word, left' \in Nat, queue' \in {0, 1},
         sent' \in queue'..MaxSignals, inside' => running' /\ ~exited' /\ queue' = 0 /\ exe' = None
  PROVE  IInv'
<1>1. TypeOK' BY DEF TypeOK, Registered, Memory
<1>2. exe' \in Executables \cup {None} BY DEF IInv
<1> QED BY <1>1, <1>2 DEF IInv, Memory

LEMMA StateFacts ==
  ASSUME IInv
  PROVE  /\ registers \in Registered /\ mem \in Memory /\ pc \in Word /\ pending \in Word /\ left \in Nat
         /\ queue \in {0, 1} /\ sent \in queue..MaxSignals /\ (inside => running /\ ~exited /\ queue = 0 /\ exe = None)
         /\ MaxSignals \in Nat /\ action \in Action /\ action.handler \in Word /\ DOMAIN flags = Page
         /\ Quanta \subseteq Nat
BY MachineAssumption, ActionFacts DEF IInv, TypeOK, Registered

LEMMA FetchedFacts ==
  ASSUME IInv, Fetched
  PROVE  /\ exe = None /\ inside /\ Processor = Current /\ Processor # Arch!NotLoaded
         /\ Arch!May(Processor.pc, 1, "X")
         /\ Arch!AtCall(Processor) <=> Instruction.op = "syscall"
<1>1. exe = None /\ inside /\ Allowed(pc, 1, "X") /\ pc \in Word BY StateFacts DEF Fetched
<1>2. Processor = Current BY <1>1, ProcessorHere DEF Current
<1>3. Current # Arch!NotLoaded BY <1>1, CpuFacts DEF Current
<1>4. Current.pc = pc /\ Current.mem = mem /\ Arch!Current(Current) = Instruction BY CurrentFacts
<1>5. Arch!May(pc, 1, "X") BY <1>1, MayAllowed
<1>6. Arch!AtCall(Current) <=> Instruction.op = "syscall" BY <1>4 DEF Arch!AtCall
<1> QED BY <1>1, <1>2, <1>3, <1>4, <1>5, <1>6

LEMMA SteppedTo == ASSUME IInv, Stepped PROVE IInv' /\ ArchStep
<1>1. Fetched /\ Instruction.op # "syscall" BY DEF Stepped
<1>2. PICK r, m, p, b : Correct(r, m, p, b) /\ Goes(r, m, p, b) BY DEF Stepped
<1>3. /\ r \in Registered /\ m \in Memory /\ p \in Word /\ b \in Word /\ Cpu(r, m, p, b) \in Arch!After(Current)
  BY <1>2 DEF Correct
<1>4. /\ registers' = r /\ mem' = m /\ pc' = p /\ pending' = b /\ left' = left - 1
      /\ exe' = exe /\ flags' = flags /\ inside' = inside /\ running' = running /\ exited' = exited
      /\ queue' = queue /\ sent' = sent /\ action' = action
  BY <1>2 DEF Goes, kernel
<1>5. left - 1 \in Nat BY <1>1, StateFacts DEF Fetched
<1>6. IInv' BY <1>3, <1>4, <1>5, StateFacts, Keeps
<1>7. exe = None /\ inside /\ Processor = Current /\ Processor # Arch!NotLoaded
      /\ Arch!May(Processor.pc, 1, "X") /\ ~Arch!AtCall(Processor)
  BY <1>1, FetchedFacts
<1>8. Processor' = Cpu(r, m, p, b) BY <1>4, <1>7, ProcessorThere
<1>9. Arch!Execute BY <1>3, <1>4, <1>7, <1>8 DEF Arch!Execute
<1>10. Arch!Next BY <1>4, <1>9 DEF Arch!Next
<1> QED BY <1>6, <1>10 DEF ArchStep

(* Calls.                                                                  *)
Answered(r) ==
  /\ r \in Registered /\ r[PC] = Following /\ r[PendingBranch] = 0 /\ r[A3] \in {0, 1, registers[A3]}
  /\ \/ [x \in Regs |-> r[x]] = Current.regs
     \/ [x \in Regs |-> r[x]] = Arch!Set(Arch!Set(Current.regs, V0, r[V0]), A3, r[A3])
LEMMA AnswerRight ==
  ASSUME IInv, NEW r, Answered(r)
  PROVE  Cpu(r, mem, Following, 0) \in Arch!Answers(Current, r[V0], r[A3])
<1> DEFINE c == Current
           n == Following
           next == [c EXCEPT !.pc = c.npc, !.npc = U(c.npc + 4)]
           d == Cpu(r, mem, n, 0)
           set == Arch!Set(Arch!Set(c.regs, V0, r[V0]), A3, r[A3])
<1>1. c = [regs |-> c.regs, mem |-> mem, pc |-> pc, npc |-> n]
  <2>1. c.mem = mem /\ c.pc = pc /\ c.npc = n BY CurrentFacts
  <2>2. c = [regs |-> c.regs, mem |-> c.mem, pc |-> c.pc, npc |-> c.npc] BY DEF Current, Cpu
  <2> QED BY <2>1, <2>2
<1>2. d = [regs |-> [x \in Regs |-> r[x]], mem |-> mem, pc |-> n, npc |-> U(n + 4)] BY DEF Cpu, Next4
<1>3. V0 = 2 /\ A3 = 7 BY DEF V0, A3
<1>4. Arch!Answers(c, r[V0], r[A3]) = {next, [next EXCEPT !.regs = set]}
  <2>1. Arch!Answers(c, r[V0], r[A3]) =
         {[c EXCEPT !.pc = c.npc, !.npc = Arch!U(c.npc + 4)],
          [[c EXCEPT !.pc = c.npc, !.npc = Arch!U(c.npc + 4)] EXCEPT !.regs = set]}
    BY <1>3 DEF Arch!Answers
  <2>2. Arch!U(c.npc + 4) = U(c.npc + 4) BY ArchWords
  <2> HIDE DEF c, set
  <2> QED BY <2>1, <2>2
<1>5. [x \in Regs |-> r[x]] = c.regs \/ [x \in Regs |-> r[x]] = set BY DEF Answered
<1> HIDE DEF c, n, d, set
<1>6. next = [regs |-> c.regs, mem |-> mem, pc |-> n, npc |-> U(n + 4)]
  <2>1. PICK cr : cr = c.regs OBVIOUS
  <2>2. c = [regs |-> cr, mem |-> mem, pc |-> pc, npc |-> n] BY <1>1, <2>1
  <2> HIDE DEF c
  <2>3. c.npc = n BY <2>2
  <2>4. [c EXCEPT !.pc = n, !.npc = U(n + 4)] = [regs |-> cr, mem |-> mem, pc |-> n, npc |-> U(n + 4)]
    <3> DEFINE w == U(n + 4)
               h == [c EXCEPT !.pc = n]
    <3>1. h = [regs |-> cr, mem |-> mem, pc |-> n, npc |-> n] BY <2>2
    <3> HIDE DEF w, h
    <3>2. [h EXCEPT !.npc = w] = [regs |-> cr, mem |-> mem, pc |-> n, npc |-> w] BY <3>1
    <3> QED BY <3>2 DEF w, h
  <2> QED BY <2>1, <2>3, <2>4
<1> HIDE DEF next
<1>7. [next EXCEPT !.regs = set] = [regs |-> set, mem |-> mem, pc |-> n, npc |-> U(n + 4)] BY <1>6
<1>8. d \in {next, [next EXCEPT !.regs = set]} BY <1>2, <1>5, <1>6, <1>7
<1> QED BY <1>4, <1>8 DEF c, d, n, next

LEMMA EnteredFacts ==
  ASSUME IInv
  PROVE  /\ Entered \in Registered /\ Entered[PC] = Following /\ Entered[PendingBranch] = 0
         /\ \A x \in Regs : Entered[x] = registers[x]
         /\ [x \in Regs |-> Entered[x]] = Current.regs
<1>1. registers \in Registered /\ Following \in Word /\ Current.regs = [x \in Regs |-> registers[x]]
  BY CurrentFacts
<1>2. {0, PC, PendingBranch} \subseteq Registers /\ PC # 0 /\ PendingBranch # 0 /\ PC # PendingBranch
  BY RegisterFacts DEF PC, PendingBranch
<1>3. registers \in [Registers -> Word] /\ registers[0] = 0 BY <1>1 DEF Registered
<1>4. Entered \in [Registers -> Word] /\ \A x \in Registers :
        Entered[x] = IF x = PC THEN Following ELSE IF x = PendingBranch THEN 0 ELSE registers[x]
  BY <1>1, <1>2, <1>3, WordFacts DEF Entered
<1>5. Entered \in Registered BY <1>2, <1>3, <1>4 DEF Registered
<1>6. \A x \in Regs : Entered[x] = registers[x] BY <1>4 DEF Regs
<1> QED BY <1>1, <1>2, <1>4, <1>5, <1>6

LEMMA EnteredRight == ASSUME IInv PROVE Answered(Entered)
<1>1. A3 \in Regs BY RegisterFacts
<1> QED BY <1>1, EnteredFacts DEF Answered

LEMMA ResultRight ==
  ASSUME IInv, NEW ret \in Int
  PROVE  Answered(WithResult(Entered, ret))
<1> DEFINE e == Entered
           r == WithResult(e, ret)
           v == IF ret < 0 THEN U(-ret) ELSE U(ret)
           f == IF ret < 0 THEN 1 ELSE 0
           c == Current.regs
<1>1. /\ e \in Registered /\ e[PC] = Following /\ e[PendingBranch] = 0
      /\ \A x \in Regs : e[x] = registers[x]
      /\ c = [x \in Regs |-> e[x]]
  BY EnteredFacts
<1>2. v \in Word /\ f \in {0, 1} /\ f \in Word /\ U(v) = v /\ U(f) = f
  <2>1. -ret \in Int OBVIOUS
  <2>2. U(-ret) \in Word /\ U(ret) \in Word BY <2>1, UTyped
  <2>3. v \in Word /\ f \in Word /\ f \in {0, 1} BY <2>2, WordFacts
  <2> HIDE DEF v, f
  <2> QED BY <2>3, WordFacts
<1>3. r = [e EXCEPT ![V0] = v, ![A3] = f] BY DEF WithResult
<1>4. /\ {0, V0, A3, PC, PendingBranch} \subseteq Registers /\ V0 = 2 /\ A3 = 7 /\ PC = 64 /\ PendingBranch = 65
      /\ {V0, A3} \subseteq Regs /\ Regs \subseteq Registers
  BY RegisterFacts DEF V0, A3, PC, PendingBranch
<1> HIDE DEF e, v, f, r, c
<1>5. e \in [Registers -> Word] /\ e[0] = 0 BY <1>1 DEF Registered
<1>6. r \in [Registers -> Word] /\ \A x \in Registers : r[x] = IF x = A3 THEN f ELSE IF x = V0 THEN v ELSE e[x]
  BY <1>2, <1>3, <1>4, <1>5
<1>7. r \in Registered /\ r[PC] = Following /\ r[PendingBranch] = 0 /\ r[V0] = v /\ r[A3] = f
  BY <1>1, <1>4, <1>5, <1>6 DEF Registered
<1>8. [x \in Regs |-> r[x]] = Arch!Set(Arch!Set(c, V0, r[V0]), A3, r[A3])
  <2>0. (IF V0 = 0 THEN 0 ELSE Arch!U(v)) = v /\ (IF A3 = 0 THEN 0 ELSE Arch!U(f)) = f
    BY <1>2, <1>4, ArchWords
  <2>1. Arch!Set(c, V0, v) = [c EXCEPT ![V0] = v]
    <3>1. Arch!Set(c, V0, v) = [c EXCEPT ![V0] = IF V0 = 0 THEN 0 ELSE Arch!U(v)] BY DEF Arch!Set
    <3> QED BY <2>0, <3>1
  <2>2. Arch!Set([c EXCEPT ![V0] = v], A3, f) = [[c EXCEPT ![V0] = v] EXCEPT ![A3] = f]
    <3> DEFINE g == [c EXCEPT ![V0] = v]
    <3>1. Arch!Set(g, A3, f) = [g EXCEPT ![A3] = IF A3 = 0 THEN 0 ELSE Arch!U(f)] BY DEF Arch!Set
    <3> HIDE DEF g
    <3>2. Arch!Set(g, A3, f) = [g EXCEPT ![A3] = f] BY <2>0, <3>1
    <3> QED BY <3>2 DEF g
  <2>3. [[c EXCEPT ![V0] = v] EXCEPT ![A3] = f]
          = [x \in Regs |-> IF x = A3 THEN f ELSE IF x = V0 THEN v ELSE e[x]]
    BY <1>1, <1>4
  <2>4. [x \in Regs |-> r[x]] = [x \in Regs |-> IF x = A3 THEN f ELSE IF x = V0 THEN v ELSE e[x]]
    BY <1>4, <1>6
  <2> QED BY <1>7, <2>1, <2>2, <2>3, <2>4
<1> QED BY <1>2, <1>7, <1>8 DEF Answered, r, e, c

LEMMA DeliversRight ==
  ASSUME NEW c, Caught, Processor' \in Arch!Interrupted(c), action' = Handled
  PROVE  Arch!Delivers(c)
<1>1. action.handler \notin {0, 1} BY DEF Caught, SigDfl, SigIgn
<1>2. action' = IF action.oneshot THEN [action EXCEPT !.handler = 0] ELSE action BY DEF Handled, SigDfl
<1> QED BY <1>1, <1>2 DEF Arch!Delivers

(* After a call the processor is at the next instruction, or in a handler. *)
LEMMA CallStep ==
  ASSUME IInv, Is({"syscall"}), NEW r, Answered(r), flags' = flags,
         \/ Processor' = Cpu(r, mem, Following, 0) /\ action' = action
         \/ Caught /\ Processor' = Cpu(InHandler(r), WithFrame(r, mem), action.handler, 0) /\ action' = Handled
  PROVE  ArchStep
<1> DEFINE c == Processor
           d == Cpu(r, mem, Following, 0)
           e == Cpu(InHandler(r), WithFrame(r, mem), action.handler, 0)
<1>1. c = Current /\ c # Arch!NotLoaded /\ Arch!AtCall(c) /\ Arch!May(c.pc, 1, "X")
  BY FetchedFacts DEF Is
<1>2. /\ r \in Registered /\ r[PC] = Following /\ r[PendingBranch] = 0 /\ r[A3] \in {0, 1, registers[A3]}
  BY DEF Answered
<1>3. mem \in Memory /\ Following \in Word /\ c.regs[A3] = registers[A3]
  BY <1>1, CurrentFacts, StateFacts, RegisterFacts
<1>4. V0 = 2 /\ A3 = 7 /\ V0 \in Regs /\ A3 \in Regs BY RegisterFacts DEF V0, A3
<1>5. d \in Arch!Answers(c, r[V0], r[A3]) BY <1>1, AnswerRight
<1>6. e \in Arch!Interrupted(d)
  <2>1. Cpu(InHandler(r), WithFrame(r, mem), action.handler, 0) \in Arch!Interrupted(Cpu(r, mem, r[PC], r[PendingBranch]))
    BY <1>2, <1>3, HandlerRight
  <2> QED BY <1>2, <2>1
<1>7. d.regs[V0] = r[V0] /\ d.regs[A3] = r[A3]
  <2>1. d.regs = [x \in Regs |-> r[x]] BY DEF Cpu
  <2> HIDE DEF d
  <2> QED BY <1>4, <2>1
<1>8. e.regs[V0] = r[V0] /\ e.regs[A3] = r[A3]
  <2>1. InHandler(r)[V0] = r[V0] /\ InHandler(r)[A3] = r[A3] BY <1>2, InHandlerFacts
  <2>2. e.regs = [x \in Regs |-> InHandler(r)[x]] BY DEF Cpu
  <2> HIDE DEF e
  <2>3. e.regs[V0] = InHandler(r)[V0] /\ e.regs[A3] = InHandler(r)[A3] BY <1>4, <2>2
  <2> QED BY <2>1, <2>3
<1> DEFINE n == Processor'
<1>9. /\ n.regs[2] = r[V0] /\ n.regs[7] = r[A3]
      /\ \/ n = d /\ action' = action
         \/ Caught /\ n \in Arch!Interrupted(d) /\ action' = Handled
  BY <1>4, <1>6, <1>7, <1>8
<1>10. Arch!Call
  <2>1. n.regs[7] \in {0, 1, c.regs[7]} BY <1>2, <1>3, <1>4, <1>9
  <2>2. d \in Arch!Answers(c, n.regs[2], n.regs[7]) BY <1>5, <1>9
  <2> HIDE DEF d, e
  <2>3. (n = d /\ action' = action) \/ Arch!Delivers(d) BY <1>9, DeliversRight
  <2> QED BY <1>1, <2>1, <2>2, <2>3 DEF Arch!Call
<1> QED BY <1>10 DEF ArchStep, Arch!Next

LEMMA HandlesFacts ==
  ASSUME IInv, NEW r \in Registered, NEW m \in Memory
  PROVE  /\ ~Caught => Handles(r, m)[1] = r /\ Handles(r, m)[2] = m /\ Handled = action
         /\ Caught => Handles(r, m)[1] = InHandler(r) /\ Handles(r, m)[2] = WithFrame(r, m)
         /\ Handles(r, m)[1] \in Registered /\ Handles(r, m)[2] \in Memory /\ Handled \in Action
<1>1. InHandler(r) \in Registered /\ WithFrame(r, m) \in Memory BY InHandlerFacts, FrameBytes
<1>2. Handled \in Action
  <2>1. action \in Action /\ SigDfl \in Word BY ActionFacts, WordFacts DEF SigDfl
  <2> QED BY <2>1 DEF Handled, Action
<1> QED BY <1>1, <1>2 DEF Handles, Handled

LEMMA RegisteredWords ==
  ASSUME NEW r \in Registered PROVE \A x \in Registers : r[x] \in Word
BY DEF Registered

LEMMA FinishesRight ==
  ASSUME IInv, Is({"syscall"}), NEW r, Answered(r), NEW n \in Registered, NEW m \in Memory, Finishes(n, m),
         action' \in Action, sent' \in queue..MaxSignals,
         \/ n = r /\ m = mem /\ action' = action
         \/ Caught /\ n = InHandler(r) /\ m = WithFrame(r, mem) /\ action' = Handled
  PROVE  IInv' /\ ArchStep
<1>1. mem \in Memory /\ r \in Registered /\ Following \in Word /\ r[PC] = Following /\ r[PendingBranch] = 0
  BY CurrentFacts DEF Answered
<1>2. /\ registers' = n /\ mem' = m /\ pc' = n[PC] /\ pending' = n[PendingBranch] /\ left' = left - 1
      /\ exe' = exe /\ flags' = flags /\ inside' = inside /\ queue' = queue /\ running' = running
      /\ exited' = exited
  BY DEF Finishes
<1>3. exe = None /\ inside /\ left > 0 BY FetchedFacts DEF Is, Fetched
<1>4. n[PC] \in Word /\ n[PendingBranch] \in Word BY RegisteredWords, RegisterFacts
<1>5. left' \in Nat BY <1>2, <1>3, StateFacts
<1>6. IInv' BY <1>2, <1>4, <1>5, StateFacts, Keeps
<1>7. Processor' = Cpu(n, m, n[PC], n[PendingBranch]) BY <1>2, <1>3, ProcessorThere
<1>8. InHandler(r)[PC] = action.handler /\ InHandler(r)[PendingBranch] = 0 BY <1>1, InHandlerFacts
<1>9. \/ Processor' = Cpu(r, mem, Following, 0) /\ action' = action
      \/ Caught /\ Processor' = Cpu(InHandler(r), WithFrame(r, mem), action.handler, 0) /\ action' = Handled
  BY <1>1, <1>7, <1>8
<1>10. ArchStep BY <1>2, <1>9, CallStep
<1> QED BY <1>6, <1>10

LEMMA ReturnsRight == ASSUME IInv, Returns PROVE IInv' /\ ArchStep
<1>1. Is({"syscall"}) /\ sent' = sent /\ action' = action BY DEF Returns
<1>2. PICK ret \in Results : Finishes(WithResult(Entered, ret), mem) BY DEF Returns
<1> DEFINE r == WithResult(Entered, ret)
<1>3. Answered(r) /\ Finishes(r, mem)
  <2>1. ret \in Int BY MachineAssumption
  <2> QED BY <1>2, <2>1, ResultRight
<1> HIDE DEF r
<1>4. r \in Registered BY <1>3 DEF Answered
<1> QED BY <1>1, <1>3, <1>4, StateFacts, FinishesRight

LEMMA SignalsRight == ASSUME IInv, Signals PROVE IInv' /\ ArchStep
<1>1. Is({"syscall"}) /\ sent < MaxSignals /\ sent' = sent + 1 /\ action' = Handled BY DEF Signals
<1>2. PICK ret \in Results : LET s == Handles(WithResult(Entered, ret), mem) IN Finishes(s[1], s[2]) BY DEF Signals
<1> DEFINE r == WithResult(Entered, ret)
           n == Handles(r, mem)[1]
           m == Handles(r, mem)[2]
<1>3. Answered(r) /\ Finishes(n, m)
  <2>1. ret \in Int BY MachineAssumption
  <2> QED BY <1>2, <2>1, ResultRight
<1> HIDE DEF r
<1>4. r \in Registered BY <1>3 DEF Answered
<1>5. /\ ~Caught => n = r /\ m = mem /\ Handled = action
      /\ Caught => n = InHandler(r) /\ m = WithFrame(r, mem)
      /\ n \in Registered /\ m \in Memory /\ Handled \in Action
  BY <1>4, StateFacts, HandlesFacts
<1> HIDE DEF n, m
<1>6. sent' \in queue..MaxSignals BY <1>1, StateFacts
<1> QED BY <1>1, <1>3, <1>5, <1>6, FinishesRight

LEMMA UnknownRight == ASSUME IInv, Unknown PROVE IInv' /\ ArchStep
<1>1. Is({"syscall"}) /\ Finishes(Entered, mem) /\ sent' = sent /\ action' = action BY DEF Unknown
<1>2. Answered(Entered) BY EnteredRight
<1>3. Entered \in Registered BY EnteredFacts
<1> QED BY <1>1, <1>2, <1>3, StateFacts, FinishesRight

LEMMA EndsRight ==
  ASSUME IInv, Is({"syscall"}), NEW k \in {0, 1}, Ends(k), sent + k <= MaxSignals
  PROVE  IInv' /\ ArchStep
<1>1. /\ registers' = Entered /\ inside' = FALSE /\ pc' = 0 /\ pending' = 0 /\ left' = 0
      /\ exe' = exe /\ mem' = mem /\ flags' = flags /\ queue' = queue + k /\ sent' = sent + k
      /\ action' = action
  BY DEF Ends
<1>2. Answered(Entered) BY EnteredRight
<1>3. Entered \in Registered /\ Entered[PC] = Following /\ Entered[PendingBranch] = 0 BY EnteredFacts
<1>4. exe = None /\ inside BY FetchedFacts DEF Is
<1>5. 0 \in Nat OBVIOUS
<1>6. queue' \in {0, 1} /\ sent' \in queue'..MaxSignals BY <1>1, <1>4, StateFacts
<1>7. IInv' BY <1>1, <1>3, <1>5, <1>6, StateFacts, WordFacts, Keeps
<1>8. Processor' = Cpu(Entered, mem, Following, 0) BY <1>1, <1>3, <1>4, ProcessorThere
<1>9. ArchStep BY <1>1, <1>2, <1>8, CallStep
<1> QED BY <1>7, <1>9

LEMMA ExitRight == ASSUME IInv, Exit PROVE IInv' /\ ArchStep
<1>1. Is({"syscall"}) /\ (Ends(0) \/ (sent < MaxSignals /\ Ends(1))) BY DEF Exit
<1>2. sent \in Int /\ sent <= MaxSignals /\ MaxSignals \in Nat BY StateFacts
<1>3. CASE Ends(0)
  <2>1. sent + 0 <= MaxSignals BY <1>2
  <2> QED BY <1>1, <1>3, <2>1, EndsRight
<1>4. CASE sent < MaxSignals /\ Ends(1)
  <2>1. sent + 1 <= MaxSignals BY <1>2, <1>4
  <2> QED BY <1>1, <1>4, <2>1, EndsRight
<1> QED BY <1>1, <1>3, <1>4

(* A call that blocks, and the end of a quantum, leave the processor where *)
(* it is.                                                                  *)
LEMMA SavedFacts ==
  ASSUME IInv, NEW p \in Word, NEW b \in Word
  PROVE  LET r == [registers EXCEPT ![PC] = p, ![PendingBranch] = b]
         IN r \in Registered /\ r[PC] = p /\ r[PendingBranch] = b /\ \A m : Cpu(r, m, p, b) = Cpu(registers, m, p, b)
<1> DEFINE r == [registers EXCEPT ![PC] = p, ![PendingBranch] = b]
<1>1. registers \in [Registers -> Word] /\ registers[0] = 0 BY StateFacts DEF Registered
<1>2. {0, PC, PendingBranch} \subseteq Registers /\ PC # 0 /\ PendingBranch # 0 /\ PC # PendingBranch
  BY RegisterFacts DEF PC, PendingBranch
<1>3. r \in [Registers -> Word] /\ \A x \in Registers :
        r[x] = IF x = PC THEN p ELSE IF x = PendingBranch THEN b ELSE registers[x]
  BY <1>1, <1>2
<1> HIDE DEF r
<1>4. r \in Registered BY <1>1, <1>2, <1>3 DEF Registered
<1>5. r[PC] = p /\ r[PendingBranch] = b BY <1>2, <1>3
<1>6. [x \in Regs |-> r[x]] = [x \in Regs |-> registers[x]] BY <1>3 DEF Regs
<1>7. \A m : Cpu(r, m, p, b) = Cpu(registers, m, p, b) BY <1>6 DEF Cpu
<1> QED BY <1>4, <1>5, <1>7 DEF r

LEMMA Stays ==
  ASSUME IInv, inside, inside' = FALSE, registers' = [registers EXCEPT ![PC] = pc, ![PendingBranch] = pending],
         mem' = mem, flags' = flags, action' = action, exe' = exe, pc' = 0, pending' = 0, left' \in Nat,
         queue' = queue, sent' = sent
  PROVE  IInv' /\ ArchStep
<1>1. pc \in Word /\ pending \in Word /\ exe = None BY StateFacts
<1> DEFINE r == [registers EXCEPT ![PC] = pc, ![PendingBranch] = pending]
<1>2. r \in Registered /\ r[PC] = pc /\ r[PendingBranch] = pending
      /\ \A m : Cpu(r, m, pc, pending) = Cpu(registers, m, pc, pending)
  <2> DEFINE p == pc
             b == pending
  <2>1. p \in Word /\ b \in Word BY <1>1
  <2> HIDE DEF p, b
  <2>2. LET s == [registers EXCEPT ![PC] = p, ![PendingBranch] = b]
        IN s \in Registered /\ s[PC] = p /\ s[PendingBranch] = b
           /\ \A m : Cpu(s, m, p, b) = Cpu(registers, m, p, b)
    BY <2>1, SavedFacts
  <2> QED BY <2>2 DEF p, b
<1>3. registers' = r OBVIOUS
<1> HIDE DEF r
<1>4. IInv' BY <1>2, <1>3, StateFacts, WordFacts, Keeps
<1>5. Processor = Cpu(registers, mem, pc, pending) BY <1>1, ProcessorHere
<1>6. Processor' = Cpu(r, mem, pc, pending) BY <1>1, <1>2, <1>3, ProcessorThere
<1>7. Processor' = Processor BY <1>2, <1>5, <1>6
<1> QED BY <1>4, <1>7 DEF ArchStep

LEMMA BlocksRight == ASSUME IInv, Blocks PROVE IInv' /\ ArchStep
<1>1. inside BY FetchedFacts DEF Blocks, Is
<1>2. 0 \in Nat OBVIOUS
<1> QED BY <1>1, <1>2, Stays DEF Blocks, Restarted
LEMMA ExpireRight == ASSUME IInv, Expire PROVE IInv' /\ ArchStep
<1>1. left \in Nat BY StateFacts
<1> QED BY <1>1, Stays DEF Expire

LEMMA EnterRight == ASSUME IInv, Enter PROVE IInv' /\ ArchStep
<1> DEFINE s == IF queue = 1 THEN Handles(registers, mem) ELSE <<registers, mem>>
<1>1. /\ exe = None /\ ~inside /\ running /\ ~exited
      /\ registers' = s[1] /\ mem' = s[2] /\ pc' = s[1][PC] /\ pending' = s[1][PendingBranch]
      /\ inside' = TRUE /\ left' \in Quanta /\ queue' = 0
      /\ exe' = exe /\ flags' = flags /\ running' = running /\ exited' = exited /\ sent' = sent
      /\ action' = IF queue = 1 THEN Handled ELSE action
  BY DEF Enter, Starts
<1>2. registers \in Registered /\ mem \in Memory /\ action \in Action BY StateFacts
<1>3. PICK n, m : /\ n = s[1] /\ m = s[2] /\ n \in Registered /\ m \in Memory
                  /\ action' \in Action
                  /\ \/ n = registers /\ m = mem /\ action' = action
                     \/ Caught /\ n = InHandler(registers) /\ m = WithFrame(registers, mem) /\ action' = Handled
  <2>1. /\ ~Caught => /\ Handles(registers, mem)[1] = registers /\ Handles(registers, mem)[2] = mem
                      /\ Handled = action
        /\ Caught => Handles(registers, mem)[1] = InHandler(registers)
                     /\ Handles(registers, mem)[2] = WithFrame(registers, mem)
        /\ Handles(registers, mem)[1] \in Registered /\ Handles(registers, mem)[2] \in Memory /\ Handled \in Action
    BY <1>2, HandlesFacts
  <2> QED BY <1>1, <1>2, <2>1
<1>4. registers' = n /\ mem' = m /\ pc' = n[PC] /\ pending' = n[PendingBranch] BY <1>1, <1>3
<1> HIDE DEF s
<1>5. n[PC] \in Word /\ n[PendingBranch] \in Word BY <1>3, RegisteredWords, RegisterFacts
<1>6. left' \in Nat /\ sent' \in queue'..MaxSignals BY <1>1, StateFacts
<1>7. IInv' BY <1>1, <1>3, <1>4, <1>5, <1>6, StateFacts, Keeps
<1>8. Processor = Cpu(registers, mem, registers[PC], registers[PendingBranch])
  BY <1>1, ProcessorHere
<1>9. Processor' = Cpu(n, m, n[PC], n[PendingBranch]) BY <1>1, <1>4, ProcessorThere
<1>10. CASE n = registers /\ m = mem /\ action' = action
  BY <1>1, <1>7, <1>8, <1>9, <1>10 DEF ArchStep
<1>11. CASE Caught /\ n = InHandler(registers) /\ m = WithFrame(registers, mem) /\ action' = Handled
  <2>1. n[PC] = action.handler /\ n[PendingBranch] = 0 BY <1>2, <1>11, InHandlerFacts
  <2>2. Processor' \in Arch!Interrupted(Processor)
    <3>1. Cpu(InHandler(registers), WithFrame(registers, mem), action.handler, 0)
            \in Arch!Interrupted(Cpu(registers, mem, registers[PC], registers[PendingBranch]))
      BY <1>2, HandlerRight
    <3> QED BY <1>8, <1>9, <1>11, <2>1, <3>1
  <2>3. Processor # Arch!NotLoaded
    <3> DEFINE at == registers[PC]
               branch == registers[PendingBranch]
               d == Cpu(registers, mem, at, branch)
    <3>1. at \in Word BY <1>2, RegisteredWords, RegisterFacts
    <3> HIDE DEF at, branch
    <3>2. d # Arch!NotLoaded BY <3>1, CpuFacts
    <3>3. Processor = d BY <1>8 DEF at, branch
    <3> QED BY <3>2, <3>3
  <2>4. Arch!Signal BY <1>11, <2>2, <2>3, DeliversRight DEF Arch!Signal
  <2> QED BY <1>1, <1>7, <2>4 DEF ArchStep, Arch!Next
<1> QED BY <1>3, <1>10, <1>11

(* Steps that leave the processor alone.                                   *)
LEMMA SameProcessor ==
  ASSUME exe' = exe, registers' = registers, mem' = mem, inside' = inside, pc' = pc, pending' = pending
  PROVE  Processor' = Processor
BY DEF Processor
LEMMA Alone ==
  ASSUME IInv, exe' = exe, registers' = registers, mem' = mem, flags' = flags, inside' = inside, pc' = pc,
         pending' = pending, left' = left, action' = action, queue' \in {0, 1}, sent' \in queue'..MaxSignals,
         inside => running' /\ ~exited' /\ queue' = 0
  PROVE  IInv' /\ ArchStep
<1>1. IInv' BY StateFacts, Keeps
<1>2. Processor' = Processor BY SameProcessor
<1> QED BY <1>1, <1>2 DEF ArchStep

LEMMA SendSignalRight == ASSUME IInv, SendSignal PROVE IInv' /\ ArchStep
<1>1. sent' \in queue'..MaxSignals /\ queue' \in {0, 1} BY StateFacts DEF SendSignal
<1> QED BY <1>1, Alone DEF SendSignal
LEMMA WakeRight == ASSUME IInv, Wake PROVE IInv' /\ ArchStep
<1>1. sent' \in queue'..MaxSignals /\ queue' \in {0, 1} /\ ~inside BY StateFacts DEF Wake
<1> QED BY <1>1, Alone DEF Wake
LEMMA ThrowsRight == ASSUME IInv, Throws PROVE IInv' /\ ArchStep
<1>1. sent' \in queue'..MaxSignals /\ queue' \in {0, 1} /\ (inside => running' /\ ~exited' /\ queue' = 0)
  BY StateFacts DEF Throws
<1> QED BY <1>1, Alone DEF Throws
LEMMA StutterKeeps == ASSUME IInv, UNCHANGED vars PROVE IInv'
BY DEF IInv, TypeOK, vars
LEMMA StutterStep == ASSUME IInv, UNCHANGED vars PROVE ArchStep
<1>1. Processor' = Processor BY SameProcessor DEF vars
<1> QED BY <1>1 DEF ArchStep, vars

-----------------------------------------------------------------------------
(* The loader.                                                             *)
Rights3 == SUBSET {"R", "W", "X"}
Kinds == {"own", "none", "zero"}
LoadState ==
  [mem : Memory, kind : [Page -> Kinds], flags : [Page -> Rights3], error : BOOLEAN]

(* Where the loader can write no byte of a file, and gives no zeros.       *)
Refuses(s, g) == g \notin Page \/ s.kind[g] = "zero"
Ignores(s, g) == g \notin Page \/ s.kind[g] # "none"

LEMMA FileByteFacts ==
  ASSUME NEW s \in LoadState, NEW a, NEW byte \in Byte, NEW prot \in Rights3
  PROVE  /\ FileByte(s, a, byte, prot) \in LoadState
         /\ s.error \/ Refuses(s, PageOf(a)) => FileByte(s, a, byte, prot) = [s EXCEPT !.error = TRUE]
         /\ ~(s.error \/ Refuses(s, PageOf(a))) =>
              LET t == FileByte(s, a, byte, prot)
              IN /\ t.mem = [s.mem EXCEPT ![a] = byte] /\ t.kind = [s.kind EXCEPT ![PageOf(a)] = "own"]
                 /\ t.flags = [s.flags EXCEPT ![PageOf(a)] = IF s.kind[PageOf(a)] = "none" THEN prot ELSE @]
                 /\ t.error = s.error
<1> DEFINE g == PageOf(a)
           t == FileByte(s, a, byte, prot)
<1>1. s.mem \in Memory /\ s.kind \in [Page -> Kinds] /\ s.flags \in [Page -> Rights3] /\ s.error \in BOOLEAN
      /\ s = [mem |-> s.mem, kind |-> s.kind, flags |-> s.flags, error |-> s.error]
  BY DEF LoadState
<1>2. CASE s.error \/ Refuses(s, g)
  <2>1. t = [s EXCEPT !.error = TRUE] BY <1>2 DEF FileByte, Refuses
  <2> HIDE DEF t, g
  <2>2. t \in LoadState BY <1>1, <2>1 DEF LoadState
  <2> QED BY <1>2, <2>1, <2>2 DEF t, g
<1>3. CASE ~(s.error \/ Refuses(s, g))
  <2>1. t = [s EXCEPT !.mem[a] = byte, !.kind[g] = "own",
                      !.flags[g] = IF s.kind[g] = "none" THEN prot ELSE @]
    BY <1>3 DEF FileByte, Refuses
  <2> DEFINE p == IF s.kind[g] = "none" THEN prot ELSE s.flags[g]
  <2> HIDE DEF t, g
  <2>2. PICK m, k, f, e : m = s.mem /\ k = s.kind /\ f = s.flags /\ e = s.error OBVIOUS
  <2>3. s = [mem |-> m, kind |-> k, flags |-> f, error |-> e] BY <1>1, <2>2
  <2>4. t = [mem |-> [m EXCEPT ![a] = byte], kind |-> [k EXCEPT ![g] = "own"],
             flags |-> [f EXCEPT ![g] = p], error |-> e]
    BY <2>1, <2>2, <2>3
  <2>5. [m EXCEPT ![a] = byte] \in Memory BY <1>1, <2>2 DEF Memory
  <2>6. [k EXCEPT ![g] = "own"] \in [Page -> Kinds] BY <1>1, <2>2 DEF Kinds
  <2>7. [f EXCEPT ![g] = p] \in [Page -> Rights3] BY <1>1, <2>2
  <2>8. t \in LoadState BY <1>1, <2>2, <2>4, <2>5, <2>6, <2>7 DEF LoadState
  <2> QED BY <1>3, <2>2, <2>4, <2>8 DEF t, g
<1> QED BY <1>2, <1>3

LEMMA BssByteFacts ==
  ASSUME NEW s \in LoadState, NEW a, NEW prot \in Rights3
  PROVE  /\ BssByte(s, a, prot) \in LoadState
         /\ s.error \/ Ignores(s, PageOf(a)) => BssByte(s, a, prot) = s
         /\ ~(s.error \/ Ignores(s, PageOf(a))) =>
              LET t == BssByte(s, a, prot)
              IN /\ t.mem = s.mem /\ t.kind = [s.kind EXCEPT ![PageOf(a)] = "zero"]
                 /\ t.flags = [s.flags EXCEPT ![PageOf(a)] = prot] /\ t.error = s.error
<1> DEFINE g == PageOf(a)
           t == BssByte(s, a, prot)
<1>1. s.mem \in Memory /\ s.kind \in [Page -> Kinds] /\ s.flags \in [Page -> Rights3] /\ s.error \in BOOLEAN
      /\ s = [mem |-> s.mem, kind |-> s.kind, flags |-> s.flags, error |-> s.error]
  BY DEF LoadState
<1>2. CASE s.error \/ Ignores(s, g)
  <2>1. t = s BY <1>2 DEF BssByte, Ignores
  <2> QED BY <1>2, <2>1
<1>3. CASE ~(s.error \/ Ignores(s, g))
  <2>1. t = [s EXCEPT !.kind[g] = "zero", !.flags[g] = prot] BY <1>3 DEF BssByte, Ignores
  <2> HIDE DEF t, g
  <2>2. PICK m, k, f, e : m = s.mem /\ k = s.kind /\ f = s.flags /\ e = s.error OBVIOUS
  <2>3. s = [mem |-> m, kind |-> k, flags |-> f, error |-> e] BY <1>1, <2>2
  <2>4. t = [mem |-> m, kind |-> [k EXCEPT ![g] = "zero"], flags |-> [f EXCEPT ![g] = prot], error |-> e]
    BY <2>1, <2>2, <2>3
  <2>6. [k EXCEPT ![g] = "zero"] \in [Page -> Kinds] BY <1>1, <2>2 DEF Kinds
  <2>7. [f EXCEPT ![g] = prot] \in [Page -> Rights3] BY <1>1, <2>2
  <2>8. t \in LoadState BY <1>1, <2>2, <2>4, <2>6, <2>7 DEF LoadState
  <2> QED BY <1>3, <2>2, <2>4, <2>8 DEF t, g
<1> QED BY <1>2, <1>3

(* What a definition by steps computes.                                    *)
Follows(w, N, T, a, D) == w[0] = a /\ \A n \in 1..N : w[n - 1] \in T => w[n] = D[<<n, w[n - 1]>>]
SameTo(N, w, f) == \A n \in 0..N : w[n] = f[n]
LEMMA StepsUnique ==
  ASSUME NEW N \in Nat, NEW T, NEW a \in T, NEW D, NEW f \in [0..N -> T], Steps(f, N, a, D), NEW w,
         Follows(w, N, T, a, D)
  PROVE  SameTo(N, w, f)
<1> DEFINE S == {n \in Nat : n \in 0..N => w[n] = f[n]}
<1>1. 0 \in S BY DEF Steps, Follows
<1>2. \A n \in Nat : n \in S => n + 1 \in S
  <2> SUFFICES ASSUME NEW n \in S, n + 1 \in 0..N PROVE w[n + 1] = f[n + 1] OBVIOUS
  <2>1. n + 1 \in 1..N /\ n \in 0..N /\ (n + 1) - 1 = n OBVIOUS
  <2>2. w[n] = f[n] /\ w[n] \in T BY <2>1
  <2>3. w[n + 1] = D[<<n + 1, w[n]>>] BY <2>1, <2>2 DEF Follows
  <2>4. f[n + 1] = D[<<n + 1, f[n]>>] BY <2>1 DEF Steps
  <2> QED BY <2>2, <2>3, <2>4
<1> HIDE DEF S
<1>3. Nat \subseteq S BY <1>1, <1>2, Induction
<1> QED BY <1>3 DEF S, SameTo

(* A segment that is in its file and, where it is to be loaded, in memory. *)
Loadable(h, file) ==
  /\ h \in ProgramHeader
  /\ h.type = "load" => /\ h.filesz <= h.memsz /\ h.offset + h.filesz <= Len(file)
                        /\ h.vaddr + h.memsz <= Two[W]

CopiedSteps(s, h, file, f) ==
  /\ f \in [0..h.filesz -> LoadState] /\ f[0] = s
  /\ \A b \in 1..h.filesz : f[b] = FileByte(f[b - 1], h.vaddr + b - 1, file[h.offset + b], h.flags)
LEMMA CopiedEquation ==
  ASSUME NEW s \in LoadState, NEW file \in Seq(Byte), NEW h, Loadable(h, file), h.type = "load"
  PROVE  \E f : CopiedSteps(s, h, file, f) /\ Copied(s, h, file) = f[h.filesz]
<1> DEFINE N == h.filesz
           T == LoadState
           Next1(b, t) == FileByte(t, h.vaddr + b - 1, file[h.offset + b], h.flags)
           D == [c \in (1..N) \X T |-> Next1(c[1], c[2])]
<1>1. N \in Nat /\ h.offset \in Nat /\ h.flags \in Rights3 /\ h.offset + N <= Len(file)
  BY DEF Loadable, ProgramHeader, Rights3
<1>2. \A b \in 1..N, t \in T : Next1(b, t) \in T
  <2> SUFFICES ASSUME NEW b \in 1..N, NEW t \in T PROVE Next1(b, t) \in T OBVIOUS
  <2>1. Len(file) \in Nat /\ DOMAIN file = 1..Len(file) /\ \A k \in DOMAIN file : file[k] \in Byte
    <3> DEFINE X == Byte
    <3>1. file \in Seq(X) OBVIOUS
    <3> HIDE DEF X
    <3>2. Len(file) \in Nat /\ DOMAIN file = 1..Len(file) /\ \A k \in DOMAIN file : file[k] \in X BY <3>1
    <3> QED BY <3>2 DEF X
  <2>2. h.offset + b \in DOMAIN file BY <1>1, <2>1
  <2>3. file[h.offset + b] \in Byte BY <2>1, <2>2
  <2> QED BY <1>1, <2>3, FileByteFacts
<1>3. /\ D \in [(1..N) \X T -> T] /\ \A b \in 1..N, t \in T : D[<<b, t>>] = Next1(b, t)
  <2> HIDE DEF Next1, T, N
  <2>1. \A c \in (1..N) \X T : c[1] \in 1..N /\ c[2] \in T OBVIOUS
  <2> QED BY <1>2, <2>1
<1>4. s \in T OBVIOUS
<1> HIDE DEF D, T, N, Next1
<1>5. PICK f \in [0..N -> T] : Steps(f, N, s, D) BY <1>1, <1>3, <1>4, CountingDefines
<1>6. \A b \in 1..N : b - 1 \in 0..N BY <1>1
<1>7. \A b \in 1..N : f[b] = Next1(b, f[b - 1]) BY <1>3, <1>5, <1>6 DEF Steps
<1>8. f = [b \in 0..N |-> IF b = 0 THEN s ELSE Next1(b, f[b - 1])]
  <2>1. f[0] = s BY <1>5 DEF Steps
  <2>2. \A b \in 0..N : b # 0 => b \in 1..N BY <1>1
  <2>3. \A b \in 0..N : f[b] = IF b = 0 THEN s ELSE Next1(b, f[b - 1]) BY <1>7, <2>1, <2>2
  <2>4. f = [b \in 0..N |-> f[b]] BY <1>5
  <2> QED BY <2>3, <2>4
<1>9. PICK w : /\ w = [b \in 0..N |-> IF b = 0 THEN s ELSE Next1(b, w[b - 1])]
               /\ Copied(s, h, file) = w[N]
  <2> DEFINE v == CHOOSE g : g = [b \in 0..N |-> IF b = 0 THEN s ELSE Next1(b, g[b - 1])]
  <2>1. v = [b \in 0..N |-> IF b = 0 THEN s ELSE Next1(b, v[b - 1])] BY <1>8
  <2>2. Copied(s, h, file) = v[N] BY DEF Copied, N, Next1
  <2> HIDE DEF v
  <2> QED BY <2>1, <2>2
<1>10. w[0] = s /\ \A b \in 1..N : w[b] = Next1(b, w[b - 1])
  <2>1. 0 \in 0..N /\ \A b \in 1..N : b \in 0..N /\ b # 0 BY <1>1
  <2> QED BY <1>9, <2>1
<1>11. \A b \in 0..N : w[b] = f[b]
  <2>1. Follows(w, N, T, s, D) BY <1>3, <1>10 DEF Follows
  <2>2. SameTo(N, w, f) BY <1>1, <1>4, <1>5, <2>1, StepsUnique
  <2> QED BY <2>2 DEF SameTo
<1>12. Copied(s, h, file) = f[N] BY <1>1, <1>9, <1>11
<1>13. f[0] = s BY <1>5 DEF Steps
<1> QED BY <1>5, <1>7, <1>12, <1>13 DEF CopiedSteps, N, T, Next1

BssSteps(s, h, f) ==
  /\ f \in [0..h.memsz -> LoadState]
  /\ \A b \in 0..h.memsz : f[b] = IF b <= h.filesz THEN s ELSE BssByte(f[b - 1], h.vaddr + b - 1, h.flags)
LEMMA BssEquation ==
  ASSUME NEW s \in LoadState, NEW file, NEW h, Loadable(h, file), h.type = "load"
  PROVE  \E f : BssSteps(s, h, f) /\ Bss(s, h) = f[h.memsz]
<1> DEFINE N == h.memsz
           T == LoadState
           Next1(b, t) == IF b <= h.filesz THEN s ELSE BssByte(t, h.vaddr + b - 1, h.flags)
           D == [c \in (1..N) \X T |-> Next1(c[1], c[2])]
<1>1. N \in Nat /\ h.filesz \in Nat /\ h.flags \in Rights3
  BY DEF Loadable, ProgramHeader, Rights3
<1>2. \A b \in 1..N, t \in T : Next1(b, t) \in T BY <1>1, BssByteFacts
<1>3. /\ D \in [(1..N) \X T -> T] /\ \A b \in 1..N, t \in T : D[<<b, t>>] = Next1(b, t)
  <2> HIDE DEF Next1, T, N
  <2>1. \A c \in (1..N) \X T : c[1] \in 1..N /\ c[2] \in T OBVIOUS
  <2> QED BY <1>2, <2>1
<1>4. s \in T OBVIOUS
<1>5. \A v : \A b \in 0..N :
        (IF b <= h.filesz THEN s ELSE BssByte(v[b - 1], h.vaddr + b - 1, h.flags))
          = IF b = 0 THEN s ELSE Next1(b, v[b - 1])
  BY <1>1
<1> DEFINE v == CHOOSE g : g = [b \in 0..N |-> IF b <= h.filesz THEN s ELSE BssByte(g[b - 1], h.vaddr + b - 1, h.flags)]
<1>6. Bss(s, h) = v[N] BY DEF Bss
<1> HIDE DEF D, T, N, Next1
<1>7. PICK f \in [0..N -> T] : Steps(f, N, s, D) BY <1>1, <1>3, <1>4, CountingDefines
<1>8. \A b \in 1..N : b - 1 \in 0..N BY <1>1
<1>9. f[0] = s /\ \A b \in 1..N : f[b] = Next1(b, f[b - 1]) BY <1>3, <1>7, <1>8 DEF Steps
<1>10. \A b \in 0..N : f[b] = IF b = 0 THEN s ELSE Next1(b, f[b - 1])
  <2>1. \A b \in 0..N : b # 0 => b \in 1..N BY <1>1
  <2> QED BY <1>9, <2>1
<1>11. \A b \in 0..N : f[b] = IF b <= h.filesz THEN s ELSE BssByte(f[b - 1], h.vaddr + b - 1, h.flags)
  BY <1>5, <1>10
<1>12. f = [b \in 0..N |-> IF b <= h.filesz THEN s ELSE BssByte(f[b - 1], h.vaddr + b - 1, h.flags)]
  <2>1. f = [b \in 0..N |-> f[b]] BY <1>7
  <2> QED BY <1>11, <2>1
<1>13. v = [b \in 0..N |-> IF b <= h.filesz THEN s ELSE BssByte(v[b - 1], h.vaddr + b - 1, h.flags)]
  BY <1>12
<1> HIDE DEF v
<1>14. v[0] = s /\ \A b \in 1..N : v[b] = Next1(b, v[b - 1])
  <2>1. \A b \in 0..N : v[b] = IF b = 0 THEN s ELSE Next1(b, v[b - 1])
    <3>1. \A b \in 0..N : v[b] = IF b <= h.filesz THEN s ELSE BssByte(v[b - 1], h.vaddr + b - 1, h.flags)
      BY <1>13
    <3> QED BY <1>5, <3>1
  <2>2. 0 \in 0..N /\ \A b \in 1..N : b \in 0..N /\ b # 0 BY <1>1
  <2> QED BY <2>1, <2>2
<1>15. Follows(v, N, T, s, D) BY <1>3, <1>14 DEF Follows
<1>16. SameTo(N, v, f) BY <1>1, <1>4, <1>7, <1>15, StepsUnique
<1>17. Bss(s, h) = f[N] BY <1>1, <1>6, <1>16 DEF SameTo
<1> QED BY <1>7, <1>11, <1>17 DEF BssSteps, N, T

LEMMA LoadSegmentTyped ==
  ASSUME NEW s \in LoadState, NEW file \in Seq(Byte), NEW h, Loadable(h, file)
  PROVE  LoadSegment(s, h, file) \in LoadState
<1>1. CASE h.type = "load"
  <2>1. h.filesz \in Nat /\ h.memsz \in Nat BY DEF Loadable, ProgramHeader
  <2>2. PICK f : CopiedSteps(s, h, file, f) /\ Copied(s, h, file) = f[h.filesz] BY <1>1, CopiedEquation
  <2>3. Copied(s, h, file) \in LoadState BY <2>1, <2>2 DEF CopiedSteps
  <2> DEFINE t == Copied(s, h, file)
  <2>4. t \in LoadState BY <2>3
  <2> HIDE DEF t
  <2>5. PICK g : BssSteps(t, h, g) /\ Bss(t, h) = g[h.memsz] BY <1>1, <2>4, BssEquation
  <2>6. Bss(t, h) \in LoadState BY <2>1, <2>5 DEF BssSteps
  <2> QED BY <1>1, <2>6 DEF LoadSegment, t
<1>2. CASE h.type # "load" BY <1>2 DEF LoadSegment
<1> QED BY <1>1, <1>2

SegmentSteps(s, headers, file, f) ==
  /\ f \in [0..Len(headers) -> LoadState] /\ f[0] = s
  /\ \A n \in 1..Len(headers) : f[n] = LoadSegment(f[n - 1], headers[n], file)
LEMMA SegmentsEquation ==
  ASSUME NEW s \in LoadState, NEW file \in Seq(Byte), NEW headers, Len(headers) \in Nat,
         \A n \in 1..Len(headers) : Loadable(headers[n], file)
  PROVE  \E f : SegmentSteps(s, headers, file, f) /\ LoadSegments(s, headers, file) = f[Len(headers)]
<1> DEFINE N == Len(headers)
           T == LoadState
           Next1(n, t) == LoadSegment(t, headers[n], file)
           D == [c \in (1..N) \X T |-> Next1(c[1], c[2])]
<1>1. N \in Nat OBVIOUS
<1>2. \A b \in 1..N, t \in T : Next1(b, t) \in T BY LoadSegmentTyped
<1>3. /\ D \in [(1..N) \X T -> T] /\ \A b \in 1..N, t \in T : D[<<b, t>>] = Next1(b, t)
  <2> HIDE DEF Next1, T, N
  <2>1. \A c \in (1..N) \X T : c[1] \in 1..N /\ c[2] \in T OBVIOUS
  <2> QED BY <1>2, <2>1
<1>4. s \in T OBVIOUS
<1> DEFINE v == CHOOSE g : g = [n \in 0..N |-> IF n = 0 THEN s ELSE Next1(n, g[n - 1])]
<1>5. LoadSegments(s, headers, file) = v[N] BY DEF LoadSegments
<1> HIDE DEF D, T, N, Next1
<1>6. PICK f \in [0..N -> T] : Steps(f, N, s, D) BY <1>1, <1>3, <1>4, CountingDefines
<1>7. \A b \in 1..N : b - 1 \in 0..N BY <1>1
<1>8. f[0] = s /\ \A b \in 1..N : f[b] = Next1(b, f[b - 1]) BY <1>3, <1>6, <1>7 DEF Steps
<1>9. f = [n \in 0..N |-> IF n = 0 THEN s ELSE Next1(n, f[n - 1])]
  <2>1. \A b \in 0..N : b # 0 => b \in 1..N BY <1>1
  <2>2. \A b \in 0..N : f[b] = IF b = 0 THEN s ELSE Next1(b, f[b - 1]) BY <1>8, <2>1
  <2>3. f = [b \in 0..N |-> f[b]] BY <1>6
  <2> QED BY <2>2, <2>3
<1>10. v = [n \in 0..N |-> IF n = 0 THEN s ELSE Next1(n, v[n - 1])] BY <1>9
<1> HIDE DEF v
<1>11. v[0] = s /\ \A b \in 1..N : v[b] = Next1(b, v[b - 1])
  <2>1. 0 \in 0..N /\ \A b \in 1..N : b \in 0..N /\ b # 0 BY <1>1
  <2> QED BY <1>10, <2>1
<1>12. Follows(v, N, T, s, D) BY <1>3, <1>11 DEF Follows
<1>13. SameTo(N, v, f) BY <1>1, <1>4, <1>6, <1>12, StepsUnique
<1>14. LoadSegments(s, headers, file) = f[N] BY <1>1, <1>5, <1>13 DEF SameTo
<1> QED BY <1>6, <1>8, <1>14 DEF SegmentSteps, N, T, Next1

(* Sequences as functions.                                                 *)
LEMMA SeqFacts ==
  ASSUME NEW S, NEW s \in Seq(S)
  PROVE  Len(s) \in Nat /\ DOMAIN s = 1..Len(s) /\ \A k \in DOMAIN s : s[k] \in S
BY LenProperties, ElementOfSeq
LEMMA SeqOfFunction ==
  ASSUME NEW n \in Nat, NEW S, NEW f \in [1..n -> S] PROVE f \in Seq(S) /\ Len(f) = n
<1>1. f \in Seq(S) BY SeqDef
<1>2. DOMAIN f = 1..n /\ DOMAIN f = 1..Len(f) /\ Len(f) \in Nat BY <1>1, LenProperties
<1> QED BY <1>1, <1>2
LEMMA ConcatFacts ==
  ASSUME NEW S, NEW s \in Seq(S), NEW t \in Seq(S)
  PROVE  /\ s \o t \in Seq(S) /\ Len(s \o t) = Len(s) + Len(t)
         /\ \A i \in 1..Len(s) : (s \o t)[i] = s[i]
         /\ \A i \in 1..Len(t) : (s \o t)[Len(s) + i] = t[i]
<1> DEFINE u == s \o t
<1>1. Len(s) \in Nat /\ Len(t) \in Nat BY LenProperties
<1>2. /\ u \in Seq(S) /\ Len(u) = Len(s) + Len(t)
      /\ \A i \in 1..Len(s) + Len(t) : u[i] = IF i <= Len(s) THEN s[i] ELSE t[i - Len(s)]
  BY ConcatProperties
<1> HIDE DEF u
<1>3. \A i \in 1..Len(t) : u[Len(s) + i] = t[i]
  <2> SUFFICES ASSUME NEW i \in 1..Len(t) PROVE u[Len(s) + i] = t[i] OBVIOUS
  <2>1. Len(s) + i \in 1..Len(s) + Len(t) /\ ~(Len(s) + i <= Len(s)) /\ (Len(s) + i) - Len(s) = i BY <1>1
  <2> QED BY <1>2, <2>1
<1>4. \A i \in 1..Len(s) : u[i] = s[i] BY <1>1, <1>2
<1> QED BY <1>2, <1>3, <1>4 DEF u

(* The segments of an executable can be loaded.                            *)
LEMMA MovedFacts ==
  ASSUME NEW e, NEW bias \in Nat, WellFormed(e, bias)
  PROVE  LET hs == Moved(e.headers, bias)
         IN /\ Len(hs) \in Nat /\ Len(hs) = Len(e.headers) /\ DOMAIN hs = 1..Len(hs)
            /\ \A n \in 1..Len(hs) : /\ Loadable(hs[n], e.file) /\ hs[n].vaddr = e.headers[n].vaddr + bias
                                     /\ hs[n].type = e.headers[n].type /\ hs[n].offset = e.headers[n].offset
            /\ LoadsOf(hs) = LoadsOf(e.headers)
<1> DEFINE hs == Moved(e.headers, bias)
           n0 == Len(e.headers)
           P == ProgramHeader
<1>1. e.headers \in Seq(P) /\ e.file \in Seq(Byte) BY DEF WellFormed
<1> HIDE DEF P
<1>2. n0 \in Nat /\ DOMAIN e.headers = 1..n0 /\ \A k \in DOMAIN e.headers : e.headers[k] \in P
  BY <1>1, SeqFacts
<1>3. hs = [i \in 1..n0 |-> [e.headers[i] EXCEPT !.vaddr = @ + bias]] BY <1>2 DEF Moved
<1>4. ASSUME NEW h \in P
      PROVE  LET g == [h EXCEPT !.vaddr = @ + bias]
             IN /\ g \in P /\ g.type = h.type /\ g.offset = h.offset /\ g.vaddr = h.vaddr + bias
                /\ g.filesz = h.filesz /\ g.memsz = h.memsz /\ g.flags = h.flags
  BY DEF P, ProgramHeader
<1>5. \A i \in 1..n0 :
        /\ hs[i] \in P /\ hs[i].type = e.headers[i].type /\ hs[i].offset = e.headers[i].offset
        /\ hs[i].vaddr = e.headers[i].vaddr + bias /\ hs[i].filesz = e.headers[i].filesz
        /\ hs[i].memsz = e.headers[i].memsz
  BY <1>2, <1>3, <1>4
<1>6. hs \in [1..n0 -> P] BY <1>3, <1>5
<1> HIDE DEF hs, n0
<1>7. Len(hs) = n0 BY <1>2, <1>6, SeqOfFunction
<1>8. DOMAIN hs = 1..n0 BY <1>6
<1>9. \A i \in 1..n0 : Loadable(hs[i], e.file)
  <2> SUFFICES ASSUME NEW i \in 1..n0 PROVE Loadable(hs[i], e.file) OBVIOUS
  <2>1. ASSUME hs[i].type = "load"
        PROVE  /\ hs[i].filesz <= hs[i].memsz /\ hs[i].offset + hs[i].filesz <= Len(e.file)
               /\ hs[i].vaddr + hs[i].memsz <= Two[W]
    <3>1. i \in LoadsOf(e.headers) BY <1>2, <1>5, <2>1 DEF LoadsOf
    <3>2. /\ e.headers[i].filesz <= e.headers[i].memsz
          /\ e.headers[i].offset + e.headers[i].filesz <= Len(e.file)
          /\ e.headers[i].vaddr + bias + e.headers[i].memsz <= Two[W]
      BY <3>1 DEF WellFormed
    <3> QED BY <1>5, <3>2
  <2> QED BY <1>5, <2>1 DEF Loadable, P
<1>10. LoadsOf(hs) = LoadsOf(e.headers) BY <1>2, <1>5, <1>8 DEF LoadsOf
<1> QED BY <1>2, <1>5, <1>7, <1>8, <1>9, <1>10 DEF hs, n0

LEMMA BlankTyped == Blank \in LoadState
<1>1. 0 \in Byte BY WordFacts, BytePowers DEF Byte
<1>2. [a \in Address |-> 0] \in Memory BY <1>1 DEF Memory
<1> QED BY <1>2 DEF Blank, LoadState, Kinds, Rights3

LEMMA ExecutableFacts ==
  ASSUME NEW x, Executable(x)
  PROVE  /\ WellFormed(x, Bias(x)) /\ Bias(x) \in Nat /\ x.phoff \in Nat /\ x.entry \in Nat
         /\ x.file \in Seq(Byte)
         /\ x.interp # <<>> => /\ WellFormed(x.interp[1], InterpBias) /\ InterpBias \in Nat
                               /\ x.interp[1].entry \in Nat /\ x.interp[1].file \in Seq(Byte)
         /\ x.argv \in Seq(Seq(Byte \ {0})) /\ x.envp \in Seq(Seq(Byte \ {0}))
<1>1. Bias(x) \in Nat /\ InterpBias \in Nat BY LoaderAssumption DEF Bias
<1>2. /\ WellFormed(x, Bias(x)) /\ x.phoff \in Nat /\ (x.interp # <<>> => WellFormed(x.interp[1], InterpBias))
      /\ x.argv \in Seq(Seq(Byte \ {0})) /\ x.envp \in Seq(Seq(Byte \ {0}))
  BY DEF Executable
<1>3. x.entry \in Nat /\ x.file \in Seq(Byte) BY <1>2 DEF WellFormed
<1>4. x.interp # <<>> => x.interp[1].entry \in Nat /\ x.interp[1].file \in Seq(Byte) BY <1>2 DEF WellFormed
<1> QED BY <1>1, <1>2, <1>3, <1>4

LEMMA SegmentsTyped == ASSUME NEW x, Executable(x) PROVE Segments(x) \in LoadState
<1> DEFINE own == LoadSegments(Blank, Headers(x), x.file)
<1>1. /\ WellFormed(x, Bias(x)) /\ Bias(x) \in Nat /\ x.file \in Seq(Byte)
      /\ x.interp # <<>> => WellFormed(x.interp[1], InterpBias) /\ InterpBias \in Nat /\ x.interp[1].file \in Seq(Byte)
  BY ExecutableFacts
<1>2. \A s \in LoadState : \A bias \in Nat : \A e :
         WellFormed(e, bias) /\ e.file \in Seq(Byte) => LoadSegments(s, Moved(e.headers, bias), e.file) \in LoadState
  <2> SUFFICES ASSUME NEW s \in LoadState, NEW bias \in Nat, NEW e, WellFormed(e, bias), e.file \in Seq(Byte)
               PROVE  LoadSegments(s, Moved(e.headers, bias), e.file) \in LoadState
    OBVIOUS
  <2> DEFINE hs == Moved(e.headers, bias)
             file == e.file
  <2>1. Len(hs) \in Nat /\ \A n \in 1..Len(hs) : Loadable(hs[n], file) BY MovedFacts
  <2>2. file \in Seq(Byte) OBVIOUS
  <2> HIDE DEF hs, file
  <2>3. PICK f : SegmentSteps(s, hs, file, f) /\ LoadSegments(s, hs, file) = f[Len(hs)]
    BY <2>1, <2>2, SegmentsEquation
  <2>4. LoadSegments(s, hs, file) \in LoadState BY <2>1, <2>3 DEF SegmentSteps
  <2> QED BY <2>4 DEF hs, file
<1>3. own \in LoadState BY <1>1, <1>2, BlankTyped DEF Headers
<1> HIDE DEF own
<1>4. x.interp # <<>> => LoadSegments(own, InterpHeaders(x), x.interp[1].file) \in LoadState
  BY <1>1, <1>2, <1>3 DEF InterpHeaders
<1> QED BY <1>3, <1>4 DEF Segments, own

LEMMA ZeroPagesTyped ==
  ASSUME NEW s \in LoadState
  PROVE  /\ WithZeroPages(s) \in LoadState /\ WithZeroPages(s).error = s.error
         /\ \A a \in Word : PageOf(a) \notin HeapPages \cup StackPages \cup {ArgPage} =>
                            WithZeroPages(s).mem[a] = s.mem[a]
         /\ \A g \in Page : g \notin HeapPages \cup StackPages \cup {ArgPage} =>
                            WithZeroPages(s).flags[g] = s.flags[g]
<1> DEFINE fresh == HeapPages \cup StackPages \cup {ArgPage}
           m == [a \in Address |-> IF PageOf(a) \in fresh THEN 0 ELSE s.mem[a]]
           k == [g \in Page |-> IF g \in fresh THEN "zero" ELSE s.kind[g]]
           f == [g \in Page |-> IF g \in fresh THEN {"R", "W"} ELSE s.flags[g]]
<1>1. s.mem \in Memory /\ s.kind \in [Page -> Kinds] /\ s.flags \in [Page -> Rights3] /\ s.error \in BOOLEAN
      /\ s = [mem |-> s.mem, kind |-> s.kind, flags |-> s.flags, error |-> s.error]
  BY DEF LoadState
<1>2. 0 \in Byte BY WordFacts, BytePowers DEF Byte
<1>3. m \in Memory BY <1>1, <1>2 DEF Memory
<1>4. k \in [Page -> Kinds] BY <1>1 DEF Kinds
<1>5. f \in [Page -> Rights3] BY <1>1 DEF Rights3
<1>6. WithZeroPages(s) = [s EXCEPT !.mem = m, !.kind = k, !.flags = f] BY DEF WithZeroPages
<1> HIDE DEF m, k, f
<1>7. WithZeroPages(s).mem = m /\ WithZeroPages(s).kind = k /\ WithZeroPages(s).flags = f
      /\ WithZeroPages(s).error = s.error
      /\ WithZeroPages(s) = [mem |-> m, kind |-> k, flags |-> f, error |-> s.error]
  <2> PICK m0, k0, f0, e0 : m0 = s.mem /\ k0 = s.kind /\ f0 = s.flags /\ e0 = s.error OBVIOUS
  <2>1. s = [mem |-> m0, kind |-> k0, flags |-> f0, error |-> e0] BY <1>1
  <2>2. WithZeroPages(s) = [mem |-> m, kind |-> k, flags |-> f, error |-> e0] BY <1>6, <2>1
  <2> QED BY <2>2
<1>8. \A a \in Word : PageOf(a) \notin fresh => m[a] = s.mem[a] BY DEF m, Address
<1>9. \A g \in Page : g \notin fresh => f[g] = s.flags[g] BY DEF f
<1> QED BY <1>1, <1>3, <1>4, <1>5, <1>7, <1>8, <1>9 DEF LoadState

(* The frame that a program is started with.                               *)
LEMMA FirstFacts ==
  ASSUME NEW found, found \subseteq Nat, found # {} PROVE FirstOf(found) \in found /\ \A l \in found : FirstOf(found) <= l
<1>1. \E k \in found : \A l \in found : k <= l BY LeastExists
<1> QED BY <1>1 DEF FirstOf

LEMMA BasesTyped == ASSUME NEW x, Executable(x) PROVE BaseAddress(x) \in Int /\ InterpBase(x) \in Int
<1>1. WellFormed(x, Bias(x)) /\ Bias(x) \in Nat
      /\ (x.interp # <<>> => WellFormed(x.interp[1], InterpBias) /\ InterpBias \in Nat)
  BY ExecutableFacts
<1>2. \A e : \A bias \in Nat : WellFormed(e, bias) =>
        /\ LoadsOf(Moved(e.headers, bias)) # {} /\ LoadsOf(Moved(e.headers, bias)) \subseteq Nat
        /\ DOMAIN Moved(e.headers, bias) \subseteq Nat
        /\ \A k \in DOMAIN Moved(e.headers, bias) : BaseOf(Moved(e.headers, bias)[k]) \in Int
  <2> SUFFICES ASSUME NEW e, NEW bias \in Nat, WellFormed(e, bias)
               PROVE  /\ LoadsOf(Moved(e.headers, bias)) # {} /\ LoadsOf(Moved(e.headers, bias)) \subseteq Nat
                      /\ DOMAIN Moved(e.headers, bias) \subseteq Nat
                      /\ \A k \in DOMAIN Moved(e.headers, bias) : BaseOf(Moved(e.headers, bias)[k]) \in Int
    OBVIOUS
  <2> DEFINE hs == Moved(e.headers, bias)
  <2>1. /\ Len(hs) \in Nat /\ DOMAIN hs = 1..Len(hs)
        /\ \A n \in 1..Len(hs) : Loadable(hs[n], e.file)
        /\ LoadsOf(hs) = LoadsOf(e.headers)
    BY MovedFacts
  <2>2. LoadsOf(e.headers) # {} BY DEF WellFormed
  <2> HIDE DEF hs
  <2>3. \A n \in 1..Len(hs) : hs[n].vaddr \in Nat /\ hs[n].offset \in Nat
    BY <2>1 DEF Loadable, ProgramHeader
  <2>4. \A n \in 1..Len(hs) : BaseOf(hs[n]) \in Int BY <2>3 DEF BaseOf
  <2>5. LoadsOf(hs) \subseteq Nat BY <2>1 DEF LoadsOf
  <2>6. DOMAIN hs \subseteq Nat BY <2>1
  <2> QED BY <2>1, <2>2, <2>4, <2>5, <2>6 DEF hs
<1>3. BaseAddress(x) \in Int
  <2> DEFINE hs == Headers(x)
             first == FirstOf(LoadsOf(hs))
  <2>1. LoadsOf(hs) # {} /\ LoadsOf(hs) \subseteq Nat /\ \A k \in DOMAIN hs : BaseOf(hs[k]) \in Int
    BY <1>1, <1>2 DEF Headers
  <2>2. first \in LoadsOf(hs)
    <3> DEFINE found == LoadsOf(hs)
    <3>1. found # {} /\ found \subseteq Nat BY <2>1
    <3> HIDE DEF found
    <3>2. FirstOf(found) \in found BY <3>1, FirstFacts
    <3> QED BY <3>2 DEF found
  <2>3. BaseAddress(x) = BaseOf(hs[first]) BY DEF BaseAddress, FirstLoad
  <2>4. first \in DOMAIN hs BY <2>2 DEF LoadsOf
  <2> QED BY <2>1, <2>3, <2>4
<1>4. CASE x.interp = <<>> \/ Rebasing(x) = {}
  BY <1>3, <1>4 DEF InterpBase
<1>5. CASE x.interp # <<>> /\ Rebasing(x) # {}
  <2> DEFINE hs == InterpHeaders(x)
             found == Rebasing(x)
  <2>1. DOMAIN hs \subseteq Nat /\ \A k \in DOMAIN hs : BaseOf(hs[k]) \in Int
    BY <1>1, <1>2, <1>5 DEF InterpHeaders
  <2>2. found \subseteq DOMAIN hs BY DEF Rebasing
  <2>3. InterpBase(x) = BaseOf(hs[FirstOf(found)]) BY <1>5 DEF InterpBase
  <2> HIDE DEF hs
  <2>4. found # {} /\ found \subseteq Nat BY <1>5, <2>1, <2>2
  <2> HIDE DEF found
  <2>5. FirstOf(found) \in found BY <2>4, FirstFacts
  <2> DEFINE first == FirstOf(found)
  <2>6. first \in DOMAIN hs /\ InterpBase(x) = BaseOf(hs[first]) BY <2>2, <2>3, <2>5
  <2> HIDE DEF first
  <2> QED BY <1>3, <2>1, <2>6
<1> QED BY <1>3, <1>4, <1>5

(* Where the strings are.                                                  *)
LEMMA StringsFacts ==
  ASSUME NEW x, Executable(x)
  PROVE  /\ Strings(x) \in Seq(Seq(Byte \ {0})) /\ Len(Strings(x)) = Len(x.argv) + Len(x.envp)
         /\ Len(x.argv) \in Nat /\ Len(x.envp) \in Nat
         /\ DOMAIN x.argv = 1..Len(x.argv) /\ DOMAIN x.envp = 1..Len(x.envp)
         /\ DOMAIN Strings(x) = 1..Len(Strings(x)) /\ Len(Strings(x)) \in Nat
         /\ \A k \in DOMAIN Strings(x) : Strings(x)[k] \in Seq(Byte \ {0}) /\ Len(Strings(x)[k]) \in Nat
         /\ \A k \in 1..Len(x.argv) : Strings(x)[k] = x.argv[k]
         /\ \A k \in 1..Len(x.envp) : Strings(x)[Len(x.argv) + k] = x.envp[k]
<1> DEFINE X == Byte \ {0}
           S == Seq(X)
           a == x.argv
           e == x.envp
<1>1. a \in Seq(S) /\ e \in Seq(S) BY ExecutableFacts
<1>2. Strings(x) = a \o e BY DEF Strings
<1>3. \A s \in S : Len(s) \in Nat
  <2> HIDE DEF X
  <2> QED BY LenProperties
<1> HIDE DEF S, a, e
<1>4. /\ Strings(x) \in Seq(S) /\ Len(Strings(x)) = Len(a) + Len(e)
      /\ \A k \in 1..Len(a) : Strings(x)[k] = a[k]
      /\ \A k \in 1..Len(e) : Strings(x)[Len(a) + k] = e[k]
  BY <1>1, <1>2, ConcatFacts
<1>5. Len(a) \in Nat /\ Len(e) \in Nat /\ DOMAIN a = 1..Len(a) /\ DOMAIN e = 1..Len(e) BY <1>1, SeqFacts
<1>6. DOMAIN Strings(x) = 1..Len(Strings(x)) /\ Len(Strings(x)) \in Nat /\ \A k \in DOMAIN Strings(x) : Strings(x)[k] \in S
  BY <1>4, SeqFacts
<1>7. \A k \in DOMAIN Strings(x) : Strings(x)[k] \in S /\ Len(Strings(x)[k]) \in Nat BY <1>3, <1>6
<1>8. Strings(x) \in Seq(Seq(Byte \ {0})) BY ONLY <1>4, Zenon DEF S, X
<1>9. \A k \in DOMAIN Strings(x) : Strings(x)[k] \in Seq(Byte \ {0}) /\ Len(Strings(x)[k]) \in Nat
  BY ONLY <1>7, Zenon DEF S, X
<1>10. /\ Len(Strings(x)) = Len(x.argv) + Len(x.envp)
       /\ Len(x.argv) \in Nat /\ Len(x.envp) \in Nat
       /\ DOMAIN x.argv = 1..Len(x.argv) /\ DOMAIN x.envp = 1..Len(x.envp)
       /\ DOMAIN Strings(x) = 1..Len(Strings(x)) /\ Len(Strings(x)) \in Nat
       /\ \A k \in 1..Len(x.argv) : Strings(x)[k] = x.argv[k]
       /\ \A k \in 1..Len(x.envp) : Strings(x)[Len(x.argv) + k] = x.envp[k]
  BY <1>4, <1>5, <1>6 DEF a, e
<1> QED BY ONLY <1>8, <1>9, <1>10, Zenon

PointerSteps(x, f) ==
  /\ f \in [0..Len(Strings(x)) -> Nat] /\ f[0] = ArgBase
  /\ \A n \in 1..Len(Strings(x)) : f[n] = f[n - 1] + Len(Strings(x)[n]) + 1
LEMMA PointerEquation ==
  ASSUME NEW x, Executable(x)
  PROVE  \E f : PointerSteps(x, f) /\ \A k \in 1..(Len(Strings(x)) + 1) : PointerTo(x, k) = f[k - 1]
<1> DEFINE N == Len(Strings(x))
           T == Nat
           Next1(n, t) == t + Len(Strings(x)[n]) + 1
           D == [c \in (1..N) \X T |-> Next1(c[1], c[2])]
<1>1. N \in Nat BY StringsFacts
<1>2. \A b \in 1..N, t \in T : Next1(b, t) \in T
  <2>1. \A k \in 1..N : Len(Strings(x)[k]) \in Nat BY StringsFacts
  <2> QED BY <2>1
<1>3. /\ D \in [(1..N) \X T -> T] /\ \A b \in 1..N, t \in T : D[<<b, t>>] = Next1(b, t)
  <2> HIDE DEF Next1, T, N
  <2>1. \A c \in (1..N) \X T : c[1] \in 1..N /\ c[2] \in T OBVIOUS
  <2> QED BY <1>2, <2>1
<1>4. ArgBase \in T
  <2>1. PageSize \in Nat /\ ArgPage \in Nat /\ ArgBase = ArgPage * PageSize
    BY LoaderAssumption
  <2> QED BY <2>1
<1> DEFINE v == CHOOSE g : g = [n \in 0..N |-> IF n = 0 THEN ArgBase ELSE Next1(n, g[n - 1])]
<1>5. \A k : PointerTo(x, k) = v[k - 1] BY DEF PointerTo
<1> HIDE DEF D, T, N, Next1
<1>6. PICK f \in [0..N -> T] : Steps(f, N, ArgBase, D) BY <1>1, <1>3, <1>4, CountingDefines
<1>7. \A b \in 1..N : b - 1 \in 0..N BY <1>1
<1>8. f[0] = ArgBase /\ \A b \in 1..N : f[b] = Next1(b, f[b - 1]) BY <1>3, <1>6, <1>7 DEF Steps
<1>9. f = [n \in 0..N |-> IF n = 0 THEN ArgBase ELSE Next1(n, f[n - 1])]
  <2>1. \A b \in 0..N : b # 0 => b \in 1..N BY <1>1
  <2>2. \A b \in 0..N : f[b] = IF b = 0 THEN ArgBase ELSE Next1(b, f[b - 1]) BY <1>8, <2>1
  <2>3. f = [b \in 0..N |-> f[b]] BY <1>6
  <2> QED BY <2>2, <2>3
<1>10. v = [n \in 0..N |-> IF n = 0 THEN ArgBase ELSE Next1(n, v[n - 1])] BY <1>9
<1> HIDE DEF v
<1>11. v[0] = ArgBase /\ \A b \in 1..N : v[b] = Next1(b, v[b - 1])
  <2>1. 0 \in 0..N /\ \A b \in 1..N : b \in 0..N /\ b # 0 BY <1>1
  <2> QED BY <1>10, <2>1
<1>12. Follows(v, N, T, ArgBase, D) BY <1>3, <1>11 DEF Follows
<1>13. SameTo(N, v, f) BY <1>1, <1>4, <1>6, <1>12, StepsUnique
<1>14. \A k \in 1..(N + 1) : PointerTo(x, k) = f[k - 1]
  <2>1. \A k \in 1..(N + 1) : k - 1 \in 0..N BY <1>1
  <2> QED BY <1>5, <1>13, <2>1 DEF SameTo
<1> QED BY <1>6, <1>8, <1>14 DEF PointerSteps, N, T, Next1

LEMMA PointersTyped ==
  ASSUME NEW x, Executable(x) PROVE \A k \in 1..(Len(Strings(x)) + 1) : PointerTo(x, k) \in Nat
<1>1. PICK f : PointerSteps(x, f) /\ \A k \in 1..(Len(Strings(x)) + 1) : PointerTo(x, k) = f[k - 1]
  BY PointerEquation
<1>2. Len(Strings(x)) \in Nat BY StringsFacts
<1>3. \A k \in 1..(Len(Strings(x)) + 1) : k - 1 \in 0..Len(Strings(x)) BY <1>2
<1> QED BY <1>1, <1>3 DEF PointerSteps

LEMMA WithStringsTyped ==
  ASSUME NEW x, Executable(x), NEW m \in Memory PROVE WithStrings(m, x) \in Memory
<1> DEFINE s == Strings(x)
           at(k) == PointerTo(x, k)
           holding(a) == {k \in DOMAIN s : at(k) <= a /\ a <= at(k) + Len(s[k])}
           byte(a, k) == Append(s[k], 0)[a - at(k) + 1]
<1>1. WithStrings(m, x) = [a \in Address |-> IF holding(a) = {} THEN m[a] ELSE byte(a, CHOOSE k \in holding(a) : TRUE)]
  BY DEF WithStrings
<1>2. 0 \in Byte BY WordFacts, BytePowers DEF Byte
<1>3. \A k \in DOMAIN s : s[k] \in Seq(Byte) /\ Len(s[k]) \in Nat /\ at(k) \in Nat
  <2>1. DOMAIN s = 1..Len(s) /\ Len(s) \in Nat /\ \A k \in DOMAIN s : s[k] \in Seq(Byte \ {0}) /\ Len(s[k]) \in Nat
    BY StringsFacts
  <2>2. \A k \in DOMAIN s : at(k) \in Nat
    <3>1. \A k \in 1..(Len(s) + 1) : at(k) \in Nat BY PointersTyped
    <3>2. \A k \in DOMAIN s : k \in 1..(Len(s) + 1) BY <2>1
    <3> QED BY <3>1, <3>2
  <2>3. \A t \in Seq(Byte \ {0}) : t \in Seq(Byte)
    <3>1. Byte \ {0} \subseteq Byte OBVIOUS
    <3> QED BY <3>1, SeqMonotonic
  <2> QED BY <2>1, <2>2, <2>3
<1>4. \A a \in Address : \A k \in holding(a) : byte(a, k) \in Byte
  <2> SUFFICES ASSUME NEW a \in Address, NEW k \in holding(a) PROVE byte(a, k) \in Byte OBVIOUS
  <2> DEFINE n == Len(s[k])
             t == s[k]
             i == a - at(k) + 1
             X == Byte
  <2>1. t \in Seq(X) /\ n \in Nat /\ at(k) \in Nat /\ at(k) <= a /\ a <= at(k) + n BY <1>3
  <2>2. a \in Int BY WordFacts DEF Address
  <2>3. i \in 1..(n + 1) BY <2>1, <2>2
  <2>4. 0 \in X BY <1>2
  <2>5. n = Len(t) OBVIOUS
  <2>6. byte(a, k) = Append(t, 0)[i] OBVIOUS
  <2> HIDE DEF n, t, i, X
  <2>7. Append(t, 0)[i] \in X
    <3>1. t \in Seq(X) /\ Len(t) \in Nat BY <2>1, SeqFacts
    <3>2. Append(t, 0) \in Seq(X) /\ Len(Append(t, 0)) = Len(t) + 1 BY <3>1, <2>4
    <3>3. i \in 1..Len(Append(t, 0)) BY <2>3, <2>5, <3>2
    <3> QED BY <3>2, <3>3, ElementOfSeq
  <2> QED BY <2>6, <2>7 DEF X
<1> HIDE DEF byte, holding
<1>5. \A a \in Address : (IF holding(a) = {} THEN m[a] ELSE byte(a, CHOOSE k \in holding(a) : TRUE)) \in Byte
  <2> SUFFICES ASSUME NEW a \in Address
               PROVE  (IF holding(a) = {} THEN m[a] ELSE byte(a, CHOOSE k \in holding(a) : TRUE)) \in Byte
    OBVIOUS
  <2>1. holding(a) # {} => (CHOOSE k \in holding(a) : TRUE) \in holding(a) OBVIOUS
  <2>2. m[a] \in Byte BY DEF Memory
  <2> QED BY <1>4, <2>1, <2>2
<1> QED BY <1>1, <1>5 DEF Memory

Joins(s, t) ==
  /\ s \o t \in Seq(Int) /\ Len(s \o t) = Len(s) + Len(t)
  /\ \A i \in 1..Len(s) : (s \o t)[i] = s[i]
  /\ \A i \in 1..Len(t) : (s \o t)[Len(s) + i] = t[i]
LEMMA Joining == ASSUME NEW s \in Seq(Int), NEW t \in Seq(Int) PROVE Joins(s, t)
<1> DEFINE X == Int
<1>1. s \in Seq(X) /\ t \in Seq(X) OBVIOUS
<1> HIDE DEF X
<1>2. /\ s \o t \in Seq(X) /\ Len(s \o t) = Len(s) + Len(t)
      /\ \A i \in 1..Len(s) : (s \o t)[i] = s[i]
      /\ \A i \in 1..Len(t) : (s \o t)[Len(s) + i] = t[i]
  BY <1>1, ConcatFacts
<1> QED BY <1>2 DEF Joins, X

(* The words of the frame that a program is started with.                  *)
LEMMA FrameWordsFacts ==
  ASSUME NEW x, Executable(x)
  PROVE  /\ FrameWords(x) \in Seq(Int) /\ Len(FrameWords(x)) = 11 + Len(x.argv) + Len(x.envp)
         /\ FrameWords(x)[1] = Len(x.argv)
         /\ \A k \in 1..Len(x.argv) : FrameWords(x)[1 + k] = PointerTo(x, k)
         /\ FrameWords(x)[2 + Len(x.argv)] = 0
         /\ \A k \in 1..Len(x.envp) : FrameWords(x)[2 + Len(x.argv) + k] = PointerTo(x, Len(x.argv) + k)
         /\ FrameWords(x)[3 + Len(x.argv) + Len(x.envp)] = 0
         /\ \A k \in 1..8 : FrameWords(x)[3 + Len(x.argv) + Len(x.envp) + k] = AuxWords(x)[k]
<1> DEFINE n == Len(x.argv)
           m == Len(x.envp)
           s1 == <<n>>
           s2 == [k \in DOMAIN x.argv |-> PointerTo(x, k)]
           z == <<0>>
           s4 == [k \in DOMAIN x.envp |-> PointerTo(x, n + k)]
           a == AuxWords(x)
<1>1. /\ n \in Nat /\ m \in Nat /\ DOMAIN x.argv = 1..n /\ DOMAIN x.envp = 1..m /\ Len(Strings(x)) = n + m
  BY StringsFacts
<1>2. FrameWords(x) = ((((s1 \o s2) \o z) \o s4) \o z) \o a BY DEF FrameWords
<1> HIDE DEF n, m
<1>3. s1 \in Seq(Int) /\ Len(s1) = 1 /\ s1[1] = n BY <1>1
<1>4. z \in Seq(Int) /\ Len(z) = 1 /\ z[1] = 0 OBVIOUS
<1>5. a \in Seq(Int) /\ Len(a) = 8
  <2> DEFINE p == BaseAddress(x) + x.phoff
             q == InterpBase(x)
             e == EntryPoint(x)
  <2>1. p \in Int /\ q \in Int /\ e \in Int
    <3>1. BaseAddress(x) \in Int /\ InterpBase(x) \in Int BY BasesTyped
    <3>2. x.phoff \in Nat /\ x.entry \in Nat /\ Bias(x) \in Nat BY ExecutableFacts
    <3> QED BY <3>1, <3>2 DEF EntryPoint
  <2>2. a = <<3, p, 7, q, 9, e, 0, 0>> BY DEF AuxWords
  <2> HIDE DEF p, q, e
  <2> QED BY <2>1, <2>2
<1>6. \A k \in 1..(n + m) : PointerTo(x, k) \in Int
  <2>1. \A k \in 1..(n + m + 1) : PointerTo(x, k) \in Nat BY <1>1, PointersTyped
  <2> QED BY <1>1, <2>1
<1>7. s2 \in Seq(Int) /\ Len(s2) = n /\ \A k \in 1..n : s2[k] = PointerTo(x, k)
  <2>1. s2 = [k \in 1..n |-> PointerTo(x, k)] BY <1>1
  <2>2. \A k \in 1..n : PointerTo(x, k) \in Int BY <1>1, <1>6
  <2>3. s2 \in [1..n -> Int] BY <2>1, <2>2
  <2>4. \A k \in 1..n : s2[k] = PointerTo(x, k) BY <2>1
  <2> HIDE DEF s2
  <2> QED BY <1>1, <2>3, <2>4, SeqOfFunction
<1>8. s4 \in Seq(Int) /\ Len(s4) = m /\ \A k \in 1..m : s4[k] = PointerTo(x, n + k)
  <2>1. s4 = [k \in 1..m |-> PointerTo(x, n + k)] BY <1>1
  <2>2. \A k \in 1..m : PointerTo(x, n + k) \in Int
    <3>1. \A k \in 1..m : n + k \in 1..(n + m) BY <1>1
    <3> QED BY <1>6, <3>1
  <2>3. s4 \in [1..m -> Int] BY <2>1, <2>2
  <2>4. \A k \in 1..m : s4[k] = PointerTo(x, n + k) BY <2>1
  <2> HIDE DEF s4
  <2> QED BY <1>1, <2>3, <2>4, SeqOfFunction
<1> HIDE DEF s1, s2, z, s4, a
<1> DEFINE t2 == s1 \o s2
           t3 == t2 \o z
           t4 == t3 \o s4
           t5 == t4 \o z
           t6 == t5 \o a
<1>9. /\ t2 \in Seq(Int) /\ Len(t2) = 1 + n /\ t2[1] = n
      /\ \A k \in 1..n : t2[1 + k] = PointerTo(x, k)
  <2>1. /\ t2 \in Seq(Int) /\ Len(t2) = Len(s1) + Len(s2)
        /\ \A i \in 1..Len(s1) : t2[i] = s1[i]
        /\ \A i \in 1..Len(s2) : t2[Len(s1) + i] = s2[i]
    <3>1. Joins(s1, s2) BY <1>3, <1>7, Joining
    <3> QED BY <3>1 DEF Joins
  <2>2. 1 \in 1..Len(s1) BY <1>3
  <2> HIDE DEF t2
  <2> QED BY <1>3, <1>7, <2>1, <2>2
<1> HIDE DEF t2
<1>10. /\ t3 \in Seq(Int) /\ Len(t3) = 2 + n /\ t3[1] = n
       /\ \A k \in 1..n : t3[1 + k] = PointerTo(x, k)
       /\ t3[2 + n] = 0
  <2>1. /\ t3 \in Seq(Int) /\ Len(t3) = Len(t2) + 1
        /\ \A i \in 1..Len(t2) : t3[i] = t2[i]
        /\ \A i \in 1..Len(z) : t3[Len(t2) + i] = z[i]
    <3>1. Joins(t2, z) BY <1>4, <1>9, Joining
    <3> QED BY <1>4, <3>1 DEF Joins
  <2>2. 1 \in 1..Len(t2) /\ 1 \in 1..Len(z) /\ \A k \in 1..n : 1 + k \in 1..Len(t2) BY <1>1, <1>4, <1>9
  <2>3. Len(t2) + 1 = 2 + n BY <1>1, <1>9
  <2> HIDE DEF t3
  <2> QED BY <1>4, <1>9, <2>1, <2>2, <2>3
<1> HIDE DEF t3
<1>11. /\ t4 \in Seq(Int) /\ Len(t4) = 2 + n + m /\ t4[1] = n
       /\ \A k \in 1..n : t4[1 + k] = PointerTo(x, k)
       /\ t4[2 + n] = 0
       /\ \A k \in 1..m : t4[2 + n + k] = PointerTo(x, n + k)
  <2>1. /\ t4 \in Seq(Int) /\ Len(t4) = Len(t3) + Len(s4)
        /\ \A i \in 1..Len(t3) : t4[i] = t3[i]
        /\ \A i \in 1..Len(s4) : t4[Len(t3) + i] = s4[i]
    <3>1. Joins(t3, s4) BY <1>8, <1>10, Joining
    <3> QED BY <3>1 DEF Joins
  <2>2. 1 \in 1..Len(t3) /\ 2 + n \in 1..Len(t3) /\ \A k \in 1..n : 1 + k \in 1..Len(t3) BY <1>1, <1>10
  <2> HIDE DEF t4
  <2> QED BY <1>1, <1>8, <1>10, <2>1, <2>2
<1> HIDE DEF t4
<1>12. /\ t5 \in Seq(Int) /\ Len(t5) = 3 + n + m /\ t5[1] = n
       /\ \A k \in 1..n : t5[1 + k] = PointerTo(x, k)
       /\ t5[2 + n] = 0
       /\ \A k \in 1..m : t5[2 + n + k] = PointerTo(x, n + k)
       /\ t5[3 + n + m] = 0
  <2>1. /\ t5 \in Seq(Int) /\ Len(t5) = Len(t4) + Len(z)
        /\ \A i \in 1..Len(t4) : t5[i] = t4[i]
        /\ \A i \in 1..Len(z) : t5[Len(t4) + i] = z[i]
    <3>1. Joins(t4, z) BY <1>4, <1>11, Joining
    <3> QED BY <3>1 DEF Joins
  <2>2. /\ 1 \in 1..Len(t4) /\ 2 + n \in 1..Len(t4) /\ 1 \in 1..Len(z)
        /\ \A k \in 1..n : 1 + k \in 1..Len(t4)
        /\ \A k \in 1..m : 2 + n + k \in 1..Len(t4)
    BY <1>1, <1>4, <1>11
  <2>3. Len(t4) + 1 = 3 + n + m BY <1>1, <1>11
  <2> HIDE DEF t5
  <2> QED BY <1>1, <1>4, <1>11, <2>1, <2>2, <2>3
<1> HIDE DEF t5
<1>13. /\ t6 \in Seq(Int) /\ Len(t6) = 11 + n + m /\ t6[1] = n
       /\ \A k \in 1..n : t6[1 + k] = PointerTo(x, k)
       /\ t6[2 + n] = 0
       /\ \A k \in 1..m : t6[2 + n + k] = PointerTo(x, n + k)
       /\ t6[3 + n + m] = 0
       /\ \A k \in 1..8 : t6[3 + n + m + k] = a[k]
  <2>1. /\ t6 \in Seq(Int) /\ Len(t6) = Len(t5) + Len(a)
        /\ \A i \in 1..Len(t5) : t6[i] = t5[i]
        /\ \A i \in 1..Len(a) : t6[Len(t5) + i] = a[i]
    <3>1. Joins(t5, a) BY <1>5, <1>12, Joining
    <3> QED BY <3>1 DEF Joins
  <2>2. /\ 1 \in 1..Len(t5) /\ 2 + n \in 1..Len(t5) /\ 3 + n + m \in 1..Len(t5)
        /\ \A k \in 1..n : 1 + k \in 1..Len(t5)
        /\ \A k \in 1..m : 2 + n + k \in 1..Len(t5)
    BY <1>1, <1>12
  <2> HIDE DEF t6
  <2>3. \A k \in 1..8 : k \in 1..Len(a) /\ 3 + n + m + k = Len(t5) + k BY <1>1, <1>5, <1>12
  <2>4. \A k \in 1..8 : t6[3 + n + m + k] = a[k] BY <2>1, <2>3
  <2>5. Len(t5) + 8 = 11 + n + m BY <1>1, <1>12
  <2>6. Len(t6) = 11 + n + m BY <1>5, <2>1, <2>5
  <2>7. /\ t6[1] = n /\ t6[2 + n] = 0 /\ t6[3 + n + m] = 0
        /\ \A k \in 1..n : t6[1 + k] = PointerTo(x, k)
        /\ \A k \in 1..m : t6[2 + n + k] = PointerTo(x, n + k)
    BY <1>12, <2>1, <2>2
  <2> QED BY <2>1, <2>4, <2>6, <2>7
<1>14. FrameWords(x) = t6 BY <1>2 DEF t2, t3, t4, t5
<1> HIDE DEF t6
<1> QED BY <1>13, <1>14 DEF n, m, a

(* Words that are stored from an address on.                               *)
LEMMA WithWordsTyped ==
  ASSUME NEW m \in Memory, NEW a \in Int, NEW words \in Seq(Int) PROVE WithWords(m, a, words) \in Memory
<1>1. Len(words) \in Nat /\ DOMAIN words = 1..Len(words) /\ \A k \in 1..Len(words) : words[k] \in Int OBVIOUS
<1>2. ASSUME NEW b \in Word, U(b - a) < 4 * Len(words)
      PROVE  ByteOf(words[U(b - a) \div 4 + 1], U(b - a) % 4) \in Byte
  <2> DEFINE d == U(b - a)
             k == d \div 4 + 1
             j == d % 4
  <2>1. d \in Nat
    <3>1. b - a \in Int BY WordFacts
    <3> QED BY <3>1, UTyped
  <2>2. d < 4 * Len(words) BY <1>2
  <2> HIDE DEF d
  <2>3. k \in 1..Len(words) /\ j \in Nat BY <1>1, <2>1, <2>2
  <2> HIDE DEF k, j
  <2>4. ByteOf(words[k], j) \in Byte BY <1>1, <2>3, ByteTyped
  <2> QED BY <2>4 DEF k, j, d
<1>3. \A b \in Word : m[b] \in Byte BY DEF Memory, Address
<1> QED BY <1>2, <1>3 DEF WithWords, Memory, Address

LEMMA LoadedTyped ==
  ASSUME NEW x, Executable(x)
  PROVE  /\ Loaded(x).mem \in Memory /\ Loaded(x).flags \in [Page -> Rights3]
         /\ StackPointer(x) \in Int /\ StartAddress(x) \in Int
         /\ Loaded(x).mem = WithWords(WithStrings(WithZeroPages(Segments(x)).mem, x), StackPointer(x), FrameWords(x))
         /\ Loaded(x).flags = WithZeroPages(Segments(x)).flags
         /\ Loaded(x).error <=> WithZeroPages(Segments(x)).error \/ ~Supported(x)
<1> DEFINE s == WithZeroPages(Segments(x))
           sp == StackPointer(x)
           words == FrameWords(x)
<1>1. s \in LoadState BY SegmentsTyped, ZeroPagesTyped
<1>2. sp \in Int
  <2>1. Len(x.argv) \in Nat /\ Len(x.envp) \in Nat /\ StackTop \in Int
    BY StringsFacts, LoaderAssumption, WordFacts
  <2> QED BY <2>1 DEF StackPointer, FrameSize
<1>3. words \in Seq(Int) BY FrameWordsFacts
<1>4. Loaded(x) = [s EXCEPT !.mem = WithWords(WithStrings(s.mem, x), sp, words), !.error = s.error \/ ~Supported(x)]
  BY DEF Loaded
<1> HIDE DEF s, sp, words
<1>5. s.mem \in Memory /\ s.kind \in [Page -> Kinds] /\ s.flags \in [Page -> Rights3] /\ s.error \in BOOLEAN
      /\ s = [mem |-> s.mem, kind |-> s.kind, flags |-> s.flags, error |-> s.error]
  BY <1>1 DEF LoadState
<1>6. WithWords(WithStrings(s.mem, x), sp, words) \in Memory
  <2>1. WithStrings(s.mem, x) \in Memory BY <1>5, WithStringsTyped
  <2> QED BY <1>2, <1>3, <2>1, WithWordsTyped
<1>7. /\ Loaded(x).mem = WithWords(WithStrings(s.mem, x), sp, words) /\ Loaded(x).flags = s.flags
      /\ Loaded(x).error = (s.error \/ ~Supported(x))
  <2> PICK m0, k0, f0, e0 : m0 = s.mem /\ k0 = s.kind /\ f0 = s.flags /\ e0 = s.error OBVIOUS
  <2> DEFINE m1 == WithWords(WithStrings(s.mem, x), sp, words)
             e1 == s.error \/ ~Supported(x)
  <2>1. s = [mem |-> m0, kind |-> k0, flags |-> f0, error |-> e0] BY <1>5
  <2> HIDE DEF m1, e1
  <2>2. Loaded(x) = [s EXCEPT !.mem = m1, !.error = e1] BY <1>4 DEF m1, e1
  <2>3. Loaded(x) = [mem |-> m1, kind |-> k0, flags |-> f0, error |-> e1] BY <2>1, <2>2
  <2>4. Loaded(x).mem = m1 /\ Loaded(x).flags = s.flags /\ Loaded(x).error = e1 BY <2>3
  <2> QED BY <2>4 DEF m1, e1
<1>8. StartAddress(x) \in Int
  <2>1. /\ x.entry \in Int /\ Bias(x) \in Int
        /\ x.interp # <<>> => InterpBias \in Int /\ x.interp[1].entry \in Int
    BY ExecutableFacts
  <2> QED BY <2>1 DEF StartAddress, EntryPoint
<1> QED BY <1>2, <1>5, <1>6, <1>7, <1>8 DEF s, sp, words

LEMMA CpuIsProcessor ==
  ASSUME NEW r \in Registered, NEW m \in Memory, NEW p \in Word, NEW b \in Word
  PROVE  Arch!IsProcessor(Cpu(r, m, p, b))
<1> DEFINE c == Cpu(r, m, p, b)
           regs == [x \in Regs |-> r[x]]
           n == Next4(p, b)
<1>1. c = [regs |-> regs, mem |-> m, pc |-> p, npc |-> n] BY DEF Cpu
<1>2. regs \in [Regs -> Word] BY DEF Registered, Regs
<1>3. n \in Word
  <2>1. p + 4 \in Int BY WordFacts
  <2>2. U(p + 4) \in Word BY <2>1, UTyped
  <2> QED BY <2>2 DEF Next4
<1>4. m \in [Word -> Byte] BY DEF Memory, Address
<1> HIDE DEF c, regs, n
<1>5. /\ DOMAIN c = {"regs", "mem", "pc", "npc"}
      /\ c.regs \in [Regs -> Word] /\ c.mem \in [Word -> Byte] /\ c.pc \in Word /\ c.npc \in Word
  BY <1>1, <1>2, <1>3, <1>4
<1>6. Arch!IsProcessor(c) <=>
        /\ DOMAIN c = {"regs", "mem", "pc", "npc"}
        /\ c.regs \in [Regs -> Word] /\ c.mem \in [Word -> Byte] /\ c.pc \in Word /\ c.npc \in Word
  BY ArchWords DEF Arch!IsProcessor, Regs
<1> QED BY <1>5, <1>6 DEF c

LEMMA NotLoadedHere == ASSUME exe # None PROVE Processor = Arch!NotLoaded
BY DEF Processor, Arch!NotLoaded

LEMMA BootRight == ASSUME IInv, Boot PROVE IInv' /\ ArchStep
<1>1. exe \in Executables /\ exe # None /\ ~inside /\ exe \in Executables \cup {None} BY DEF Boot, IInv
<1>2. Executable(exe) BY <1>1, ExecutablesAssumption
<1> DEFINE sp == U(StackPointer(exe))
           at == U(StartAddress(exe))
           m == Loaded(exe).mem
<1>3. m \in Memory /\ DOMAIN Loaded(exe).flags = Page /\ StackPointer(exe) \in Int /\ StartAddress(exe) \in Int BY <1>2, LoadedTyped
<1>4. sp \in Word /\ at \in Word BY <1>3, UTyped
<1>5. CASE Loaded(exe).error
  <2>1. Throws BY <1>5 DEF Boot
  <2> QED BY <2>1, ThrowsRight
<1>6. CASE ~Loaded(exe).error
  <2> DEFINE r == [registers EXCEPT ![PC] = at, ![Sp] = sp]
  <2>1. /\ registers' = r /\ mem' = m /\ flags' = Loaded(exe).flags /\ exe' = None /\ inside' = inside
        /\ pc' = pc /\ pending' = pending /\ left' = left /\ running' = running /\ exited' = exited
        /\ queue' = queue /\ sent' = sent /\ action' = action
    BY <1>6 DEF Boot
  <2> HIDE DEF sp, at, m
  <2>2. r \in Registered
    <3>1. registers \in [Registers -> Word] /\ registers[0] = 0 BY StateFacts DEF Registered
    <3>2. PC # 0 /\ Sp # 0 /\ 0 \in Registers BY RegisterFacts DEF PC, Sp
    <3>3. r \in [Registers -> Word] /\ r[0] = registers[0] BY <1>4, <3>1, <3>2
    <3> QED BY <3>1, <3>3 DEF Registered
  <2> HIDE DEF r
  <2>3. r[PC] \in Word /\ r[PendingBranch] \in Word BY <2>2, RegisteredWords, RegisterFacts
  <2>4. IInv' BY <1>1, <1>3, <2>1, <2>2, StateFacts, Keeps DEF m
  <2>5. Processor' = Cpu(r, m, r[PC], r[PendingBranch]) BY <1>1, <2>1, ProcessorThere
  <2> DEFINE p == r[PC]
             b == r[PendingBranch]
  <2>6. Arch!IsProcessor(Processor')
    <3>1. p \in Word /\ b \in Word /\ m \in Memory BY <1>3, <2>3 DEF m
    <3> HIDE DEF p, b
    <3>2. Arch!IsProcessor(Cpu(r, m, p, b)) BY <2>2, <3>1, CpuIsProcessor
    <3> QED BY <2>5, <3>2 DEF p, b
  <2>7. Processor = Arch!NotLoaded BY <1>1, NotLoadedHere
  <2>8. Arch!Start BY <2>1, <2>6, <2>7 DEF Arch!Start
  <2>9. Arch!Next BY <2>1, <2>7, <2>8 DEF Arch!Next
  <2> QED BY <2>4, <2>9 DEF ArchStep
<1> QED BY <1>5, <1>6

LEMMA InitRight == ASSUME Init PROVE IInv /\ Arch!Init
<1>1. /\ exe \in Executables /\ action = exe.action /\ registers = [r \in Registers |-> 0]
      /\ mem = Blank.mem /\ flags = Blank.flags /\ inside = FALSE /\ pc = 0 /\ pending = 0 /\ left = 0 /\ running = TRUE
      /\ exited = FALSE /\ queue = 0 /\ sent = 0
  BY DEF Init
<1>2. exe # None /\ action \in Action BY <1>1, ExecutablesAssumption
<1>3. Blank.mem \in Memory /\ DOMAIN Blank.flags = Page BY BlankTyped DEF LoadState
<1>4. 0 \in Word /\ 0 \in Registers BY WordFacts, RegisterFacts
<1>5. MaxSignals \in Nat BY MachineAssumption
<1>6. registers \in [Registers -> Word] /\ registers[0] = 0 BY <1>1, <1>4
<1>7. TypeOK BY <1>1, <1>2, <1>3, <1>4, <1>5, <1>6 DEF TypeOK, Memory
<1>8. IInv BY <1>1, <1>2, <1>3, <1>7 DEF IInv
<1>9. Arch!Init BY <1>2, NotLoadedHere DEF Arch!Init
<1> QED BY <1>8, <1>9

(* The strengthening of TypeOK holds, and every step of the machine is one *)
(* of the architecture or leaves the processor as it is.                   *)
LEMMA NextRight == ASSUME IInv, Next PROVE IInv' /\ ArchStep
<1>1. CASE Boot BY <1>1, BootRight
<1>2. CASE Enter BY <1>2, EnterRight
<1>3. CASE Expire BY <1>3, ExpireRight
<1>4. CASE SendSignal BY <1>4, SendSignalRight
<1>5. CASE Wake BY <1>5, WakeRight
<1>6. CASE Execute
  <2>1. Stepped BY <1>6, ExecuteRight
  <2> QED BY <2>1, SteppedTo
<1>7. CASE Returns BY <1>7, ReturnsRight
<1>8. CASE Unknown BY <1>8, UnknownRight
<1>9. CASE Blocks BY <1>9, BlocksRight
<1>10. CASE Exit BY <1>10, ExitRight
<1>11. CASE Fails /\ Throws BY <1>11, ThrowsRight
<1>12. CASE Signals BY <1>12, SignalsRight
<1> QED BY <1>1, <1>2, <1>3, <1>4, <1>5, <1>6, <1>7, <1>8, <1>9, <1>10, <1>11, <1>12 DEF Next

LEMMA Invariant == Spec => []IInv
<1>1. Init => IInv BY InitRight
<1>2. IInv /\ [Next]_vars => IInv' BY NextRight, StutterKeeps
<1> QED BY <1>1, <1>2, PTL DEF Spec

(* The registers, memory and the loop's variables are words and bytes, and *)
(* register 0 is 0, whatever is executed and wherever signals come.        *)
THEOREM TypeCorrect == Spec => []TypeOK
<1>1. IInv => TypeOK BY DEF IInv
<1> QED BY <1>1, Invariant, PTL

(* Every step of the interpreter is a step of the architecture, for every  *)
(* program and every size of bytes.                                        *)
THEOREM Implements == Spec => ImplementsArchitecture
<1>1. Init => Arch!Init BY InitRight
<1>2. IInv /\ [Next]_vars => [Arch!Next]_<<Processor, flags, action>>
  <2>1. ASSUME IInv, Next PROVE ArchStep BY <2>1, NextRight
  <2>2. ASSUME IInv, UNCHANGED vars PROVE ArchStep BY <2>2, StutterStep
  <2> QED BY <2>1, <2>2 DEF ArchStep
<1> QED BY <1>1, <1>2, Invariant, PTL DEF Spec, ImplementsArchitecture, Arch!Spec

-----------------------------------------------------------------------------
(* The start frame.  A word that WithWords stores is read again, and the    *)
(* memory around the words is as it was.                                   *)
LEMMA WordStored ==
  ASSUME NEW m \in Memory, NEW a \in Int, NEW words \in Seq(Int), 4 * Len(words) <= Two[W],
         NEW k \in 1..Len(words)
  PROVE  WordAt(WithWords(m, a, words), a + 4 * (k - 1)) = U(words[k])
<1> DEFINE X == Int
           n == Len(words)
           M == WithWords(m, a, words)
           c == a + 4 * (k - 1)
           w == words[k]
           t == Two[W]
<1>1. n \in Nat /\ w \in Int /\ t \in Nat
  <2>1. words \in Seq(X) OBVIOUS
  <2> HIDE DEF X
  <2>2. Len(words) \in Nat /\ DOMAIN words = 1..Len(words) /\ \A j \in DOMAIN words : words[j] \in X
    BY <2>1, SeqFacts
  <2> QED BY <2>2, WFacts DEF X
<1>2. \A b \in Word : M[b] = IF U(b - a) < 4 * n THEN ByteOf(words[U(b - a) \div 4 + 1], U(b - a) % 4) ELSE m[b]
  BY DEF WithWords
<1> HIDE DEF n, M, w, t
<1>3. ASSUME NEW j \in 0..3 PROVE M[U(c + j)] = ByteOf(w, j)
  <2> DEFINE d == 4 * (k - 1) + j
             b == U(c + j)
             y == c + j
  <2>1. d \in Nat /\ d < 4 * n /\ d \div 4 = k - 1 /\ d % 4 = j /\ y \in Int /\ y - a = d BY <1>1 DEF n
  <2>2. d \in Word
    <3>1. 4 * n <= t BY DEF n, t
    <3> HIDE DEF d
    <3> QED BY <1>1, <2>1, <3>1 DEF Word, t
  <2>3. b \in Word /\ U(b - a) = U(d)
    <3> HIDE DEF d, y
    <3>1. b = U(y) BY DEF y
    <3>2. U(U(y) - a) = U(y - a) BY <2>1, UU
    <3> QED BY <2>1, <3>1, <3>2, UTyped
  <2>4. U(b - a) = d BY <2>2, <2>3, WordUnchanged
  <2> HIDE DEF d, b
  <2>5. M[b] = ByteOf(words[d \div 4 + 1], d % 4) BY <1>2, <2>1, <2>3, <2>4
  <2>6. d \div 4 + 1 = k BY <2>1
  <2> QED BY <2>1, <2>5, <2>6 DEF b, w
<1>4. WordAt(M, c) = Joined([i \in 0..3 |-> ByteOf(w, i)])
  <2>1. [i \in 0..3 |-> M[U(c + i)]] = [i \in 0..3 |-> ByteOf(w, i)] BY <1>3
  <2> QED BY <2>1 DEF WordAt
<1>5. Joined([i \in 0..3 |-> ByteOf(w, i)]) = U(w) BY <1>1, JoinedOfBytes
<1> QED BY <1>4, <1>5 DEF M, w

LEMMA Untouched ==
  ASSUME NEW m \in Memory, NEW a \in Word, NEW words \in Seq(Int),
         NEW top \in Word, a + 4 * Len(words) = top, NEW b \in Word, b \notin a..(top - 1)
  PROVE  WithWords(m, a, words)[b] = m[b]
<1> DEFINE n == 4 * Len(words)
           t == Two[W]
           X == Int
<1>1. /\ n \in Nat /\ t \in Nat /\ a \in 0..(t - 1) /\ b \in 0..(t - 1) /\ a + n <= t
      /\ (b < a \/ b >= a + n)
  <2>1. words \in Seq(X) OBVIOUS
  <2>2. Len(words) \in Nat
    <3> HIDE DEF X
    <3> QED BY <2>1, SeqFacts
  <2> QED BY <2>2, WFacts DEF Word
<1>2. WithWords(m, a, words)[b] =
        IF U(b - a) < n THEN ByteOf(words[U(b - a) \div 4 + 1], U(b - a) % 4) ELSE m[b]
  BY DEF WithWords
<1> DEFINE d == IF b < a THEN b - a + t ELSE b - a
           e == b - a
<1>3. d \in 0..(t - 1) /\ ~(d < n) /\ e \in Int /\ d \in Int /\ (d = e \/ d = e + t)
  <2> HIDE DEF n, t
  <2> QED BY <1>1
<1> HIDE DEF n, d
<1>4. U(e) = d
  <2>1. d \in Word BY <1>3 DEF Word
  <2> HIDE DEF e
  <2>2. \E k \in Int : d = e + k * Two[W]
    <3>1. e + t = e + 1 * Two[W] /\ e = e + 0 * Two[W] BY <1>1, <1>3
    <3>2. d = e + 1 * Two[W] \/ d = e + 0 * Two[W] BY <1>3, <3>1
    <3> QED BY <3>2
  <2>3. U(d) = U(e) BY <1>3, <2>2, UCongruent
  <2> QED BY <2>1, <2>3, WordUnchanged
<1> QED BY <1>2, <1>3, <1>4 DEF e

(* The strings follow each other in their page.                            *)
LEMMA PointersGrow ==
  ASSUME NEW x, Executable(x)
  PROVE  /\ \A k \in 1..Len(Strings(x)) : ArgBase <= PointerTo(x, k)
         /\ \A j, k \in 1..Len(Strings(x)) : j < k => PointerTo(x, j) + Len(Strings(x)[j]) < PointerTo(x, k)
<1> DEFINE n == Len(Strings(x))
           L(k) == Len(Strings(x)[k])
<1>1. PICK f : PointerSteps(x, f) /\ \A k \in 1..(n + 1) : PointerTo(x, k) = f[k - 1]
  BY PointerEquation
<1>2. n \in Nat /\ \A k \in 1..n : L(k) \in Nat BY StringsFacts
<1>3. f \in [0..n -> Nat] /\ f[0] = ArgBase /\ \A k \in 1..n : f[k] = f[k - 1] + L(k) + 1
  BY <1>1 DEF PointerSteps
<1>4. \A i \in 0..n : f[i] \in Nat BY <1>3
<1> HIDE DEF n, L
<1> DEFINE S == {d \in Nat : \A i \in 0..n : i + d \in 0..n => f[i] <= f[i + d]}
<1>5. Nat \subseteq S
  <2>1. 0 \in S
    <3>1. \A i \in 0..n : i + 0 = i /\ f[i] <= f[i] BY <1>4
    <3> QED BY <3>1
  <2>2. ASSUME NEW d \in Nat, d \in S PROVE d + 1 \in S
    <3> SUFFICES ASSUME NEW i \in 0..n, i + (d + 1) \in 0..n PROVE f[i] <= f[i + (d + 1)] OBVIOUS
    <3> DEFINE j == i + d + 1
    <3>1. j \in 1..n /\ j - 1 = i + d /\ i + d \in 0..n /\ i + (d + 1) = j BY <1>2
    <3>2. f[i] <= f[i + d] BY <2>2, <3>1
    <3> HIDE DEF j
    <3>3. f[j] = f[j - 1] + L(j) + 1 /\ L(j) \in Nat /\ f[i] \in Nat /\ f[j - 1] \in Nat
      BY <1>2, <1>3, <1>4, <3>1
    <3>4. f[i] <= f[j] BY <3>1, <3>2, <3>3
    <3> QED BY <3>1, <3>4
  <2> HIDE DEF S
  <2> QED BY <2>1, <2>2, Induction
<1>6. ASSUME NEW i \in 0..n, NEW k \in 0..n, i <= k PROVE f[i] <= f[k]
  <2> DEFINE d == k - i
  <2>1. d \in Nat /\ i + d = k BY <1>6, <1>2
  <2> HIDE DEF d
  <2>2. d \in S BY <1>5, <2>1
  <2> QED BY <2>1, <2>2
<1> HIDE DEF S
<1>7. ASSUME NEW k \in 1..n PROVE ArgBase <= PointerTo(x, k)
  <2>1. k - 1 \in 0..n /\ 0 \in 0..n /\ 0 <= k - 1 /\ k \in 1..(n + 1) BY <1>2
  <2>2. f[0] <= f[k - 1] BY <1>6, <2>1
  <2> QED BY <1>1, <1>3, <2>1, <2>2
<1>8. ASSUME NEW j \in 1..n, NEW k \in 1..n, j < k PROVE PointerTo(x, j) + L(j) < PointerTo(x, k)
  <2>1. /\ j - 1 \in 0..n /\ k - 1 \in 0..n /\ j \in 0..n /\ j <= k - 1
        /\ j \in 1..(n + 1) /\ k \in 1..(n + 1)
    BY <1>2, <1>8
  <2>2. f[j] <= f[k - 1] BY <1>6, <2>1
  <2>3. f[j] = f[j - 1] + L(j) + 1 /\ L(j) \in Nat BY <1>2, <1>3
  <2>4. PointerTo(x, j) = f[j - 1] /\ PointerTo(x, k) = f[k - 1] BY <1>1, <2>1
  <2>5. f[j - 1] \in Nat /\ f[k - 1] \in Nat BY <1>4, <2>1
  <2> QED BY <2>2, <2>3, <2>4, <2>5
<1> QED BY <1>7, <1>8 DEF n, L

(* The addresses of the page for arguments.                                *)
LEMMA ArgAddress ==
  ASSUME NEW a \in Int, ArgBase <= a, a < ArgBase + PageSize PROVE a \in Word /\ PageOf(a) = ArgPage
<1> DEFINE p == PageSize
           g == ArgPage
           t == Limit
           q == Limit \div PageSize
<1>1. p \in Nat \ {0} /\ t % p = 0 /\ t \in Nat /\ g \in 0..(q - 1) /\ ArgBase = g * p
  <2>1. PageSize \in Nat \ {0} /\ Limit % PageSize = 0 /\ Limit \in Nat /\ ArgBase = ArgPage * PageSize
    BY LoaderAssumption
  <2>2. HeapPages \cup StackPages \cup {ArgPage, VdsoPage} \subseteq 0..(Limit \div PageSize - 1)
    BY LoaderAssumption
  <2>3. ArgPage \in 0..(Limit \div PageSize - 1) BY <2>2
  <2> QED BY <2>1, <2>3
<1> HIDE DEF p, t
<1>2. PICK u \in Int, r \in 0..(p - 1) : u = t \div p /\ r = t % p /\ t = u * p + r BY <1>1, Division
<1>3. u = q /\ r = 0 /\ t = q * p /\ q \in Int
  <2>1. u = q BY <1>2 DEF t, p
  <2> HIDE DEF q
  <2> QED BY <1>1, <1>2, <2>1
<1> HIDE DEF g, q
<1> DEFINE i == a - g * p
<1>4. g \in Nat /\ g * p \in Nat BY <1>1
<1>5. i \in 0..(p - 1) /\ a = g * p + i BY <1>1, <1>4 DEF p
<1>6. a \div p = g
  <2> HIDE DEF i
  <2> QED BY <1>1, <1>4, <1>5, Unique
<1>7. (g + 1) * p <= q * p
  <2>1. q - (g + 1) \in Nat /\ q \in Nat BY <1>1, <1>3
  <2>2. (q - (g + 1)) * p \in Nat BY <1>1, <2>1
  <2>3. (q - (g + 1)) * p = q * p - (g + 1) * p BY <1>1, <1>4, <2>1
  <2> QED BY <1>1, <1>4, <2>1, <2>2, <2>3
<1>8. a \in 0..(t - 1)
  <2>1. (g + 1) * p = g * p + p BY <1>1, <1>4
  <2>2. q * p \in Int BY <1>1, <1>3
  <2> HIDE DEF i
  <2> QED BY <1>1, <1>3, <1>4, <1>5, <1>7, <2>1, <2>2
<1>9. t <= Two[W] /\ t \in Nat /\ Two[W] \in Nat BY WFacts, LoaderAssumption DEF t
<1>10. a \in Word BY <1>8, <1>9 DEF Word
<1> QED BY <1>6, <1>10 DEF PageOf, p, g

(* A string is found where its pointer says, in the page for arguments.    *)
LEMMA StringStored ==
  ASSUME NEW x, Executable(x), NEW m, NEW k \in 1..Len(Strings(x)), NEW i \in 0..Len(Strings(x)[k])
  PROVE  /\ PointerTo(x, k) + i \in Word /\ PageOf(PointerTo(x, k) + i) = ArgPage
         /\ WithStrings(m, x)[PointerTo(x, k) + i] = Append(Strings(x)[k], 0)[i + 1]
<1> DEFINE s == Strings(x)
           n == Len(s)
           at(j) == PointerTo(x, j)
           holding(a) == {j \in DOMAIN s : at(j) <= a /\ a <= at(j) + Len(s[j])}
           byte(a, j) == Append(s[j], 0)[a - at(j) + 1]
           p == at(k) + i
<1>1. WithStrings(m, x) = [a \in Address |-> IF holding(a) = {} THEN m[a] ELSE byte(a, CHOOSE j \in holding(a) : TRUE)]
  BY DEF WithStrings
<1>2. n \in Nat /\ DOMAIN s = 1..n /\ \A j \in 1..n : Len(s[j]) \in Nat BY StringsFacts
<1>3. \A j \in 1..n : at(j) \in Nat
  <2>1. \A j \in 1..(n + 1) : at(j) \in Nat BY PointersTyped
  <2> QED BY <1>2, <2>1
<1>4. /\ \A j \in 1..n : ArgBase <= at(j)
      /\ \A j, l \in 1..n : j < l => at(j) + Len(s[j]) < at(l)
  BY PointersGrow
<1>5. n > 0 => at(n) + Len(s[n]) < ArgBase + PageSize BY DEF Executable
<1>6. ArgBase \in Nat /\ PageSize \in Nat
  <2>1. PageSize \in Nat /\ ArgPage \in Nat /\ ArgBase = ArgPage * PageSize
    BY LoaderAssumption
  <2> QED BY <2>1
<1> HIDE DEF s, n, at
<1>7. k \in 1..n /\ i \in 0..Len(s[k]) /\ n > 0 /\ n \in 1..n BY <1>2 DEF n, s
<1>8. p \in Nat /\ ArgBase <= p /\ p < ArgBase + PageSize
  <2>1. at(k) \in Nat /\ at(n) \in Nat /\ Len(s[k]) \in Nat /\ Len(s[n]) \in Nat BY <1>2, <1>3, <1>7
  <2>2. ArgBase <= at(k) BY <1>4, <1>7
  <2>3. at(k) + Len(s[k]) <= at(n) + Len(s[n])
    <3>1. CASE k = n BY <2>1, <3>1
    <3>2. CASE k < n
      <4>1. at(k) + Len(s[k]) < at(n) BY <1>4, <1>7, <3>2
      <4> QED BY <2>1, <4>1
    <3> QED BY <1>7, <3>1, <3>2
  <2>4. at(n) + Len(s[n]) < ArgBase + PageSize BY <1>5, <1>7
  <2> DEFINE u == at(k)
             v == at(n) + Len(s[n])
             w == Len(s[k])
  <2>5. u \in Nat /\ v \in Nat /\ w \in Nat /\ u + w <= v /\ v < ArgBase + PageSize /\ ArgBase <= u
        /\ i \in 0..w /\ p = u + i
    BY <1>7, <2>1, <2>2, <2>3, <2>4
  <2> HIDE DEF u, v, w, p
  <2> QED BY <1>6, <2>5
<1>9. p \in Word /\ PageOf(p) = ArgPage
  <2> HIDE DEF p
  <2> QED BY <1>8, ArgAddress
<1>10. holding(p) = {k}
  <2>1. k \in holding(p)
    <3>1. at(k) \in Nat /\ Len(s[k]) \in Nat BY <1>2, <1>3, <1>7
    <3> QED BY <1>2, <1>7, <3>1
  <2>2. ASSUME NEW j \in holding(p) PROVE j = k
    <3>1. /\ j \in 1..n /\ at(j) \in Nat /\ Len(s[j]) \in Nat /\ at(k) \in Nat /\ Len(s[k]) \in Nat
          /\ at(j) <= p /\ p <= at(j) + Len(s[j])
      BY <1>2, <1>3, <1>7
    <3>2. ~(j < k)
      <4>1. j < k => at(j) + Len(s[j]) < at(k) BY <1>4, <1>7, <3>1
      <4> QED BY <1>7, <3>1, <4>1
    <3>3. ~(k < j)
      <4>1. k < j => at(k) + Len(s[k]) < at(j) BY <1>4, <1>7, <3>1
      <4> QED BY <1>7, <3>1, <4>1
    <3> QED BY <1>7, <3>1, <3>2, <3>3
  <2> HIDE DEF holding, p
  <2> QED BY <2>1, <2>2
<1>11. WithStrings(m, x)[p] = byte(p, k)
  <2>1. p \in Address BY <1>9 DEF Address
  <2> HIDE DEF holding, p, byte
  <2>2. WithStrings(m, x)[p] = IF holding(p) = {} THEN m[p] ELSE byte(p, CHOOSE j \in holding(p) : TRUE)
    BY <1>1, <2>1
  <2>3. (CHOOSE j \in holding(p) : TRUE) = k BY <1>10
  <2> QED BY <1>10, <2>2, <2>3
<1>12. byte(p, k) = Append(s[k], 0)[i + 1]
  <2>1. at(k) \in Nat BY <1>3, <1>7
  <2>2. p - at(k) + 1 = i + 1 BY <1>7, <2>1
  <2> HIDE DEF p
  <2> QED BY <2>2
<1> QED BY <1>9, <1>11, <1>12 DEF at, s

(* The words of the frame lie below the top of the stack and in its pages, *)
(* so that they are what the program finds, and its strings stay.          *)
LEMMA FrameFacts ==
  ASSUME NEW x, Executable(x)
  PROVE  /\ StackPointer(x) \in Word /\ StackPointer(x) % 4 = 0
         /\ StackPointer(x) + 4 * Len(FrameWords(x)) = StackTop /\ StackTop \in Word
         /\ FrameWords(x) \in Seq(Int) /\ Len(FrameWords(x)) = 11 + Len(x.argv) + Len(x.envp)
<1> DEFINE n == Len(FrameWords(x))
           a == Len(x.argv)
           e == Len(x.envp)
           t == StackTop
<1>1. FrameWords(x) \in Seq(Int) /\ n = 11 + a + e BY FrameWordsFacts
<1>2. a \in Nat /\ e \in Nat BY StringsFacts
<1>3. t \in Word /\ t % 4 = 0 BY LoaderAssumption
<1>4. StackPointer(x) = t - (11 + a + e) * 4 /\ (11 + a + e) * 4 <= t
  BY DEF StackPointer, FrameSize, Executable
<1> HIDE DEF n, a, e, t
<1>5. t \in Nat /\ Two[W] \in Nat /\ t < Two[W] BY <1>3, WordFacts, WFacts DEF Word
<1>6. t - (11 + a + e) * 4 \in 0..(Two[W] - 1) /\ (t - (11 + a + e) * 4) % 4 = 0
  <2> DEFINE y == 11 + a + e
  <2>1. y \in Nat BY <1>2
  <2>2. t - y * 4 \in 0..(Two[W] - 1)
    <3> HIDE DEF y
    <3>1. y * 4 \in Nat BY <2>1
    <3> QED BY <1>4, <1>5, <2>1, <3>1 DEF y
  <2>3. (t - y * 4) % 4 = 0
    <3> HIDE DEF y
    <3> QED BY <1>3, <1>5, <2>1
  <2> QED BY <2>2, <2>3
<1>7. StackPointer(x) \in Word /\ StackPointer(x) % 4 = 0 BY <1>4, <1>6 DEF Word
<1>8. StackPointer(x) + 4 * n = t BY <1>1, <1>2, <1>4, <1>5
<1> QED BY <1>1, <1>3, <1>7, <1>8 DEF n, a, e, t

LEMMA FrameRead ==
  ASSUME NEW x, Executable(x), NEW k \in 0..(10 + Len(x.argv) + Len(x.envp))
  PROVE  WordAt(Loaded(x).mem, StackPointer(x) + 4 * k) = U(FrameWords(x)[k + 1])
<1> DEFINE words == FrameWords(x)
           n == Len(words)
           sp == StackPointer(x)
           m == WithStrings(WithZeroPages(Segments(x)).mem, x)
           j == k + 1
<1>1. m \in Memory
  <2>1. WithZeroPages(Segments(x)) \in LoadState BY SegmentsTyped, ZeroPagesTyped
  <2>2. WithZeroPages(Segments(x)).mem \in Memory BY <2>1 DEF LoadState
  <2> QED BY <2>2, WithStringsTyped
<1>2. Loaded(x).mem = WithWords(m, sp, words) BY LoadedTyped
<1>3. words \in Seq(Int) /\ sp \in Word /\ sp + 4 * n = StackTop /\ StackTop \in Word
      /\ n = 11 + Len(x.argv) + Len(x.envp)
  BY FrameFacts
<1>4. Len(x.argv) \in Nat /\ Len(x.envp) \in Nat BY StringsFacts
<1> HIDE DEF words, sp, m, n
<1>5. n \in Nat /\ j \in 1..n /\ k = j - 1
  <2> DEFINE a == Len(x.argv)
             e == Len(x.envp)
  <2>1. a \in Nat /\ e \in Nat /\ n = 11 + a + e /\ k \in 0..(10 + a + e) BY <1>3, <1>4
  <2> HIDE DEF a, e
  <2> QED BY <2>1
<1>6. 4 * n <= Two[W]
  <2> DEFINE t == Two[W]
             top == StackTop
  <2>1. t \in Nat BY WFacts
  <2>2. top \in 0..(t - 1) /\ sp \in 0..(t - 1) BY <1>3 DEF Word
  <2>3. sp + 4 * n = top BY <1>3
  <2> HIDE DEF t, top
  <2>4. 4 * n <= t BY <1>5, <2>1, <2>2, <2>3
  <2> QED BY <2>4 DEF t
<1> HIDE DEF j
<1>7. WordAt(WithWords(m, sp, words), sp + 4 * (j - 1)) = U(words[j])
  <2>1. sp \in Int BY <1>3, WordFacts
  <2> QED BY <1>1, <1>3, <1>5, <1>6, <2>1, WordStored DEF n
<1>8. WordAt(Loaded(x).mem, sp + 4 * k) = U(words[j]) BY <1>2, <1>5, <1>7
<1> QED BY <1>8 DEF sp, words, j

LEMMA StringRead ==
  ASSUME NEW x, Executable(x), NEW k \in 1..Len(Strings(x))
  PROVE  LET p == PointerTo(x, k)
             s == Strings(x)[k]
         IN /\ p \in Word /\ s \in Seq(Byte \ {0})
            /\ \A i \in DOMAIN s : Loaded(x).mem[p + i - 1] = s[i]
            /\ Loaded(x).mem[p + Len(s)] = 0
<1> DEFINE words == FrameWords(x)
           n == Len(words)
           sp == StackPointer(x)
           m == WithStrings(WithZeroPages(Segments(x)).mem, x)
           M == Loaded(x).mem
           p == PointerTo(x, k)
           s == Strings(x)[k]
           X == Byte \ {0}
<1>1. m \in Memory
  <2>1. WithZeroPages(Segments(x)) \in LoadState BY SegmentsTyped, ZeroPagesTyped
  <2>2. WithZeroPages(Segments(x)).mem \in Memory BY <2>1 DEF LoadState
  <2> QED BY <2>2, WithStringsTyped
<1>2. M = WithWords(m, sp, words) BY LoadedTyped
<1>3. words \in Seq(Int) /\ sp \in Word /\ sp + 4 * n = StackTop /\ StackTop \in Word BY FrameFacts
<1>4. \A a \in sp..(StackTop - 1) : PageOf(a) \in StackPages BY DEF Executable
<1>5. ArgPage \notin StackPages BY LoaderAssumption
<1>6. s \in Seq(X) /\ Len(s) \in Nat /\ DOMAIN s = 1..Len(s) /\ p \in Nat
  <2>1. DOMAIN Strings(x) = 1..Len(Strings(x)) /\ Len(Strings(x)) \in Nat
        /\ \A l \in DOMAIN Strings(x) : Strings(x)[l] \in Seq(Byte \ {0}) /\ Len(Strings(x)[l]) \in Nat
    BY StringsFacts
  <2>2. s \in Seq(X) BY <2>1
  <2>3. DOMAIN s = 1..Len(s) /\ Len(s) \in Nat
    <3> HIDE DEF s, X
    <3> QED BY <2>2, SeqFacts
  <2>4. p \in Nat
    <3>1. k \in 1..(Len(Strings(x)) + 1) BY <2>1
    <3> QED BY <3>1, PointersTyped
  <2> QED BY <2>2, <2>3, <2>4
<1>7. ASSUME NEW i \in 0..Len(s) PROVE p + i \in Word /\ M[p + i] = Append(s, 0)[i + 1]
  <2>1. p + i \in Word /\ PageOf(p + i) = ArgPage /\ m[p + i] = Append(s, 0)[i + 1] BY StringStored
  <2> DEFINE b == p + i
  <2>2. b \in Word /\ b \notin sp..(StackTop - 1) BY <1>4, <1>5, <2>1
  <2> HIDE DEF b, m, sp, words
  <2>3. sp + 4 * Len(words) = StackTop BY <1>3 DEF n
  <2>4. WithWords(m, sp, words)[b] = m[b] BY <1>1, <1>3, <2>2, <2>3, Untouched
  <2> QED BY <1>2, <2>1, <2>4 DEF b
<1> HIDE DEF M, p, s, m, sp, words, X
<1>8. \A i \in 1..Len(s) : Append(s, 0)[i] = s[i]
  <2> DEFINE Y == Byte
  <2>1. s \in Seq(Y) /\ 0 \in Y
    <3>1. X \subseteq Byte BY DEF X
    <3>2. 0 \in Byte BY WordFacts, BytePowers DEF Byte
    <3> QED BY <1>6, <3>1, <3>2, SeqMonotonic
  <2> HIDE DEF Y
  <2> QED BY <2>1, AppendProperties
<1>9. Append(s, 0)[Len(s) + 1] = 0
  <2> DEFINE Y == Byte
  <2>1. s \in Seq(Y) /\ 0 \in Y
    <3>1. X \subseteq Byte BY DEF X
    <3>2. 0 \in Byte BY WordFacts, BytePowers DEF Byte
    <3> QED BY <1>6, <3>1, <3>2, SeqMonotonic
  <2> HIDE DEF Y
  <2> QED BY <2>1, AppendProperties
<1>10. ASSUME NEW i \in DOMAIN s PROVE M[p + i - 1] = s[i]
  <2> DEFINE j == i - 1
  <2>1. j \in 0..Len(s) /\ j + 1 = i /\ p + j = p + i - 1 /\ i \in 1..Len(s) BY <1>6
  <2> HIDE DEF j
  <2>2. M[p + j] = Append(s, 0)[j + 1] BY <1>7, <2>1
  <2>3. M[p + j] = s[i] BY <1>8, <2>1, <2>2
  <2> QED BY <2>1, <2>3
<1>11. M[p + Len(s)] = 0 /\ p \in Word
  <2>1. Len(s) \in 0..Len(s) /\ 0 \in 0..Len(s) /\ p + 0 = p BY <1>6
  <2> QED BY <1>7, <1>9, <2>1
<1> QED BY <1>6, <1>10, <1>11 DEF M, p, s, X

(* What InterpBase finds, if the headers of the interpreter have two bases *)
(* at most.                                                                *)
LEMMA InterpBaseFound ==
  ASSUME NEW x, Executable(x), BaseFound(x)
  PROVE  InterpBase(x) = InterpBias + BaseOf(FirstLoad(x.interp[1].headers))
<1> DEFINE e == x.interp[1]
           h == InterpHeaders(x)
           loads == LoadsOf(h)
           k == FirstOf(loads)
           base == BaseOf(FirstLoad(h))
           again == Rebasing(x)
           l == FirstOf(again)
<1>1. x.interp # <<>> /\ base # BaseAddress(x) /\ \A i \in 1..k : BaseOf(h[i]) \in {base, BaseAddress(x)}
  BY DEF BaseFound
<1>2. WellFormed(e, InterpBias) /\ InterpBias \in Nat BY <1>1, ExecutableFacts
<1>3. /\ Len(h) \in Nat /\ Len(h) = Len(e.headers) /\ DOMAIN h = 1..Len(h)
      /\ \A n \in 1..Len(h) : /\ Loadable(h[n], e.file) /\ h[n].vaddr = e.headers[n].vaddr + InterpBias
                              /\ h[n].type = e.headers[n].type /\ h[n].offset = e.headers[n].offset
      /\ loads = LoadsOf(e.headers)
  BY <1>2, MovedFacts DEF InterpHeaders
<1>4. loads \subseteq 1..Len(h) /\ loads # {}
  <2>1. loads # {} BY <1>2, <1>3 DEF WellFormed
  <2>2. loads \subseteq DOMAIN h BY DEF LoadsOf
  <2> QED BY <1>3, <2>1, <2>2
<1>5. k \in loads /\ k \in 1..Len(h)
  <2> HIDE DEF loads
  <2>1. loads \subseteq Nat BY <1>3, <1>4
  <2>2. k \in loads BY <1>4, <2>1, FirstFacts
  <2> QED BY <1>4, <2>2
<1>6. FirstLoad(h) = h[k] /\ FirstLoad(e.headers) = e.headers[k] BY <1>3 DEF FirstLoad
<1>7. base = InterpBias + BaseOf(FirstLoad(e.headers))
  <2>1. h[k].vaddr \in Nat /\ h[k].offset \in Nat BY <1>3, <1>5 DEF Loadable, ProgramHeader
  <2>2. e.headers[k].vaddr \in Nat
    <3> DEFINE X == ProgramHeader
    <3>1. e.headers \in Seq(X) BY <1>2 DEF WellFormed
    <3> HIDE DEF X
    <3>2. DOMAIN e.headers = 1..Len(e.headers) /\ \A i \in DOMAIN e.headers : e.headers[i] \in X
      BY <3>1, SeqFacts
    <3>3. e.headers[k] \in ProgramHeader BY <1>3, <1>5, <3>2 DEF X
    <3> QED BY <3>3 DEF ProgramHeader
  <2>3. h[k].vaddr = e.headers[k].vaddr + InterpBias /\ h[k].offset = e.headers[k].offset BY <1>3, <1>5
  <2> QED BY <1>2, <1>6, <2>1, <2>2, <2>3 DEF BaseOf
<1>8. again = {i \in DOMAIN h : BaseOf(h[i]) # BaseAddress(x)} BY DEF Rebasing
<1> HIDE DEF h, loads, k, base, again
<1>9. k \in again
  <2>1. BaseOf(h[k]) # BaseAddress(x) BY <1>1, <1>6 DEF base
  <2> QED BY <1>3, <1>5, <1>8, <2>1
<1>10. l \in again /\ l <= k
  <2>1. again \subseteq Nat /\ again # {} BY <1>3, <1>8, <1>9
  <2>2. l \in again /\ \A i \in again : l <= i BY <2>1, FirstFacts
  <2> QED BY <1>9, <2>2
<1>11. BaseOf(h[l]) = base
  <2>1. l \in 1..Len(h) /\ BaseOf(h[l]) # BaseAddress(x) BY <1>3, <1>8, <1>10
  <2>2. l \in 1..k BY <1>3, <1>5, <1>10, <2>1
  <2> QED BY <1>1, <2>1, <2>2
<1>12. InterpBase(x) = BaseOf(h[l]) BY <1>1, <1>9 DEF InterpBase, h, again
<1> QED BY <1>7, <1>11, <1>12

LEMMA FrameRight == ASSUME NEW x, Executable(x) PROVE FrameHolds(x, Loaded(x).mem, StackPointer(x))
<1> DEFINE words == FrameWords(x)
           sp == StackPointer(x)
           m == Loaded(x).mem
           at(k) == WordAt(m, sp + 4 * k)
           a == Len(x.argv)
           e == Len(x.envp)
           aux == a + e + 3
<1>1. a \in Nat /\ e \in Nat /\ DOMAIN x.argv = 1..a /\ DOMAIN x.envp = 1..e
      /\ Len(Strings(x)) = a + e
      /\ (\A k \in 1..a : Strings(x)[k] = x.argv[k]) /\ (\A k \in 1..e : Strings(x)[a + k] = x.envp[k])
  BY StringsFacts
<1>2. sp \in Word /\ sp % 4 = 0 /\ sp + 4 * (11 + a + e) = StackTop /\ StackTop \in Word BY FrameFacts
<1>3. \A k \in 0..(10 + a + e) : at(k) = U(words[k + 1]) BY FrameRead
<1>4. /\ words[1] = a /\ words[2 + a] = 0 /\ words[3 + a + e] = 0
      /\ \A k \in 1..a : words[1 + k] = PointerTo(x, k)
      /\ \A k \in 1..e : words[2 + a + k] = PointerTo(x, a + k)
      /\ \A k \in 1..8 : words[3 + a + e + k] = AuxWords(x)[k]
  BY FrameWordsFacts
<1>5. ASSUME NEW k \in 1..(a + e) PROVE /\ PointerTo(x, k) \in Word
                                        /\ IsString(m, PointerTo(x, k), Strings(x)[k])
  <2>1. k \in 1..Len(Strings(x)) BY <1>1
  <2> QED BY <2>1, StringRead DEF IsString
<1> HIDE DEF words, sp, m, at, a, e
<1>6. sp + 4 * (aux + 8) <= StackTop
  <2>1. aux + 8 = 11 + a + e BY <1>1
  <2>2. StackTop \in Int BY <1>2, WordFacts
  <2> HIDE DEF aux
  <2> QED BY <1>2, <2>1, <2>2
<1>7. a \in Word
  <2> DEFINE t == Two[W]
             top == StackTop
  <2>1. t \in Nat BY WFacts
  <2>2. top \in 0..(t - 1) /\ sp \in 0..(t - 1) /\ sp + 4 * (11 + a + e) = top BY <1>2 DEF Word
  <2> HIDE DEF t, top
  <2>3. a \in 0..(t - 1) BY <1>1, <2>1, <2>2
  <2> QED BY <2>3 DEF t, Word
<1>8. at(0) = a
  <2>1. 0 \in 0..(10 + a + e) /\ 0 + 1 = 1 BY <1>1
  <2>2. at(0) = U(a) BY <1>3, <1>4, <2>1
  <2> QED BY <1>7, <2>2, WordUnchanged
<1>9. at(a + 1) = 0 /\ at(aux - 1) = 0
  <2> DEFINE i == a + 1
             j == aux - 1
  <2>1. i \in 0..(10 + a + e) /\ i + 1 = 2 + a /\ j \in 0..(10 + a + e) /\ j + 1 = 3 + a + e BY <1>1
  <2> HIDE DEF i, j, aux
  <2>2. at(i) = U(0) /\ at(j) = U(0) BY <1>3, <1>4, <2>1
  <2>3. U(0) = 0 BY WordFacts
  <2> QED BY <2>2, <2>3 DEF i, j
<1>10. ASSUME NEW k \in DOMAIN x.argv PROVE IsString(m, at(k), x.argv[k])
  <2>1. k \in 1..a /\ k \in 1..(a + e) /\ k \in 0..(10 + a + e) /\ k + 1 = 1 + k BY <1>1
  <2>2. at(k) = U(PointerTo(x, k)) BY <1>3, <1>4, <2>1
  <2>3. at(k) = PointerTo(x, k) BY <1>5, <2>1, <2>2, WordUnchanged
  <2>4. Strings(x)[k] = x.argv[k] BY <1>1, <2>1
  <2> QED BY <1>5, <2>1, <2>3, <2>4
<1>11. ASSUME NEW k \in DOMAIN x.envp PROVE IsString(m, at(a + 1 + k), x.envp[k])
  <2> DEFINE i == a + 1 + k
             j == a + k
  <2>1. k \in 1..e /\ j \in 1..(a + e) /\ i \in 0..(10 + a + e) /\ i + 1 = 2 + a + k
    <3>1. k \in 1..e BY <1>1
    <3>2. a \in Nat /\ e \in Nat BY <1>1
    <3> QED BY <3>1, <3>2
  <2>2. words[2 + a + k] = PointerTo(x, j) /\ Strings(x)[j] = x.envp[k] BY <1>1, <1>4, <2>1
  <2> HIDE DEF i, j
  <2>3. at(i) = U(PointerTo(x, j)) BY <1>3, <2>1, <2>2
  <2>4. at(i) = PointerTo(x, j) BY <1>5, <2>1, <2>3, WordUnchanged
  <2>5. IsString(m, at(i), x.envp[k]) BY <1>5, <2>1, <2>2, <2>4
  <2> QED BY <2>5 DEF i
<1>12. ASSUME NEW k \in 0..7 PROVE at(aux + k) = U(AuxWords(x)[k + 1])
  <2> DEFINE i == aux + k
             j == k + 1
  <2>1. j \in 1..8 /\ i \in 0..(10 + a + e) /\ i + 1 = 3 + a + e + j BY <1>1
  <2> HIDE DEF i, j, aux
  <2>2. at(i) = U(AuxWords(x)[j]) BY <1>3, <1>4, <2>1
  <2> QED BY <2>2 DEF i, j
<1>13. /\ AuxWords(x)[1] = 3 /\ AuxWords(x)[3] = 7 /\ AuxWords(x)[4] = InterpBase(x) /\ AuxWords(x)[5] = 9
       /\ AuxWords(x)[6] = EntryPoint(x) /\ AuxWords(x)[7] = 0
  BY DEF AuxWords
<1>14. U(3) = 3 /\ U(7) = 7 /\ U(9) = 9 /\ U(0) = 0
  <2>1. 3 \in Word /\ 7 \in Word /\ 9 \in Word /\ 0 \in Word BY WFacts DEF Word
  <2> QED BY <2>1, WordFacts
<1> HIDE DEF aux
<1>15. /\ at(aux) = 3 /\ at(aux + 2) = 7 /\ at(aux + 4) = 9 /\ at(aux + 6) = 0
       /\ at(aux + 3) = U(InterpBase(x)) /\ at(aux + 5) = U(EntryPoint(x))
  <2>1. at(aux + 0) = U(AuxWords(x)[0 + 1]) /\ at(aux + 2) = U(AuxWords(x)[2 + 1])
        /\ at(aux + 3) = U(AuxWords(x)[3 + 1]) /\ at(aux + 4) = U(AuxWords(x)[4 + 1])
        /\ at(aux + 5) = U(AuxWords(x)[5 + 1]) /\ at(aux + 6) = U(AuxWords(x)[6 + 1])
    BY <1>12
  <2>2. aux + 0 = aux BY <1>1 DEF aux
  <2> QED BY <1>13, <1>14, <2>1, <2>2
<1>16. BaseFound(x) => at(aux + 3) = U(InterpBias + BaseOf(FirstLoad(x.interp[1].headers)))
  BY <1>15, InterpBaseFound
<1> QED BY <1>2, <1>6, <1>8, <1>9, <1>10, <1>11, <1>15, <1>16 DEF FrameHolds, sp, m, at, a, e, aux

(* Only the loader acts while there is something to load.                  *)
LEMMA OnlyBoot ==
  ASSUME IInv, Next, exe # None
  PROVE  /\ Executable(exe)
         /\ \/ thrown' /\ Loaded(exe).error
            \/ /\ thrown' = thrown /\ ~thrown /\ ~Loaded(exe).error
               /\ registers' = [registers EXCEPT ![PC] = U(StartAddress(exe)), ![Sp] = U(StackPointer(exe))]
               /\ mem' = Loaded(exe).mem /\ flags' = Loaded(exe).flags
<1>1. exe \in Executables /\ ~inside BY DEF IInv
<1>2. Executable(exe) BY <1>1, ExecutablesAssumption
<1>3. Boot
  <2>1. ~Fetched /\ ~Starts BY <1>1 DEF Fetched, Starts
  <2>2. \A ops : ~Is(ops) BY <2>1 DEF Is
  <2>3. ~Execute
    BY <2>2 DEF Execute, Arithmetic, MultiplyDivide, MoveHighLow, Branch, Jump, Load, Store, Passes, FloatLoad,
       FloatStore, FloatMove, Compare, FloatBranch
  <2>4. ~Returns /\ ~Unknown /\ ~Blocks /\ ~Signals /\ ~Exit
    BY <2>2 DEF Returns, Unknown, Blocks, Signals, Exit
  <2>5. ~Fails BY <1>1, <2>1, <2>2 DEF Fails
  <2>6. ~Enter /\ ~Expire /\ ~SendSignal /\ ~Wake BY <1>1, <2>1 DEF Enter, Expire, SendSignal, Wake
  <2> QED BY <2>3, <2>4, <2>5, <2>6 DEF Next
<1>4. CASE Loaded(exe).error
  <2>1. Throws BY <1>3, <1>4 DEF Boot
  <2> QED BY <1>2, <1>4, <2>1 DEF Throws
<1>5. CASE ~Loaded(exe).error
  <2>1. /\ registers' = [registers EXCEPT ![PC] = U(StartAddress(exe)), ![Sp] = U(StackPointer(exe))]
        /\ mem' = Loaded(exe).mem /\ flags' = Loaded(exe).flags /\ thrown' = thrown /\ ~thrown
    BY <1>3, <1>5 DEF Boot
  <2> QED BY <1>2, <1>5, <2>1
<1> QED BY <1>4, <1>5

(* A program that is started finds its arguments, its environment and the  *)
(* auxiliary vector where its C library reads them, whatever they are.     *)
LEMMA StartFrameStep ==
  ASSUME IInv, Next, exe # None, ~thrown' PROVE FrameHolds(exe, mem', registers'[Sp])
<1>1. /\ Executable(exe) /\ mem' = Loaded(exe).mem
      /\ registers' = [registers EXCEPT ![PC] = U(StartAddress(exe)), ![Sp] = U(StackPointer(exe))]
  BY OnlyBoot
<1>2. registers \in Registered BY StateFacts
<1>3. registers'[Sp] = U(StackPointer(exe))
  <2>1. Sp \in Registers /\ Sp # PC BY RegisterFacts DEF Sp, PC
  <2> QED BY <1>1, <1>2, <2>1 DEF Registered
<1>4. registers'[Sp] = StackPointer(exe)
  <2>1. StackPointer(exe) \in Word BY <1>1, FrameFacts
  <2> QED BY <1>3, <2>1, WordUnchanged
<1>5. FrameHolds(exe, Loaded(exe).mem, StackPointer(exe)) BY <1>1, FrameRight
<1> QED BY <1>1, <1>4, <1>5

THEOREM StartFrameCorrect == Spec => StartFrame
<1>1. IInv /\ [Next]_vars => [exe # None /\ ~thrown' => FrameHolds(exe, mem', registers'[Sp])]_vars
  BY StartFrameStep
<1> QED BY <1>1, Invariant, PTL DEF Spec, StartFrame

-----------------------------------------------------------------------------
(* What the loader leaves.  Pages, which end at Limit, and their addresses.*)
LEMMA PageFacts ==
  /\ \A a \in Word : /\ PageOf(a) \in Page <=> a < Limit
                     /\ PageOf(a) \in Page => a \in Bytes(PageOf(a))
  /\ \A g \in Page : \A a \in Bytes(g) : a \in Word /\ PageOf(a) = g
<1> DEFINE p == PageSize
           t == Limit
           q == t \div p
           w == Two[W]
<1>1. p \in Nat \ {0} /\ t % p = 0 /\ t \in Nat /\ w \in Nat /\ t <= w BY LoaderAssumption, WFacts
<1> HIDE DEF p, t, w
<1>2. PICK u \in Int, r \in 0..(p - 1) : u = t \div p /\ r = t % p /\ t = u * p + r BY <1>1, Division
<1>3. q \in Int /\ t = q * p BY <1>1, <1>2
<1> HIDE DEF q
<1>4. Page = 0..(q - 1) /\ Word = 0..(w - 1) BY DEF Page, Word, q, t, w, p
<1>5. \A g : Bytes(g) = (g * p)..(g * p + p - 1) BY DEF Bytes, p
<1>6. \A a : PageOf(a) = a \div p BY DEF PageOf, p
<1>7. ASSUME NEW a \in Word PROVE /\ PageOf(a) \in Page <=> a < Limit
                                  /\ PageOf(a) \in Page => a \in Bytes(PageOf(a))
  <2> DEFINE g == a \div p
  <2>1. a \in Int /\ 0 <= a BY <1>1, <1>4
  <2>2. PICK v \in Int, i \in 0..(p - 1) : v = g /\ a = v * p + i BY <1>1, <2>1, Division
  <2> HIDE DEF g
  <2>3. g \in Int /\ i \in Int /\ 0 <= i /\ i < p /\ a = g * p + i /\ g * p \in Int
    <3>1. g \in Int /\ g * p \in Int BY <1>1, <2>2
    <3> QED BY <1>1, <2>2, <3>1
  <2>4. g >= 0
    <3>1. SUFFICES ASSUME g <= -1 PROVE FALSE BY <2>3
    <3>2. (-1 - g) * p >= 0 /\ (-1 - g) * p = -p - g * p
      <4>1. -1 - g \in Nat BY <2>3, <3>1
      <4>2. (-1 - g) * p \in Nat BY <1>1, <4>1
      <4>3. (-1 - g) * p = -p - g * p BY <1>1, <2>3
      <4> QED BY <4>2, <4>3
    <3> QED BY <1>1, <2>1, <2>3, <3>2
  <2>5. a < t => g < q
    <3> SUFFICES ASSUME a < t PROVE g < q OBVIOUS
    <3>3. a < q * p BY <1>3
    <3>1. SUFFICES ASSUME g >= q PROVE FALSE BY <1>3, <2>3
    <3>2. (g - q) * p >= 0 /\ (g - q) * p = g * p - q * p /\ q * p \in Int
      <4>1. g - q \in Nat BY <1>3, <2>3, <3>1
      <4>2. (g - q) * p \in Nat BY <1>1, <4>1
      <4>3. (g - q) * p = g * p - q * p /\ q * p \in Int BY <1>1, <1>3, <2>3
      <4> QED BY <4>2, <4>3
    <3> QED BY <2>1, <2>3, <3>2, <3>3
  <2>6. a < t => g \in Page BY <1>3, <1>4, <2>3, <2>4, <2>5
  <2>8. g \in Page => a < t
    <3> SUFFICES ASSUME g \in Page PROVE a < t OBVIOUS
    <3>1. q - (g + 1) \in Nat BY <1>3, <1>4, <2>3
    <3>2. (q - (g + 1)) * p \in Nat BY <1>1, <3>1
    <3>3. (q - (g + 1)) * p = q * p - (g * p + p) /\ q * p \in Int BY <1>1, <1>3, <2>3
    <3> QED BY <1>1, <1>3, <2>3, <3>2, <3>3
  <2>7. a \in Bytes(g)
    <3>1. a \in (g * p)..(g * p + p - 1) BY <1>1, <2>3
    <3> QED BY <1>5, <3>1
  <2>9. PageOf(a) \in Page <=> a < t BY <1>6, <2>6, <2>8 DEF g
  <2>10. PageOf(a) \in Page => a \in Bytes(PageOf(a)) BY <1>6, <2>7 DEF g
  <2>11. t = Limit BY DEF t
  <2> QED BY ONLY <2>9, <2>10, <2>11
<1>8. ASSUME NEW g \in Page, NEW a \in Bytes(g) PROVE a \in Word /\ PageOf(a) = g
  <2> DEFINE i == a - g * p
  <2>1. g \in Nat /\ g + 1 <= q /\ g * p \in Nat
    <3>1. g \in Nat /\ g + 1 <= q BY <1>3, <1>4
    <3> QED BY <1>1, <3>1
  <2>2. a \in Int /\ i \in 0..(p - 1) /\ a = g * p + i
    <3>1. a \in (g * p)..(g * p + p - 1) BY <1>5
    <3> QED BY <1>1, <2>1, <3>1
  <2> HIDE DEF i
  <2>3. a \div p = g BY <1>1, <2>1, <2>2, Unique
  <2>4. g * p + p <= q * p
    <3>1. q - (g + 1) \in Nat BY <1>3, <2>1
    <3>2. (q - (g + 1)) * p \in Nat BY <1>1, <3>1
    <3>3. (q - (g + 1)) * p = q * p - (g * p + p) /\ q * p \in Int BY <1>1, <1>3, <2>1
    <3> QED BY <1>1, <2>1, <3>2, <3>3
  <2>5. a \in 0..(t - 1)
    <3>1. q * p \in Int BY <1>1, <1>3
    <3> QED BY <1>1, <1>3, <2>1, <2>2, <2>4, <3>1
  <2>6. a \in Word BY <1>1, <1>4, <2>5
  <2> QED BY <1>6, <2>3, <2>6
<1> QED BY ONLY <1>7, <1>8

(* The pages of bytes i, ..., j of a segment, counted from 1.              *)
Reached(h, i, j) == {PageOf(h.vaddr + b - 1) : b \in i..j}

(* After the first b bytes of a segment are copied.                        *)
HasCopied(s, h, file, b, t) ==
  LET pages == Reached(h, 1, b)
  IN /\ t \in LoadState
     /\ t.error <=> s.error \/ \E g \in pages : Refuses(s, g)
     /\ ~t.error =>
          /\ \A g \in Page : t.kind[g] = IF g \in pages THEN "own" ELSE s.kind[g]
          /\ \A g \in Page : t.flags[g] = IF g \in pages /\ s.kind[g] = "none" THEN h.flags ELSE s.flags[g]
          /\ \A a \in Word : t.mem[a] = IF a \in h.vaddr..(h.vaddr + b - 1) THEN file[a - h.vaddr + h.offset + 1]
                                        ELSE s.mem[a]

LEMMA SegmentAddresses ==
  ASSUME NEW file \in Seq(Byte), NEW h, Loadable(h, file), h.type = "load"
  PROVE  /\ h.filesz \in Nat /\ h.memsz \in Nat /\ h.vaddr \in Nat /\ h.offset \in Nat /\ h.flags \in Rights3
         /\ h.filesz <= h.memsz
         /\ \A b \in 1..h.memsz : h.vaddr + b - 1 \in Word
         /\ \A b \in 1..h.filesz : file[h.offset + b] \in Byte
<1>1. /\ h.filesz \in Nat /\ h.memsz \in Nat /\ h.vaddr \in Nat /\ h.offset \in Nat /\ h.flags \in Rights3
      /\ h.filesz <= h.memsz /\ h.offset + h.filesz <= Len(file) /\ h.vaddr + h.memsz <= Two[W]
  BY DEF Loadable, ProgramHeader, Rights3
<1>2. ASSUME NEW b \in 1..h.memsz PROVE h.vaddr + b - 1 \in Word
  <2> DEFINE t == Two[W]
             v == h.vaddr
             n == h.memsz
  <2>1. t \in Nat /\ v \in Nat /\ n \in Nat /\ v + n <= t /\ b \in 1..n BY <1>1, WFacts
  <2> HIDE DEF t, v, n
  <2>2. v + b - 1 \in 0..(t - 1) BY <2>1
  <2> QED BY <2>2 DEF t, v, Word
<1>3. ASSUME NEW b \in 1..h.filesz PROVE file[h.offset + b] \in Byte
  <2> DEFINE X == Byte
             o == h.offset
             n == h.filesz
             l == Len(file)
  <2>1. file \in Seq(X) OBVIOUS
  <2>2. l \in Nat /\ DOMAIN file = 1..l /\ \A k \in DOMAIN file : file[k] \in X
    <3> HIDE DEF X
    <3> QED BY <2>1, SeqFacts
  <2>3. o \in Nat /\ n \in Nat /\ o + n <= l /\ b \in 1..n BY <1>1
  <2> HIDE DEF o, n, l
  <2>4. o + b \in 1..l BY <2>2, <2>3
  <2> QED BY <2>2, <2>4 DEF o
<1> QED BY <1>1, <1>2, <1>3

LEMMA ReachedNext ==
  ASSUME NEW h, NEW i \in Nat, NEW b \in Nat, i <= b + 1
  PROVE  /\ Reached(h, i, b + 1) = Reached(h, i, b) \cup {PageOf(h.vaddr + (b + 1) - 1)}
         /\ \A j : Reached(h, b + 1, b) = {}
<1> DEFINE P(c) == PageOf(h.vaddr + c - 1)
           k == b + 1
<1>1. i..k = (i..b) \cup {k} BY DEF k
<1>2. Reached(h, i, k) = {P(c) : c \in i..k} /\ Reached(h, i, b) = {P(c) : c \in i..b} BY DEF Reached
<1>3. {P(c) : c \in i..k} = {P(c) : c \in i..b} \cup {P(k)}
  <2> HIDE DEF P, k
  <2> QED BY <1>1
<1>4. (b + 1)..b = {} OBVIOUS
<1>5. Reached(h, b + 1, b) = {} BY <1>4 DEF Reached
<1> HIDE DEF P, k
<1>6. Reached(h, i, k) = Reached(h, i, b) \cup {P(k)} BY <1>2, <1>3
<1> QED BY <1>5, <1>6 DEF P, k

LEMMA CopiesNext ==
  ASSUME NEW s \in LoadState, NEW file, NEW h, NEW b \in Nat, NEW u, HasCopied(s, h, file, b, u),
         h.vaddr \in Nat, h.offset \in Nat, h.flags \in Rights3, file[h.offset + (b + 1)] \in Byte,
         h.vaddr + (b + 1) - 1 \in Word,
         NEW t, t = FileByte(u, h.vaddr + (b + 1) - 1, file[h.offset + (b + 1)], h.flags)
  PROVE  HasCopied(s, h, file, b + 1, t)
<1> DEFINE a == h.vaddr + (b + 1) - 1
           byte == file[h.offset + (b + 1)]
           prot == h.flags
           p == PageOf(a)
           was == Reached(h, 1, b)
           is == Reached(h, 1, b + 1)
<1>1. is = was \cup {p} BY ReachedNext
<1>2. /\ u \in LoadState /\ (u.error <=> s.error \/ \E g \in was : Refuses(s, g))
      /\ ~u.error =>
           /\ \A g \in Page : u.kind[g] = IF g \in was THEN "own" ELSE s.kind[g]
           /\ \A g \in Page : u.flags[g] = IF g \in was /\ s.kind[g] = "none" THEN prot ELSE s.flags[g]
           /\ \A c \in Word : u.mem[c] = IF c \in h.vaddr..(h.vaddr + b - 1) THEN file[c - h.vaddr + h.offset + 1]
                                         ELSE s.mem[c]
  BY DEF HasCopied
<1>3. a \in Word /\ byte \in Byte /\ prot \in Rights3 OBVIOUS
<1>4. /\ FileByte(u, a, byte, prot) \in LoadState
      /\ u.error \/ Refuses(u, p) => FileByte(u, a, byte, prot) = [u EXCEPT !.error = TRUE]
      /\ ~(u.error \/ Refuses(u, p)) =>
           LET v == FileByte(u, a, byte, prot)
           IN /\ v.mem = [u.mem EXCEPT ![a] = byte] /\ v.kind = [u.kind EXCEPT ![p] = "own"]
              /\ v.flags = [u.flags EXCEPT ![p] = IF u.kind[p] = "none" THEN prot ELSE @]
              /\ v.error = u.error
  BY <1>2, <1>3, FileByteFacts
<1>5. h.vaddr \in Nat /\ h.offset \in Nat OBVIOUS
<1>6. /\ \A c \in Word : c \in h.vaddr..(h.vaddr + (b + 1) - 1) <=> c \in h.vaddr..(h.vaddr + b - 1) \/ c = a
      /\ byte = file[a - h.vaddr + h.offset + 1]
      /\ a \notin h.vaddr..(h.vaddr + b - 1)
  <2> DEFINE v == h.vaddr
             o == h.offset
  <2>1. v \in Nat /\ o \in Nat /\ a = v + (b + 1) - 1 BY <1>5
  <2>2. \A c \in Word : c \in Int BY WordFacts
  <2>3. byte = file[o + (b + 1)] OBVIOUS
  <2> HIDE DEF v, o, a, byte
  <2>4. \A c \in Word : c \in v..(v + (b + 1) - 1) <=> c \in v..(v + b - 1) \/ c = a BY <2>1, <2>2
  <2>5. a - v + o + 1 = o + (b + 1) BY <2>1
  <2>6. a \notin v..(v + b - 1) BY <2>1
  <2> QED BY <2>3, <2>4, <2>5, <2>6 DEF v, o
<1>7. t = FileByte(u, a, byte, prot) OBVIOUS
<1> HIDE DEF a, byte, prot, p, was, is
<1>8. t \in LoadState BY <1>4, <1>7
<1>9. CASE u.error \/ Refuses(u, p)
  <2>1. t = [u EXCEPT !.error = TRUE] BY <1>4, <1>7, <1>9
  <2>2. t.error BY <1>2, <2>1 DEF LoadState
  <2>3. s.error \/ \E g \in is : Refuses(s, g)
    <3>1. CASE u.error BY <1>1, <1>2, <3>1
    <3>2. CASE ~u.error
      <4>1. p \notin Page \/ u.kind[p] = "zero" BY <1>9, <3>2 DEF Refuses
      <4>3. p \in Page => u.kind[p] = IF p \in was THEN "own" ELSE s.kind[p] BY <1>2, <3>2
      <4>2. Refuses(s, p) BY <4>1, <4>3 DEF Refuses
      <4> QED BY <1>1, <4>2
    <3> QED BY <3>1, <3>2
  <2> QED BY <1>8, <2>2, <2>3 DEF HasCopied, is
<1>10. CASE ~(u.error \/ Refuses(u, p))
  <2>1. /\ t.mem = [u.mem EXCEPT ![a] = byte] /\ t.kind = [u.kind EXCEPT ![p] = "own"]
        /\ t.flags = [u.flags EXCEPT ![p] = IF u.kind[p] = "none" THEN prot ELSE @] /\ t.error = u.error
    BY <1>4, <1>7, <1>10
  <2>2. u.mem \in [Word -> Byte] /\ u.kind \in [Page -> Kinds] /\ u.flags \in [Page -> Rights3]
    BY <1>2 DEF LoadState, Memory, Address
  <2>3. p \in Page /\ u.kind[p] # "zero" /\ u.kind[p] = IF p \in was THEN "own" ELSE s.kind[p]
    BY <1>2, <1>10 DEF Refuses
  <2>4. ~t.error /\ ~u.error BY <1>10, <2>1
  <2>5. ~(s.error \/ \E g \in is : Refuses(s, g))
    <3>1. ~s.error /\ \A g \in was : ~Refuses(s, g) BY <1>2, <2>4
    <3>2. p \in was \/ ~Refuses(s, p) BY <2>3 DEF Refuses
    <3> QED BY <1>1, <3>1, <3>2
  <2>6. ASSUME NEW g \in Page PROVE t.kind[g] = IF g \in is THEN "own" ELSE s.kind[g]
    <3>1. t.kind[g] = IF g = p THEN "own" ELSE u.kind[g] BY <2>1, <2>2
    <3> QED BY <1>1, <1>2, <2>4, <3>1
  <2>7. ASSUME NEW g \in Page
        PROVE t.flags[g] = IF g \in is /\ s.kind[g] = "none" THEN prot ELSE s.flags[g]
    <3>1. t.flags[g] = IF g = p THEN (IF u.kind[p] = "none" THEN prot ELSE u.flags[p]) ELSE u.flags[g]
      BY <2>1, <2>2
    <3>2. u.flags[g] = IF g \in was /\ s.kind[g] = "none" THEN prot ELSE s.flags[g] BY <1>2, <2>4
    <3> QED BY <1>1, <2>3, <3>1, <3>2
  <2>8. ASSUME NEW c \in Word
        PROVE t.mem[c] = IF c \in h.vaddr..(h.vaddr + (b + 1) - 1) THEN file[c - h.vaddr + h.offset + 1]
                         ELSE s.mem[c]
    <3>1. t.mem[c] = IF c = a THEN byte ELSE u.mem[c] BY <2>1, <2>2
    <3>2. u.mem[c] = IF c \in h.vaddr..(h.vaddr + b - 1) THEN file[c - h.vaddr + h.offset + 1] ELSE s.mem[c]
      BY <1>2, <2>4
    <3>3. c \in h.vaddr..(h.vaddr + (b + 1) - 1) <=> c \in h.vaddr..(h.vaddr + b - 1) \/ c = a BY <1>6
    <3>4. byte = file[a - h.vaddr + h.offset + 1] BY <1>6
    <3> QED BY ONLY <3>1, <3>2, <3>3, <3>4, Zenon
  <2> QED BY <1>8, <2>4, <2>5, <2>6, <2>7, <2>8 DEF HasCopied, is, prot
<1> QED BY <1>9, <1>10

LEMMA CopiedEffect ==
  ASSUME NEW s \in LoadState, NEW file \in Seq(Byte), NEW h, Loadable(h, file), h.type = "load"
  PROVE  HasCopied(s, h, file, h.filesz, Copied(s, h, file))
<1> DEFINE N == h.filesz
<1>1. /\ N \in Nat /\ h.memsz \in Nat /\ h.vaddr \in Nat /\ h.offset \in Nat /\ h.flags \in Rights3
      /\ N <= h.memsz
      /\ \A b \in 1..h.memsz : h.vaddr + b - 1 \in Word
      /\ \A b \in 1..N : file[h.offset + b] \in Byte
  BY SegmentAddresses
<1>2. PICK f : CopiedSteps(s, h, file, f) /\ Copied(s, h, file) = f[N] BY CopiedEquation
<1> DEFINE S == {b \in Nat : b <= N => HasCopied(s, h, file, b, f[b])}
<1>3. 0 \in S
  <2>1. Reached(h, 1, 0) = {} BY ReachedNext
  <2>2. h.vaddr..(h.vaddr + 0 - 1) = {} BY <1>1
  <2>3. f[0] = s BY <1>2 DEF CopiedSteps
  <2>4. HasCopied(s, h, file, 0, s) BY <2>1, <2>2 DEF HasCopied
  <2> QED BY <2>3, <2>4
<1>4. ASSUME NEW b \in Nat, b \in S PROVE b + 1 \in S
  <2> SUFFICES ASSUME b + 1 <= N PROVE HasCopied(s, h, file, b + 1, f[b + 1]) BY <1>4
  <2>1. b + 1 \in 1..N /\ b + 1 \in 1..h.memsz /\ (b + 1) - 1 = b /\ b <= N BY <1>1
  <2>2. HasCopied(s, h, file, b, f[b]) BY <1>4, <2>1
  <2>3. f[b + 1] = FileByte(f[b], h.vaddr + (b + 1) - 1, file[h.offset + (b + 1)], h.flags)
    BY <1>2, <2>1 DEF CopiedSteps
  <2>4. /\ h.vaddr + (b + 1) - 1 \in Word
        /\ file[h.offset + (b + 1)] \in Byte
    BY <1>1, <2>1
  <2> HIDE DEF S, N
  <2> QED BY <1>1, <2>2, <2>3, <2>4, CopiesNext
<1> HIDE DEF S
<1>5. Nat \subseteq S BY <1>3, <1>4, Induction
<1>6. N \in S BY <1>1, <1>5
<1> QED BY <1>1, <1>2, <1>6 DEF S

(* After b bytes of its memory a segment has what its file has not.        *)
HasZeros(s, h, b, t) ==
  LET pages == Reached(h, h.filesz + 1, b)
  IN /\ t \in LoadState /\ t.error = s.error /\ t.mem = s.mem
     /\ ~s.error =>
          /\ \A g \in Page : t.kind[g] = IF g \in pages /\ s.kind[g] = "none" THEN "zero" ELSE s.kind[g]
          /\ \A g \in Page : t.flags[g] = IF g \in pages /\ s.kind[g] = "none" THEN h.flags ELSE s.flags[g]

LEMMA ZerosNext ==
  ASSUME NEW s \in LoadState, NEW h, NEW b \in Nat, NEW u, HasZeros(s, h, b, u),
         h.filesz \in Nat, h.filesz <= b, h.flags \in Rights3,
         h.vaddr + (b + 1) - 1 \in Word,
         NEW t, t = BssByte(u, h.vaddr + (b + 1) - 1, h.flags)
  PROVE  HasZeros(s, h, b + 1, t)
<1> DEFINE a == h.vaddr + (b + 1) - 1
           prot == h.flags
           p == PageOf(a)
           was == Reached(h, h.filesz + 1, b)
           is == Reached(h, h.filesz + 1, b + 1)
<1>1. is = was \cup {p}
  <2> DEFINE i == h.filesz + 1
  <2>1. i \in Nat /\ i <= b + 1 OBVIOUS
  <2> HIDE DEF i
  <2>2. Reached(h, i, b + 1) = Reached(h, i, b) \cup {PageOf(h.vaddr + (b + 1) - 1)} BY <2>1, ReachedNext
  <2> QED BY <2>2 DEF i
<1>2. /\ u \in LoadState /\ u.error = s.error /\ u.mem = s.mem
      /\ ~s.error =>
           /\ \A g \in Page : u.kind[g] = IF g \in was /\ s.kind[g] = "none" THEN "zero" ELSE s.kind[g]
           /\ \A g \in Page : u.flags[g] = IF g \in was /\ s.kind[g] = "none" THEN prot ELSE s.flags[g]
  BY DEF HasZeros
<1>3. a \in Word /\ prot \in Rights3 OBVIOUS
<1>5. t = BssByte(u, a, prot) OBVIOUS
<1> HIDE DEF a, prot
<1>4. /\ BssByte(u, a, prot) \in LoadState
      /\ u.error \/ Ignores(u, p) => BssByte(u, a, prot) = u
      /\ ~(u.error \/ Ignores(u, p)) =>
           LET v == BssByte(u, a, prot)
           IN /\ v.mem = u.mem /\ v.kind = [u.kind EXCEPT ![p] = "zero"]
              /\ v.flags = [u.flags EXCEPT ![p] = prot] /\ v.error = u.error
  BY <1>2, <1>3, BssByteFacts
<1> HIDE DEF p, was, is
<1>6. CASE u.error \/ Ignores(u, p)
  <2>1. t = u BY <1>4, <1>5, <1>6
  <2>2. ASSUME ~s.error, NEW g \in Page
        PROVE  /\ u.kind[g] = IF g \in is /\ s.kind[g] = "none" THEN "zero" ELSE s.kind[g]
               /\ u.flags[g] = IF g \in is /\ s.kind[g] = "none" THEN prot ELSE s.flags[g]
    <3>1. p \in Page => u.kind[p] # "none" BY <1>2, <1>6, <2>2 DEF Ignores
    <3>2. p \in Page => p \in was \/ s.kind[p] # "none" BY <1>2, <2>2, <3>1
    <3> QED BY <1>1, <1>2, <2>2, <3>2
  <2> QED BY <1>2, <2>1, <2>2 DEF HasZeros, is, prot
<1>7. CASE ~(u.error \/ Ignores(u, p))
  <2>1. /\ t \in LoadState /\ t.mem = u.mem /\ t.kind = [u.kind EXCEPT ![p] = "zero"]
        /\ t.flags = [u.flags EXCEPT ![p] = prot] /\ t.error = u.error
    BY <1>4, <1>5, <1>7
  <2>2. u.kind \in [Page -> Kinds] /\ u.flags \in [Page -> Rights3] BY <1>2 DEF LoadState
  <2>3. ASSUME ~s.error, NEW g \in Page
        PROVE  /\ t.kind[g] = IF g \in is /\ s.kind[g] = "none" THEN "zero" ELSE s.kind[g]
               /\ t.flags[g] = IF g \in is /\ s.kind[g] = "none" THEN prot ELSE s.flags[g]
    <3>1. t.kind[g] = (IF g = p THEN "zero" ELSE u.kind[g]) /\ t.flags[g] = (IF g = p THEN prot ELSE u.flags[g])
      BY <2>1, <2>2
    <3>2. s.kind[p] = "none"
      <4>2. p \in Page /\ u.kind[p] = "none" BY <1>7 DEF Ignores
      <4>1. u.kind[p] = IF p \in was /\ s.kind[p] = "none" THEN "zero" ELSE s.kind[p] BY <1>2, <2>3, <4>2
      <4> QED BY <4>1, <4>2
    <3> QED BY <1>1, <1>2, <2>3, <3>1, <3>2
  <2> QED BY <1>2, <2>1, <2>3 DEF HasZeros, is, prot
<1> QED BY <1>6, <1>7

LEMMA BssEffect ==
  ASSUME NEW s \in LoadState, NEW file \in Seq(Byte), NEW h, Loadable(h, file), h.type = "load"
  PROVE  HasZeros(s, h, h.memsz, Bss(s, h))
<1> DEFINE N == h.memsz
           n == h.filesz
<1>1. /\ N \in Nat /\ n \in Nat /\ h.vaddr \in Nat /\ h.flags \in Rights3 /\ n <= N
      /\ \A b \in 1..N : h.vaddr + b - 1 \in Word
  BY SegmentAddresses
<1>2. PICK f : BssSteps(s, h, f) /\ Bss(s, h) = f[N] BY BssEquation
<1> DEFINE S == {b \in Nat : n <= b /\ b <= N => HasZeros(s, h, b, f[b])}
<1>3. HasZeros(s, h, n, f[n])
  <2>1. Reached(h, n + 1, n) = {} BY <1>1, ReachedNext
  <2>2. n \in 0..N BY <1>1
  <2>3. f[n] = s BY <1>1, <1>2, <2>2 DEF BssSteps
  <2> QED BY <2>1, <2>3 DEF HasZeros
<1>4. 0 \in S
  <2> SUFFICES ASSUME n <= 0 PROVE HasZeros(s, h, 0, f[0]) OBVIOUS
  <2>1. n = 0 BY <1>1
  <2> QED BY <1>3, <2>1
<1>5. ASSUME NEW b \in Nat, b \in S PROVE b + 1 \in S
  <2> SUFFICES ASSUME n <= b + 1, b + 1 <= N PROVE HasZeros(s, h, b + 1, f[b + 1]) BY <1>5
  <2>1. CASE n = b + 1 BY <1>3, <2>1
  <2>2. CASE n <= b
    <3>1. b + 1 \in 1..N /\ b + 1 \in 0..N /\ (b + 1) - 1 = b /\ b <= N /\ ~(b + 1 <= n) BY <1>1, <2>2
    <3>2. HasZeros(s, h, b, f[b]) BY <1>5, <2>2, <3>1
    <3>3. f[b + 1] = BssByte(f[b], h.vaddr + (b + 1) - 1, h.flags) BY <1>2, <3>1 DEF BssSteps
    <3>4. h.vaddr + (b + 1) - 1 \in Word BY <1>1, <3>1
    <3>5. h.filesz <= b /\ h.filesz \in Nat BY <1>1, <2>2
    <3> HIDE DEF S, N, n
    <3> QED BY <1>1, <3>2, <3>3, <3>4, <3>5, ZerosNext
  <2>3. n = b + 1 \/ n <= b BY <1>1
  <2> QED BY <2>1, <2>2, <2>3
<1> HIDE DEF S
<1>6. Nat \subseteq S BY <1>4, <1>5, Induction
<1>7. N \in S BY <1>1, <1>6
<1> QED BY <1>1, <1>2, <1>7 DEF S

(* Bytes of a segment's file past the page table.                          *)
Past(h) == \E a \in Address : InFile(h, a) /\ a >= Limit

LEMMA PagesReached ==
  ASSUME NEW file \in Seq(Byte), NEW h, Loadable(h, file), h.type = "load"
  PROVE  /\ FilePages(h) = Reached(h, 1, h.filesz) \cap Page
         /\ MemoryPages(h) = (Reached(h, 1, h.filesz) \cup Reached(h, h.filesz + 1, h.memsz)) \cap Page
         /\ Past(h) <=> \E g \in Reached(h, 1, h.filesz) : g \notin Page
<1> DEFINE v == h.vaddr
           n == h.filesz
           N == h.memsz
           P(b) == PageOf(v + b - 1)
<1>1. /\ n \in Nat /\ N \in Nat /\ v \in Nat /\ n <= N
      /\ \A b \in 1..N : v + b - 1 \in Word
  BY SegmentAddresses
<1>2. /\ \A g, a : InFile(h, a) <=> a \in v..(v + n - 1)
      /\ \A g, a : InMemory(h, a) <=> a \in v..(v + N - 1)
  BY DEF InFile, InMemory
<1>3. \A i, j : Reached(h, i, j) = {P(b) : b \in i..j} BY DEF Reached
<1> HIDE DEF v, n, N
<1>4. ASSUME NEW k \in Nat, k <= N
      PROVE  {g \in Page : \E a \in Bytes(g) : a \in v..(v + k - 1)} = {P(b) : b \in 1..k} \cap Page
  <2>1. ASSUME NEW g \in Page, NEW a \in Bytes(g), a \in v..(v + k - 1) PROVE g \in {P(b) : b \in 1..k}
    <3>1. PageOf(a) = g BY PageFacts
    <3>2. a - v + 1 \in 1..k /\ v + (a - v + 1) - 1 = a BY <1>1, <2>1
    <3>3. P(a - v + 1) = g BY <3>1, <3>2
    <3> HIDE DEF P
    <3> QED BY <3>2, <3>3
  <2>2. ASSUME NEW b \in 1..k, P(b) \in Page
        PROVE  \E a \in Bytes(P(b)) : a \in v..(v + k - 1)
    <3>1. b \in 1..N /\ v + b - 1 \in v..(v + k - 1) BY <1>1, <1>4
    <3>2. v + b - 1 \in Word BY <1>1, <3>1
    <3>3. v + b - 1 \in Bytes(P(b)) BY <2>2, <3>2, PageFacts
    <3> QED BY <3>1, <3>2, <3>3
  <2> HIDE DEF P
  <2> QED BY <2>1, <2>2
<1>5. {P(b) : b \in 1..N} = {P(b) : b \in 1..n} \cup {P(b) : b \in (n + 1)..N}
  <2>1. 1..N = (1..n) \cup ((n + 1)..N) BY <1>1
  <2> HIDE DEF P
  <2> QED BY <2>1
<1>9. Past(h) <=> \E b \in 1..n : P(b) \notin Page
  <2>1. ASSUME NEW a \in Word, a \in v..(v + n - 1), a >= Limit PROVE \E b \in 1..n : P(b) \notin Page
    <3>1. a - v + 1 \in 1..n /\ v + (a - v + 1) - 1 = a BY <1>1, <2>1
    <3>2. PageOf(a) \notin Page
      <4>1. a \in Nat /\ Limit \in Nat BY WordFacts, LoaderAssumption
      <4>2. ~(a < Limit) BY <2>1, <4>1
      <4> QED BY <4>2, PageFacts
    <3>3. P(a - v + 1) = PageOf(a) BY <3>1
    <3> HIDE DEF P
    <3> QED BY <3>1, <3>2, <3>3
  <2>2. ASSUME NEW b \in 1..n, P(b) \notin Page PROVE \E a \in Word : a \in v..(v + n - 1) /\ a >= Limit
    <3>1. b \in 1..N /\ v + b - 1 \in v..(v + n - 1) BY <1>1
    <3>2. v + b - 1 \in Word BY <1>1, <3>1
    <3>3. ~(v + b - 1 < Limit) BY <2>2, <3>2, PageFacts
    <3>4. v + b - 1 >= Limit
      <4>1. v + b - 1 \in Nat /\ Limit \in Nat BY <3>2, WordFacts, LoaderAssumption
      <4> QED BY <3>3, <4>1
    <3> QED BY <3>1, <3>2, <3>4
  <2>3. Past(h) <=> \E a \in Word : a \in v..(v + n - 1) /\ a >= Limit BY <1>2 DEF Past, Address
  <2> HIDE DEF P
  <2> QED BY <2>1, <2>2, <2>3
<1> HIDE DEF P
<1>6. FilePages(h) = {P(b) : b \in 1..n} \cap Page BY <1>1, <1>2, <1>4 DEF FilePages
<1>7. MemoryPages(h) = {P(b) : b \in 1..N} \cap Page
  <2>1. N <= N BY <1>1
  <2>2. {g \in Page : \E a \in Bytes(g) : a \in v..(v + N - 1)} = {P(b) : b \in 1..N} \cap Page BY <1>1, <1>4, <2>1
  <2> QED BY <1>2, <2>2 DEF MemoryPages
<1>8. /\ FilePages(h) = Reached(h, 1, n) \cap Page
      /\ MemoryPages(h) = (Reached(h, 1, n) \cup Reached(h, n + 1, N)) \cap Page
      /\ Past(h) <=> \E g \in Reached(h, 1, n) : g \notin Page
  BY <1>3, <1>5, <1>6, <1>7, <1>9
<1> QED BY <1>8 DEF n, N

(* What a segment makes of the memory before it.                           *)
HasSegment(s, h, file, t) ==
  /\ t \in LoadState
  /\ t.error <=> s.error \/ Past(h) \/ \E g \in FilePages(h) : s.kind[g] = "zero"
  /\ ~t.error =>
       /\ \A g \in Page : t.kind[g] = IF g \in FilePages(h) THEN "own"
                                      ELSE IF g \in MemoryPages(h) /\ s.kind[g] = "none" THEN "zero"
                                      ELSE s.kind[g]
       /\ \A g \in Page : t.flags[g] = IF g \in MemoryPages(h) /\ s.kind[g] = "none" THEN h.flags ELSE s.flags[g]
       /\ \A a \in Word : t.mem[a] = IF InFile(h, a) THEN file[a - h.vaddr + h.offset + 1] ELSE s.mem[a]

LEMMA SegmentEffect ==
  ASSUME NEW s \in LoadState, NEW file \in Seq(Byte), NEW h, Loadable(h, file)
  PROVE  HasSegment(s, h, file, LoadSegment(s, h, file))
<1>1. CASE h.type # "load"
  <2>1. LoadSegment(s, h, file) = s BY <1>1 DEF LoadSegment
  <2>2. FilePages(h) = {} /\ MemoryPages(h) = {} /\ (\A a : ~InFile(h, a)) /\ ~Past(h)
    BY <1>1 DEF FilePages, MemoryPages, InFile, InMemory, Past
  <2> QED BY <2>1, <2>2 DEF HasSegment
<1>2. CASE h.type = "load"
  <2> DEFINE c == Copied(s, h, file)
             t == Bss(c, h)
             first == Reached(h, 1, h.filesz)
             rest == Reached(h, h.filesz + 1, h.memsz)
             files == FilePages(h)
             all == MemoryPages(h)
             prot == h.flags
  <2>1. LoadSegment(s, h, file) = t BY <1>2 DEF LoadSegment
  <2>2. HasCopied(s, h, file, h.filesz, c) BY <1>2, CopiedEffect
  <2>3. c \in LoadState BY <2>2 DEF HasCopied
  <2>4. HasZeros(c, h, h.memsz, t)
    <3> HIDE DEF c
    <3> QED BY <1>2, <2>3, BssEffect
  <2>5. files = first \cap Page /\ all = (first \cup rest) \cap Page /\ (Past(h) <=> \E g \in first : g \notin Page)
    BY <1>2, PagesReached
  <2>6. \A a : InFile(h, a) <=> a \in h.vaddr..(h.vaddr + h.filesz - 1) BY <1>2 DEF InFile
  <2>7. /\ c.error <=> s.error \/ Past(h) \/ \E g \in files : s.kind[g] = "zero"
        /\ ~c.error =>
             /\ \A g \in Page : c.kind[g] = IF g \in files THEN "own" ELSE s.kind[g]
             /\ \A g \in Page : c.flags[g] = IF g \in files /\ s.kind[g] = "none" THEN prot ELSE s.flags[g]
             /\ \A a \in Word : c.mem[a] = IF InFile(h, a) THEN file[a - h.vaddr + h.offset + 1] ELSE s.mem[a]
    <3>1. /\ c.error <=> s.error \/ \E g \in first : Refuses(s, g)
          /\ ~c.error =>
               /\ \A g \in Page : c.kind[g] = IF g \in first THEN "own" ELSE s.kind[g]
               /\ \A g \in Page : c.flags[g] = IF g \in first /\ s.kind[g] = "none" THEN prot ELSE s.flags[g]
               /\ \A a \in Word : c.mem[a] = IF InFile(h, a) THEN file[a - h.vaddr + h.offset + 1] ELSE s.mem[a]
      <4> HIDE DEF c, files, all, t
      <4> QED BY <2>2, <2>6 DEF HasCopied
    <3> HIDE DEF c, files, all, t, first, rest, prot
    <3>2. (\E g \in first : Refuses(s, g)) <=> Past(h) \/ \E g \in files : s.kind[g] = "zero"
      BY <2>5 DEF Refuses
    <3>3. \A g \in Page : g \in first <=> g \in files BY <2>5
    <3> QED BY <3>1, <3>2, <3>3
  <2>8. /\ t \in LoadState /\ t.error = c.error /\ t.mem = c.mem
        /\ ~c.error =>
             /\ \A g \in Page : t.kind[g] = IF g \in rest /\ c.kind[g] = "none" THEN "zero" ELSE c.kind[g]
             /\ \A g \in Page : t.flags[g] = IF g \in rest /\ c.kind[g] = "none" THEN prot ELSE c.flags[g]
    BY <2>4 DEF HasZeros
  <2> HIDE DEF c, t, first, rest, files, all
  <2>9. ASSUME ~t.error, NEW g \in Page
        PROVE  /\ t.kind[g] = IF g \in files THEN "own"
                              ELSE IF g \in all /\ s.kind[g] = "none" THEN "zero" ELSE s.kind[g]
               /\ t.flags[g] = IF g \in all /\ s.kind[g] = "none" THEN prot ELSE s.flags[g]
    <3>1. /\ c.kind[g] = IF g \in files THEN "own" ELSE s.kind[g]
          /\ c.flags[g] = IF g \in files /\ s.kind[g] = "none" THEN prot ELSE s.flags[g]
      BY <2>7, <2>8, <2>9
    <3>2. /\ t.kind[g] = IF g \in rest /\ c.kind[g] = "none" THEN "zero" ELSE c.kind[g]
          /\ t.flags[g] = IF g \in rest /\ c.kind[g] = "none" THEN prot ELSE c.flags[g]
      BY <2>8, <2>9
    <3> QED BY <2>5, <3>1, <3>2
  <2>10. ~t.error => \A a \in Word : t.mem[a] = IF InFile(h, a) THEN file[a - h.vaddr + h.offset + 1] ELSE s.mem[a]
    BY <2>7, <2>8
  <2> QED BY <2>1, <2>7, <2>8, <2>9, <2>10 DEF HasSegment, files, all, prot
<1> QED BY <1>1, <1>2

(* Overlaps, Rights and Contents, of the first n headers.                  *)
Overlapped(hs, n) ==
  \E j \in 1..n : \E i \in 1..(j - 1) : \E g \in (FilePages(hs[j]) \cap MemoryPages(hs[i])) \ {VdsoPage} :
    \A k \in 1..i : g \notin FilePages(hs[k])
FirstRights(hs, n, g) ==
  LET has == {k \in 1..n : g \in MemoryPages(hs[k])} IN IF has = {} THEN {} ELSE hs[FirstOf(has)].flags
LastByte(x, hs, n, a) ==
  LET has == {k \in 1..n : InFile(hs[k], a)}
      last == CHOOSE k \in has : \A l \in has : l <= k
  IN IF has = {} THEN 0 ELSE FileOf(x, last)[a - hs[last].vaddr + hs[last].offset + 1]

LEMMA FirstRightsNext ==
  ASSUME NEW hs, NEW n \in Nat, NEW g
  PROVE  /\ (\A k \in 1..n : g \notin MemoryPages(hs[k])) =>
              /\ FirstRights(hs, n, g) = {}
              /\ FirstRights(hs, n + 1, g) = IF g \in MemoryPages(hs[n + 1]) THEN hs[n + 1].flags ELSE {}
         /\ (\E k \in 1..n : g \in MemoryPages(hs[k])) => FirstRights(hs, n + 1, g) = FirstRights(hs, n, g)
<1> DEFINE In(k) == g \in MemoryPages(hs[k])
           R(k) == hs[k].flags
           has(m) == {k \in 1..m : In(k)}
<1>1. \A m : FirstRights(hs, m, g) = IF has(m) = {} THEN {} ELSE R(FirstOf(has(m))) BY DEF FirstRights
<1>2. 1..(n + 1) = (1..n) \cup {n + 1} OBVIOUS
<1> HIDE DEF In, R
<1>3. has(n + 1) = has(n) \cup {k \in {n + 1} : In(k)} BY <1>2
<1>4. has(n) \subseteq Nat /\ has(n) \subseteq 1..n /\ has(n + 1) \subseteq Nat OBVIOUS
<1>5. ASSUME has(n) = {}
      PROVE  FirstRights(hs, n, g) = {} /\ FirstRights(hs, n + 1, g) = IF In(n + 1) THEN R(n + 1) ELSE {}
  <2>1. CASE In(n + 1)
    <3>1. has(n + 1) = {n + 1} BY <1>3, <1>5, <2>1
    <3> HIDE DEF has
    <3>2. FirstOf({n + 1}) \in {n + 1}
      <4>1. {n + 1} \subseteq Nat /\ {n + 1} # {} OBVIOUS
      <4> QED BY <4>1, FirstFacts
    <3>3. FirstOf(has(n + 1)) = n + 1 BY <3>1, <3>2
    <3> QED BY <1>1, <1>5, <2>1, <3>1, <3>3
  <2>2. CASE ~In(n + 1)
    <3>1. has(n + 1) = {} BY <1>3, <1>5, <2>2
    <3> HIDE DEF has
    <3> QED BY <1>1, <1>5, <2>2, <3>1
  <2> QED BY <2>1, <2>2
<1>6. ASSUME has(n) # {} PROVE FirstRights(hs, n + 1, g) = FirstRights(hs, n, g)
  <2> DEFINE A == has(n)
             C == has(n + 1)
             i == FirstOf(A)
             j == FirstOf(C)
  <2>1. A # {} /\ C # {} /\ A \subseteq C /\ A \subseteq Nat /\ C \subseteq Nat /\ A \subseteq 1..n
        /\ C \subseteq A \cup {n + 1}
    BY <1>3, <1>4, <1>6
  <2>2. FirstRights(hs, n, g) = R(i) /\ FirstRights(hs, n + 1, g) = R(j) BY <1>1, <2>1
  <2> HIDE DEF A, C
  <2>3. i \in A /\ (\A l \in A : i <= l) /\ j \in C /\ (\A l \in C : j <= l) BY <2>1, FirstFacts
  <2> HIDE DEF i, j
  <2>4. i \in 1..n /\ j \in Nat /\ j <= i BY <2>1, <2>3
  <2>5. j \in A BY <2>1, <2>3, <2>4
  <2>6. i <= j BY <2>3, <2>5
  <2>7. i = j BY <2>4, <2>6
  <2> QED BY <2>2, <2>7
<1>7. (has(n) = {} <=> \A k \in 1..n : ~In(k)) OBVIOUS
<1> HIDE DEF has
<1> QED BY <1>5, <1>6, <1>7 DEF In, R

LEMMA LastByteNext ==
  ASSUME NEW x, NEW hs, NEW n \in Nat, NEW a
  PROVE  LastByte(x, hs, n + 1, a) =
           IF InFile(hs[n + 1], a) THEN FileOf(x, n + 1)[a - hs[n + 1].vaddr + hs[n + 1].offset + 1]
           ELSE LastByte(x, hs, n, a)
<1> DEFINE In(k) == InFile(hs[k], a)
           R(k) == FileOf(x, k)[a - hs[k].vaddr + hs[k].offset + 1]
           has(m) == {k \in 1..m : In(k)}
           last(S) == CHOOSE k \in S : \A l \in S : l <= k
<1>1. \A m : LastByte(x, hs, m, a) = IF has(m) = {} THEN 0 ELSE R(last(has(m))) BY DEF LastByte
<1>2. 1..(n + 1) = (1..n) \cup {n + 1} OBVIOUS
<1> HIDE DEF In, R
<1>3. has(n + 1) = has(n) \cup {k \in {n + 1} : In(k)} BY <1>2
<1>4. CASE ~In(n + 1)
  <2>1. has(n + 1) = has(n) BY <1>3, <1>4
  <2> HIDE DEF has, last
  <2>2. LastByte(x, hs, n + 1, a) = LastByte(x, hs, n, a) BY <1>1, <2>1
  <2> QED BY <1>4, <2>2 DEF In
<1>5. CASE In(n + 1)
  <2> DEFINE C == has(n + 1)
  <2>1. n + 1 \in C /\ C \subseteq 1..(n + 1) BY <1>3, <1>5
  <2>2. LastByte(x, hs, n + 1, a) = R(last(C)) BY <1>1, <2>1
  <2> HIDE DEF C
  <2>3. \E k \in C : \A l \in C : l <= k BY <2>1
  <2>4. last(C) \in C /\ \A l \in C : l <= last(C) BY <2>3
  <2> HIDE DEF last
  <2>5. last(C) = n + 1
    <3>1. last(C) \in 1..(n + 1) /\ n + 1 <= last(C) BY <2>1, <2>4
    <3> QED BY <3>1
  <2>6. LastByte(x, hs, n + 1, a) = R(n + 1) BY <2>2, <2>5
  <2> QED BY <1>5, <2>6 DEF In, R
<1> QED BY <1>4, <1>5

(* The memory after the first n headers.                                   *)
PastFirst(hs, n) == \E k \in 1..n : Past(hs[k])
HasFirst(x, hs, n, s) ==
  /\ s \in LoadState
  /\ s.error <=> Overlapped(hs, n) \/ PastFirst(hs, n)
  /\ ~s.error =>
       /\ \A g \in Page :
            s.kind[g] = IF g = VdsoPage \/ \E k \in 1..n : g \in FilePages(hs[k]) THEN "own"
                        ELSE IF \E k \in 1..n : g \in MemoryPages(hs[k]) THEN "zero" ELSE "none"
       /\ \A g \in Page \ {VdsoPage} : s.flags[g] = FirstRights(hs, n, g)
       /\ \A a \in Word : s.mem[a] = LastByte(x, hs, n, a)

LEMMA OverlappedNext ==
  ASSUME NEW hs, NEW n \in Nat
  PROVE  Overlapped(hs, n + 1) <=>
           \/ Overlapped(hs, n)
           \/ \E g \in FilePages(hs[n + 1]) \ {VdsoPage} :
                (\E i \in 1..n : g \in MemoryPages(hs[i])) /\ \A k \in 1..n : g \notin FilePages(hs[k])
<1> DEFINE Fp(k) == FilePages(hs[k])
           Mp(k) == MemoryPages(hs[k])
           Meets(j, i, g) == g \in (Fp(j) \cap Mp(i)) \ {VdsoPage} /\ \A k \in 1..i : g \notin Fp(k)
           Early == \E g \in Fp(n + 1) \ {VdsoPage} : (\E i \in 1..n : g \in Mp(i)) /\ \A k \in 1..n : g \notin Fp(k)
<1>1. \A m : Overlapped(hs, m) <=> \E j \in 1..m : \E i \in 1..(j - 1) : \E g : Meets(j, i, g) BY DEF Overlapped
<1> HIDE DEF Fp, Mp
<1>2. 1..(n + 1) = (1..n) \cup {n + 1} /\ (n + 1) - 1 = n OBVIOUS
<1>3. Overlapped(hs, n + 1) <=> Overlapped(hs, n) \/ \E i \in 1..n : \E g : Meets(n + 1, i, g)
  <2> HIDE DEF Meets
  <2> QED BY <1>1, <1>2
<1>4. ASSUME Early PROVE \E i \in 1..n : \E g : Meets(n + 1, i, g)
  <2>1. PICK g \in Fp(n + 1) \ {VdsoPage} : (\E i \in 1..n : g \in Mp(i)) /\ \A k \in 1..n : g \notin Fp(k) BY <1>4
  <2>2. PICK i \in 1..n : g \in Mp(i) BY <2>1
  <2>3. 1..i \subseteq 1..n OBVIOUS
  <2>4. Meets(n + 1, i, g) BY <2>1, <2>2, <2>3
  <2> QED BY <2>4
<1>5. ASSUME NEW i \in 1..n, NEW g, Meets(n + 1, i, g) PROVE Overlapped(hs, n) \/ Early
  <2>1. CASE \A k \in 1..n : g \notin Fp(k) BY <1>5, <2>1
  <2>2. CASE \E k \in 1..n : g \in Fp(k)
    <3>1. PICK k \in 1..n : g \in Fp(k) BY <2>2
    <3>2. ~(k <= i)
      <4>1. k \notin 1..i BY <1>5, <3>1
      <4> QED BY <4>1
    <3>3. i \in 1..(k - 1) BY <3>2
    <3>4. Meets(k, i, g) BY <1>5, <3>1
    <3> HIDE DEF Meets
    <3> QED BY <1>1, <3>3, <3>4
  <2> QED BY <2>1, <2>2
<1>6. Overlapped(hs, n + 1) <=> Overlapped(hs, n) \/ Early BY <1>3, <1>4, <1>5
<1> QED BY <1>6 DEF Fp, Mp

LEMMA FirstNext ==
  ASSUME NEW x, NEW hs, NEW n \in Nat, NEW s, NEW t, HasFirst(x, hs, n, s),
         NEW h, h = hs[n + 1], HasSegment(s, h, FileOf(x, n + 1), t),
         \A k \in 1..(n + 1) : FilePages(hs[k]) \subseteq MemoryPages(hs[k])
  PROVE  HasFirst(x, hs, n + 1, t)
<1> DEFINE Fp(k) == FilePages(hs[k])
           Mp(k) == MemoryPages(hs[k])
           file == FileOf(x, n + 1)
           InF(g, m) == \E k \in 1..m : g \in Fp(k)
           InM(g, m) == \E k \in 1..m : g \in Mp(k)
<1>1. 1..(n + 1) = (1..n) \cup {n + 1} OBVIOUS
<1>2. /\ s \in LoadState /\ (s.error <=> Overlapped(hs, n) \/ PastFirst(hs, n))
      /\ ~s.error =>
           /\ \A g \in Page : s.kind[g] = IF g = VdsoPage \/ InF(g, n) THEN "own"
                                          ELSE IF InM(g, n) THEN "zero" ELSE "none"
           /\ \A g \in Page \ {VdsoPage} : s.flags[g] = FirstRights(hs, n, g)
           /\ \A a \in Word : s.mem[a] = LastByte(x, hs, n, a)
  BY DEF HasFirst
<1>3. /\ t \in LoadState /\ (t.error <=> s.error \/ Past(h) \/ \E g \in Fp(n + 1) : s.kind[g] = "zero")
      /\ ~t.error =>
           /\ \A g \in Page : t.kind[g] = IF g \in Fp(n + 1) THEN "own"
                                          ELSE IF g \in Mp(n + 1) /\ s.kind[g] = "none" THEN "zero" ELSE s.kind[g]
           /\ \A g \in Page : t.flags[g] = IF g \in Mp(n + 1) /\ s.kind[g] = "none" THEN h.flags ELSE s.flags[g]
           /\ \A a \in Word : t.mem[a] = IF InFile(h, a) THEN file[a - h.vaddr + h.offset + 1] ELSE s.mem[a]
  BY DEF HasSegment
<1>4. Overlapped(hs, n + 1) <=>
        Overlapped(hs, n) \/ \E g \in Fp(n + 1) \ {VdsoPage} : InM(g, n) /\ ~InF(g, n)
  BY OverlappedNext
<1>5. \A k \in 1..(n + 1) : Fp(k) \subseteq Page /\ Fp(k) \subseteq Mp(k) BY DEF FilePages
<1>6. \A g : (InF(g, n + 1) <=> InF(g, n) \/ g \in Fp(n + 1)) /\ (InM(g, n + 1) <=> InM(g, n) \/ g \in Mp(n + 1))
  <2> HIDE DEF Fp, Mp
  <2> QED BY <1>1
<1>7. \A g : InF(g, n) => InM(g, n)
  <2> HIDE DEF Fp, Mp
  <2> QED BY <1>1, <1>5
<1>8. n + 1 \in 1..(n + 1) OBVIOUS
<1>9. \A g : /\ ~InM(g, n) => /\ FirstRights(hs, n, g) = {}
                              /\ FirstRights(hs, n + 1, g) = IF g \in Mp(n + 1) THEN h.flags ELSE {}
             /\ InM(g, n) => FirstRights(hs, n + 1, g) = FirstRights(hs, n, g)
  BY FirstRightsNext
<1>10. \A a : LastByte(x, hs, n + 1, a) = IF InFile(h, a) THEN file[a - h.vaddr + h.offset + 1]
                                          ELSE LastByte(x, hs, n, a)
  BY LastByteNext
<1> HIDE DEF Fp, Mp, InF, InM, file
<1>11. t.error <=> Overlapped(hs, n + 1) \/ PastFirst(hs, n + 1)
  <2>3. PastFirst(hs, n + 1) <=> PastFirst(hs, n) \/ Past(h) BY <1>1 DEF PastFirst
  <2>1. CASE s.error BY <1>2, <1>3, <1>4, <2>1, <2>3
  <2>2. CASE ~s.error
    <3>1. \A g \in Page : s.kind[g] = "zero" <=> g # VdsoPage /\ ~InF(g, n) /\ InM(g, n) BY <1>2, <2>2
    <3> QED BY <1>2, <1>3, <1>4, <1>5, <1>8, <2>2, <2>3, <3>1
  <2> QED BY <2>1, <2>2
<1>12. ASSUME ~t.error, NEW g \in Page
       PROVE  t.kind[g] = IF g = VdsoPage \/ InF(g, n + 1) THEN "own" ELSE IF InM(g, n + 1) THEN "zero" ELSE "none"
  <2>1. s.kind[g] = IF g = VdsoPage \/ InF(g, n) THEN "own" ELSE IF InM(g, n) THEN "zero" ELSE "none"
    BY <1>2, <1>3, <1>12
  <2>2. t.kind[g] = IF g \in Fp(n + 1) THEN "own"
                    ELSE IF g \in Mp(n + 1) /\ s.kind[g] = "none" THEN "zero" ELSE s.kind[g]
    BY <1>3, <1>12
  <2>3. (InF(g, n + 1) <=> InF(g, n) \/ g \in Fp(n + 1)) /\ (InM(g, n + 1) <=> InM(g, n) \/ g \in Mp(n + 1)) BY <1>6
  <2> QED BY <2>1, <2>2, <2>3
<1>13. ASSUME ~t.error, NEW g \in Page \ {VdsoPage} PROVE t.flags[g] = FirstRights(hs, n + 1, g)
  <2>1. s.kind[g] = "none" <=> ~InM(g, n)
    <3>1. s.kind[g] = IF InF(g, n) THEN "own" ELSE IF InM(g, n) THEN "zero" ELSE "none" BY <1>2, <1>3, <1>13
    <3> QED BY <1>7, <3>1
  <2>2. t.flags[g] = IF g \in Mp(n + 1) /\ s.kind[g] = "none" THEN h.flags ELSE s.flags[g] BY <1>3, <1>13
  <2>3. s.flags[g] = FirstRights(hs, n, g) BY <1>2, <1>3, <1>13
  <2> QED BY <1>9, <2>1, <2>2, <2>3
<1>14. ASSUME ~t.error, NEW a \in Word PROVE t.mem[a] = LastByte(x, hs, n + 1, a)
  <2>1. s.mem[a] = LastByte(x, hs, n, a) BY <1>2, <1>3, <1>14
  <2>2. t.mem[a] = IF InFile(h, a) THEN file[a - h.vaddr + h.offset + 1] ELSE s.mem[a] BY <1>3, <1>14
  <2> QED BY <1>10, <2>1, <2>2
<1> QED BY <1>3, <1>11, <1>12, <1>13, <1>14 DEF HasFirst, InF, InM, Fp, Mp

LEMMA FileInMemory ==
  ASSUME NEW file \in Seq(Byte), NEW h, Loadable(h, file) PROVE FilePages(h) \subseteq MemoryPages(h)
<1>1. CASE h.type = "load" BY <1>1, PagesReached
<1>2. CASE h.type # "load" BY <1>2 DEF FilePages, InFile
<1> QED BY <1>1, <1>2

LEMMA BlankFirst == ASSUME NEW x, NEW hs PROVE HasFirst(x, hs, 0, Blank)
<1>1. 1..0 = {} OBVIOUS
<1>2. ~Overlapped(hs, 0) /\ ~PastFirst(hs, 0) BY <1>1 DEF Overlapped, PastFirst
<1>3. \A g : FirstRights(hs, 0, g) = {} BY <1>1 DEF FirstRights
<1>4. \A a : LastByte(x, hs, 0, a) = 0 BY <1>1 DEF LastByte
<1>5. /\ \A a \in Word : Blank.mem[a] = 0
      /\ \A g \in Page : Blank.kind[g] = IF g = VdsoPage THEN "own" ELSE "none"
      /\ \A g \in Page : Blank.flags[g] = IF g = VdsoPage THEN {"R", "X"} ELSE {}
      /\ Blank.error = FALSE
  BY DEF Blank, Address
<1>6. \A g \in Page \ {VdsoPage} : Blank.flags[g] = {} BY <1>5
<1> QED BY <1>1, <1>2, <1>3, <1>4, <1>5, <1>6, BlankTyped DEF HasFirst

LEMMA FirstSteps ==
  ASSUME NEW x, NEW hs, NEW m \in Nat, NEW s, HasFirst(x, hs, m, s), NEW file \in Seq(Byte),
         NEW own, Len(own) \in Nat,
         \A k \in 1..Len(own) : hs[m + k] = own[k] /\ FileOf(x, m + k) = file /\ Loadable(own[k], file),
         \A k \in 1..(m + Len(own)) : FilePages(hs[k]) \subseteq MemoryPages(hs[k])
  PROVE  HasFirst(x, hs, m + Len(own), LoadSegments(s, own, file))
<1> DEFINE N == Len(own)
<1>1. s \in LoadState BY DEF HasFirst
<1>2. N \in Nat /\ \A n \in 1..N : Loadable(own[n], file) OBVIOUS
<1>3. PICK f : SegmentSteps(s, own, file, f) /\ LoadSegments(s, own, file) = f[N] BY <1>1, <1>2, SegmentsEquation
<1>4. f \in [0..N -> LoadState] /\ f[0] = s /\ \A n \in 1..N : f[n] = LoadSegment(f[n - 1], own[n], file)
  BY <1>3 DEF SegmentSteps
<1> DEFINE S == {k \in Nat : k <= N => HasFirst(x, hs, m + k, f[k])}
<1>5. 0 \in S
  <2>1. m + 0 = m OBVIOUS
  <2> QED BY <1>4, <2>1
<1>6. ASSUME NEW k \in Nat, k \in S PROVE k + 1 \in S
  <2> SUFFICES ASSUME k + 1 <= N PROVE HasFirst(x, hs, m + (k + 1), f[k + 1]) BY <1>6
  <2> DEFINE n == m + k
             h == own[k + 1]
             u == f[k]
             t == f[k + 1]
  <2>1. k + 1 \in 1..N /\ k \in 0..N /\ (k + 1) - 1 = k /\ k <= N /\ m + (k + 1) = n + 1 /\ n \in Nat BY <1>2
  <2>2. HasFirst(x, hs, n, u) /\ u \in LoadState BY <1>4, <1>6, <2>1
  <2>3. t = LoadSegment(u, h, file) BY <1>4, <2>1
  <2>4. h = hs[n + 1] /\ FileOf(x, n + 1) = file /\ Loadable(h, file)
    <3>1. hs[m + (k + 1)] = own[k + 1] /\ FileOf(x, m + (k + 1)) = file /\ Loadable(own[k + 1], file) BY <2>1
    <3> QED BY <2>1, <3>1
  <2>5. \A l \in 1..(n + 1) : FilePages(hs[l]) \subseteq MemoryPages(hs[l])
    <3>1. 1..(n + 1) \subseteq 1..(m + N) BY <1>2, <2>1
    <3> QED BY <3>1
  <2> HIDE DEF n, h, u, t, S, N
  <2>6. HasSegment(u, h, FileOf(x, n + 1), t) BY <2>2, <2>3, <2>4, SegmentEffect
  <2>7. HasFirst(x, hs, n + 1, t) BY <2>1, <2>2, <2>4, <2>5, <2>6, FirstNext
  <2> QED BY <2>1, <2>7 DEF t
<1> HIDE DEF S
<1>7. Nat \subseteq S BY <1>5, <1>6, Induction
<1>8. N \in S BY <1>2, <1>7
<1> QED BY <1>2, <1>3, <1>8 DEF S

LEMMA MovedSeq ==
  ASSUME NEW e, NEW bias \in Nat, WellFormed(e, bias) PROVE Moved(e.headers, bias) \in Seq(ProgramHeader)
<1> DEFINE hs == Moved(e.headers, bias)
           n == Len(hs)
           P == ProgramHeader
<1>1. n \in Nat /\ DOMAIN hs = 1..n /\ \A k \in 1..n : hs[k] \in P
  <2>1. n \in Nat /\ DOMAIN hs = 1..n /\ \A k \in 1..n : Loadable(hs[k], e.file) BY MovedFacts
  <2> QED BY <2>1 DEF Loadable
<1>2. hs = [k \in DOMAIN hs |-> hs[k]] BY DEF Moved
<1> HIDE DEF hs, P
<1>3. hs \in [1..n -> P] BY <1>1, <1>2
<1> HIDE DEF n
<1>4. hs \in Seq(P) BY <1>1, <1>3, SeqOfFunction
<1> QED BY <1>4 DEF hs, P

LEMMA HeadersFacts ==
  ASSUME NEW x, Executable(x)
  PROVE  LET own == Headers(x)
             theirs == IF x.interp = <<>> THEN <<>> ELSE InterpHeaders(x)
             hs == AllHeaders(x)
         IN /\ Len(own) \in Nat /\ Len(theirs) \in Nat
            /\ Len(hs) = Len(own) + Len(theirs) /\ DOMAIN hs = 1..(Len(own) + Len(theirs))
            /\ \A k \in 1..Len(own) : hs[k] = own[k] /\ FileOf(x, k) = x.file /\ Loadable(own[k], x.file)
            /\ \A k \in 1..Len(theirs) : /\ hs[Len(own) + k] = theirs[k]
                                         /\ FileOf(x, Len(own) + k) = x.interp[1].file
                                         /\ Loadable(theirs[k], x.interp[1].file)
<1> DEFINE own == Headers(x)
           theirs == IF x.interp = <<>> THEN <<>> ELSE InterpHeaders(x)
           hs == AllHeaders(x)
           n == Len(own)
           l == Len(theirs)
           P == ProgramHeader
<1>1. /\ WellFormed(x, Bias(x)) /\ Bias(x) \in Nat
      /\ x.interp # <<>> => WellFormed(x.interp[1], InterpBias) /\ InterpBias \in Nat
  BY ExecutableFacts
<1>2. own \in Seq(P) /\ n = Len(x.headers) /\ \A k \in 1..n : Loadable(own[k], x.file)
  BY <1>1, MovedSeq, MovedFacts DEF Headers
<1>3. x.interp # <<>> =>
        /\ InterpHeaders(x) \in Seq(P)
        /\ \A k \in 1..Len(InterpHeaders(x)) : Loadable(InterpHeaders(x)[k], x.interp[1].file)
  BY <1>1, MovedSeq, MovedFacts DEF InterpHeaders
<1>4. theirs \in Seq(P) /\ (x.interp = <<>> => l = 0)
      /\ \A k \in 1..l : Loadable(theirs[k], x.interp[1].file)
  <2> HIDE DEF P
  <2>1. CASE x.interp = <<>>
    <3>1. theirs = <<>> BY <2>1
    <3>2. l = 0 /\ theirs \in Seq(P)
      <4>1. <<>> \in Seq(P) /\ Len(<<>>) = 0 BY EmptySeq
      <4>2. l = Len(theirs) OBVIOUS
      <4> HIDE DEF theirs, l
      <4> QED BY <3>1, <4>1, <4>2
    <3> HIDE DEF l, theirs
    <3>3. 1..0 = {} OBVIOUS
    <3> QED BY <3>2, <3>3
  <2>2. CASE x.interp # <<>> BY <1>3, <2>2
  <2> QED BY <2>1, <2>2
<1>5. hs = own \o theirs BY DEF AllHeaders
<1> HIDE DEF hs, own, theirs, P
<1>6. n \in Nat /\ l \in Nat BY <1>2, <1>4, SeqFacts
<1>7. /\ hs \in Seq(P) /\ Len(hs) = n + l /\ \A k \in 1..n : hs[k] = own[k]
      /\ \A k \in 1..l : hs[n + k] = theirs[k]
  <2>1. own \in Seq(P) /\ theirs \in Seq(P) BY <1>2, <1>4
  <2>2. /\ own \o theirs \in Seq(P) /\ Len(own \o theirs) = Len(own) + Len(theirs)
        /\ \A k \in 1..Len(own) : (own \o theirs)[k] = own[k]
        /\ \A k \in 1..Len(theirs) : (own \o theirs)[Len(own) + k] = theirs[k]
    BY <2>1, ConcatFacts
  <2> QED BY <1>5, <2>2
<1>8. DOMAIN hs = 1..(n + l)
  <2>1. DOMAIN hs = 1..Len(hs) BY <1>7, SeqFacts
  <2> QED BY <1>7, <2>1
<1> HIDE DEF n, l
<1>9. \A k \in 1..n : FileOf(x, k) = x.file
  <2>1. \A k \in 1..n : k <= Len(x.headers) BY <1>2, <1>6
  <2> QED BY <2>1 DEF FileOf
<1>10. \A k \in 1..l : FileOf(x, n + k) = x.interp[1].file
  <2>1. \A k \in 1..l : ~(n + k <= Len(x.headers)) BY <1>2, <1>6
  <2> QED BY <2>1 DEF FileOf
<1> QED BY <1>2, <1>4, <1>6, <1>7, <1>8, <1>9, <1>10 DEF n, l, own, theirs, hs

LEMMA SegmentsFirst ==
  ASSUME NEW x, Executable(x) PROVE HasFirst(x, AllHeaders(x), Len(AllHeaders(x)), Segments(x))
<1> DEFINE own == Headers(x)
           theirs == IF x.interp = <<>> THEN <<>> ELSE InterpHeaders(x)
           hs == AllHeaders(x)
           n == Len(own)
           l == Len(theirs)
           file == x.file
           other == x.interp[1].file
           s == LoadSegments(Blank, own, file)
<1>1. /\ n \in Nat /\ l \in Nat /\ Len(hs) = n + l
      /\ \A k \in 1..n : hs[k] = own[k] /\ FileOf(x, k) = file /\ Loadable(own[k], file)
      /\ \A k \in 1..l : hs[n + k] = theirs[k] /\ FileOf(x, n + k) = other /\ Loadable(theirs[k], other)
  BY HeadersFacts
<1>2. file \in Seq(Byte) /\ (x.interp # <<>> => other \in Seq(Byte)) BY ExecutableFacts
<1>3. /\ x.interp = <<>> => l = 0 /\ Segments(x) = s
      /\ x.interp # <<>> => Segments(x) = LoadSegments(s, theirs, other)
  BY DEF Segments
<1>4. HasFirst(x, hs, 0, Blank) BY BlankFirst
<1> HIDE DEF hs, own, theirs, file, other, n, l, s
<1>5. l > 0 => other \in Seq(Byte)
  <2>1. l > 0 => x.interp # <<>> BY <1>3
  <2> QED BY <1>2, <2>1
<1>6. \A k \in 1..(n + l) : FilePages(hs[k]) \subseteq MemoryPages(hs[k])
  <2> SUFFICES ASSUME NEW k \in 1..(n + l) PROVE FilePages(hs[k]) \subseteq MemoryPages(hs[k]) OBVIOUS
  <2>1. CASE k <= n
    <3>1. k \in 1..n BY <1>1, <2>1
    <3>2. Loadable(hs[k], file) BY <1>1, <3>1
    <3> QED BY <1>2, <3>2, FileInMemory
  <2>2. CASE ~(k <= n)
    <3>1. k - n \in 1..l /\ n + (k - n) = k /\ l > 0 BY <1>1, <2>2
    <3>2. hs[n + (k - n)] = theirs[k - n] /\ Loadable(theirs[k - n], other) BY <1>1, <3>1
    <3>3. Loadable(hs[k], other) BY <3>1, <3>2
    <3> QED BY <1>5, <3>1, <3>3, FileInMemory
  <2> QED BY <2>1, <2>2
<1>7. HasFirst(x, hs, n, s)
  <2>1. \A k \in 1..n : hs[0 + k] = own[k] /\ FileOf(x, 0 + k) = file /\ Loadable(own[k], file) BY <1>1
  <2>2. \A k \in 1..(0 + n) : FilePages(hs[k]) \subseteq MemoryPages(hs[k])
    <3>1. 1..(0 + n) \subseteq 1..(n + l) BY <1>1
    <3> QED BY <1>6, <3>1
  <2>3. HasFirst(x, hs, 0 + n, LoadSegments(Blank, own, file))
    BY <1>1, <1>2, <1>4, <2>1, <2>2, FirstSteps DEF n
  <2>4. 0 + n = n BY <1>1
  <2> QED BY <2>3, <2>4 DEF s
<1>8. CASE x.interp = <<>>
  <2>1. Segments(x) = s /\ Len(hs) = n BY <1>1, <1>3, <1>8
  <2> QED BY <1>7, <2>1 DEF hs
<1>9. CASE x.interp # <<>>
  <2>1. HasFirst(x, hs, n + l, LoadSegments(s, theirs, other))
    BY <1>1, <1>2, <1>6, <1>7, <1>9, FirstSteps DEF l
  <2> QED BY <1>1, <1>3, <1>9, <2>1 DEF hs
<1> QED BY <1>8, <1>9

(* What is stored after the segments is in pages of its own.               *)
LEMMA RestUntouched ==
  ASSUME NEW x, Executable(x), NEW g \in Page \ (HeapPages \cup StackPages \cup {ArgPage, VdsoPage}),
         NEW a \in Bytes(g)
  PROVE  a \in Word /\ Loaded(x).mem[a] = Segments(x).mem[a]
<1> DEFINE s == Segments(x)
           z == WithZeroPages(s)
           m == WithStrings(z.mem, x)
           words == FrameWords(x)
           sp == StackPointer(x)
           top == StackTop
<1>1. a \in Word /\ PageOf(a) = g BY PageFacts
<1>2. s \in LoadState BY SegmentsTyped
<1>3. z \in LoadState /\ z.mem[a] = s.mem[a]
  <2> HIDE DEF s
  <2>1. g \notin HeapPages \cup StackPages \cup {ArgPage} OBVIOUS
  <2> QED BY <1>1, <1>2, <2>1, ZeroPagesTyped
<1>4. z.mem \in Memory BY <1>3 DEF LoadState
<1> HIDE DEF z
<1>5. m[a] = z.mem[a]
  <2> DEFINE strings == Strings(x)
             at(k) == PointerTo(x, k)
             holding == {k \in DOMAIN strings : at(k) <= a /\ a <= at(k) + Len(strings[k])}
             byte(k) == Append(strings[k], 0)[a - at(k) + 1]
  <2>1. m[a] = IF holding = {} THEN z.mem[a] ELSE byte(CHOOSE k \in holding : TRUE)
    BY <1>1 DEF WithStrings, Address
  <2>2. ASSUME NEW k \in holding PROVE FALSE
    <3> DEFINE n == Len(strings)
               p == at(k)
               l == Len(strings[k])
    <3>1. n \in Nat /\ DOMAIN strings = 1..n /\ \A j \in 1..n : Len(strings[j]) \in Nat BY StringsFacts
    <3>2. k \in 1..n /\ p <= a /\ a <= p + l BY <3>1
    <3>3. p \in Nat
      <4>1. \A j \in 1..(n + 1) : at(j) \in Nat BY PointersTyped
      <4>2. k \in 1..(n + 1) BY <3>1, <3>2
      <4> QED BY <4>1, <4>2
    <3>4. l \in Nat BY <3>1, <3>2
    <3>5. a \in Nat BY <1>1, WordFacts
    <3>6. \A i \in 0..l : PageOf(p + i) = ArgPage BY <3>2, StringStored
    <3> HIDE DEF p, l, n
    <3>7. a - p \in 0..l /\ p + (a - p) = a BY <3>2, <3>3, <3>4, <3>5
    <3>8. PageOf(a) = ArgPage BY <3>6, <3>7
    <3> QED BY <1>1, <3>8
  <2> HIDE DEF holding
  <2>3. holding = {} BY <2>2
  <2> HIDE DEF m
  <2> QED BY <2>1, <2>3
<1>6. m \in Memory BY <1>4, WithStringsTyped
<1>7. sp \in Word /\ sp + 4 * Len(words) = top /\ top \in Word /\ words \in Seq(Int) BY FrameFacts
<1>8. a \notin sp..(top - 1)
  <2>1. \A b \in sp..(top - 1) : PageOf(b) \in StackPages BY DEF Executable
  <2> QED BY <1>1, <2>1
<1>9. Loaded(x).mem = WithWords(m, sp, words) BY LoadedTyped DEF z
<1> HIDE DEF s, m, words, sp, top
<1>10. WithWords(m, sp, words)[a] = m[a] BY <1>1, <1>6, <1>7, <1>8, Untouched
<1> QED BY <1>1, <1>3, <1>5, <1>9, <1>10 DEF s

LEMMA SegmentsRight ==
  ASSUME NEW x, Executable(x)
  PROVE  /\ Loaded(x).error <=> ~Supported(x) \/ Overlaps(x) \/ PastLimit(x)
         /\ ~Loaded(x).error => SegmentsHold(x, Loaded(x).mem, Loaded(x).flags)
<1> DEFINE s == Segments(x)
           hs == AllHeaders(x)
           n == Len(hs)
           z == WithZeroPages(s)
<1>1. DOMAIN hs = 1..n
  <2>1. Len(hs) = Len(Headers(x)) + Len(IF x.interp = <<>> THEN <<>> ELSE InterpHeaders(x))
        /\ DOMAIN hs = 1..(Len(Headers(x)) + Len(IF x.interp = <<>> THEN <<>> ELSE InterpHeaders(x)))
    BY HeadersFacts
  <2> QED BY <2>1
<1>2. /\ Overlaps(x) <=> Overlapped(hs, n)
      /\ PastLimit(x) <=> PastFirst(hs, n)
  BY <1>1 DEF Overlaps, Overlapped, PastLimit, PastFirst, Past
<1>3. \A g : Rights(x, g) = FirstRights(hs, n, g) BY <1>1 DEF Rights, FirstRights
<1>4. \A a : Contents(x, a) = LastByte(x, hs, n, a) BY <1>1 DEF Contents, LastByte
<1>5. HasFirst(x, hs, n, s) BY SegmentsFirst
<1>6. /\ s \in LoadState /\ (s.error <=> Overlapped(hs, n) \/ PastFirst(hs, n))
      /\ ~s.error => /\ \A g \in Page \ {VdsoPage} : s.flags[g] = FirstRights(hs, n, g)
                     /\ \A a \in Word : s.mem[a] = LastByte(x, hs, n, a)
  BY <1>5 DEF HasFirst
<1>7. /\ Loaded(x).flags = z.flags /\ (Loaded(x).error <=> z.error \/ ~Supported(x)) BY LoadedTyped
<1>8. /\ z.error = s.error
      /\ \A g \in Page : g \notin HeapPages \cup StackPages \cup {ArgPage} => z.flags[g] = s.flags[g]
  <2> HIDE DEF s
  <2> QED BY <1>6, ZeroPagesTyped
<1>9. \A g \in Page \ (HeapPages \cup StackPages \cup {ArgPage, VdsoPage}) : \A a \in Bytes(g) :
        a \in Word /\ Loaded(x).mem[a] = s.mem[a]
  BY RestUntouched
<1> HIDE DEF s, z, hs, n
<1>10. Loaded(x).error <=> ~Supported(x) \/ Overlaps(x) \/ PastLimit(x) BY <1>2, <1>6, <1>7, <1>8
<1>11. ASSUME ~Loaded(x).error PROVE SegmentsHold(x, Loaded(x).mem, Loaded(x).flags)
  <2>1. ~s.error BY <1>7, <1>8, <1>11
  <2> SUFFICES ASSUME NEW g \in Page \ (HeapPages \cup StackPages \cup {ArgPage, VdsoPage})
               PROVE  /\ Loaded(x).flags[g] = Rights(x, g)
                      /\ \A a \in Bytes(g) : Loaded(x).mem[a] = Contents(x, a)
    BY DEF SegmentsHold
  <2>2. Loaded(x).flags[g] = Rights(x, g) BY <1>3, <1>6, <1>7, <1>8, <2>1
  <2>3. \A a \in Bytes(g) : Loaded(x).mem[a] = Contents(x, a) BY <1>4, <1>6, <1>9, <2>1
  <2> QED BY <2>2, <2>3
<1> QED BY <1>10, <1>11

(* Memory begins as the segments say: bytes of the file, later ones over   *)
(* earlier ones, zeros after them, the rights of the first in each page;   *)
(* and an executable is refused just when its type or its interpreter's is *)
(* another, or bytes would go to a page of zeros or past the page table.   *)
THEOREM SegmentsCorrect == Spec => SegmentsLoaded
<1> DEFINE Right == IF ~Supported(exe) \/ Overlaps(exe) \/ PastLimit(exe) THEN thrown'
                    ELSE ~thrown' /\ SegmentsHold(exe, mem', flags')
<1>1. ASSUME IInv, Next, exe # None PROVE Right
  <2>1. /\ Executable(exe)
        /\ \/ thrown' /\ Loaded(exe).error
           \/ ~thrown' /\ ~Loaded(exe).error /\ mem' = Loaded(exe).mem /\ flags' = Loaded(exe).flags
    BY <1>1, OnlyBoot
  <2>2. /\ Loaded(exe).error <=> ~Supported(exe) \/ Overlaps(exe) \/ PastLimit(exe)
        /\ ~Loaded(exe).error => SegmentsHold(exe, Loaded(exe).mem, Loaded(exe).flags)
    BY <2>1, SegmentsRight
  <2> QED BY <2>1, <2>2
<1>2. IInv /\ [Next]_vars => [exe # None => Right]_vars BY <1>1
<1> QED BY <1>2, Invariant, PTL DEF Spec, SegmentsLoaded
================================================================================
