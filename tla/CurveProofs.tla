------------------------------ MODULE CurveProofs ------------------------------
(***************************************************************************)
(* GE over every prime field with FieldSize % 4 = 3.                         *)
(*                                                                         *)
(* A sum of points is again a point: that the chord or tangent meets the     *)
(* curve in a third point is an identity of polynomials, which is checked    *)
(* over the integers and read modulo FieldSize.  The candidate root of sqrt  *)
(* is a root whenever there is one, by Fermat's little theorem; on it rest   *)
(* the parsers.                                                            *)
(*                                                                         *)
(* Only the last part takes it that addition is associative: the multiples   *)
(* of G are then Z/Order, and the two loops of multiplication compute in it. *)
(***************************************************************************)
EXTENDS CurvePrograms, PrimeFieldLaws

\* The laws of the coordinate field.
K == INSTANCE PrimeFieldLaws WITH Order <- FieldSize

-----------------------------------------------------------------------------
(* Coordinates.                                                            *)

\* The coordinates form a field.
LEMMA FieldIsPrime == K!OrderAssumption
  BY FieldAssumption DEF K!OrderAssumption, F!OrderAssumption

\* The operations of the two instances are the same.
LEMMA SameField ==
  /\ F!Scalars = K!Scalars /\ F!NonZero = K!NonZero /\ F!Scalars = 0 .. FieldSize - 1
  /\ \A a, b : /\ F!Add(a, b) = K!Add(a, b) /\ F!Mul(a, b) = K!Mul(a, b)
               /\ F!Neg(a) = K!Neg(a) /\ F!Sub(a, b) = K!Sub(a, b)
  <1>1. F!Scalars = K!Scalars /\ F!Scalars = 0 .. FieldSize - 1
    BY DEF F!Scalars, K!Scalars
  <1>2. F!NonZero = K!NonZero BY <1>1 DEF F!NonZero, K!NonZero
  <1>3. \A a, b : /\ F!Add(a, b) = K!Add(a, b) /\ F!Mul(a, b) = K!Mul(a, b)
                  /\ F!Neg(a) = K!Neg(a)
    BY DEF F!Add, K!Add, F!Mul, K!Mul, F!Neg, K!Neg
  <1>4. \A a, b : F!Sub(a, b) = K!Sub(a, b) BY <1>3 DEF F!Sub, K!Sub
  <1> QED BY <1>1, <1>2, <1>3, <1>4

\* A multiple of FieldSize.
Vanishes(a) == a % FieldSize = 0

\* The multiples of FieldSize, by a quotient.
LEMMA Multiples ==
  ASSUME NEW a \in Int
  PROVE  Vanishes(a) <=> \E k \in Int : a = FieldSize * k
  <1>1. FieldSize \in Nat /\ FieldSize >= 2 BY FieldIsPrime DEF K!OrderAssumption
  <1>2. ASSUME Vanishes(a) PROVE \E k \in Int : a = FieldSize * k
    <2>1. a \div FieldSize \in Int /\ a = FieldSize * (a \div FieldSize) + (a % FieldSize)
      BY FieldIsPrime, K!Division
    <2>2. a = FieldSize * (a \div FieldSize) BY <1>1, <1>2, <2>1 DEF Vanishes
    <2> QED BY <2>1, <2>2
  <1>3. ASSUME NEW k \in Int, a = FieldSize * k PROVE Vanishes(a)
    <2>1. a = 0 + FieldSize * k /\ 0 \in Int BY <1>1, <1>3
    <2>2. (a % FieldSize) = (0 % FieldSize) BY <1>3, <2>1, FieldIsPrime, K!SameResidue
    <2>3. (0 % FieldSize) = 0 BY <1>1
    <2> QED BY <2>2, <2>3 DEF Vanishes
  <1> QED BY <1>2, <1>3

\* They are an ideal of the integers.
LEMMA VanishLaws ==
  ASSUME NEW a \in Int, NEW b \in Int, Vanishes(a)
  PROVE  /\ Vanishes(a * b) /\ Vanishes(b * a) /\ Vanishes(-a)
         /\ Vanishes(b) => Vanishes(a + b) /\ Vanishes(a - b)
  <1>1. FieldSize \in Nat BY FieldIsPrime DEF K!OrderAssumption
  <1>2. PICK k \in Int : a = FieldSize * k BY Multiples
  <1>3. a * b = FieldSize * (k * b) /\ k * b \in Int /\ a * b \in Int BY <1>1, <1>2
  <1>4. b * a = FieldSize * (k * b) /\ b * a \in Int BY <1>1, <1>2
  <1>5. -a = FieldSize * (-k) /\ -k \in Int /\ -a \in Int BY <1>1, <1>2
  <1>6. ASSUME Vanishes(b) PROVE Vanishes(a + b) /\ Vanishes(a - b)
    <2>1. PICK l \in Int : b = FieldSize * l BY <1>6, Multiples
    <2>2. a + b = FieldSize * (k + l) /\ k + l \in Int /\ a + b \in Int BY <1>1, <1>2, <2>1
    <2>3. a - b = FieldSize * (k - l) /\ k - l \in Int /\ a - b \in Int BY <1>1, <1>2, <2>1
    <2> QED BY <2>2, <2>3, Multiples
  <1> QED BY <1>3, <1>4, <1>5, <1>6, Multiples

\* Two numbers have one residue if they differ by a multiple, and differ from
\* it by one.
LEMMA ResidueLaws ==
  ASSUME NEW a \in Int, NEW b \in Int
  PROVE  /\ (a % FieldSize) = (b % FieldSize) <=> Vanishes(a - b)
         /\ (a % FieldSize) \in F!Scalars /\ (a % FieldSize) \in Int
         /\ Vanishes((a % FieldSize) - a) /\ Vanishes(a - (a % FieldSize))
  <1> DEFINE ra == a % FieldSize
             rb == b % FieldSize
             qa == a \div FieldSize
             qb == b \div FieldSize
  <1>1. FieldSize \in Nat BY FieldIsPrime DEF K!OrderAssumption
  <1>2. /\ ra \in F!Scalars /\ qa \in Int /\ a = FieldSize * qa + ra
        /\ rb \in F!Scalars /\ qb \in Int /\ b = FieldSize * qb + rb
    BY FieldIsPrime, SameField, K!Division
  <1>3. ra \in Int /\ rb \in Int BY <1>1, <1>2, SameField
  <1> HIDE DEF ra, rb, qa, qb
  <1>4. ra - a = FieldSize * (-qa) /\ -qa \in Int /\ ra - a \in Int BY <1>1, <1>2, <1>3
  <1>5. a - ra = FieldSize * qa /\ a - ra \in Int BY <1>1, <1>2, <1>3
  <1>6. ASSUME ra = rb PROVE Vanishes(a - b)
    <2>1. a - b = FieldSize * (qa - qb) /\ qa - qb \in Int /\ a - b \in Int
      BY <1>1, <1>2, <1>3, <1>6
    <2> QED BY <2>1, Multiples
  <1>7. ASSUME Vanishes(a - b) PROVE ra = rb
    <2>1. a - b \in Int OBVIOUS
    <2>2. PICK k \in Int : a - b = FieldSize * k BY <1>7, <2>1, Multiples
    <2>3. a = b + FieldSize * k BY <1>1, <2>2
    <2> QED BY <2>3, FieldIsPrime, K!SameResidue DEF ra, rb
  <1> QED BY <1>2, <1>3, <1>4, <1>5, <1>6, <1>7, Multiples DEF ra, rb

\* FieldSize is prime: a product vanishes with one of its factors only.
LEMMA VanishingProduct ==
  ASSUME NEW a \in Int, NEW b \in Int, Vanishes(a * b)
  PROVE  Vanishes(a) \/ Vanishes(b)
  <1> DEFINE ra == a % FieldSize
             rb == b % FieldSize
  <1>1. ra \in K!Scalars /\ ra \in Int /\ rb \in K!Scalars /\ rb \in Int
    BY ResidueLaws, SameField
  <1>2. ((ra * rb) % FieldSize) = ((a * b) % FieldSize)
    <2>1. ((ra * b) % FieldSize) = ((a * b) % FieldSize) BY FieldIsPrime, K!ReduceFactor
    <2>2. ((ra * rb) % FieldSize) = ((ra * b) % FieldSize)
      <3> HIDE DEF ra
      <3> QED BY <1>1, FieldIsPrime, K!ReduceFactor
    <2> QED BY <2>1, <2>2
  <1> HIDE DEF ra, rb
  <1>3. K!Mul(ra, rb) = 0 BY <1>2 DEF Vanishes, K!Mul
  <1>4. ~ (ra \in K!NonZero /\ rb \in K!NonZero)
    BY <1>3, FieldIsPrime, K!NoZeroDivisors DEF K!NonZero
  <1>5. ra = 0 \/ rb = 0 BY <1>1, <1>4 DEF K!NonZero
  <1> QED BY <1>5 DEF ra, rb, Vanishes

-----------------------------------------------------------------------------
(* Powers.                                                                 *)

\* The loop of pow, round by round.
LEMMA PowerRounds ==
  ASSUME NEW b \in F!Scalars, NEW n \in Nat
  PROVE  \E after \in [0 .. n -> F!Scalars] :
           /\ after[0] = 1
           /\ \A m \in 1 .. n : after[m] = F!Mul(after[m - 1], b)
           /\ \A m \in 0 .. n : Power(b, m) = after[m]
  <1> DEFINE V == F!Scalars
             h == [i \in 1 .. n |-> [v \in V |-> F!Mul(v, b)]]
  <1>1. 1 \in V BY FieldIsPrime, K!UnitsAreScalars, SameField
  <1>2. \A v \in V : F!Mul(v, b) \in V BY FieldIsPrime, K!Closed, SameField
  <1>3. h \in [1 .. n -> [V -> V]] BY <1>2
  <1> HIDE DEF V
  <1>4. PICK after \in [0 .. n -> V] :
          Rounds(after, n, 1, h) /\ Folded(after, n, V, 1, h)
    <2> HIDE DEF h
    <2> QED BY <1>1, <1>3, LoopRuns
  <1>5. ASSUME NEW m \in 1 .. n PROVE after[m] = F!Mul(after[m - 1], b)
    <2>1. after[m] = h[m][after[m - 1]] BY <1>4 DEF Rounds
    <2>2. m - 1 \in 0 .. n OBVIOUS
    <2> QED BY <2>1, <2>2
  <1>6. ASSUME NEW m \in 0 .. n PROVE Power(b, m) = after[m]
    <2> DEFINE D == [i \in 1 .. m |-> i]
               Fold(k) == k = [s \in SUBSET DOMAIN D |->
                                 IF s = {} THEN 1 ELSE F!Mul(k[s \ {Max(s)}], b)]
    <2>1. PICK q \in [SUBSET (1 .. m) -> V] : Loop(q, m, 1, h) /\ q[1 .. m] = after[m]
      BY <1>4 DEF Folded
    <2>2. Power(b, m) = (CHOOSE k : Fold(k))[DOMAIN D]
      BY DEF Power, FoldLeft, MapThenFoldSet
    <2>3. DOMAIN D = 1 .. m OBVIOUS
    <2>4. ASSUME NEW s \in SUBSET (1 .. m), s # {}
          PROVE  q[s] = F!Mul(q[s \ {Max(s)}], b)
      <3>1. Max(s) \in s /\ q[s] = h[Max(s)][q[s \ {Max(s)}]] BY <2>1, <2>4 DEF Loop
      <3>2. \A i \in 1 .. m : i \in 1 .. n OBVIOUS
      <3>3. Max(s) \in 1 .. n BY <2>4, <3>1, <3>2
      <3>4. q[s \ {Max(s)}] \in V BY <2>1
      <3> QED BY <3>1, <3>3, <3>4
    <2> HIDE DEF D, h
    <2>5. q = [s \in SUBSET (1 .. m) |-> q[s]] /\ q[{}] = 1 BY <2>1 DEF Loop
    <2>6. Fold(q) BY <2>3, <2>4, <2>5
    <2>7. ASSUME NEW k, Fold(k) PROVE k = q
      <3>1. k = [s \in SUBSET (1 .. m) |-> k[s]] /\ k[{}] = 1 BY <2>3, <2>7
      <3>2. \A s \in SUBSET (1 .. m) : s # {} => k[s] = F!Mul(k[s \ {Max(s)}], b)
        BY <2>3, <2>7
      <3>3. \A s \in SUBSET (1 .. m) :
              s # {} /\ k[s \ {Max(s)}] = q[s \ {Max(s)}] => k[s] = q[s]
        BY <2>4, <3>2
      <3>4. m \in Nat OBVIOUS
      <3> QED BY <2>1, <3>1, <3>3, <3>4, LoopIsUnique
    <2> HIDE DEF Fold
    <2>8. (CHOOSE k : Fold(k)) = q BY <2>6, <2>7
    <2> QED BY <2>1, <2>2, <2>3, <2>8
  <1>7. after[0] = 1 BY <1>4 DEF Rounds
  <1> QED BY <1>5, <1>6, <1>7 DEF V

\* One factor more.
LEMMA PowerSteps ==
  ASSUME NEW b \in F!Scalars
  PROVE  /\ Power(b, 0) = 1
         /\ \A n \in Nat : Power(b, n) \in F!Scalars /\ Power(b, n + 1) = F!Mul(Power(b, n), b)
  <1>1. ASSUME NEW n \in Nat
        PROVE  /\ Power(b, 0) = 1 /\ Power(b, n) \in F!Scalars
               /\ Power(b, n + 1) = F!Mul(Power(b, n), b)
    <2>1. n + 1 \in Nat OBVIOUS
    <2>2. PICK after \in [0 .. n + 1 -> F!Scalars] :
            /\ after[0] = 1
            /\ \A m \in 1 .. n + 1 : after[m] = F!Mul(after[m - 1], b)
            /\ \A m \in 0 .. n + 1 : Power(b, m) = after[m]
      BY <2>1, PowerRounds
    <2>3. /\ n + 1 \in 1 .. n + 1 /\ n + 1 \in 0 .. n + 1 /\ n \in 0 .. n + 1
          /\ (n + 1) - 1 = n /\ 0 \in 0 .. n + 1
      OBVIOUS
    <2> QED BY <2>2, <2>3
  <1> QED BY <1>1

\* Squares and cubes.
LEMMA SmallPowers ==
  ASSUME NEW b \in F!Scalars
  PROVE  Power(b, 1) = b /\ Power(b, 2) = F!Mul(b, b) /\ Power(b, 3) = F!Mul(F!Mul(b, b), b)
  <1>1. Power(b, 0 + 1) = F!Mul(Power(b, 0), b) /\ Power(b, 0) = 1 BY PowerSteps
  <1>2. Power(b, 1 + 1) = F!Mul(Power(b, 1), b) BY PowerSteps
  <1>3. Power(b, 2 + 1) = F!Mul(Power(b, 2), b) BY PowerSteps
  <1>4. F!Mul(1, b) = b BY FieldIsPrime, K!UnitsAndNegation, SameField
  <1>5. 0 + 1 = 1 /\ 1 + 1 = 2 /\ 2 + 1 = 3 OBVIOUS
  <1> QED BY <1>1, <1>2, <1>3, <1>4, <1>5

\* Exponents add up.
LEMMA PowerAdds ==
  ASSUME NEW b \in F!Scalars, NEW m \in Nat
  PROVE  \A n \in Nat : Power(b, m + n) = F!Mul(Power(b, m), Power(b, n))
  <1> DEFINE Good == {n \in Nat : Power(b, m + n) = F!Mul(Power(b, m), Power(b, n))}
  <1>1. Power(b, m) \in F!Scalars /\ Power(b, 0) = 1 BY PowerSteps
  <1>2. 0 \in Good
    <2>1. F!Mul(Power(b, m), 1) = Power(b, m)
      BY <1>1, FieldIsPrime, K!UnitsAndNegation, SameField
    <2>2. m + 0 = m OBVIOUS
    <2> QED BY <1>1, <2>1, <2>2
  <1>3. ASSUME NEW n \in Nat, n \in Good PROVE n + 1 \in Good
    <2> DEFINE u == Power(b, m)
               v == Power(b, n)
    <2>1. u \in F!Scalars /\ v \in F!Scalars /\ Power(b, n + 1) = F!Mul(v, b) BY PowerSteps
    <2>2. m + (n + 1) = (m + n) + 1 /\ m + n \in Nat /\ n + 1 \in Nat OBVIOUS
    <2>3. Power(b, (m + n) + 1) = F!Mul(Power(b, m + n), b) BY <2>2, PowerSteps
    <2>4. Power(b, m + n) = F!Mul(u, v) BY <1>3
    <2> HIDE DEF u, v
    <2>5. F!Mul(F!Mul(u, v), b) = F!Mul(u, F!Mul(v, b))
      BY <2>1, FieldIsPrime, K!MulAssoc, SameField
    <2> QED BY <2>1, <2>2, <2>3, <2>4, <2>5 DEF u
  <1> HIDE DEF Good
  <1>4. \A n \in Nat : n \in Good BY <1>2, <1>3, CountingUp
  <1> QED BY <1>4 DEF Good

\* A power of a power.
LEMMA PowerOfPower ==
  ASSUME NEW b \in F!Scalars, NEW m \in Nat
  PROVE  \A n \in Nat : Power(Power(b, m), n) = Power(b, m * n)
  <1> DEFINE c == Power(b, m)
             Good == {n \in Nat : Power(c, n) = Power(b, m * n)}
  <1>1. c \in F!Scalars BY PowerSteps
  <1>2. 0 \in Good
    <2>1. m * 0 = 0 OBVIOUS
    <2> HIDE DEF c
    <2>2. Power(c, 0) = 1 /\ Power(b, 0) = 1 BY <1>1, PowerSteps
    <2> QED BY <2>1, <2>2
  <1>3. ASSUME NEW n \in Nat, n \in Good PROVE n + 1 \in Good
    <2>1. m * (n + 1) = m * n + m /\ m * n \in Nat /\ n + 1 \in Nat OBVIOUS
    <2>2. Power(b, m * n + m) = F!Mul(Power(b, m * n), c) BY <2>1, PowerAdds
    <2> HIDE DEF c
    <2>3. Power(c, n + 1) = F!Mul(Power(c, n), c) BY <1>1, PowerSteps
    <2> QED BY <1>3, <2>1, <2>2, <2>3
  <1> HIDE DEF Good
  <1>4. \A n \in Nat : n \in Good BY <1>2, <1>3, CountingUp
  <1> QED BY <1>4 DEF Good

\* Fermat's little theorem, for pow.
LEMMA PowerOfOrder ==
  ASSUME NEW b \in F!NonZero
  PROVE  Power(b, FieldSize - 1) = 1
  <1> DEFINE n == FieldSize - 1
  <1>1. b \in F!Scalars BY DEF F!NonZero
  <1>2. n \in Nat BY FieldIsPrime DEF K!OrderAssumption
  <1>3. PICK e \in [0 .. n -> F!Scalars] :
          /\ e[0] = 1
          /\ \A m \in 1 .. n : e[m] = F!Mul(e[m - 1], b)
          /\ \A m \in 0 .. n : Power(b, m) = e[m]
    BY <1>1, <1>2, PowerRounds
  <1>4. K!PowersOf(e, b, n) BY <1>3, SameField DEF K!PowersOf
  <1>5. e[n] = 1
    <2>1. b \in K!NonZero BY SameField
    <2> QED BY <1>4, <2>1, FieldIsPrime, K!FermatsLittleTheorem
  <1>6. n \in 0 .. n BY <1>2
  <1> QED BY <1>3, <1>5, <1>6

-----------------------------------------------------------------------------
(* Square roots and lift_x.                                                *)

\* The exponent of sqrt.
LEMMA RootExponent ==
  /\ FieldSize \in Nat /\ FieldSize >= 3
  /\ (FieldSize + 1) \div 4 \in Nat /\ 4 * ((FieldSize + 1) \div 4) = FieldSize + 1
  <1>1. FieldSize \in Nat /\ FieldSize >= 2 BY FieldIsPrime DEF K!OrderAssumption
  <1>2. FieldSize % 4 = 3 BY FieldAssumption
  <1>3. FieldSize = 4 * (FieldSize \div 4) + 3 /\ FieldSize \div 4 \in Nat BY <1>1, <1>2
  <1>4. (FieldSize + 1) \div 4 = FieldSize \div 4 + 1 BY <1>3
  <1> QED BY <1>1, <1>3, <1>4

\* sqrt finds a root of every square but zero, and only roots.
LEMMA SqrtFindsRoots ==
  /\ \A z \in F!NonZero : Sqrt(Power(z, 2)) # NoRoot
  /\ \A v \in F!Scalars : Sqrt(v) # NoRoot => /\ Sqrt(v) \in F!Scalars
                                              /\ Power(Sqrt(v), 2) = v
  <1> DEFINE k == (FieldSize + 1) \div 4
  <1>1. k \in Nat /\ 4 * k = FieldSize + 1 /\ FieldSize \in Nat /\ FieldSize >= 3
    BY RootExponent
  <1> HIDE DEF k
  <1>2. \A v : Sqrt(v) = IF Power(Power(v, k), 2) = v THEN Power(v, k) ELSE NoRoot
    BY DEF Sqrt, SqrtOf, k
  <1>3. \A s \in F!Scalars : s # NoRoot BY <1>1, SameField DEF NoRoot
  <1>4. ASSUME NEW z \in F!NonZero PROVE Sqrt(Power(z, 2)) # NoRoot
    <2> DEFINE v == Power(z, 2)
    <2>1. z \in F!Scalars BY DEF F!NonZero
    <2>2. v \in F!Scalars /\ Power(v, k) \in F!Scalars
      <3>1. v \in F!Scalars BY <2>1, PowerSteps
      <3> HIDE DEF v
      <3> QED BY <1>1, <3>1, PowerSteps
    <2>3. Power(v, k) = Power(z, 2 * k) BY <1>1, <2>1, PowerOfPower
    <2>4. 2 * k \in Nat /\ (2 * k) * 2 = FieldSize + 1 BY <1>1
    <2>5. Power(Power(z, 2 * k), 2) = Power(z, FieldSize + 1) BY <2>1, <2>4, PowerOfPower
    <2>6. FieldSize - 1 \in Nat /\ (FieldSize - 1) + 2 = FieldSize + 1 BY <1>1
    <2>7. Power(z, (FieldSize - 1) + 2) = F!Mul(Power(z, FieldSize - 1), v)
      BY <2>1, <2>6, PowerAdds
    <2>8. Power(z, FieldSize - 1) = 1 BY PowerOfOrder
    <2> HIDE DEF v
    <2>9. F!Mul(1, v) = v BY <2>2, FieldIsPrime, K!UnitsAndNegation, SameField
    <2>10. Power(Power(v, k), 2) = v BY <2>3, <2>5, <2>6, <2>7, <2>8, <2>9
    <2> QED BY <1>2, <1>3, <2>2, <2>10 DEF v
  <1>5. ASSUME NEW v \in F!Scalars, Sqrt(v) # NoRoot
        PROVE  Sqrt(v) \in F!Scalars /\ Power(Sqrt(v), 2) = v
    <2>1. Power(v, k) \in F!Scalars BY <1>1, PowerSteps
    <2> QED BY <1>2, <1>5, <2>1
  <1> QED BY <1>4, <1>5

\* Sums and products of coordinates, before reduction.
LEMMA Reduced ==
  ASSUME NEW a \in F!Scalars, NEW b \in F!Scalars
  PROVE  /\ a \in Int /\ a >= 0 /\ a < FieldSize /\ FieldSize \in Nat
         /\ Vanishes(a) <=> a = 0
         /\ F!Add(a, b) \in F!Scalars /\ Vanishes(F!Add(a, b) - (a + b))
         /\ F!Mul(a, b) \in F!Scalars /\ Vanishes(F!Mul(a, b) - (a * b))
         /\ F!Neg(a) \in F!Scalars /\ Vanishes(F!Neg(a) - (-a))
         /\ F!Neg(a) = IF a = 0 THEN 0 ELSE FieldSize - a
         /\ F!Sub(a, b) \in F!Scalars /\ Vanishes(F!Sub(a, b) - (a - b))
  <1>1. FieldSize \in Nat /\ a \in Int /\ b \in Int /\ a >= 0 /\ a < FieldSize
    BY RootExponent, SameField
  <1>2. Vanishes(a) <=> a = 0 BY <1>1 DEF Vanishes
  <1>3. a + b \in Int /\ a * b \in Int /\ -a \in Int /\ -b \in Int BY <1>1
  <1>4. F!Add(a, b) \in F!Scalars /\ Vanishes(F!Add(a, b) - (a + b))
    BY <1>3, ResidueLaws DEF F!Add
  <1>5. F!Mul(a, b) \in F!Scalars /\ Vanishes(F!Mul(a, b) - (a * b))
    <2> DEFINE m == a * b
    <2>1. m \in Int BY <1>3
    <2> HIDE DEF m
    <2>2. (m % FieldSize) \in F!Scalars /\ Vanishes((m % FieldSize) - m)
      BY <2>1, ResidueLaws
    <2> QED BY <2>2 DEF F!Mul, m
  <1>6. F!Neg(a) \in F!Scalars /\ Vanishes(F!Neg(a) - (-a)) BY <1>3, ResidueLaws DEF F!Neg
  <1>7. F!Neg(a) = IF a = 0 THEN 0 ELSE FieldSize - a
    BY FieldIsPrime, K!UnitsAndNegation, SameField
  <1>8. F!Sub(a, b) \in F!Scalars /\ Vanishes(F!Sub(a, b) - (a - b))
    <2> DEFINE n == F!Neg(b)
    <2>1. n \in F!Scalars /\ n \in Int /\ Vanishes(n - (-b))
      <3>1. n \in F!Scalars /\ Vanishes(n - (-b)) BY <1>3, ResidueLaws DEF F!Neg
      <3> QED BY <3>1, <1>1, SameField
    <2>2. F!Sub(a, b) = (a + n) % FieldSize BY DEF F!Sub, F!Add
    <2> HIDE DEF n
    <2>3. a + n \in Int BY <1>1, <2>1
    <2>4. ((a + n) % FieldSize) \in F!Scalars /\ ((a + n) % FieldSize) \in Int
          /\ Vanishes(((a + n) % FieldSize) - (a + n))
      BY <2>3, ResidueLaws
    <2> DEFINE r == (a + n) % FieldSize
    <2>5. r \in F!Scalars /\ r \in Int /\ Vanishes(r - (a + n)) BY <2>4
    <2> HIDE DEF r
    <2>6. r - (a + n) \in Int /\ n - (-b) \in Int BY <1>1, <2>1, <2>5
    <2>7. Vanishes((r - (a + n)) + (n - (-b))) BY <2>1, <2>5, <2>6, VanishLaws
    <2>8. (r - (a + n)) + (n - (-b)) = r - (a - b) BY <1>1, <2>1, <2>5
    <2> QED BY <2>2, <2>5, <2>7, <2>8 DEF r
  <1> QED BY <1>1, <1>2, <1>4, <1>5, <1>6, <1>7, <1>8

\* Two coordinates that differ by a multiple of FieldSize are the same.
LEMMA SameCoordinate ==
  ASSUME NEW a \in F!Scalars, NEW b \in F!Scalars
  PROVE  Vanishes(a - b) <=> a = b
  <1>1. a \in Int /\ b \in Int /\ (a % FieldSize) = a /\ (b % FieldSize) = b
    BY Reduced, FieldIsPrime, K!SmallResidue, SameField
  <1> QED BY <1>1, ResidueLaws

\* The equation of the curve, as an integer that vanishes.
LEMMA CurveEquation ==
  ASSUME NEW x \in F!Scalars, NEW y \in F!Scalars
  PROVE  OnCurve(x, y) <=> Vanishes(y * y - (x * x * x + 7))
  <1> DEFINE xx == F!Mul(x, x)
             xxx == F!Mul(xx, x)
             yy == F!Mul(y, y)
             r == F!Add(xxx, 7)
  <1>1. x \in Int /\ y \in Int BY Reduced
  <1>2. /\ xx \in F!Scalars /\ xx \in Int /\ Vanishes(xx - x * x)
        /\ yy \in F!Scalars /\ yy \in Int /\ Vanishes(yy - y * y)
    BY Reduced
  <1>3. xxx \in F!Scalars /\ xxx \in Int /\ Vanishes(xxx - xx * x)
    <2> HIDE DEF xx
    <2> QED BY <1>2, Reduced
  <1>4. r = (xxx + 7) % FieldSize BY DEF F!Add
  <1>5. Power(y, 2) = yy /\ RightHandSide(x) = r BY SmallPowers DEF RightHandSide
  <1> HIDE DEF xx, xxx, yy, r
  <1>6. r \in F!Scalars /\ r \in Int /\ Vanishes(r - (xxx + 7))
    <2>1. xxx + 7 \in Int BY <1>3
    <2> QED BY <1>4, <2>1, ResidueLaws
  <1>7. OnCurve(x, y) <=> Vanishes(yy - r) BY <1>2, <1>5, <1>6, SameCoordinate DEF OnCurve
  <1> DEFINE diff == (y * y - (x * x * x + 7)) - (yy - r)
  <1>8. Vanishes(diff)
    <2> DEFINE d1 == yy - y * y
               d2 == r - (xxx + 7)
               d3 == xxx - xx * x
               d4 == xx - x * x
    <2>1. d1 \in Int /\ d2 \in Int /\ d3 \in Int /\ d4 \in Int BY <1>1, <1>2, <1>3, <1>6
    <2>2. diff = ((d2 - d1) + d3) + d4 * x BY <1>1, <1>2, <1>3, <1>6
    <2>3. Vanishes(d1) /\ Vanishes(d2) /\ Vanishes(d3) /\ Vanishes(d4)
      BY <1>2, <1>3, <1>6
    <2> HIDE DEF d1, d2, d3, d4, diff
    <2>4. Vanishes(d2 - d1) /\ Vanishes(d4 * x) /\ d2 - d1 \in Int /\ d4 * x \in Int
      BY <1>1, <2>1, <2>3, VanishLaws
    <2>5. Vanishes((d2 - d1) + d3) /\ (d2 - d1) + d3 \in Int BY <2>1, <2>3, <2>4, VanishLaws
    <2> QED BY <2>2, <2>4, <2>5, VanishLaws
  <1> DEFINE e == y * y - (x * x * x + 7)
             f == yy - r
  <1>9. e \in Int /\ f \in Int /\ diff = e - f BY <1>1, <1>2, <1>6
  <1> HIDE DEF e, f, diff
  <1>10. e - f \in Int /\ (e - f) + f = e /\ e - (e - f) = f BY <1>9
  <1>11. Vanishes(e) <=> Vanishes(f) BY <1>8, <1>9, <1>10, VanishLaws
  <1> QED BY <1>7, <1>11 DEF e, f

\* Two roots of one square are the same or opposite.
LEMMA OppositeRoots ==
  ASSUME NEW y \in F!Scalars, NEW z \in F!Scalars
  PROVE  Power(y, 2) = Power(z, 2) <=> (y = z \/ y = F!Neg(z))
  <1> DEFINE yy == F!Mul(y, y)
             zz == F!Mul(z, z)
             n == F!Neg(z)
  <1>1. y \in Int /\ z \in Int BY Reduced
  <1>2. /\ yy \in F!Scalars /\ yy \in Int /\ Vanishes(yy - y * y)
        /\ zz \in F!Scalars /\ zz \in Int /\ Vanishes(zz - z * z)
        /\ n \in F!Scalars /\ n \in Int /\ Vanishes(n - (-z))
    BY Reduced
  <1>3. Power(y, 2) = yy /\ Power(z, 2) = zz BY SmallPowers
  <1> HIDE DEF yy, zz, n
  <1>4. yy = zz <=> Vanishes(yy - zz) BY <1>2, SameCoordinate
  <1>5. (y = z <=> Vanishes(y - z)) /\ (y = n <=> Vanishes(y - n)) BY <1>2, SameCoordinate
  <1> DEFINE d == yy - zz
             e == y * y - z * z
             u == yy - y * y
             v == zz - z * z
  <1>6. /\ d \in Int /\ e \in Int /\ u \in Int /\ v \in Int
        /\ d = e + (u - v) /\ e = d - (u - v)
    BY <1>1, <1>2
  <1>7. Vanishes(u) /\ Vanishes(v) BY <1>2
  <1> HIDE DEF d, e, u, v
  <1>8. Vanishes(u - v) /\ u - v \in Int BY <1>6, <1>7, VanishLaws
  <1>9. Vanishes(d) <=> Vanishes(e) BY <1>6, <1>8, VanishLaws
  <1> DEFINE a == y - z
             b == y + z
             c == y - n
             w == n - (-z)
  <1>10. /\ a \in Int /\ b \in Int /\ c \in Int /\ w \in Int
         /\ c = b - w /\ b = c + w /\ Vanishes(w)
    BY <1>1, <1>2
  <1>11. e = a * b BY <1>1 DEF e
  <1> HIDE DEF a, b, c, w
  <1>12. Vanishes(b) <=> Vanishes(c) BY <1>10, VanishLaws
  <1>13. Vanishes(e) <=> (Vanishes(a) \/ Vanishes(b))
    BY <1>10, <1>11, VanishLaws, VanishingProduct
  <1> QED BY <1>3, <1>4, <1>5, <1>9, <1>12, <1>13 DEF a, c, d, n

\* FieldSize is odd: of a coordinate and its negation one is even.
LEMMA OneIsEven ==
  ASSUME NEW y \in F!NonZero
  PROVE  /\ F!Neg(y) \in F!NonZero /\ F!Neg(F!Neg(y)) = y
         /\ (y % 2 = 0) # (F!Neg(y) % 2 = 0)
         /\ EvenRoot(y) \in F!NonZero /\ EvenRoot(y) % 2 = 0
         /\ EvenRoot(F!Neg(y)) = EvenRoot(y)
         /\ EvenRoot(y) = IF y % 2 = 0 THEN y ELSE F!Neg(y)
  <1> DEFINE n == F!Neg(y)
  <1>1. y \in F!Scalars /\ y # 0 BY DEF F!NonZero
  <1>2. n = FieldSize - y /\ n \in F!Scalars /\ y \in Int /\ y >= 0 /\ y < FieldSize
    BY <1>1, Reduced
  <1>3. n \in F!NonZero /\ n \in Int BY <1>1, <1>2, RootExponent DEF F!NonZero
  <1>4. F!Neg(n) = y BY <1>1, FieldIsPrime, K!UnitsAndNegation, SameField
  <1>5. (y % 2 = 0) # (n % 2 = 0)
    <2>1. FieldSize = 4 * ((FieldSize + 1) \div 4) - 1 /\ (FieldSize + 1) \div 4 \in Int
      BY RootExponent
    <2>2. n = 4 * ((FieldSize + 1) \div 4) - 1 - y BY <1>2, <2>1
    <2> QED BY <1>2, <2>1, <2>2
  <1> HIDE DEF n
  <1>6. EvenRoot(y) = (IF y % 2 = 0 THEN y ELSE n) /\ EvenRoot(n) = (IF n % 2 = 0 THEN n ELSE y)
    BY <1>4 DEF EvenRoot, n
  <1> QED BY <1>3, <1>4, <1>5, <1>6 DEF n

\* A finite point has coordinates, and y is not zero.
LEMMA PointForm ==
  /\ Infinity \in Points
  /\ \A x \in F!Scalars, y \in F!Scalars :
       OnCurve(x, y) => <<x, y>> \in Points /\ <<x, y>> # Infinity /\ y \in F!NonZero
  /\ \A A \in Points \ {Infinity} :
       \E x \in F!Scalars, y \in F!NonZero : A = <<x, y>> /\ OnCurve(x, y)
  <1>1. Infinity \in Points BY DEF Points
  <1>2. ASSUME NEW x \in F!Scalars, NEW y \in F!Scalars, OnCurve(x, y)
        PROVE  <<x, y>> \in Points /\ <<x, y>> # Infinity /\ y \in F!NonZero
    <2>1. <<x, y>> \in PointsAt(x) BY <1>2 DEF PointsAt
    <2>2. <<x, y>> \in Points BY <2>1 DEF Points
    <2>3. y # 0 BY <1>2, NoPointOfOrderTwo
    <2> QED BY <2>2, <2>3 DEF Infinity, F!NonZero
  <1>3. ASSUME NEW A \in Points \ {Infinity}
        PROVE  \E x \in F!Scalars, y \in F!NonZero : A = <<x, y>> /\ OnCurve(x, y)
    <2>1. PICK x \in F!Scalars : A \in PointsAt(x) BY DEF Points
    <2>2. PICK y \in F!Scalars : A = <<x, y>> /\ OnCurve(x, y) BY <2>1 DEF PointsAt
    <2> QED BY <1>2, <2>2
  <1> QED BY <1>1, <1>2, <1>3

\* The right hand side is a coordinate.
LEMMA RightHandSides ==
  ASSUME NEW x \in F!Scalars
  PROVE  RightHandSide(x) \in F!Scalars
  <1> DEFINE c == Power(x, 3)
  <1>1. c \in F!Scalars BY PowerSteps
  <1> HIDE DEF c
  <1>2. c \in Int BY <1>1, Reduced
  <1>3. c + 7 \in Int BY <1>2
  <1>4. ((c + 7) % FieldSize) \in F!Scalars BY <1>3, ResidueLaws
  <1> QED BY <1>4 DEF RightHandSide, F!Add, c

\* lift_x finds the even point at x if there is a point at x, and nothing else.
LEMMA LiftXFinds ==
  ASSUME NEW x \in F!Scalars
  PROVE  /\ IsValidX(x) <=> \E y \in F!Scalars : OnCurve(x, y)
         /\ \A y \in F!Scalars : OnCurve(x, y) => LiftX(x) = <<x, EvenRoot(y)>>
         /\ ~ IsValidX(x) => LiftX(x) = ValueError
  <1> DEFINE v == RightHandSide(x)
             s == Sqrt(v)
  <1>1. LiftX(x) = PointWithRoot(x, s) /\ (IsValidX(x) <=> s # NoRoot) BY DEF LiftX, IsValidX
  <1>2. \A y \in F!Scalars : OnCurve(x, y) <=> Power(y, 2) = v BY DEF OnCurve
  <1>3. v \in F!Scalars BY RightHandSides
  <1>4. s # NoRoot => s \in F!Scalars /\ Power(s, 2) = v BY <1>3, SqrtFindsRoots
  <1>5. ASSUME NEW y \in F!Scalars, OnCurve(x, y)
        PROVE  s # NoRoot /\ LiftX(x) = <<x, EvenRoot(y)>>
    <2>1. y \in F!NonZero /\ Power(y, 2) = v BY <1>2, <1>5, PointForm
    <2>2. s # NoRoot BY <2>1, SqrtFindsRoots
    <2>3. s \in F!Scalars /\ Power(s, 2) = Power(y, 2) BY <1>4, <2>1, <2>2
    <2> HIDE DEF s
    <2>4. s = y \/ s = F!Neg(y) BY <2>3, OppositeRoots
    <2>5. EvenRoot(s) = EvenRoot(y) BY <2>1, <2>4, OneIsEven
    <2> QED BY <1>1, <2>2, <2>5 DEF PointWithRoot
  <1>6. ~ IsValidX(x) => LiftX(x) = ValueError BY <1>1 DEF PointWithRoot
  <1> HIDE DEF s, v
  <1> QED BY <1>1, <1>2, <1>4, <1>5, <1>6

-----------------------------------------------------------------------------
(* A sum of points is a point.                                             *)

\* The third point of the tangent at <<x, y>>: what y*y and x*x*x + 7 differ by
\* there is a combination of what they differ by at <<x, y>> and of the error
\* in the slope l.
LEMMA TangentIdentity ==
  ASSUME NEW l \in Int, NEW x \in Int, NEW y \in Int, NEW X \in Int, NEW Y \in Int,
         X = l * l - (x + x), Y = l * (x - X) - y
  PROVE  Y * Y - (X * X * X + 7)
           = (y * y - (x * x * x + 7)) + (l * (2 * y) - 3 * (x * x)) * (X - x)
  OBVIOUS

\* And the third point of the chord through <<x, y>> and <<u, v>>.
LEMMA ChordIdentity ==
  ASSUME NEW l \in Int, NEW x \in Int, NEW y \in Int, NEW u \in Int, NEW v \in Int,
         NEW X \in Int, NEW Y \in Int, NEW e \in Int,
         X = l * l - (x + u), Y = l * (x - X) - y, e = l * (x - u) - (y - v)
  PROVE  (x - u) * (Y * Y - (X * X * X + 7))
           = (y * y - (x * x * x + 7)) * (X - u)
             + (2 * (v * e) - e * e - (v * v - (u * u * u + 7))) * (X - x)
  OBVIOUS

\* A quotient of coordinates.
LEMMA Quotients ==
  ASSUME NEW a \in F!Scalars, NEW d \in F!NonZero
  PROVE  F!Div(a, d) \in F!Scalars /\ Vanishes(F!Div(a, d) * d - a)
  <1> DEFINE i == F!Inv(d)
             q == F!Mul(a, i)
  <1>1. d \in F!Scalars /\ d \in K!NonZero BY SameField DEF F!NonZero
  <1>2. i \in F!Scalars /\ F!Mul(d, i) = 1
    <2>1. K!Inv(d) \in F!Scalars /\ F!Mul(d, K!Inv(d)) = 1
      BY <1>1, FieldIsPrime, K!Invertible, SameField
    <2>2. \E b \in F!Scalars : F!Mul(d, b) = 1 BY <2>1
    <2> QED BY <2>2 DEF F!Inv
  <1> HIDE DEF i
  <1>3. q \in F!Scalars /\ F!Mul(q, d) = a
    <2>1. q \in F!Scalars BY <1>2, Reduced
    <2>2. K!Mul(K!Mul(a, i), d) = K!Mul(a, K!Mul(i, d))
      BY <1>1, <1>2, FieldIsPrime, K!MulAssoc, SameField
    <2>3. K!Mul(i, d) = K!Mul(d, i) BY <1>1, <1>2, FieldIsPrime, K!Commutes, SameField
    <2>4. K!Mul(a, 1) = a BY FieldIsPrime, K!UnitsAndNegation, SameField
    <2> QED BY <1>2, <2>1, <2>2, <2>3, <2>4, SameField
  <1> HIDE DEF q
  <1>4. q \in Int /\ d \in Int /\ a \in Int BY <1>1, <1>3, Reduced
  <1>5. Vanishes(a - (q * d))
    <2>1. Vanishes(F!Mul(q, d) - (q * d)) BY <1>1, <1>3, Reduced
    <2> QED BY <1>3, <2>1
  <1> DEFINE e == a - (q * d)
  <1>6. e \in Int /\ -e = q * d - a BY <1>4
  <1>7. Vanishes(-e)
    <2> HIDE DEF e
    <2> QED BY <1>5, <1>6, VanishLaws DEF e
  <1>8. F!Div(a, d) = q BY DEF F!Div, q, i
  <1> QED BY <1>3, <1>6, <1>7, <1>8

\* The coordinates of the third point, before reduction.
ThirdX0(x, u, l) == l * l - (x + u)
ThirdY0(x, y, u, l) == l * (x - ThirdX0(x, u, l)) - y

\* AddAlong reduces them.
LEMMA AlongReduces ==
  ASSUME NEW x \in F!Scalars, NEW y \in F!Scalars, NEW u \in F!Scalars, NEW v \in F!Scalars,
         NEW l \in F!Scalars
  PROVE  \E X \in F!Scalars, Y \in F!Scalars :
           /\ AddAlong(<<x, y>>, <<u, v>>, l) = <<X, Y>>
           /\ Vanishes(X - ThirdX0(x, u, l)) /\ Vanishes(Y - ThirdY0(x, y, u, l))
  <1> DEFINE ll == F!Mul(l, l)
             s == F!Add(x, u)
             X == F!Sub(ll, s)
             t == F!Sub(x, X)
             m == F!Mul(l, t)
             Y == F!Sub(m, y)
  <1>1. AddAlong(<<x, y>>, <<u, v>>, l) = <<X, Y>>
    BY SmallPowers DEF AddAlong, ThirdPoint, ThirdX
  <1>2. x \in Int /\ y \in Int /\ u \in Int /\ l \in Int BY Reduced
  <1>3. /\ ll \in F!Scalars /\ ll \in Int /\ Vanishes(ll - l * l)
        /\ s \in F!Scalars /\ s \in Int /\ Vanishes(s - (x + u))
    BY Reduced
  <1> HIDE DEF ll, s
  <1>4. X \in F!Scalars /\ X \in Int /\ Vanishes(X - (ll - s)) BY <1>3, Reduced
  <1> HIDE DEF X
  <1>5. t \in F!Scalars /\ t \in Int /\ Vanishes(t - (x - X)) BY <1>4, Reduced
  <1> HIDE DEF t
  <1>6. m \in F!Scalars /\ m \in Int /\ Vanishes(m - (l * t)) BY <1>5, Reduced
  <1> HIDE DEF m
  <1>7. Y \in F!Scalars /\ Y \in Int /\ Vanishes(Y - (m - y)) BY <1>6, Reduced
  <1> HIDE DEF Y
  <1> DEFINE X0 == ThirdX0(x, u, l)
             Y0 == ThirdY0(x, y, u, l)
             d1 == ll - l * l
             d2 == s - (x + u)
             d3 == X - (ll - s)
             d4 == t - (x - X)
             d5 == m - (l * t)
             d6 == Y - (m - y)
             dX == X - X0
  <1>8. d1 \in Int /\ d2 \in Int /\ d3 \in Int /\ d4 \in Int /\ d5 \in Int /\ d6 \in Int
    BY <1>2, <1>3, <1>4, <1>5, <1>6, <1>7
  <1>9. X0 \in Int /\ Y0 \in Int /\ dX \in Int BY <1>2, <1>4 DEF ThirdX0, ThirdY0
  <1>10. dX = (d3 + d1) - d2 BY <1>2, <1>3, <1>4 DEF ThirdX0
  <1>11. Y - Y0 = (d6 + d5) + l * (d4 - dX)
    BY <1>2, <1>3, <1>4, <1>5, <1>6, <1>7 DEF ThirdX0, ThirdY0
  <1>12. /\ Vanishes(d1) /\ Vanishes(d2) /\ Vanishes(d3) /\ Vanishes(d4) /\ Vanishes(d5)
         /\ Vanishes(d6)
    BY <1>3, <1>4, <1>5, <1>6, <1>7
  <1> HIDE DEF X0, Y0, d1, d2, d3, d4, d5, d6
  <1>13. Vanishes(dX)
    <2>1. Vanishes(d3 + d1) /\ d3 + d1 \in Int BY <1>8, <1>12, VanishLaws
    <2> QED BY <1>8, <1>10, <1>12, <2>1, VanishLaws
  <1> HIDE DEF dX
  <1>14. Vanishes(Y - Y0)
    <2>1. Vanishes(d6 + d5) /\ d6 + d5 \in Int BY <1>8, <1>12, VanishLaws
    <2> DEFINE e == d4 - dX
    <2>2. Vanishes(e) /\ e \in Int BY <1>8, <1>9, <1>12, <1>13, VanishLaws
    <2> HIDE DEF e
    <2>3. Vanishes(l * e) /\ l * e \in Int BY <1>2, <2>2, VanishLaws
    <2> QED BY <1>11, <2>1, <2>3, VanishLaws DEF e
  <1> QED BY <1>1, <1>4, <1>7, <1>13, <1>14 DEF X0, Y0, dX

\* If it fulfils the equation before reduction, it does so after it.
LEMMA ThirdOnCurve ==
  ASSUME NEW x \in F!Scalars, NEW y \in F!Scalars, NEW u \in F!Scalars, NEW v \in F!Scalars,
         NEW l \in F!Scalars, NEW X0 \in Int, NEW Y0 \in Int,
         X0 = ThirdX0(x, u, l), Y0 = ThirdY0(x, y, u, l),
         Vanishes(Y0 * Y0 - (X0 * X0 * X0 + 7))
  PROVE  AddAlong(<<x, y>>, <<u, v>>, l) \in Points \ {Infinity}
  <1>1. PICK X \in F!Scalars, Y \in F!Scalars :
          /\ AddAlong(<<x, y>>, <<u, v>>, l) = <<X, Y>>
          /\ Vanishes(X - X0) /\ Vanishes(Y - Y0)
    BY AlongReduces
  <1>2. X \in Int /\ Y \in Int BY Reduced
  <1> DEFINE e == Y * Y - (X * X * X + 7)
             e0 == Y0 * Y0 - (X0 * X0 * X0 + 7)
             dX == X - X0
             dY == Y - Y0
             a == Y + Y0
             b == X * X + X * X0 + X0 * X0
  <1>3. /\ e \in Int /\ e0 \in Int /\ dX \in Int /\ dY \in Int /\ a \in Int /\ b \in Int
        /\ e = (e0 + dY * a) - dX * b
    BY <1>2
  <1>4. Vanishes(e0) /\ Vanishes(dX) /\ Vanishes(dY) BY <1>1
  <1> HIDE DEF e, e0, dX, dY, a, b
  <1> DEFINE p == dY * a
             q == dX * b
  <1>5. p \in Int /\ q \in Int /\ Vanishes(p) /\ Vanishes(q)
    <2>1. Vanishes(p) BY <1>3, <1>4, VanishLaws
    <2>2. Vanishes(q) BY <1>3, <1>4, VanishLaws
    <2>3. p \in Int /\ q \in Int BY <1>3
    <2> QED BY <2>1, <2>2, <2>3
  <1>6. e = (e0 + p) - q BY <1>3
  <1> HIDE DEF p, q
  <1>7. Vanishes(e0 + p) /\ e0 + p \in Int BY <1>3, <1>4, <1>5, VanishLaws
  <1>8. Vanishes(e) BY <1>5, <1>6, <1>7, VanishLaws
  <1>9. OnCurve(X, Y) BY <1>8, CurveEquation DEF e
  <1> QED BY <1>1, <1>9, PointForm

\* A number that is a coordinate.
LEMMA SmallNumbers ==
  ASSUME NEW k \in 0 .. 3, NEW x \in F!Scalars
  PROVE  F!Mul(k, x) \in F!Scalars /\ Vanishes(F!Mul(k, x) - k * x)
  <1> DEFINE m == k * x
  <1>1. m \in Int
    <2>1. k \in Int /\ x \in Int BY Reduced
    <2> QED BY <2>1
  <1> HIDE DEF m
  <1>2. (m % FieldSize) \in F!Scalars /\ Vanishes((m % FieldSize) - m) BY <1>1, ResidueLaws
  <1> QED BY <1>2 DEF F!Mul, m

\* Doubling divides by 2y, which is not zero, and gives a point.
LEMMA TangentCloses ==
  ASSUME NEW x \in F!Scalars, NEW y \in F!Scalars, OnCurve(x, y)
  PROVE  AddAlong(<<x, y>>, <<x, y>>, Tangent(<<x, y>>)) \in Points \ {Infinity}
  <1> DEFINE xx == F!Mul(x, x)
             n == F!Mul(3, xx)
             d == F!Mul(2, y)
             l == F!Div(n, d)
  <1>1. Tangent(<<x, y>>) = l BY SmallPowers DEF Tangent
  <1>2. x \in Int /\ y \in Int /\ y \in F!NonZero BY Reduced, PointForm
  <1>3. xx \in F!Scalars /\ xx \in Int /\ Vanishes(xx - x * x) BY Reduced
  <1> HIDE DEF xx
  <1>4. n \in F!Scalars /\ n \in Int /\ Vanishes(n - 3 * xx)
    <2>1. n \in F!Scalars /\ Vanishes(n - 3 * xx) BY <1>3, SmallNumbers
    <2> QED BY <2>1, Reduced
  <1>5. d \in F!Scalars /\ d \in Int /\ Vanishes(d - 2 * y)
    <2>1. d \in F!Scalars /\ Vanishes(d - 2 * y) BY SmallNumbers
    <2> QED BY <2>1, Reduced
  <1>6. d \in F!NonZero
    <2>1. FieldSize >= 3 /\ 0 \in F!Scalars /\ 1 \in F!Scalars /\ 2 \in F!NonZero
      BY RootExponent, SameField DEF F!NonZero
    <2>2. K!Mul(2, y) \in K!NonZero
      <3>1. 2 \in K!NonZero /\ y \in K!NonZero BY <1>2, <2>1, SameField
      <3> QED BY <3>1, FieldIsPrime, K!NoZeroDivisors
    <2> QED BY <2>2, SameField
  <1> HIDE DEF n, d
  <1>7. l \in F!Scalars /\ l \in Int /\ Vanishes(l * d - n)
    <2>1. l \in F!Scalars /\ Vanishes(l * d - n) BY <1>4, <1>6, Quotients
    <2> QED BY <2>1, Reduced
  <1> HIDE DEF l
  <1> DEFINE X0 == ThirdX0(x, x, l)
             Y0 == ThirdY0(x, y, x, l)
             e0 == Y0 * Y0 - (X0 * X0 * X0 + 7)
             c == y * y - (x * x * x + 7)
             s == l * (2 * y) - 3 * (x * x)
             w == X0 - x
  <1>8. X0 \in Int /\ Y0 \in Int /\ c \in Int /\ s \in Int /\ w \in Int
    BY <1>2, <1>7 DEF ThirdX0, ThirdY0
  <1>9. e0 = c + s * w
    <2>1. X0 = l * l - (x + x) /\ Y0 = l * (x - X0) - y BY DEF ThirdX0, ThirdY0
    <2> HIDE DEF X0, Y0
    <2> QED BY <1>2, <1>7, <1>8, <2>1, TangentIdentity
  <1>10. Vanishes(c) BY CurveEquation
  <1>11. Vanishes(s)
    <2> DEFINE d1 == l * d - n
               d2 == n - 3 * xx
               d3 == xx - x * x
               d4 == d - 2 * y
    <2>1. d1 \in Int /\ d2 \in Int /\ d3 \in Int /\ d4 \in Int BY <1>2, <1>3, <1>4, <1>5, <1>7
    <2>2. s = ((d1 + d2) + 3 * d3) - l * d4 BY <1>2, <1>3, <1>4, <1>5, <1>7
    <2>3. Vanishes(d1) /\ Vanishes(d2) /\ Vanishes(d3) /\ Vanishes(d4)
      BY <1>3, <1>4, <1>5, <1>7
    <2> HIDE DEF d1, d2, d3, d4, s
    <2> DEFINE a == d1 + d2
               b == 3 * d3
               e == l * d4
    <2>4. Vanishes(a) /\ Vanishes(b) /\ Vanishes(e) /\ a \in Int /\ b \in Int /\ e \in Int
      BY <1>7, <2>1, <2>3, VanishLaws
    <2>5. s = (a + b) - e BY <2>2
    <2> HIDE DEF a, b, e
    <2>6. Vanishes(a + b) /\ a + b \in Int BY <2>4, VanishLaws
    <2> QED BY <2>4, <2>5, <2>6, VanishLaws
  <1> HIDE DEF c, s, w
  <1>12. Vanishes(e0)
    <2> DEFINE q == s * w
    <2>1. Vanishes(q) BY <1>8, <1>11, VanishLaws
    <2>3. q \in Int BY <1>8
    <2>2. e0 = c + q BY <1>9
    <2> HIDE DEF q, e0
    <2> QED BY <1>8, <1>10, <2>1, <2>2, <2>3, VanishLaws
  <1> HIDE DEF X0, Y0
  <1>13. X0 = ThirdX0(x, x, l) /\ Y0 = ThirdY0(x, y, x, l) BY DEF X0, Y0
  <1> QED BY <1>1, <1>7, <1>8, <1>12, <1>13, ThirdOnCurve

\* The chord through two points with different x gives a point.
LEMMA ChordCloses ==
  ASSUME NEW x \in F!Scalars, NEW y \in F!Scalars, NEW u \in F!Scalars, NEW v \in F!Scalars,
         OnCurve(x, y), OnCurve(u, v), x # u
  PROVE  AddAlong(<<x, y>>, <<u, v>>, Chord(<<x, y>>, <<u, v>>)) \in Points \ {Infinity}
  <1> DEFINE n == F!Sub(y, v)
             d == F!Sub(x, u)
             l == F!Div(n, d)
  <1>1. Chord(<<x, y>>, <<u, v>>) = l BY DEF Chord
  <1>2. x \in Int /\ y \in Int /\ u \in Int /\ v \in Int BY Reduced
  <1>3. /\ n \in F!Scalars /\ n \in Int /\ Vanishes(n - (y - v))
        /\ d \in F!Scalars /\ d \in Int /\ Vanishes(d - (x - u))
    BY Reduced
  <1> HIDE DEF n, d
  <1>4. ~ Vanishes(x - u) BY SameCoordinate
  <1>5. d \in F!NonZero
    <2>1. ASSUME d = 0 PROVE FALSE
      <3> DEFINE w == d - (x - u)
      <3>1. w \in Int /\ -w = x - u BY <1>2, <1>3, <2>1
      <3>2. Vanishes(-w)
        <4>1. Vanishes(w) BY <1>3
        <4> HIDE DEF w
        <4> QED BY <3>1, <4>1, VanishLaws
      <3> QED BY <1>4, <3>1, <3>2
    <2> QED BY <1>3, <2>1 DEF F!NonZero
  <1>6. l \in F!Scalars /\ l \in Int /\ Vanishes(l * d - n)
    <2>1. l \in F!Scalars /\ Vanishes(l * d - n) BY <1>3, <1>5, Quotients
    <2> QED BY <2>1, Reduced
  <1> HIDE DEF l
  <1> DEFINE X0 == ThirdX0(x, u, l)
             Y0 == ThirdY0(x, y, u, l)
             e0 == Y0 * Y0 - (X0 * X0 * X0 + 7)
             c == y * y - (x * x * x + 7)
             k == v * v - (u * u * u + 7)
             e == l * (x - u) - (y - v)
             h == x - u
             w1 == X0 - u
             w2 == X0 - x
             r == 2 * (v * e) - e * e - k
  <1>7. /\ X0 \in Int /\ Y0 \in Int /\ c \in Int /\ k \in Int /\ e \in Int /\ h \in Int
        /\ w1 \in Int /\ w2 \in Int /\ r \in Int /\ e0 \in Int
    BY <1>2, <1>6 DEF ThirdX0, ThirdY0
  <1>8. h * e0 = c * w1 + r * w2
    <2>1. X0 = l * l - (x + u) /\ Y0 = l * (x - X0) - y BY DEF ThirdX0, ThirdY0
    <2>2. e \in Int /\ e = l * (x - u) - (y - v) BY <1>7
    <2> HIDE DEF X0, Y0, e
    <2> QED BY <1>2, <1>6, <1>7, <2>1, <2>2, ChordIdentity
  <1>9. Vanishes(c) /\ Vanishes(k) BY CurveEquation
  <1>10. Vanishes(e)
    <2> DEFINE d1 == l * d - n
               d2 == n - (y - v)
               d3 == d - (x - u)
               q == l * d3
    <2>1. d1 \in Int /\ d2 \in Int /\ d3 \in Int BY <1>2, <1>3, <1>6
    <2>2. e = (d1 + d2) - l * d3 BY <1>2, <1>3, <1>6
    <2>3. Vanishes(d1) /\ Vanishes(d2) /\ Vanishes(d3) BY <1>3, <1>6
    <2> HIDE DEF d1, d2, d3, e
    <2>4. Vanishes(d1 + d2) /\ d1 + d2 \in Int /\ Vanishes(q) /\ q \in Int
      BY <1>6, <2>1, <2>3, VanishLaws
    <2>5. e = (d1 + d2) - q BY <2>2
    <2> HIDE DEF q
    <2> QED BY <2>4, <2>5, VanishLaws
  <1>11. Vanishes(r)
    <2> DEFINE t == 2 * v - e
               q == e * t
    <2>1. r = e * t - k /\ t \in Int
      <3> HIDE DEF e, k
      <3> QED BY <1>2, <1>7
    <2> HIDE DEF e, k, t, r
    <2>2. Vanishes(q) BY <1>7, <1>10, <2>1, VanishLaws
    <2>4. q \in Int BY <1>7, <2>1
    <2>3. r = q - k BY <2>1
    <2> HIDE DEF q
    <2> QED BY <1>7, <1>9, <2>2, <2>3, <2>4, VanishLaws
  <1> HIDE DEF c, k, e, h, w1, w2, r, e0
  <1>12. Vanishes(h * e0)
    <2> DEFINE p == c * w1
               q == r * w2
    <2>1. Vanishes(p) /\ p \in Int
      <3>1. Vanishes(p) BY <1>7, <1>9, VanishLaws
      <3>2. p \in Int BY <1>7
      <3> QED BY <3>1, <3>2
    <2>4. Vanishes(q) /\ q \in Int
      <3>1. Vanishes(q) BY <1>7, <1>11, VanishLaws
      <3>2. q \in Int BY <1>7
      <3> QED BY <3>1, <3>2
    <2>2. h * e0 = p + q BY <1>8
    <2> HIDE DEF p, q
    <2>3. Vanishes(p + q) BY <2>1, <2>4, VanishLaws
    <2> QED BY <2>2, <2>3
  <1>13. Vanishes(e0) BY <1>4, <1>7, <1>12, VanishingProduct DEF h
  <1> HIDE DEF X0, Y0
  <1>14. X0 = ThirdX0(x, u, l) /\ Y0 = ThirdY0(x, y, u, l) BY DEF X0, Y0
  <1>15. Vanishes(Y0 * Y0 - (X0 * X0 * X0 + 7)) BY <1>13 DEF e0
  <1> QED BY <1>1, <1>6, <1>7, <1>14, <1>15, ThirdOnCurve


-----------------------------------------------------------------------------
(* Points are closed under the operators of GE.                            *)

\* -P is a point, and another one unless P is infinity.
LEMMA NegPoints ==
  ASSUME NEW A \in Points
  PROVE  /\ NegPoint(A) \in Points /\ NegPoint(NegPoint(A)) = A
         /\ NegPoint(A) = Infinity <=> A = Infinity
         /\ A # Infinity => HasEvenY(A) # HasEvenY(NegPoint(A))
  <1>1. CASE A = Infinity BY <1>1 DEF NegPoint
  <1>2. CASE A # Infinity
    <2>1. PICK x \in F!Scalars, y \in F!NonZero : A = <<x, y>> /\ OnCurve(x, y)
      BY <1>2, PointForm
    <2> DEFINE n == F!Neg(y)
    <2>2. y \in F!Scalars BY DEF F!NonZero
    <2>3. n \in F!NonZero /\ n \in F!Scalars /\ F!Neg(n) = y /\ (y % 2 = 0) # (n % 2 = 0)
      BY OneIsEven DEF F!NonZero
    <2>4. NegPoint(A) = <<x, n>> BY <1>2, <2>1 DEF NegPoint
    <2>5. Power(n, 2) = Power(y, 2) BY <2>2, <2>3, OppositeRoots
    <2> HIDE DEF n
    <2>6. OnCurve(x, n) BY <2>1, <2>5 DEF OnCurve
    <2>7. <<x, n>> \in Points /\ <<x, n>> # Infinity BY <2>3, <2>6, PointForm
    <2>8. NegPoint(<<x, n>>) = <<x, y>> BY <2>3, <2>7 DEF NegPoint
    <2>9. HasEvenY(A) # HasEvenY(NegPoint(A)) BY <2>1, <2>3, <2>4 DEF HasEvenY
    <2> QED BY <1>2, <2>1, <2>4, <2>7, <2>8, <2>9
  <1> QED BY <1>1, <1>2

\* P + Q is a point, and infinity for Q = -P only.
LEMMA AddClosed ==
  ASSUME NEW A \in Points, NEW B \in Points
  PROVE  /\ AddPoints(A, B) \in Points
         /\ AddPoints(A, B) = Infinity <=> B = NegPoint(A)
  <1>1. CASE A = Infinity \/ B = Infinity
    <2>1. NegPoint(A) = Infinity <=> A = Infinity BY NegPoints
    <2> QED BY <1>1, <2>1 DEF AddPoints, NegPoint
  <1>2. CASE A # Infinity /\ B # Infinity
    <2>1. PICK x \in F!Scalars, y \in F!NonZero : A = <<x, y>> /\ OnCurve(x, y)
      BY <1>2, PointForm
    <2>2. PICK u \in F!Scalars, v \in F!NonZero : B = <<u, v>> /\ OnCurve(u, v)
      BY <1>2, PointForm
    <2>3. y \in F!Scalars /\ v \in F!Scalars BY DEF F!NonZero
    <2>4. AddPoints(A, B) = AddFinite(A, B) /\ NegPoint(A) = <<x, F!Neg(y)>>
      BY <1>2, <2>1 DEF AddPoints, NegPoint
    <2>5. CASE x # u
      <3>1. AddFinite(A, B) = AddAlong(A, B, Chord(A, B)) BY <2>1, <2>2, <2>5 DEF AddFinite
      <3>2. AddFinite(A, B) \in Points \ {Infinity}
        BY <2>1, <2>2, <2>3, <2>5, <3>1, ChordCloses
      <3>3. B # NegPoint(A) BY <2>2, <2>4, <2>5
      <3> QED BY <2>4, <3>2, <3>3
    <2>6. CASE x = u /\ y # v
      <3>1. AddFinite(A, B) = Infinity BY <2>1, <2>2, <2>6 DEF AddFinite
      <3>2. Power(v, 2) = Power(y, 2) BY <2>1, <2>2, <2>6 DEF OnCurve
      <3>3. v = F!Neg(y) BY <2>3, <2>6, <3>2, OppositeRoots
      <3> QED BY <2>2, <2>4, <2>6, <3>1, <3>3, PointForm
    <2>7. CASE x = u /\ y = v
      <3>1. AddFinite(A, B) = AddAlong(A, A, Tangent(A))
        BY <2>1, <2>2, <2>7 DEF AddFinite
      <3>2. AddFinite(A, B) \in Points \ {Infinity} BY <2>1, <2>3, <3>1, TangentCloses
      <3>3. F!Neg(y) # y BY OneIsEven
      <3> QED BY <2>2, <2>4, <2>7, <3>2, <3>3
    <2> QED BY <2>5, <2>6, <2>7
  <1> QED BY <1>1, <1>2

\* == subtracts and looks for infinity: it holds of the same point only.
LEMMA EqualIsSame ==
  ASSUME NEW A \in Points, NEW B \in Points
  PROVE  /\ SubPoints(A, B) \in Points
         /\ EqualPoints(A, B) <=> A = B
  <1>1. NegPoint(B) \in Points /\ NegPoint(NegPoint(B)) = B /\ NegPoint(NegPoint(A)) = A
    BY NegPoints
  <1>2. /\ AddPoints(A, NegPoint(B)) \in Points
        /\ AddPoints(A, NegPoint(B)) = Infinity <=> NegPoint(B) = NegPoint(A)
    BY <1>1, AddClosed
  <1>3. NegPoint(B) = NegPoint(A) <=> A = B BY <1>1
  <1> QED BY <1>2, <1>3 DEF SubPoints, EqualPoints

\* lift_x of the x coordinate: the point or its negative, the one with even y.
LEMMA XonlyNamesEvenPoint ==
  ASSUME NEW A \in Points, A # Infinity
  PROVE  FromBytesXonly(ToBytesXonly(A)) = IF HasEvenY(A) THEN A ELSE NegPoint(A)
  <1>1. PICK x \in F!Scalars, y \in F!NonZero : A = <<x, y>> /\ OnCurve(x, y) BY PointForm
  <1>2. y \in F!Scalars BY DEF F!NonZero
  <1>3. InField(x) BY Reduced DEF InField
  <1>4. (x % FieldSize) = x BY FieldIsPrime, K!SmallResidue, SameField
  <1>5. FromBytesXonly(ToBytesXonly(A)) = LiftX(x)
    BY <1>1, <1>3, <1>4 DEF FromBytesXonly, ToBytesXonly
  <1>6. LiftX(x) = <<x, EvenRoot(y)>> BY <1>1, <1>2, LiftXFinds
  <1>7. EvenRoot(y) = IF y % 2 = 0 THEN y ELSE F!Neg(y) BY OneIsEven
  <1>8. HasEvenY(A) <=> y % 2 = 0 BY <1>1 DEF HasEvenY
  <1>9. NegPoint(A) = <<x, F!Neg(y)>> BY <1>1 DEF NegPoint
  <1> QED BY <1>1, <1>5, <1>6, <1>7, <1>8, <1>9

\* G is a point, and not infinity.
LEMMA BaseIsPoint == G \in Points \ {Infinity}
  <1>1. BaseX \in F!Scalars /\ IsValidX(BaseX) BY BaseAssumption
  <1>2. PICK y \in F!Scalars : OnCurve(BaseX, y) BY <1>1, LiftXFinds
  <1>3. G = <<BaseX, EvenRoot(y)>> BY <1>1, <1>2, LiftXFinds DEF G
  <1>4. y \in F!NonZero BY <1>1, <1>2, PointForm
  <1> DEFINE A == <<BaseX, y>>
  <1>5. A \in Points /\ A # Infinity BY <1>1, <1>2, PointForm
  <1>6. NegPoint(A) \in Points /\ NegPoint(A) # Infinity BY <1>5, NegPoints
  <1>7. NegPoint(A) = <<BaseX, F!Neg(y)>> BY <1>5 DEF NegPoint
  <1>8. G = A \/ G = NegPoint(A) BY <1>3, <1>4, <1>7, OneIsEven
  <1> QED BY <1>5, <1>6, <1>8

-----------------------------------------------------------------------------
(* The parsers.                                                            *)

\* The failure value is no point.
LEMMA FailureIsNoPoint ==
  /\ ValueError \notin Points
  /\ \A x \in F!Scalars, y \in F!Scalars : <<x, y>> # ValueError
  <1>1. ASSUME NEW x \in F!Scalars, NEW y \in F!Scalars PROVE <<x, y>> # ValueError
    <2>1. Len(<<x, y>>) = 2 /\ Len(ValueError) = 1 BY DEF ValueError
    <2> QED BY <2>1
  <1>2. Infinity # ValueError
    <2>1. Len(Infinity) = 0 /\ Len(ValueError) = 1 BY DEF Infinity, ValueError
    <2> QED BY <2>1
  <1>3. ASSUME ValueError \in Points PROVE FALSE
    <2>1. PICK x \in F!Scalars, y \in F!NonZero : ValueError = <<x, y>>
      BY <1>2, <1>3, PointForm
    <2>2. y \in F!Scalars BY DEF F!NonZero
    <2> QED BY <1>1, <2>1, <2>2
  <1> QED BY <1>1, <1>3

\* The x-only parser finds the even point of a number that is the x of a point,
\* and nothing for another one.
LEMMA XonlyParse ==
  ASSUME NEW x \in Numbers
  PROVE  LET R == FromBytesXonly(<<x>>) IN
         /\ R # ValueError => R \in Points \ {Infinity} /\ R[1] = x /\ HasEvenY(R)
         /\ R # ValueError <=> InField(x) /\ IsValidX(x)
         /\ \A A \in Points \ {Infinity} :
              A[1] = x => R # ValueError /\ R = IF HasEvenY(A) THEN A ELSE NegPoint(A)
  <1> DEFINE R == FromBytesXonly(<<x>>)
  <1>1. x \in Nat /\ FieldSize \in Nat
    BY ProgramsAssumption, RootExponent DEF Numbers
  <1>2. ASSUME NEW A \in Points \ {Infinity}, A[1] = x
        PROVE  R # ValueError /\ R = IF HasEvenY(A) THEN A ELSE NegPoint(A)
    <2>1. R = FromBytesXonly(ToBytesXonly(A)) BY <1>2 DEF ToBytesXonly
    <2>2. R = IF HasEvenY(A) THEN A ELSE NegPoint(A) BY <2>1, XonlyNamesEvenPoint
    <2>3. R \in Points BY <2>2, NegPoints
    <2> QED BY <2>2, <2>3, FailureIsNoPoint
  <1>3. CASE ~ InField(x)
    <2>1. R = ValueError BY <1>3 DEF FromBytesXonly
    <2> QED BY <1>2, <1>3, <2>1
  <1>4. CASE InField(x)
    <2>1. x \in F!Scalars BY <1>1, <1>4, SameField DEF InField
    <2>2. (x % FieldSize) = x BY <2>1, FieldIsPrime, K!SmallResidue, SameField
    <2>3. R = LiftX(x) BY <1>4, <2>2 DEF FromBytesXonly
    <2>4. ASSUME IsValidX(x)
          PROVE  R \in Points \ {Infinity} /\ R[1] = x /\ HasEvenY(R)
      <3>1. PICK y \in F!Scalars : OnCurve(x, y) BY <2>1, <2>4, LiftXFinds
      <3> DEFINE A == <<x, y>>
      <3>2. A \in Points \ {Infinity} /\ A[1] = x /\ y \in F!NonZero BY <2>1, <3>1, PointForm
      <3>3. R = <<x, EvenRoot(y)>> BY <2>1, <2>3, <3>1, LiftXFinds
      <3>4. EvenRoot(y) % 2 = 0 BY <3>2, OneIsEven
      <3> HIDE DEF A
      <3>5. R \in Points \ {Infinity} BY <1>2, <3>2, NegPoints
      <3> QED BY <3>3, <3>4, <3>5 DEF HasEvenY
    <2>5. ~ IsValidX(x) => R = ValueError BY <2>1, <2>3, LiftXFinds
    <2>6. R \in Points => R # ValueError BY FailureIsNoPoint
    <2> HIDE DEF R
    <2> QED BY <1>2, <1>4, <2>4, <2>5, <2>6 DEF R
  <1> QED BY <1>3, <1>4

\* The compressed parser inverts to_bytes_compressed, and fails on what that
\* never writes.
LEMMA CompressedParse ==
  ASSUME NEW b \in Compressed
  PROVE  LET R == FromBytesCompressed(b) IN
         /\ R # ValueError => R \in Points \ {Infinity} /\ ToBytesCompressed(R) = b
         /\ \A A \in Points \ {Infinity} : ToBytesCompressed(A) = b => R = A
  <1> DEFINE R == FromBytesCompressed(b)
  <1>1. PICK t \in Tags, x \in Numbers : b = <<t, x>> BY DEF Compressed
  <1> DEFINE E == FromBytesXonly(<<x>>)
  <1>2. /\ E # ValueError => E \in Points \ {Infinity} /\ E[1] = x /\ HasEvenY(E)
        /\ \A A \in Points \ {Infinity} :
             A[1] = x => E # ValueError /\ E = IF HasEvenY(A) THEN A ELSE NegPoint(A)
    BY XonlyParse
  <1>3. R = IF t \in {2, 3} THEN WithTag(t, E) ELSE ValueError
    BY <1>1 DEF FromBytesCompressed
  <1> HIDE DEF R, E
  <1>4. ASSUME R # ValueError
        PROVE  R \in Points \ {Infinity} /\ ToBytesCompressed(R) = b
    <2>1. t \in {2, 3} /\ E # ValueError BY <1>3, <1>4 DEF WithTag
    <2>2. E \in Points \ {Infinity} /\ E[1] = x /\ HasEvenY(E) BY <1>2, <2>1
    <2>3. NegPoint(E) \in Points \ {Infinity} /\ ~ HasEvenY(NegPoint(E)) /\ NegPoint(E)[1] = x
      <3>1. NegPoint(E)[1] = E[1] BY <2>2 DEF NegPoint
      <3> QED BY <2>2, <3>1, NegPoints
    <2>4. CASE t = 2
      <3>1. R = E BY <1>3, <2>1, <2>4 DEF WithTag
      <3> QED BY <1>1, <2>2, <2>4, <3>1 DEF ToBytesCompressed
    <2>5. CASE t = 3
      <3>1. R = NegPoint(E) BY <1>3, <2>1, <2>5 DEF WithTag
      <3> QED BY <1>1, <2>3, <2>5, <3>1 DEF ToBytesCompressed
    <2> QED BY <2>1, <2>4, <2>5
  <1>5. ASSUME NEW A \in Points \ {Infinity}, ToBytesCompressed(A) = b
        PROVE  R = A
    <2>1. t = (IF HasEvenY(A) THEN 2 ELSE 3) /\ A[1] = x BY <1>1, <1>5 DEF ToBytesCompressed
    <2>2. E # ValueError /\ E = IF HasEvenY(A) THEN A ELSE NegPoint(A) BY <1>2, <2>1
    <2>3. NegPoint(NegPoint(A)) = A BY NegPoints
    <2>4. R = WithTag(t, E) BY <1>3, <2>1
    <2> QED BY <2>1, <2>2, <2>3, <2>4 DEF WithTag
  <1> QED BY <1>4, <1>5 DEF R

\* So does the uncompressed parser, whose coordinates must be on the curve.
LEMMA UncompressedParse ==
  ASSUME NEW t \in Tags, NEW x \in Numbers, NEW y \in Numbers
  PROVE  LET R == FromBytesUncompressed(<<t, x, y>>) IN
         /\ R # ValueError => R \in Points \ {Infinity} /\ ToBytesUncompressed(R) = <<t, x, y>>
         /\ \A A \in Points \ {Infinity} : ToBytesUncompressed(A) = <<t, x, y>> => R = A
  <1> DEFINE R == FromBytesUncompressed(<<t, x, y>>)
  <1>1. x \in Nat /\ y \in Nat /\ FieldSize \in Nat
    BY ProgramsAssumption, RootExponent DEF Numbers
  <1>2. R = IF t = 4 /\ InField(x) /\ InField(y) /\ OnCurve(x, y) THEN <<x, y>> ELSE ValueError
    BY DEF FromBytesUncompressed
  <1> HIDE DEF R
  <1>3. ASSUME R # ValueError
        PROVE  R \in Points \ {Infinity} /\ ToBytesUncompressed(R) = <<t, x, y>>
    <2>1. R = <<x, y>> /\ t = 4 /\ InField(x) /\ InField(y) /\ OnCurve(x, y) BY <1>2, <1>3
    <2>2. x \in F!Scalars /\ y \in F!Scalars BY <1>1, <2>1, SameField DEF InField
    <2> QED BY <2>1, <2>2, PointForm DEF ToBytesUncompressed
  <1>4. ASSUME NEW A \in Points \ {Infinity}, ToBytesUncompressed(A) = <<t, x, y>>
        PROVE  R = A
    <2>1. PICK u \in F!Scalars, v \in F!NonZero : A = <<u, v>> /\ OnCurve(u, v) BY PointForm
    <2>2. t = 4 /\ x = u /\ y = v BY <1>4, <2>1 DEF ToBytesUncompressed
    <2>3. v \in F!Scalars BY DEF F!NonZero
    <2>4. InField(x) /\ InField(y) BY <2>2, <2>3, Reduced DEF InField
    <2> QED BY <1>2, <2>1, <2>2, <2>4
  <1> QED BY <1>3, <1>4 DEF R

\* What the program reads is what one of the parsers makes of the bytes it was
\* handed.
ParsingInv ==
  /\ input \in {NoInput} \cup Inputs
  /\ parsed \in {Pending, Parse(input)}
  /\ input = NoInput => parsed = Pending

\* The bytes that each parser is handed.
LEMMA InputForms ==
  ASSUME NEW in \in Inputs
  PROVE  \/ in.parser = "with_infinity" /\ in.bytes \in Compressed
         \/ /\ in.parser = "any_length"
            /\ in.bytes \in Compressed \cup ({2, 4} \X Numbers \X Numbers)
         \/ in.parser = "xonly" /\ in.bytes \in {<<x>> : x \in Numbers}
  <1>1. PICK p \in DOMAIN Wire : in \in [parser : {p}, bytes : Wire[p]] BY DEF Inputs
  <1>2. in.parser = p /\ in.bytes \in Wire[p] BY <1>1
  <1>3. p \in {"with_infinity", "any_length", "xonly"} BY DEF Wire
  <1>4. /\ Wire["with_infinity"] = Compressed
        /\ Wire["any_length"] = Compressed \cup ({2, 4} \X Numbers \X Numbers)
        /\ Wire["xonly"] = {<<x>> : x \in Numbers}
    BY DEF Wire
  <1> QED BY <1>2, <1>3, <1>4

\* The parser of 33 bytes that may stand for infinity.
LEMMA WithInfinityParse ==
  ASSUME NEW b \in Compressed
  PROVE  LET R == FromBytesCompressedWithInfinity(b) IN
         /\ R # ValueError => R \in Points /\ ToBytesCompressedWithInfinity(R) = b
         /\ \A A \in Points : ToBytesCompressedWithInfinity(A) = b => R # ValueError
  <1> DEFINE R == FromBytesCompressedWithInfinity(b)
             C == FromBytesCompressed(b)
  <1>1. /\ C # ValueError => C \in Points \ {Infinity} /\ ToBytesCompressed(C) = b
        /\ \A A \in Points \ {Infinity} : ToBytesCompressed(A) = b => C = A
    BY CompressedParse
  <1>2. R = IF b = ZeroBytes THEN Infinity ELSE C BY DEF FromBytesCompressedWithInfinity
  <1>3. Infinity \in Points /\ ValueError \notin Points BY PointForm, FailureIsNoPoint
  <1>4. \A A : ToBytesCompressed(A) # ZeroBytes BY DEF ToBytesCompressed, ZeroBytes
  <1> HIDE DEF R, C
  <1>5. ASSUME R # ValueError PROVE R \in Points /\ ToBytesCompressedWithInfinity(R) = b
    BY <1>1, <1>2, <1>3, <1>5 DEF ToBytesCompressedWithInfinity
  <1>6. ASSUME NEW A \in Points, ToBytesCompressedWithInfinity(A) = b PROVE R # ValueError
    <2>1. CASE A = Infinity
      BY <1>2, <1>3, <1>6, <2>1 DEF ToBytesCompressedWithInfinity
    <2>2. CASE A # Infinity
      <3>1. ToBytesCompressed(A) = b BY <1>6, <2>2 DEF ToBytesCompressedWithInfinity
      <3>2. b # ZeroBytes BY <1>4, <3>1
      <3> QED BY <1>1, <1>2, <1>3, <2>2, <3>1, <3>2
    <2> QED BY <2>1, <2>2
  <1> QED BY <1>5, <1>6 DEF R

\* The parser that tells the two forms apart by their length.
LEMMA AnyLengthParse ==
  ASSUME NEW b \in Compressed \cup ({2, 4} \X Numbers \X Numbers)
  PROVE  LET R == FromBytes(b) IN
         /\ R # ValueError => /\ R \in Points \ {Infinity}
                              /\ b \in {ToBytesCompressed(R), ToBytesUncompressed(R)}
         /\ \A A \in Points \ {Infinity} :
              b \in {ToBytesCompressed(A), ToBytesUncompressed(A)} => R # ValueError
  <1>1. ValueError \notin Points BY FailureIsNoPoint
  <1>2. \A A : Len(ToBytesCompressed(A)) = 2 /\ Len(ToBytesUncompressed(A)) = 3
    BY DEF ToBytesCompressed, ToBytesUncompressed
  <1>3. CASE b \in Compressed
    <2>1. Len(b) = 2 BY <1>3 DEF Compressed
    <2>2. FromBytes(b) = FromBytesCompressed(b) BY <2>1 DEF FromBytes
    <2>3. \A A : b # ToBytesUncompressed(A)
      <3>1. 2 # 3 OBVIOUS
      <3> QED BY <1>2, <2>1, <3>1
    <2> QED BY <1>1, <1>3, <2>2, <2>3, CompressedParse
  <1>4. CASE b \in {2, 4} \X Numbers \X Numbers
    <2>1. PICK t \in {2, 4}, x \in Numbers, y \in Numbers : b = <<t, x, y>> BY <1>4
    <2>2. Len(b) = 3 /\ t \in Tags BY <2>1 DEF Tags
    <2>3. FromBytes(b) = FromBytesUncompressed(b) BY <2>2 DEF FromBytes
    <2>4. \A A : b # ToBytesCompressed(A)
      <3>1. 2 # 3 OBVIOUS
      <3> QED BY <1>2, <2>2, <3>1
    <2> QED BY <1>1, <2>1, <2>2, <2>3, <2>4, UncompressedParse
  <1> QED BY <1>3, <1>4

\* The property, of what a parser makes of an input.
LEMMA ParsersInvert ==
  ASSUME input \in Inputs, parsed = Parse(input)
  PROVE  ParsesExactlyEncodings
  <1>1. CASE input.parser = "with_infinity" /\ input.bytes \in Compressed
    <2>1. parsed = FromBytesCompressedWithInfinity(input.bytes) BY <1>1 DEF Parse
    <2>2. \A R : Written(R) = {ToBytesCompressedWithInfinity(R)} BY <1>1 DEF Written
    <2>3. /\ parsed # ValueError => /\ parsed \in Points
                                    /\ ToBytesCompressedWithInfinity(parsed) = input.bytes
          /\ \A A \in Points : ToBytesCompressedWithInfinity(A) = input.bytes
                               => parsed # ValueError
      BY <1>1, <2>1, WithInfinityParse
    <2> QED BY <1>1, <2>2, <2>3 DEF ParsesExactlyEncodings
  <1>2. CASE /\ input.parser = "any_length"
             /\ input.bytes \in Compressed \cup ({2, 4} \X Numbers \X Numbers)
    <2>1. parsed = FromBytes(input.bytes) BY <1>2 DEF Parse
    <2>2. \A R : Written(R) = IF R = Infinity THEN {}
                              ELSE {ToBytesCompressed(R), ToBytesUncompressed(R)}
      BY <1>2 DEF Written
    <2>3. /\ parsed # ValueError =>
               /\ parsed \in Points \ {Infinity}
               /\ input.bytes \in {ToBytesCompressed(parsed), ToBytesUncompressed(parsed)}
          /\ \A A \in Points \ {Infinity} :
               input.bytes \in {ToBytesCompressed(A), ToBytesUncompressed(A)}
               => parsed # ValueError
      BY <1>2, <2>1, AnyLengthParse
    <2> QED BY <1>2, <2>2, <2>3 DEF ParsesExactlyEncodings
  <1>3. CASE input.parser = "xonly" /\ input.bytes \in {<<x>> : x \in Numbers}
    <2>1. PICK x \in Numbers : input.bytes = <<x>> BY <1>3
    <2>2. parsed = FromBytesXonly(<<x>>) BY <1>3, <2>1 DEF Parse
    <2>3. \A R : Written(R) = IF R = Infinity THEN {} ELSE {<<R[1]>>}
      BY <1>3 DEF Written, ToBytesXonly
    <2>4. /\ parsed # ValueError => /\ parsed \in Points \ {Infinity} /\ parsed[1] = x
                                    /\ HasEvenY(parsed)
          /\ parsed # ValueError <=> InField(x) /\ IsValidX(x)
          /\ \A A \in Points \ {Infinity} : A[1] = x => parsed # ValueError
      BY <2>2, XonlyParse
    <2>5. \A R : <<x>> = <<R[1]>> <=> x = R[1] OBVIOUS
    <2>6. <<x>>[1] = x OBVIOUS
    <2>7. IF \E R \in Points : input.bytes \in Written(R)
          THEN parsed \in Points /\ input.bytes \in Written(parsed)
          ELSE parsed = ValueError
      BY <2>1, <2>3, <2>4, <2>5
    <2> QED BY <2>1, <2>4, <2>6, <2>7 DEF ParsesExactlyEncodings
  <1> QED BY <1>1, <1>2, <1>3, InputForms

\* A parser accepts exactly what some point is written as, for every field and
\* every excess of the numbers on the wire.
THEOREM ParsingTheorem == Spec => []ParsesExactlyEncodings
  <1>1. Init => ParsingInv BY DEF Init, ParsingInv
  <1>2. ParsingInv /\ [Next]_vars => ParsingInv'
    <2> SUFFICES ASSUME ParsingInv, [Next]_vars PROVE ParsingInv' OBVIOUS
    <2>1. CASE Arithmetic
      BY <2>1 DEF Arithmetic, ParsingInv
    <2>2. CASE Parsing
      <3>1. input' = input /\ parsed' = Parse(input) /\ input # NoInput
        BY <2>2 DEF Parsing
      <3> QED BY <3>1 DEF ParsingInv
    <2>3. CASE UNCHANGED vars BY <2>3 DEF vars, ParsingInv
    <2> QED BY <2>1, <2>2, <2>3 DEF Next
  <1>3. ParsingInv => ParsesExactlyEncodings
    <2> SUFFICES ASSUME ParsingInv, parsed # Pending PROVE ParsesExactlyEncodings
      BY DEF ParsesExactlyEncodings
    <2>1. input \in Inputs /\ parsed = Parse(input) BY DEF ParsingInv
    <2> QED BY <2>1, ParsersInvert
  <1> QED BY <1>1, <1>2, <1>3, PTL DEF Spec

-----------------------------------------------------------------------------
(* The loops of the multiplications, round by round.                       *)

\* a >> i, bit by bit.
LEMMA ShiftRounds ==
  ASSUME NEW a \in Nat, NEW n \in Nat
  PROVE  \E after \in [0 .. n -> Nat] :
           /\ after[0] = a
           /\ \A m \in 1 .. n : after[m] = after[m - 1] \div 2
           /\ \A m \in 0 .. n : ShiftRight(a, m) = after[m]
  <1> DEFINE V == Nat
             h == [i \in 1 .. n |-> [v \in V |-> v \div 2]]
  <1>1. a \in V OBVIOUS
  <1>2. \A v \in V : v \div 2 \in V OBVIOUS
  <1>3. h \in [1 .. n -> [V -> V]] BY <1>2
  <1> HIDE DEF V
  <1>4. PICK after \in [0 .. n -> V] :
          Rounds(after, n, a, h) /\ Folded(after, n, V, a, h)
    <2> HIDE DEF h
    <2> QED BY <1>1, <1>3, LoopRuns
  <1>5. ASSUME NEW m \in 1 .. n PROVE after[m] = after[m - 1] \div 2
    <2>1. after[m] = h[m][after[m - 1]] BY <1>4 DEF Rounds
    <2>2. m - 1 \in 0 .. n OBVIOUS
    <2> QED BY <2>1, <2>2
  <1>6. ASSUME NEW m \in 0 .. n PROVE ShiftRight(a, m) = after[m]
    <2> DEFINE D == [i \in 1 .. m |-> i]
               Fold(k) == k = [s \in SUBSET DOMAIN D |->
                                 IF s = {} THEN a ELSE k[s \ {Max(s)}] \div 2]
    <2>1. PICK q \in [SUBSET (1 .. m) -> V] : Loop(q, m, a, h) /\ q[1 .. m] = after[m]
      BY <1>4 DEF Folded
    <2>2. ShiftRight(a, m) = (CHOOSE k : Fold(k))[DOMAIN D]
      BY DEF ShiftRight, FoldLeft, MapThenFoldSet
    <2>3. DOMAIN D = 1 .. m OBVIOUS
    <2>4. ASSUME NEW s \in SUBSET (1 .. m), s # {}
          PROVE  q[s] = q[s \ {Max(s)}] \div 2
      <3>1. Max(s) \in s /\ q[s] = h[Max(s)][q[s \ {Max(s)}]] BY <2>1, <2>4 DEF Loop
      <3>2. \A i \in 1 .. m : i \in 1 .. n OBVIOUS
      <3>3. Max(s) \in 1 .. n BY <2>4, <3>1, <3>2
      <3>4. q[s \ {Max(s)}] \in V BY <2>1
      <3> QED BY <3>1, <3>3, <3>4
    <2> HIDE DEF D, h
    <2>5. q = [s \in SUBSET (1 .. m) |-> q[s]] /\ q[{}] = a BY <2>1 DEF Loop
    <2>6. Fold(q) BY <2>3, <2>4, <2>5
    <2>7. ASSUME NEW k, Fold(k) PROVE k = q
      <3>1. k = [s \in SUBSET (1 .. m) |-> k[s]] /\ k[{}] = a BY <2>3, <2>7
      <3>2. \A s \in SUBSET (1 .. m) : s # {} => k[s] = k[s \ {Max(s)}] \div 2
        BY <2>3, <2>7
      <3>3. \A s \in SUBSET (1 .. m) :
              s # {} /\ k[s \ {Max(s)}] = q[s \ {Max(s)}] => k[s] = q[s]
        BY <2>4, <3>2
      <3>4. m \in Nat OBVIOUS
      <3> QED BY <2>1, <3>1, <3>3, <3>4, LoopIsUnique
    <2> HIDE DEF Fold
    <2>8. (CHOOSE k : Fold(k)) = q BY <2>6, <2>7
    <2> QED BY <2>1, <2>2, <2>3, <2>8
  <1>7. after[0] = a BY <1>4 DEF Rounds
  <1> QED BY <1>5, <1>6, <1>7 DEF V

\* A, A + A, A + A + A, ...
Times(A, k) == FoldLeft(LAMBDA r, i : AddPoints(r, A), Infinity, [i \in 1 .. k |-> i])

\* ... by repeated addition.
LEMMA TimesRounds ==
  ASSUME NEW A \in Points, NEW n \in Nat
  PROVE  \E after \in [0 .. n -> Points] :
           /\ after[0] = Infinity
           /\ \A m \in 1 .. n : after[m] = AddPoints(after[m - 1], A)
           /\ \A m \in 0 .. n : Times(A, m) = after[m]
  <1> DEFINE V == Points
             h == [i \in 1 .. n |-> [v \in V |-> AddPoints(v, A)]]
  <1>1. Infinity \in V BY PointForm
  <1>2. \A v \in V : AddPoints(v, A) \in V BY AddClosed
  <1>3. h \in [1 .. n -> [V -> V]] BY <1>2
  <1> HIDE DEF V
  <1>4. PICK after \in [0 .. n -> V] :
          Rounds(after, n, Infinity, h) /\ Folded(after, n, V, Infinity, h)
    <2> HIDE DEF h
    <2> QED BY <1>1, <1>3, LoopRuns
  <1>5. ASSUME NEW m \in 1 .. n PROVE after[m] = AddPoints(after[m - 1], A)
    <2>1. after[m] = h[m][after[m - 1]] BY <1>4 DEF Rounds
    <2>2. m - 1 \in 0 .. n OBVIOUS
    <2> QED BY <2>1, <2>2
  <1>6. ASSUME NEW m \in 0 .. n PROVE Times(A, m) = after[m]
    <2> DEFINE D == [i \in 1 .. m |-> i]
               Fold(k) == k = [s \in SUBSET DOMAIN D |->
                                 IF s = {} THEN Infinity ELSE AddPoints(k[s \ {Max(s)}], A)]
    <2>1. PICK q \in [SUBSET (1 .. m) -> V] : Loop(q, m, Infinity, h) /\ q[1 .. m] = after[m]
      BY <1>4 DEF Folded
    <2>2. Times(A, m) = (CHOOSE k : Fold(k))[DOMAIN D]
      BY DEF Times, FoldLeft, MapThenFoldSet
    <2>3. DOMAIN D = 1 .. m OBVIOUS
    <2>4. ASSUME NEW s \in SUBSET (1 .. m), s # {}
          PROVE  q[s] = AddPoints(q[s \ {Max(s)}], A)
      <3>1. Max(s) \in s /\ q[s] = h[Max(s)][q[s \ {Max(s)}]] BY <2>1, <2>4 DEF Loop
      <3>2. \A i \in 1 .. m : i \in 1 .. n OBVIOUS
      <3>3. Max(s) \in 1 .. n BY <2>4, <3>1, <3>2
      <3>4. q[s \ {Max(s)}] \in V BY <2>1
      <3> QED BY <3>1, <3>3, <3>4
    <2> HIDE DEF D, h
    <2>5. q = [s \in SUBSET (1 .. m) |-> q[s]] /\ q[{}] = Infinity BY <2>1 DEF Loop
    <2>6. Fold(q) BY <2>3, <2>4, <2>5
    <2>7. ASSUME NEW k, Fold(k) PROVE k = q
      <3>1. k = [s \in SUBSET (1 .. m) |-> k[s]] /\ k[{}] = Infinity BY <2>3, <2>7
      <3>2. \A s \in SUBSET (1 .. m) : s # {} => k[s] = AddPoints(k[s \ {Max(s)}], A)
        BY <2>3, <2>7
      <3>3. \A s \in SUBSET (1 .. m) :
              s # {} /\ k[s \ {Max(s)}] = q[s \ {Max(s)}] => k[s] = q[s]
        BY <2>4, <3>2
      <3>4. m \in Nat OBVIOUS
      <3> QED BY <2>1, <3>1, <3>3, <3>4, LoopIsUnique
    <2> HIDE DEF Fold
    <2>8. (CHOOSE k : Fold(k)) = q BY <2>6, <2>7
    <2> QED BY <2>1, <2>2, <2>3, <2>8
  <1>7. after[0] = Infinity BY <1>4 DEF Rounds
  <1> QED BY <1>5, <1>6, <1>7 DEF V

\* The bodies of the loops.
WithBit(r, ap, bit) == IF Bit(ap[1], bit) THEN AddPoints(r, ap[2]) ELSE r
WithEntry(r, table, a, i) == IF Bit(a, i - 1) THEN AddPoints(r, table[i]) ELSE r
WithRound(r, aps, bit) == AddSet(AddPoints(r, r), aps, bit)
WithDouble(t) == Append(t, AddPoints(Last(t), Last(t)))
WithNext(t) == Append(t, AddPoints(Last(t), G))

\* One bit of every multiplier.
LEMMA AddSetRounds ==
  ASSUME NEW r \in Points, NEW aps \in Seq(Int \X Points), NEW bit \in Nat
  PROVE  \E after \in [0 .. Len(aps) -> Points] :
           /\ after[0] = r
           /\ \A m \in 1 .. Len(aps) : after[m] = WithBit(after[m - 1], aps[m], bit)
           /\ AddSet(r, aps, bit) = after[Len(aps)]
  <1> DEFINE n == Len(aps)
             V == Points
             h == [i \in 1 .. n |-> [v \in V |-> WithBit(v, aps[i], bit)]]
  <1>0. n \in Nat OBVIOUS
  <1>1. r \in V OBVIOUS
  <1>2. \A i \in 1 .. n : \A v \in V : WithBit(v, aps[i], bit) \in V
    BY AddClosed DEF WithBit
  <1>3. h \in [1 .. n -> [V -> V]] BY <1>2
  <1> HIDE DEF V, n
  <1>4. PICK after \in [0 .. n -> V] :
          Rounds(after, n, r, h) /\ Folded(after, n, V, r, h)
    <2> HIDE DEF h
    <2> QED BY <1>0, <1>1, <1>3, LoopRuns
  <1>5. ASSUME NEW m \in 1 .. n PROVE after[m] = WithBit(after[m - 1], aps[m], bit)
    <2>1. after[m] = h[m][after[m - 1]] BY <1>4 DEF Rounds
    <2>2. m - 1 \in 0 .. n BY <1>0
    <2> QED BY <2>1, <2>2
  <1>6. AddSet(r, aps, bit) = after[n]
    <2> DEFINE D == aps
               Fold(k) == k = [s \in SUBSET DOMAIN D |->
                                 IF s = {} THEN r
                                 ELSE WithBit(k[s \ {Max(s)}], D[Max(s)], bit)]
    <2>1. PICK q \in [SUBSET (1 .. n) -> V] : Loop(q, n, r, h) /\ q[1 .. n] = after[n]
      <3>1. n \in 0 .. n BY <1>0
      <3> QED BY <1>4, <3>1 DEF Folded
    <2>2. AddSet(r, aps, bit) = (CHOOSE k : Fold(k))[DOMAIN D]
      BY DEF AddSet, WithBit, FoldLeft, MapThenFoldSet, n
    <2>3. DOMAIN D = 1 .. n BY <1>0 DEF n
    <2>4. ASSUME NEW s \in SUBSET (1 .. n), s # {}
          PROVE  Max(s) \in 1 .. n /\ q[s] = WithBit(q[s \ {Max(s)}], aps[Max(s)], bit)
      <3>1. Max(s) \in s /\ q[s] = h[Max(s)][q[s \ {Max(s)}]] BY <2>1, <2>4 DEF Loop
      <3>2. q[s \ {Max(s)}] \in V BY <2>1
      <3> QED BY <3>1, <3>2
    <2>5. \A i \in 1 .. n : \A v : WithBit(v, D[i], bit) = WithBit(v, aps[i], bit)
      BY DEF n
    <2> HIDE DEF D, h
    <2>6. q = [s \in SUBSET (1 .. n) |-> q[s]] /\ q[{}] = r BY <2>1 DEF Loop
    <2>7. Fold(q)
      <3>1. \A s \in SUBSET (1 .. n) : s # {} => q[s] = WithBit(q[s \ {Max(s)}], D[Max(s)], bit)
        BY <2>4, <2>5
      <3> QED BY <2>3, <2>6, <3>1
    <2>8. ASSUME NEW k, Fold(k) PROVE k = q
      <3>1. k = [s \in SUBSET (1 .. n) |-> k[s]] /\ k[{}] = r BY <2>3, <2>8
      <3>2. \A s \in SUBSET (1 .. n) : s # {} => k[s] = WithBit(k[s \ {Max(s)}], D[Max(s)], bit)
        BY <2>3, <2>8
      <3>3. ASSUME NEW s \in SUBSET (1 .. n), s # {}, k[s \ {Max(s)}] = q[s \ {Max(s)}]
            PROVE  k[s] = q[s]
        <4>1. k[s] = WithBit(k[s \ {Max(s)}], aps[Max(s)], bit) BY <2>4, <2>5, <3>2, <3>3
        <4> QED BY <2>4, <3>3, <4>1
      <3> QED BY <1>0, <2>1, <3>1, <3>3, LoopIsUnique
    <2> HIDE DEF Fold
    <2>9. (CHOOSE k : Fold(k)) = q BY <2>7, <2>8
    <2> QED BY <2>1, <2>2, <2>3, <2>9
  <1>7. after[0] = r BY <1>4 DEF Rounds
  <1> QED BY <1>5, <1>6, <1>7 DEF V, n

\* The set bits add points only.
LEMMA AddSetClosed ==
  ASSUME NEW r \in Points, NEW aps \in Seq(Int \X Points), NEW bit \in Nat
  PROVE  AddSet(r, aps, bit) \in Points
  <1>1. Len(aps) \in 0 .. Len(aps) OBVIOUS
  <1>2. PICK after \in [0 .. Len(aps) -> Points] : AddSet(r, aps, bit) = after[Len(aps)]
    BY AddSetRounds
  <1> QED BY <1>1, <1>2

\* Double-and-add from the high bit down.
LEMMA BatchMulRounds ==
  ASSUME NEW aps \in Seq(Int \X Points)
  PROVE  \E after \in [0 .. BitWidth -> Points] :
           /\ after[0] = Infinity
           /\ \A m \in 1 .. BitWidth : after[m] = WithRound(after[m - 1], aps, BitWidth - m)
           /\ BatchMul(aps) = after[BitWidth]
  <1> DEFINE n == BitWidth
             V == Points
             h == [i \in 1 .. n |-> [v \in V |-> WithRound(v, aps, BitWidth - i)]]
  <1>0. n \in Nat BY WidthAssumption
  <1>1. Infinity \in V BY PointForm
  <1>2. \A i \in 1 .. n : \A v \in V : WithRound(v, aps, BitWidth - i) \in V
    <2> SUFFICES ASSUME NEW i \in 1 .. n, NEW v \in V
                 PROVE  WithRound(v, aps, BitWidth - i) \in V
      OBVIOUS
    <2>1. BitWidth - i \in Nat BY <1>0
    <2> QED BY <2>1, AddClosed, AddSetClosed DEF WithRound
  <1>3. h \in [1 .. n -> [V -> V]] BY <1>2
  <1> HIDE DEF V, n
  <1>4. PICK after \in [0 .. n -> V] :
          Rounds(after, n, Infinity, h) /\ Folded(after, n, V, Infinity, h)
    <2> HIDE DEF h
    <2> QED BY <1>0, <1>1, <1>3, LoopRuns
  <1>5. ASSUME NEW m \in 1 .. n PROVE after[m] = WithRound(after[m - 1], aps, BitWidth - m)
    <2>1. after[m] = h[m][after[m - 1]] BY <1>4 DEF Rounds
    <2>2. m - 1 \in 0 .. n BY <1>0
    <2> QED BY <2>1, <2>2
  <1>6. BatchMul(aps) = after[n]
    <2> DEFINE D == [k \in 1 .. BitWidth |-> BitWidth - k]
               Fold(k) == k = [s \in SUBSET DOMAIN D |->
                                 IF s = {} THEN Infinity
                                 ELSE WithRound(k[s \ {Max(s)}], aps, D[Max(s)])]
    <2>1. PICK q \in [SUBSET (1 .. n) -> V] : Loop(q, n, Infinity, h) /\ q[1 .. n] = after[n]
      <3>1. n \in 0 .. n BY <1>0
      <3> QED BY <1>4, <3>1 DEF Folded
    <2>2. BatchMul(aps) = (CHOOSE k : Fold(k))[DOMAIN D]
      BY DEF BatchMul, WithRound, FoldLeft, MapThenFoldSet, n
    <2>3. DOMAIN D = 1 .. n BY <1>0 DEF n
    <2>4. ASSUME NEW s \in SUBSET (1 .. n), s # {}
          PROVE  Max(s) \in 1 .. n /\ q[s] = WithRound(q[s \ {Max(s)}], aps, BitWidth - Max(s))
      <3>1. Max(s) \in s /\ q[s] = h[Max(s)][q[s \ {Max(s)}]] BY <2>1, <2>4 DEF Loop
      <3>2. q[s \ {Max(s)}] \in V BY <2>1
      <3> QED BY <3>1, <3>2
    <2>5. \A i \in 1 .. n : \A r : WithRound(r, aps, D[i]) = WithRound(r, aps, BitWidth - i)
      BY DEF n
    <2> HIDE DEF D, h
    <2>6. q = [s \in SUBSET (1 .. n) |-> q[s]] /\ q[{}] = Infinity BY <2>1 DEF Loop
    <2>7. Fold(q)
      <3>1. \A s \in SUBSET (1 .. n) : s # {} => q[s] = WithRound(q[s \ {Max(s)}], aps, D[Max(s)])
        BY <2>4, <2>5
      <3> QED BY <2>3, <2>6, <3>1
    <2>8. ASSUME NEW k, Fold(k) PROVE k = q
      <3>1. k = [s \in SUBSET (1 .. n) |-> k[s]] /\ k[{}] = Infinity BY <2>3, <2>8
      <3>2. \A s \in SUBSET (1 .. n) : s # {} => k[s] = WithRound(k[s \ {Max(s)}], aps, D[Max(s)])
        BY <2>3, <2>8
      <3>3. ASSUME NEW s \in SUBSET (1 .. n), s # {}, k[s \ {Max(s)}] = q[s \ {Max(s)}]
            PROVE  k[s] = q[s]
        <4>1. k[s] = WithRound(k[s \ {Max(s)}], aps, BitWidth - Max(s)) BY <2>4, <2>5, <3>2, <3>3
        <4> QED BY <2>4, <3>3, <4>1
      <3> QED BY <1>0, <2>1, <3>1, <3>3, LoopIsUnique
    <2> HIDE DEF Fold
    <2>9. (CHOOSE k : Fold(k)) = q BY <2>7, <2>8
    <2> QED BY <2>1, <2>2, <2>3, <2>9
  <1>7. after[0] = Infinity BY <1>4 DEF Rounds
  <1> QED BY <1>5, <1>6, <1>7 DEF V, n

\* The table of doubles.
LEMMA FastTableRounds ==
  ASSUME NEW A \in Points
  PROVE  \E after \in [0 .. BitWidth - 1 -> Seq(Points) \ {<<>>}] :
           /\ after[0] = <<A>>
           /\ \A m \in 1 .. BitWidth - 1 : after[m] = WithDouble(after[m - 1])
           /\ FastTable(A) = after[BitWidth - 1]
  <1> DEFINE n == BitWidth - 1
             V == Seq(Points) \ {<<>>}
             h == [i \in 1 .. n |-> [v \in V |-> WithDouble(v)]]
  <1>0. n \in Nat BY WidthAssumption
  <1>1. <<A>> \in V OBVIOUS
  <1>2. \A i \in 1 .. n : \A v \in V : WithDouble(v) \in V
    <2> SUFFICES ASSUME NEW v \in V
                 PROVE  WithDouble(v) \in V
      OBVIOUS
    <2>1. Last(v) \in Points BY DEF Last
    <2> QED BY <2>1, AddClosed DEF WithDouble
  <1>3. h \in [1 .. n -> [V -> V]] BY <1>2
  <1> HIDE DEF V, n
  <1>4. PICK after \in [0 .. n -> V] :
          Rounds(after, n, <<A>>, h) /\ Folded(after, n, V, <<A>>, h)
    <2> HIDE DEF h
    <2> QED BY <1>0, <1>1, <1>3, LoopRuns
  <1>5. ASSUME NEW m \in 1 .. n PROVE after[m] = WithDouble(after[m - 1])
    <2>1. after[m] = h[m][after[m - 1]] BY <1>4 DEF Rounds
    <2>2. m - 1 \in 0 .. n BY <1>0
    <2> QED BY <2>1, <2>2
  <1>6. FastTable(A) = after[n]
    <2> DEFINE D == [i \in 1 .. BitWidth - 1 |-> i]
               Fold(k) == k = [s \in SUBSET DOMAIN D |->
                                 IF s = {} THEN <<A>>
                                 ELSE WithDouble(k[s \ {Max(s)}])]
    <2>1. PICK q \in [SUBSET (1 .. n) -> V] : Loop(q, n, <<A>>, h) /\ q[1 .. n] = after[n]
      <3>1. n \in 0 .. n BY <1>0
      <3> QED BY <1>4, <3>1 DEF Folded
    <2>2. FastTable(A) = (CHOOSE k : Fold(k))[DOMAIN D]
      BY DEF FastTable, WithDouble, FoldLeft, MapThenFoldSet, n
    <2>3. DOMAIN D = 1 .. n BY <1>0 DEF n
    <2>4. ASSUME NEW s \in SUBSET (1 .. n), s # {}
          PROVE  Max(s) \in 1 .. n /\ q[s] = WithDouble(q[s \ {Max(s)}])
      <3>1. Max(s) \in s /\ q[s] = h[Max(s)][q[s \ {Max(s)}]] BY <2>1, <2>4 DEF Loop
      <3>2. q[s \ {Max(s)}] \in V BY <2>1
      <3> QED BY <3>1, <3>2
    <2> HIDE DEF D, h
    <2>6. q = [s \in SUBSET (1 .. n) |-> q[s]] /\ q[{}] = <<A>> BY <2>1 DEF Loop
    <2>7. Fold(q)
      <3>1. \A s \in SUBSET (1 .. n) : s # {} => q[s] = WithDouble(q[s \ {Max(s)}])
        BY <2>4
      <3> QED BY <2>3, <2>6, <3>1
    <2>8. ASSUME NEW k, Fold(k) PROVE k = q
      <3>1. k = [s \in SUBSET (1 .. n) |-> k[s]] /\ k[{}] = <<A>> BY <2>3, <2>8
      <3>2. \A s \in SUBSET (1 .. n) : s # {} => k[s] = WithDouble(k[s \ {Max(s)}])
        BY <2>3, <2>8
      <3>3. ASSUME NEW s \in SUBSET (1 .. n), s # {}, k[s \ {Max(s)}] = q[s \ {Max(s)}]
            PROVE  k[s] = q[s]
        <4>1. k[s] = WithDouble(k[s \ {Max(s)}]) BY <2>4, <3>2, <3>3
        <4> QED BY <2>4, <3>3, <4>1
      <3> QED BY <1>0, <2>1, <3>1, <3>3, LoopIsUnique
    <2> HIDE DEF Fold
    <2>9. (CHOOSE k : Fold(k)) = q BY <2>7, <2>8
    <2> QED BY <2>1, <2>2, <2>3, <2>9
  <1>7. after[0] = <<A>> BY <1>4 DEF Rounds
  <1> QED BY <1>5, <1>6, <1>7 DEF V, n

\* G, 2G, 3G, ... as they are appended.
LEMMA MultiplesRounds ==
  \E after \in [0 .. Order - 1 -> Seq(Points) \ {<<>>}] :
           /\ after[0] = <<G>>
           /\ \A m \in 1 .. Order - 1 : after[m] = WithNext(after[m - 1])
           /\ MultiplesOfG = after[Order - 1]
  <1> DEFINE n == Order - 1
             V == Seq(Points) \ {<<>>}
             h == [i \in 1 .. n |-> [v \in V |-> WithNext(v)]]
  <1>0. n \in Nat BY OrderAssumption
  <1>1. <<G>> \in V BY BaseIsPoint
  <1>2. \A i \in 1 .. n : \A v \in V : WithNext(v) \in V
    <2> SUFFICES ASSUME NEW v \in V
                 PROVE  WithNext(v) \in V
      OBVIOUS
    <2>1. Last(v) \in Points BY DEF Last
    <2> QED BY <2>1, AddClosed, BaseIsPoint DEF WithNext
  <1>3. h \in [1 .. n -> [V -> V]] BY <1>2
  <1> HIDE DEF V, n
  <1>4. PICK after \in [0 .. n -> V] :
          Rounds(after, n, <<G>>, h) /\ Folded(after, n, V, <<G>>, h)
    <2> HIDE DEF h
    <2> QED BY <1>0, <1>1, <1>3, LoopRuns
  <1>5. ASSUME NEW m \in 1 .. n PROVE after[m] = WithNext(after[m - 1])
    <2>1. after[m] = h[m][after[m - 1]] BY <1>4 DEF Rounds
    <2>2. m - 1 \in 0 .. n BY <1>0
    <2> QED BY <2>1, <2>2
  <1>6. MultiplesOfG = after[n]
    <2> DEFINE D == [k \in 1 .. Order - 1 |-> k]
               Fold(k) == k = [s \in SUBSET DOMAIN D |->
                                 IF s = {} THEN <<G>>
                                 ELSE WithNext(k[s \ {Max(s)}])]
    <2>1. PICK q \in [SUBSET (1 .. n) -> V] : Loop(q, n, <<G>>, h) /\ q[1 .. n] = after[n]
      <3>1. n \in 0 .. n BY <1>0
      <3> QED BY <1>4, <3>1 DEF Folded
    <2>2. MultiplesOfG = (CHOOSE k : Fold(k))[DOMAIN D]
      BY DEF MultiplesOfG, WithNext, FoldLeft, MapThenFoldSet, n
    <2>3. DOMAIN D = 1 .. n BY <1>0 DEF n
    <2>4. ASSUME NEW s \in SUBSET (1 .. n), s # {}
          PROVE  Max(s) \in 1 .. n /\ q[s] = WithNext(q[s \ {Max(s)}])
      <3>1. Max(s) \in s /\ q[s] = h[Max(s)][q[s \ {Max(s)}]] BY <2>1, <2>4 DEF Loop
      <3>2. q[s \ {Max(s)}] \in V BY <2>1
      <3> QED BY <3>1, <3>2
    <2> HIDE DEF D, h
    <2>6. q = [s \in SUBSET (1 .. n) |-> q[s]] /\ q[{}] = <<G>> BY <2>1 DEF Loop
    <2>7. Fold(q)
      <3>1. \A s \in SUBSET (1 .. n) : s # {} => q[s] = WithNext(q[s \ {Max(s)}])
        BY <2>4
      <3> QED BY <2>3, <2>6, <3>1
    <2>8. ASSUME NEW k, Fold(k) PROVE k = q
      <3>1. k = [s \in SUBSET (1 .. n) |-> k[s]] /\ k[{}] = <<G>> BY <2>3, <2>8
      <3>2. \A s \in SUBSET (1 .. n) : s # {} => k[s] = WithNext(k[s \ {Max(s)}])
        BY <2>3, <2>8
      <3>3. ASSUME NEW s \in SUBSET (1 .. n), s # {}, k[s \ {Max(s)}] = q[s \ {Max(s)}]
            PROVE  k[s] = q[s]
        <4>1. k[s] = WithNext(k[s \ {Max(s)}]) BY <2>4, <3>2, <3>3
        <4> QED BY <2>4, <3>3, <4>1
      <3> QED BY <1>0, <2>1, <3>1, <3>3, LoopIsUnique
    <2> HIDE DEF Fold
    <2>9. (CHOOSE k : Fold(k)) = q BY <2>7, <2>8
    <2> QED BY <2>1, <2>2, <2>3, <2>9
  <1>7. after[0] = <<G>> BY <1>4 DEF Rounds
  <1> QED BY <1>5, <1>6, <1>7 DEF V, n

\* The sum of the entries whose bit is set.
LEMMA FastMulRounds ==
  ASSUME NEW table \in [1 .. BitWidth -> Points], NEW a \in Int, BitLength(a) \in 0 .. BitWidth
  PROVE  \E after \in [0 .. BitLength(a) -> Points] :
           /\ after[0] = Infinity
           /\ \A m \in 1 .. BitLength(a) : after[m] = WithEntry(after[m - 1], table, a, m)
           /\ FastMul(table, a) = after[BitLength(a)]
  <1> DEFINE n == BitLength(a)
             V == Points
             h == [i \in 1 .. n |-> [v \in V |-> WithEntry(v, table, a, i)]]
  <1>0. n \in Nat BY WidthAssumption
  <1>1. Infinity \in V BY PointForm
  <1>2. \A i \in 1 .. n : \A v \in V : WithEntry(v, table, a, i) \in V
    <2>1. \A i \in 1 .. n : table[i] \in Points BY WidthAssumption
    <2> QED BY <2>1, AddClosed DEF WithEntry
  <1>3. h \in [1 .. n -> [V -> V]] BY <1>2
  <1> HIDE DEF V, n
  <1>4. PICK after \in [0 .. n -> V] :
          Rounds(after, n, Infinity, h) /\ Folded(after, n, V, Infinity, h)
    <2> HIDE DEF h
    <2> QED BY <1>0, <1>1, <1>3, LoopRuns
  <1>5. ASSUME NEW m \in 1 .. n PROVE after[m] = WithEntry(after[m - 1], table, a, m)
    <2>1. after[m] = h[m][after[m - 1]] BY <1>4 DEF Rounds
    <2>2. m - 1 \in 0 .. n BY <1>0
    <2> QED BY <2>1, <2>2
  <1>6. FastMul(table, a) = after[n]
    <2> DEFINE D == [i \in 1 .. BitLength(a) |-> i]
               Fold(k) == k = [s \in SUBSET DOMAIN D |->
                                 IF s = {} THEN Infinity
                                 ELSE WithEntry(k[s \ {Max(s)}], table, a, D[Max(s)])]
    <2>1. PICK q \in [SUBSET (1 .. n) -> V] : Loop(q, n, Infinity, h) /\ q[1 .. n] = after[n]
      <3>1. n \in 0 .. n BY <1>0
      <3> QED BY <1>4, <3>1 DEF Folded
    <2>2. FastMul(table, a) = (CHOOSE k : Fold(k))[DOMAIN D]
      BY DEF FastMul, WithEntry, FoldLeft, MapThenFoldSet, n
    <2>3. DOMAIN D = 1 .. n BY <1>0 DEF n
    <2>4. ASSUME NEW s \in SUBSET (1 .. n), s # {}
          PROVE  Max(s) \in 1 .. n /\ q[s] = WithEntry(q[s \ {Max(s)}], table, a, Max(s))
      <3>1. Max(s) \in s /\ q[s] = h[Max(s)][q[s \ {Max(s)}]] BY <2>1, <2>4 DEF Loop
      <3>2. q[s \ {Max(s)}] \in V BY <2>1
      <3> QED BY <3>1, <3>2
    <2>5. \A i \in 1 .. n : \A r : WithEntry(r, table, a, D[i]) = WithEntry(r, table, a, i)
      BY DEF n
    <2> HIDE DEF D, h
    <2>6. q = [s \in SUBSET (1 .. n) |-> q[s]] /\ q[{}] = Infinity BY <2>1 DEF Loop
    <2>7. Fold(q)
      <3>1. \A s \in SUBSET (1 .. n) : s # {}
              => q[s] = WithEntry(q[s \ {Max(s)}], table, a, D[Max(s)])
        BY <2>4, <2>5
      <3> QED BY <2>3, <2>6, <3>1
    <2>8. ASSUME NEW k, Fold(k) PROVE k = q
      <3>1. k = [s \in SUBSET (1 .. n) |-> k[s]] /\ k[{}] = Infinity BY <2>3, <2>8
      <3>2. \A s \in SUBSET (1 .. n) : s # {}
              => k[s] = WithEntry(k[s \ {Max(s)}], table, a, D[Max(s)])
        BY <2>3, <2>8
      <3>3. ASSUME NEW s \in SUBSET (1 .. n), s # {}, k[s \ {Max(s)}] = q[s \ {Max(s)}]
            PROVE  k[s] = q[s]
        <4>1. k[s] = WithEntry(k[s \ {Max(s)}], table, a, Max(s)) BY <2>4, <2>5, <3>2, <3>3
        <4> QED BY <2>4, <3>3, <4>1
      <3> QED BY <1>0, <2>1, <3>1, <3>3, LoopIsUnique
    <2> HIDE DEF Fold
    <2>9. (CHOOSE k : Fold(k)) = q BY <2>7, <2>8
    <2> QED BY <2>1, <2>2, <2>3, <2>9
  <1>7. after[0] = Infinity BY <1>4 DEF Rounds
  <1> QED BY <1>5, <1>6, <1>7 DEF V, n

-----------------------------------------------------------------------------
(* Bits.                                                                   *)

\* Shifting by one more place takes one bit off.
LEMMA ShiftSteps ==
  ASSUME NEW a \in Nat
  PROVE  /\ ShiftRight(a, 0) = a
         /\ \A n \in Nat :
              /\ ShiftRight(a, n) \in Nat
              /\ ShiftRight(a, n + 1) = ShiftRight(a, n) \div 2
              /\ ShiftRight(a, n)
                   = 2 * ShiftRight(a, n + 1) + (IF Bit(a, n) THEN 1 ELSE 0)
  <1>1. ASSUME NEW n \in Nat
        PROVE  /\ ShiftRight(a, 0) = a /\ ShiftRight(a, n) \in Nat
               /\ ShiftRight(a, n + 1) = ShiftRight(a, n) \div 2
    <2>1. n + 1 \in Nat OBVIOUS
    <2>2. PICK after \in [0 .. n + 1 -> Nat] :
            /\ after[0] = a
            /\ \A m \in 1 .. n + 1 : after[m] = after[m - 1] \div 2
            /\ \A m \in 0 .. n + 1 : ShiftRight(a, m) = after[m]
      BY <2>1, ShiftRounds
    <2>3. /\ n + 1 \in 1 .. n + 1 /\ n + 1 \in 0 .. n + 1 /\ n \in 0 .. n + 1
          /\ (n + 1) - 1 = n /\ 0 \in 0 .. n + 1
      OBVIOUS
    <2> QED BY <2>2, <2>3
  <1>2. ASSUME NEW n \in Nat
        PROVE  ShiftRight(a, n) = 2 * ShiftRight(a, n + 1) + (IF Bit(a, n) THEN 1 ELSE 0)
    <2> DEFINE s == ShiftRight(a, n)
    <2>1. s \in Nat /\ ShiftRight(a, n + 1) = s \div 2 /\ (Bit(a, n) <=> s % 2 = 1)
      BY <1>1 DEF Bit
    <2> HIDE DEF s
    <2>2. s = 2 * (s \div 2) + (s % 2) /\ s % 2 \in {0, 1} BY <2>1
    <2> QED BY <2>1, <2>2 DEF s
  <1> QED BY <1>1, <1>2

\* A smaller number has no higher bits.
LEMMA ShiftIsMonotone ==
  ASSUME NEW a \in Nat, NEW b \in Nat, a <= b
  PROVE  \A n \in Nat : ShiftRight(a, n) <= ShiftRight(b, n)
  <1> DEFINE Good == {n \in Nat : ShiftRight(a, n) <= ShiftRight(b, n)}
  <1>1. 0 \in Good BY ShiftSteps
  <1>2. ASSUME NEW n \in Nat, n \in Good PROVE n + 1 \in Good
    <2> DEFINE s == ShiftRight(a, n)
               t == ShiftRight(b, n)
    <2>1. /\ s \in Nat /\ t \in Nat /\ s <= t
          /\ ShiftRight(a, n + 1) = s \div 2 /\ ShiftRight(b, n + 1) = t \div 2
      BY <1>2, ShiftSteps
    <2> HIDE DEF s, t
    <2>2. s \div 2 <= t \div 2 BY <2>1
    <2> QED BY <2>1, <2>2
  <1> HIDE DEF Good
  <1>3. \A n \in Nat : n \in Good BY <1>1, <1>2, CountingUp
  <1> QED BY <1>3 DEF Good

\* bit_length of a scalar.
LEMMA ScalarWidth ==
  ASSUME NEW a \in Scalars
  PROVE  /\ a \in Nat /\ ShiftRight(a, BitWidth) = 0
         /\ BitLength(a) \in 0 .. BitWidth /\ ShiftRight(a, BitLength(a)) = 0
  <1>1. a \in Nat /\ Order \in Nat /\ a <= Order BY OrderAssumption DEF Scalars
  <1>2. BitWidth \in Nat /\ ShiftRight(Order, BitWidth) = 0 BY WidthAssumption
  <1>3. ShiftRight(a, BitWidth) = 0
    <2>1. ShiftRight(a, BitWidth) \in Nat /\ ShiftRight(a, BitWidth) <= 0
      BY <1>1, <1>2, ShiftSteps, ShiftIsMonotone
    <2> QED BY <2>1
  <1> DEFINE S == {k \in 0 .. BitWidth : ShiftRight(a, k) = 0}
             first == Min(S)
  <1>4. first \in S /\ \A k \in S : first <= k
    <2>1. S \in SUBSET Int /\ S # {} BY <1>2, <1>3
    <2>2. IsFiniteSet(S)
      <3>1. IsFiniteSet(0 .. BitWidth) /\ S \subseteq 0 .. BitWidth BY <1>2, FS_Interval
      <3> QED BY <3>1, FS_Subset
    <2> HIDE DEF S
    <2> QED BY <2>1, <2>2, Extremes
  <1> HIDE DEF first
  <1>5. first \in 0 .. BitWidth /\ ShiftRight(a, first) = 0 BY <1>4
  <1>6. first = 0 \/ ShiftRight(a, first - 1) # 0
    <2> SUFFICES ASSUME first # 0, ShiftRight(a, first - 1) = 0 PROVE FALSE OBVIOUS
    <2>1. first - 1 \in 0 .. BitWidth BY <1>2, <1>5
    <2>2. first - 1 \in S BY <2>1
    <2>3. first <= first - 1 BY <1>4, <2>2
    <2> QED BY <1>5, <2>3
  <1>7. \E k \in 0 .. BitWidth :
          ShiftRight(a, k) = 0 /\ (k = 0 \/ ShiftRight(a, k - 1) # 0)
    BY <1>5, <1>6
  <1> QED BY <1>1, <1>3, <1>7 DEF BitLength

-----------------------------------------------------------------------------
(* Tables.                                                                 *)

\* Appending is writing one entry more.
LEMMA AppendedEntry ==
  ASSUME NEW s \in Seq(Points), NEW e \in Points
  PROVE  /\ Append(s, e) \in Seq(Points) /\ Len(Append(s, e)) = Len(s) + 1
         /\ Append(s, e)[Len(s) + 1] = e
         /\ \A j \in 1 .. Len(s) : Append(s, e)[j] = s[j]
  OBVIOUS

\* Entry m + 1 is twice entry m.
Doubling(t) == \A j \in 1 .. Len(t) - 1 : t[j + 1] = AddPoints(t[j], t[j])

\* The table of FastGEMul.
LEMMA FastTableEntries ==
  ASSUME NEW A \in Points
  PROVE  /\ FastTable(A) \in [1 .. BitWidth -> Points]
         /\ FastTable(A)[1] = A
         /\ \A j \in 1 .. BitWidth - 1 :
              FastTable(A)[j + 1] = AddPoints(FastTable(A)[j], FastTable(A)[j])
  <1> DEFINE n == BitWidth - 1
  <1>1. n \in Nat /\ BitWidth = n + 1 BY WidthAssumption
  <1>2. PICK after \in [0 .. n -> Seq(Points) \ {<<>>}] :
          /\ after[0] = <<A>>
          /\ \A m \in 1 .. n :
               after[m] = WithDouble(after[m - 1])
          /\ FastTable(A) = after[n]
    BY FastTableRounds
  <1> HIDE DEF n
  <1> DEFINE Good == {m \in Nat : m <= n => /\ Len(after[m]) = m + 1
                                            /\ after[m][1] = A /\ Doubling(after[m])}
  <1>3. 0 \in Good
    <2>1. Len(<<A>>) = 0 + 1 /\ <<A>>[1] = A /\ Doubling(<<A>>) BY DEF Doubling
    <2> QED BY <1>2, <2>1
  <1>4. ASSUME NEW m \in Nat, m \in Good PROVE m + 1 \in Good
    <2> SUFFICES ASSUME m + 1 <= n
                 PROVE  /\ Len(after[m + 1]) = (m + 1) + 1 /\ after[m + 1][1] = A
                        /\ Doubling(after[m + 1])
      OBVIOUS
    <2> DEFINE t == after[m]
               e == AddPoints(Last(t), Last(t))
               u == after[m + 1]
    <2>1. m <= n /\ m \in 0 .. n /\ m + 1 \in 1 .. n /\ (m + 1) - 1 = m BY <1>1
    <2>2. t \in Seq(Points) /\ Len(t) = m + 1 /\ t[1] = A /\ Doubling(t)
      BY <1>2, <1>4, <2>1
    <2>3. u = Append(t, e) BY <1>2, <2>1 DEF WithDouble
    <2>4. e \in Points /\ e = AddPoints(t[m + 1], t[m + 1])
      <3> HIDE DEF t
      <3>1. Last(t) = t[m + 1] /\ t[m + 1] \in Points BY <2>2 DEF Last
      <3> QED BY <3>1, AddClosed
    <2> HIDE DEF t, e, u
    <2>5. /\ Len(u) = (m + 1) + 1 /\ u[(m + 1) + 1] = e
          /\ \A j \in 1 .. m + 1 : u[j] = t[j]
      BY <2>2, <2>3, <2>4, AppendedEntry
    <2>6. Doubling(u)
      <3> SUFFICES ASSUME NEW j \in 1 .. m + 1 PROVE u[j + 1] = AddPoints(u[j], u[j])
        BY <2>5 DEF Doubling
      <3>1. u[j] = t[j] BY <2>5
      <3>2. CASE j = m + 1 BY <2>4, <2>5, <3>1, <3>2
      <3>3. CASE j # m + 1
        <4>1. j \in 1 .. m /\ j + 1 \in 1 .. m + 1 BY <3>3
        <4>2. u[j + 1] = t[j + 1] BY <2>5, <4>1
        <4>3. Len(t) - 1 = m BY <2>2
        <4>4. t[j + 1] = AddPoints(t[j], t[j]) BY <2>2, <4>1, <4>3 DEF Doubling
        <4> QED BY <3>1, <4>2, <4>4
      <3> QED BY <3>2, <3>3
    <2>7. u[1] = A
      <3>1. 1 \in 1 .. m + 1 OBVIOUS
      <3> QED BY <2>2, <2>5, <3>1
    <2> QED BY <2>5, <2>6, <2>7 DEF u
  <1> HIDE DEF Good
  <1>5. \A m \in Nat : m \in Good BY <1>3, <1>4, CountingUp
  <1> DEFINE table == after[n]
  <1>6. Len(table) = n + 1 /\ table[1] = A /\ Doubling(table)
    BY <1>1, <1>5 DEF Good
  <1>7. table \in Seq(Points) BY <1>1, <1>2
  <1>8. table = FastTable(A) BY <1>2
  <1> HIDE DEF table
  <1>9. table \in [1 .. n + 1 -> Points] BY <1>6, <1>7
  <1>10. \A j \in 1 .. n : table[j + 1] = AddPoints(table[j], table[j])
    <2>1. Len(table) - 1 = n BY <1>1, <1>6
    <2> QED BY <1>6, <2>1 DEF Doubling
  <1> QED BY <1>1, <1>6, <1>8, <1>9, <1>10 DEF n

-----------------------------------------------------------------------------
(* The multiplications are closed.                                         *)

\* Shared double-and-add gives a point.
LEMMA BatchMulClosed ==
  ASSUME NEW aps \in Seq(Int \X Points)
  PROVE  BatchMul(aps) \in Points
  <1>1. PICK after \in [0 .. BitWidth -> Points] : BatchMul(aps) = after[BitWidth]
    BY BatchMulRounds
  <1>2. BitWidth \in 0 .. BitWidth BY WidthAssumption
  <1> QED BY <1>1, <1>2

\* So does the table.
LEMMA FastMulClosed ==
  ASSUME NEW a \in Scalars
  PROVE  FastMul(FastG, a) \in Points
  <1>1. FastG \in [1 .. BitWidth -> Points] BY BaseIsPoint, FastTableEntries DEF FastG
  <1>2. BitLength(a) \in 0 .. BitWidth /\ a \in Int BY ScalarWidth
  <1>3. PICK after \in [0 .. BitLength(a) -> Points] :
          FastMul(FastG, a) = after[BitLength(a)]
    BY <1>1, <1>2, FastMulRounds
  <1>4. BitLength(a) \in 0 .. BitLength(a) BY <1>2, WidthAssumption
  <1> QED BY <1>3, <1>4

\* And a * P, with either of them.
LEMMA RMulClosed ==
  ASSUME NEW a \in Int, NEW A \in Points
  PROVE  /\ (a % Order) \in Scalars /\ (a % Order) \in Int
         /\ RMul(a, A) \in Points
  <1> DEFINE r == a % Order
  <1>1. r \in Scalars BY Division
  <1> HIDE DEF r
  <1>2. r \in Int BY <1>1, ScalarWidth
  <1>3. FastMul(FastG, r) \in Points BY <1>1, FastMulClosed
  <1>4. BatchMul(<<<<r, A>>>>) \in Points
    <2>1. <<<<r, A>>>> \in Seq(Int \X Points) BY <1>2
    <2> QED BY <2>1, BatchMulClosed
  <1> QED BY <1>1, <1>2, <1>3, <1>4 DEF RMul, r

\* The program holds two points of the curve.
PointsInv == P \in Points /\ Q \in Points

\* Every operation of the first program gives a point.
LEMMA PointsStep == PointsInv /\ [Next]_vars => PointsInv'
  <1> SUFFICES ASSUME PointsInv, [Next]_vars PROVE PointsInv' OBVIOUS
  <1>1. P \in Points /\ Q \in Points BY DEF PointsInv
  <1>2. CASE Addition \/ Subtraction \/ Negation \/ Exchange
    <2>1. /\ AddPoints(P, Q) \in Points /\ SubPoints(P, Q) \in Points
          /\ NegPoint(P) \in Points
      BY <1>1, AddClosed, EqualIsSame, NegPoints
    <2> QED BY <1>1, <1>2, <2>1 DEF Addition, Subtraction, Negation, Exchange, PointsInv
  <1>3. CASE Multiplication
    <2>1. PICK a \in Multipliers : P' = RMul(a, P) /\ UNCHANGED Q BY <1>3 DEF Multiplication
    <2>2. a \in Int BY ProgramsAssumption
    <2> QED BY <1>1, <2>1, <2>2, RMulClosed DEF PointsInv
  <1>4. CASE BatchMultiplication
    <2>1. PICK a \in Multipliers, b \in Multipliers :
            P' = BatchMul(<<<<a % Order, P>>, <<b % Order, Q>>>>) /\ UNCHANGED Q
      BY <1>4 DEF BatchMultiplication
    <2>2. (a % Order) \in Int /\ (b % Order) \in Int
      BY <1>1, ProgramsAssumption, RMulClosed
    <2>3. <<<<a % Order, P>>, <<b % Order, Q>>>> \in Seq(Int \X Points) BY <1>1, <2>2
    <2> QED BY <1>1, <2>1, <2>3, BatchMulClosed DEF PointsInv
  <1>5. CASE Parsing BY <1>1, <1>5 DEF Parsing, points, PointsInv
  <1>6. CASE UNCHANGED vars BY <1>1, <1>6 DEF vars, PointsInv
  <1> QED BY <1>2, <1>3, <1>4, <1>5, <1>6 DEF Next, Arithmetic

\* What ScalarGroup assumes of points holds of the coordinates, over every
\* field and in every group of the curve.
THEOREM PointsTheorem == Spec => []PointsAsAssumed
  <1>1. Init => PointsInv BY BaseIsPoint DEF Init, PointsInv
  <1>2. PointsInv => PointsAsAssumed
    BY EqualIsSame, NegPoints, XonlyNamesEvenPoint DEF PointsInv, PointsAsAssumed
  <1> QED BY <1>1, <1>2, PointsStep, PTL DEF Spec

-----------------------------------------------------------------------------
(* The cyclic group of G.                                                  *)

\* k * G.
MultipleOf(k) == Times(G, k)

\* One G more.
LEMMA TimesSteps ==
  /\ MultipleOf(0) = Infinity /\ MultipleOf(1) = G
  /\ \A n \in Nat : /\ MultipleOf(n) \in Points
                    /\ MultipleOf(n + 1) = AddPoints(MultipleOf(n), G)
  <1>1. ASSUME NEW n \in Nat
        PROVE  /\ MultipleOf(0) = Infinity /\ MultipleOf(n) \in Points
               /\ MultipleOf(n + 1) = AddPoints(MultipleOf(n), G)
    <2>1. n + 1 \in Nat /\ G \in Points BY BaseIsPoint
    <2>2. PICK after \in [0 .. n + 1 -> Points] :
            /\ after[0] = Infinity
            /\ \A m \in 1 .. n + 1 : after[m] = AddPoints(after[m - 1], G)
            /\ \A m \in 0 .. n + 1 : Times(G, m) = after[m]
      BY <2>1, TimesRounds
    <2>3. /\ n + 1 \in 1 .. n + 1 /\ n + 1 \in 0 .. n + 1 /\ n \in 0 .. n + 1
          /\ (n + 1) - 1 = n /\ 0 \in 0 .. n + 1
      OBVIOUS
    <2> QED BY <2>2, <2>3 DEF MultipleOf
  <1>2. MultipleOf(0 + 1) = AddPoints(Infinity, G) /\ 0 + 1 = 1 BY <1>1
  <1>3. AddPoints(Infinity, G) = G BY DEF AddPoints
  <1> QED BY <1>1, <1>2, <1>3

\* Multiples add up.
LEMMA TimesAdds ==
  ASSUME NEW m \in Nat
  PROVE  \A n \in Nat : MultipleOf(m + n) = AddPoints(MultipleOf(m), MultipleOf(n))
  <1> DEFINE Good == {n \in Nat : MultipleOf(m + n) = AddPoints(MultipleOf(m), MultipleOf(n))}
  <1>1. 0 \in Good
    <2>1. m + 0 = m /\ MultipleOf(0) = Infinity BY TimesSteps
    <2>2. AddPoints(MultipleOf(m), Infinity) = MultipleOf(m) BY DEF AddPoints
    <2> QED BY <2>1, <2>2
  <1>2. ASSUME NEW n \in Nat, n \in Good PROVE n + 1 \in Good
    <2> DEFINE A == MultipleOf(m)
               B == MultipleOf(n)
    <2>1. A \in Points /\ B \in Points /\ G \in Points BY TimesSteps, BaseIsPoint
    <2>2. m + (n + 1) = (m + n) + 1 /\ m + n \in Nat /\ n + 1 \in Nat OBVIOUS
    <2>3. MultipleOf((m + n) + 1) = AddPoints(MultipleOf(m + n), G) BY <2>2, TimesSteps
    <2>4. MultipleOf(n + 1) = AddPoints(B, G) BY TimesSteps
    <2>5. MultipleOf(m + n) = AddPoints(A, B) BY <1>2
    <2> HIDE DEF A, B
    <2>6. AddPoints(AddPoints(A, B), G) = AddPoints(A, AddPoints(B, G))
      BY <2>1, Associativity
    <2> QED BY <2>2, <2>3, <2>4, <2>5, <2>6 DEF A
  <1> HIDE DEF Good
  <1>3. \A n \in Nat : n \in Good BY <1>1, <1>2, CountingUp
  <1> QED BY <1>3 DEF Good

\* A multiple of a number whose multiple is infinity.
LEMMA TimesVanish ==
  ASSUME NEW d \in Nat, MultipleOf(d) = Infinity
  PROVE  \A n \in Nat : MultipleOf(d * n) = Infinity
  <1> DEFINE Good == {n \in Nat : MultipleOf(d * n) = Infinity}
  <1>1. 0 \in Good
    <2>1. d * 0 = 0 OBVIOUS
    <2> QED BY <2>1, TimesSteps
  <1>2. ASSUME NEW n \in Nat, n \in Good PROVE n + 1 \in Good
    <2>1. d * (n + 1) = d * n + d /\ d * n \in Nat OBVIOUS
    <2>2. MultipleOf(d * n + d) = AddPoints(MultipleOf(d * n), MultipleOf(d))
      BY <2>1, TimesAdds
    <2>3. AddPoints(Infinity, Infinity) = Infinity BY DEF AddPoints
    <2> QED BY <1>2, <2>1, <2>2, <2>3
  <1> HIDE DEF Good
  <1>3. \A n \in Nat : n \in Good BY <1>1, <1>2, CountingUp
  <1> QED BY <1>3 DEF Good

\* MultiplesOfG lists them.
LEMMA MultiplesEntries ==
  /\ DOMAIN MultiplesOfG = 1 .. Order
  /\ \A k \in 1 .. Order : MultiplesOfG[k] = MultipleOf(k)
  <1> DEFINE n == Order - 1
  <1>1. n \in Nat /\ Order = n + 1 BY OrderAssumption
  <1>2. PICK after \in [0 .. n -> Seq(Points) \ {<<>>}] :
          /\ after[0] = <<G>>
          /\ \A m \in 1 .. n : after[m] = WithNext(after[m - 1])
          /\ MultiplesOfG = after[n]
    BY MultiplesRounds
  <1> HIDE DEF n
  <1> DEFINE Good == {m \in Nat : m <= n =>
                        /\ Len(after[m]) = m + 1
                        /\ \A j \in 1 .. m + 1 : after[m][j] = MultipleOf(j)}
  <1>3. 0 \in Good
    <2>1. Len(<<G>>) = 0 + 1 /\ <<G>>[1] = MultipleOf(1) BY TimesSteps
    <2>2. \A j \in 1 .. 0 + 1 : j = 1 OBVIOUS
    <2> QED BY <1>2, <2>1, <2>2
  <1>4. ASSUME NEW m \in Nat, m \in Good PROVE m + 1 \in Good
    <2> SUFFICES ASSUME m + 1 <= n
                 PROVE  /\ Len(after[m + 1]) = (m + 1) + 1
                        /\ \A j \in 1 .. (m + 1) + 1 : after[m + 1][j] = MultipleOf(j)
      OBVIOUS
    <2> DEFINE t == after[m]
               e == AddPoints(Last(t), G)
               u == after[m + 1]
    <2>1. m <= n /\ m \in 0 .. n /\ m + 1 \in 1 .. n /\ (m + 1) - 1 = m BY <1>1
    <2>2. t \in Seq(Points) /\ Len(t) = m + 1 /\ \A j \in 1 .. m + 1 : t[j] = MultipleOf(j)
      BY <1>2, <1>4, <2>1
    <2>3. u = Append(t, e) BY <1>2, <2>1 DEF WithNext
    <2>4. e \in Points /\ e = MultipleOf((m + 1) + 1)
      <3> HIDE DEF t
      <3>1. m + 1 \in 1 .. m + 1 /\ m + 1 \in Nat OBVIOUS
      <3>2. Last(t) = MultipleOf(m + 1) BY <2>2, <3>1 DEF Last
      <3>3. (m + 1) + 1 \in Nat OBVIOUS
      <3> QED BY <3>1, <3>2, <3>3, TimesSteps
    <2> HIDE DEF t, e, u
    <2>5. /\ Len(u) = (m + 1) + 1 /\ u[(m + 1) + 1] = e
          /\ \A j \in 1 .. m + 1 : u[j] = t[j]
      BY <2>2, <2>3, <2>4, AppendedEntry
    <2>6. \A j \in 1 .. (m + 1) + 1 : j \in 1 .. m + 1 \/ j = (m + 1) + 1 OBVIOUS
    <2> QED BY <2>2, <2>4, <2>5, <2>6 DEF u
  <1> HIDE DEF Good
  <1>5. \A m \in Nat : m \in Good BY <1>3, <1>4, CountingUp
  <1> DEFINE table == after[n]
  <1>6. Len(table) = n + 1 /\ \A j \in 1 .. n + 1 : table[j] = MultipleOf(j)
    BY <1>1, <1>5 DEF Good
  <1>7. table \in Seq(Points) BY <1>1, <1>2
  <1>8. table = MultiplesOfG BY <1>2
  <1> HIDE DEF table
  <1>9. DOMAIN table = 1 .. n + 1 BY <1>6, <1>7
  <1> QED BY <1>1, <1>6, <1>8, <1>9

\* Multiples depend on the residue modulo Order only.
LEMMA TimesReduce ==
  ASSUME NEW a \in Nat
  PROVE  (a % Order) \in Scalars /\ (a % Order) \in Nat /\ MultipleOf(a) = MultipleOf(a % Order)
  <1> DEFINE q == a \div Order
             r == a % Order
  <1>1. Order \in Nat /\ Order >= 2 BY OrderAssumption
  <1>2. r \in Scalars /\ q \in Int /\ a = Order * q + r BY Division
  <1>3. q \in Nat BY <1>1
  <1> HIDE DEF q, r
  <1>4. r \in Nat /\ Order * q \in Nat BY <1>1, <1>2, <1>3 DEF Scalars
  <1>5. MultipleOf(Order) = Infinity
    <2>1. Order \in 1 .. Order BY <1>1
    <2> QED BY <2>1, GroupOrder, MultiplesEntries
  <1>6. MultipleOf(Order * q) = Infinity BY <1>1, <1>3, <1>5, TimesVanish
  <1>7. MultipleOf(a) = AddPoints(MultipleOf(Order * q), MultipleOf(r))
    BY <1>2, <1>4, TimesAdds
  <1>8. AddPoints(Infinity, MultipleOf(r)) = MultipleOf(r) BY DEF AddPoints
  <1> QED BY <1>2, <1>4, <1>6, <1>7, <1>8 DEF r

\* -(k * G) is the multiple of -k.
LEMMA TimesNeg ==
  ASSUME NEW k \in Scalars
  PROVE  Neg(k) \in Scalars /\ NegPoint(MultipleOf(k)) = MultipleOf(Neg(k))
  <1> DEFINE n == Neg(k)
  <1>1. Order \in Nat /\ Order >= 2 /\ k \in Nat BY OrderAssumption DEF Scalars
  <1>2. n \in Scalars BY Closed
  <1>3. n = IF k = 0 THEN 0 ELSE Order - k BY UnitsAndNegation
  <1> HIDE DEF n
  <1>4. n \in Nat BY <1>2, OrderAssumption DEF Scalars
  <1>5. ((k + n) % Order) = 0 BY <1>1, <1>3
  <1>6. MultipleOf(k + n) = Infinity
    <2>1. k + n \in Nat BY <1>1, <1>4
    <2> QED BY <1>5, <2>1, TimesReduce, TimesSteps
  <1>7. MultipleOf(k + n) = AddPoints(MultipleOf(k), MultipleOf(n)) BY <1>1, <1>4, TimesAdds
  <1>8. MultipleOf(k) \in Points /\ MultipleOf(n) \in Points BY <1>1, <1>4, TimesSteps
  <1> QED BY <1>2, <1>6, <1>7, <1>8, AddClosed DEF n

\* Order is prime, so that the multiples below Order differ.
LEMMA TimesInjective ==
  ASSUME NEW i \in Scalars, NEW j \in Scalars, MultipleOf(i) = MultipleOf(j)
  PROVE  i = j
  <1> DEFINE n == Neg(i)
             d == (j + n) % Order
  <1>1. Order \in Nat /\ Order >= 2 /\ i \in Nat /\ j \in Nat BY OrderAssumption DEF Scalars
  <1>2. n \in Scalars /\ n \in Nat /\ NegPoint(MultipleOf(i)) = MultipleOf(n)
    <2>1. n \in Scalars /\ NegPoint(MultipleOf(i)) = MultipleOf(n) BY TimesNeg
    <2> QED BY <2>1, OrderAssumption DEF Scalars
  <1>3. d = Sub(j, i) BY DEF Sub, Add
  <1> HIDE DEF n
  <1>4. j + n \in Nat BY <1>1, <1>2
  <1>5. d \in Scalars /\ d \in Nat /\ MultipleOf(d) = MultipleOf(j + n) BY <1>4, TimesReduce
  <1>6. MultipleOf(d) = Infinity
    <2>1. MultipleOf(j) \in Points BY <1>1, TimesSteps
    <2>2. AddPoints(MultipleOf(j), NegPoint(MultipleOf(j))) = Infinity
      BY <2>1, NegPoints, AddClosed
    <2>3. MultipleOf(j + n) = AddPoints(MultipleOf(j), MultipleOf(n)) BY <1>1, <1>2, TimesAdds
    <2> QED BY <1>2, <1>5, <2>2, <2>3
  <1> HIDE DEF d
  <1>7. d = 0
    <2> SUFFICES ASSUME d # 0 PROVE FALSE OBVIOUS
    <2>1. d \in NonZero BY <1>5 DEF NonZero
    <2> DEFINE e == Inv(d)
    <2>2. e \in Scalars /\ Mul(d, e) = 1 BY <2>1, Invertible
    <2> HIDE DEF e
    <2>3. e \in Nat BY <2>2, OrderAssumption DEF Scalars
    <2>4. MultipleOf(d * e) = Infinity BY <1>5, <1>6, <2>3, TimesVanish
    <2>5. d * e \in Nat BY <1>5, <2>3
    <2>6. MultipleOf(d * e) = MultipleOf((d * e) % Order) BY <2>5, TimesReduce
    <2>7. ((d * e) % Order) = 1 BY <2>2 DEF Mul
    <2> QED BY <2>4, <2>6, <2>7, TimesSteps, BaseIsPoint
  <1>8. Add(j, n) = 0 BY <1>3, <1>7 DEF Sub, n
  <1>9. Add(Add(j, n), i) = Add(j, Add(n, i)) /\ Add(n, i) = Add(i, n)
    BY <1>2, AddAssoc, Commutes
  <1>10. Add(i, n) = 0 BY UnitsAndNegation DEF n
  <1>11. Add(0, i) = i /\ Add(j, 0) = j BY UnitsAndNegation
  <1> QED BY <1>8, <1>9, <1>10, <1>11

\* The discrete logarithm of k * G is k.
LEMMA LogOfTimes ==
  ASSUME NEW k \in Scalars
  PROVE  Log(MultipleOf(k)) = k
  <1> DEFINE R == MultipleOf(k)
             c == CHOOSE i \in 1 .. Order : MultiplesOfG[i] = R
  <1>1. Order \in Nat /\ Order >= 2 /\ k \in Nat /\ k < Order BY OrderAssumption DEF Scalars
  <1>2. \E i \in 1 .. Order : MultiplesOfG[i] = R
    <2>1. CASE k # 0
      <3>1. k \in 1 .. Order BY <1>1, <2>1
      <3> QED BY <3>1, MultiplesEntries
    <2>2. CASE k = 0
      <3>1. Order \in 1 .. Order BY <1>1
      <3> QED BY <2>2, <3>1, GroupOrder, TimesSteps
    <2> QED BY <2>1, <2>2
  <1>3. R \in Range(MultiplesOfG) BY <1>2, MultiplesEntries DEF Range
  <1>4. c \in 1 .. Order /\ MultiplesOfG[c] = R BY <1>2
  <1>5. Log(R) = c % Order BY <1>3 DEF Log
  <1> HIDE DEF c
  <1>6. c \in Nat /\ MultipleOf(c) = R BY <1>1, <1>4, MultiplesEntries
  <1>7. (c % Order) \in Scalars /\ MultipleOf(c % Order) = MultipleOf(k)
    BY <1>6, TimesReduce
  <1>8. (c % Order) = k BY <1>7, TimesInjective
  <1> QED BY <1>5, <1>8

-----------------------------------------------------------------------------
(* The multiplications in the cyclic group.                                *)

\* A bit of a multiplier, as a number.
BitOf(a, i) == IF Bit(a, i) THEN 1 ELSE 0

\* One bit of one multiplier.
LEMMA WithBitTimes ==
  ASSUME NEW n \in Nat, NEW a \in Nat, NEW p \in Nat, NEW i \in Nat
  PROVE  WithBit(MultipleOf(n), <<a, MultipleOf(p)>>, i) = MultipleOf(n + p * BitOf(a, i))
  <1>1. AddPoints(MultipleOf(n), MultipleOf(p)) = MultipleOf(n + p) BY TimesAdds
  <1>2. n + p * 1 = n + p /\ n + p * 0 = n OBVIOUS
  <1> QED BY <1>1, <1>2 DEF WithBit, BitOf

\* after[k] is the sum once k of the points have had their turn.
AddSetRun(after, r, aps, bit) ==
  /\ after[0] = r
  /\ \A k \in 1 .. Len(aps) : after[k] = WithBit(after[k - 1], aps[k], bit)
  /\ AddSet(r, aps, bit) = after[Len(aps)]

\* There is such a run.
LEMMA AddSetRuns ==
  ASSUME NEW r \in Points, NEW aps \in Seq(Int \X Points), NEW bit \in Nat
  PROVE  \E after : AddSetRun(after, r, aps, bit)
  <1>1. PICK after \in [0 .. Len(aps) -> Points] :
          /\ after[0] = r
          /\ \A k \in 1 .. Len(aps) : after[k] = WithBit(after[k - 1], aps[k], bit)
          /\ AddSet(r, aps, bit) = after[Len(aps)]
    BY AddSetRounds
  <1>2. AddSetRun(after, r, aps, bit) BY <1>1 DEF AddSetRun
  <1> QED BY <1>2

\* The bits of a number below a place, and at it.
LEMMA ShiftOf ==
  ASSUME NEW a \in Nat, NEW i \in Nat
  PROVE  /\ ShiftRight(a, 0) = a
         /\ ShiftRight(a, i) \in Nat /\ ShiftRight(a, i + 1) \in Nat /\ BitOf(a, i) \in {0, 1}
         /\ ShiftRight(a, i) = 2 * ShiftRight(a, i + 1) + BitOf(a, i)
  <1>1. i + 1 \in Nat OBVIOUS
  <1>2. /\ ShiftRight(a, 0) = a
        /\ ShiftRight(a, i) = 2 * ShiftRight(a, i + 1) + (IF Bit(a, i) THEN 1 ELSE 0)
    BY ShiftSteps
  <1>3. ShiftRight(a, i) \in Nat /\ ShiftRight(a, i + 1) \in Nat BY <1>1, ShiftSteps
  <1> QED BY <1>2, <1>3 DEF BitOf

\* The arguments of batch_mul for multiples of G.
OnePoint(aps, a, p) == aps = <<<<a, MultipleOf(p)>>>>
TwoPoints(aps, a, p, b, q) == aps = <<<<a, MultipleOf(p)>>, <<b, MultipleOf(q)>>>>

\* What one bit of one multiplier adds to a multiple of G.
LEMMA AddSetOfOne ==
  ASSUME NEW n \in Nat, NEW i \in Nat, NEW a \in Nat, NEW p \in Nat,
         NEW aps, OnePoint(aps, a, p)
  PROVE  AddSet(MultipleOf(n), aps, i) = MultipleOf(n + p * BitOf(a, i))
  <1> DEFINE r == MultipleOf(n)
             ap == <<a, MultipleOf(p)>>
  <1>1. r \in Points /\ ap \in Int \X Points BY TimesSteps
  <1>2. WithBit(r, ap, i) = MultipleOf(n + p * BitOf(a, i)) BY WithBitTimes
  <1>3. aps = <<ap>> BY DEF OnePoint
  <1> HIDE DEF r, ap
  <1>4. aps \in Seq(Int \X Points) /\ Len(aps) = 1 /\ aps[1] = ap BY <1>1, <1>3
  <1>5. PICK after : AddSetRun(after, r, aps, i) BY <1>1, <1>4, AddSetRuns
  <1>6. 1 \in 1 .. Len(aps) /\ 1 - 1 = 0 BY <1>4
  <1>7. after[1] = WithBit(after[0], aps[1], i) BY <1>5, <1>6 DEF AddSetRun
  <1>8. after[0] = r /\ AddSet(r, aps, i) = after[1] BY <1>4, <1>5 DEF AddSetRun
  <1> QED BY <1>2, <1>4, <1>7, <1>8 DEF r

\* n and what one bit of each of two multipliers adds to it.
WithTwoBits(n, i, a, p, b, q) == (n + p * BitOf(a, i)) + q * BitOf(b, i)

\* That is what they add to a multiple of G.
LEMMA AddSetOfTwo ==
  ASSUME NEW n \in Nat, NEW i \in Nat, NEW a \in Nat, NEW p \in Nat, NEW b \in Nat, NEW q \in Nat,
         NEW aps, TwoPoints(aps, a, p, b, q)
  PROVE  AddSet(MultipleOf(n), aps, i) = MultipleOf(WithTwoBits(n, i, a, p, b, q))
  <1> DEFINE r == MultipleOf(n)
             ap == <<a, MultipleOf(p)>>
             bq == <<b, MultipleOf(q)>>
             m == n + p * BitOf(a, i)
  <1>1. r \in Points /\ ap \in Int \X Points /\ bq \in Int \X Points BY TimesSteps
  <1>2. m \in Nat BY DEF BitOf
  <1>3. WithBit(r, ap, i) = MultipleOf(m) BY WithBitTimes
  <1>4. WithBit(MultipleOf(m), bq, i) = MultipleOf(m + q * BitOf(b, i))
    <2> HIDE DEF m
    <2> QED BY <1>2, WithBitTimes
  <1>5. aps = <<ap, bq>> BY DEF TwoPoints
  <1> HIDE DEF r, ap, bq, m
  <1>6. aps \in Seq(Int \X Points) /\ Len(aps) = 2 /\ aps[1] = ap /\ aps[2] = bq BY <1>1, <1>5
  <1>7. PICK after : AddSetRun(after, r, aps, i) BY <1>1, <1>6, AddSetRuns
  <1>8. 1 \in 1 .. Len(aps) /\ 2 \in 1 .. Len(aps) /\ 1 - 1 = 0 /\ 2 - 1 = 1 BY <1>6
  <1>9. /\ after[1] = WithBit(after[0], aps[1], i)
        /\ after[2] = WithBit(after[1], aps[2], i)
    BY <1>7, <1>8 DEF AddSetRun
  <1>10. after[0] = r /\ AddSet(r, aps, i) = after[2] BY <1>6, <1>7 DEF AddSetRun
  <1> QED BY <1>3, <1>4, <1>6, <1>9, <1>10 DEF r, m, WithTwoBits

\* From bit i + 1 on the multiple is e[i + 1], and one round makes it e[i].
RoundMakes(aps, e, i) ==
  AddSet(MultipleOf(e[i + 1] + e[i + 1]), aps, i) = MultipleOf(e[i])

\* Then the whole loop makes e[0].
LEMMA BatchMulMakes ==
  ASSUME NEW aps \in Seq(Int \X Points), NEW e \in [0 .. BitWidth -> Nat],
         e[BitWidth] = 0, \A i \in 0 .. BitWidth - 1 : RoundMakes(aps, e, i)
  PROVE  BatchMul(aps) = MultipleOf(e[0])
  <1>1. BitWidth \in Nat BY WidthAssumption
  <1>2. PICK after \in [0 .. BitWidth -> Points] :
          /\ after[0] = Infinity
          /\ \A m \in 1 .. BitWidth :
               after[m] = WithRound(after[m - 1], aps, BitWidth - m)
          /\ BatchMul(aps) = after[BitWidth]
    BY BatchMulRounds
  <1> DEFINE Good == {m \in Nat : m <= BitWidth => after[m] = MultipleOf(e[BitWidth - m])}
  <1>3. 0 \in Good
    <2>1. BitWidth - 0 = BitWidth BY <1>1
    <2> QED BY <1>2, <2>1, TimesSteps
  <1>4. ASSUME NEW m \in Nat, m \in Good PROVE m + 1 \in Good
    <2> SUFFICES ASSUME m + 1 <= BitWidth
                 PROVE  after[m + 1] = MultipleOf(e[BitWidth - (m + 1)])
      OBVIOUS
    <2> DEFINE i == BitWidth - (m + 1)
               k == e[i + 1]
    <2>1. /\ m + 1 \in 1 .. BitWidth /\ (m + 1) - 1 = m /\ m <= BitWidth
          /\ i \in 0 .. BitWidth - 1 /\ i + 1 = BitWidth - m /\ i + 1 \in 0 .. BitWidth
      BY <1>1
    <2> HIDE DEF i
    <2>2. k \in Nat /\ after[m] = MultipleOf(k) BY <1>4, <2>1
    <2>3. after[m + 1] = AddSet(AddPoints(after[m], after[m]), aps, i)
      BY <1>2, <2>1 DEF i, WithRound
    <2>4. RoundMakes(aps, e, i) BY <2>1
    <2>5. AddSet(MultipleOf(k + k), aps, i) = MultipleOf(e[i]) BY <2>4 DEF RoundMakes
    <2> HIDE DEF k
    <2>6. AddPoints(MultipleOf(k), MultipleOf(k)) = MultipleOf(k + k) BY <2>2, TimesAdds
    <2> QED BY <2>2, <2>3, <2>5, <2>6 DEF i
  <1> HIDE DEF Good
  <1>5. \A m \in Nat : m \in Good BY <1>3, <1>4, CountingUp
  <1>6. after[BitWidth] = MultipleOf(e[BitWidth - BitWidth]) BY <1>1, <1>5 DEF Good
  <1>7. BitWidth - BitWidth = 0 BY <1>1
  <1> QED BY <1>2, <1>6, <1>7

\* The numbers of one round.
LEMMA RoundNumbers ==
  ASSUME NEW p \in Nat, NEW s \in Nat, NEW t \in Nat, NEW x \in {0, 1}, s = 2 * t + x
  PROVE  (p * t + p * t) + p * x = p * s
  <1>1. x \in Int OBVIOUS
  <1>2. p * s = p * (2 * t + x) OBVIOUS
  <1> HIDE <1>2
  <1>3. p * (2 * t + x) = p * t + p * t + p * x BY <1>1
  <1> QED BY <1>1, <1>2, <1>3

\* a * (p * G) by double-and-add.
LEMMA BatchMulOne ==
  ASSUME NEW a \in Scalars, NEW p \in Nat
  PROVE  BatchMul(<<<<a, MultipleOf(p)>>>>) = MultipleOf(p * a)
  <1> DEFINE e == [i \in 0 .. BitWidth |-> p * ShiftRight(a, i)]
             aps == <<<<a, MultipleOf(p)>>>>
  <1>1. a \in Nat /\ ShiftRight(a, BitWidth) = 0 /\ BitWidth \in Nat
    BY ScalarWidth, WidthAssumption
  <1>2. aps \in Seq(Int \X Points) BY <1>1, TimesSteps
  <1>3. e \in [0 .. BitWidth -> Nat] /\ e[BitWidth] = 0 /\ e[0] = p * a
    <2>1. ASSUME NEW i \in 0 .. BitWidth PROVE p * ShiftRight(a, i) \in Nat
      <3>1. i \in Nat BY <1>1
      <3>2. ShiftRight(a, i) \in Nat BY <1>1, <3>1, ShiftOf
      <3> QED BY <3>2
    <2>2. e[BitWidth] = p * 0 /\ e[0] = p * a BY <1>1, ShiftSteps
    <2> QED BY <2>1, <2>2
  <1>4. ASSUME NEW i \in 0 .. BitWidth - 1 PROVE RoundMakes(aps, e, i)
    <2> DEFINE s == ShiftRight(a, i)
               t == ShiftRight(a, i + 1)
               x == BitOf(a, i)
    <2>1. i \in Nat /\ i \in 0 .. BitWidth /\ i + 1 \in 0 .. BitWidth BY <1>1
    <2>2. s \in Nat /\ t \in Nat /\ x \in {0, 1} /\ s = 2 * t + x
      BY <1>1, <2>1, ShiftOf
    <2>3. e[i] = p * s /\ e[i + 1] = p * t BY <2>1
    <2> HIDE DEF e, s, t
    <2>4. p * t + p * t \in Nat BY <2>2
    <2> DEFINE n == p * t + p * t
    <2>5. AddSet(MultipleOf(n), aps, i) = MultipleOf(n + p * BitOf(a, i))
      <3>1. n \in Nat BY <2>4
      <3>2. OnePoint(aps, a, p) BY DEF OnePoint
      <3> HIDE DEF n, aps
      <3> QED BY <1>1, <2>1, <3>1, <3>2, AddSetOfOne
    <2>6. n + p * x = p * s
      <3> HIDE DEF x
      <3> QED BY <2>2, RoundNumbers
    <2> QED BY <2>3, <2>5, <2>6 DEF RoundMakes
  <1> HIDE DEF e, aps
  <1>5. BatchMul(aps) = MultipleOf(e[0]) BY <1>2, <1>3, <1>4, BatchMulMakes
  <1> QED BY <1>3, <1>5 DEF aps

\* a * (p * G) + b * (q * G), in one loop.
LEMMA BatchMulTwo ==
  ASSUME NEW a \in Scalars, NEW p \in Nat, NEW b \in Scalars, NEW q \in Nat
  PROVE  BatchMul(<<<<a, MultipleOf(p)>>, <<b, MultipleOf(q)>>>>) = MultipleOf(p * a + q * b)
  <1> DEFINE e == [i \in 0 .. BitWidth |-> p * ShiftRight(a, i) + q * ShiftRight(b, i)]
             aps == <<<<a, MultipleOf(p)>>, <<b, MultipleOf(q)>>>>
  <1>1. /\ a \in Nat /\ ShiftRight(a, BitWidth) = 0 /\ BitWidth \in Nat
        /\ b \in Nat /\ ShiftRight(b, BitWidth) = 0
    BY ScalarWidth, WidthAssumption
  <1>2. aps \in Seq(Int \X Points) BY <1>1, TimesSteps
  <1>3. e \in [0 .. BitWidth -> Nat] /\ e[BitWidth] = 0 /\ e[0] = p * a + q * b
    <2>1. ASSUME NEW i \in 0 .. BitWidth
          PROVE  p * ShiftRight(a, i) + q * ShiftRight(b, i) \in Nat
      <3>1. i \in Nat BY <1>1
      <3>2. ShiftRight(a, i) \in Nat /\ ShiftRight(b, i) \in Nat BY <1>1, <3>1, ShiftOf
      <3> QED BY <3>2
    <2>2. e[BitWidth] = p * 0 + q * 0 /\ e[0] = p * a + q * b BY <1>1, ShiftSteps
    <2> QED BY <2>1, <2>2
  <1>4. \A n, i \in Nat :
          AddSet(MultipleOf(n), aps, i) = MultipleOf(WithTwoBits(n, i, a, p, b, q))
    <2>1. TwoPoints(aps, a, p, b, q) BY DEF TwoPoints
    <2>2. a \in Nat /\ b \in Nat BY <1>1
    <2> HIDE DEF aps, e
    <2> QED BY <2>1, <2>2, AddSetOfTwo
  <1>5. ASSUME NEW i \in 0 .. BitWidth - 1 PROVE RoundMakes(aps, e, i)
    <2> DEFINE s == ShiftRight(a, i)
               t == ShiftRight(a, i + 1)
               x == BitOf(a, i)
               u == ShiftRight(b, i)
               v == ShiftRight(b, i + 1)
               y == BitOf(b, i)
    <2>1. i \in Nat /\ i \in 0 .. BitWidth /\ i + 1 \in 0 .. BitWidth BY <1>1
    <2>2. /\ s \in Nat /\ t \in Nat /\ x \in {0, 1} /\ s = 2 * t + x
          /\ u \in Nat /\ v \in Nat /\ y \in {0, 1} /\ u = 2 * v + y
      BY <1>1, <2>1, ShiftOf
    <2>3. e[i] = p * s + q * u /\ e[i + 1] = p * t + q * v BY <2>1
    <2> HIDE DEF e, s, t, u, v
    <2> DEFINE c == p * t
               d == q * v
               n == (c + d) + (c + d)
    <2>4. c \in Nat /\ d \in Nat /\ n \in Nat BY <2>2
    <2>5. AddSet(MultipleOf(n), aps, i) = MultipleOf(WithTwoBits(n, i, a, p, b, q))
      <3> HIDE DEF n, aps
      <3> QED BY <1>4, <2>1, <2>4
    <2>6. (c + c) + p * x = p * s /\ (d + d) + q * y = q * u
      <3> HIDE DEF x, y
      <3> QED BY <2>2, RoundNumbers
    <2>7. (n + p * x) + q * y = p * s + q * u
      <3> DEFINE f == p * x
                 g == q * y
      <3>1. f \in Int /\ g \in Int
        <4>1. x \in Int /\ y \in Int BY <2>2
        <4> HIDE DEF x, y
        <4> QED BY <4>1
      <3> HIDE DEF x, y, c, d, f, g
      <3>2. (n + f) + g = ((c + c) + f) + ((d + d) + g) BY <2>4, <3>1
      <3> QED BY <2>6, <3>2 DEF f, g
    <2>8. WithTwoBits(n, i, a, p, b, q) = p * s + q * u BY <2>7 DEF WithTwoBits
    <2> QED BY <2>3, <2>5, <2>8 DEF RoundMakes
  <1> HIDE DEF e, aps
  <1>6. BatchMul(aps) = MultipleOf(e[0]) BY <1>2, <1>3, <1>5, BatchMulMakes
  <1> QED BY <1>3, <1>6 DEF aps

\* Before bit m the table's next entry is w * G; what is summed up to there and
\* what is left of a make a * G.
LowBitsSummed(after, a, m) ==
  \E l \in Nat, w \in Nat :
    /\ after[m] = MultipleOf(l) /\ l + w * ShiftRight(a, m) = a
    /\ m < BitWidth => FastG[m + 1] = MultipleOf(w)

\* a * G from the table.
LEMMA FastMulTimes ==
  ASSUME NEW a \in Scalars
  PROVE  FastMul(FastG, a) = MultipleOf(a)
  <1> DEFINE n == BitLength(a)
  <1>1. a \in Nat /\ n \in 0 .. BitWidth /\ ShiftRight(a, n) = 0 /\ BitWidth \in Nat \ {0}
    BY ScalarWidth, WidthAssumption
  <1>2. /\ FastG \in [1 .. BitWidth -> Points] /\ FastG[1] = G
        /\ \A j \in 1 .. BitWidth - 1 : FastG[j + 1] = AddPoints(FastG[j], FastG[j])
    BY BaseIsPoint, FastTableEntries DEF FastG
  <1>3. PICK after \in [0 .. n -> Points] :
          /\ after[0] = Infinity
          /\ \A m \in 1 .. n : after[m] = WithEntry(after[m - 1], FastG, a, m)
          /\ FastMul(FastG, a) = after[n]
    BY <1>1, <1>2, FastMulRounds
  <1> HIDE DEF n
  <1> DEFINE Good == {m \in Nat : m <= n => LowBitsSummed(after, a, m)}
  <1>4. 0 \in Good
    <2>1. 0 + 1 * ShiftRight(a, 0) = a /\ 0 \in Nat /\ 1 \in Nat BY <1>1, ShiftSteps
    <2>2. after[0] = MultipleOf(0) /\ FastG[0 + 1] = MultipleOf(1) BY <1>2, <1>3, TimesSteps
    <2>3. LowBitsSummed(after, a, 0) BY <2>1, <2>2 DEF LowBitsSummed
    <2> QED BY <2>3
  <1>5. ASSUME NEW m \in Nat, m \in Good PROVE m + 1 \in Good
    <2> SUFFICES ASSUME m + 1 <= n PROVE LowBitsSummed(after, a, m + 1) OBVIOUS
    <2>1. /\ m <= n /\ m < BitWidth /\ m + 1 \in 1 .. n /\ (m + 1) - 1 = m
          /\ m + 1 \in Nat
      BY <1>1
    <2>2. LowBitsSummed(after, a, m) BY <1>5, <2>1
    <2>3. PICK l \in Nat, w \in Nat :
            /\ after[m] = MultipleOf(l) /\ l + w * ShiftRight(a, m) = a
            /\ FastG[m + 1] = MultipleOf(w)
      BY <2>1, <2>2 DEF LowBitsSummed
    <2> DEFINE s == ShiftRight(a, m)
               t == ShiftRight(a, m + 1)
               x == BitOf(a, m)
               k == l + w * x
               v == w + w
    <2>4. s \in Nat /\ t \in Nat /\ x \in {0, 1} /\ s = 2 * t + x BY <1>1, ShiftOf
    <2>5. after[m + 1] = MultipleOf(k)
      <3>1. after[m + 1] = WithEntry(MultipleOf(l), FastG, a, m + 1) BY <1>3, <2>1, <2>3
      <3>2. AddPoints(MultipleOf(l), MultipleOf(w)) = MultipleOf(l + w) BY TimesAdds
      <3>3. l + w * 1 = l + w /\ l + w * 0 = l OBVIOUS
      <3>4. after[m + 1] = IF Bit(a, m) THEN MultipleOf(l + w) ELSE MultipleOf(l)
        BY <2>1, <2>3, <3>1, <3>2 DEF WithEntry
      <3> QED BY <3>3, <3>4 DEF BitOf
    <2>6. k \in Nat /\ v \in Nat
      <3>1. x = 0 \/ x = 1 BY <2>4
      <3> HIDE DEF x
      <3> QED BY <3>1
    <2>7. k + v * t = a
      <3>1. l + w * s = a BY <2>3
      <3> HIDE DEF s, t, x
      <3>2. w * s = (w * t + w * t) + w * x BY <2>4, RoundNumbers
      <3> DEFINE f == w * t
                 g == w * x
                 h == w * s
      <3>3. f \in Int /\ g \in Int /\ h \in Int
        <4>1. x \in Int BY <2>4
        <4> QED BY <2>4, <4>1
      <3>4. v * t = f + f BY <2>4
      <3>5. k = l + g /\ l + h = a /\ h = (f + f) + g BY <3>1, <3>2
      <3> HIDE DEF f, g, h, k, v
      <3> QED BY <1>1, <3>3, <3>4, <3>5
    <2>8. ASSUME m + 1 < BitWidth PROVE FastG[(m + 1) + 1] = MultipleOf(v)
      <3>1. m + 1 \in 1 .. BitWidth - 1 BY <1>1, <2>8
      <3>2. FastG[(m + 1) + 1] = AddPoints(FastG[m + 1], FastG[m + 1]) BY <1>2, <3>1
      <3> QED BY <2>3, <3>2, TimesAdds
    <2> HIDE DEF k, v, t
    <2> QED BY <2>5, <2>6, <2>7, <2>8 DEF LowBitsSummed, t
  <1> HIDE DEF Good
  <1>6. \A m \in Nat : m \in Good BY <1>4, <1>5, CountingUp
  <1>7. LowBitsSummed(after, a, n)
    <2>1. n \in Nat /\ n <= n BY <1>1
    <2> QED BY <1>6, <2>1 DEF Good
  <1>8. PICK l \in Nat, w \in Nat : after[n] = MultipleOf(l) /\ l + w * ShiftRight(a, n) = a
    BY <1>7 DEF LowBitsSummed
  <1>9. l + w * 0 = l OBVIOUS
  <1> QED BY <1>1, <1>3, <1>8, <1>9

-----------------------------------------------------------------------------
(* GE implements the cyclic group.                                         *)

\* The points the first program reaches.
CyclicGroup == {MultipleOf(k) : k \in Scalars}

\* Sums of multiples of G.
LEMMA SumsOfMultiples ==
  ASSUME NEW p \in Scalars, NEW q \in Scalars
  PROVE  /\ Add(p, q) \in Scalars
         /\ AddPoints(MultipleOf(p), MultipleOf(q)) = MultipleOf(Add(p, q))
         /\ Sub(p, q) \in Scalars
         /\ SubPoints(MultipleOf(p), MultipleOf(q)) = MultipleOf(Sub(p, q))
         /\ Neg(p) \in Scalars
         /\ NegPoint(MultipleOf(p)) = MultipleOf(Neg(p))
  <1>1. ASSUME NEW i \in Scalars, NEW j \in Scalars
        PROVE  /\ Add(i, j) \in Scalars
               /\ AddPoints(MultipleOf(i), MultipleOf(j)) = MultipleOf(Add(i, j))
    <2>1. i \in Nat /\ j \in Nat BY ScalarWidth
    <2>2. i + j \in Nat /\ AddPoints(MultipleOf(i), MultipleOf(j)) = MultipleOf(i + j)
      BY <2>1, TimesAdds
    <2> QED BY <2>2, TimesReduce DEF Add
  <1>2. /\ Neg(p) \in Scalars /\ NegPoint(MultipleOf(p)) = MultipleOf(Neg(p))
        /\ Neg(q) \in Scalars /\ NegPoint(MultipleOf(q)) = MultipleOf(Neg(q))
    BY TimesNeg
  <1>3. /\ Sub(p, q) \in Scalars
        /\ SubPoints(MultipleOf(p), MultipleOf(q)) = MultipleOf(Sub(p, q))
    BY <1>1, <1>2 DEF Sub, SubPoints
  <1> QED BY <1>1, <1>2, <1>3

\* Products of multiples of G, with the table and with double-and-add.
LEMMA ProductsOfMultiples ==
  ASSUME NEW p \in Scalars, NEW q \in Scalars, NEW a \in Int, NEW b \in Int
  PROVE  /\ Mul(ScalarOf(a), p) \in Scalars
         /\ RMul(a, MultipleOf(p)) = MultipleOf(Mul(ScalarOf(a), p))
         /\ Add(Mul(ScalarOf(a), p), Mul(ScalarOf(b), q)) \in Scalars
         /\ BatchMul(<<<<a % Order, MultipleOf(p)>>, <<b % Order, MultipleOf(q)>>>>)
              = MultipleOf(Add(Mul(ScalarOf(a), p), Mul(ScalarOf(b), q)))
  <1> DEFINE r == a % Order
             s == b % Order
  <1>1. r \in Scalars /\ s \in Scalars /\ ScalarOf(a) = r /\ ScalarOf(b) = s
    BY Division DEF ScalarOf
  <1> HIDE DEF r, s
  <1>2. p \in Nat /\ q \in Nat /\ r \in Nat /\ s \in Nat BY <1>1, ScalarWidth
  <1>3. ASSUME NEW i \in Scalars, NEW j \in Scalars
        PROVE  /\ Mul(i, j) \in Scalars
               /\ MultipleOf(j * i) = MultipleOf(Mul(i, j))
    <2> DEFINE m == i * j
    <2>1. i \in Nat /\ j \in Nat BY ScalarWidth
    <2>2. m \in Nat /\ j * i = m BY <2>1
    <2>3. Mul(i, j) = m % Order BY DEF Mul
    <2> HIDE DEF m
    <2> QED BY <2>2, <2>3, TimesReduce
  <1>4. RMul(a, MultipleOf(p)) = MultipleOf(Mul(r, p))
    <2>1. MultipleOf(p) \in Points /\ G \in Points BY <1>2, TimesSteps, BaseIsPoint
    <2>2. EqualPoints(MultipleOf(p), G) <=> MultipleOf(p) = G BY <2>1, EqualIsSame
    <2>3. CASE MultipleOf(p) = G
      <3>1. 1 \in Scalars /\ MultipleOf(1) = G BY UnitsAreScalars, TimesSteps
      <3>2. p = 1 BY <2>3, <3>1, TimesInjective
      <3>3. Mul(r, p) = r BY <1>1, <3>2, UnitsAndNegation
      <3>4. FastMul(FastG, r) = MultipleOf(r) BY <1>1, FastMulTimes
      <3> QED BY <2>2, <2>3, <3>3, <3>4 DEF RMul, r
    <2>4. CASE MultipleOf(p) # G
      <3>1. BatchMul(<<<<r, MultipleOf(p)>>>>) = MultipleOf(p * r) BY <1>1, <1>2, BatchMulOne
      <3>2. MultipleOf(p * r) = MultipleOf(Mul(r, p)) BY <1>1, <1>3
      <3> QED BY <2>2, <2>4, <3>1, <3>2 DEF RMul, r
    <2> QED BY <2>3, <2>4
  <1>5. BatchMul(<<<<r, MultipleOf(p)>>, <<s, MultipleOf(q)>>>>)
          = MultipleOf(Add(Mul(r, p), Mul(s, q)))
    <2> DEFINE i == Mul(r, p)
               j == Mul(s, q)
    <2>1. BatchMul(<<<<r, MultipleOf(p)>>, <<s, MultipleOf(q)>>>>) = MultipleOf(p * r + q * s)
      BY <1>1, <1>2, BatchMulTwo
    <2>2. p * r \in Nat /\ q * s \in Nat BY <1>2
    <2>3. MultipleOf(p * r + q * s) = AddPoints(MultipleOf(p * r), MultipleOf(q * s))
      <3> DEFINE c == p * r
                 d == q * s
      <3>1. c \in Nat /\ d \in Nat BY <2>2
      <3> HIDE DEF c, d
      <3>2. MultipleOf(c + d) = AddPoints(MultipleOf(c), MultipleOf(d)) BY <3>1, TimesAdds
      <3> QED BY <3>2 DEF c, d
    <2>4. /\ i \in Scalars /\ MultipleOf(p * r) = MultipleOf(i)
          /\ j \in Scalars /\ MultipleOf(q * s) = MultipleOf(j)
      BY <1>1, <1>3
    <2> HIDE DEF i, j
    <2>5. AddPoints(MultipleOf(i), MultipleOf(j)) = MultipleOf(Add(i, j))
      BY <2>4, SumsOfMultiples
    <2> QED BY <2>1, <2>3, <2>4, <2>5 DEF i, j
  <1>6. /\ Mul(r, p) \in Scalars /\ Mul(s, q) \in Scalars
        /\ Add(Mul(r, p), Mul(s, q)) \in Scalars
    BY <1>1, <1>3, Closed
  <1> QED BY <1>1, <1>4, <1>5, <1>6 DEF r, s

\* The abstract operators are those of PrimeField.
LEMMA SameGroupOperators ==
  \A a, b : /\ Group!Add(a, b) = Add(a, b) /\ Group!Sub(a, b) = Sub(a, b)
            /\ Group!Neg(a) = Neg(a) /\ Group!Mul(a, b) = Mul(a, b)
            /\ Group!ScalarOf(a) = ScalarOf(a)
  BY DEF Group!Add, Add, Group!Sub, Sub, Group!Neg, Neg, Group!Mul, Mul, Group!ScalarOf, ScalarOf

\* The first program stays in the group that G generates.
CyclicInv == P \in CyclicGroup /\ Q \in CyclicGroup

\* The multiple of a scalar, and its logarithm.
LEMMA LogInGroup ==
  ASSUME NEW k \in Scalars, NEW R, R = MultipleOf(k)
  PROVE  R \in CyclicGroup /\ Log(R) = k
  BY LogOfTimes DEF CyclicGroup

\* Both programs start with G, the multiple of 1.
LEMMA GroupInit == Init => CyclicInv /\ Group!Init
  <1>1. 1 \in Scalars /\ G = MultipleOf(1) BY UnitsAreScalars, TimesSteps
  <1>2. G \in CyclicGroup /\ Log(G) = 1 BY <1>1, LogInGroup
  <1> QED BY <1>2 DEF Init, CyclicInv, Group!Init

\* A step of either program is a step of the cyclic group, or none.
LEMMA GroupStep ==
  ASSUME CyclicInv, [Next]_vars
  PROVE  CyclicInv' /\ [Group!Next]_(Group!vars)
  <1>1. PICK p \in Scalars, q \in Scalars : P = MultipleOf(p) /\ Q = MultipleOf(q)
    BY DEF CyclicInv, CyclicGroup
  <1>2. Log(P) = p /\ Log(Q) = q BY <1>1, LogInGroup
  <1>3. ASSUME NEW x \in Scalars, NEW y \in Scalars, P' = MultipleOf(x), Q' = MultipleOf(y)
        PROVE  CyclicInv' /\ Log(P)' = x /\ Log(Q)' = y
    <2>1. P' \in CyclicGroup /\ Log(P') = x BY <1>3, LogInGroup
    <2>2. Q' \in CyclicGroup /\ Log(Q') = y BY <1>3, LogInGroup
    <2> QED BY <2>1, <2>2 DEF CyclicInv
  <1>4. CASE Addition
    <2>1. Add(p, q) \in Scalars /\ P' = MultipleOf(Add(p, q)) /\ Q' = MultipleOf(q)
      BY <1>1, <1>4, SumsOfMultiples DEF Addition
    <2>2. CyclicInv' /\ Log(P)' = Add(p, q) /\ Log(Q)' = q BY <1>3, <2>1
    <2> QED BY <1>2, <2>2, SameGroupOperators DEF Group!Next
  <1>5. CASE Subtraction
    <2>1. Sub(p, q) \in Scalars /\ P' = MultipleOf(Sub(p, q)) /\ Q' = MultipleOf(q)
      BY <1>1, <1>5, SumsOfMultiples DEF Subtraction
    <2>2. CyclicInv' /\ Log(P)' = Sub(p, q) /\ Log(Q)' = q BY <1>3, <2>1
    <2> QED BY <1>2, <2>2, SameGroupOperators DEF Group!Next
  <1>6. CASE Negation
    <2>1. Neg(p) \in Scalars /\ P' = MultipleOf(Neg(p)) /\ Q' = MultipleOf(q)
      BY <1>1, <1>6, SumsOfMultiples DEF Negation
    <2>2. CyclicInv' /\ Log(P)' = Neg(p) /\ Log(Q)' = q BY <1>3, <2>1
    <2> QED BY <1>2, <2>2, SameGroupOperators DEF Group!Next
  <1>7. CASE Exchange
    <2>1. P' = MultipleOf(q) /\ Q' = MultipleOf(p) BY <1>1, <1>7 DEF Exchange
    <2>2. CyclicInv' /\ Log(P)' = q /\ Log(Q)' = p BY <1>3, <2>1
    <2> QED BY <1>2, <2>2 DEF Group!Next
  <1>8. CASE Multiplication
    <2>1. PICK a \in Multipliers : P' = RMul(a, P) /\ UNCHANGED Q BY <1>8 DEF Multiplication
    <2> DEFINE x == Mul(ScalarOf(a), p)
    <2>2. a \in Int BY ProgramsAssumption
    <2>3. x \in Scalars /\ P' = MultipleOf(x) /\ Q' = MultipleOf(q)
      BY <1>1, <2>1, <2>2, ProductsOfMultiples
    <2> HIDE DEF x
    <2>4. CyclicInv' /\ Log(P)' = x /\ Log(Q)' = q BY <1>3, <2>3
    <2>5. Log(P)' = Group!Mul(Group!ScalarOf(a), Log(P)) BY <1>2, <2>4, SameGroupOperators DEF x
    <2>6. UNCHANGED Log(Q) BY <1>2, <2>4
    <2> QED BY <2>4, <2>5, <2>6 DEF Group!Next
  <1>9. CASE BatchMultiplication
    <2>1. PICK a \in Multipliers, b \in Multipliers :
            P' = BatchMul(<<<<a % Order, P>>, <<b % Order, Q>>>>) /\ UNCHANGED Q
      BY <1>9 DEF BatchMultiplication
    <2> DEFINE x == Add(Mul(ScalarOf(a), p), Mul(ScalarOf(b), q))
    <2>2. a \in Int /\ b \in Int BY ProgramsAssumption
    <2>3. x \in Scalars /\ P' = MultipleOf(x) /\ Q' = MultipleOf(q)
      BY <1>1, <2>1, <2>2, ProductsOfMultiples
    <2> HIDE DEF x
    <2>4. CyclicInv' /\ Log(P)' = x /\ Log(Q)' = q BY <1>3, <2>3
    <2>5. Log(P)' = Group!Add(Group!Mul(Group!ScalarOf(a), Log(P)),
                              Group!Mul(Group!ScalarOf(b), Log(Q)))
      BY <1>2, <2>4, SameGroupOperators DEF x
    <2>6. UNCHANGED Log(Q) BY <1>2, <2>4
    <2> QED BY <2>4, <2>5, <2>6 DEF Group!Next
  <1>10. CASE Parsing \/ UNCHANGED vars
    <2>1. P' = P /\ Q' = Q BY <1>10 DEF Parsing, points, vars
    <2>2. CyclicInv' /\ Log(P)' = p /\ Log(Q)' = q BY <1>1, <1>3, <2>1
    <2> QED BY <1>2, <2>2 DEF Group!vars
  <1> QED BY <1>4, <1>5, <1>6, <1>7, <1>8, <1>9, <1>10 DEF Next, Arithmetic

\* The coordinate formulas, double-and-add and the table of powers compute in
\* the cyclic group of order Order, whatever the field, the curve's group and
\* the multipliers.
THEOREM GroupTheorem == Spec => ImplementsGroup
  <1>1. Init => CyclicInv /\ Group!Init BY GroupInit
  <1>2. CyclicInv /\ [Next]_vars => CyclicInv' /\ [Group!Next]_(Group!vars) BY GroupStep
  <1> QED BY <1>1, <1>2, PTL DEF Spec, ImplementsGroup, Group!Spec
=============================================================================
