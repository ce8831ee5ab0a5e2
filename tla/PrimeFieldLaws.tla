---------------------------- MODULE PrimeFieldLaws ----------------------------
(***************************************************************************)
(* The arithmetic of residues modulo a prime Order, proved from the          *)
(* definition of %: Order is a field.                                       *)
(*                                                                         *)
(* Sums and products are folds over a finite set, in an order that CHOOSE    *)
(* picks.  Addition and multiplication commute, so that any element can be   *)
(* taken out first, and the laws of sums follow by induction over subsets.   *)
(***************************************************************************)
EXTENDS PrimeField, FiniteSetsExt, TLAPS, FiniteSetTheorems, WellFoundedInduction

-----------------------------------------------------------------------------
(* Residues.                                                               *)

\* Euclidean division by Order.
LEMMA Division ==
  ASSUME NEW a \in Int
  PROVE  /\ (a % Order) \in Scalars
         /\ a \div Order \in Int
         /\ a = Order * (a \div Order) + (a % Order)
  BY OrderAssumption DEF Scalars

\* No nonzero multiple of Order lies strictly between -Order and Order.
LEMMA MultipleGap ==
  ASSUME NEW k \in Int, k # 0, NEW r \in -(Order - 1) .. (Order - 1)
  PROVE  Order * k # r
  <1>1. CASE k >= 1
    <2>1. Order * k >= Order BY <1>1, OrderAssumption
    <2> QED BY <2>1, OrderAssumption
  <1>2. CASE k <= -1
    <2>1. Order * k <= -Order BY <1>2, OrderAssumption
    <2> QED BY <2>1, OrderAssumption
  <1> QED BY <1>1, <1>2

\* Numbers that differ by a multiple of Order have the same residue.
LEMMA SameResidue ==
  ASSUME NEW a \in Int, NEW b \in Int, NEW k \in Int, a = b + Order * k
  PROVE  (a % Order) = (b % Order)
  <1> DEFINE da == a \div Order
             db == b \div Order
             ra == a % Order
             rb == b % Order
             m == db + k - da
  <1>1. a = Order * da + ra /\ da \in Int /\ ra \in Scalars BY Division
  <1>2. b = Order * db + rb /\ db \in Int /\ rb \in Scalars BY Division
  <1> HIDE DEF da, db, ra, rb
  <1>3. m \in Int BY <1>1, <1>2
  <1>4. Order * m = ra - rb BY <1>1, <1>2, OrderAssumption DEF Scalars
  <1>5. ra - rb \in -(Order - 1) .. (Order - 1)
    BY <1>1, <1>2, OrderAssumption DEF Scalars
  <1> HIDE DEF m
  <1>6. m = 0 BY <1>3, <1>4, <1>5, MultipleGap
  <1>7. ra = rb BY <1>1, <1>2, <1>4, <1>6, OrderAssumption DEF Scalars
  <1> QED BY <1>7 DEF ra, rb

\* A number in range is its own residue.
LEMMA SmallResidue ==
  ASSUME NEW a \in Scalars
  PROVE  (a % Order) = a
  BY OrderAssumption DEF Scalars

\* A summand may be reduced before adding.
LEMMA ReduceSummand ==
  ASSUME NEW a \in Int, NEW b \in Int
  PROVE  /\ (((a % Order) + b) % Order) = ((a + b) % Order)
         /\ ((a + (b % Order)) % Order) = ((a + b) % Order)
  <1> DEFINE qa == a \div Order
             qb == b \div Order
             ra == a % Order
             rb == b % Order
  <1>1. a = Order * qa + ra /\ qa \in Int /\ ra \in Int
    BY Division, OrderAssumption DEF Scalars
  <1>2. b = Order * qb + rb /\ qb \in Int /\ rb \in Int
    BY Division, OrderAssumption DEF Scalars
  <1> HIDE DEF qa, qb, ra, rb
  <1>3. a + b = (ra + b) + Order * qa BY <1>1, OrderAssumption
  <1>4. a + b = (a + rb) + Order * qb BY <1>2, OrderAssumption
  <1>5. ((a + b) % Order) = ((ra + b) % Order) BY <1>1, <1>3, SameResidue
  <1>6. ((a + b) % Order) = ((a + rb) % Order) BY <1>2, <1>4, SameResidue
  <1> QED BY <1>5, <1>6 DEF ra, rb

\* A factor may be reduced before multiplying.
LEMMA ReduceFactor ==
  ASSUME NEW a \in Int, NEW b \in Int
  PROVE  /\ (((a % Order) * b) % Order) = ((a * b) % Order)
         /\ ((b * (a % Order)) % Order) = ((b * a) % Order)
  <1> DEFINE qa == a \div Order
             ra == a % Order
  <1>1. a = Order * qa + ra /\ qa \in Int /\ ra \in Int
    BY Division, OrderAssumption DEF Scalars
  <1> HIDE DEF qa, ra
  <1>2. a * b = (ra * b) + Order * (qa * b) BY <1>1, OrderAssumption
  <1>3. ra * b \in Int /\ a * b \in Int /\ qa * b \in Int BY <1>1
  <1>4. ((a * b) % Order) = ((ra * b) % Order) BY <1>2, <1>3, SameResidue
  <1>5. b * ra = ra * b /\ b * a = a * b BY <1>1
  <1> QED BY <1>4, <1>5 DEF ra

-----------------------------------------------------------------------------
(* The ring laws.                                                          *)

\* Every operation of Scalar returns a reduced value.
LEMMA Closed ==
  ASSUME NEW a \in Scalars, NEW b \in Scalars
  PROVE  /\ Add(a, b) \in Scalars
         /\ Mul(a, b) \in Scalars
         /\ Neg(a) \in Scalars
         /\ Sub(a, b) \in Scalars
         /\ 0 \in Scalars /\ 1 \in Scalars
         /\ a \in Int
  <1>1. a \in Int /\ b \in Int /\ -a \in Int /\ a + b \in Int /\ a * b \in Int
    BY OrderAssumption DEF Scalars
  <1>2. Neg(a) \in Scalars /\ Neg(b) \in Scalars
    BY <1>1, Division, -b \in Int DEF Neg
  <1>3. a + Neg(b) \in Int BY <1>1, <1>2, OrderAssumption DEF Scalars
  <1>4. Sub(a, b) \in Scalars BY <1>3, Division DEF Sub, Add
  <1>5. 0 \in Scalars /\ 1 \in Scalars BY OrderAssumption DEF Scalars
  <1> QED BY <1>1, <1>2, <1>4, <1>5, Division DEF Add, Mul

\* Zero, one and minus one are scalars.
LEMMA UnitsAreScalars ==
  0 \in Scalars /\ 1 \in Scalars /\ Neg(1) \in Scalars
  <1>1. 0 \in Scalars /\ 1 \in Scalars BY OrderAssumption DEF Scalars
  <1> QED BY <1>1, Closed

\* Both operations are commutative.
LEMMA Commutes ==
  ASSUME NEW a \in Scalars, NEW b \in Scalars
  PROVE  Add(a, b) = Add(b, a) /\ Mul(a, b) = Mul(b, a)
  <1>1. a \in Int /\ b \in Int BY Closed
  <1>2. a + b = b + a /\ a * b = b * a BY <1>1
  <1> QED BY <1>2 DEF Add, Mul

\* Addition is associative.
LEMMA AddAssoc ==
  ASSUME NEW a \in Scalars, NEW b \in Scalars, NEW c \in Scalars
  PROVE  Add(Add(a, b), c) = Add(a, Add(b, c))
  <1>1. a \in Int /\ b \in Int /\ c \in Int BY Closed
  <1>2. a + b \in Int /\ b + c \in Int /\ (a + b) + c = a + (b + c) BY <1>1
  <1>3. Add(Add(a, b), c) = (((a + b) + c) % Order)
    BY <1>1, <1>2, ReduceSummand DEF Add
  <1>4. Add(a, Add(b, c)) = ((a + (b + c)) % Order)
    BY <1>1, <1>2, ReduceSummand DEF Add
  <1> QED BY <1>2, <1>3, <1>4

\* Multiplication is associative.
LEMMA MulAssoc ==
  ASSUME NEW a \in Scalars, NEW b \in Scalars, NEW c \in Scalars
  PROVE  Mul(Mul(a, b), c) = Mul(a, Mul(b, c))
  <1>1. a \in Int /\ b \in Int /\ c \in Int BY Closed
  <1>2. a * b \in Int /\ b * c \in Int BY <1>1
  <1>3. (a * b) * c = a * (b * c) BY <1>1
  <1>4. Mul(Mul(a, b), c) = (((a * b) * c) % Order)
    BY <1>1, <1>2, ReduceFactor DEF Mul
  <1>5. Mul(a, Mul(b, c)) = ((a * (b * c)) % Order)
    BY <1>1, <1>2, ReduceFactor DEF Mul
  <1> QED BY <1>3, <1>4, <1>5

\* Multiplication distributes over addition.
LEMMA Distributes ==
  ASSUME NEW a \in Scalars, NEW b \in Scalars, NEW c \in Scalars
  PROVE  Mul(a, Add(b, c)) = Add(Mul(a, b), Mul(a, c))
  <1>1. a \in Int /\ b \in Int /\ c \in Int BY Closed
  <1>2. b + c \in Int /\ a * b \in Int /\ a * c \in Int BY <1>1
  <1>3. a * (b + c) = (a * b) + (a * c) BY <1>1
  <1>4. Mul(a, Add(b, c)) = ((a * (b + c)) % Order)
    BY <1>1, <1>2, ReduceFactor DEF Add, Mul
  <1> DEFINE ab == a * b
             ac == a * c
  <1>5. (ac % Order) \in Int BY <1>2, Division, OrderAssumption DEF Scalars
  <1>6. ((ab % Order) + (ac % Order)) % Order = ((ab + ac) % Order)
    <2> HIDE DEF ab, ac
    <2>1. ab \in Int /\ ac \in Int BY <1>2 DEF ab, ac
    <2> QED BY <2>1, <1>5, ReduceSummand
  <1> QED BY <1>3, <1>4, <1>6 DEF Add, Mul

\* Units, zero and negation.
LEMMA UnitsAndNegation ==
  ASSUME NEW a \in Scalars
  PROVE  /\ Add(a, 0) = a /\ Add(0, a) = a
         /\ Mul(1, a) = a /\ Mul(a, 1) = a
         /\ Mul(0, a) = 0 /\ Mul(a, 0) = 0
         /\ Add(a, Neg(a)) = 0
         /\ Neg(Neg(a)) = a
         /\ Neg(a) = IF a = 0 THEN 0 ELSE Order - a
  <1>1. a \in Int /\ a >= 0 /\ a < Order BY OrderAssumption DEF Scalars
  <1>2. Neg(a) = IF a = 0 THEN 0 ELSE Order - a
    <2>1. CASE a = 0 BY <2>1, OrderAssumption DEF Neg
    <2>2. CASE a # 0
      <3>1. -a = (Order - a) + Order * (-1) BY <1>1, OrderAssumption
      <3>2. Order - a \in Scalars BY <2>2, <1>1, OrderAssumption DEF Scalars
      <3>3. Order - a \in Int /\ -a \in Int /\ -1 \in Int
        BY <1>1, OrderAssumption
      <3> QED BY <2>2, <3>1, <3>2, <3>3, SameResidue, SmallResidue DEF Neg
    <2> QED BY <2>1, <2>2
  <1>3. Neg(Neg(a)) = a
    <2>1. CASE a = 0 BY <2>1, <1>2
    <2>2. CASE a # 0
      <3>1. Neg(a) = Order - a /\ Order - a \in 1 .. Order - 1
        BY <2>2, <1>1, <1>2, OrderAssumption
      <3>2. -(Order - a) = a + Order * (-1) BY <1>1, OrderAssumption
      <3>3. -(Order - a) \in Int BY <1>1, OrderAssumption
      <3> QED BY <1>1, <3>1, <3>2, <3>3, SameResidue, SmallResidue DEF Neg
    <2> QED BY <2>1, <2>2
  <1>4. Add(a, Neg(a)) = 0
    <2>1. CASE a = 0 BY <2>1, <1>2, OrderAssumption DEF Add
    <2>2. CASE a # 0
      <3>1. a + Neg(a) = Order BY <2>2, <1>1, <1>2, OrderAssumption
      <3>2. Order = 0 + Order * 1 BY OrderAssumption
      <3>3. 0 \in Scalars BY Closed
      <3> QED BY <3>1, <3>2, <3>3, SameResidue, SmallResidue, OrderAssumption DEF Add
    <2> QED BY <2>1, <2>2
  <1>5. a + 0 = a /\ 0 + a = a /\ 1 * a = a /\ a * 1 = a /\ 0 * a = 0 /\ a * 0 = 0
    BY <1>1
  <1>6. 0 \in Scalars BY Closed
  <1> QED BY <1>2, <1>3, <1>4, <1>5, <1>6, SmallResidue DEF Add, Mul

\* Negation is multiplication by -1, and distributes over sums.
LEMMA NegIsMinusOne ==
  ASSUME NEW a \in Scalars
  PROVE  Mul(Neg(1), a) = Neg(a)
  <1>1. a \in Int /\ Order - 1 \in Int /\ -a \in Int /\ Order \in Int
    BY Closed, OrderAssumption
  <1>2. Neg(1) = Order - 1 BY UnitsAndNegation, Closed
  <1>3. (Order - 1) * a = -a + Order * a BY <1>1
  <1>4. (Order - 1) * a \in Int BY <1>1
  <1>5. (((Order - 1) * a) % Order) = ((-a) % Order)
    BY <1>1, <1>3, <1>4, SameResidue
  <1> QED BY <1>2, <1>5 DEF Mul, Neg

-----------------------------------------------------------------------------
(* Division in the field.                                                  *)

\* A nonzero scalar times its inverse is one.
LEMMA Invertible ==
  ASSUME NEW b \in NonZero
  PROVE  Inv(b) \in Scalars /\ Mul(b, Inv(b)) = 1
  <1>1. b \in 1 .. Order - 1 BY OrderAssumption DEF NonZero, Scalars
  <1>2. PICK c \in 1 .. Order - 1 : (b * c) % Order = 1 BY <1>1, OrderAssumption
  <1>3. c \in Scalars /\ Mul(b, c) = 1 BY <1>2, OrderAssumption DEF Scalars, Mul
  <1> QED BY <1>3 DEF Inv

\* A factor that is not zero can be divided out.
LEMMA DivideOut ==
  ASSUME NEW a \in NonZero, NEW b \in Scalars
  PROVE  Mul(Inv(a), Mul(a, b)) = b
  <1>1. a \in Scalars /\ Inv(a) \in Scalars /\ Mul(a, Inv(a)) = 1 BY Invertible DEF NonZero
  <1> QED BY <1>1, MulAssoc, Commutes, UnitsAndNegation

\* A field has no zero divisors.
LEMMA NoZeroDivisors ==
  ASSUME NEW a \in NonZero, NEW b \in NonZero
  PROVE  Mul(a, b) \in NonZero
  <1>1. /\ a \in Scalars /\ b \in Scalars /\ Inv(a) \in Scalars /\ b # 0
        /\ Mul(a, b) \in Scalars
    BY Invertible, Closed DEF NonZero
  <1>2. Mul(Inv(a), Mul(a, b)) = b /\ Mul(Inv(a), 0) = 0
    BY <1>1, DivideOut, UnitsAndNegation
  <1> QED BY <1>1, <1>2 DEF NonZero

\* A nonzero factor does not map two scalars to one.
LEMMA CancelFactor ==
  ASSUME NEW a \in NonZero, NEW b \in Scalars, NEW c \in Scalars, Mul(a, b) = Mul(a, c)
  PROVE  b = c
  BY DivideOut

\* The inverse is unique and not zero.
LEMMA InverseLaws ==
  ASSUME NEW a \in NonZero, NEW b \in Scalars, Mul(a, b) = 1
  PROVE  b = Inv(a) /\ b \in NonZero
  <1>1. a \in Scalars /\ 0 # 1 /\ Mul(a, 0) = 0 BY UnitsAndNegation DEF NonZero
  <1>2. Inv(a) \in Scalars /\ Mul(a, Inv(a)) = 1 BY Invertible
  <1>3. b = Inv(a) BY <1>2, CancelFactor
  <1> QED BY <1>1, <1>3 DEF NonZero

-----------------------------------------------------------------------------
(* Signs.                                                                  *)

\* A sum's sign goes to its summands, a product's to one of its factors.
LEMMA SignLaws ==
  ASSUME NEW a \in Scalars, NEW b \in Scalars
  PROVE  /\ Neg(Add(a, b)) = Add(Neg(a), Neg(b))
         /\ Neg(Mul(a, b)) = Mul(Neg(a), b)
         /\ Neg(Mul(a, b)) = Mul(a, Neg(b))
         /\ Mul(Neg(a), Neg(b)) = Mul(a, b)
  <1> DEFINE m == Neg(1)
  <1>1. m \in Scalars BY UnitsAreScalars
  <1>2. \A x \in Scalars : Mul(m, x) = Neg(x) /\ Neg(x) \in Scalars /\ Neg(Neg(x)) = x
    BY NegIsMinusOne, Closed, UnitsAndNegation
  <1> HIDE DEF m
  <1>3. Neg(Add(a, b)) = Add(Neg(a), Neg(b))
    BY <1>1, <1>2, Distributes, Closed
  <1>4. \A x, y \in Scalars : Neg(Mul(x, y)) = Mul(Neg(x), y)
    BY <1>1, <1>2, MulAssoc, Closed
  <1>5. \A x, y \in Scalars : Neg(Mul(x, y)) = Mul(x, Neg(y))
    BY <1>2, <1>4, Commutes
  <1>6. Mul(Neg(a), Neg(b)) = Neg(Neg(Mul(a, b)))
    BY <1>2, <1>4, <1>5, Closed
  <1> QED BY <1>2, <1>3, <1>4, <1>5, <1>6, Closed

\* The negation of a nonzero scalar is not zero.
LEMMA NegNonZero ==
  ASSUME NEW a \in NonZero
  PROVE  Neg(a) \in NonZero
  <1>1. a \in Scalars /\ a # 0 /\ a \in Int BY Closed DEF NonZero
  <1>2. Neg(a) = Order - a /\ Neg(a) \in Scalars BY <1>1, UnitsAndNegation, Closed
  <1> QED BY <1>1, <1>2, OrderAssumption DEF NonZero, Scalars

-----------------------------------------------------------------------------
(* Folds over a finite set.                                                *)

\* A property of sets that passes from all proper subsets to the set itself
\* holds of every finite set; Good is the set of those that have it.
LEMMA SubsetInduction ==
  ASSUME NEW S, IsFiniteSet(S), NEW Good,
         \A T \in SUBSET S : (\A U \in SUBSET T : U # T => U \in Good) => T \in Good
  PROVE  \A T \in SUBSET S : T \in Good
  <1> DEFINE bad == (SUBSET S) \ Good
  <1>1. IsWellFoundedOn(StrictSubsetOrdering(S), SUBSET S)
    BY FS_StrictSubsetOrderingWellFounded, FS_FiniteSubsetsOfFinite
  <1>2. SUFFICES ASSUME bad # {} PROVE FALSE OBVIOUS
  <1>3. PICK T \in bad : \A U \in bad : <<U, T>> \notin StrictSubsetOrdering(S)
    <2>1. bad \subseteq SUBSET S OBVIOUS
    <2> HIDE DEF bad
    <2> QED BY <1>1, <1>2, <2>1, WFMin
  <1>4. \A U \in SUBSET T : U # T => U \in Good
    BY <1>3 DEF StrictSubsetOrdering
  <1> QED BY <1>3, <1>4

\* g is computed over the subsets of S: c selects the next element, h combines.
IsFold(g, S, c, base, h) ==
  g = [s \in SUBSET S |-> IF s = {} THEN base ELSE h[c[s]][g[s \ {c[s]}]]]

\* The equation at one subset.
LEMMA FoldAt ==
  ASSUME NEW g, NEW S, NEW c, NEW base, NEW h, IsFold(g, S, c, base, h), NEW s \in SUBSET S
  PROVE  g[s] = IF s = {} THEN base ELSE h[c[s]][g[s \ {c[s]}]]
  BY DEF IsFold

\* There is only one such function.
LEMMA FoldIsUnique ==
  ASSUME NEW S, IsFiniteSet(S), NEW c, \A s \in SUBSET S : s # {} => c[s] \in s,
         NEW base, NEW h, NEW T \in SUBSET S, NEW g, NEW k,
         IsFold(g, S, c, base, h), IsFold(k, T, c, base, h)
  PROVE  \A s \in SUBSET T : k[s] = g[s]
  <1> DEFINE Good == {s \in SUBSET S : s \in SUBSET T => k[s] = g[s]}
  <1>1. ASSUME NEW s \in SUBSET S, \A r \in SUBSET s : r # s => r \in Good
        PROVE  s \in Good
    <2>1. SUFFICES ASSUME s \in SUBSET T PROVE k[s] = g[s] OBVIOUS
    <2>2. /\ k[s] = IF s = {} THEN base ELSE h[c[s]][k[s \ {c[s]}]]
          /\ g[s] = IF s = {} THEN base ELSE h[c[s]][g[s \ {c[s]}]]
      BY <2>1 DEF IsFold
    <2>3. s # {} => s \ {c[s]} \in Good BY <1>1
    <2>4. s # {} => k[s \ {c[s]}] = g[s \ {c[s]}] BY <2>1, <2>3
    <2> QED BY <2>2, <2>4
  <1> HIDE DEF Good
  <1>2. \A s \in SUBSET S : s \in Good BY <1>1, SubsetInduction
  <1> QED BY <1>2 DEF Good

\* And there is one, on every finite set: CHOOSE in a fold finds it.
LEMMA FoldExists ==
  ASSUME NEW S, IsFiniteSet(S), NEW c, \A s \in SUBSET S : s # {} => c[s] \in s,
         NEW V, NEW base \in V, NEW h \in [S -> [V -> V]]
  PROVE  \E g \in [SUBSET S -> V] : IsFold(g, S, c, base, h)
  <1> DEFINE Good == {T \in SUBSET S : \E g \in [SUBSET T -> V] : IsFold(g, T, c, base, h)}
  <1>1. ASSUME NEW T \in SUBSET S, \A U \in SUBSET T : U # T => U \in Good
        PROVE  T \in Good
    <2>1. CASE T = {}
      <3> DEFINE g == [s \in SUBSET T |-> base]
      <3>1. g \in [SUBSET T -> V] OBVIOUS
      <3>2. \A s \in SUBSET T : s = {} BY <2>1
      <3>3. IsFold(g, T, c, base, h) BY <3>2 DEF IsFold
      <3> QED BY <3>1, <3>3
    <2>2. CASE T # {}
      <3> DEFINE F == [U \in (SUBSET T) \ {T} |->
                         CHOOSE g \in [SUBSET U -> V] : IsFold(g, U, c, base, h)]
                 g == [s \in SUBSET T |-> IF s = T THEN h[c[T]][F[T \ {c[T]}][T \ {c[T]}]]
                                          ELSE F[s][s]]
      <3>1. ASSUME NEW U \in (SUBSET T) \ {T}
            PROVE  F[U] \in [SUBSET U -> V] /\ IsFold(F[U], U, c, base, h)
        BY <1>1
      <3> HIDE DEF F
      <3>2. c[T] \in T /\ T \ {c[T]} \in (SUBSET T) \ {T} BY <2>2
      <3>3. ASSUME NEW s \in (SUBSET T) \ {T}
            PROVE  F[s][s] = IF s = {} THEN base
                             ELSE h[c[s]][F[s \ {c[s]}][s \ {c[s]}]]
        <4>1. F[s][s] = IF s = {} THEN base ELSE h[c[s]][F[s][s \ {c[s]}]]
          <5> DEFINE k == F[s]
          <5>1. IsFold(k, s, c, base, h) BY <3>1
          <5> HIDE DEF k
          <5>2. k[s] = IF s = {} THEN base ELSE h[c[s]][k[s \ {c[s]}]] BY <5>1 DEF IsFold
          <5> QED BY <5>2 DEF k
        <4>2. CASE s = {} BY <4>1, <4>2
        <4>3. CASE s # {}
          <5> DEFINE r == s \ {c[s]}
          <5>1. r \in SUBSET s /\ r \in (SUBSET T) \ {T} OBVIOUS
          <5>2. IsFold(F[r], r, c, base, h) /\ IsFold(F[s], s, c, base, h) BY <3>1, <5>1
          <5>3. IsFiniteSet(s) BY FS_Subset
          <5>4. \A q \in SUBSET s : q # {} => c[q] \in q OBVIOUS
          <5> DEFINE k == F[s]
                     l == F[r]
          <5> HIDE DEF r, k, l
          <5>5. \A q \in SUBSET r : l[q] = k[q]
            <6>1. IsFold(l, r, c, base, h) /\ IsFold(k, s, c, base, h) BY <5>2 DEF k, l
            <6> HIDE DEF IsFold
            <6> QED BY <5>1, <6>1, <5>3, <5>4, FoldIsUnique
          <5>6. F[r][r] = F[s][r] BY <5>5 DEF k, l
          <5> QED BY <4>1, <4>3, <5>6 DEF r
        <4> QED BY <4>2, <4>3
      <3>4. g \in [SUBSET T -> V]
        <4>1. ASSUME NEW U \in (SUBSET T) \ {T} PROVE F[U][U] \in V
          <5>1. F[U] \in [SUBSET U -> V] BY <3>1
          <5> QED BY <5>1
        <4>2. h[c[T]][F[T \ {c[T]}][T \ {c[T]}]] \in V BY <3>2, <4>1
        <4> QED BY <4>1, <4>2
      <3>5. ASSUME NEW s \in SUBSET T
            PROVE  g[s] = IF s = {} THEN base ELSE h[c[s]][g[s \ {c[s]}]]
        <4>1. s # {} => s \ {c[s]} \in SUBSET T /\ s \ {c[s]} # T OBVIOUS
        <4>2. s # {} => g[s \ {c[s]}] = F[s \ {c[s]}][s \ {c[s]}] BY <4>1
        <4>3. CASE s = T BY <4>2, <4>3, <2>2
        <4>4. CASE s # T BY <4>2, <4>4, <3>3
        <4> QED BY <4>3, <4>4
      <3>6. IsFold(g, T, c, base, h)
        <4>1. g = [s \in SUBSET T |-> g[s]] OBVIOUS
        <4> HIDE DEF g
        <4> QED BY <3>5, <4>1 DEF IsFold
      <3> HIDE DEF g
      <3> QED BY <3>4, <3>6
    <2> QED BY <2>1, <2>2
  <1> HIDE DEF Good
  <1>2. \A T \in SUBSET S : T \in Good BY <1>1, SubsetInduction
  <1>3. S \in Good BY <1>2
  <1> QED BY <1>3 DEF Good

\* Two steps may be taken in either order.
StepsCommute(h, S, V) ==
  \A x, y \in S : \A v \in V : h[x][h[y][v]] = h[y][h[x][v]]

\* g may be computed by taking any element first.
AnyOrder(g, S, h) == \A T \in SUBSET S : \A x \in T : g[T] = h[x][g[T \ {x}]]

\* Then all of them may be taken in any order.
LEMMA FoldAnyOrder ==
  ASSUME NEW S, IsFiniteSet(S), NEW c, \A s \in SUBSET S : s # {} => c[s] \in s,
         NEW V, NEW base \in V, NEW h \in [S -> [V -> V]],
         StepsCommute(h, S, V),
         NEW g \in [SUBSET S -> V], IsFold(g, S, c, base, h)
  PROVE  AnyOrder(g, S, h)
  <1> DEFINE Good == {T \in SUBSET S : \A x \in T : g[T] = h[x][g[T \ {x}]]}
  <1>1. ASSUME NEW T \in SUBSET S, \A U \in SUBSET T : U # T => U \in Good,
               NEW x \in T
        PROVE  g[T] = h[x][g[T \ {x}]]
    <2> DEFINE y == c[T]
               U == T \ {x, y}
    <2>1. y \in T /\ y \in S BY <1>1
    <2>2. g[T] = h[y][g[T \ {y}]]
      <3>1. T # {} BY <1>1
      <3> QED BY <3>1 DEF IsFold
    <2>3. CASE x = y BY <2>2, <2>3
    <2>4. CASE x # y
      <3> HIDE DEF y
      <3>1. T \ {y} \in Good /\ T \ {x} \in Good
        <4>1. /\ T \ {y} \in SUBSET T /\ T \ {y} # T
              /\ T \ {x} \in SUBSET T /\ T \ {x} # T
          BY <1>1, <2>1
        <4> HIDE DEF Good
        <4> QED BY <1>1, <4>1
      <3>2. (T \ {y}) \ {x} = U /\ (T \ {x}) \ {y} = U OBVIOUS
      <3>3. g[T \ {y}] = h[x][g[U]]
        <4>1. g[T \ {y}] = h[x][g[(T \ {y}) \ {x}]] BY <3>1, <2>4
        <4> QED BY <4>1, <3>2
      <3>4. g[T \ {x}] = h[y][g[U]]
        <4>1. g[T \ {x}] = h[y][g[(T \ {x}) \ {y}]] BY <3>1, <2>4, <2>1
        <4> QED BY <4>1, <3>2
      <3>5. g[U] \in V OBVIOUS
      <3>6. x \in S /\ y \in S BY <2>1
      <3> HIDE DEF U
      <3>7. h[y][h[x][g[U]]] = h[x][h[y][g[U]]] BY <3>5, <3>6 DEF StepsCommute
      <3> QED BY <2>2, <3>3, <3>4, <3>7
    <2> QED BY <2>3, <2>4
  <1>2. ASSUME NEW T \in SUBSET S, \A U \in SUBSET T : U # T => U \in Good
        PROVE  T \in Good
    BY <1>1, <1>2
  <1> HIDE DEF Good
  <1>3. \A T \in SUBSET S : T \in Good BY <1>2, SubsetInduction
  <1> QED BY <1>3 DEF Good, AnyOrder

\* With steps that commute, the fold takes its elements in any order.
LEMMA FoldOfCommuting ==
  ASSUME NEW S, IsFiniteSet(S), NEW c, \A s \in SUBSET S : s # {} => c[s] \in s,
         NEW V, NEW base \in V, NEW h \in [S -> [V -> V]], StepsCommute(h, S, V)
  PROVE  \E g \in [SUBSET S -> V] :
           IsFold(g, S, c, base, h) /\ AnyOrder(g, S, h)
  <1>1. PICK g \in [SUBSET S -> V] : IsFold(g, S, c, base, h) BY FoldExists
  <1>2. AnyOrder(g, S, h) BY <1>1, FoldAnyOrder
  <1> QED BY <1>1, <1>2

\* A total order on a set, as a set of pairs.
TotalOrder(S, leq) ==
  /\ \A x, y \in S : <<x, y>> \in leq \/ <<y, x>> \in leq
  /\ \A x, y, z \in S : <<x, y>> \in leq /\ <<y, z>> \in leq => <<x, z>> \in leq

\* A finite set has a first element.
LEMMA FirstElement ==
  ASSUME NEW S, IsFiniteSet(S), S # {}, NEW leq, TotalOrder(S, leq)
  PROVE  \E x \in S : \A y \in S : <<x, y>> \in leq
  <1> DEFINE Good == {T \in SUBSET S : T # {} => \E x \in T : \A y \in T : <<x, y>> \in leq}
  <1>1. ASSUME NEW T \in SUBSET S, \A U \in SUBSET T : U # T => U \in Good
        PROVE  T \in Good
    <2>1. SUFFICES ASSUME T # {} PROVE \E x \in T : \A y \in T : <<x, y>> \in leq OBVIOUS
    <2>2. PICK z \in T : TRUE BY <2>1
    <2> DEFINE U == T \ {z}
    <2>3. U \in Good BY <1>1, <2>2
    <2>4. <<z, z>> \in leq BY <2>2 DEF TotalOrder
    <2>5. CASE U = {}
      <3>1. \A y \in T : y = z BY <2>5
      <3> QED BY <2>2, <2>4, <3>1
    <2>6. CASE U # {}
      <3>1. PICK x \in U : \A y \in U : <<x, y>> \in leq BY <2>3, <2>6
      <3>2. \A y \in T : y = z \/ y \in U OBVIOUS
      <3>3. CASE <<x, z>> \in leq BY <3>1, <3>2, <3>3
      <3>4. CASE <<z, x>> \in leq
        <4>1. \A y \in U : <<z, y>> \in leq BY <2>2, <3>1, <3>4 DEF TotalOrder
        <4> QED BY <2>2, <2>4, <3>2, <4>1
      <3> QED BY <2>2, <3>1, <3>3, <3>4 DEF TotalOrder
    <2> QED BY <2>5, <2>6
  <1> HIDE DEF Good
  <1>2. S \in Good BY <1>1, SubsetInduction
  <1> QED BY <1>2 DEF Good

\* What Min and Max choose.
LEMMA Extremes ==
  ASSUME NEW S \in SUBSET Int, IsFiniteSet(S), S # {}
  PROVE  /\ Min(S) \in S /\ \A y \in S : Min(S) <= y
         /\ Max(S) \in S /\ \A y \in S : Max(S) >= y
  <1> DEFINE up == {p \in Int \X Int : p[1] <= p[2]}
             down == {p \in Int \X Int : p[1] >= p[2]}
  <1>1. /\ \A x, y \in S : <<x, y>> \in up <=> x <= y
        /\ \A x, y \in S : <<x, y>> \in down <=> x >= y
    OBVIOUS
  <1> HIDE DEF up, down
  <1>2. TotalOrder(S, up) /\ TotalOrder(S, down) BY <1>1 DEF TotalOrder
  <1>3. \E x \in S : \A y \in S : x <= y
    <2>1. PICK x \in S : \A y \in S : <<x, y>> \in up BY <1>2, FirstElement
    <2> QED BY <1>1, <2>1
  <1>4. \E x \in S : \A y \in S : x >= y
    <2>1. PICK x \in S : \A y \in S : <<x, y>> \in down BY <1>2, FirstElement
    <2> QED BY <1>1, <2>1
  <1> QED BY <1>3, <1>4 DEF Min, Max

-----------------------------------------------------------------------------
(* Loops.                                                                  *)

\* Counting up from zero reaches every natural number; Good is the set of
\* those for which something holds.
LEMMA CountingUp ==
  ASSUME NEW Good, 0 \in Good, \A m \in Nat : m \in Good => m + 1 \in Good
  PROVE  \A n \in Nat : n \in Good
  <1> SUFFICES ASSUME NEW n \in Nat, n \notin Good PROVE FALSE OBVIOUS
  <1> DEFINE bad == {m \in 0 .. n : m \notin Good}
             first == Min(bad)
  <1>1. bad \in SUBSET Int /\ n \in bad OBVIOUS
  <1>2. IsFiniteSet(bad)
    <2>1. IsFiniteSet(0 .. n) /\ bad \subseteq 0 .. n BY FS_Interval
    <2> QED BY <2>1, FS_Subset
  <1>3. first \in bad /\ \A m \in bad : first <= m
    <2> HIDE DEF bad
    <2>1. bad # {} BY <1>1
    <2> QED BY <1>1, <1>2, <2>1, Extremes
  <1> HIDE DEF first
  <1>4. first \in 0 .. n /\ first \notin Good BY <1>3
  <1>5. first # 0 BY <1>4
  <1>6. first - 1 \in 0 .. n /\ first - 1 \in Nat /\ (first - 1) + 1 = first BY <1>4, <1>5
  <1>7. first - 1 \notin Good BY <1>4, <1>6
  <1>8. first - 1 \in bad BY <1>6, <1>7
  <1>9. ~ (first <= first - 1) BY <1>4
  <1> QED BY <1>3, <1>8, <1>9

\* q folds the numbers 1 .. m from the left: h[i] is the body of the loop.
Loop(q, m, base, h) ==
  /\ q = [s \in SUBSET (1 .. m) |-> q[s]] /\ q[{}] = base
  /\ \A s \in SUBSET (1 .. m) :
       s # {} => Max(s) \in s /\ q[s] = h[Max(s)][q[s \ {Max(s)}]]

\* after[m] is the variable of the loop after m rounds.
Rounds(after, n, base, h) ==
  /\ after[0] = base
  /\ \A m \in 1 .. n : after[m] = h[m][after[m - 1]]

\* ... and each after[m] is what a fold of 1 .. m computes.
Folded(after, n, V, base, h) ==
  \A m \in 0 .. n : \E q \in [SUBSET (1 .. m) -> V] :
    Loop(q, m, base, h) /\ q[1 .. m] = after[m]

\* The last number of 1 .. m is m, and before it come 1 .. m - 1.
LEMMA LastRound ==
  ASSUME NEW m \in Nat \ {0}
  PROVE  Max(1 .. m) = m /\ (1 .. m) \ {m} = 1 .. m - 1
  <1> DEFINE s == 1 .. m
  <1>1. /\ m \in s /\ m \in Int /\ s # {} /\ s \in SUBSET Int
        /\ \A i \in s : i \in Int /\ i <= m
    OBVIOUS
  <1>2. IsFiniteSet(s) BY FS_Interval
  <1>3. Max(s) \in s /\ \A y \in s : Max(s) >= y BY <1>1, <1>2, Extremes
  <1> DEFINE last == Max(s)
  <1>4. last \in s /\ last >= m BY <1>1, <1>3
  <1> HIDE DEF s, last
  <1>5. last = m
    <2>1. last \in Int /\ last <= m BY <1>1, <1>4
    <2> QED BY <1>1, <1>4, <2>1
  <1> QED BY <1>5 DEF s, last

\* A loop whose body maps V to V runs, and FoldLeft finds what it computes.
LEMMA LoopRuns ==
  ASSUME NEW n \in Nat, NEW V, NEW base \in V, NEW h \in [1 .. n -> [V -> V]]
  PROVE  \E after \in [0 .. n -> V] :
           Rounds(after, n, base, h) /\ Folded(after, n, V, base, h)
  <1> DEFINE S == 1 .. n
             c == [s \in SUBSET S |-> Max(s)]
  <1>1. IsFiniteSet(S) /\ S \in SUBSET Int BY FS_Interval
  <1>2. ASSUME NEW s \in SUBSET S, s # {} PROVE c[s] = Max(s) /\ c[s] \in s
    <2>1. IsFiniteSet(s) /\ s \in SUBSET Int BY <1>1, FS_Subset
    <2> QED BY <1>2, <2>1, Extremes
  <1>3. PICK g \in [SUBSET S -> V] : IsFold(g, S, c, base, h)
    <2> HIDE DEF c
    <2> QED BY <1>1, <1>2, FoldExists
  <1> HIDE DEF c
  <1>4. g[{}] = base BY <1>3 DEF IsFold
  <1>5. ASSUME NEW s \in SUBSET S, s # {}
        PROVE  Max(s) \in s /\ g[s] = h[Max(s)][g[s \ {Max(s)}]]
    <2>1. g[s] = h[c[s]][g[s \ {c[s]}]] BY <1>3, <1>5 DEF IsFold
    <2> QED BY <1>2, <1>5, <2>1
  <1>6. ASSUME NEW m \in 0 .. n PROVE 1 .. m \in SUBSET S
    <2>1. m \in Int /\ m <= n BY <1>6
    <2> QED BY <2>1
  <1> DEFINE after == [m \in 0 .. n |-> g[1 .. m]]
  <1>7. after \in [0 .. n -> V] BY <1>6
  <1>8. Rounds(after, n, base, h)
    <2>1. after[0] = base
      <3>1. 1 .. 0 = {} /\ 0 \in 0 .. n OBVIOUS
      <3> QED BY <1>4, <3>1
    <2>2. ASSUME NEW m \in 1 .. n PROVE after[m] = h[m][after[m - 1]]
      <3>1. m \in Nat \ {0} /\ m \in 0 .. n /\ m - 1 \in 0 .. n /\ m \in 1 .. m OBVIOUS
      <3>2. 1 .. m \in SUBSET S /\ 1 .. m # {} BY <1>6, <3>1
      <3>3. Max(1 .. m) = m /\ (1 .. m) \ {m} = 1 .. m - 1 BY <3>1, LastRound
      <3>4. g[1 .. m] = h[Max(1 .. m)][g[(1 .. m) \ {Max(1 .. m)}]] BY <1>5, <3>2
      <3>5. g[1 .. m] = h[m][g[1 .. m - 1]] BY <3>3, <3>4
      <3> QED BY <3>1, <3>5
    <2> HIDE DEF after
    <2> QED BY <2>1, <2>2 DEF Rounds
  <1>9. ASSUME NEW m \in 0 .. n
        PROVE  \E q \in [SUBSET (1 .. m) -> V] : Loop(q, m, base, h) /\ q[1 .. m] = after[m]
    <2> DEFINE T == 1 .. m
               q == [s \in SUBSET T |-> g[s]]
    <2>1. T \in SUBSET S BY <1>6
    <2> HIDE DEF T
    <2>2. \A s \in SUBSET T : q[s] = g[s] OBVIOUS
    <2>3. q \in [SUBSET T -> V] /\ q = [s \in SUBSET T |-> q[s]] /\ q[T] = g[T] BY <2>1
    <2> HIDE DEF q
    <2>4. \A s \in SUBSET T : s # {} => /\ Max(s) \in s
                                        /\ q[s] = h[Max(s)][q[s \ {Max(s)}]]
      BY <1>5, <2>1, <2>2
    <2>5. q[{}] = base BY <1>4, <2>2
    <2>6. Loop(q, m, base, h) BY <2>3, <2>4, <2>5 DEF Loop, T
    <2> QED BY <2>3, <2>6 DEF T
  <1> HIDE DEF after
  <1>10. Folded(after, n, V, base, h) BY <1>9 DEF Folded
  <1> QED BY <1>7, <1>8, <1>10

\* What computes the same value of s whenever it does so one element earlier
\* computes the same in the end.
LEMMA LoopIsUnique ==
  ASSUME NEW m \in Nat, NEW q, NEW g, NEW base, NEW h, Loop(g, m, base, h),
         q = [s \in SUBSET (1 .. m) |-> q[s]], q[{}] = base,
         \A s \in SUBSET (1 .. m) :
           s # {} /\ q[s \ {Max(s)}] = g[s \ {Max(s)}] => q[s] = g[s]
  PROVE  q = g
  <1> DEFINE S == 1 .. m
             Good == {s \in SUBSET S : q[s] = g[s]}
  <1>1. IsFiniteSet(S) BY FS_Interval
  <1>2. /\ g = [s \in SUBSET S |-> g[s]] /\ g[{}] = base
        /\ \A s \in SUBSET S : s # {} => Max(s) \in s
    BY DEF Loop
  <1>3. ASSUME NEW s \in SUBSET S, \A r \in SUBSET s : r # s => r \in Good
        PROVE  s \in Good
    <2>1. CASE s = {} BY <1>2, <2>1
    <2>2. CASE s # {}
      <3>1. s \ {Max(s)} \in Good BY <1>2, <1>3, <2>2
      <3> QED BY <2>2, <3>1
    <2> QED BY <2>1, <2>2
  <1>4. q = [s \in SUBSET S |-> q[s]] OBVIOUS
  <1> HIDE DEF Good, S
  <1>5. \A s \in SUBSET S : s \in Good BY <1>1, <1>3, SubsetInduction
  <1>6. \A s \in SUBSET S : q[s] = g[s] BY <1>5 DEF Good
  <1> QED BY <1>2, <1>4, <1>6

-----------------------------------------------------------------------------
(* Sums and products over a finite set.                                    *)

\* The values that are summed or multiplied are scalars.
ScalarsOn(S, f) == \A x \in S : f[x] \in Scalars

\* SumOver is 0 of no summands, and any summand can be taken out first.
LEMMA SumLaws ==
  ASSUME NEW S, IsFiniteSet(S), NEW f, ScalarsOn(S, f)
  PROVE  /\ SumOver(S, f) \in Scalars
         /\ S = {} => SumOver(S, f) = 0
         /\ \A x \in S : SumOver(S, f) = Add(f[x], SumOver(S \ {x}, f))
  <1> USE DEF ScalarsOn
  <1> DEFINE c == [s \in SUBSET S |-> CHOOSE x \in s : TRUE]
             h == [x \in S |-> [v \in Scalars |-> Add(f[x], v)]]
  <1>1. \A s \in SUBSET S : s # {} => c[s] \in s OBVIOUS
  <1>2. h \in [S -> [Scalars -> Scalars]] /\ 0 \in Scalars BY Closed, UnitsAreScalars
  <1>3. StepsCommute(h, S, Scalars)
    <2> SUFFICES ASSUME NEW x \in S, NEW y \in S, NEW v \in Scalars
                 PROVE  h[x][h[y][v]] = h[y][h[x][v]]
      BY DEF StepsCommute
    <2> DEFINE a == f[x]
               b == f[y]
    <2>1. a \in Scalars /\ b \in Scalars OBVIOUS
    <2>2. /\ h[x][v] = Add(a, v) /\ h[y][v] = Add(b, v)
          /\ Add(a, v) \in Scalars /\ Add(b, v) \in Scalars
      BY <2>1, Closed
    <2>3. h[x][h[y][v]] = Add(a, Add(b, v)) /\ h[y][h[x][v]] = Add(b, Add(a, v)) BY <2>2
    <2> HIDE DEF a, b
    <2>4. Add(a, Add(b, v)) = Add(Add(a, b), v) /\ Add(b, Add(a, v)) = Add(Add(b, a), v)
      BY <2>1, AddAssoc
    <2>5. Add(a, b) = Add(b, a) BY <2>1, Commutes
    <2> QED BY <2>3, <2>4, <2>5
  <1> HIDE DEF c, h
  <1>4. PICK g \in [SUBSET S -> Scalars] :
          IsFold(g, S, c, 0, h) /\ AnyOrder(g, S, h)
    BY <1>1, <1>2, <1>3, FoldOfCommuting
  <1>5. \A T \in SUBSET S : \A x \in T : g[T] = Add(f[x], g[T \ {x}])
    <2> SUFFICES ASSUME NEW T \in SUBSET S, NEW x \in T PROVE g[T] = Add(f[x], g[T \ {x}])
      OBVIOUS
    <2>1. \A U \in SUBSET S : \A y \in U : g[U] = h[y][g[U \ {y}]]
      BY <1>4 DEF AnyOrder
    <2>2. g[T] = h[x][g[T \ {x}]] BY <2>1
    <2>3. g[T \ {x}] \in Scalars OBVIOUS
    <2> QED BY <2>2, <2>3 DEF h
  <1>6. g[{}] = 0 BY <1>4 DEF IsFold
  <1>7. ASSUME NEW T \in SUBSET S PROVE SumOver(T, f) = g[T]
    <2> DEFINE k == [s \in SUBSET T |-> g[s]]
    <2>1. k = [s \in SUBSET T |-> IF s = {} THEN 0
                                 ELSE Add(f[CHOOSE x \in s : TRUE], k[s \ {CHOOSE x \in s : TRUE}])]
      <3>1. ASSUME NEW s \in SUBSET T, s # {}
            PROVE  k[s] = Add(f[CHOOSE x \in s : TRUE], k[s \ {CHOOSE x \in s : TRUE}])
        BY <1>5, <3>1
      <3> QED BY <1>6, <3>1
    <2> HIDE DEF k
    <2>2. ASSUME NEW q,
                 q = [s \in SUBSET T |-> IF s = {} THEN 0
                                 ELSE Add(f[CHOOSE x \in s : TRUE], q[s \ {CHOOSE x \in s : TRUE}])]
          PROVE  q = k
      <3> DEFINE Good == {U \in SUBSET T : q[U] = k[U]}
      <3>1. ASSUME NEW U \in SUBSET T, \A s \in SUBSET U : s # U => s \in Good
            PROVE  q[U] = k[U]
        <4> DEFINE x == CHOOSE x \in U : TRUE
        <4>1. CASE U = {}
          <5>1. q[U] = 0 BY <2>2, <4>1
          <5>2. k[U] = 0 BY <2>1, <4>1
          <5> QED BY <5>1, <5>2
        <4>2. CASE U # {}
          <5>1. U \ {x} \in Good BY <3>1, <4>2
          <5>2. q[U] = Add(f[x], q[U \ {x}]) BY <2>2, <4>2
          <5>3. k[U] = Add(f[x], k[U \ {x}]) BY <2>1, <4>2
          <5> QED BY <5>1, <5>2, <5>3
        <4> QED BY <4>1, <4>2
      <3>2. ASSUME NEW U \in SUBSET T, \A s \in SUBSET U : s # U => s \in Good
            PROVE  U \in Good
        BY <3>1, <3>2
      <3>3. IsFiniteSet(T) BY FS_Subset
      <3> HIDE DEF Good
      <3>4. \A U \in SUBSET T : U \in Good BY <3>2, <3>3, SubsetInduction
      <3>5. \A U \in SUBSET T : q[U] = k[U] BY <3>4 DEF Good
      <3> QED BY <2>1, <2>2, <3>5
    <2>3. SumOver(T, f) = k[T] BY <2>1, <2>2 DEF SumOver, FoldFunctionOnSet, MapThenFoldSet
    <2> QED BY <2>3 DEF k
  <1>8. S \in SUBSET S /\ \A x \in S : S \ {x} \in SUBSET S OBVIOUS
  <1>9. SumOver(S, f) = g[S] /\ \A x \in S : SumOver(S \ {x}, f) = g[S \ {x}] BY <1>7, <1>8
  <1> QED BY <1>5, <1>6, <1>8, <1>9

\* The same for ProductOver, which is 1 for no factor.
LEMMA ProductLaws ==
  ASSUME NEW S, IsFiniteSet(S), NEW f, ScalarsOn(S, f)
  PROVE  /\ ProductOver(S, f) \in Scalars
         /\ S = {} => ProductOver(S, f) = 1
         /\ \A x \in S : ProductOver(S, f) = Mul(f[x], ProductOver(S \ {x}, f))
  <1> USE DEF ScalarsOn
  <1> DEFINE c == [s \in SUBSET S |-> CHOOSE x \in s : TRUE]
             h == [x \in S |-> [v \in Scalars |-> Mul(f[x], v)]]
  <1>1. \A s \in SUBSET S : s # {} => c[s] \in s OBVIOUS
  <1>2. h \in [S -> [Scalars -> Scalars]] /\ 1 \in Scalars BY Closed, UnitsAreScalars
  <1>3. StepsCommute(h, S, Scalars)
    <2> SUFFICES ASSUME NEW x \in S, NEW y \in S, NEW v \in Scalars
                 PROVE  h[x][h[y][v]] = h[y][h[x][v]]
      BY DEF StepsCommute
    <2> DEFINE a == f[x]
               b == f[y]
    <2>1. a \in Scalars /\ b \in Scalars OBVIOUS
    <2>2. /\ h[x][v] = Mul(a, v) /\ h[y][v] = Mul(b, v)
          /\ Mul(a, v) \in Scalars /\ Mul(b, v) \in Scalars
      BY <2>1, Closed
    <2>3. h[x][h[y][v]] = Mul(a, Mul(b, v)) /\ h[y][h[x][v]] = Mul(b, Mul(a, v)) BY <2>2
    <2> HIDE DEF a, b
    <2>4. Mul(a, Mul(b, v)) = Mul(Mul(a, b), v) /\ Mul(b, Mul(a, v)) = Mul(Mul(b, a), v)
      BY <2>1, MulAssoc
    <2>5. Mul(a, b) = Mul(b, a) BY <2>1, Commutes
    <2> QED BY <2>3, <2>4, <2>5
  <1> HIDE DEF c, h
  <1>4. PICK g \in [SUBSET S -> Scalars] :
          IsFold(g, S, c, 1, h) /\ AnyOrder(g, S, h)
    BY <1>1, <1>2, <1>3, FoldOfCommuting
  <1>5. \A T \in SUBSET S : \A x \in T : g[T] = Mul(f[x], g[T \ {x}])
    <2> SUFFICES ASSUME NEW T \in SUBSET S, NEW x \in T PROVE g[T] = Mul(f[x], g[T \ {x}])
      OBVIOUS
    <2>1. \A U \in SUBSET S : \A y \in U : g[U] = h[y][g[U \ {y}]]
      BY <1>4 DEF AnyOrder
    <2>2. g[T] = h[x][g[T \ {x}]] BY <2>1
    <2>3. g[T \ {x}] \in Scalars OBVIOUS
    <2> QED BY <2>2, <2>3 DEF h
  <1>6. g[{}] = 1 BY <1>4 DEF IsFold
  <1>7. ASSUME NEW T \in SUBSET S PROVE ProductOver(T, f) = g[T]
    <2> DEFINE k == [s \in SUBSET T |-> g[s]]
    <2>1. k = [s \in SUBSET T |-> IF s = {} THEN 1
                                 ELSE Mul(f[CHOOSE x \in s : TRUE], k[s \ {CHOOSE x \in s : TRUE}])]
      <3>1. ASSUME NEW s \in SUBSET T, s # {}
            PROVE  k[s] = Mul(f[CHOOSE x \in s : TRUE], k[s \ {CHOOSE x \in s : TRUE}])
        BY <1>5, <3>1
      <3> QED BY <1>6, <3>1
    <2> HIDE DEF k
    <2>2. ASSUME NEW q,
                 q = [s \in SUBSET T |-> IF s = {} THEN 1
                                 ELSE Mul(f[CHOOSE x \in s : TRUE], q[s \ {CHOOSE x \in s : TRUE}])]
          PROVE  q = k
      <3> DEFINE Good == {U \in SUBSET T : q[U] = k[U]}
      <3>1. ASSUME NEW U \in SUBSET T, \A s \in SUBSET U : s # U => s \in Good
            PROVE  q[U] = k[U]
        <4> DEFINE x == CHOOSE x \in U : TRUE
        <4>1. CASE U = {}
          <5>1. q[U] = 1 BY <2>2, <4>1
          <5>2. k[U] = 1 BY <2>1, <4>1
          <5> QED BY <5>1, <5>2
        <4>2. CASE U # {}
          <5>1. U \ {x} \in Good BY <3>1, <4>2
          <5>2. q[U] = Mul(f[x], q[U \ {x}]) BY <2>2, <4>2
          <5>3. k[U] = Mul(f[x], k[U \ {x}]) BY <2>1, <4>2
          <5> QED BY <5>1, <5>2, <5>3
        <4> QED BY <4>1, <4>2
      <3>2. ASSUME NEW U \in SUBSET T, \A s \in SUBSET U : s # U => s \in Good
            PROVE  U \in Good
        BY <3>1, <3>2
      <3>3. IsFiniteSet(T) BY FS_Subset
      <3> HIDE DEF Good
      <3>4. \A U \in SUBSET T : U \in Good BY <3>2, <3>3, SubsetInduction
      <3>5. \A U \in SUBSET T : q[U] = k[U] BY <3>4 DEF Good
      <3> QED BY <2>1, <2>2, <3>5
    <2>3. ProductOver(T, f) = k[T] BY <2>1, <2>2 DEF ProductOver, FoldFunctionOnSet, MapThenFoldSet
    <2> QED BY <2>3 DEF k
  <1>8. S \in SUBSET S /\ \A x \in S : S \ {x} \in SUBSET S OBVIOUS
  <1>9. ProductOver(S, f) = g[S] /\ \A x \in S : ProductOver(S \ {x}, f) = g[S \ {x}] BY <1>7, <1>8
  <1> QED BY <1>5, <1>6, <1>8, <1>9

\* Two factors may change places behind a third.
LEMMA MulSwap ==
  ASSUME NEW a \in Scalars, NEW b \in Scalars, NEW c \in Scalars
  PROVE  Mul(a, Mul(b, c)) = Mul(b, Mul(a, c))
  <1>1. Mul(Mul(a, b), c) = Mul(a, Mul(b, c)) /\ Mul(Mul(b, a), c) = Mul(b, Mul(a, c))
    BY MulAssoc
  <1> QED BY <1>1, Commutes

\* One step of the sum of products below.
LEMMA LinearStep ==
  ASSUME NEW a \in Scalars, NEW b \in Scalars, NEW p \in Scalars, NEW q \in Scalars,
         NEW c \in Scalars
  PROVE  Add(Add(a, Mul(c, b)), Add(p, Mul(c, q))) = Add(Add(a, p), Mul(c, Add(b, q)))
  <1> DEFINE cb == Mul(c, b)
             cq == Mul(c, q)
  <1>1. cb \in Scalars /\ cq \in Scalars BY Closed
  <1>2. Mul(c, Add(b, q)) = Add(cb, cq) BY Distributes
  <1> HIDE DEF cb, cq
  <1>3. Add(a, cb) \in Scalars /\ Add(p, cq) \in Scalars /\ Add(a, p) \in Scalars
    BY <1>1, Closed
  <1>4. Add(Add(a, cb), Add(p, cq)) = Add(Add(Add(a, cb), p), cq) BY <1>1, <1>3, AddAssoc
  <1>5. Add(Add(a, cb), p) = Add(a, Add(p, cb)) BY <1>1, AddAssoc, Commutes
  <1>6. Add(a, Add(p, cb)) = Add(Add(a, p), cb) BY <1>1, AddAssoc
  <1>7. Add(Add(Add(a, p), cb), cq) = Add(Add(a, p), Add(cb, cq)) BY <1>1, <1>3, AddAssoc
  <1> QED BY <1>2, <1>4, <1>5, <1>6, <1>7 DEF cb, cq

\* One summand, or factor, split off.
LEMMA OneSplitOff ==
  ASSUME NEW S, IsFiniteSet(S), NEW f, ScalarsOn(S, f), NEW x \in S
  PROVE  /\ SumOver(S, f) = Add(f[x], SumOver(S \ {x}, f))
         /\ ProductOver(S, f) = Mul(f[x], ProductOver(S \ {x}, f))
  BY SumLaws, ProductLaws

\* The sum of a + c*b is the sum of a plus c times the sum of b.
LEMMA SumIsLinear ==
  ASSUME NEW S, IsFiniteSet(S), NEW a, ScalarsOn(S, a), NEW b, ScalarsOn(S, b),
         NEW c \in Scalars, NEW f, \A x \in S : f[x] = Add(a[x], Mul(c, b[x]))
  PROVE  SumOver(S, f) = Add(SumOver(S, a), Mul(c, SumOver(S, b)))
  <1> DEFINE Good == {T \in SUBSET S :
                        SumOver(T, f) = Add(SumOver(T, a), Mul(c, SumOver(T, b)))}
  <1>1. ASSUME NEW T \in SUBSET S PROVE IsFiniteSet(T) /\ ScalarsOn(T, a) /\ ScalarsOn(T, b)
    BY FS_Subset DEF ScalarsOn
  <1>2. ScalarsOn(S, f) BY Closed DEF ScalarsOn
  <1>3. \A T \in SUBSET S : ScalarsOn(T, f) BY <1>2 DEF ScalarsOn
  <1>4. ASSUME NEW T \in SUBSET S, \A U \in SUBSET T : U # T => U \in Good
        PROVE  T \in Good
    <2>1. CASE T = {}
      <3>1. SumOver(T, f) = 0 /\ SumOver(T, a) = 0 /\ SumOver(T, b) = 0
        BY <1>1, <1>3, <2>1, SumLaws
      <3>2. Add(0, Mul(c, 0)) = 0 BY UnitsAreScalars, UnitsAndNegation
      <3> QED BY <3>1, <3>2
    <2>2. CASE T # {}
      <3>1. PICK x \in T : TRUE BY <2>2
      <3> DEFINE U == T \ {x}
                 ax == a[x]
                 bx == b[x]
                 sa == SumOver(U, a)
                 sb == SumOver(U, b)
      <3>2. U \in Good BY <1>4, <3>1
      <3>3. /\ SumOver(T, f) = Add(Add(ax, Mul(c, bx)), Add(sa, Mul(c, sb)))
            /\ SumOver(T, a) = Add(ax, sa)
            /\ SumOver(T, b) = Add(bx, sb)
        <4>1. f[x] = Add(ax, Mul(c, bx)) /\ SumOver(U, f) = Add(sa, Mul(c, sb)) BY <3>2
        <4> HIDE DEF Good
        <4> QED BY <1>1, <1>3, <4>1, OneSplitOff
      <3>4. ax \in Scalars /\ bx \in Scalars /\ sa \in Scalars /\ sb \in Scalars
        BY <1>1, SumLaws DEF ScalarsOn
      <3> HIDE DEF ax, bx, sa, sb
      <3>5. Add(Add(ax, Mul(c, bx)), Add(sa, Mul(c, sb)))
              = Add(Add(ax, sa), Mul(c, Add(bx, sb)))
        BY <3>4, LinearStep
      <3> QED BY <3>3, <3>5
    <2> QED BY <2>1, <2>2
  <1> HIDE DEF Good
  <1>5. S \in Good BY <1>4, SubsetInduction
  <1> QED BY <1>5 DEF Good

-----------------------------------------------------------------------------
(* Fermat's little theorem.                                                *)

\* A product of nonzero factors is not zero.
LEMMA ProductIsNonZero ==
  ASSUME NEW S, IsFiniteSet(S), NEW f, \A x \in S : f[x] \in NonZero
  PROVE  ProductOver(S, f) \in NonZero
  <1> DEFINE Good == {T \in SUBSET S : ProductOver(T, f) \in NonZero}
  <1>1. ASSUME NEW T \in SUBSET S PROVE IsFiniteSet(T) /\ ScalarsOn(T, f)
    BY FS_Subset DEF ScalarsOn, NonZero
  <1>2. ASSUME NEW T \in SUBSET S, \A U \in SUBSET T : U # T => U \in Good
        PROVE  T \in Good
    <2>1. CASE T = {}
      <3>1. 1 \in NonZero BY UnitsAreScalars DEF NonZero
      <3> QED BY <1>1, <2>1, <3>1, ProductLaws
    <2>2. CASE T # {}
      <3>1. PICK x \in T : TRUE BY <2>2
      <3>2. T \ {x} \in Good BY <1>2, <3>1
      <3>3. f[x] \in NonZero OBVIOUS
      <3>4. ProductOver(T, f) = Mul(f[x], ProductOver(T \ {x}, f)) BY <1>1, OneSplitOff
      <3> QED BY <3>2, <3>3, <3>4, NoZeroDivisors
    <2> QED BY <2>1, <2>2
  <1> HIDE DEF Good
  <1>3. S \in Good BY <1>2, SubsetInduction
  <1> QED BY <1>3 DEF Good

\* e[m] is the product of m factors a.
PowersOf(e, a, n) ==
  /\ e \in [0 .. n -> Scalars] /\ e[0] = 1
  /\ \A m \in 1 .. n : e[m] = Mul(e[m - 1], a)

\* The nonzero scalars, and each times a.
Itself == [x \in NonZero |-> x]
Multiplied(a) == [x \in NonZero |-> Mul(a, x)]
Image(a, T) == {Mul(a, x) : x \in T}

\* Every nonzero scalar is finite in number, and they are Order - 1.
LEMMA NonZeroCount == IsFiniteSet(NonZero) /\ Cardinality(NonZero) = Order - 1
  <1>1. Order \in Nat /\ Order >= 2 BY OrderAssumption
  <1>2. NonZero = 1 .. Order - 1 BY <1>1 DEF NonZero, Scalars
  <1>3. 1 \in Int /\ Order - 1 \in Int /\ ~ (1 > Order - 1) /\ (Order - 1) - 1 + 1 = Order - 1
    BY <1>1
  <1> QED BY <1>2, <1>3, FS_Interval

\* Multiplying every factor by a multiplies the product by a power of a.
LEMMA ProductOfMultiples ==
  ASSUME NEW a \in NonZero, NEW e, PowersOf(e, a, Order - 1)
  PROVE  ProductOver(NonZero, Multiplied(a))
           = Mul(e[Order - 1], ProductOver(NonZero, Itself))
  <1> DEFINE f == Itself
             g == Multiplied(a)
             Good == {T \in SUBSET NonZero :
                        ProductOver(T, g) = Mul(e[Cardinality(T)], ProductOver(T, f))}
  <1>1. /\ \A x \in NonZero : f[x] = x /\ g[x] = Mul(a, x)
        /\ a \in Scalars /\ NonZero \subseteq Scalars
    BY DEF Itself, Multiplied, NonZero
  <1> HIDE DEF f, g
  <1>2. ASSUME NEW T \in SUBSET NonZero
        PROVE  /\ IsFiniteSet(T) /\ ScalarsOn(T, f) /\ ScalarsOn(T, g)
               /\ Cardinality(T) \in 0 .. Order - 1
    <2>1. IsFiniteSet(T) /\ Cardinality(T) <= Order - 1 /\ Cardinality(T) \in Nat
      BY NonZeroCount, FS_Subset, FS_CardinalityType
    <2>2. Order - 1 \in Nat BY OrderAssumption
    <2>3. Cardinality(T) \in 0 .. Order - 1 BY <2>1, <2>2
    <2>4. \A x \in T : f[x] \in Scalars /\ g[x] \in Scalars BY <1>1, Closed
    <2> QED BY <2>1, <2>3, <2>4 DEF ScalarsOn
  <1>3. ASSUME NEW T \in SUBSET NonZero, \A U \in SUBSET T : U # T => U \in Good
        PROVE  T \in Good
    <2>1. CASE T = {}
      <3>1. ProductOver(T, f) = 1 /\ ProductOver(T, g) = 1 BY <1>2, <2>1, ProductLaws
      <3>2. Cardinality(T) = 0 BY <2>1, FS_EmptySet
      <3>3. e[0] = 1 /\ Mul(1, 1) = 1 BY UnitsAreScalars, UnitsAndNegation DEF PowersOf
      <3> QED BY <3>1, <3>2, <3>3
    <2>2. CASE T # {}
      <3>1. PICK x \in T : TRUE BY <2>2
      <3> DEFINE U == T \ {x}
                 n == Cardinality(T)
                 p == ProductOver(U, f)
                 w == e[n - 1]
      <3>2. U \in SUBSET NonZero /\ U \in Good BY <1>3, <3>1
      <3>3. Cardinality(U) = n - 1 BY <1>2, <3>1, FS_RemoveElement
      <3>4. /\ ProductOver(T, f) = Mul(x, p)
            /\ ProductOver(T, g) = Mul(Mul(a, x), ProductOver(U, g))
        <4>1. x \in T /\ f[x] = x /\ g[x] = Mul(a, x) BY <1>1, <3>1
        <4> HIDE DEF Good
        <4> QED BY <1>2, <4>1, OneSplitOff
      <3>5. ProductOver(U, g) = Mul(w, p) BY <3>2, <3>3
      <3>6. n \in 1 .. Order - 1 /\ n - 1 \in 0 .. Order - 1
        <4>1. n \in 0 .. Order - 1 /\ n - 1 \in 0 .. Order - 1
          BY <1>2, <3>2, <3>3
        <4>2. Order - 1 \in Nat BY OrderAssumption
        <4> HIDE DEF n
        <4> QED BY <4>1, <4>2
      <3>7. e[n] = Mul(w, a) /\ w \in Scalars BY <3>6 DEF PowersOf
      <3>8. p \in Scalars /\ x \in Scalars BY <1>1, <1>2, <3>2, ProductLaws
      <3> HIDE DEF p, w, n
      <3>9. Mul(Mul(a, x), Mul(w, p)) = Mul(Mul(w, a), Mul(x, p))
        <4>1. Mul(a, x) \in Scalars /\ Mul(w, a) \in Scalars BY <1>1, <3>7, <3>8, Closed
        <4>2. Mul(Mul(a, x), Mul(w, p)) = Mul(Mul(Mul(a, x), w), p)
          BY <3>7, <3>8, <4>1, MulAssoc
        <4>3. Mul(Mul(a, x), w) = Mul(w, Mul(a, x)) BY <3>7, <4>1, Commutes
        <4>4. Mul(w, Mul(a, x)) = Mul(Mul(w, a), x) BY <1>1, <3>7, <3>8, MulAssoc
        <4>5. Mul(Mul(Mul(w, a), x), p) = Mul(Mul(w, a), Mul(x, p))
          BY <3>8, <4>1, MulAssoc
        <4> QED BY <4>2, <4>3, <4>4, <4>5
      <3>10. ProductOver(T, g) = Mul(e[n], ProductOver(T, f))
        BY <3>4, <3>5, <3>7, <3>9
      <3> QED BY <3>10 DEF n
    <2> QED BY <2>1, <2>2
  <1> HIDE DEF Good
  <1>4. NonZero \in Good BY <1>3, NonZeroCount, SubsetInduction
  <1> QED BY <1>4, NonZeroCount DEF Good, f, g

\* The factors a*x are those of the image.
LEMMA ProductOfImage ==
  ASSUME NEW a \in NonZero
  PROVE  ProductOver(NonZero, Multiplied(a)) = ProductOver(Image(a, NonZero), Itself)
  <1> DEFINE f == Itself
             g == Multiplied(a)
             Good == {T \in SUBSET NonZero : ProductOver(T, g) = ProductOver(Image(a, T), f)}
  <1>1. /\ \A x \in NonZero : f[x] = x /\ g[x] = Mul(a, x) /\ Mul(a, x) \in NonZero
        /\ NonZero \subseteq Scalars
    BY NoZeroDivisors DEF Itself, Multiplied, NonZero
  <1> HIDE DEF f, g
  <1>2. ASSUME NEW T \in SUBSET NonZero
        PROVE  IsFiniteSet(T) /\ ScalarsOn(T, f) /\ ScalarsOn(T, g)
    <2>1. IsFiniteSet(T) BY NonZeroCount, FS_Subset
    <2>2. \A x \in T : f[x] \in Scalars /\ g[x] \in Scalars BY <1>1
    <2> QED BY <2>1, <2>2 DEF ScalarsOn
  <1>3. ASSUME NEW T \in SUBSET NonZero PROVE Image(a, T) \in SUBSET NonZero
    BY <1>1 DEF Image
  <1>4. ASSUME NEW T \in SUBSET NonZero, \A U \in SUBSET T : U # T => U \in Good
        PROVE  T \in Good
    <2>1. CASE T = {}
      <3>1. Image(a, T) = {} BY <2>1 DEF Image
      <3> QED BY <1>2, <2>1, <3>1, ProductLaws
    <2>2. CASE T # {}
      <3>1. PICK x \in T : TRUE BY <2>2
      <3> DEFINE U == T \ {x}
                 y == Mul(a, x)
      <3>2. U \in SUBSET NonZero /\ U \in Good BY <1>4, <3>1
      <3>3. Image(a, T) \ {y} = Image(a, U) /\ y \in Image(a, T) /\ y \in NonZero
        <4>1. \A z \in U : Mul(a, z) # y
          <5>1. ASSUME NEW z \in U, Mul(a, z) = Mul(a, x) PROVE FALSE
            <6>1. z \in Scalars /\ x \in Scalars /\ z # x BY <1>1, <3>1
            <6> QED BY <5>1, <6>1, CancelFactor
          <5> QED BY <5>1
        <4>2. \A z \in T : z = x \/ z \in U OBVIOUS
        <4>3. y \in NonZero BY <1>1, <3>1
        <4> HIDE DEF Good
        <4> QED BY <3>1, <4>1, <4>2, <4>3 DEF Image
      <3>4. f[y] = y /\ g[x] = y BY <1>1, <3>1, <3>3
      <3>5. ProductOver(T, g) = Mul(y, ProductOver(U, g))
        <4>1. x \in T /\ g[x] = y /\ IsFiniteSet(T) /\ ScalarsOn(T, g) BY <1>2, <3>1, <3>4
        <4> HIDE DEF Good, y
        <4> QED BY <4>1, OneSplitOff
      <3>6. ProductOver(Image(a, T), f) = Mul(y, ProductOver(Image(a, U), f))
        <4> DEFINE W == Image(a, T)
        <4>1. IsFiniteSet(W) /\ ScalarsOn(W, f) BY <1>2, <1>3
        <4>2. y \in W /\ W \ {y} = Image(a, U) BY <3>3
        <4> HIDE DEF W, Good, y, U
        <4> QED BY <3>4, <4>1, <4>2, OneSplitOff DEF W
      <3> QED BY <3>2, <3>5, <3>6
    <2> QED BY <2>1, <2>2
  <1> HIDE DEF Good
  <1>5. NonZero \in Good BY <1>4, NonZeroCount, SubsetInduction
  <1> QED BY <1>5 DEF Good, f, g

\* a^(Order - 1) = 1: multiplication with a only permutes the nonzero scalars.
LEMMA FermatsLittleTheorem ==
  ASSUME NEW a \in NonZero, NEW e, PowersOf(e, a, Order - 1)
  PROVE  e[Order - 1] = 1
  <1> DEFINE p == ProductOver(NonZero, Itself)
  <1>1. Image(a, NonZero) = NonZero
    <2>1. \A x \in NonZero : Mul(a, x) \in NonZero BY NoZeroDivisors
    <2>2. ASSUME NEW y \in NonZero PROVE \E x \in NonZero : Mul(a, x) = y
      <3> DEFINE i == Inv(a)
      <3>1. a \in Scalars /\ i \in Scalars /\ Mul(a, i) = 1 /\ y \in Scalars
        BY Invertible DEF NonZero
      <3>2. i \in NonZero BY <3>1, InverseLaws
      <3>3. Mul(i, y) \in NonZero BY <3>2, NoZeroDivisors
      <3>4. Mul(a, Mul(i, y)) = y BY <3>1, MulAssoc, UnitsAndNegation
      <3> QED BY <3>3, <3>4
    <2> QED BY <2>1, <2>2 DEF Image
  <1>2. p = Mul(e[Order - 1], p) BY <1>1, ProductOfMultiples, ProductOfImage
  <1>3. p \in NonZero /\ p \in Scalars
    <2>1. \A x \in NonZero : Itself[x] \in NonZero BY DEF Itself
    <2>2. p \in NonZero BY <2>1, NonZeroCount, ProductIsNonZero
    <2> QED BY <2>2 DEF NonZero
  <1>4. e[Order - 1] \in Scalars /\ 1 \in Scalars
    <2>1. Order - 1 \in 0 .. Order - 1 BY OrderAssumption
    <2> QED BY <2>1, UnitsAreScalars DEF PowersOf
  <1> HIDE DEF p
  <1>5. Mul(p, e[Order - 1]) = Mul(p, 1) BY <1>2, <1>3, <1>4, Commutes, UnitsAndNegation
  <1> QED BY <1>3, <1>4, <1>5, CancelFactor

=============================================================================
