-------------------------- MODULE Secp256k1labProofs --------------------------
(***************************************************************************)
(* secp256k1lab, but for the curve: field elements, and the functions for    *)
(* one key.                                                                *)
(*                                                                         *)
(* For every prime Order, any number of names and any int operands, lazily   *)
(* reduced fractions that conversion rewrites in place behave as values of   *)
(* the field.  The argument runs over "e represents v": the numerator is v   *)
(* times the denominator, up to a multiple of Order.  Each operation of      *)
(* APrimeFE represents the sum, product, ... of what its operands            *)
(* represent, and a fraction represents exactly one value.                   *)
(*                                                                         *)
(* The functions for one key are right for every group order, every parity   *)
(* of y, any number of parties and whatever the hashes return.  Everything   *)
(* that schnorr_sign computes is computed from the even point of the key     *)
(* and of the nonce, and what follows rests on that; the inductive           *)
(* invariant says that what is published, signed and shared was computed     *)
(* from the secrets of the parties.                                          *)
(***************************************************************************)
EXTENDS PrimeFieldElements, SingleSigner, FrostSigningLaws

-----------------------------------------------------------------------------
(* Products that vanish.                                                   *)

\* A factor that is no multiple of Order can be cancelled.
LEMMA Cancellation ==
  ASSUME NEW d \in Int, (d % Order) # 0, NEW v \in Scalars, NEW w \in Scalars,
         ((v * d) % Order) = ((w * d) % Order)
  PROVE  v = w
  <1> DEFINE b == d % Order
  <1>1. b \in NonZero /\ b \in Scalars BY Division DEF NonZero
  <1>2. v \in Int /\ w \in Int /\ b \in Int BY <1>1, Closed
  <1>3. Mul(v, b) = Mul(w, b) BY <1>2, ReduceFactor DEF Mul
  <1> HIDE DEF b
  <1>4. \A u \in Scalars : Mul(Mul(u, b), Inv(b)) = u
    BY <1>1, Invertible, MulAssoc, UnitsAndNegation
  <1> QED BY <1>3, <1>4

\* Neither of two factors is a multiple of Order: nor is their product.
LEMMA NonZeroProduct ==
  ASSUME NEW c \in Int, (c % Order) # 0, NEW d \in Int, (d % Order) # 0
  PROVE  c * d \in Int /\ ((c * d) % Order) # 0
  <1>1. (c % Order) \in Scalars /\ 0 \in Scalars BY Division, Closed
  <1>2. c % Order \in Int BY <1>1, Closed
  <1>3. (((c % Order) * d) % Order) = ((c * d) % Order) BY ReduceFactor
  <1>4. ((0 * d) % Order) = 0 BY <1>1, SmallResidue
  <1> QED BY <1>1, <1>3, <1>4, Cancellation

-----------------------------------------------------------------------------
(* Representation.                                                         *)

\* The fraction e stands for the value v of the field: num = v * den modulo Order.
Represents(e, v) ==
  /\ e \in [num : Int, den : Int] /\ v \in Scalars
  /\ (e.den % Order) # 0
  /\ \E k \in Int : e.num = v * e.den + Order * k

\* A fraction represents at most one value.
LEMMA RepresentsOne ==
  ASSUME NEW e, NEW v, NEW w, Represents(e, v), Represents(e, w)
  PROVE  v = w
  <1>1. /\ e.den \in Int /\ (e.den % Order) # 0
        /\ v \in Scalars /\ w \in Scalars /\ v \in Int /\ w \in Int
    BY Closed DEF Represents
  <1>2. PICK k \in Int : e.num = v * e.den + Order * k BY DEF Represents
  <1>3. PICK l \in Int : e.num = w * e.den + Order * l BY DEF Represents
  <1>4. v * e.den = w * e.den + Order * (l - k) BY <1>1, <1>2, <1>3, OrderAssumption
  <1>5. v * e.den \in Int /\ w * e.den \in Int /\ l - k \in Int BY <1>1
  <1>6. ((v * e.den) % Order) = ((w * e.den) % Order) BY <1>4, <1>5, SameResidue
  <1> QED BY <1>1, <1>6, Cancellation

\* The constructor's result represents what its arguments do.
LEMMA FractionRepresents ==
  ASSUME NEW num \in Int, NEW den \in Int, NEW v \in Int,
         (den % Order) # 0, NEW k \in Int, num = v * den + Order * k
  PROVE  Fraction(num, den) \in Fractions /\ Represents(Fraction(num, den), ScalarOf(v))
  <1> DEFINE n == num % Order
             d == den % Order
             u == v % Order
  <1>1. /\ n \in Scalars /\ d \in Scalars /\ u \in Scalars
        /\ num \div Order \in Int /\ den \div Order \in Int /\ v \div Order \in Int
        /\ num = Order * (num \div Order) + n
        /\ den = Order * (den \div Order) + d
        /\ v = Order * (v \div Order) + u
    BY Division
  <1>2. n \in Int /\ d \in Int /\ u \in Int BY <1>1, Closed
  <1> DEFINE f == Fraction(num, den)
             qn == num \div Order
             qd == den \div Order
             qv == v \div Order
             m == qv * (Order * qd + d) + u * qd + k - qn
  <1>3. n = u * d + Order * m /\ m \in Int
    <2> HIDE DEF n, d, u, qn, qd, qv
    <2>1. /\ qn \in Int /\ qd \in Int /\ qv \in Int
          /\ num = Order * qn + n /\ den = Order * qd + d /\ v = Order * qv + u
      BY <1>1 DEF n, d, u, qn, qd, qv
    <2>2. Order * qn + n = (Order * qv + u) * (Order * qd + d) + Order * k BY <2>1
    <2> QED BY <1>2, <2>1, <2>2, OrderAssumption
  <1>4. d # 0 /\ (d % Order) = d BY <1>1, SmallResidue
  <1>5. CASE n # 0
    <2>1. f = [num |-> n, den |-> d] BY <1>5 DEF Fraction
    <2> HIDE DEF f, n, d, u, m
    <2> QED BY <1>1, <1>2, <1>3, <1>4, <1>5, <2>1
            DEF Represents, Fractions, NonZero, ScalarOf, f, u
  <1>6. CASE n = 0
    <2>1. f = [num |-> 0, den |-> 1] BY <1>6 DEF Fraction
    <2>2. u = 0
      <3>1. v * den \in Int OBVIOUS
      <3>2. ((v * den) % Order) = 0 BY <1>6, <3>1, SameResidue
      <3> QED BY <3>2, NonZeroProduct
    <2>3. 0 = 0 * 1 + Order * 0 /\ (1 % Order) = 1 BY OrderAssumption
    <2> QED BY <1>1, <2>1, <2>2, <2>3, UnitsAreScalars
            DEF Represents, Fractions, NonZero, ScalarOf, f, u
  <1> QED BY <1>5, <1>6

\* What a fraction e is divided out to.
Quotient(e) == Div(e.num, e.den)

\* A fraction represents its quotient.
LEMMA RepresentsQuotient ==
  ASSUME NEW e \in Fractions
  PROVE  Represents(e, Quotient(e))
  <1> DEFINE v == Quotient(e)
             q == (v * e.den) \div Order
  <1>1. e.num \in Scalars /\ e.den \in NonZero /\ e.den \in Scalars
    BY DEF Fractions, NonZero
  <1>2. Inv(e.den) \in Scalars /\ Mul(e.den, Inv(e.den)) = 1 BY <1>1, Invertible
  <1>3. v \in Scalars /\ v = Mul(e.num, Inv(e.den)) BY <1>1, <1>2, Closed DEF Quotient, Div
  <1>4. Mul(v, e.den) = e.num
    BY <1>1, <1>2, <1>3, MulAssoc, Commutes, UnitsAndNegation
  <1> HIDE DEF v
  <1>5. v \in Int /\ e.den \in Int /\ e.num \in Int BY <1>1, <1>3, Closed
  <1>6. v * e.den \in Int BY <1>5
  <1>7. q \in Int /\ v * e.den = Order * q + e.num BY <1>4, <1>6, Division DEF Mul
  <1> HIDE DEF q
  <1>8. -q \in Int /\ e.num = v * e.den + Order * (-q) BY <1>5, <1>6, <1>7, OrderAssumption
  <1>9. (e.den % Order) # 0 BY <1>1, SmallResidue DEF NonZero
  <1>10. e \in [num : Int, den : Int] BY <1>5 DEF Fractions
  <1> QED BY <1>3, <1>8, <1>9, <1>10 DEF Represents, v

\* An int operand represents its residue.
LEMMA IntRepresents ==
  ASSUME NEW i \in Int
  PROVE  Represents(AnyInt(i), ScalarOf(i))
  <1>1. /\ (i % Order) \in Scalars /\ i \div Order \in Int
        /\ i = Order * (i \div Order) + (i % Order)
    BY Division
  <1>2. (i % Order) \in Int BY <1>1, Closed
  <1>3. i = (i % Order) * 1 + Order * (i \div Order) BY <1>1, <1>2, OrderAssumption
  <1>4. (1 % Order) # 0 BY SmallResidue, UnitsAreScalars
  <1> QED BY <1>1, <1>3, <1>4 DEF Represents, AnyInt, ScalarOf

\* A represented value is an integer, and what its fraction looks like.
LEMMA Unfolded ==
  ASSUME NEW e, NEW v, Represents(e, v)
  PROVE  /\ e.num \in Int /\ e.den \in Int /\ (e.den % Order) # 0
         /\ v \in Scalars /\ v \in Int
         /\ \E k \in Int : e.num = v * e.den + Order * k
  BY Closed DEF Represents

-----------------------------------------------------------------------------
(* The operations represent the operations of the field.                   *)

\* __add__, __sub__ and __mul__.
LEMMA RingOperations ==
  ASSUME NEW e, NEW f, NEW v, NEW w, Represents(e, v), Represents(f, w)
  PROVE  /\ Plus(e, f) \in Fractions /\ Represents(Plus(e, f), Add(v, w))
         /\ Minus(e, f) \in Fractions /\ Represents(Minus(e, f), Sub(v, w))
         /\ Times(e, f) \in Fractions /\ Represents(Times(e, f), Mul(v, w))
  <1> DEFINE ed == e.den
             fd == f.den
  <1>1. /\ ed \in Int /\ (ed % Order) # 0 /\ v \in Scalars /\ v \in Int
        /\ fd \in Int /\ (fd % Order) # 0 /\ w \in Scalars /\ w \in Int
    BY Unfolded
  <1>2. PICK k \in Int : e.num = v * ed + Order * k BY Unfolded
  <1>3. PICK l \in Int : f.num = w * fd + Order * l BY Unfolded
  <1>4. e.num \in Int /\ f.num \in Int BY Unfolded
  <1>5. ed * fd \in Int /\ ((ed * fd) % Order) # 0 BY <1>1, NonZeroProduct
  <1> HIDE DEF ed, fd
  <1>6. Plus(e, f) \in Fractions /\ Represents(Plus(e, f), Add(v, w))
    <2> DEFINE m == k * fd + ed * l
    <2>1. /\ e.num * fd + ed * f.num \in Int /\ v + w \in Int /\ m \in Int
          /\ e.num * fd + ed * f.num = (v + w) * (ed * fd) + Order * m
      BY <1>1, <1>2, <1>3, <1>4, OrderAssumption
    <2> HIDE DEF m
    <2> QED BY <1>5, <2>1, FractionRepresents DEF Plus, Add, ScalarOf, ed, fd
  <1>7. Minus(e, f) \in Fractions /\ Represents(Minus(e, f), Sub(v, w))
    <2> DEFINE m == k * fd - ed * l
    <2>1. /\ e.num * fd - ed * f.num \in Int /\ v - w \in Int /\ m \in Int
          /\ e.num * fd - ed * f.num = (v - w) * (ed * fd) + Order * m
      BY <1>1, <1>2, <1>3, <1>4, OrderAssumption
    <2> HIDE DEF m
    <2>2. Sub(v, w) = ScalarOf(v - w)
      <3>1. -w \in Int /\ v + (-w) = v - w BY <1>1
      <3> QED BY <1>1, <3>1, ReduceSummand DEF Sub, Add, Neg, ScalarOf
    <2> QED BY <1>5, <2>1, <2>2, FractionRepresents DEF Minus, ed, fd
  <1>8. Times(e, f) \in Fractions /\ Represents(Times(e, f), Mul(v, w))
    <2> DEFINE m == (v * ed) * l + k * (w * fd) + Order * (k * l)
    <2>1. /\ e.num * f.num \in Int /\ v * w \in Int /\ m \in Int
          /\ e.num * f.num = (v * w) * (ed * fd) + Order * m
      BY <1>1, <1>2, <1>3, <1>4, OrderAssumption
    <2> HIDE DEF m
    <2> QED BY <1>5, <2>1, FractionRepresents DEF Times, Mul, ScalarOf, ed, fd
  <1> QED BY <1>6, <1>7, <1>8

\* __neg__ and __pow__.
LEMMA Powers ==
  ASSUME NEW e, NEW v, Represents(e, v)
  PROVE  /\ Negated(e) \in Fractions /\ Represents(Negated(e), Neg(v))
         /\ Squared(e) \in Fractions /\ Represents(Squared(e), Mul(v, v))
         /\ Cubed(e) \in Fractions /\ Represents(Cubed(e), Mul(Mul(v, v), v))
  <1> DEFINE d == e.den
  <1>1. d \in Int /\ (d % Order) # 0 /\ v \in Scalars /\ v \in Int /\ e.num \in Int
    BY Unfolded
  <1>2. PICK k \in Int : e.num = v * d + Order * k BY Unfolded
  <1> HIDE DEF d
  <1>3. Negated(e) \in Fractions /\ Represents(Negated(e), Neg(v))
    <2>1. -e.num \in Int /\ -v \in Int /\ -k \in Int /\ -e.num = (-v) * d + Order * (-k)
      BY <1>1, <1>2, OrderAssumption
    <2> QED BY <1>1, <2>1, FractionRepresents DEF Negated, Neg, ScalarOf, d
  <1>4. Squared(e) \in Fractions /\ Represents(Squared(e), Mul(v, v))
    <2>1. Squared(e) = Times(e, e) BY DEF Squared, Times
    <2> QED BY <2>1, RingOperations
  <1>5. Cubed(e) \in Fractions /\ Represents(Cubed(e), Mul(Mul(v, v), v))
    <2>1. d * d \in Int /\ ((d * d) % Order) # 0 BY <1>1, NonZeroProduct
    <2>2. (d * d) * d \in Int /\ (((d * d) * d) % Order) # 0 BY <1>1, <2>1, NonZeroProduct
    <2> DEFINE m == 3 * (v * v * d * d * k) + 3 * (v * d * Order * k * k) + Order * Order * k * k * k
    <2>3. /\ e.num * e.num * e.num \in Int /\ v * v \in Int /\ (v * v) * v \in Int /\ m \in Int
          /\ e.num * e.num * e.num = ((v * v) * v) * (d * d * d) + Order * m
      BY <1>1, <1>2, OrderAssumption
    <2> HIDE DEF m
    <2>4. Mul(Mul(v, v), v) = ScalarOf((v * v) * v)
      BY <1>1, <2>3, ReduceFactor DEF Mul, ScalarOf
    <2> QED BY <2>2, <2>3, <2>4, FractionRepresents DEF Cubed, d
  <1> QED BY <1>3, <1>4, <1>5

\* A numerator is a multiple of Order exactly when the value is zero.
LEMMA ZeroNumerator ==
  ASSUME NEW f, NEW w, Represents(f, w)
  PROVE  (f.num % Order) = 0 <=> w = 0
  <1>1. f.num \in Int /\ f.den \in Int /\ (f.den % Order) # 0 /\ w \in Scalars /\ w \in Int
    BY Unfolded
  <1>2. PICK k \in Int : f.num = w * f.den + Order * k BY Unfolded
  <1>3. w * f.den \in Int BY <1>1
  <1>4. (f.num % Order) = ((w * f.den) % Order) BY <1>1, <1>2, <1>3, SameResidue
  <1>5. 0 \in Scalars /\ 0 * f.den = 0 BY <1>1, Closed
  <1>6. (0 % Order) = 0 BY <1>5, SmallResidue
  <1> QED BY <1>1, <1>4, <1>5, <1>6, Cancellation

\* __truediv__ by anything but zero.
LEMMA Quotients ==
  ASSUME NEW e, NEW f, NEW v, NEW w, Represents(e, v), Represents(f, w), w # 0
  PROVE  Over(e, f) \in Fractions /\ Represents(Over(e, f), Div(v, w))
  <1> DEFINE ed == e.den
             fd == f.den
             u == Div(v, w)
  <1>1. /\ ed \in Int /\ (ed % Order) # 0 /\ v \in Scalars /\ v \in Int /\ e.num \in Int
        /\ fd \in Int /\ (fd % Order) # 0 /\ w \in Scalars /\ w \in Int /\ f.num \in Int
    BY Unfolded
  <1>2. PICK k \in Int : e.num = v * ed + Order * k BY Unfolded
  <1>3. PICK l \in Int : f.num = w * fd + Order * l BY Unfolded
  <1>4. (f.num % Order) # 0 BY ZeroNumerator
  <1>5. ed * f.num \in Int /\ ((ed * f.num) % Order) # 0 BY <1>1, <1>4, NonZeroProduct
  <1>6. u \in Scalars /\ u \in Int /\ Mul(u, w) = v
    <2>1. w \in NonZero BY <1>1 DEF NonZero
    <2>2. Inv(w) \in Scalars /\ Mul(w, Inv(w)) = 1 BY <2>1, Invertible
    <2>3. u = Mul(v, Inv(w)) /\ u \in Scalars BY <1>1, <2>2, Closed DEF Div
    <2> HIDE DEF u
    <2>4. Mul(u, w) = Mul(v, Mul(Inv(w), w)) BY <1>1, <2>2, <2>3, MulAssoc
    <2>5. Mul(Inv(w), w) = 1 BY <1>1, <2>2, Commutes
    <2>6. u \in Int BY <2>3, Closed
    <2> QED BY <1>1, <2>3, <2>4, <2>5, <2>6, UnitsAndNegation
  <1> HIDE DEF ed, fd, u
  <1> DEFINE q == (u * w) \div Order
             m == k * fd - (ed * fd) * q - (u * ed) * l
  <1>7. q \in Int /\ u * w = Order * q + v
    <2>1. u * w \in Int BY <1>1, <1>6
    <2> QED BY <1>6, <2>1, Division DEF Mul
  <1> HIDE DEF q
  <1>8. e.num * fd \in Int /\ m \in Int /\ e.num * fd = u * (ed * f.num) + Order * m
    <2>1. u * (ed * f.num) = (u * w) * (ed * fd) + Order * ((u * ed) * l)
      BY <1>1, <1>3, <1>6, OrderAssumption
    <2>2. (u * w) * (ed * fd) = v * (ed * fd) + Order * ((ed * fd) * q)
      BY <1>1, <1>6, <1>7, OrderAssumption
    <2>3. e.num * fd = v * (ed * fd) + Order * (k * fd) BY <1>1, <1>2, OrderAssumption
    <2>4. Order * m = Order * (k * fd) - Order * ((ed * fd) * q) - Order * ((u * ed) * l)
      BY <1>1, <1>6, <1>7, OrderAssumption
    <2> DEFINE A == u * (ed * f.num)
               B == (u * w) * (ed * fd)
               C == v * (ed * fd)
               D == Order * ((ed * fd) * q)
               E == Order * ((u * ed) * l)
               F == Order * (k * fd)
               H == e.num * fd
               M == Order * m
    <2>5. /\ A \in Int /\ B \in Int /\ C \in Int /\ D \in Int /\ E \in Int /\ F \in Int
          /\ H \in Int /\ M \in Int /\ m \in Int
      BY <1>1, <1>6, <1>7, OrderAssumption
    <2>6. A = B + E /\ B = C + D /\ H = C + F /\ M = F - D - E
      BY <2>1, <2>2, <2>3, <2>4
    <2>7. H = A + M
      <3> HIDE DEF A, B, C, D, E, F, H, M
      <3> QED BY <2>5, <2>6
    <2> QED BY <2>5, <2>7
  <1> HIDE DEF m
  <1>9. ScalarOf(u) = u BY <1>6, SmallResidue DEF ScalarOf
  <1> QED BY <1>5, <1>6, <1>8, <1>9, FractionRepresents DEF Over, ed, fd, u

\* __eq__ compares the values.
LEMMA EqualValues ==
  ASSUME NEW e, NEW f, NEW v, NEW w, Represents(e, v), Represents(f, w)
  PROVE  Equal(e, f) <=> v = w
  <1>1. Represents(Minus(e, f), Sub(v, w)) BY RingOperations
  <1>2. (Minus(e, f).num % Order) = 0 <=> Sub(v, w) = 0 BY <1>1, ZeroNumerator
  <1>3. /\ e.num \in Int /\ e.den \in Int /\ f.num \in Int /\ f.den \in Int
        /\ v \in Scalars /\ w \in Scalars
    BY Unfolded
  <1> DEFINE n == e.num * f.den - e.den * f.num
  <1>4. n \in Int BY <1>3
  <1>5. Minus(e, f).num = (n % Order) BY DEF Minus, Fraction
  <1>6. (n % Order) \in Scalars BY <1>4, Division
  <1>7. Equal(e, f) <=> Sub(v, w) = 0 BY <1>2, <1>5, <1>6, SmallResidue DEF Equal
  <1>8. Sub(v, w) = 0 <=> v = w
    <2>1. Add(Sub(v, w), w) = v
      BY <1>3, AddAssoc, Commutes, UnitsAndNegation, Closed DEF Sub
    <2>2. Sub(v, v) = 0 BY <1>3, UnitsAndNegation DEF Sub
    <2> QED BY <1>3, <2>1, <2>2, UnitsAndNegation
  <1> QED BY <1>7, <1>8

\* __int__ keeps the value, and leaves it as the numerator.
LEMMA NormalisedFraction ==
  ASSUME NEW e \in Fractions
  PROVE  /\ Normalised(e) \in Fractions
         /\ Normalised(e).num = Quotient(e)
         /\ Quotient(Normalised(e)) = Quotient(e)
         /\ Quotient(e) \in Scalars
  <1> DEFINE v == Quotient(e)
  <1>1. Represents(e, v) /\ v \in Scalars BY RepresentsQuotient DEF Represents
  <1>2. \A u \in Scalars : Represents([num |-> u, den |-> 1], u)
    <2> SUFFICES ASSUME NEW u \in Scalars PROVE Represents([num |-> u, den |-> 1], u)
      OBVIOUS
    <2>1. u \in Int BY Closed
    <2>2. u = u * 1 + Order * 0 BY <2>1, OrderAssumption
    <2>3. (1 % Order) # 0 BY SmallResidue, UnitsAreScalars
    <2> QED BY <2>1, <2>2, <2>3 DEF Represents
  <1>3. Normalised(e) = [num |-> v, den |-> 1]
    <2>1. CASE e.den = 1
      <3>1. e = [num |-> e.num, den |-> 1] /\ e.num \in Scalars BY <2>1 DEF Fractions
      <3>2. Represents(e, e.num) BY <1>2, <3>1
      <3> QED BY <1>1, <2>1, <3>1, <3>2, RepresentsOne DEF Normalised
    <2>2. CASE e.den # 1 BY <2>2 DEF Normalised, Quotient
    <2> QED BY <2>1, <2>2
  <1> HIDE DEF v
  <1>4. Normalised(e) \in Fractions
    BY <1>1, <1>3, UnitsAreScalars DEF Fractions, NonZero
  <1>5. Represents(Normalised(e), v) BY <1>1, <1>2, <1>3
  <1> QED BY <1>1, <1>3, <1>4, <1>5, RepresentsOne, RepresentsQuotient DEF v

-----------------------------------------------------------------------------
(* Names, objects and the operations of the program.                       *)

\* What each name stands for: the abstract variable val.
val == [x \in Names |-> Div(Value(x).num, Value(x).den)]

\* A name's object represents what the name stands for.
LEMMA ValueRepresents ==
  ASSUME TypeOK, NEW x \in Names
  PROVE  /\ Value(x) \in Fractions /\ Represents(Value(x), val[x])
         /\ val[x] = Quotient(Value(x)) /\ val[x] \in Scalars
  <1>1. Value(x) \in Fractions BY DEF TypeOK, Value
  <1>2. val[x] = Quotient(Value(x)) BY DEF val, Quotient
  <1> QED BY <1>1, <1>2, RepresentsQuotient, NormalisedFraction

\* An operand stands for an operand of the abstract field.
LEMMA OperandRepresents ==
  ASSUME TypeOK, NEW f \in Operands
  PROVE  \E b \in Field!Operands : Represents(f, b)
  <1>1. CASE \E x \in Names : f = Value(x)
    BY <1>1, ValueRepresents DEF Field!Operands, val
  <1>2. CASE \E i \in Ints : f = AnyInt(i)
    <2>1. PICK i \in Ints : f = AnyInt(i) BY <1>2
    <2>2. i \in Int BY IntsAssumption
    <2>3. ScalarOf(i) \in Field!Operands BY DEF Field!Operands, Field!ScalarOf, ScalarOf
    <2> QED BY <2>1, <2>2, <2>3, IntRepresents
  <1> QED BY <1>1, <1>2 DEF Operands

\* Zero is 0/1.
LEMMA ZeroFraction == AnyInt(0) \in Fractions
  BY UnitsAreScalars DEF AnyInt, Fractions, NonZero

\* Binding a name to a new object changes what no other name stands for.
LEMMA BindStep ==
  ASSUME TypeOK, NEW x \in Names, NEW e \in Fractions, NEW v, Represents(e, v),
         Bind(x, e)
  PROVE  TypeOK' /\ Field!Bind(x, v)
  <1>1. PICK o \in Objects :
          /\ \A y \in Names \ {x} : name[y] # o
          /\ name' = [name EXCEPT ![x] = o]
          /\ heap' = [p \in Objects |->
                        IF p = o THEN e
                        ELSE IF \E y \in Names \ {x} : name[y] = p THEN heap[p]
                        ELSE AnyInt(0)]
    BY DEF Bind
  <1>2. answer' = Silent BY DEF Bind
  <1>3. name' \in [Names -> Objects] /\ heap' \in [Objects -> Fractions]
    BY <1>1, ZeroFraction DEF TypeOK
  <1>4. TypeOK' BY <1>2, <1>3 DEF TypeOK
  <1>5. \A y \in Names : Value(y)' = IF y = x THEN e ELSE Value(y)
    BY <1>1 DEF TypeOK, Value
  <1>6. Quotient(e) = v BY RepresentsQuotient, RepresentsOne
  <1>7. \A y \in Names : val'[y] = IF y = x THEN v ELSE val[y]
    BY <1>5, <1>6 DEF val, Quotient
  <1>8. val' = [val EXCEPT ![x] = v] BY <1>7 DEF val
  <1> QED BY <1>2, <1>4, <1>8 DEF Field!Bind, Field!Silent, Silent, val

\* A second name for an object stands for the same value.
LEMMA AliasStep ==
  ASSUME TypeOK, NEW x \in Names, NEW y \in Names, Alias(x, y)
  PROVE  TypeOK' /\ Field!Bind(x, val[y])
  <1>1. /\ name' = [name EXCEPT ![x] = name[y]]
        /\ heap' = [p \in Objects |->
                      IF p = name[y] \/ \E z \in Names \ {x} : name[z] = p
                      THEN heap[p] ELSE AnyInt(0)]
        /\ answer' = Silent
    BY DEF Alias
  <1>2. name' \in [Names -> Objects] /\ heap' \in [Objects -> Fractions]
    BY <1>1, ZeroFraction DEF TypeOK
  <1>3. TypeOK' BY <1>1, <1>2 DEF TypeOK
  <1>4. \A z \in Names : Value(z)' = IF z = x THEN Value(y) ELSE Value(z)
    BY <1>1 DEF TypeOK, Value
  <1>5. \A z \in Names : val'[z] = IF z = x THEN val[y] ELSE val[z]
    BY <1>4 DEF val
  <1>6. val' = [val EXCEPT ![x] = val[y]] BY <1>5 DEF val
  <1> QED BY <1>1, <1>3, <1>6 DEF Field!Bind, Field!Silent, Silent, val

\* Rewriting an object in place changes what no name stands for, though many
\* may share it.
LEMMA ConvertStep ==
  ASSUME TypeOK, NEW x \in Names, NEW b, Convert(x)
  PROVE  TypeOK' /\ Field!Query(x, b)
  <1> DEFINE o == name[x]
             e == heap[o]
  <1>1. /\ o \in Objects /\ e \in Fractions /\ Value(x) = e
        /\ name \in [Names -> Objects] /\ heap \in [Objects -> Fractions]
    BY DEF TypeOK, Value
  <1>2. /\ heap' = [heap EXCEPT ![o] = Normalised(e)] /\ name' = name
        /\ \/ answer' = heap'[o].num
           \/ answer' = AsInt(heap'[o].num % 2 = 0)
    BY DEF Convert, Value
  <1>3. /\ Normalised(e) \in Fractions /\ Normalised(e).num = val[x]
        /\ Quotient(Normalised(e)) = Quotient(e) /\ val[x] \in Scalars
    BY <1>1, NormalisedFraction, ValueRepresents
  <1> HIDE DEF o, e
  <1>4. heap'[o].num = val[x] /\ heap' \in [Objects -> Fractions] BY <1>1, <1>2, <1>3
  <1>5. \/ answer' = val[x]
        \/ answer' = AsInt(val[x] % 2 = 0)
    BY <1>2, <1>4
  <1>6. AsInt(val[x] % 2 = 0) \in Scalars BY UnitsAreScalars DEF AsInt
  <1>7. TypeOK' BY <1>1, <1>2, <1>3, <1>4, <1>5, <1>6 DEF TypeOK
  <1>8. \A y \in Names : Quotient(Value(y)') = Quotient(Value(y))
    BY <1>1, <1>2, <1>3 DEF Value, e
  <1>9. val' = val BY <1>8 DEF val, Quotient
  <1> QED BY <1>5, <1>7, <1>9
          DEF Field!Query, Field!Answer, Field!AsInt, AsInt, val

\* An answer that changes nothing.
LEMMA AnswerStep ==
  ASSUME TypeOK, NEW v \in Scalars \cup {Raised}, Answer(v)
  PROVE  TypeOK' /\ Field!Answer(v)
  BY DEF TypeOK, Answer, Field!Answer, Value

\* The operations that build a new object.
LEMMA ArithmeticStep ==
  ASSUME TypeOK, NEW x \in Names, NEW y \in Names, NEW f, NEW b, Represents(f, b),
         Arithmetic(x, y, f) \/ Divide(x, y, f)
  PROVE  TypeOK' /\ Field!Compute(x, y, b)
  <1> DEFINE e == Value(y)
  <1>1. Represents(e, val[y]) BY ValueRepresents
  <1> HIDE DEF e
  <1>2. /\ Plus(e, f) \in Fractions /\ Represents(Plus(e, f), Add(val[y], b))
        /\ Minus(e, f) \in Fractions /\ Represents(Minus(e, f), Sub(val[y], b))
        /\ Times(e, f) \in Fractions /\ Represents(Times(e, f), Mul(val[y], b))
    BY <1>1, RingOperations
  <1>3. (f.num % Order) = 0 <=> b = 0 BY ZeroNumerator
  <1>4. CASE Arithmetic(x, y, f)
    <2>1. TypeOK' /\ \/ Field!Bind(x, Add(val[y], b))
                     \/ Field!Bind(x, Sub(val[y], b))
                     \/ Field!Bind(x, Mul(val[y], b))
      BY <1>2, <1>4, BindStep DEF Arithmetic, e
    <2> QED BY <2>1 DEF Field!Compute, Field!Add, Field!Sub, Field!Neg, Field!Mul,
                        Add, Sub, Neg, Mul, val
  <1>5. CASE Divide(x, y, f) /\ b # 0
    <2>1. Over(e, f) \in Fractions /\ Represents(Over(e, f), Div(val[y], b))
      BY <1>1, <1>5, Quotients
    <2>2. TypeOK' /\ Field!Bind(x, Div(val[y], b))
      BY <1>3, <1>5, <2>1, BindStep DEF Divide, e
    <2> QED BY <1>5, <2>2 DEF Field!Compute, Field!Div, Field!Inv, Field!Mul, Field!Scalars,
                              Div, Inv, Mul, Scalars, val
  <1>6. CASE Divide(x, y, f) /\ b = 0
    <2>1. Answer(Raised) BY <1>3, <1>6 DEF Divide
    <2>2. TypeOK' /\ Field!Answer(Raised) BY <2>1, AnswerStep
    <2> QED BY <1>6, <2>2 DEF Field!Compute, Field!Raised, Raised
  <1> QED BY <1>4, <1>5, <1>6

\* __neg__ and __pow__ of the object of a name.
LEMMA TransformStep ==
  ASSUME TypeOK, NEW x \in Names, NEW y \in Names, Transform(x, y)
  PROVE  TypeOK' /\ Field!Transform(x, y)
  <1> DEFINE e == Value(y)
             v == val[y]
  <1>1. Represents(e, v) BY ValueRepresents
  <1> HIDE DEF e, v
  <1>2. /\ Negated(e) \in Fractions /\ Represents(Negated(e), Neg(v))
        /\ Squared(e) \in Fractions /\ Represents(Squared(e), Mul(v, v))
        /\ Cubed(e) \in Fractions /\ Represents(Cubed(e), Mul(Mul(v, v), v))
    BY <1>1, Powers
  <1>3. TypeOK' /\ \/ Field!Bind(x, Neg(v))
                   \/ Field!Bind(x, Mul(v, v))
                   \/ Field!Bind(x, Mul(Mul(v, v), v))
    BY <1>2, BindStep DEF Transform, e
  <1> QED BY <1>3 DEF Field!Transform, Field!Neg, Field!Mul, Neg, Mul, val, v

\* FE(f): a new object for an operand.
LEMMA NewStep ==
  ASSUME TypeOK, NEW x \in Names, NEW f, NEW b, Represents(f, b), New(x, f)
  PROVE  TypeOK' /\ Field!Bind(x, b)
  <1>1. f.num \in Int /\ f.den \in Int /\ (f.den % Order) # 0 /\ b \in Int /\ b \in Scalars
    BY Unfolded
  <1>2. PICK k \in Int : f.num = b * f.den + Order * k BY Unfolded
  <1>3. ScalarOf(b) = b BY <1>1, SmallResidue DEF ScalarOf
  <1>4. Fraction(f.num, f.den) \in Fractions /\ Represents(Fraction(f.num, f.den), b)
    BY <1>1, <1>2, <1>3, FractionRepresents
  <1> QED BY <1>4, BindStep DEF New

\* x == f answers whether the values are equal.
LEMMA CompareStep ==
  ASSUME TypeOK, NEW x \in Names, NEW f, NEW b, Represents(f, b), Compare(x, f)
  PROVE  TypeOK' /\ Field!Query(x, b)
  <1>1. Equal(Value(x), f) <=> val[x] = b BY ValueRepresents, EqualValues
  <1>2. Answer(AsInt(val[x] = b)) BY <1>1 DEF Compare, AsInt
  <1>3. AsInt(val[x] = b) \in Scalars BY UnitsAreScalars DEF AsInt
  <1>4. TypeOK' /\ Field!Answer(AsInt(val[x] = b)) BY <1>2, <1>3, AnswerStep
  <1> QED BY <1>4 DEF Field!Query, Field!AsInt, AsInt, val

\* Every step of the program is a step of the field.
LEMMA NextStep ==
  ASSUME TypeOK, ElementsNext
  PROVE  TypeOK' /\ Field!Next
  <1>1. PICK x \in Names :
          \/ Convert(x)
          \/ \E f \in Operands : New(x, f) \/ Compare(x, f)
          \/ \E y \in Names :
               \/ Alias(x, y)
               \/ Transform(x, y)
               \/ \E f \in Operands : Arithmetic(x, y, f) \/ Divide(x, y, f)
    BY DEF ElementsNext
  <1>2. PICK c \in Field!Operands : c = val[x] BY DEF Field!Operands, val
  <1>3. CASE Convert(x)
    BY <1>1, <1>2, <1>3, ConvertStep DEF Field!Next
  <1>4. CASE \E f \in Operands : New(x, f) \/ Compare(x, f)
    <2>1. PICK f \in Operands : New(x, f) \/ Compare(x, f) BY <1>4
    <2>2. PICK b \in Field!Operands : Represents(f, b) BY OperandRepresents
    <2>3. TypeOK' /\ (Field!Bind(x, b) \/ Field!Query(x, b))
      BY <2>1, <2>2, NewStep, CompareStep
    <2> QED BY <2>3 DEF Field!Next
  <1>5. CASE \E y \in Names : Alias(x, y) \/ Transform(x, y)
    <2>1. PICK y \in Names : Alias(x, y) \/ Transform(x, y) BY <1>5
    <2>2. TypeOK' /\ Field!Transform(x, y)
      <3>1. CASE Alias(x, y)
        <4>1. TypeOK' /\ Field!Bind(x, val[y]) BY <3>1, AliasStep
        <4> QED BY <4>1 DEF Field!Transform, val
      <3> QED BY <2>1, <3>1, TransformStep
    <2> QED BY <1>2, <2>2 DEF Field!Next
  <1>6. CASE \E y \in Names, f \in Operands : Arithmetic(x, y, f) \/ Divide(x, y, f)
    <2>1. PICK y \in Names, f \in Operands : Arithmetic(x, y, f) \/ Divide(x, y, f) BY <1>6
    <2>2. PICK b \in Field!Operands : Represents(f, b) BY OperandRepresents
    <2>3. TypeOK' /\ Field!Compute(x, y, b) BY <2>1, <2>2, ArithmeticStep
    <2> QED BY <2>3 DEF Field!Next
  <1> QED BY <1>1, <1>3, <1>4, <1>5, <1>6

-----------------------------------------------------------------------------
(* The theorems.                                                           *)

\* Every name starts as zero.
LEMMA InitStep ==
  ASSUME ElementsInit
  PROVE  TypeOK /\ Field!Init
  <1>1. TypeOK BY ZeroFraction DEF ElementsInit, TypeOK
  <1>2. Represents(AnyInt(0), ScalarOf(0)) /\ ScalarOf(0) = 0
    BY IntRepresents, UnitsAreScalars, SmallResidue DEF ScalarOf
  <1>3. Quotient(AnyInt(0)) = 0
    BY <1>2, ZeroFraction, RepresentsQuotient, RepresentsOne
  <1>4. \A x \in Names : Value(x) = AnyInt(0) BY DEF ElementsInit, Value
  <1>5. val = [x \in Names |-> 0] BY <1>3, <1>4 DEF val, Quotient
  <1> QED BY <1>1, <1>5 DEF ElementsInit, Field!Init, Field!Silent, Silent, val

\* The ranges are inductive.
LEMMA StepTypeOK == TypeOK /\ [ElementsNext]_elementsVars => TypeOK'
  <1>1. TypeOK /\ ElementsNext => TypeOK' BY NextStep
  <1>2. TypeOK /\ UNCHANGED elementsVars => TypeOK' BY DEF TypeOK, elementsVars
  <1> QED BY <1>1, <1>2

\* No denominator ever becomes a multiple of Order, and zero is always 0/1,
\* whatever is computed, shared, compared and converted.
THEOREM ElementsTypeOK == ElementsSpec => []TypeOK
  BY InitStep, StepTypeOK, PTL DEF ElementsSpec

\* __eq__ holds exactly of objects that int() converts to the same integer.
THEOREM EqualityIsOfValues == ElementsSpec => []EqualsIffSameInt
  <1>1. ASSUME TypeOK PROVE EqualsIffSameInt
    <2> SUFFICES ASSUME NEW o \in Objects, NEW p \in Objects
                 PROVE  Equal(heap[o], heap[p])
                          <=> Normalised(heap[o]).num = Normalised(heap[p]).num
      BY DEF EqualsIffSameInt
    <2>1. heap[o] \in Fractions /\ heap[p] \in Fractions BY <1>1 DEF TypeOK
    <2> QED BY <2>1, RepresentsQuotient, EqualValues, NormalisedFraction
  <1> QED BY <1>1, ElementsTypeOK, PTL

\* Sharing and in-place reduction cannot be observed: APrimeFE implements
\* arithmetic on the values of a prime field, for every prime.
THEOREM ElementsImplementField == ElementsSpec => ImplementsField
  <1>1. ElementsInit => Field!Init BY InitStep
  <1>2. TypeOK /\ [ElementsNext]_elementsVars => [Field!Next]_<<val, answer>>
    <2>1. TypeOK /\ ElementsNext => Field!Next BY NextStep
    <2>2. UNCHANGED elementsVars => UNCHANGED <<val, answer>> BY DEF elementsVars, val, Value
    <2> QED BY <2>1, <2>2
  <1> QED BY <1>1, <1>2, ElementsTypeOK, PTL
          DEF ElementsSpec, ImplementsField, Field!Spec, Field!vars, val

-----------------------------------------------------------------------------
(* schnorr_sign and schnorr_verify.                                        *)

\* An even point is named by a scalar, and the secret of the even point is
\* its discrete logarithm.
LEMMA EvenSecrets ==
  ASSUME NEW d \in NonZero
  PROVE  /\ Mul(d, G) = d
         /\ EvenSecret(d) = ToXonly(d)
         /\ ToXonly(d) \in NonZero
  <1>1. d \in Scalars /\ d # 0 BY DEF NonZero
  <1>2. Mul(d, G) = d /\ Neg(d) = Order - d BY <1>1, UnitsAndNegation DEF G
  <1> QED BY <1>2, NegNonZero DEF EvenSecret, ToXonly

\* A difference determines its minuend.
LEMMA Minuend ==
  ASSUME NEW a \in Scalars, NEW b \in Scalars
  PROVE  a = Add(Sub(a, b), b)
  <1>1. Neg(b) \in Scalars BY Closed
  <1>2. Add(Add(a, Neg(b)), b) = Add(a, Add(Neg(b), b)) BY <1>1, AddAssoc
  <1>3. Add(Neg(b), b) = 0 BY <1>1, Commutes, UnitsAndNegation
  <1> QED BY <1>2, <1>3, UnitsAndNegation DEF Sub

\* The one signature with the nonce k of the key of d.
TheSignature(d, k, msg) ==
  <<ToXonly(k), Add(ToXonly(k), Mul(ChallengeOf(ToXonly(k), ToXonly(d), msg), ToXonly(d)))>>

\* For a nonce the verifier accepts one number, and no other.
LEMMA OneNumberVerifies ==
  ASSUME NEW d \in NonZero, NEW k \in NonZero, NEW msg,
         ChallengeOf(ToXonly(k), ToXonly(d), msg) \in Scalars
  PROVE  LET sig == TheSignature(d, k, msg)
         IN  /\ sig[2] \in Scalars
             /\ SchnorrVerify(msg, ToXonly(d), sig)
             /\ \A s : SchnorrVerify(msg, ToXonly(d), <<sig[1], s>>) => s = sig[2]
  <1> DEFINE R == ToXonly(k)
             P == ToXonly(d)
             eP == Mul(ChallengeOf(R, P, msg), P)
             number == Add(R, eP)
             sig == TheSignature(d, k, msg)
  <1>1. R \in Scalars /\ P \in Scalars BY EvenSecrets DEF NonZero
  <1>2. eP \in Scalars BY <1>1, Closed
  <1>3. number \in Scalars BY <1>1, <1>2, Closed
  <1>4. sig = <<R, number>> BY DEF TheSignature
  <1>5. SchnorrVerify(msg, P, <<R, number>>) BY <1>3, VerifyEquation
  <1>6. ASSUME NEW s, SchnorrVerify(msg, P, <<R, s>>) PROVE s = number
    <2> HIDE DEF R, P, number
    <2>1. s \in Scalars /\ R = Sub(Mul(s, G), eP)
      BY <1>6 DEF SchnorrVerify, ScalarInRange
    <2>2. Mul(s, G) = s BY <2>1, UnitsAndNegation DEF G
    <2> HIDE DEF eP
    <2>3. s = Add(R, eP) BY <1>2, <2>1, <2>2, Minuend
    <2> QED BY <2>3 DEF number
  <1> HIDE DEF R, P, number, sig
  <1>7. sig[1] = R /\ sig[2] = number BY <1>4
  <1> QED BY <1>3, <1>4, <1>5, <1>6, <1>7 DEF sig, P

\* What schnorr_sign may be called with.
Callable(msg, aux_rand) == msg \in Messages /\ aux_rand \in AuxRands

\* What schnorr_sign returns or raises: its own check never fails.
LEMMA SchnorrSignReturns ==
  ASSUME NEW msg, NEW d0, NEW aux_rand, Callable(msg, aux_rand)
  PROVE  LET k == NonceOf(InputsOf(d0, aux_rand, msg))
             result == SchnorrSign(msg, d0, aux_rand)
         IN  \/ result.kind = "ValueError" \/ result = RuntimeError
             \/ /\ d0 \in NonZero /\ k \in NonZero
                /\ ChallengeOf(ToXonly(k), ToXonly(d0), msg) \in Scalars
                /\ result = Returns(TheSignature(d0, k, msg))
  <1> DEFINE x == InputsOf(d0, aux_rand, msg)
             k == NonceOf(x)
             result == SchnorrSign(msg, d0, aux_rand)
             sig == TheSignature(d0, k, msg)
  <1>1. CASE ~ NonZeroScalarInRange(d0) \/ aux_rand = WrongLength \/ k = 0
    BY <1>1 DEF SchnorrSign, ValueError
  <1>2. CASE NonZeroScalarInRange(d0) /\ aux_rand # WrongLength /\ k # 0
    <2>1. d0 \in NonZero BY <1>2 DEF NonZeroScalarInRange
    <2>2. /\ Mul(d0, G) = d0 /\ EvenSecret(d0) = ToXonly(d0) /\ ToXonly(d0) \in NonZero
      BY <2>1, EvenSecrets
    <2>3. x[1] = ToXonly(d0) + AuxHash(aux_rand) /\ x[2] = ToXonly(d0) /\ x[3] = msg
      BY <2>2 DEF InputsOf, NonceInputs
    <2>4. NonceHash(x[1], x[2], x[3]) \in Int
      <3>1. msg \in Messages /\ aux_rand \in AuxRands \ {WrongLength}
        BY <1>2 DEF Callable
      <3> HIDE DEF x
      <3> QED BY <2>2, <2>3, <3>1, HashAssumption
    <2> HIDE DEF x
    <2>5. k \in NonZero BY <1>2, <2>4, Division DEF NonceOf, ScalarOf, NonZero
    <2> HIDE DEF k
    <2>6. Mul(k, G) = k /\ EvenSecret(k) = ToXonly(k) /\ ToXonly(k) \in NonZero
      BY <2>5, EvenSecrets
    <2>7. ChallengeOf(ToXonly(k), ToXonly(d0), msg) \in Scalars
      <3>1. ChallengeHash(ToXonly(k), ToXonly(d0), msg) \in Int
        BY <2>2, <2>6, HashAssumption DEF Callable
      <3> QED BY <3>1, Division DEF ChallengeOf, ScalarOf
    <2>8. SigOf(EvenSecret(d0), k, ToXonly(Mul(k, G)), ToXonly(Mul(d0, G)), msg) = sig
      BY <2>2, <2>6 DEF SigOf, TheSignature
    <2>9. SchnorrVerify(msg, ToXonly(d0), sig) BY <2>1, <2>5, <2>7, OneNumberVerifies
    <2>10. SignUnder(d0, k, msg) = Checked(sig, ToXonly(d0), msg)
      BY <2>2, <2>8 DEF SignUnder
    <2>11. result = SignUnder(d0, k, msg) BY <1>2 DEF SchnorrSign, x, k
    <2> HIDE DEF sig, result
    <2>12. result = Returns(sig) BY <2>9, <2>10, <2>11 DEF Checked
    <2> QED BY <2>1, <2>5, <2>7, <2>12 DEF result, sig, k, x
  <1> QED BY <1>1, <1>2

-----------------------------------------------------------------------------
(* The inductive invariant: what was published, signed and shared is what   *)
(* the functions return for the secrets of the parties.                     *)

\* What publishing gives a party, and what it has before.
KeysOf(p) == [xonly |-> PubkeyGen(seckey[p]), plain |-> PubkeyGenPlain(seckey[p])]
NoKeys == [xonly |-> NothingYet, plain |-> NothingYet]

\* A party has published nothing or the keys of its secret.
Published(p) == published[p] \in {NoKeys, KeysOf(p)}

\* An attempt ended as schnorr_sign ends for the secret of its party.
Attempted(a) ==
  /\ Callable(a.msg, a.aux_rand) /\ a.party \in Parties
  /\ a.result = SchnorrSign(a.msg, seckey[a.party], a.aux_rand)

\* A shared secret was computed from the other party's published key.
Shared(p, q) ==
  \/ shared[p][q] = NothingYet
  \/ /\ Succeeds(PubkeyGenPlain(seckey[q]))
     /\ shared[p][q] = EcdhCompressedInRawOut(seckey[p], PubkeyGenPlain(seckey[q]).val)

\* Everything that is kept is the function of a secret.
IInv ==
  /\ seckey \in [Parties -> Nat]
  /\ DOMAIN published = Parties /\ \A p \in Parties : Published(p)
  /\ \A a \in attempts : Attempted(a)
  /\ DOMAIN shared = Parties
  /\ \A p \in Parties : DOMAIN shared[p] = Parties /\ \A q \in Parties : Shared(p, q)

\* Nothing was published, signed or shared at the start.
LEMMA InitIInv == Init => IInv
  <1> SUFFICES ASSUME Init PROVE IInv OBVIOUS
  <1>1. seckey \in [Parties -> Nat] /\ attempts = {} BY SignerAssumption DEF Init
  <1>2. published = [p \in Parties |-> NoKeys] BY DEF Init, NoKeys
  <1>3. shared = [p \in Parties |-> [q \in Parties |-> NothingYet]] BY DEF Init
  <1>4. \A p \in Parties : Published(p) BY <1>2 DEF Published
  <1>5. \A p, q \in Parties : Shared(p, q) BY <1>3 DEF Shared
  <1> QED BY <1>1, <1>2, <1>3, <1>4, <1>5 DEF IInv

\* Publishing gives the keys of the secret.
LEMMA PublishIInv ==
  ASSUME IInv, NEW p \in Parties, Publish(p)
  PROVE  IInv'
  <1>1. /\ published' = [published EXCEPT ![p] = KeysOf(p)]
        /\ UNCHANGED <<seckey, attempts, shared>>
    BY DEF Publish, KeysOf
  <1>2. DOMAIN published' = Parties /\ \A q \in Parties : Published(q)'
    BY <1>1 DEF IInv, Published, KeysOf
  <1>3. \A a \in attempts : Attempted(a)' BY <1>1 DEF IInv, Attempted
  <1>4. \A r, q \in Parties : Shared(r, q)' BY <1>1 DEF IInv, Shared
  <1> QED BY <1>1, <1>2, <1>3, <1>4 DEF IInv

\* A call of schnorr_sign adds an attempt that ended as the function does.
LEMMA CallSchnorrSignIInv ==
  ASSUME IInv, NEW p \in Parties, NEW msg \in Messages, NEW aux_rand \in AuxRands,
         CallSchnorrSign(p, msg, aux_rand)
  PROVE  IInv'
  <1> DEFINE new == [party |-> p, msg |-> msg, aux_rand |-> aux_rand,
                     result |-> SchnorrSign(msg, seckey[p], aux_rand)]
  <1>1. /\ attempts' = attempts \cup {new} /\ new' = new
        /\ UNCHANGED <<seckey, published, shared>>
    BY DEF CallSchnorrSign
  <1>2. Attempted(new)' BY <1>1 DEF Attempted, Callable
  <1>3. \A a \in attempts : Attempted(a)' BY <1>1 DEF IInv, Attempted
  <1> HIDE DEF new
  <1>4. \A a \in attempts' : Attempted(a)' BY <1>1, <1>2, <1>3
  <1>5. /\ \A q \in Parties : Published(q)'
        /\ \A r, q \in Parties : Shared(r, q)'
    BY <1>1 DEF IInv, Published, KeysOf, Shared
  <1> QED BY <1>1, <1>4, <1>5 DEF IInv

\* A key that was published is the one the shared secret is computed from.
LEMMA AgreeIInv ==
  ASSUME IInv, NEW p \in Parties, NEW q \in Parties \ {p}, Agree(p, q)
  PROVE  IInv'
  <1> DEFINE key == PubkeyGenPlain(seckey[q])
             secret == EcdhCompressedInRawOut(seckey[p], key.val)
  <1>1. published[q].plain.kind = "returns" /\ UNCHANGED <<seckey, published, attempts>>
    BY DEF Agree
  <1>2. published[q].plain = key /\ Succeeds(key)
    BY <1>1 DEF IInv, Published, KeysOf, NoKeys, NothingYet, Succeeds
  <1>3. shared' = [shared EXCEPT ![p][q] = secret] BY <1>2 DEF Agree
  <1> HIDE DEF key, secret
  <1>4. /\ DOMAIN shared' = Parties
        /\ \A r \in Parties : DOMAIN shared'[r] = Parties
        /\ shared'[p][q] = secret
        /\ \A r, s \in Parties : <<r, s>> # <<p, q>> => shared'[r][s] = shared[r][s]
    BY <1>3 DEF IInv
  <1>5. ASSUME NEW r \in Parties, NEW s \in Parties PROVE Shared(r, s)'
    <2>1. CASE r = p /\ s = q BY <1>1, <1>2, <1>4, <2>1 DEF Shared, key, secret
    <2>2. CASE <<r, s>> # <<p, q>> BY <1>1, <1>4, <2>2 DEF IInv, Shared
    <2> QED BY <2>1, <2>2
  <1> QED BY <1>1, <1>4, <1>5 DEF IInv, Published, KeysOf, Attempted

\* Every step preserves the invariant.
LEMMA NextIInv == IInv /\ [Next]_vars => IInv'
  <1> SUFFICES ASSUME IInv, [Next]_vars PROVE IInv' OBVIOUS
  <1>1. CASE UNCHANGED vars
    BY <1>1 DEF IInv, Published, KeysOf, Attempted, Shared, vars
  <1>2. CASE Next
    BY <1>2, PublishIInv, CallSchnorrSignIInv, AgreeIInv DEF Next
  <1> QED BY <1>1, <1>2

-----------------------------------------------------------------------------
(* What follows from it.                                                   *)

\* A signature is the one of the secret and the nonce it was made with, and
\* the key it belongs to is the x-only key of that secret.
LEMMA SignatureOfSecret ==
  ASSUME IInv, NEW a \in signatures
  PROVE  LET d == seckey[a.party]
             k == NonceOf(InputsOf(d, a.aux_rand, a.msg))
         IN  /\ d \in NonZero /\ k \in NonZero
             /\ ChallengeOf(ToXonly(k), ToXonly(d), a.msg) \in Scalars
             /\ a.result = Returns(TheSignature(d, k, a.msg))
             /\ a.result.val = TheSignature(d, k, a.msg)
             /\ published[a.party].xonly # NothingYet => Key(a.party) = ToXonly(d)
  <1> DEFINE d == seckey[a.party]
             k == NonceOf(InputsOf(d, a.aux_rand, a.msg))
             sig == TheSignature(d, k, a.msg)
             result == SchnorrSign(a.msg, d, a.aux_rand)
  <1>1. Callable(a.msg, a.aux_rand) /\ a.party \in Parties /\ a.result = result
    BY DEF IInv, signatures, Attempted
  <1>2. Succeeds(result) BY <1>1 DEF signatures
  <1>3. ~ (result.kind = "ValueError" \/ result = RuntimeError)
    <2> HIDE DEF result
    <2> QED BY <1>2 DEF Succeeds, RuntimeError
  <1>4. /\ d \in NonZero /\ k \in NonZero
        /\ ChallengeOf(ToXonly(k), ToXonly(d), a.msg) \in Scalars
        /\ result = Returns(sig)
    BY <1>1, <1>3, SchnorrSignReturns
  <1> HIDE DEF sig, result
  <1>5. a.result = Returns(sig) /\ a.result.val = sig BY <1>1, <1>4 DEF Returns
  <1>6. PubkeyGen(d) = Returns(ToXonly(d))
    BY <1>4, EvenSecrets DEF PubkeyGen, NonZeroScalarInRange
  <1>7. published[a.party].xonly # NothingYet => Key(a.party) = ToXonly(d)
    <2>1. published[a.party] \in {NoKeys, KeysOf(a.party)} BY <1>1 DEF IInv, Published
    <2> QED BY <1>6, <2>1 DEF NoKeys, KeysOf, Key, Returns
  <1> QED BY <1>4, <1>5, <1>7 DEF sig

\* OnlyItsSignatureVerifies, in every state of the invariant.
LEMMA IInvVerifies == IInv => OnlyItsSignatureVerifies
  <1> SUFFICES ASSUME IInv PROVE OnlyItsSignatureVerifies OBVIOUS
  <1>1. ASSUME NEW a \in attempts PROVE a.result # AssertionError
    <2> DEFINE d == seckey[a.party]
               sig == TheSignature(d, NonceOf(InputsOf(d, a.aux_rand, a.msg)), a.msg)
    <2>1. Callable(a.msg, a.aux_rand) /\ a.result = SchnorrSign(a.msg, d, a.aux_rand)
      BY DEF IInv, Attempted
    <2>2. a.result.kind = "ValueError" \/ a.result \in {RuntimeError, Returns(sig)}
      BY <2>1, SchnorrSignReturns
    <2> HIDE DEF sig
    <2> QED BY <2>2 DEF RuntimeError, AssertionError, Returns
  <1>2. ASSUME NEW a \in signatures, published[a.party].xonly # NothingYet
        PROVE  {s \in 0 .. 2 * Order : SchnorrVerify(a.msg, Key(a.party), <<a.result.val[1], s>>)}
                 = {a.result.val[2]}
    <2> DEFINE d == seckey[a.party]
               k == NonceOf(InputsOf(d, a.aux_rand, a.msg))
               sig == TheSignature(d, k, a.msg)
    <2>1. /\ d \in NonZero /\ k \in NonZero
          /\ ChallengeOf(ToXonly(k), ToXonly(d), a.msg) \in Scalars
          /\ a.result.val = sig /\ Key(a.party) = ToXonly(d)
      BY <1>2, SignatureOfSecret
    <2> HIDE DEF d, k
    <2>2. /\ sig[2] \in Scalars
          /\ SchnorrVerify(a.msg, ToXonly(d), sig)
          /\ \A s : SchnorrVerify(a.msg, ToXonly(d), <<sig[1], s>>) => s = sig[2]
      BY <2>1, OneNumberVerifies
    <2>3. sig = <<sig[1], sig[2]>> BY DEF TheSignature
    <2>4. sig[2] \in 0 .. 2 * Order BY <2>2, OrderAssumption DEF Scalars
    <2> HIDE DEF sig
    <2> QED BY <2>1, <2>2, <2>3, <2>4
  <1> QED BY <1>1, <1>2 DEF OnlyItsSignatureVerifies

\* SameKeySignsAlike, in every state of the invariant.
LEMMA IInvSignsAlike == IInv => SameKeySignsAlike
  <1> SUFFICES ASSUME IInv, NEW a \in signatures, NEW b \in signatures,
                      a.msg = b.msg, a.aux_rand = b.aux_rand,
                      published[a.party].xonly # NothingYet,
                      published[b.party].xonly # NothingYet,
                      Key(a.party) = Key(b.party)
               PROVE  a.result = b.result
    BY DEF SameKeySignsAlike
  <1> DEFINE d(c) == seckey[c.party]
             x(c) == InputsOf(d(c), c.aux_rand, c.msg)
  <1>1. \A c \in {a, b} : /\ d(c) \in NonZero /\ Key(c.party) = ToXonly(d(c))
                          /\ c.result = Returns(TheSignature(d(c), NonceOf(x(c)), c.msg))
    BY SignatureOfSecret
  <1>2. ToXonly(d(a)) = ToXonly(d(b)) BY <1>1
  <1>3. /\ Mul(d(a), G) = d(a) /\ EvenSecret(d(a)) = ToXonly(d(a))
        /\ Mul(d(b), G) = d(b) /\ EvenSecret(d(b)) = ToXonly(d(b))
    BY <1>1, EvenSecrets
  <1>4. x(a) = x(b) BY <1>2, <1>3 DEF InputsOf
  <1> HIDE DEF d, x
  <1>5. TheSignature(d(a), NonceOf(x(a)), a.msg) = TheSignature(d(b), NonceOf(x(b)), b.msg)
    BY <1>2, <1>4 DEF TheSignature
  <1> QED BY <1>1, <1>5

\* NonceServesOneChallenge, in every state of the invariant.
LEMMA IInvOneChallenge == IInv => NonceServesOneChallenge
  <1> SUFFICES ASSUME IInv, NEW a \in signatures, NEW b \in signatures,
                      InputsOf(seckey[a.party], a.aux_rand, a.msg)
                        = InputsOf(seckey[b.party], b.aux_rand, b.msg)
               PROVE  /\ a.result.val[1] = b.result.val[1]
                      /\ ChallengeOf(a.result.val[1], ToXonly(seckey[a.party]), a.msg)
                           = ChallengeOf(b.result.val[1], ToXonly(seckey[b.party]), b.msg)
    BY DEF NonceServesOneChallenge
  <1> DEFINE d(c) == seckey[c.party]
             x(c) == InputsOf(d(c), c.aux_rand, c.msg)
  <1>1. \A c \in {a, b} : /\ d(c) \in NonZero
                          /\ c.result.val = TheSignature(d(c), NonceOf(x(c)), c.msg)
    BY SignatureOfSecret
  <1>2. Mul(d(a), G) = d(a) /\ Mul(d(b), G) = d(b) BY <1>1, EvenSecrets
  <1>3. /\ x(a)[2] = ToXonly(d(a)) /\ x(a)[3] = a.msg
        /\ x(b)[2] = ToXonly(d(b)) /\ x(b)[3] = b.msg
    BY <1>2 DEF InputsOf, NonceInputs
  <1> HIDE DEF x, d
  <1>4. x(a) = x(b) BY DEF x, d
  <1>5. a.result.val[1] = ToXonly(NonceOf(x(a))) /\ b.result.val[1] = ToXonly(NonceOf(x(b)))
    BY <1>1 DEF TheSignature
  <1> QED BY <1>3, <1>4, <1>5 DEF d

\* SharedSecretsAgree, in every state of the invariant.
LEMMA IInvSharedAgree == IInv => SharedSecretsAgree
  <1> SUFFICES ASSUME IInv, NEW p \in Parties, NEW q \in Parties,
                      Succeeds(shared[p][q]), Succeeds(shared[q][p])
               PROVE  shared[p][q] = shared[q][p]
    BY DEF SharedSecretsAgree
  <1>1. ASSUME NEW r \in {p, q}, NEW s \in {p, q}, Succeeds(shared[r][s])
        PROVE  /\ seckey[r] \in Scalars /\ seckey[s] \in Scalars
               /\ shared[r][s] = Returns(Mul(seckey[r], seckey[s]))
    <2> DEFINE key == PubkeyGenPlain(seckey[s])
               secret == EcdhCompressedInRawOut(seckey[r], seckey[s])
    <2>1. /\ Succeeds(key)
          /\ shared[r][s] = EcdhCompressedInRawOut(seckey[r], key.val)
      BY <1>1 DEF IInv, Shared, NothingYet, Succeeds
    <2>2. seckey[s] \in NonZero /\ key = Returns(Mul(seckey[s], G))
      BY <2>1 DEF PubkeyGenPlain, NonZeroScalarInRange, Succeeds, ValueError
    <2>3. shared[r][s] = secret BY <2>1, <2>2, EvenSecrets DEF Returns
    <2> HIDE DEF key
    <2>4. seckey[r] \in Scalars /\ secret = Returns(Mul(seckey[r], seckey[s]))
      <3> DEFINE d == seckey[r]
                 key_s == seckey[s]
      <3>1. ~ Succeeds(AssertionError) /\ \A check : ~ Succeeds(ValueError(check))
        BY ValueErrorsAre, KindsDiffer DEF Succeeds, AssertionError
      <3>2. Succeeds(EcdhCompressedInRawOut(d, key_s)) BY <1>1, <2>3
      <3> HIDE DEF d, key_s
      <3>3. d \in Scalars /\ EcdhCompressedInRawOut(d, key_s) = Returns(Mul(d, key_s))
        BY <3>1, <3>2 DEF EcdhCompressedInRawOut, ScalarInRange
      <3> QED BY <3>3 DEF d, key_s
    <2> QED BY <2>2, <2>3, <2>4 DEF NonZero
  <1>2. Mul(seckey[p], seckey[q]) = Mul(seckey[q], seckey[p]) BY <1>1, Commutes
  <1> QED BY <1>1, <1>2

-----------------------------------------------------------------------------
(* The theorems.                                                           *)

\* schnorr_sign never fails its final check, and for the nonce of a signature
\* no number but its own verifies under the published key.
THEOREM SignaturesVerifyUniquely == Spec => []OnlyItsSignatureVerifies
  BY InitIInv, NextIInv, IInvVerifies, PTL DEF Spec

\* The two secrets of one x-only key sign alike.
THEOREM SecretsOfOneKeySignAlike == Spec => []SameKeySignsAlike
  BY InitIInv, NextIInv, IInvSignsAlike, PTL DEF Spec

\* A nonce that schnorr_sign derives twice answers one challenge.
THEOREM DerivedNonceAnswersOnce == Spec => []NonceServesOneChallenge
  BY InitIInv, NextIInv, IInvOneChallenge, PTL DEF Spec

\* Two parties that both computed an ECDH secret computed the same one.
THEOREM PartiesShareTheirSecret == Spec => []SharedSecretsAgree
  BY InitIInv, NextIInv, IInvSharedAgree, PTL DEF Spec

=============================================================================
