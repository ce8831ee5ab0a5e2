-------------------------- MODULE PrimeFieldElements --------------------------
(***************************************************************************)
(* APrimeFE: field elements as fractions num / den that are never reduced    *)
(* until somebody needs the integer.  __int__ then rewrites num and den of   *)
(* the object itself, which every other name of that object sees.           *)
(*                                                                         *)
(* An int operand i behaves like the fraction i / 1 before reduction.        *)
(* __pow__ is modelled for the exponents GE uses, 2 and 3; its builtin pow   *)
(* is repeated multiplication.                                             *)
(***************************************************************************)
EXTENDS PrimeField

CONSTANTS Names,      \* program variables that hold field elements
          Objects,    \* where objects live; one per name is enough
          Ints        \* int operands

ASSUME IntsAssumption == Ints \subseteq Int

VARIABLES name,       \* name[x]: the object bound to x
          heap,       \* heap[o]: num and den of object o
          answer      \* what the last operation returned to its caller

elementsVars == <<name, heap, answer>>

-----------------------------------------------------------------------------
(* Fractions.                                                              *)

Fractions == {e \in [num : Scalars, den : NonZero] : e.num = 0 => e.den = 1}

AnyInt(i) == [num |-> i, den |-> 1]

\* The constructor, once den # 0 has been asserted.
Fraction(num, den) ==
  [num |-> num % Order, den |-> IF num % Order = 0 THEN 1 ELSE den % Order]

Plus(e, f) == Fraction(e.num * f.den + e.den * f.num, e.den * f.den)
Minus(e, f) == Fraction(e.num * f.den - e.den * f.num, e.den * f.den)
Times(e, f) == Fraction(e.num * f.num, e.den * f.den)
Over(e, f) == Fraction(e.num * f.den, e.den * f.num)
Negated(e) == Fraction(-e.num, e.den)
Squared(e) == Fraction(e.num * e.num, e.den * e.den)
Cubed(e) == Fraction(e.num * e.num * e.num, e.den * e.den * e.den)

\* Slip: fractions are compared without their denominators.
Equal_ByNumerators(e, f) == (e.num - f.num) % Order = 0

Equal(e, f) == (e.num * f.den - e.den * f.num) % Order = 0

\* Slip: the cached numerator is stored and the denominator stays.
Normalised_KeepsDen(e) == [e EXCEPT !.num = Div(e.num, e.den)]

Normalised(e) ==
  IF e.den # 1 THEN [num |-> Div(e.num, e.den), den |-> 1] ELSE e

-----------------------------------------------------------------------------
(* The program: names bound to shared, mutable objects.                    *)

Raised == -1
Silent == -2

AsInt(b) == IF b THEN 1 ELSE 0

Value(x) == heap[name[x]]

Operands == {Value(x) : x \in Names} \cup {AnyInt(i) : i \in Ints}

ElementsInit == /\ name \in {[x \in Names |-> o] : o \in Objects}
                /\ heap = [o \in Objects |-> AnyInt(0)]
                /\ answer = Silent

\* x = e: a new object, as APrimeFE operators never return their operands.
\* An object nobody names any more is collected.
Bind(x, e) ==
  /\ \E o \in Objects :
       /\ \A y \in Names \ {x} : name[y] # o
       /\ name' = [name EXCEPT ![x] = o]
       /\ heap' = [p \in Objects |->
                     IF p = o THEN e
                     ELSE IF \E y \in Names \ {x} : name[y] = p THEN heap[p]
                     ELSE AnyInt(0)]
  /\ answer' = Silent

Answer(v) == answer' = v /\ UNCHANGED <<name, heap>>

\* FE(i), FE(e): a new object with the value of the operand.
New(x, f) == Bind(x, Fraction(f.num, f.den))

\* x = y: both names share one object.
Alias(x, y) ==
  /\ name' = [name EXCEPT ![x] = name[y]]
  /\ heap' = [p \in Objects |->
                IF p = name[y] \/ \E z \in Names \ {x} : name[z] = p
                THEN heap[p] ELSE AnyInt(0)]
  /\ answer' = Silent

Arithmetic(x, y, f) == \/ Bind(x, Plus(Value(y), f))
                       \/ Bind(x, Minus(Value(y), f))
                       \/ Bind(x, Times(Value(y), f))

\* Slip: a divisor is tested before it is reduced.
Divide_TestsInt(x, y, f) ==
  \/ f.num # 0 /\ Bind(x, Over(Value(y), f))
  \/ f.num = 0 /\ Answer(Raised)

\* The only operation that fails: the constructor asserts den # 0.
Divide(x, y, f) ==
  \/ f.num % Order # 0 /\ Bind(x, Over(Value(y), f))
  \/ f.num % Order = 0 /\ Answer(Raised)

Transform(x, y) == \/ Bind(x, Negated(Value(y)))
                   \/ Bind(x, Squared(Value(y)))
                   \/ Bind(x, Cubed(Value(y)))

\* int(x), x.is_even(), x.to_bytes(): normalise the object, then answer.
Convert(x) ==
  /\ heap' = [heap EXCEPT ![name[x]] = Normalised(Value(x))]
  /\ \/ answer' = heap'[name[x]].num
     \/ answer' = AsInt(heap'[name[x]].num % 2 = 0)
  /\ UNCHANGED name

Compare(x, f) == Answer(AsInt(Equal(Value(x), f)))

ElementsNext ==
  \E x \in Names :
    \/ Convert(x)
    \/ \E f \in Operands : New(x, f) \/ Compare(x, f)
    \/ \E y \in Names :
         \/ Alias(x, y)
         \/ Transform(x, y)
         \/ \E f \in Operands : Arithmetic(x, y, f) \/ Divide(x, y, f)

ElementsSpec == ElementsInit /\ [][ElementsNext]_elementsVars

-----------------------------------------------------------------------------
(* Properties.                                                             *)

\* Every object is a fraction with reduced, nonzero denominator, and zero is
\* always 0/1: __init__ never meets a zero denominator except in a division.
TypeOK == /\ name \in [Names -> Objects]
          /\ heap \in [Objects -> Fractions]
          /\ answer \in Scalars \cup {Raised, Silent}

\* __eq__ multiplies crosswise instead of reducing: it holds exactly of objects
\* that __int__ would convert to the same integer.
EqualsIffSameInt ==
  \A o, p \in Objects :
    Equal(heap[o], heap[p]) <=> Normalised(heap[o]).num = Normalised(heap[p]).num

\* No sequence of operations on shared, lazily reduced and in-place normalised
\* objects can be told from arithmetic on the values of a prime field: every
\* name keeps its value while others are computed, compared and converted.
Field == INSTANCE AbstractField
           WITH val <- [x \in Names |-> Div(Value(x).num, Value(x).den)]

ImplementsField == Field!Spec

=============================================================================
