---------------------------- MODULE AbstractField ----------------------------
(***************************************************************************)
(* What APrimeFE promises: names bound to values of a prime field.  An      *)
(* operation binds a name to the result, a query answers from the value,    *)
(* and nothing else ever changes a value.  Only division by zero raises.    *)
(***************************************************************************)
EXTENDS PrimeField

CONSTANTS Names, Ints

VARIABLES val,      \* val[x]: the field value of name x
          answer    \* what the last operation returned to its caller

vars == <<val, answer>>

Raised == -1
Silent == -2

\* Python's bool is an int.
AsInt(b) == IF b THEN 1 ELSE 0

Operands == {val[x] : x \in Names} \cup {ScalarOf(i) : i \in Ints}

-----------------------------------------------------------------------------

Init == val = [x \in Names |-> 0] /\ answer = Silent

Bind(x, v) == val' = [val EXCEPT ![x] = v] /\ answer' = Silent

Answer(v) == answer' = v /\ UNCHANGED val

Compute(x, y, b) ==
  \/ Bind(x, Add(val[y], b))
  \/ Bind(x, Sub(val[y], b))
  \/ Bind(x, Mul(val[y], b))
  \/ b # 0 /\ Bind(x, Div(val[y], b))
  \/ b = 0 /\ Answer(Raised)

Transform(x, y) ==
  \/ Bind(x, val[y])
  \/ Bind(x, Neg(val[y]))
  \/ Bind(x, Mul(val[y], val[y]))
  \/ Bind(x, Mul(Mul(val[y], val[y]), val[y]))

Query(x, b) ==
  \/ Answer(val[x])
  \/ Answer(AsInt(val[x] % 2 = 0))
  \/ Answer(AsInt(val[x] = b))

Next == \E x \in Names, b \in Operands :
          \/ Bind(x, b)
          \/ Query(x, b)
          \/ \E y \in Names : Compute(x, y, b) \/ Transform(x, y)

Spec == Init /\ [][Next]_vars

=============================================================================
