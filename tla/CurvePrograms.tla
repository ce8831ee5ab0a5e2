---------------------------- MODULE CurvePrograms -----------------------------
(***************************************************************************)
(* Two programs that use GE.  One computes with two points, by any sequence  *)
(* of operators.  The other is handed bytes of unknown origin and gives them *)
(* to the parser that expects them.                                         *)
(***************************************************************************)
EXTENDS Curve

CONSTANTS
  Multipliers,   \* the ints that points are multiplied with
  Excess         \* bound: how far a 32-byte number exceeds FieldSize

ASSUME ProgramsAssumption == Multipliers \subseteq Int /\ Excess \in Nat

VARIABLES
  P, Q,      \* the points of the first program
  input,     \* parser and bytes of the second one
  parsed     \* the point it got, or ValueError

vars == <<P, Q, input, parsed>>
points == <<P, Q>>

-----------------------------------------------------------------------------
(* Bytes.                                                                  *)

Numbers == 0 .. FieldSize + Excess
Tags == {0, 2, 3, 4}
Compressed == Tags \X Numbers

Wire == [with_infinity |-> Compressed,
         any_length    |-> Compressed \cup ({2, 4} \X Numbers \X Numbers),
         xonly         |-> {<<x>> : x \in Numbers}]
Inputs == UNION {[parser : {p}, bytes : Wire[p]] : p \in DOMAIN Wire}

\* from_bytes_compressed_with_infinity, from_bytes and from_bytes_xonly.
Parse(in) == CASE in.parser = "with_infinity" -> FromBytesCompressedWithInfinity(in.bytes)
               [] in.parser = "any_length" -> FromBytes(in.bytes)
               [] in.parser = "xonly" -> FromBytesXonly(in.bytes)

NoInput == [parser |-> "none", bytes |-> <<>>]
Pending == <<-2>>

-----------------------------------------------------------------------------

Init ==
  /\ P = G /\ Q = G
  /\ input \in {NoInput} \cup Inputs
  /\ parsed = Pending

Addition == P' = AddPoints(P, Q) /\ UNCHANGED Q
Subtraction == P' = SubPoints(P, Q) /\ UNCHANGED Q
Negation == P' = NegPoint(P) /\ UNCHANGED Q
Exchange == P' = Q /\ Q' = P
Multiplication == \E a \in Multipliers : P' = RMul(a, P) /\ UNCHANGED Q
BatchMultiplication ==
  \E a, b \in Multipliers :
    P' = BatchMul(<<<<a % Order, P>>, <<b % Order, Q>>>>) /\ UNCHANGED Q

Arithmetic ==
  /\ input = NoInput
  /\ \/ Addition \/ Subtraction \/ Negation \/ Exchange
     \/ Multiplication \/ BatchMultiplication
  /\ UNCHANGED <<input, parsed>>

Parsing ==
  /\ input # NoInput /\ parsed = Pending
  /\ parsed' = Parse(input)
  /\ UNCHANGED <<points, input>>

Next == Arithmetic \/ Parsing

Spec == Init /\ [][Next]_vars

-----------------------------------------------------------------------------
(* Properties.                                                             *)

\* The discrete logarithm, and Order for what is no point of the group.
Log(R) == IF R \in Range(MultiplesOfG)
          THEN (CHOOSE k \in 1 .. Order : MultiplesOfG[k] = R) % Order ELSE Order

\* What ScalarGroup assumes is what the coordinates do.  == subtracts and looks
\* for infinity, and holds exactly of the same point; of P and -P one has an even
\* y, and lift_x finds that one.
PointsAsAssumed ==
  /\ EqualPoints(P, Q) <=> P = Q
  /\ P # Infinity =>
       /\ HasEvenY(P) # HasEvenY(NegPoint(P))
       /\ FromBytesXonly(ToBytesXonly(P)) = IF HasEvenY(P) THEN P ELSE NegPoint(P)

\* The coordinate formulas, double-and-add and the table of powers compute in
\* the cyclic group of order Order: any sequence of operations moves the
\* discrete logarithms as it should, through doublings, inverses and infinity.
Group == INSTANCE AbstractGroup WITH P <- Log(P), Q <- Log(Q)

ImplementsGroup == Group!Spec

\* What the matching to_bytes functions write for a point.
Written(R) ==
  CASE input.parser = "with_infinity" -> {ToBytesCompressedWithInfinity(R)}
    [] input.parser = "any_length" /\ R # Infinity ->
         {ToBytesCompressed(R), ToBytesUncompressed(R)}
    [] input.parser = "xonly" /\ R # Infinity -> {ToBytesXonly(R)}
    [] OTHER -> {}

\* A parser accepts exactly what some point is written as, and returns such a
\* point: no second encoding of a point, no wrapped coordinate, and nothing off
\* the curve gets through.  An x-only encoding, which P and -P share, names the
\* one with even y, and is_valid_x says which numbers are one.
ParsesExactlyEncodings ==
  parsed # Pending =>
    /\ IF \E R \in Points : input.bytes \in Written(R)
       THEN parsed \in Points /\ input.bytes \in Written(parsed)
       ELSE parsed = ValueError
    /\ input.parser = "xonly" =>
         /\ parsed # ValueError => HasEvenY(parsed)
         /\ parsed # ValueError <=> InField(input.bytes[1]) /\ IsValidX(input.bytes[1])

=============================================================================
