----------------------------- MODULE CallResults -----------------------------
(***************************************************************************)
(* What a call of a Python function returns or raises.  Of the message of a  *)
(* ValueError the check that raises it is kept, by name; of other messages   *)
(* nothing is.                                                              *)
(***************************************************************************)

Returns(v) == [kind |-> "returns", val |-> v]
Succeeds(r) == r.kind = "returns"

\* The statements that follow a call; an exception skips them.
Then(r, next(_)) == IF Succeeds(r) THEN next(r.val) ELSE r

ValueError(check) == [kind |-> "ValueError", check |-> check]
RuntimeError == [kind |-> "RuntimeError"]
AssertionError == [kind |-> "AssertionError"]

=============================================================================
