--------------------------- MODULE AbstractTweaks ----------------------------
(***************************************************************************)
(* What tweaking promises, without accumulators: there is one public key,   *)
(* a plain tweak adds t*G to it and an x-only tweak adds t*G to the point   *)
(* with its x coordinate and even y.  A tweak that would give infinity does *)
(* nothing.  The history of tweaks says which operation each step was.      *)
(***************************************************************************)
EXTENDS ScalarGroup, Sequences

VARIABLES pk, tweaks, is_xonly

vars == <<pk, tweaks, is_xonly>>

Init == pk \in NonZero /\ tweaks = <<>> /\ is_xonly = <<>>

TweakTo(P) == P # Infinity /\ pk' = P

ApplyPlainTweak(t) ==
  /\ TweakTo(Add(pk, t))
  /\ tweaks' = Append(tweaks, t) /\ is_xonly' = Append(is_xonly, FALSE)

ApplyXonlyTweak(t) ==
  /\ TweakTo(Add(ToXonly(pk), t))
  /\ tweaks' = Append(tweaks, t) /\ is_xonly' = Append(is_xonly, TRUE)

Next == \E t \in Scalars : ApplyPlainTweak(t) \/ ApplyXonlyTweak(t)

Spec == Init /\ [][Next]_vars

=============================================================================
