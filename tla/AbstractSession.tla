--------------------------- MODULE AbstractSession ---------------------------
(***************************************************************************)
(* What a signing session promises, without rounds, nonces or messages:     *)
(* each signer consents once, a signature is issued only when every listed  *)
(* signer has consented and the session was not given up, and only an       *)
(* issued signature is delivered.                                           *)
(***************************************************************************)

VARIABLES
  signers,     \* the listed signers
  consented,   \* those that contributed a partial signature
  outcome,     \* "open", "signed" or "aborted"
  delivered    \* the signers that hold the issued signature

vars == <<signers, consented, outcome, delivered>>

Init == consented = {} /\ outcome = "open" /\ delivered = {}

Consent(i) ==
  /\ i \in signers \ consented
  /\ outcome # "signed"
  /\ consented' = consented \cup {i}
  /\ UNCHANGED <<signers, outcome, delivered>>

Issue ==
  /\ outcome = "open" /\ consented = signers
  /\ outcome' = "signed"
  /\ UNCHANGED <<signers, consented, delivered>>

GiveUp ==
  /\ outcome = "open"
  /\ outcome' = "aborted"
  /\ UNCHANGED <<signers, consented, delivered>>

Deliver(i) ==
  /\ outcome = "signed" /\ i \in signers \ delivered
  /\ delivered' = delivered \cup {i}
  /\ UNCHANGED <<signers, consented, outcome>>

Next == Issue \/ GiveUp \/ \E i \in signers : Consent(i) \/ Deliver(i)

Spec == Init /\ [][Next]_vars

=============================================================================
