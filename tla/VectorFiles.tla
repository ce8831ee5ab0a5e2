------------------------------ MODULE VectorFiles ------------------------------
(***************************************************************************)
(* gen_vectors.py and the script tests.sh that calls it: the vector files    *)
(* are deleted and regenerated one by one, a generator may raise before or   *)
(* while it writes its file, and a run may be interrupted at any point and   *)
(* be repeated later, by then with other code.                               *)
(***************************************************************************)
EXTENDS Naturals, Sequences

CONSTANTS
  Generators,   \* the generators, a sequence in the order of main
  MaxVersion    \* bound: how often the code is edited

ASSUME FilesAssumption ==
  Generators \in Seq(STRING) /\ Generators # <<>> /\ MaxVersion \in Nat

VARIABLES
  version,   \* of the code
  disk,      \* for every generator its file: absent, or the version and whether it is whole
  step,      \* what tests.sh is doing
  results,   \* what run_gen_vectors returned so far
  exit       \* the exit status of the last run of gen_vectors.py

vars == <<version, disk, step, results, exit>>

Absent == <<>>
File(whole) == <<version, whole>>
Positions == DOMAIN Generators

Init ==
  /\ version = 0
  /\ disk = [k \in Positions |-> Absent]
  /\ step = "idle"
  /\ results = <<>>
  /\ exit = "none"

EditCode ==
  /\ step = "idle" /\ version < MaxVersion
  /\ version' = version + 1
  /\ UNCHANGED <<disk, step, results, exit>>

Start ==
  /\ step = "idle"
  /\ step' = "deleting" /\ results' = <<>> /\ exit' = "none"
  /\ UNCHANGED <<version, disk>>

\* The files that create_vectors_directory removes.
\* Slip: it only makes the directory.
ToRemove_Nothing == {}

ToRemove == {k \in Positions : disk[k] # Absent}

\* In the order of the directory.
RemoveFile ==
  /\ step = "deleting"
  /\ \E k \in ToRemove : disk' = [disk EXCEPT ![k] = Absent]
  /\ UNCHANGED <<version, step, results, exit>>

DirectoryReady ==
  /\ step = "deleting" /\ ToRemove = {}
  /\ step' = "generating"
  /\ UNCHANGED <<version, disk, results, exit>>

\* What run_gen_vectors returns when the generator raised.
\* Slip: the same as otherwise.
OnFailure_Succeed == TRUE

OnFailure == FALSE

GoesOn == Len(results) < Len(Generators)

\* The next generator writes its file, raises before it opens it, or raises while
\* it writes.
RunGenVectors ==
  /\ step = "generating" /\ GoesOn
  /\ LET k == Len(results) + 1
     IN  \/ /\ disk' = [disk EXCEPT ![k] = File(TRUE)]
            /\ results' = Append(results, TRUE)
         \/ /\ disk' \in {disk, [disk EXCEPT ![k] = File(FALSE)]}
            /\ results' = Append(results, OnFailure)
  /\ UNCHANGED <<version, step, exit>>

\* Slip: any success is enough.
ExitStatus_Any == IF \E k \in DOMAIN results : results[k] THEN "success" ELSE "failure"

ExitStatus == IF \A k \in DOMAIN results : results[k] THEN "success" ELSE "failure"

\* tests.sh runs tests.py only after success.
Finish ==
  /\ step = "generating" /\ ~ GoesOn
  /\ exit' = ExitStatus
  /\ step' = IF ExitStatus = "success" THEN "testing" ELSE "idle"
  /\ UNCHANGED <<version, disk, results>>

EndTests ==
  /\ step = "testing"
  /\ step' = "idle"
  /\ UNCHANGED <<version, disk, results, exit>>

\* An interrupt, or an error while files are removed, ends both scripts; a file
\* that is being written may be left in part.
Interrupt ==
  /\ step \in {"deleting", "generating"}
  /\ disk' \in {disk} \cup
       (IF step = "generating" /\ GoesOn
        THEN {[disk EXCEPT ![Len(results) + 1] = File(FALSE)]} ELSE {})
  /\ step' = "idle" /\ exit' = "interrupted"
  /\ UNCHANGED <<version, results>>

Next ==
  \/ EditCode \/ Start \/ RemoveFile \/ DirectoryReady \/ RunGenVectors
  \/ Finish \/ EndTests \/ Interrupt

Spec == Init /\ [][Next]_vars

-----------------------------------------------------------------------------
(* Properties.                                                             *)

(* gen_vectors.py:47-50 and tests.sh:2: tests.py only ever runs against six  *)
(* whole files that the present code has generated.                          *)
TestsReadFreshFiles == step = "testing" => \A k \in Positions : disk[k] = File(TRUE)

(* gen_vectors.py:19-20: whatever raises, is interrupted and is repeated     *)
(* after edits, the directory never mixes the output of two versions.        *)
OneVersionOnDisk ==
  \A j, k \in Positions :
    disk[j] # Absent /\ disk[k] # Absent => disk[j][1] = disk[k][1]

(* gen_vectors.py:27-33: while a run goes on, exactly the generators that    *)
(* reported success have left a whole file.                                  *)
ResultsMatchFiles ==
  step = "generating" =>
    \A k \in Positions :
      disk[k] = File(TRUE) <=> k \in DOMAIN results /\ results[k]

=============================================================================
